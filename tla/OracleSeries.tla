----------------------------- MODULE OracleSeries -----------------------------
(***************************************************************************)
(* run_final_oracle.py and run_extra_oracle.py of the deferred query       *)
(* validation: a test program is run again and again, on the validation    *)
(* layers, on the drivers before and after the change, with the feature    *)
(* off and on.  A run is a check, which must succeed, or a control, which  *)
(* must be seen to fail.  The first surprise ends the series; runs.json,   *)
(* written again after every run, is what is kept of it.                   *)
(*                                                                         *)
(* The test program may be useless: blind, so that it never finds fault,   *)
(* or alarmist, so that it always does.  A driver may be wrong in one mode *)
(* of the test, and may ignore the setting of a control.                   *)
(*                                                                         *)
(* Right before some definitions stands a variant of them with a mistake   *)
(* in it; nothing uses it.                                                 *)
(***************************************************************************)
EXTENDS Naturals, Sequences

CONSTANTS
  Labels,      \* <<[name, enabled, skips]>>: what is tested, in this order
  Repeats,     \* rounds of the faults and controls of an enabled driver (3)
  Final        \* run_final_oracle.py, or run_extra_oracle.py

VARIABLES
  program,     \* history: "works", "blind", "alarmist"
  wrong,       \* history: <<driver, mode>> in which a driver is wrong, or none
  step,        \* runs that were made
  pc,          \* "run", "truncated", "ended"
  report, file

vars == <<program, wrong, step, pc, report, file>>

-----------------------------------------------------------------------------
(* The plan                                                                *)

Modes == <<"positive", "lifetime", "simultaneous", "poll-availability", "early-copy-control">>

Run(label, secondary, mode) ==
  [on |-> label.name, secondary |-> secondary, mode |-> mode,
   control |-> mode \in {"early-copy-control", "premature-control"}]

(* A mode that is skipped on the driver before the change.                 *)
Kept(label) ==
  LET kept[i \in 0 .. Len(Modes)] ==
        IF i = 0 THEN <<>>
        ELSE IF Modes[i] \in label.skips THEN kept[i - 1] ELSE Append(kept[i - 1], Modes[i])
  IN kept[Len(Modes)]

(* Primary command buffers, then secondary ones.                           *)
Sweep(label) ==
  LET some == Kept(label)
  IN [i \in 1 .. Len(some) |-> Run(label, FALSE, some[i])]
       \o [i \in 1 .. Len(some) |-> Run(label, TRUE, some[i])]

Round(label) ==
  <<Run(label, FALSE, "allocation-failure"), Run(label, FALSE, "premature-control"),
    Run(label, TRUE, "allocation-failure"), Run(label, TRUE, "premature-control")>>

WithoutControls(plan) == SelectSeq(plan, LAMBDA s : ~s.control)

(* The faults and their controls, over and over, where the feature is on.  *)
Rounds(label) ==
  [i \in 1 .. (IF label.enabled THEN 4 * Repeats ELSE 0) |-> Round(label)[((i - 1) % 4) + 1]]

StepsOfWithoutControls(label) == WithoutControls(Sweep(label) \o Rounds(label))

StepsOf(label) ==
  IF Final THEN Sweep(label) \o Rounds(label) ELSE <<Run(label, FALSE, "empty-outside")>>

(* One label after the other. *)
Upto[l \in 0 .. Len(Labels)] == IF l = 0 THEN <<>> ELSE Upto[l - 1] \o StepsOf(Labels[l])

Plan == Upto[Len(Labels)]

-----------------------------------------------------------------------------
(* The test program, which is not in the scripts                           *)

Tested == {<<Plan[i].on, Plan[i].mode>> : i \in DOMAIN Plan}

Init ==
  /\ program \in {"works", "blind", "alarmist"}
  /\ wrong \in Tested \cup {<<"none", "none">>}
  /\ step = 0 /\ pc = "run" /\ report = <<>> /\ file = <<>>

(* Whether the program reports a failure in this run: it does in a control *)
(* and where the driver is wrong.  A driver wrong in a control does not    *)
(* honour it, and the program finds everything in order.                   *)
FindsFault(s) ==
  CASE program = "blind" -> FALSE
    [] program = "alarmist" -> TRUE
    [] OTHER -> s.control # (wrong = <<s.on, s.mode>>)

-----------------------------------------------------------------------------
(* The series                                                              *)

OkIfItRan(s) == TRUE

(* The exit status is the expected one; a control must have found its      *)
(* faults, to the number.                                                  *)
Ok(s) == FindsFault(s) = s.control

RunsUnrecorded ==
  /\ pc = "run" /\ step < Len(Plan)
  /\ step' = step + 1
  /\ file' = <<>> /\ pc' = "truncated"
  /\ UNCHANGED <<program, wrong, report>>

Runs ==
  /\ pc = "run" /\ step < Len(Plan)
  /\ report' = Append(report, [run |-> Plan[step + 1], ok |-> Ok(Plan[step + 1])])
  /\ step' = step + 1
  /\ file' = <<>> /\ pc' = "truncated"
  /\ UNCHANGED <<program, wrong>>

(* A run that takes too long ends the series unreported. *)
RunHangs ==
  /\ pc = "run" /\ step < Len(Plan)
  /\ pc' = "ended"
  /\ UNCHANGED <<program, wrong, step, report, file>>

WritesAndGoesOn ==
  /\ pc = "truncated"
  /\ file' = report
  /\ pc' = IF step = Len(Plan) THEN "ended" ELSE "run"
  /\ UNCHANGED <<program, wrong, step, report>>

(* runs.json, and on only if the run was as expected. *)
Writes ==
  /\ pc = "truncated"
  /\ file' = report
  /\ pc' = IF step = Len(Plan) \/ ~report[step].ok THEN "ended" ELSE "run"
  /\ UNCHANGED <<program, wrong, step, report>>

Dies ==
  /\ pc # "ended"
  /\ pc' = "ended"
  /\ UNCHANGED <<program, wrong, step, report, file>>

Next == Runs \/ RunHangs \/ Writes \/ Dies

Spec == Init /\ [][Next]_vars

-----------------------------------------------------------------------------
(* Properties                                                              *)

TypeOK ==
  /\ step \in 0 .. Len(Plan) /\ Len(report) = step
  /\ pc \in {"run", "truncated", "ended"}
  /\ Len(file) <= step /\ \A i \in DOMAIN file : file[i] = report[i]

CompleteFile == Len(file) = Len(Plan) /\ \A i \in DOMAIN file : file[i].ok

(* A complete file without a surprise means that the program finds faults, *)
(* and only real ones, and that every driver is right in every mode it was *)
(* tried in: a useless program cannot produce one.                         *)
CompleteMeansRight == CompleteFile => program = "works" /\ wrong = <<"none", "none">>

(* A blind program is found out on the validation layers, before anything  *)
(* is written about a driver.                                              *)
BlindIsCaughtFirst ==
  program = "blind" => \A i \in DOMAIN file : file[i].run.on = Labels[1].name

(* The series without controls: a complete file means that no driver is    *)
(* wrong if the program works, and that it is not alarmist.                *)
CompleteMeansNoFault ==
  CompleteFile => program # "alarmist" /\ (program = "works" => wrong = <<"none", "none">>)

(* A run with a surprise is the last of its series, and is written down    *)
(* unless the script was killed: no later run is started to replace it.    *)
SurpriseIsLast == \A i \in DOMAIN report : ~report[i].ok => i = Len(report)
=============================================================================
