------------------------------- MODULE CtsGate --------------------------------
(***************************************************************************)
(* Checks that must wait for a conformance comparison of a driver, in the  *)
(* two forms the repository has:                                           *)
(*   compiler-cache-2026-10-19   run_candidate_cts.py makes the comparison *)
(*     (three runs), run_android_checks.py waits for it, through anything; *)
(*   deferred-query-2026-10-19   run_cts_matrix.py makes it (four runs),   *)
(*     run_extra_oracle.py waits, and does not expect a file it cannot     *)
(*     read.                                                               *)
(*                                                                         *)
(* They are processes of their own, started by hand in either order, that  *)
(* share one file, cts-comparison.json.  It is written again after each    *)
(* run, not atomically: truncated first, then filled.  Either process may  *)
(* be killed anywhere, and the maker may be started again.                 *)
(*                                                                         *)
(* Right before some definitions stands a variant of them with a mistake   *)
(* in it; nothing uses it.                                                 *)
(***************************************************************************)
EXTENDS Naturals, Sequences, FiniteSets

CONSTANTS
  Total,            \* comparison runs: 3, 4
  Tolerant,         \* the waiting script survives a file it cannot read
  ExactBaseline,    \* it also refuses improvements
  MaxStarts         \* bound on how often the maker is started

VARIABLES
  maker,            \* "idle", "next", "running", "truncated", "done", "failed"
  report,           \* the maker's list of results
  outputs,          \* run directories that exist
  file,             \* "absent", "partial", or the list that was written
  starts,
  waiter,           \* "idle", "waiting", "checking", "passed", "refused", "died"
  outcome           \* history: what each comparison run really came to

made == <<maker, report, outputs, starts>>
vars == <<made, file, waiter, outcome>>

(* Cases that changed: none, only for the better, some to something else   *)
(* than a pass.                                                            *)
Outcomes == {"same", "gain", "change"}
Absent == [state |-> "absent", runs |-> <<>>]
Partial == [state |-> "partial", runs |-> <<>>]
Written(runs) == [state |-> "written", runs |-> runs]

Init ==
  /\ maker = "idle" /\ report = <<>> /\ outputs = {} /\ file = Absent /\ starts = 0
  /\ waiter = "idle" /\ outcome = [n \in 1 .. Total |-> "none"]

-----------------------------------------------------------------------------
(* run_candidate_cts.py, run_cts_matrix.py                                 *)

StartsWithOldList ==
  /\ maker \in {"idle", "failed"} /\ starts < MaxStarts
  /\ maker' = "running" /\ report' = file.runs /\ starts' = starts + 1
  /\ UNCHANGED <<outputs, file, waiter, outcome>>

(* The baseline is read; the list starts empty, the file is left as it is. *)
(* The second form makes a part of its baseline first, once for all.       *)
Starts ==
  /\ maker \in {"idle", "failed"} /\ starts < MaxStarts
  /\ starts' = starts + 1 /\ report' = <<>>
  /\ IF ExactBaseline
       THEN /\ maker' = IF 0 \in outputs THEN "failed" ELSE "next"
            /\ outputs' = outputs \cup {0}
       ELSE maker' = "next" /\ UNCHANGED outputs
  /\ UNCHANGED <<file, waiter, outcome>>

Number == Len(report) + 1

RunsAgain ==
  /\ maker = "next" /\ Number <= Total
  /\ outputs' = outputs \cup {Number} /\ maker' = "running"
  /\ UNCHANGED <<report, file, starts, waiter, outcome>>

(* A directory that exists belongs to an earlier attempt: not again. *)
RunsCts ==
  /\ maker = "next" /\ Number <= Total
  /\ IF Number \in outputs
       THEN maker' = "failed" /\ UNCHANGED outputs
       ELSE outputs' = outputs \cup {Number} /\ maker' = "running"
  /\ UNCHANGED <<report, file, starts, waiter, outcome>>

(* All cases, each once; they are compared with the baseline, and the file *)
(* is opened to be written.                                                *)
Compares ==
  /\ maker = "running"
  /\ \E o \in Outcomes :
       /\ report' = Append(report, o)
       /\ outcome' = [outcome EXCEPT ![Number] = o]
  /\ file' = Partial /\ maker' = "truncated"
  /\ UNCHANGED <<outputs, starts, waiter>>

(* The test program fails or takes too long, or its results are not those  *)
(* of the case list.                                                       *)
CtsFails ==
  /\ maker = "running"
  /\ maker' = "failed"
  /\ UNCHANGED <<report, outputs, file, starts, waiter, outcome>>

WritesOnSuccess ==
  /\ maker = "truncated"
  /\ file' = IF report[Len(report)] = "change" THEN Written(SubSeq(report, 1, Len(report) - 1))
             ELSE Written(report)
  /\ maker' = IF Number > Total THEN "done" ELSE "next"
  /\ UNCHANGED <<report, outputs, starts, waiter, outcome>>

(* A change to anything but a pass is written, and is the end. *)
Writes ==
  /\ maker = "truncated"
  /\ file' = Written(report)
  /\ maker' = IF report[Len(report)] = "change" THEN "failed"
              ELSE IF Number > Total THEN "done" ELSE "next"
  /\ UNCHANGED <<report, outputs, starts, waiter, outcome>>

MakerDies ==
  /\ maker \in {"next", "running", "truncated"}
  /\ maker' = "failed"
  /\ UNCHANGED <<report, outputs, file, starts, waiter, outcome>>

-----------------------------------------------------------------------------
(* run_android_checks.py, run_extra_oracle.py                              *)

WaiterStarts ==
  /\ waiter = "idle"
  /\ waiter' = "waiting"
  /\ UNCHANGED <<made, file, outcome>>

Regressed(runs) == \E n \in DOMAIN runs : runs[n] = "change"
Changed(runs) == \E n \in DOMAIN runs : runs[n] # "same"

LooksAtLength(runs) == IF Len(runs) = Total THEN "checking" ELSE "waiting"

(* What a look at a readable file leads to. *)
Verdict(runs) ==
  IF ~ExactBaseline
    THEN IF Regressed(runs) THEN "refused"
         ELSE IF Len(runs) = Total THEN "checking" ELSE "waiting"
    ELSE IF Len(runs) # Total THEN "waiting"
         ELSE IF Changed(runs) THEN "refused" ELSE "checking"

UnreadableIsFatal == "died"

(* A file that is absent, or cut off and no JSON. *)
Unreadable == IF Tolerant THEN "waiting" ELSE "died"

Polls ==
  /\ waiter = "waiting"
  /\ waiter' = IF file.state = "written" THEN Verdict(file.runs) ELSE Unreadable
  /\ UNCHANGED <<made, file, outcome>>

GivesUpIfIdle ==
  /\ waiter = "waiting" /\ maker \in {"idle", "failed", "done"}
  /\ file.state = "absent"
  /\ waiter' = "refused"
  /\ UNCHANGED <<made, file, outcome>>

(* An hour, or ten minutes, and the comparison is still not complete. *)
GivesUp ==
  /\ waiter = "waiting"
  /\ waiter' = "refused"
  /\ UNCHANGED <<made, file, outcome>>

(* The checks that were waiting. *)
ChecksEnd ==
  /\ waiter = "checking"
  /\ waiter' \in {"passed", "died"}
  /\ UNCHANGED <<made, file, outcome>>

WaiterDies ==
  /\ waiter \in {"waiting", "checking"}
  /\ waiter' = "died"
  /\ UNCHANGED <<made, file, outcome>>

-----------------------------------------------------------------------------

Maker == Starts \/ RunsCts \/ Compares \/ CtsFails \/ Writes \/ MakerDies
Waiter == WaiterStarts \/ Polls \/ GivesUp \/ ChecksEnd \/ WaiterDies

Next == Maker \/ Waiter

(* The deadline is looked at in every turn of the wait. *)
Spec == Init /\ [][Next]_vars /\ WF_vars(GivesUp) /\ WF_vars(ChecksEnd)

-----------------------------------------------------------------------------
(* Properties                                                              *)

TypeOK ==
  /\ maker \in {"idle", "next", "running", "truncated", "done", "failed"}
  /\ report \in UNION {[1 .. n -> Outcomes] : n \in 0 .. Total}
  /\ outputs \subseteq 0 .. Total
  /\ file.runs \in UNION {[1 .. n -> Outcomes] : n \in 0 .. Total}
  /\ waiter \in {"idle", "waiting", "checking", "passed", "refused", "died"}

(* The checks start only behind a complete comparison without regression,  *)
(* and for the second form without any change: not on a file that is half  *)
(* written, shorter, or left behind by a maker that died or started again. *)
ChecksAreEarned ==
  waiter \in {"checking", "passed"} =>
    \A n \in 1 .. Total : outcome[n] \in (IF ExactBaseline THEN {"same"} ELSE {"same", "gain"})

(* No result is thrown away: a directory is made once, and a list that was *)
(* written is that of the directories, in their order.                     *)
FileIsTheOutcome ==
  file.state = "written" =>
    /\ Len(file.runs) > 0
    /\ \A n \in DOMAIN file.runs : n \in outputs /\ file.runs[n] = outcome[n]

(* A comparison that regressed is never followed by another that hides it. *)
RegressionStays == \A n \in 1 .. Total : outcome[n] = "change" => outcome'[n] = "change"

(* The patient script is not killed by what it reads. *)
PollSurvives == Polls => waiter' # "died"
=============================================================================
