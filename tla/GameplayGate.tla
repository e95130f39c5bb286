----------------------------- MODULE GameplayGate -----------------------------
(***************************************************************************)
(* tools/analyze_gameplay.py: which benchmark runs are accepted for a      *)
(* comparison, and which presents of their logs are measured.              *)
(*                                                                         *)
(* While a run is made, a layer appends a row to present.csv for a present *)
(* (or, grouped, for several), with the time since the row before.  The    *)
(* runner counts the log's lines when it activates the benchmark and at    *)
(* each later screenshot; a line may be half written when it is counted.   *)
(* A swapchain made anew may start the log again.  The gate has only the   *)
(* log as it is at the end, and these counts.                              *)
(*                                                                         *)
(* The presents themselves and the time they happened are kept as history, *)
(* for the properties.  Time is counted in ticks; the checks of the gate   *)
(* that only read a word of a file are one state of the run, rejected.     *)
(*                                                                         *)
(* Right before some definitions stands a variant of them with a mistake   *)
(* in it; nothing uses it.                                                 *)
(***************************************************************************)
EXTENDS Naturals, Sequences, FiniteSets

CONSTANTS
  Runs,                 \* the run directories given to the gate
  Stacks,               \* driver, libraries, game, state and controls, by hash
  Start, Duration,      \* the window, in ticks after the action
  MinIntervals,         \* 30 in the code
  MaxRows, MaxShots,    \* bounds on what a run logs
  MayHappen             \* "reset", "grouped", "fails", "changes"

VARIABLES
  installed,            \* the stack on the device now
  stage,                \* of each run: "none", "menu", "benchmark", "ended", "rejected"
  stack,                \* the hashes in its manifest
  log, half,            \* present.csv, and whether a line has been begun
  action, counts,       \* lines counted at the action and at screenshots after it
  report,               \* "none", or the runs of the gate's last answer and its ok
  clock, presents,      \* history: the time, the times of all presents,
  anchored, restarted   \* the last present at the action; a log begun again since

recorded == <<stage, stack, log, half, action, counts>>
history == <<clock, presents, anchored, restarted>>
vars == <<installed, recorded, report, history>>

NoReport == [of |-> {}, ok |-> FALSE]

Init ==
  /\ installed \in Stacks
  /\ stage = [r \in Runs |-> "none"] /\ stack = [r \in Runs |-> installed]
  /\ log = [r \in Runs |-> <<>>] /\ half = [r \in Runs |-> FALSE]
  /\ action = [r \in Runs |-> 0] /\ counts = [r \in Runs |-> <<>>]
  /\ report = NoReport
  /\ clock = [r \in Runs |-> 0] /\ presents = [r \in Runs |-> {}]
  /\ anchored = [r \in Runs |-> 0] /\ restarted = [r \in Runs |-> FALSE]

Playing(r) == stage[r] \in {"menu", "benchmark"}
Lines(r) == Len(log[r]) + (IF half[r] THEN 1 ELSE 0)
Can(what) == what \in MayHappen

-----------------------------------------------------------------------------
(* The run                                                                 *)

Begins(r) ==
  /\ stage[r] = "none" /\ \A s \in Runs : ~Playing(s)
  /\ stage' = [stage EXCEPT ![r] = "menu"]
  /\ stack' = [stack EXCEPT ![r] = installed]
  /\ UNCHANGED <<installed, log, half, action, counts, report, history>>

(* Another driver or another state on the device, between runs. *)
Changes ==
  /\ Can("changes") /\ \A s \in Runs : ~Playing(s)
  /\ installed' \in Stacks \ {installed}
  /\ UNCHANGED <<recorded, report, history>>

(* A present, or a group of them, happens, and its line is begun. *)
Presents(r) ==
  /\ Playing(r) /\ ~half[r] /\ clock[r] < MaxRows
  /\ half' = [half EXCEPT ![r] = TRUE]
  /\ \/ \E us \in 1 .. 2 :
          /\ clock' = [clock EXCEPT ![r] = @ + us]
          /\ presents' = [presents EXCEPT ![r] = @ \cup {clock'[r]}]
          /\ log' = log
     \/ /\ Can("grouped")
        /\ clock' = [clock EXCEPT ![r] = @ + 2]
        /\ presents' = [presents EXCEPT ![r] = @ \cup {clock[r] + 1, clock[r] + 2}]
        /\ log' = log
  /\ UNCHANGED <<installed, stage, stack, action, counts, report, anchored, restarted>>

(* The last row, or the start of the run. *)
Before(r) == IF log[r] = <<>> THEN 0 ELSE log[r][Len(log[r])].at

(* The line is complete. *)
Logs(r) ==
  /\ Playing(r) /\ half[r]
  /\ log' = [log EXCEPT ![r] = Append(@,
       [us |-> clock[r] - Before(r), at |-> clock[r],
        frame |-> Cardinality({t \in presents[r] : t > Before(r)})])]
  /\ half' = [half EXCEPT ![r] = FALSE]
  /\ UNCHANGED <<installed, stage, stack, action, counts, report, history>>

Resets(r) ==
  /\ Playing(r) /\ Can("reset") /\ ~half[r]
  /\ log' = [log EXCEPT ![r] = <<>>]
  /\ restarted' = [restarted EXCEPT ![r] = stage[r] = "benchmark"]
  /\ UNCHANGED <<installed, stage, stack, half, action, counts, report, clock, presents, anchored>>

ActsOnAllLines(r) ==
  /\ stage[r] = "menu"
  /\ stage' = [stage EXCEPT ![r] = "benchmark"]
  /\ action' = [action EXCEPT ![r] = Lines(r) + 1]
  /\ anchored' = [anchored EXCEPT ![r] = clock[r]]
  /\ UNCHANGED <<installed, stack, log, half, counts, report, clock, presents, restarted>>

ActsOnRows(r) ==
  /\ stage[r] = "menu"
  /\ stage' = [stage EXCEPT ![r] = "benchmark"]
  /\ action' = [action EXCEPT ![r] = Len(log[r])]
  /\ anchored' = [anchored EXCEPT ![r] = clock[r]]
  /\ UNCHANGED <<installed, stack, log, half, counts, report, clock, presents, restarted>>

(* The runner activates the benchmark. *)
Acts(r) ==
  /\ stage[r] = "menu"
  /\ stage' = [stage EXCEPT ![r] = "benchmark"]
  /\ action' = [action EXCEPT ![r] = Lines(r)]
  /\ anchored' = [anchored EXCEPT ![r] = clock[r]]
  /\ UNCHANGED <<installed, stack, log, half, counts, report, clock, presents, restarted>>

Shoots(r) ==
  /\ stage[r] = "benchmark" /\ Len(counts[r]) < MaxShots
  /\ counts' = [counts EXCEPT ![r] = Append(@, Lines(r))]
  /\ UNCHANGED <<installed, stage, stack, log, half, action, report, history>>

(* The game is stopped; without a result, or steered by hand, or in the    *)
(* wrong resolution, the manifest or a mark beside it says so.             *)
Ends(r) ==
  /\ Playing(r)
  /\ \/ stage[r] = "benchmark" /\ stage' = [stage EXCEPT ![r] = "ended"]
     \/ Can("fails") /\ stage' = [stage EXCEPT ![r] = "rejected"]
  /\ UNCHANGED <<installed, stack, log, half, action, counts, report, history>>

-----------------------------------------------------------------------------
(* The gate                                                                *)

(* The time of each row, counted from the anchor. *)
ClockOf(r) ==
  LET c[i \in action[r] .. Len(log[r])] == IF i = action[r] THEN 0 ELSE c[i - 1] + log[r][i].us
  IN c

WindowByStart(r) ==
  LET c == ClockOf(r)
  IN {i \in action[r] + 1 .. Len(log[r]) : c[i] >= Start /\ c[i - 1] <= Start + Duration}

(* The intervals that lie in the window as a whole. *)
Window(r) ==
  LET c == ClockOf(r)
  IN {i \in action[r] + 1 .. Len(log[r]) : c[i - 1] >= Start /\ c[i] <= Start + Duration}

Measured(r) ==
  LET c == ClockOf(r) IN
  IF Window(r) = {} THEN 0
  ELSE LET first == CHOOSE i \in Window(r) : \A j \in Window(r) : i <= j
           last == CHOOSE i \in Window(r) : \A j \in Window(r) : j <= i
       IN c[last] - c[first - 1]

(* A log that shrank between two screenshots, or has no row after the      *)
(* anchor.                                                                 *)
Anchored(r) ==
  /\ \A i, j \in DOMAIN counts[r] : i <= j => counts[r][i] <= counts[r][j]
  /\ 0 < action[r] /\ action[r] < Len(log[r])

GroupsPass(r) == TRUE

Ungrouped(r) == \A i \in Window(r) : log[r][i].frame = 1

AnyLength(r) == Window(r) # {}

LongEnough(r) ==
  /\ Cardinality(Window(r)) >= MinIntervals
  /\ 100 * Measured(r) >= 95 * Duration

(* A line the game's end cut off has too few columns. *)
Accepts(r) ==
  /\ stage[r] = "ended" /\ ~half[r]
  /\ Anchored(r) /\ Ungrouped(r) /\ LongEnough(r)

OkDespiteErrors(of) ==
  LET good == {r \in of : Accepts(r)}
  IN good # {} /\ \A r, s \in good : stack[r] = stack[s]

(* main: one rejected run, or two runs that do not compare, and the answer *)
(* is no.                                                                  *)
Ok(of) == (\A r \in of : Accepts(r)) /\ (\A r, s \in of : stack[r] = stack[s])

(* The gate is given run directories. *)
Analyzes ==
  /\ \A r \in Runs : ~Playing(r)
  /\ \E of \in SUBSET {r \in Runs : stage[r] # "none"} :
       of # {} /\ report' = [of |-> of, ok |-> Ok(of)]
  /\ UNCHANGED <<installed, recorded, history>>

-----------------------------------------------------------------------------

Next ==
  \/ \E r \in Runs : \/ Begins(r) \/ Presents(r) \/ Logs(r) \/ Resets(r)
                     \/ Acts(r) \/ Shoots(r) \/ Ends(r)
  \/ Changes \/ Analyzes

Spec == Init /\ [][Next]_vars

-----------------------------------------------------------------------------
(* Properties                                                              *)

TypeOK ==
  /\ installed \in Stacks /\ stack \in [Runs -> Stacks]
  /\ stage \in [Runs -> {"none", "menu", "benchmark", "ended", "rejected"}]
  /\ half \in [Runs -> BOOLEAN] /\ clock \in [Runs -> 0 .. MaxRows + 1]
  /\ \A r \in Runs : /\ action[r] \in 0 .. Lines(r) \/ restarted[r]
                     /\ \A i \in DOMAIN log[r] : log[r][i].us > 0 /\ log[r][i].frame > 0

Good == IF report.ok THEN report.of ELSE {}

(* What an accepted run measures lies in the window: no present is from    *)
(* before Start ticks after the last present at the action (the menu, the  *)
(* loading), and none after its end, also when the log had a half-written  *)
(* line when it was counted.                                               *)
WindowIsInTime ==
  \A r \in Good : \A i \in Window(r) :
    /\ log[r][i].at - log[r][i].us >= anchored[r] + Start
    /\ log[r][i].at <= anchored[r] + Start + Duration

(* An interval of an accepted run is the time between two presents that    *)
(* followed each other: none is hidden in it, and so the rate is the rate  *)
(* of presents.                                                            *)
IntervalsAreReal ==
  \A r \in Good : \A i \in Window(r) :
    presents[r] \cap (log[r][i].at - log[r][i].us + 1 .. log[r][i].at) = {log[r][i].at}

(* A game that stopped, or stopped presenting, in the middle of the window *)
(* is not accepted: presents went on almost to its end.                    *)
RanThroughTheWindow ==
  \A r \in Good : 100 * (clock[r] - anchored[r] - Start) >= 95 * Duration

(* Runs in one answer ran on the same stack, whatever was installed in     *)
(* between, and each of them was completed.                                *)
AnswersCompare ==
  \A r, s \in Good : stage[r] = "ended" /\ stack[r] = stack[s]
=============================================================================
