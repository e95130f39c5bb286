------------------------- MODULE MCBenchmarkRunner --------------------------
(***************************************************************************)
(* BenchmarkRunner for TLC.  One run takes the three forms of the code,    *)
(* told apart by form, with one runner, and two runners on one prefix with *)
(* the newest form.                                                        *)
(***************************************************************************)
EXTENDS BenchmarkRunner

CONSTANTS r1, r2

Anything == {"tool", "state", "steered", "exit"}
NoSteering == Anything \ {"steered"}

VARIABLE form

Alone == INSTANCE BenchmarkRunner WITH MayFail <- NoSteering
Early == INSTANCE BenchmarkRunner WITH Activation <- "early stamp", MayFail <- NoSteering
Blind == INSTANCE BenchmarkRunner WITH Activation <- "blind"
Brief == INSTANCE BenchmarkRunner WITH MaxAttempts <- 2, MaxRows <- 1
Two == INSTANCE BenchmarkRunner WITH MaxAttempts <- 1, MaxRows <- 0

Single == {"verified", "alone", "early stamp", "blind", "brief"}

MCInit == Init /\ form \in Single \cup {"two"}

MCNext ==
  /\ UNCHANGED form
  /\ \/ form = "verified" /\ Next
     \/ form = "alone" /\ Alone!Next
     \/ form = "early stamp" /\ Early!Next
     \/ form = "blind" /\ Blind!Next
     \/ form = "brief" /\ Brief!Next
     \/ form = "two" /\ Two!Next
  /\ form \in Single => pc'[r2] = "start"

MCSpec ==
  /\ MCInit /\ [][MCNext]_<<vars, form>>
  /\ WF_vars(form = "brief" /\ Brief!Turn(r1))
  /\ SF_vars(form = "brief" /\ Brief!IsOver(r1))

-----------------------------------------------------------------------------
(* Properties of some of the forms                                         *)

(* A runner that looks at the menu, with nobody else at it, never presses  *)
(* Return on another item; and what is measured of a verified one starts   *)
(* between its check of the selection and the key press.                   *)
ActivatesWhatItChecked ==
  [][/\ form \in {"alone", "early stamp"} => TheRightItem
     /\ form \notin {"early stamp", "blind"} => AnchorFollowsTheCheck']_vars

(* A runner that was let in stops its game, writes its manifest, leaves.   *)
EveryRunEnds == form = "brief" /\ pc[r1] = "prepare" ~> pc[r1] = "exited"
=============================================================================
