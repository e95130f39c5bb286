---------------------------- MODULE InOrderQueue ----------------------------
(***************************************************************************)
(* What the kbase queue promises its callers, whatever threads read the    *)
(* kernel's events: work runs and completes in submission order, a caller  *)
(* is told that a submission is finished only when it is and nothing was   *)
(* lost, and an exported sync_file signals only after the work it stands   *)
(* for.  KbaseQueue implements it.                                         *)
(***************************************************************************)
EXTENDS Naturals

CONSTANT MaxSubmits          \* bound: submissions in a behaviour

VARIABLES
  submitted,     \* the newest submission handed to the GPU
  ended,         \* the GPU has ended submissions 1 .. ended
  completed,     \* the driver has seen 1 .. completed complete
  lost,          \* the device is lost
  fence,         \* the sync_file of every submission
  told,          \* submissions some caller was told are finished
  broken         \* submissions with a job that failed

vars == <<submitted, ended, completed, lost, fence, told, broken>>

Init ==
  /\ submitted = 0 /\ ended = 0 /\ completed = 0
  /\ lost = FALSE
  /\ fence = [s \in 1 .. MaxSubmits |-> "none"]
  /\ told = {} /\ broken = {}

Submit ==
  /\ ~ lost /\ submitted < MaxSubmits
  /\ submitted' = submitted + 1
  /\ UNCHANGED <<ended, completed, lost, fence, told, broken>>

(* A job fails before its submission has ended; or a job of a submission   *)
(* that the kernel took only in part, and that never got a number.         *)
Break ==
  /\ \E s \in ended + 1 .. submitted + 1 : broken' = broken \cup {s}
  /\ UNCHANGED <<submitted, ended, completed, lost, fence, told>>

(* The GPU ends its oldest submission, perhaps with the failure of its     *)
(* last job.                                                               *)
End ==
  /\ ended < submitted
  /\ ended' = ended + 1
  /\ broken' \in {broken, broken \cup {ended + 1}}
  /\ UNCHANGED <<submitted, completed, lost, fence, told>>

Complete ==
  /\ completed < ended
  /\ completed' = completed + 1
  /\ UNCHANGED <<submitted, ended, lost, fence, told, broken>>

Lose ==
  /\ lost' = TRUE
  /\ UNCHANGED <<submitted, ended, completed, fence, told, broken>>

(* An export of a submission in flight makes its sync_file, once.          *)
Export ==
  /\ ~ lost
  /\ \E s \in completed + 1 .. submitted :
       fence[s] = "none" /\ fence' = [fence EXCEPT ![s] = "armed"]
  /\ UNCHANGED <<submitted, ended, completed, lost, told, broken>>

Signal ==
  /\ \E s \in 1 .. ended :
       fence[s] = "armed" /\ fence' = [fence EXCEPT ![s] = "signalled"]
  /\ UNCHANGED <<submitted, ended, completed, lost, told, broken>>

(* A wait succeeds, or an export answers that the work is done.            *)
Report ==
  /\ ~ lost
  /\ \E s \in 1 .. completed : s \notin broken /\ told' = told \cup {s}
  /\ UNCHANGED <<submitted, ended, completed, lost, fence, broken>>

Next ==
  \/ Submit \/ Break \/ End \/ Complete \/ Lose \/ Export \/ Signal \/ Report

Spec == Init /\ [][Next]_vars
=============================================================================
