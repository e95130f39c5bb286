--------------------------- MODULE BinaryPayloads ---------------------------
(***************************************************************************)
(* What the syncs of a kbase device promise those who use them: each holds *)
(* a binary payload with the semantics of a DRM syncobj.  A payload is     *)
(* armed with some work, a new signal replaces whatever the sync holds,    *)
(* and a wait finds a payload signalled only once its work is done.        *)
(* KbaseSync implements it.                                                *)
(***************************************************************************)
CONSTANTS
  Syncs,
  Work,          \* what a payload can stand for
  None           \* no work: signalled by the host, or reset

VARIABLES
  state,         \* of every sync: "reset", "pending", "signalled", "failed"
  work,          \* what the payload stands for
  done, broken   \* the work that has ended, and the work that failed

vars == <<state, work, done, broken>>

Init ==
  /\ state \in [Syncs -> {"reset", "signalled"}]
  /\ work = [s \in Syncs |-> None]
  /\ done = {} /\ broken = {}

Set(s, st, w) ==
  /\ state' = [state EXCEPT ![s] = st]
  /\ work' = [work EXCEPT ![s] = w]
  /\ UNCHANGED <<done, broken>>

Arm(s) == \E w \in Work : Set(s, "pending", w)
Signal(s) == Set(s, "signalled", None)
Reset(s) == Set(s, "reset", None)

(* dst takes the payload of src, and src is reset.                         *)
Move(dst, src) ==
  /\ dst # src
  /\ state' = [state EXCEPT ![dst] = state[src], ![src] = "reset"]
  /\ work' = [work EXCEPT ![dst] = work[src], ![src] = None]
  /\ UNCHANGED <<done, broken>>

(* A wait finds out how the work has ended.                                *)
Observe(s) ==
  /\ state[s] = "pending"
  /\ \/ work[s] \in done /\ state' = [state EXCEPT ![s] = "signalled"]
     \/ work[s] \in broken /\ state' = [state EXCEPT ![s] = "failed"]
  /\ UNCHANGED <<work, done, broken>>

(* Work ends or fails on its own, and that is final.                       *)
Progress ==
  /\ done \subseteq done' /\ done' \subseteq Work
  /\ broken \subseteq broken' /\ broken' \subseteq Work
  /\ UNCHANGED <<state, work>>

Next ==
  \/ \E s \in Syncs : Arm(s) \/ Signal(s) \/ Reset(s) \/ Observe(s)
  \/ \E dst, src \in Syncs : Move(dst, src)
  \/ Progress

Spec == Init /\ [][Next]_vars
=============================================================================
