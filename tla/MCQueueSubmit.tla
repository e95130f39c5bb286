--------------------------- MODULE MCQueueSubmit ----------------------------
(* Constants for model-checking QueueSubmit with TLC.                       *)
EXTENDS QueueSubmit, TLC

CONSTANTS b1, b2, b3, b4, s1, s2

FourBatches == {b1, b2, b3, b4}
SecondSets == {b2}
TwoSyncs == {s1, s2}
Anything == {"ioctl", "job", "cache", "poll"}

(* None, the one with the event first or last, one twice. *)
Lists == {<<>>, <<b1, b2>>, <<b2, b1>>, <<b1, b1>>}

(* No semaphore, a wait, a signal, or both; more than a chain takes; a     *)
(* wait for the signal of the call before.                                 *)
AllCalls ==
  {[batches |-> l, wait |-> w, signal |-> s] :
     l \in Lists, w \in {NoSync, s1}, s \in {NoSync, s2}}
  \cup {[batches |-> <<b1, b3, b4>>, wait |-> NoSync, signal |-> NoSync],
         [batches |-> <<b1>>, wait |-> s2, signal |-> NoSync]}
=============================================================================
