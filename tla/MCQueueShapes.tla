---------------------------- MODULE MCQueueShapes ---------------------------
(***************************************************************************)
(* KbaseQueue for TLC in two shapes, told apart by shape: as many          *)
(* submissions in flight as there are numbers, without faults, and three   *)
(* threads, with imported fences that fail.  There the submitter waits     *)
(* only for all it has submitted (the end of a submission that is not      *)
(* chained, and an idle queue), the others for what they like.             *)
(***************************************************************************)
EXTENDS MCKbaseQueue

CONSTANT t2

ThreeThreads == TwoThreads \cup {t2}
SymmetricThreads == Symmetry \cup Permutations({t1, t2})

VARIABLE shape

Ring == INSTANCE KbaseQueue WITH Faults <- {}
Crowd == INSTANCE KbaseQueue WITH MaxSubmits <- 2

WaitsForAll(c) == c.seqno = last_seqno /\ c.timeout = "infinite"

ShapesInit == Init /\ shape \in {"ring", "crowd"}

ShapesNext ==
  /\ UNCHANGED shape
  /\ \/ shape = "ring" /\ Ring!Next /\ pc'[t2] = "idle"
     \/ /\ shape = "crowd" /\ Crowd!Next
        /\ pc[submitter] = "idle" =>
             \/ pc'[submitter] \in {"idle", "submit"}
             \/ pc'[submitter] = "wait" /\ WaitsForAll(call'[submitter])

ShapesSpec == ShapesInit /\ [][ShapesNext]_<<vars, shape>>
=============================================================================
