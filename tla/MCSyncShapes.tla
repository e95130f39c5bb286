---------------------------- MODULE MCSyncShapes ----------------------------
(***************************************************************************)
(* KbaseSync for TLC in two shapes, told apart by shape: many threads on   *)
(* one sync, and one thread at a time on two.                              *)
(***************************************************************************)
EXTENDS MCKbaseSync

VARIABLE shape

Narrow == INSTANCE KbaseSync WITH MaxSeqno <- 1, Lists <- One

ShapesInit ==
  /\ Init
  /\ \/ shape = "threads" /\ sync[s2] = Fresh("RESET")
     \/ shape = "syncs"

Alone == \A t, u \in Threads : pc[t] # "idle" /\ pc[u] # "idle" => t = u

ShapesNext ==
  /\ UNCHANGED shape
  /\ \/ /\ shape = "threads" /\ Narrow!Next
        /\ sync'[s2] = sync[s2]
        /\ \A t \in Threads : pc'[t] # "idle" => call'[t].syncs = <<s1>>
     \/ shape = "syncs" /\ Next /\ Alone'

ShapesSpec == ShapesInit /\ [][ShapesNext]_<<vars, shape>>
=============================================================================
