---------------------------- MODULE MCCacheSync -----------------------------
(***************************************************************************)
(* CacheSync for TLC: two threads that share a buffer, one of which has a  *)
(* buffer of its own.  Two sizes in one run: the fairness, and the         *)
(* property that needs it, are those of the small one.                     *)
(***************************************************************************)
EXTENDS CacheSync, TLC

CONSTANTS t1, t2, own, shared

TwoThreads == {t1, t2}
TwoBos == {own, shared}
OwnAndShared == (t1 :> {own, shared}) @@ (t2 :> {shared})

VARIABLE size

Small == INSTANCE CacheSync WITH MaxPending <- 1, MaxOffset <- 1, MaxAsks <- 2

MCInit == Init /\ size \in {"large", "small"}

MCNext ==
  /\ UNCHANGED size
  /\ \/ size = "large" /\ Next
     \/ size = "small" /\ Small!Next

mcvars == <<vars, size>>

MCSpec ==
  /\ MCInit /\ [][MCNext]_mcvars
  /\ \A t \in Threads :
       /\ WF_vars(size = "small" /\ Small!GoesOn(t))
       /\ SF_vars(size = "small" /\ Small!GetsLock(t))

(* A flush, and a request, returns: no flush waits for ever for the lock,  *)
(* nor on a list that is never cleared.                                    *)
EveryFlushOfTheSmallReturns ==
  \A t \in Threads :
    size = "small" /\ pc[t] \notin {"idle", "ok", "failed"} ~> pc[t] \in {"idle", "ok", "failed"}
=============================================================================
