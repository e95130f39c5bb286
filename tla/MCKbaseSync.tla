---------------------------- MODULE MCKbaseSync -----------------------------
(* Constants for model-checking KbaseSync with TLC.                        *)
EXTENDS KbaseSync, TLC

CONSTANTS s1, s2, t1, t2, t3, f1

OneSync == {s1}
TwoSyncs == {s1, s2}
TwoThreads == {t1, t2}
ThreeThreads == {t1, t2, t3}

One == {<<s1>>}
(* The lists with s1 and s2 exchanged are left out: they mirror these. *)
OneOrBoth == {<<s1>>, <<s1, s2>>}

Symmetry == Permutations(ThreeThreads)

(* The steps there are with one sync: nothing is moved.                     *)
StepsOnOne ==
  \/ QueueCompletes \/ QueueIsLost \/ (\E f \in Fences : FenceEnds(f))
  \/ \E s \in Syncs :
       Signal(s) \/ Reset(s) \/ SetPending(s) \/ ImportFile(s) \/ FinishAndInit(s)
  \/ \E t \in Threads : StartWait(t) \/ StartExport(t) \/ ThreadStep(t)

LiveSpec == Init /\ [][StepsOnOne]_vars /\ Fairness
=============================================================================
