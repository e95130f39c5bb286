-------------------------- MODULE CacheSync_proofs ---------------------------
(***************************************************************************)
(* Proofs about CacheSync, for any threads, buffers, lengths of the list   *)
(* and numbers of requests: its types, that a flush through the kernel     *)
(* that reports success is not lying, that user-space operations without a *)
(* barrier are always announced, and that no write to a buffer of one      *)
(* thread is thrown away by an invalidation.                               *)
(***************************************************************************)
EXTENDS CacheSync, SequenceTheorems, TLAPS

-----------------------------------------------------------------------------
(* The inductive invariant                                                 *)

(* Whoever works on the list has the lock. *)
HolderHasLock == \A t \in Threads : pc[t] \in {"append", "sync"} => lock = t

(* t has a range in its hands that is not on the list yet. *)
HasRange(t) ==
  \/ pc[t] \in {"queue", "append"}
  \/ pc[t] = "sync" /\ after[t] = "append"

RangeInHand ==
  \A t \in Threads : HasRange(t) \/ pc[t] \in {"operate", "flag"} => call[t] \in Ranges

(* x is still to be done by whoever walks the list, or will walk it. *)
OnList(x) ==
  \E i \in 1 .. Len(pending) :
    /\ x \in Granules(pending[i])
    /\ \A u \in Threads : pc[u] = "sync" => at[u] <= i

(* What a thread asked for is not forgotten before it is done: it is in    *)
(* the thread's hands or on the list, or the device has failed for good.   *)
NothingIsForgotten ==
  through_kernel =>
    \A t \in Threads : \A x \in owed[t] :
      error \/ OnList(x) \/ (HasRange(t) /\ x \in Granules(call[t]))

IInv ==
  /\ TypeOK
  /\ HolderHasLock
  /\ RangeInHand
  /\ NothingIsForgotten
  /\ FlushMeansDone

-----------------------------------------------------------------------------
(* Ranges and the list                                                     *)

LEMMA GranulesAreItems ==
  ASSUME NEW r \in Ranges
  PROVE  Granules(r) \subseteq Items
BY LimitsAssumption DEF Granules, Items, Ranges

LEMMA NoThreadIsNobody == \A t \in Threads : t # NoThread
BY NoThreadAssumption

(* A merged range is one, and has the granules of both. *)
LEMMA MergeKeepsGranules ==
  ASSUME pending \in Seq(Ranges), NEW r \in Ranges, NEW i \in Mergeable(r)
  PROVE  /\ MergedAt(i, r) \in Seq(Ranges)
         /\ Len(MergedAt(i, r)) = Len(pending)
         /\ \A j \in 1 .. Len(pending) : Granules(pending[j]) \subseteq Granules(MergedAt(i, r)[j])
         /\ Granules(r) \subseteq Granules(MergedAt(i, r)[i])
<1>. DEFINE m == Span(r, pending[i])
<1>1. /\ i \in 1 .. Len(pending) /\ pending[i] \in Ranges
      /\ pending[i].bo = r.bo /\ pending[i].type = r.type
  BY DEF Mergeable
<1>2. m \in Ranges
  BY <1>1, LimitsAssumption DEF Ranges, Span, Lower, Upper
<1>3. MergedAt(i, r) = [pending EXCEPT ![i] = m]
  BY DEF MergedAt
<1>4. /\ MergedAt(i, r) \in Seq(Ranges)
      /\ Len(MergedAt(i, r)) = Len(pending)
      /\ \A j \in 1 .. Len(pending) : MergedAt(i, r)[j] = IF j = i THEN m ELSE pending[j]
  BY <1>1, <1>2, <1>3, ExceptSeq
<1>5. Granules(r) \subseteq Granules(m) /\ Granules(pending[i]) \subseteq Granules(m)
  <2>1. /\ r.start \in Int /\ r.end \in Int /\ pending[i].start \in Int /\ pending[i].end \in Int
        /\ m.start <= r.start /\ m.start <= pending[i].start
        /\ r.end <= m.end /\ pending[i].end <= m.end
        /\ m.start \in Int /\ m.end \in Int
    BY <1>1, LimitsAssumption DEF Ranges, Span, Lower, Upper
  <2>2. r.start .. r.end - 1 \subseteq m.start .. m.end - 1
    BY <2>1
  <2>3. pending[i].start .. pending[i].end - 1 \subseteq m.start .. m.end - 1
    BY <2>1
  <2>. QED
    BY <1>1, <2>2, <2>3 DEF Granules, Span
<1>. QED
  BY <1>1, <1>4, <1>5

-----------------------------------------------------------------------------
(* Steps                                                                   *)

LEMMA InitHolds == Init => IInv /\ OperationsAwaitABarrier
<1>. SUFFICES ASSUME Init PROVE IInv /\ OperationsAwaitABarrier
  OBVIOUS
<1>1. TypeOK
  <2>1. pending \in Seq(Ranges)
    BY EmptySeq DEF Init
  <2>2. call \in [Threads -> Ranges \cup {NoRange}] /\ owed \in [Threads -> SUBSET Items]
    BY DEF Init
  <2>3. /\ pc \in [Threads -> {"idle", "reading", "operate", "flag", "queue", "append", "sync",
                               "barrier", "test", "relock", "ok", "failed"}]
        /\ at \in [Threads -> Nat \ {0}] /\ after \in [Threads -> {"append", "return"}]
    BY DEF Init
  <2>4. /\ through_kernel \in BOOLEAN /\ error \in BOOLEAN /\ user_cache_ops_pending \in BOOLEAN
        /\ lock \in Threads \cup {NoThread} /\ issued \in SUBSET Items
        /\ lost \in SUBSET [bo : Bos, granule : 0 .. MaxOffset]
    BY DEF Init
  <2>5. asks \in 0 .. MaxAsks
    BY LimitsAssumption DEF Init
  <2>. QED
    BY <2>1, <2>2, <2>3, <2>4, <2>5 DEF TypeOK
<1>. QED
  BY <1>1 DEF Init, IInv, HolderHasLock, HasRange, RangeInHand, NothingIsForgotten,
     FlushMeansDone, OperationsAwaitABarrier

LEMMA AskHolds ==
  ASSUME IInv, NEW t \in Threads, NEW r \in Ranges, Ask(t, r)
  PROVE  IInv'
<1>1. /\ pc[t] \in {"idle", "reading"} /\ asks < MaxAsks
      /\ asks' = asks + 1
      /\ call' = [call EXCEPT ![t] = r]
      /\ owed' = [owed EXCEPT ![t] = @ \cup Granules(r)]
      /\ pc' = [pc EXCEPT ![t] = IF through_kernel THEN "queue" ELSE "operate"]
      /\ UNCHANGED <<dev, lock, at, after, issued, lost>>
  BY DEF Ask, Goto
<1>2. TypeOK'
  BY <1>1, GranulesAreItems, LimitsAssumption DEF IInv, TypeOK, dev
<1>3. HolderHasLock' /\ RangeInHand'
  BY <1>1 DEF IInv, TypeOK, HolderHasLock, RangeInHand, HasRange, dev
<1>4. NothingIsForgotten'
  <2>. SUFFICES ASSUME through_kernel, ~error, NEW u \in Threads, NEW x \in owed'[u]
                PROVE  OnList(x)' \/ (HasRange(u) /\ x \in Granules(call[u]))'
    BY <1>1 DEF NothingIsForgotten, dev
  <2>1. OnList(x) => OnList(x)'
    BY <1>1 DEF OnList, IInv, TypeOK, dev
  <2>2. CASE u = t /\ x \in Granules(r)
    BY <1>1, <2>2 DEF HasRange, IInv, TypeOK
  <2>3. CASE x \in owed[u]
    BY <1>1, <2>1, <2>3 DEF IInv, NothingIsForgotten, HasRange, TypeOK
  <2>. QED
    BY <1>1, <2>2, <2>3 DEF IInv, TypeOK
<1>5. FlushMeansDone'
  BY <1>1 DEF IInv, TypeOK, FlushMeansDone, dev
<1>. QED
  BY <1>2, <1>3, <1>4, <1>5 DEF IInv

(* Steps that neither touch the list nor what is owed, but for what gets   *)
(* done, and that keep what a thread has in its hands.                     *)
LEMMA QuietSteps ==
  ASSUME IInv, TypeOK', NEW t \in Threads,
         UNCHANGED <<through_kernel, pending, error, call>>,
         \A u \in Threads \ {t} : pc'[u] = pc[u] /\ after'[u] = after[u],
         \A u \in Threads : owed'[u] \subseteq owed[u],
         \A u \in Threads : pc'[u] = "sync" => pc[u] = "sync" /\ at'[u] = at[u],
         HasRange(t) <=> HasRange(t)'
  PROVE  NothingIsForgotten'
<1>. SUFFICES ASSUME through_kernel, ~error, NEW u \in Threads, NEW x \in owed'[u]
              PROVE  OnList(x)' \/ (HasRange(u) /\ x \in Granules(call[u]))'
  BY DEF NothingIsForgotten
<1>1. OnList(x) => OnList(x)'
  BY DEF OnList
<1>2. HasRange(u) => HasRange(u)'
  BY DEF HasRange
<1>. QED
  BY <1>1, <1>2 DEF IInv, NothingIsForgotten

LEMMA UserSpaceHolds ==
  ASSUME IInv, NEW t \in Threads, Operate(t) \/ FlagBarrier(t) \/ FlushTakesFlag(t) \/ FlushReturns(t)
  PROVE  IInv'
<1>. DEFINE to == {"flag", "reading", "idle", "barrier", "test"}
<1>1. PICK p \in to : pc' = [pc EXCEPT ![t] = p] /\ (p = "flag" => pc[t] = "operate")
  BY DEF Operate, FlagBarrier, FlushTakesFlag, FlushReturns, Goto, Asked
<1>2. /\ pc[t] \in {"operate", "flag", "idle", "reading", "ok", "failed"}
      /\ UNCHANGED <<through_kernel, pending, error, lock, call, at, after, history>>
      /\ issued' = issued \/ (pc[t] = "operate" /\ issued' = issued \cup Granules(call[t]))
      /\ user_cache_ops_pending' \in BOOLEAN
  BY DEF Operate, FlagBarrier, FlushTakesFlag, FlushReturns, dev, IInv, TypeOK
<1>3. TypeOK'
  <2>1. issued' \in SUBSET Items
    BY <1>2, GranulesAreItems DEF IInv, TypeOK, RangeInHand
  <2>. QED
    BY <1>1, <1>2, <2>1 DEF IInv, TypeOK, history
<1>4. HolderHasLock' /\ RangeInHand'
  BY <1>1, <1>2 DEF IInv, TypeOK, HolderHasLock, RangeInHand, HasRange
<1>5. NothingIsForgotten'
  BY <1>1, <1>2, <1>3, QuietSteps DEF HasRange, IInv, TypeOK, history
<1>6. FlushMeansDone'
  BY <1>1, <1>2 DEF IInv, TypeOK, FlushMeansDone, history
<1>. QED
  BY <1>3, <1>4, <1>5, <1>6 DEF IInv

LEMMA BarrierHolds ==
  ASSUME IInv, NEW t \in Threads, FlushBarrier(t)
  PROVE  IInv'
<1>1. /\ pc[t] = "barrier" /\ pc' = [pc EXCEPT ![t] = "test"]
      /\ owed' = [u \in Threads |-> owed[u] \ issued] /\ issued' = {}
      /\ UNCHANGED <<dev, lock, call, at, after, lost, asks>>
  BY DEF FlushBarrier, Goto, Done
<1>2. TypeOK'
  BY <1>1 DEF IInv, TypeOK, dev
<1>3. HolderHasLock' /\ RangeInHand'
  BY <1>1 DEF IInv, TypeOK, HolderHasLock, RangeInHand, HasRange
<1>4. NothingIsForgotten'
  BY <1>1, <1>2, QuietSteps DEF HasRange, IInv, TypeOK, dev
<1>5. FlushMeansDone'
  BY <1>1 DEF IInv, TypeOK, FlushMeansDone, dev
<1>. QED
  BY <1>2, <1>3, <1>4, <1>5 DEF IInv

(* Who finds the list empty without the lock, and no error, owes nothing:  *)
(* it has nothing in its hands, so that all it asked for has been done.    *)
LEMMA TestHolds ==
  ASSUME IInv, NEW t \in Threads, FlushTests(t)
  PROVE  IInv'
<1>1. /\ pc[t] = "test"
      /\ pc' = [pc EXCEPT ![t] = IF pending = <<>> THEN Result ELSE "relock"]
      /\ UNCHANGED <<dev, lock, call, at, after, issued, history>>
  BY DEF FlushTests, Goto
<1>2. Result \in {"ok", "failed"}
  BY DEF Result
<1>3. TypeOK'
  BY <1>1, <1>2 DEF IInv, TypeOK, dev, history
<1>4. HolderHasLock' /\ RangeInHand'
  BY <1>1, <1>2 DEF IInv, TypeOK, HolderHasLock, RangeInHand, HasRange
<1>5. NothingIsForgotten'
  BY <1>1, <1>2, <1>3, QuietSteps, ZenonT(60) DEF HasRange, IInv, TypeOK, dev, history
<1>6. FlushMeansDone'
  <2>1. ASSUME through_kernel, pending = <<>>, ~error PROVE owed[t] = {}
    BY <1>1, <2>1 DEF IInv, NothingIsForgotten, OnList, HasRange
  <2>. QED
    BY <1>1, <2>1 DEF IInv, TypeOK, FlushMeansDone, Result, dev, history
<1>. QED
  BY <1>3, <1>4, <1>5, <1>6 DEF IInv

LEMMA LockHolds ==
  ASSUME IInv, NEW t \in Threads, QueueLocks(t) \/ FlushLocks(t)
  PROVE  IInv'
<1>1. PICK p \in {"sync", "append"}, a \in {"append", "return"} :
        /\ pc' = [pc EXCEPT ![t] = p] /\ after' = [after EXCEPT ![t] = a]
        /\ \/ pc[t] = "queue" /\ a = "append"
           \/ pc[t] = "relock" /\ a = "return" /\ p = "sync"
  BY DEF QueueLocks, FlushLocks, Goto
<1>2. /\ lock = NoThread /\ lock' = t /\ at' = [at EXCEPT ![t] = 1]
      /\ UNCHANGED <<dev, call, issued, history>>
  BY DEF QueueLocks, FlushLocks
<1>3. \A u \in Threads : pc[u] \notin {"append", "sync"}
  BY <1>2, NoThreadIsNobody DEF IInv, HolderHasLock
<1>4. TypeOK'
  BY <1>1, <1>2 DEF IInv, TypeOK, dev, history
<1>5. HolderHasLock' /\ RangeInHand'
  BY <1>1, <1>2, <1>3 DEF IInv, TypeOK, HolderHasLock, RangeInHand, HasRange
<1>6. NothingIsForgotten'
  <2>. SUFFICES ASSUME through_kernel, ~error, NEW u \in Threads, NEW x \in owed[u]
                PROVE  OnList(x)' \/ (HasRange(u) /\ x \in Granules(call[u]))'
    BY <1>2 DEF NothingIsForgotten, dev, history
  <2>1. OnList(x) => OnList(x)'
    BY <1>1, <1>2, <1>3 DEF OnList, IInv, TypeOK, dev
  <2>2. HasRange(u) => HasRange(u)'
    BY <1>1, <1>3 DEF HasRange, IInv, TypeOK
  <2>. QED
    BY <1>2, <2>1, <2>2 DEF IInv, NothingIsForgotten
<1>7. FlushMeansDone'
  BY <1>1, <1>2 DEF IInv, TypeOK, FlushMeansDone, dev, history
<1>. QED
  BY <1>4, <1>5, <1>6, <1>7 DEF IInv

(* A range goes on the list, by itself or merged, unless the device failed.*)
LEMMA AppendHolds ==
  ASSUME IInv, NEW t \in Threads, QueueAppends(t)
  PROVE  IInv'
<1>. DEFINE r == call[t]
<1>1. /\ pc[t] = "append" /\ lock = t /\ lock' = NoThread /\ r \in Ranges
      /\ UNCHANGED <<through_kernel, error, user_cache_ops_pending, call, at, after, issued, history>>
  BY DEF QueueAppends, IInv, HolderHasLock, RangeInHand, HasRange
<1>2. PICK p \in {"reading", "idle"} : pc' = [pc EXCEPT ![t] = p]
  BY DEF QueueAppends, Goto, Asked
<1>3. \A u \in Threads \ {t} : pc[u] \notin {"append", "sync"}
  BY <1>1 DEF IInv, HolderHasLock
<1>4. /\ pending' \in Seq(Ranges) /\ Len(pending) <= Len(pending')
      /\ \A j \in 1 .. Len(pending) : Granules(pending[j]) \subseteq Granules(pending'[j])
      /\ error \/ \E j \in 1 .. Len(pending') : Granules(r) \subseteq Granules(pending'[j])
  <2>1. CASE error /\ UNCHANGED pending
    BY <2>1 DEF IInv, TypeOK
  <2>2. CASE pending' = Appended(r)
    <3>1. /\ pending' \in Seq(Ranges) /\ Len(pending') = Len(pending) + 1
          /\ \A j \in 1 .. Len(pending) : pending'[j] = pending[j]
          /\ pending'[Len(pending) + 1] = r
      BY <1>1, <2>2, AppendProperties DEF Appended, IInv, TypeOK
    <3>2. Len(pending) \in Nat
      BY DEF IInv, TypeOK
    <3>. QED
      BY <3>1, <3>2
  <2>3. CASE \E i \in Mergeable(r) : pending' = MergedAt(i, r)
    <3>1. PICK i \in Mergeable(r) : pending' = MergedAt(i, r)
      BY <2>3
    <3>2. i \in 1 .. Len(pending) /\ Len(pending) \in Nat /\ pending \in Seq(Ranges)
      BY DEF Mergeable, IInv, TypeOK
    <3>3. /\ pending' \in Seq(Ranges) /\ Len(pending') = Len(pending)
          /\ \A j \in 1 .. Len(pending) : Granules(pending[j]) \subseteq Granules(pending'[j])
          /\ Granules(r) \subseteq Granules(pending'[i])
      BY <1>1, <3>1, <3>2, MergeKeepsGranules
    <3>4. i \in 1 .. Len(pending') /\ Len(pending) <= Len(pending')
      BY <3>2, <3>3
    <3>. HIDE DEF r
    <3>. QED
      BY <3>3, <3>4
  <2>. QED
    BY <2>1, <2>2, <2>3 DEF QueueAppends
<1>5. TypeOK'
  BY <1>1, <1>2, <1>4 DEF IInv, TypeOK, history
<1>6. HolderHasLock' /\ RangeInHand'
  BY <1>1, <1>2, <1>3 DEF IInv, TypeOK, HolderHasLock, RangeInHand, HasRange
<1>7. NothingIsForgotten'
  <2>. SUFFICES ASSUME through_kernel, ~error, NEW u \in Threads, NEW x \in owed[u]
                PROVE  OnList(x)' \/ (HasRange(u) /\ x \in Granules(call[u]))'
    BY <1>1 DEF NothingIsForgotten, history
  <2>1. \A v \in Threads : pc'[v] # "sync"
    BY <1>2, <1>3 DEF IInv, TypeOK
  <2>2. OnList(x) => OnList(x)'
    <3>1. Len(pending) \in Nat /\ Len(pending') \in Nat
      BY <1>4 DEF IInv, TypeOK
    <3>. QED
      BY <1>4, <2>1, <3>1 DEF OnList
  <2>3. CASE u = t /\ x \in Granules(r)
    BY <1>4, <2>1, <2>3 DEF OnList
  <2>4. CASE u # t /\ HasRange(u) /\ x \in Granules(call[u])
    BY <1>1, <1>2, <2>4 DEF HasRange, IInv, TypeOK
  <2>. QED
    BY <2>2, <2>3, <2>4 DEF IInv, NothingIsForgotten
<1>8. FlushMeansDone'
  BY <1>1, <1>2 DEF IInv, TypeOK, FlushMeansDone, history
<1>. QED
  BY <1>5, <1>6, <1>7, <1>8 DEF IInv

(* One entry of the list is done, for every thread that owed of it. *)
LEMMA SyncHolds ==
  ASSUME IInv, NEW t \in Threads, SyncRange(t)
  PROVE  IInv'
<1>. DEFINE k == at[t]   r == pending[k]
<1>1. /\ pc[t] = "sync" /\ lock = t /\ k \in 1 .. Len(pending) /\ r \in Ranges
      /\ owed' = [u \in Threads |-> owed[u] \ Granules(r)]
      /\ at' = [at EXCEPT ![t] = k + 1]
      /\ UNCHANGED <<dev, lock, pc, call, after, issued, asks>>
  BY DEF SyncRange, Done, IInv, TypeOK, HolderHasLock
<1>2. lost' \in SUBSET [bo : Bos, granule : 0 .. MaxOffset]
  <2>1. Unclean \subseteq [bo : Bos, granule : 0 .. MaxOffset]
    BY DEF Unclean, IInv, TypeOK, Items
  <2>. QED
    BY <2>1 DEF SyncRange, IInv, TypeOK
<1>3. \A u \in Threads \ {t} : pc[u] # "sync"
  BY <1>1 DEF IInv, HolderHasLock
<1>4. TypeOK'
  BY <1>1, <1>2 DEF IInv, TypeOK, dev
<1>5. HolderHasLock' /\ RangeInHand'
  BY <1>1 DEF IInv, HolderHasLock, RangeInHand, HasRange
<1>6. NothingIsForgotten'
  <2>. SUFFICES ASSUME through_kernel, ~error, NEW u \in Threads, NEW x \in owed'[u]
                PROVE  OnList(x)' \/ (HasRange(u) /\ x \in Granules(call[u]))'
    BY <1>1 DEF NothingIsForgotten, dev
  <2>1. x \in owed[u] /\ x \notin Granules(r)
    BY <1>1
  <2>2. OnList(x) => OnList(x)'
    <3>. SUFFICES ASSUME NEW i \in 1 .. Len(pending), x \in Granules(pending[i]), k <= i
                  PROVE  OnList(x)'
      BY <1>1 DEF OnList
    <3>1. k + 1 <= i
      BY <1>1, <2>1
    <3>. QED
      BY <1>1, <1>3, <3>1 DEF OnList, IInv, TypeOK, dev
  <2>3. HasRange(u) /\ x \in Granules(call[u]) => (HasRange(u) /\ x \in Granules(call[u]))'
    BY <1>1 DEF HasRange
  <2>. QED
    BY <2>1, <2>2, <2>3 DEF IInv, NothingIsForgotten
<1>7. FlushMeansDone'
  BY <1>1 DEF IInv, FlushMeansDone, dev
<1>. QED
  BY <1>4, <1>5, <1>6, <1>7 DEF IInv

LEMMA SyncFailsHolds ==
  ASSUME IInv, NEW t \in Threads, SyncFails(t)
  PROVE  IInv'
BY DEF IInv, TypeOK, SyncFails, HolderHasLock, RangeInHand, HasRange, NothingIsForgotten,
       FlushMeansDone, history

(* The list is cleared only when nothing on it is owed, or for good: with  *)
(* the error set.                                                          *)
LEMMA SyncsEndHolds ==
  ASSUME IInv, NEW t \in Threads, SyncsEnd(t)
  PROVE  IInv'
<1>1. /\ pc[t] = "sync" /\ lock = t /\ pending' = <<>>
      /\ error \/ at[t] > Len(pending)
      /\ UNCHANGED <<through_kernel, error, user_cache_ops_pending, call, at, after, issued, history>>
  BY DEF SyncsEnd, IInv, HolderHasLock
<1>2. PICK p \in {"append", "ok", "failed"} :
        /\ pc' = [pc EXCEPT ![t] = p]
        /\ \/ p = "append" /\ after[t] = "append" /\ lock' = lock
           \/ p = Result /\ after[t] = "return" /\ lock' = NoThread
  BY DEF SyncsEnd, Goto, Result
<1>3. \A u \in Threads \ {t} : pc[u] \notin {"append", "sync"}
  BY <1>1 DEF IInv, HolderHasLock
<1>4. TypeOK'
  BY <1>1, <1>2, EmptySeq DEF IInv, TypeOK, history
<1>5. HolderHasLock' /\ RangeInHand'
  BY <1>1, <1>2, <1>3 DEF IInv, TypeOK, HolderHasLock, RangeInHand, HasRange, Result
<1>6. ASSUME through_kernel, ~error, NEW u \in Threads, NEW x \in owed[u]
      PROVE  HasRange(u) /\ x \in Granules(call[u])
  <2>1. ~OnList(x)
    BY <1>1, <1>6 DEF OnList, IInv, TypeOK
  <2>. QED
    BY <1>6, <2>1 DEF IInv, NothingIsForgotten
<1>7. NothingIsForgotten'
  <2>. SUFFICES ASSUME through_kernel, ~error, NEW u \in Threads, NEW x \in owed[u]
                PROVE  (HasRange(u) /\ x \in Granules(call[u]))'
    BY <1>1 DEF NothingIsForgotten, history
  <2>1. HasRange(u) /\ x \in Granules(call[u])
    BY <1>6
  <2>2. HasRange(u)'
    BY <1>1, <1>2, <2>1 DEF HasRange, IInv, TypeOK, Result
  <2>. QED
    BY <1>1, <2>1, <2>2
<1>8. FlushMeansDone'
  <2>1. ASSUME through_kernel, p = "ok" PROVE owed[t] = {}
    <3>1. ~error /\ after[t] = "return"
      BY <1>2, <2>1 DEF Result
    <3>2. ~HasRange(t)
      BY <1>1, <3>1 DEF HasRange
    <3>. QED
      BY <1>6, <2>1, <3>1, <3>2
  <2>. QED
    BY <1>1, <1>2, <2>1 DEF IInv, TypeOK, FlushMeansDone, history
<1>. QED
  BY <1>4, <1>5, <1>7, <1>8 DEF IInv

LEMMA IInvHolds == Spec => []IInv
<1>1. Init => IInv
  BY InitHolds
<1>2. IInv /\ [Next]_vars => IInv'
  <2>. SUFFICES ASSUME IInv, [Next]_vars PROVE IInv'
    OBVIOUS
  <2>1. ASSUME NEW t \in Threads, Step(t) PROVE IInv'
    BY <2>1, AskHolds, UserSpaceHolds, BarrierHolds, TestHolds, LockHolds, AppendHolds,
       SyncHolds, SyncFailsHolds, SyncsEndHolds DEF Step
  <2>2. CASE UNCHANGED vars
    BY <2>2 DEF vars, dev, history, IInv, TypeOK, HolderHasLock, RangeInHand, HasRange,
       NothingIsForgotten, OnList, FlushMeansDone
  <2>. QED
    BY <2>1, <2>2 DEF Next
<1>. QED
  BY <1>1, <1>2, PTL DEF Spec

-----------------------------------------------------------------------------
(* Theorems                                                                *)

(* Every variable keeps its type: a merged or appended range is one of the *)
(* buffer it was.                                                          *)
THEOREM CacheTypeCorrect == Spec => []TypeOK
BY IInvHolds, PTL DEF IInv

(* A flush through the kernel that reports success has made effective      *)
(* everything its thread asked for before: no range is lost in a merge, a  *)
(* full list, a flush of another thread, a failure, or the test of the     *)
(* list without its lock.                                                  *)
THEOREM FlushIsTrue == Spec => []FlushMeansDone
BY IInvHolds, PTL DEF IInv

(* User-space operations that no barrier followed are announced by the     *)
(* flag, or a thread is about to set it, or has taken it.                  *)
THEOREM OperationsAreAnnounced == Spec => []OperationsAwaitABarrier
<1>1. Init => OperationsAwaitABarrier
  BY InitHolds
<1>2. TypeOK /\ OperationsAwaitABarrier /\ [Next]_vars => OperationsAwaitABarrier'
  <2>. SUFFICES ASSUME TypeOK, OperationsAwaitABarrier, [Next]_vars
                PROVE  OperationsAwaitABarrier'
    OBVIOUS
  <2>1. ASSUME NEW t \in Threads, Operate(t) PROVE OperationsAwaitABarrier'
    BY <2>1 DEF Operate, Goto, TypeOK, OperationsAwaitABarrier
  <2>2. ASSUME NEW t \in Threads, FlagBarrier(t) PROVE OperationsAwaitABarrier'
    BY <2>2 DEF FlagBarrier, OperationsAwaitABarrier
  <2>3. ASSUME NEW t \in Threads, FlushTakesFlag(t) PROVE OperationsAwaitABarrier'
    <3>1. CASE user_cache_ops_pending
      BY <2>3, <3>1 DEF FlushTakesFlag, Goto, TypeOK, OperationsAwaitABarrier
    <3>2. CASE ~user_cache_ops_pending
      BY <2>3, <3>2 DEF FlushTakesFlag, Goto, TypeOK, OperationsAwaitABarrier
    <3>. QED
      BY <3>1, <3>2
  <2>4. ASSUME NEW t \in Threads, FlushBarrier(t) PROVE OperationsAwaitABarrier'
    BY <2>4 DEF FlushBarrier, OperationsAwaitABarrier
  <2>5. ASSUME NEW t \in Threads, NEW p,
               pc[t] \notin {"flag", "barrier"}, pc' = [pc EXCEPT ![t] = p],
               UNCHANGED <<user_cache_ops_pending, issued>>
        PROVE  OperationsAwaitABarrier'
    BY <2>5 DEF TypeOK, OperationsAwaitABarrier
  <2>6. ASSUME NEW t \in Threads, NEW r \in Ranges, Ask(t, r) PROVE OperationsAwaitABarrier'
    BY <2>5, <2>6 DEF Ask, Goto, dev
  <2>7. ASSUME NEW t \in Threads,
               QueueLocks(t) \/ QueueAppends(t) \/ SyncsEnd(t) \/ FlushTests(t) \/ FlushLocks(t)
               \/ FlushReturns(t)
        PROVE  OperationsAwaitABarrier'
    BY <2>5, <2>7 DEF QueueLocks, QueueAppends, SyncsEnd, FlushTests, FlushLocks, FlushReturns,
       Goto, dev
  <2>8. ASSUME NEW t \in Threads, SyncRange(t) \/ SyncFails(t) PROVE OperationsAwaitABarrier'
    BY <2>8 DEF SyncRange, SyncFails, dev, OperationsAwaitABarrier
  <2>9. CASE UNCHANGED vars
    BY <2>9 DEF vars, dev, OperationsAwaitABarrier
  <2>. QED
    BY <2>1, <2>2, <2>3, <2>4, <2>6, <2>7, <2>8, <2>9 DEF Next, Step
<1>. QED
  BY <1>1, <1>2, CacheTypeCorrect, PTL DEF Spec

-----------------------------------------------------------------------------
(* No write is lost: the inductive invariant                               *)

(* b is worked on by t and by no other thread. *)
OwnedBy(b, t) == \A u \in Threads : b \in Uses[u] <=> u = t

(* Requests are for buffers their thread works on. *)
AskedOfItsBuffers ==
  \A t \in Threads :
    /\ HasRange(t) => call[t].bo \in Uses[t]
    /\ \A x \in owed[t] : x.bo \in Uses[t]

(* The list is used by devices that go through the kernel. *)
WayIsTheDevices ==
  /\ ~through_kernel => pending = <<>>
  /\ \A t \in Threads : HasRange(t) => through_kernel
  /\ \A t \in Threads : pc[t] \in {"operate", "flag"} => ~through_kernel

(* t has asked for an invalidation, or flushes, and asks for no cleaning   *)
(* before its flush is over.                                               *)
ReadsBack(t) ==
  \/ pc[t] \in {"reading", "barrier", "test", "relock"}
  \/ pc[t] = "sync" /\ after[t] = "return"
  \/ HasRange(t) /\ call[t].type = "INVALIDATE"

Invalidates(j, b) == pending[j].bo = b /\ pending[j].type = "INVALIDATE"

(* While the list holds an invalidation of a thread's own buffer, the      *)
(* thread is busy reading back.                                            *)
ReadersInvalidate ==
  \A t \in Threads, b \in Bos :
    (OwnedBy(b, t) /\ \E j \in 1 .. Len(pending) : Invalidates(j, b)) => ReadsBack(t)

(* x is done by an entry before the j-th that nobody who walks the list    *)
(* has passed.                                                             *)
DoneBefore(x, j) ==
  \E i \in 1 .. Len(pending) :
    /\ i < j /\ x \in Granules(pending[i])
    /\ \A u \in Threads : pc[u] = "sync" => at[u] <= i

(* What a thread wrote to its own buffer and nobody cleaned yet is on the  *)
(* list before every invalidation of that buffer.                          *)
CleanedFirst ==
  ~error =>
    \A t \in Threads, b \in Bos, j \in 1 .. Len(pending) : \A x \in owed[t] :
      (OwnedBy(b, t) /\ Invalidates(j, b) /\ x.bo = b /\ x.type = "FLUSH") => DoneBefore(x, j)

WInv == AskedOfItsBuffers /\ WayIsTheDevices /\ ReadersInvalidate /\ CleanedFirst /\ NoWriteIsLost

-----------------------------------------------------------------------------
(* No write is lost: steps                                                 *)

(* Steps that leave the list alone, add no granule to clean and start to   *)
(* walk the list, if they do, at its head.                                 *)
LEMMA QuietOrder ==
  ASSUME IInv, CleanedFirst, UNCHANGED <<pending, error>>,
         \A u \in Threads : \A x \in owed'[u] : x.type = "FLUSH" => x \in owed[u],
         \A u \in Threads : pc'[u] = "sync" => at'[u] = 1 \/ (pc[u] = "sync" /\ at'[u] = at[u])
  PROVE  CleanedFirst'
<1>. SUFFICES ASSUME ~error, NEW t \in Threads, NEW b \in Bos, NEW j \in 1 .. Len(pending),
                     NEW x \in owed'[t], OwnedBy(b, t), Invalidates(j, b), x.bo = b,
                     x.type = "FLUSH"
              PROVE  DoneBefore(x, j)'
  BY DEF CleanedFirst, OwnedBy, Invalidates
<1>1. PICK i \in 1 .. Len(pending) :
        /\ i < j /\ x \in Granules(pending[i])
        /\ \A u \in Threads : pc[u] = "sync" => at[u] <= i
  BY DEF CleanedFirst, DoneBefore
<1>2. 1 <= i
  BY <1>1
<1>. QED
  BY <1>1, <1>2 DEF DoneBefore

(* Steps that leave the list alone, and after which whoever read back      *)
(* still does.                                                             *)
LEMMA QuietReaders ==
  ASSUME ReadersInvalidate, UNCHANGED pending, \A u \in Threads : ReadsBack(u) => ReadsBack(u)'
  PROVE  ReadersInvalidate'
BY DEF ReadersInvalidate, OwnedBy, Invalidates

(* A thread whose own buffer is about to be invalidated by the list asks   *)
(* for no cleaning.                                                        *)
LEMMA AskKeepsWrites ==
  ASSUME IInv, WInv, NEW t \in Threads, NEW r \in Ranges, Ask(t, r)
  PROVE  WInv'
<1>1. /\ pc[t] = "idle" \/ (pc[t] = "reading" /\ r.type = "INVALIDATE")
      /\ r.bo \in Uses[t]
      /\ call' = [call EXCEPT ![t] = r]
      /\ owed' = [owed EXCEPT ![t] = @ \cup Granules(r)]
      /\ pc' = [pc EXCEPT ![t] = IF through_kernel THEN "queue" ELSE "operate"]
      /\ UNCHANGED <<dev, lock, at, after, issued, lost>>
  BY DEF Ask, Goto
<1>2. \A x \in Granules(r) : x.bo = r.bo /\ x.type = r.type
  BY DEF Granules
<1>3. /\ owed'[t] = owed[t] \cup Granules(r) /\ call'[t] = r
      /\ pc'[t] = IF through_kernel THEN "queue" ELSE "operate"
      /\ \A u \in Threads \ {t} : owed'[u] = owed[u] /\ pc'[u] = pc[u] /\ call'[u] = call[u]
  BY <1>1 DEF IInv, TypeOK
<1>4. AskedOfItsBuffers'
  <2>1. \A u \in Threads \ {t} : HasRange(u)' <=> HasRange(u)
    BY <1>1, <1>3 DEF HasRange
  <2>. QED
    BY <1>1, <1>2, <1>3, <2>1 DEF AskedOfItsBuffers, WInv
<1>5. WayIsTheDevices'
  BY <1>1, <1>3 DEF WayIsTheDevices, HasRange, WInv, dev
<1>6. pc[t] = "idle" => ~ReadsBack(t)
  BY DEF ReadsBack, HasRange
<1>7. CASE r.type = "INVALIDATE"
  <2>1. ASSUME NEW u \in Threads, ReadsBack(u) PROVE ReadsBack(u)' \/ ~through_kernel
    BY <1>1, <1>3, <1>7, <2>1 DEF ReadsBack, HasRange
  <2>2. ReadersInvalidate'
    BY <1>1, <2>1 DEF ReadersInvalidate, WayIsTheDevices, WInv, OwnedBy, Invalidates, dev
  <2>3. CleanedFirst'
    BY <1>1, <1>2, <1>3, <1>7, QuietOrder DEF WInv, dev
  <2>. QED
    BY <1>1, <1>4, <1>5, <2>2, <2>3 DEF WInv, NoWriteIsLost
<1>8. CASE pc[t] = "idle"
  <2>1. \A b \in Bos, j \in 1 .. Len(pending) : OwnedBy(b, t) => ~Invalidates(j, b)
    BY <1>6, <1>8 DEF WInv, ReadersInvalidate
  <2>2. \A u \in Threads : ReadsBack(u) => ReadsBack(u)'
    BY <1>1, <1>3, <1>6, <1>8 DEF ReadsBack, HasRange
  <2>3. ReadersInvalidate'
    BY <1>1, <2>2, QuietReaders DEF WInv, dev
  <2>4. CleanedFirst'
    <3>. SUFFICES ASSUME ~error, NEW u \in Threads, NEW b \in Bos, NEW j \in 1 .. Len(pending),
                         NEW x \in owed'[u], OwnedBy(b, u), Invalidates(j, b), x.bo = b,
                         x.type = "FLUSH"
                  PROVE  DoneBefore(x, j)'
      BY <1>1 DEF CleanedFirst, OwnedBy, Invalidates, dev
    <3>1. u # t
      BY <2>1
    <3>2. DoneBefore(x, j)
      BY <1>3, <3>1 DEF WInv, CleanedFirst
    <3>. QED
      BY <1>1, <1>3, <3>2 DEF DoneBefore, dev
  <2>. QED
    BY <1>1, <1>4, <1>5, <2>3, <2>4 DEF WInv, NoWriteIsLost
<1>9. pc[t] = "idle" \/ r.type = "INVALIDATE"
  BY <1>1
<1>. QED
  BY ONLY <1>7, <1>8, <1>9

LEMMA UserSpaceKeepsWrites ==
  ASSUME IInv, WInv, NEW t \in Threads, Operate(t) \/ FlagBarrier(t) \/ FlushBarrier(t)
  PROVE  WInv'
<1>1. PICK p \in {"flag", "reading", "idle", "test"} :
        /\ pc' = [pc EXCEPT ![t] = p]
        /\ p = "flag" => pc[t] = "operate"
        /\ p \in {"reading", "idle"} => pc[t] = "flag"
        /\ pc[t] = "barrier" => p = "test"
  BY DEF Operate, FlagBarrier, FlushBarrier, Goto, Asked
<1>2. /\ pc[t] \in {"operate", "flag", "barrier"}
      /\ UNCHANGED <<through_kernel, pending, error, call, at, after, lost>>
      /\ \A u \in Threads : owed'[u] \subseteq owed[u]
  BY DEF Operate, FlagBarrier, FlushBarrier, Goto, Done, dev, history, IInv, TypeOK
<1>3. pc'[t] = p /\ \A u \in Threads \ {t} : pc'[u] = pc[u]
  BY <1>1 DEF IInv, TypeOK
<1>4. \A u \in Threads : HasRange(u)' <=> HasRange(u)
  BY <1>2, <1>3 DEF HasRange
<1>5. AskedOfItsBuffers' /\ WayIsTheDevices'
  BY <1>1, <1>2, <1>3, <1>4 DEF WInv, AskedOfItsBuffers, WayIsTheDevices
<1>6. \A u \in Threads : ReadsBack(u) => ReadsBack(u)'
  BY <1>1, <1>2, <1>3, <1>4 DEF ReadsBack, HasRange
<1>7. ReadersInvalidate'
  BY <1>2, <1>6, QuietReaders DEF WInv
<1>8. CleanedFirst'
  BY <1>2, <1>3, QuietOrder DEF WInv
<1>. QED
  BY <1>2, <1>5, <1>7, <1>8 DEF WInv, NoWriteIsLost

(* A flush that finds the list empty leaves no invalidation behind. *)
LEMMA FlushKeepsWrites ==
  ASSUME IInv, WInv, NEW t \in Threads, FlushTakesFlag(t) \/ FlushTests(t) \/ FlushReturns(t)
  PROVE  WInv'
<1>1. PICK p \in {"idle", "barrier", "test", "relock", "ok", "failed"} :
        /\ pc' = [pc EXCEPT ![t] = p]
        /\ p \in {"ok", "failed"} => pending = <<>>
        /\ p = "idle" => pc[t] \in {"ok", "failed"}
  BY DEF FlushTakesFlag, FlushTests, FlushReturns, Goto, Result
<1>2. /\ pc[t] \in {"idle", "reading", "test", "ok", "failed"}
      /\ UNCHANGED <<through_kernel, pending, error, call, at, after, owed, lost>>
  BY DEF FlushTakesFlag, FlushTests, FlushReturns, dev, history
<1>3. pc'[t] = p /\ \A u \in Threads \ {t} : pc'[u] = pc[u]
  BY <1>1 DEF IInv, TypeOK
<1>4. \A u \in Threads : HasRange(u)' <=> HasRange(u)
  BY <1>2, <1>3 DEF HasRange
<1>5. AskedOfItsBuffers' /\ WayIsTheDevices'
  BY <1>2, <1>3, <1>4 DEF WInv, AskedOfItsBuffers, WayIsTheDevices
<1>6. ReadersInvalidate'
  <2>1. CASE pending = <<>>
    BY <1>2, <2>1 DEF ReadersInvalidate, Invalidates
  <2>2. CASE pending # <<>>
    <3>1. ASSUME NEW u \in Threads, ReadsBack(u) PROVE ReadsBack(u)'
      BY <1>1, <1>2, <1>3, <1>4, <2>2, <3>1 DEF ReadsBack, HasRange
    <3>. QED
      BY <1>2, <3>1, QuietReaders DEF WInv
  <2>. QED
    BY <2>1, <2>2
<1>7. CleanedFirst'
  BY <1>2, <1>3, QuietOrder DEF WInv
<1>. QED
  BY <1>2, <1>5, <1>6, <1>7 DEF WInv, NoWriteIsLost

(* Whoever walks the list starts at its head. *)
LEMMA LockKeepsWrites ==
  ASSUME IInv, WInv, NEW t \in Threads, QueueLocks(t) \/ FlushLocks(t)
  PROVE  WInv'
<1>1. PICK p \in {"sync", "append"}, a \in {"append", "return"} :
        /\ pc' = [pc EXCEPT ![t] = p] /\ after' = [after EXCEPT ![t] = a]
        /\ \/ pc[t] = "queue" /\ a = "append"
           \/ pc[t] = "relock" /\ a = "return" /\ p = "sync"
  BY DEF QueueLocks, FlushLocks, Goto
<1>2. /\ at' = [at EXCEPT ![t] = 1]
      /\ UNCHANGED <<through_kernel, pending, error, call, owed, lost>>
  BY DEF QueueLocks, FlushLocks, dev, history
<1>3. /\ pc'[t] = p /\ after'[t] = a /\ at'[t] = 1
      /\ \A u \in Threads \ {t} : pc'[u] = pc[u] /\ after'[u] = after[u] /\ at'[u] = at[u]
  BY <1>1, <1>2 DEF IInv, TypeOK
<1>4. \A u \in Threads : HasRange(u)' <=> HasRange(u)
  BY <1>1, <1>3 DEF HasRange
<1>5. AskedOfItsBuffers' /\ WayIsTheDevices'
  BY <1>1, <1>2, <1>3, <1>4 DEF WInv, AskedOfItsBuffers, WayIsTheDevices
<1>6. \A u \in Threads : ReadsBack(u) => ReadsBack(u)'
  BY <1>1, <1>2, <1>3, <1>4 DEF ReadsBack, HasRange
<1>7. ReadersInvalidate'
  BY <1>2, <1>6, QuietReaders DEF WInv
<1>8. CleanedFirst'
  BY <1>2, <1>3, QuietOrder DEF WInv
<1>. QED
  BY <1>2, <1>5, <1>7, <1>8 DEF WInv, NoWriteIsLost

(* How an entry of the list is replaced by one that has its granules too. *)
LEMMA AppendedKinds ==
  ASSUME pending \in Seq(Ranges), NEW t \in Threads, call[t] \in Ranges, QueueAppends(t)
  PROVE  \/ UNCHANGED pending /\ error
         \/ /\ Len(pending') = Len(pending) + 1 /\ Len(pending) \in Nat
            /\ pending'[Len(pending) + 1] = call[t]
            /\ \A j \in 1 .. Len(pending) : pending'[j] = pending[j]
         \/ /\ Len(pending') = Len(pending)
            /\ \E i \in 1 .. Len(pending) :
                 /\ pending[i].bo = call[t].bo /\ pending[i].type = call[t].type
            /\ \A j \in 1 .. Len(pending) :
                 /\ Granules(pending[j]) \subseteq Granules(pending'[j])
                 /\ pending'[j].bo = pending[j].bo /\ pending'[j].type = pending[j].type
<1>. DEFINE r == call[t]
<1>1. CASE error /\ UNCHANGED pending
  BY <1>1
<1>2. CASE pending' = Appended(r)
  <2>1. /\ Len(pending') = Len(pending) + 1 /\ pending'[Len(pending) + 1] = r
        /\ \A j \in 1 .. Len(pending) : pending'[j] = pending[j]
    BY <1>2, AppendProperties DEF Appended
  <2>. QED
    BY <2>1
<1>3. CASE \E i \in Mergeable(r) : pending' = MergedAt(i, r)
  <2>1. PICK i \in Mergeable(r) : pending' = MergedAt(i, r)
    BY <1>3
  <2>2. /\ i \in 1 .. Len(pending) /\ pending[i].bo = r.bo /\ pending[i].type = r.type
    BY DEF Mergeable
  <2>3. /\ Len(pending') = Len(pending)
        /\ \A j \in 1 .. Len(pending) : Granules(pending[j]) \subseteq Granules(pending'[j])
    BY <2>1, MergeKeepsGranules
  <2>4. Span(r, pending[i]).bo = r.bo /\ Span(r, pending[i]).type = r.type
    BY DEF Span
  <2>5. \A j \in 1 .. Len(pending) : pending'[j] = IF j = i THEN Span(r, pending[i]) ELSE pending[j]
    BY <2>1, <2>2 DEF MergedAt
  <2>6. \A j \in 1 .. Len(pending) :
          pending'[j].bo = pending[j].bo /\ pending'[j].type = pending[j].type
    BY <2>2, <2>4, <2>5
  <2>. QED
    BY <2>2, <2>3, <2>6
<1>. QED
  BY <1>1, <1>2, <1>3 DEF QueueAppends

(* An invalidation of a thread's own buffer comes after everything that    *)
(* was to be cleaned; no cleaning comes while there is one.                *)
LEMMA AppendKeepsWrites ==
  ASSUME IInv, WInv, NEW t \in Threads, QueueAppends(t)
  PROVE  WInv'
<1>. DEFINE r == call[t]
<1>1. /\ pc[t] = "append" /\ r \in Ranges /\ pending \in Seq(Ranges) /\ through_kernel
      /\ r.bo \in Uses[t]
      /\ UNCHANGED <<through_kernel, error, call, at, after, owed, lost>>
  BY DEF QueueAppends, IInv, TypeOK, RangeInHand, HasRange, WInv, WayIsTheDevices,
     AskedOfItsBuffers, history
<1>2. /\ pc' = [pc EXCEPT ![t] = Asked(t)]
      /\ Asked(t) = IF r.type = "INVALIDATE" THEN "reading" ELSE "idle"
  BY DEF QueueAppends, Goto, Asked
<1>3. pc'[t] = Asked(t) /\ \A u \in Threads \ {t} : pc'[u] = pc[u]
  BY <1>2 DEF IInv, TypeOK
<1>4. /\ \A u \in Threads : pc[u] # "sync" /\ pc'[u] # "sync"
      /\ lock = t
  BY <1>1, <1>2, <1>3 DEF IInv, HolderHasLock
<1>5. \A u \in Threads : HasRange(u)' => HasRange(u)
  BY <1>1, <1>2, <1>3 DEF HasRange
<1>6. AskedOfItsBuffers' /\ WayIsTheDevices'
  BY <1>1, <1>2, <1>3, <1>5 DEF WInv, AskedOfItsBuffers, WayIsTheDevices
<1>7. \A u \in Threads : ReadsBack(u) => ReadsBack(u)'
  BY <1>1, <1>2, <1>3 DEF ReadsBack, HasRange
<1>8. CASE UNCHANGED pending
  <2>1. ReadersInvalidate'
    BY <1>7, <1>8, QuietReaders DEF WInv
  <2>2. CleanedFirst'
    BY <1>1, <1>4, <1>8, QuietOrder DEF WInv
  <2>. QED
    BY <1>1, <1>6, <2>1, <2>2 DEF WInv, NoWriteIsLost
<1>9. ASSUME Len(pending') = Len(pending) + 1, Len(pending) \in Nat,
             pending'[Len(pending) + 1] = r,
             \A j \in 1 .. Len(pending) : pending'[j] = pending[j]
      PROVE  ReadersInvalidate' /\ CleanedFirst'
  <2>1. ReadersInvalidate'
    <3>. SUFFICES ASSUME NEW u \in Threads, NEW b \in Bos, OwnedBy(b, u),
                         NEW j \in 1 .. Len(pending'), Invalidates(j, b)'
                  PROVE  ReadsBack(u)'
      BY DEF ReadersInvalidate, OwnedBy
    <3>1. CASE j \in 1 .. Len(pending)
      BY <1>7, <1>9, <3>1 DEF WInv, ReadersInvalidate, Invalidates
    <3>2. CASE j = Len(pending) + 1
      <4>1. r.bo = b /\ r.type = "INVALIDATE"
        BY <1>9, <3>2 DEF Invalidates
      <4>2. u = t
        BY <1>1, <4>1 DEF OwnedBy
      <4>. QED
        BY <1>2, <1>3, <4>1, <4>2 DEF ReadsBack
    <3>. QED
      BY <1>9, <3>1, <3>2
  <2>2. CleanedFirst'
    <3>. SUFFICES ASSUME ~error, NEW u \in Threads, NEW b \in Bos, OwnedBy(b, u),
                         NEW j \in 1 .. Len(pending'), Invalidates(j, b)',
                         NEW x \in owed[u], x.bo = b, x.type = "FLUSH"
                  PROVE  DoneBefore(x, j)'
      BY <1>1 DEF CleanedFirst, OwnedBy
    <3>1. CASE j \in 1 .. Len(pending)
      <4>1. Invalidates(j, b)
        BY <1>9, <3>1 DEF Invalidates
      <4>2. PICK i \in 1 .. Len(pending) : i < j /\ x \in Granules(pending[i])
        BY <3>1, <4>1 DEF WInv, CleanedFirst, DoneBefore
      <4>. QED
        BY <1>4, <1>9, <4>2 DEF DoneBefore
    <3>2. CASE j = Len(pending) + 1
      <4>1. r.bo = b /\ r.type = "INVALIDATE"
        BY <1>9, <3>2 DEF Invalidates
      <4>2. u = t
        BY <1>1, <4>1 DEF OwnedBy
      <4>3. x \notin Granules(r)
        BY <4>1 DEF Granules
      <4>4. OnList(x)
        BY <1>1, <4>2, <4>3 DEF IInv, NothingIsForgotten
      <4>5. PICK i \in 1 .. Len(pending) : x \in Granules(pending[i])
        BY <4>4 DEF OnList
      <4>. QED
        BY <1>4, <1>9, <3>2, <4>5 DEF DoneBefore
    <3>. QED
      BY <1>9, <3>1, <3>2
  <2>. QED
    BY <2>1, <2>2
<1>10. ASSUME Len(pending') = Len(pending),
              NEW k \in 1 .. Len(pending), pending[k].bo = r.bo, pending[k].type = r.type,
              \A j \in 1 .. Len(pending) :
                /\ Granules(pending[j]) \subseteq Granules(pending'[j])
                /\ pending'[j].bo = pending[j].bo /\ pending'[j].type = pending[j].type
       PROVE  ReadersInvalidate' /\ CleanedFirst'
  <2>1. ReadersInvalidate'
    BY <1>7, <1>10 DEF WInv, ReadersInvalidate, Invalidates, OwnedBy
  <2>2. CleanedFirst'
    <3>. SUFFICES ASSUME ~error, NEW u \in Threads, NEW b \in Bos, OwnedBy(b, u),
                         NEW j \in 1 .. Len(pending), Invalidates(j, b)',
                         NEW x \in owed[u], x.bo = b, x.type = "FLUSH"
                  PROVE  DoneBefore(x, j)'
      BY <1>1, <1>10 DEF CleanedFirst, OwnedBy
    <3>1. Invalidates(j, b)
      BY <1>10 DEF Invalidates
    <3>2. PICK i \in 1 .. Len(pending) : i < j /\ x \in Granules(pending[i])
      BY <3>1 DEF WInv, CleanedFirst, DoneBefore
    <3>. QED
      BY <1>4, <1>10, <3>2 DEF DoneBefore
  <2>. QED
    BY <2>1, <2>2
<1>11. UNCHANGED pending \/ (ReadersInvalidate' /\ CleanedFirst')
  BY <1>1, <1>9, <1>10, AppendedKinds
<1>. QED
  BY <1>1, <1>6, <1>8, <1>11 DEF WInv, NoWriteIsLost

(* An invalidation that is carried out finds every write to a buffer of    *)
(* one thread cleaned: what is still to be cleaned would have to stand     *)
(* before it on the list, where the walk has been.                         *)
LEMMA SyncKeepsWrites ==
  ASSUME IInv, WInv, NEW t \in Threads, SyncRange(t)
  PROVE  WInv'
<1>. DEFINE k == at[t]   r == pending[k]
<1>1. /\ pc[t] = "sync" /\ lock = t /\ ~error /\ k \in 1 .. Len(pending) /\ r \in Ranges
      /\ owed' = [u \in Threads |-> owed[u] \ Granules(r)]
      /\ at' = [at EXCEPT ![t] = k + 1]
      /\ UNCHANGED <<dev, lock, pc, call, after, issued, asks>>
  BY DEF SyncRange, Done, IInv, TypeOK, HolderHasLock
<1>2. /\ at'[t] = k + 1 /\ k \in Nat
      /\ \A u \in Threads \ {t} : pc[u] # "sync"
  BY <1>1 DEF IInv, TypeOK, HolderHasLock
<1>3. AskedOfItsBuffers' /\ WayIsTheDevices'
  BY <1>1 DEF WInv, AskedOfItsBuffers, WayIsTheDevices, HasRange, dev
<1>4. ReadersInvalidate'
  <2>1. \A u \in Threads : ReadsBack(u) => ReadsBack(u)'
    BY <1>1 DEF ReadsBack, HasRange
  <2>. QED
    BY <1>1, <2>1, QuietReaders DEF WInv, dev
<1>5. CleanedFirst'
  <2>. SUFFICES ASSUME NEW u \in Threads, NEW b \in Bos, OwnedBy(b, u),
                       NEW j \in 1 .. Len(pending), Invalidates(j, b),
                       NEW x \in owed'[u], x.bo = b, x.type = "FLUSH"
                PROVE  DoneBefore(x, j)'
    BY <1>1 DEF CleanedFirst, OwnedBy, Invalidates, dev
  <2>1. x \in owed[u] /\ x \notin Granules(r)
    BY <1>1
  <2>2. PICK i \in 1 .. Len(pending) :
          /\ i < j /\ x \in Granules(pending[i])
          /\ \A v \in Threads : pc[v] = "sync" => at[v] <= i
    BY <1>1, <2>1 DEF WInv, CleanedFirst, DoneBefore
  <2>3. k <= i /\ i # k
    BY <1>1, <2>1, <2>2
  <2>4. k + 1 <= i
    BY <1>2, <2>3
  <2>. QED
    BY <1>1, <1>2, <2>2, <2>4 DEF DoneBefore, dev
<1>6. NoWriteIsLost'
  <2>. SUFFICES ASSUME NEW x \in lost', NEW u \in Threads, OwnedBy(x.bo, u)
                PROVE  FALSE
    BY DEF NoWriteIsLost, OwnedBy
  <2>1. x \notin lost
    BY DEF WInv, NoWriteIsLost, OwnedBy
  <2>2. r.type = "INVALIDATE" /\ x \in Unclean /\ x.bo = r.bo
    BY <2>1 DEF SyncRange
  <2>3. PICK v \in Threads : \E y \in owed[v] : y.type = "FLUSH" /\ x.bo = y.bo
    BY <2>2 DEF Unclean
  <2>4. PICK y \in owed[v] : y.type = "FLUSH" /\ x.bo = y.bo
    BY <2>3
  <2>5. v = u
    BY <2>4 DEF OwnedBy, WInv, AskedOfItsBuffers
  <2>6. Invalidates(k, x.bo) /\ x.bo \in Bos
    BY <1>1, <2>2 DEF Invalidates, Ranges
  <2>7. DoneBefore(y, k)
    BY <1>1, <2>4, <2>5, <2>6 DEF WInv, CleanedFirst
  <2>8. PICK i \in 1 .. Len(pending) : i < k /\ k <= i
    BY <1>1, <2>7 DEF DoneBefore
  <2>. QED
    BY <1>2, <2>8
<1>. QED
  BY <1>3, <1>4, <1>5, <1>6 DEF WInv

LEMMA SyncFailsKeepsWrites ==
  ASSUME IInv, WInv, NEW t \in Threads, SyncFails(t)
  PROVE  WInv'
<1>1. error' /\ UNCHANGED <<through_kernel, pending, lock, pc, call, at, after, owed, lost>>
  BY DEF SyncFails, history
<1>2. \A u \in Threads : (HasRange(u)' <=> HasRange(u)) /\ (ReadsBack(u) => ReadsBack(u)')
  BY <1>1 DEF HasRange, ReadsBack
<1>3. AskedOfItsBuffers' /\ WayIsTheDevices'
  BY <1>1, <1>2 DEF WInv, AskedOfItsBuffers, WayIsTheDevices
<1>4. ReadersInvalidate'
  BY <1>1, <1>2, QuietReaders DEF WInv
<1>5. CleanedFirst'
  BY <1>1 DEF CleanedFirst
<1>. QED
  BY <1>1, <1>3, <1>4, <1>5 DEF WInv, NoWriteIsLost

(* On an empty list nothing is to be ordered. *)
LEMMA EndKeepsWrites ==
  ASSUME IInv, WInv, NEW t \in Threads, SyncsEnd(t)
  PROVE  WInv'
<1>1. /\ pc[t] = "sync" /\ pending' = <<>>
      /\ UNCHANGED <<through_kernel, error, call, at, after, owed, lost>>
  BY DEF SyncsEnd, history
<1>2. PICK p \in {"append", "ok", "failed"} :
        /\ pc' = [pc EXCEPT ![t] = p]
        /\ p = "append" => after[t] = "append"
  BY DEF SyncsEnd, Goto, Result
<1>3. pc'[t] = p /\ \A u \in Threads \ {t} : pc'[u] = pc[u]
  BY <1>2 DEF IInv, TypeOK
<1>4. \A u \in Threads : HasRange(u)' => HasRange(u)
  BY <1>1, <1>2, <1>3 DEF HasRange
<1>5. Len(pending') = 0
  BY <1>1
<1>6. AskedOfItsBuffers' /\ WayIsTheDevices'
  BY <1>1, <1>2, <1>3, <1>4 DEF WInv, AskedOfItsBuffers, WayIsTheDevices
<1>7. ReadersInvalidate' /\ CleanedFirst'
  BY <1>5 DEF ReadersInvalidate, CleanedFirst
<1>. QED
  BY <1>1, <1>6, <1>7 DEF WInv, NoWriteIsLost

(* No CPU write to a buffer that one thread works on is thrown away by an  *)
(* invalidation: the list holds what the thread wrote before what it reads *)
(* back, through every merge, full list and flush of another thread.       *)
THEOREM WritesAreKept == Spec => []NoWriteIsLost
<1>1. Init => WInv
  BY DEF Init, WInv, AskedOfItsBuffers, WayIsTheDevices, HasRange, ReadersInvalidate,
     CleanedFirst, NoWriteIsLost
<1>2. IInv /\ WInv /\ [Next]_vars => WInv'
  <2>. SUFFICES ASSUME IInv, WInv, [Next]_vars PROVE WInv'
    OBVIOUS
  <2>1. ASSUME NEW t \in Threads, Step(t) PROVE WInv'
    BY <2>1, AskKeepsWrites, UserSpaceKeepsWrites, FlushKeepsWrites, LockKeepsWrites,
       AppendKeepsWrites, SyncKeepsWrites, SyncFailsKeepsWrites, EndKeepsWrites DEF Step
  <2>2. CASE UNCHANGED vars
    BY <2>2 DEF vars, dev, history, WInv, AskedOfItsBuffers, WayIsTheDevices, HasRange,
       ReadersInvalidate, OwnedBy, Invalidates, ReadsBack, CleanedFirst, DoneBefore, NoWriteIsLost
  <2>. QED
    BY <2>1, <2>2 DEF Next
<1>. QED
  BY <1>1, <1>2, IInvHolds, PTL DEF Spec, WInv
=============================================================================
