----------------------------- MODULE CacheSync ------------------------------
(***************************************************************************)
(* Cache maintenance of CPU mappings in pan_kmod, with kbase below it.     *)
(*                                                                         *)
(* The GPU of these devices is not coherent: what the CPU wrote has to be  *)
(* cleaned before a job reads it, what a job wrote invalidated before the  *)
(* CPU reads it.  A thread asks for that range by range                    *)
(* (pan_kmod_queue_bo_map_sync); a flush, before a submit, in              *)
(* vkFlushMappedMemoryRanges or before a read-back, makes all that any     *)
(* thread asked for effective (pan_kmod_flush_bo_map_syncs).  Through the  *)
(* kernel, ranges are put on a list that the flush turns into one          *)
(* KBASE_IOCTL_MEM_SYNC each.  Else the range operations run at once in    *)
(* user space, and a flag says that a barrier is due.                      *)
(*                                                                         *)
(* An action is what a thread does between two looks at what threads       *)
(* share; the list is looked at without its lock once (FlushTests).        *)
(*                                                                         *)
(* Right before some definitions stands a variant of them with a mistake   *)
(* in it; nothing uses it.                                                 *)
(***************************************************************************)
EXTENDS Naturals, Sequences

CONSTANTS
  Threads, NoThread,
  Bos,
  Uses,           \* the buffers a thread works on: [Threads -> SUBSET Bos]
  MaxPending,     \* MAX_PENDING_SYNC_OPS
  MaxOffset,      \* bound: granules of a buffer
  MaxAsks         \* bound: ranges asked for in a behaviour

ASSUME NoThreadAssumption == NoThread \notin Threads
ASSUME UsesAssumption == Uses \in [Threads -> SUBSET Bos]
ASSUME LimitsAssumption == MaxPending \in Nat \ {0} /\ MaxOffset \in Nat /\ MaxAsks \in Nat

VARIABLES
  through_kernel,                          \* PAN_KMOD_DEV_FLAG_MMAP_SYNC_THROUGH_KERNEL
  pending, error, user_cache_ops_pending,  \* dev->pending_bo_syncs
  lock,                                    \* its mutex
  pc, call, at, after,                     \* the threads
  issued,                                  \* user-space operations before their barrier
  owed,                                    \* history: what a thread asked for and is not done
  lost,                                    \* history: CPU writes that were thrown away
  asks                                     \* for the bound

dev == <<through_kernel, pending, error, user_cache_ops_pending>>
history == <<owed, lost, asks>>
vars == <<dev, lock, pc, call, at, after, issued, history>>

-----------------------------------------------------------------------------
(* Data                                                                    *)

(* FLUSH is PAN_KMOD_BO_SYNC_CPU_CACHE_FLUSH, the other its                *)
(* FLUSH_AND_INVALIDATE.  A range [start, end) is in cache granules.       *)
Types == {"FLUSH", "INVALIDATE"}
Ranges == [bo : Bos, type : Types, start : 0 .. MaxOffset, end : 0 .. MaxOffset]

Granules(r) == {[bo |-> r.bo, type |-> r.type, granule |-> g] : g \in r.start .. r.end - 1}
Items == [bo : Bos, type : Types, granule : 0 .. MaxOffset]

NoRange == [bo |-> "none", type |-> "none", start |-> 0, end |-> 0]

Init ==
  /\ through_kernel \in BOOLEAN
  /\ pending = <<>> /\ error = FALSE /\ user_cache_ops_pending = FALSE
  /\ lock = NoThread
  /\ pc = [t \in Threads |-> "idle"]
  /\ call = [t \in Threads |-> NoRange]
  /\ at = [t \in Threads |-> 1]
  /\ after = [t \in Threads |-> "return"]
  /\ issued = {}
  /\ owed = [t \in Threads |-> {}]
  /\ lost = {}
  /\ asks = 0

Goto(t, where) == pc' = [pc EXCEPT ![t] = where]

(* What t does next when a range it asked for has been taken: a thread     *)
(* that asks for an invalidation flushes before it does anything else.     *)
Asked(t) == IF call[t].type = "INVALIDATE" THEN "reading" ELSE "idle"

-----------------------------------------------------------------------------
(* pan_kmod_queue_bo_map_sync                                              *)

(* A thread wrote to a range, or is to read it back. *)
Ask(t, r) ==
  /\ \/ pc[t] = "idle"
     \/ pc[t] = "reading" /\ r.type = "INVALIDATE"
  /\ asks < MaxAsks
  /\ r.bo \in Uses[t] /\ r.start < r.end
  /\ asks' = asks + 1
  /\ call' = [call EXCEPT ![t] = r]
  /\ owed' = [owed EXCEPT ![t] = @ \cup Granules(r)]
  /\ Goto(t, IF through_kernel THEN "queue" ELSE "operate")
  /\ UNCHANGED <<dev, lock, at, after, issued, lost>>

(* The range operations of user space, and the flag after them. *)
Operate(t) ==
  /\ pc[t] = "operate"
  /\ issued' = issued \cup Granules(call[t])
  /\ Goto(t, "flag")
  /\ UNCHANGED <<dev, lock, call, at, after, history>>

FlagBarrier(t) ==
  /\ pc[t] = "flag"
  /\ user_cache_ops_pending' = TRUE
  /\ Goto(t, Asked(t))
  /\ UNCHANGED <<through_kernel, pending, error, lock, call, at, after, issued, history>>

(* With the lock: a full list is flushed first (flush_bo_map_syncs_locked, *)
(* whose result is dropped).                                               *)
QueueLocks(t) ==
  /\ pc[t] = "queue" /\ lock = NoThread
  /\ lock' = t
  /\ at' = [at EXCEPT ![t] = 1]
  /\ after' = [after EXCEPT ![t] = "append"]
  /\ Goto(t, IF Len(pending) >= MaxPending THEN "sync" ELSE "append")
  /\ UNCHANGED <<dev, call, issued, history>>

(* A range of the same buffer and type that overlaps or touches this one. *)
Mergeable(r) ==
  {i \in 1 .. Len(pending) :
     /\ pending[i].bo = r.bo /\ pending[i].type = r.type
     /\ r.start <= pending[i].end /\ pending[i].start <= r.end}

Lower(a, b) == IF a <= b THEN a ELSE b
Upper(a, b) == IF a >= b THEN a ELSE b

(* One range over both, of the same buffer and type. *)
Span(r, s) ==
  [bo |-> r.bo, type |-> r.type, start |-> Lower(r.start, s.start), end |-> Upper(r.end, s.end)]

MergedSizeAt(i, r) == [pending EXCEPT ![i] = [Span(r, @) EXCEPT !.end = @ + Span(r, pending[i]).start]]
MergedAt(i, r) == [pending EXCEPT ![i] = Span(r, @)]

AppendedFirst(r) == <<r>> \o pending
Appended(r) == Append(pending, r)

QueueDropsLocked(t) ==
  /\ pc[t] = "append" /\ error
  /\ Goto(t, Asked(t))
  /\ UNCHANGED <<dev, lock, call, at, after, issued, history>>

(* A device whose cache maintenance failed takes nothing more. *)
QueueAppends(t) ==
  /\ pc[t] = "append"
  /\ LET r == call[t] IN
     \/ /\ error
        /\ UNCHANGED pending
     \/ /\ ~error /\ Mergeable(r) = {}
        /\ pending' = Appended(r)
     \/ /\ ~error
        /\ \E i \in Mergeable(r) :
             /\ \A j \in Mergeable(r) : i <= j
             /\ pending' = MergedAt(i, r)
  /\ lock' = NoThread
  /\ Goto(t, Asked(t))
  /\ UNCHANGED <<through_kernel, error, user_cache_ops_pending, call, at, after, issued, history>>

-----------------------------------------------------------------------------
(* pan_kmod_flush_bo_map_syncs_locked, kbase_kmod_flush_bo_map_syncs       *)

Done(done) == owed' = [t \in Threads |-> owed[t] \ done]

(* Granules the CPU wrote and nobody cleaned yet. *)
Unclean == {[bo |-> x.bo, granule |-> x.granule] :
              x \in {y \in UNION {owed[t] : t \in Threads} : y.type = "FLUSH"}}

(* KBASE_IOCTL_MEM_SYNC: MSYNC cleans to memory, CSYNC invalidates from    *)
(* memory, and a write that was not cleaned is gone.                       *)
SyncRange(t) ==
  /\ pc[t] = "sync" /\ ~error /\ at[t] <= Len(pending)
  /\ LET r == pending[at[t]] IN
       /\ Done(Granules(r))
       /\ lost' = IF r.type = "INVALIDATE"
                    THEN lost \cup {x \in Unclean : x.bo = r.bo /\ x.granule \in r.start .. r.end - 1}
                    ELSE lost
  /\ at' = [at EXCEPT ![t] = @ + 1]
  /\ UNCHANGED <<dev, lock, pc, call, after, issued, asks>>

SyncFailsUnnoticed(t) ==
  /\ pc[t] = "sync" /\ ~error /\ at[t] <= Len(pending)
  /\ at' = [at EXCEPT ![t] = Len(pending) + 1]
  /\ UNCHANGED <<dev, lock, pc, call, after, issued, history>>

(* The ioctl fails: the loop stops there, and the error stays. *)
SyncFails(t) ==
  /\ pc[t] = "sync" /\ ~error /\ at[t] <= Len(pending)
  /\ error' = TRUE
  /\ UNCHANGED <<through_kernel, pending, user_cache_ops_pending, lock, pc, call, at, after,
                 issued, history>>

Result == IF error THEN "failed" ELSE "ok"

(* The list is cleared however the loop ended, also when an error from     *)
(* before kept it from starting.                                           *)
SyncsEnd(t) ==
  /\ pc[t] = "sync" /\ (error \/ at[t] > Len(pending))
  /\ pending' = <<>>
  /\ \/ after[t] = "append" /\ UNCHANGED lock /\ Goto(t, "append")
     \/ after[t] = "return" /\ lock' = NoThread /\ Goto(t, Result)
  /\ UNCHANGED <<through_kernel, error, user_cache_ops_pending, call, at, after, issued, history>>

-----------------------------------------------------------------------------
(* pan_kmod_flush_bo_map_syncs                                             *)

FlushDropsFlag(t) ==
  /\ pc[t] \in {"idle", "reading"}
  /\ user_cache_ops_pending' = FALSE
  /\ Goto(t, "test")
  /\ UNCHANGED <<through_kernel, pending, error, lock, call, at, after, issued, history>>

(* The exchange on the flag: whoever finds it set owes the barrier. *)
FlushTakesFlag(t) ==
  /\ pc[t] \in {"idle", "reading"}
  /\ user_cache_ops_pending' = FALSE
  /\ Goto(t, IF user_cache_ops_pending THEN "barrier" ELSE "test")
  /\ UNCHANGED <<through_kernel, pending, error, lock, call, at, after, issued, history>>

(* Counted in the code's favour: as a barrier for the operations of every  *)
(* thread.                                                                 *)
FlushBarrier(t) ==
  /\ pc[t] = "barrier"
  /\ Done(issued)
  /\ issued' = {}
  /\ Goto(t, "test")
  /\ UNCHANGED <<dev, lock, call, at, after, lost, asks>>

(* Without the lock: an empty list needs none. *)
FlushTests(t) ==
  /\ pc[t] = "test"
  /\ Goto(t, IF pending = <<>> THEN Result ELSE "relock")
  /\ UNCHANGED <<dev, lock, call, at, after, issued, history>>

FlushLocks(t) ==
  /\ pc[t] = "relock" /\ lock = NoThread
  /\ lock' = t
  /\ at' = [at EXCEPT ![t] = 1]
  /\ after' = [after EXCEPT ![t] = "return"]
  /\ Goto(t, "sync")
  /\ UNCHANGED <<dev, call, issued, history>>

(* The caller submits, reads back, or reports the error. *)
FlushReturns(t) ==
  /\ pc[t] \in {"ok", "failed"}
  /\ Goto(t, "idle")
  /\ UNCHANGED <<dev, lock, call, at, after, issued, history>>

-----------------------------------------------------------------------------

Step(t) ==
  \/ \E r \in Ranges : Ask(t, r)
  \/ Operate(t)
  \/ FlagBarrier(t)
  \/ QueueLocks(t)
  \/ QueueAppends(t)
  \/ SyncRange(t)
  \/ SyncFails(t)
  \/ SyncsEnd(t)
  \/ FlushTakesFlag(t)
  \/ FlushBarrier(t)
  \/ FlushTests(t)
  \/ FlushLocks(t)
  \/ FlushReturns(t)

Next == \E t \in Threads : Step(t)

(* A thread's own steps, but not a new request, go on; one that wants the  *)
(* lock gets it in the end.                                                *)
GoesOn(t) ==
  \/ pc[t] \notin {"idle", "reading"} /\ Step(t)
  \/ pc[t] = "reading" /\ FlushTakesFlag(t)

GetsLock(t) == QueueLocks(t) \/ FlushLocks(t)

Spec == Init /\ [][Next]_vars

Fairness == \A t \in Threads : WF_vars(GoesOn(t)) /\ SF_vars(GetsLock(t))

FairSpec == Spec /\ Fairness

-----------------------------------------------------------------------------
(* Properties                                                              *)

TypeOK ==
  /\ through_kernel \in BOOLEAN
  /\ pending \in Seq(Ranges)
  /\ error \in BOOLEAN /\ user_cache_ops_pending \in BOOLEAN
  /\ lock \in Threads \cup {NoThread}
  /\ pc \in [Threads -> {"idle", "reading", "operate", "flag", "queue", "append", "sync",
                         "barrier", "test", "relock", "ok", "failed"}]
  /\ call \in [Threads -> Ranges \cup {NoRange}]
  /\ at \in [Threads -> Nat \ {0}]
  /\ after \in [Threads -> {"append", "return"}]
  /\ issued \in SUBSET Items
  /\ owed \in [Threads -> SUBSET Items]
  /\ lost \in SUBSET [bo : Bos, granule : 0 .. MaxOffset]
  /\ asks \in 0 .. MaxAsks

(* A flush that reports success has made effective everything its thread   *)
(* asked for before, whoever's flush or full list did the work, and        *)
(* whether or not the list was found empty without the lock; no failure is *)
(* swallowed with the list it emptied.                                     *)
FlushMeansDone == through_kernel => \A t \in Threads : pc[t] = "ok" => owed[t] = {}

(* The same of the range operations of user space.                         *)
BarrierMeansDone == ~through_kernel => \A t \in Threads : pc[t] = "ok" => owed[t] = {}

(* What a thread wrote and asked to be cleaned is never thrown away by an  *)
(* invalidation of the same thread that overtakes it on the list, however  *)
(* the ranges were merged.  For buffers that one thread works on.          *)
NoWriteIsLost ==
  \A x \in lost : ~ \E t \in Threads : \A u \in Threads : x.bo \in Uses[u] <=> u = t

(* User-space operations that no barrier followed yet are announced by the *)
(* flag, by the thread that is about to set it, or by the one that took it *)
(* and has still to run the barrier.                                       *)
OperationsAwaitABarrier ==
  \/ issued = {}
  \/ user_cache_ops_pending
  \/ \E t \in Threads : pc[t] \in {"flag", "barrier"}
=============================================================================
