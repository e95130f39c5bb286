------------------------- MODULE QueueSubmit_proofs -------------------------
(***************************************************************************)
(* Proofs about QueueSubmit, for any batches, syncs and calls and any      *)
(* length of the chain: its types, that a failure is latched, that no      *)
(* batch is rewritten while the GPU may run it, that the batches arrive in *)
(* the order of the calls and behind the fence they wait for, and that     *)
(* nobody sees a signal before the work it is for or of work that failed.  *)
(***************************************************************************)
EXTENDS QueueSubmit, SequenceTheorems, TLAPS

-----------------------------------------------------------------------------
(* Types                                                                   *)

CallHasType ==
  /\ call.batches \in Seq(Batches)
  /\ call.wait \in Syncs \cup {NoSync} /\ call.signal \in Syncs \cup {NoSync}

(* Inside the loop there is a current batch. *)
InLoop ==
  {"batch", "before", "issued", "evict", "reissue", "rewrite", "append", "room", "after",
   "finish", "apply", "next"}

LoopHasBatch ==
  /\ pc \in {"cache", "wait"} => i = 1
  /\ pc \in InLoop => i \in 1 .. Len(call.batches)

ContentHasType == content \in [1 .. MaxSubmits -> Seq(Batches)]

TInv == TypeOK /\ CallHasType /\ LoopHasBatch /\ ContentHasType

LEMMA TypesInit == Init => TInv
<1> SUFFICES ASSUME Init PROVE TInv
  OBVIOUS
<1> USE DEF Init, Queue!Init
<1>1. TypeOK
  BY SubmitsAssumption, ChainAssumption DEF TypeOK, NoCall
<1>2. CallHasType
  BY DEF CallHasType, NoCall
<1>3. LoopHasBatch
  BY DEF LoopHasBatch, InLoop
<1>4. ContentHasType
  BY DEF ContentHasType
<1> QED BY <1>1, <1>2, <1>3, <1>4 DEF TInv

(* A call with batches begins with its first. *)
LEMMA LoopStarts ==
  ASSUME CallHasType
  PROVE  Loop = "batch" => 1 \in 1 .. Len(call.batches)
BY EmptySeq DEF CallHasType, Loop

LEMMA AppendingToChain ==
  ASSUME TInv, AppendBatch
  PROVE  chain' \in Seq(Batches) /\ Len(chain') <= MaxChain
<1>1. Current \in Batches
  BY ElementOfSeq DEF TInv, CallHasType, LoopHasBatch, InLoop, AppendBatch, Current
<1>2. Len(chain') = Len(chain) + 1 /\ chain' \in Seq(Batches)
  BY <1>1, AppendProperties DEF AppendBatch, TInv, TypeOK
<1> QED BY <1>2, ChainAssumption DEF AppendBatch, ChainIsFull, TInv, TypeOK

LEMMA TypesFlush ==
  ASSUME TInv, FlushSubmits
  PROVE  TInv'
<1> USE SubmitsAssumption, ChainAssumption
<1>1. submitted' = submitted + 1 /\ submitted' \in 0 .. MaxSubmits
  BY DEF TInv, TypeOK, FlushSubmits, Queue!Submit
<1>2. /\ UNCHANGED <<ended, completed, state, work, issued, call, i>>
      /\ chain' = <<>> /\ pc' = Follows /\ pc \in Flushing
      /\ content' = [content EXCEPT ![submitted'] = chain] /\ seqno' = submitted'
  BY DEF FlushSubmits, Flushed, Queue!Submit, payloads
<1>3. kbase_seqno' \in [Batches -> 0 .. submitted']
  <2>1. \A b \in Batches : kbase_seqno[b] \in 0 .. submitted
    BY DEF TInv, TypeOK
  <2>2. \A b \in Batches : kbase_seqno[b] \in 0 .. submitted' /\ submitted' \in 0 .. submitted'
    BY <1>1, <2>1 DEF TInv, TypeOK
  <2> QED BY <2>2 DEF FlushSubmits
<1>4. TypeOK'
  <2>1. /\ submitted' \in 0 .. MaxSubmits /\ ended' \in 0 .. submitted'
        /\ completed' \in 0 .. ended'
    BY <1>1, <1>2 DEF TInv, TypeOK
  <2>2. /\ state' \in [Syncs -> {"reset", "pending", "signalled", "failed"}]
        /\ work' \in [Syncs -> 0 .. MaxSubmits \cup {File}]
    BY <1>2 DEF TInv, TypeOK
  <2>3. chain' \in Seq(Batches) /\ Len(chain') <= MaxChain
    BY <1>2
  <2>4. issued' \in [Batches -> BOOLEAN] /\ i' \in 1 .. 1 + Len(call'.batches)
    BY <1>2 DEF TInv, TypeOK
  <2>5. seqno' \in 0 .. submitted'
    BY <1>1, <1>2
  <2> QED BY <1>3, <2>1, <2>2, <2>3, <2>4, <2>5 DEF TypeOK
<1>5. CallHasType'
  BY <1>2 DEF TInv, CallHasType
<1>6. LoopHasBatch'
  BY <1>2 DEF TInv, LoopHasBatch, InLoop, Flushing, Follows
<1>7. ContentHasType'
  BY <1>1, <1>2 DEF TInv, TypeOK, ContentHasType
<1> QED BY <1>4, <1>5, <1>6, <1>7 DEF TInv

LEMMA TypesProceed ==
  ASSUME TInv, Proceed
  PROVE  TInv'
<1> USE SubmitsAssumption, ChainAssumption
    DEF TInv, TypeOK, CallHasType, LoopHasBatch, ContentHasType, InLoop,
        queue, payloads, batch, thread, history
<1>1. CASE CacheFlushed \/ CacheFails
  BY <1>1 DEF CacheFlushed, CacheFails
<1>2. CASE WaitIsFree \/ WaitTakesFile \/ WaitHasFailed
  BY <1>2, LoopStarts DEF WaitIsFree, WaitTakesFile, WaitHasFailed, Loop
<1>3. CASE WaitOnCpu
  <2>1. state' \in [Syncs -> {"reset", "pending", "signalled", "failed"}] /\ work' = work
    BY <1>3 DEF WaitOnCpu, Payload!Observe
  <2>2. pc' \in {Loop, "idle"} /\ UNCHANGED <<queue, chain, batch, call, i, seqno, content>>
    BY <1>3 DEF WaitOnCpu
  <2>3. pc = "wait"
    BY <1>3 DEF WaitOnCpu
  <2> QED BY <2>1, <2>2, <2>3, LoopStarts DEF Loop
<1>4. CASE FlushNothing
  BY <1>4 DEF FlushNothing, Flushed, Flushing, Follows
<1>5. CASE FlushSubmits
  BY <1>5, TypesFlush DEF TInv
<1>6. CASE FlushFails \/ CallFails
  <2>1. UNCHANGED <<submitted, ended, completed, payloads, batch, call, i, content>>
    BY <1>6 DEF FlushFails, CallFails, Queue!Lose
  <2>2. chain' = <<>> /\ seqno' \in {0, seqno} /\ pc' \in {"error", "idle"}
    BY <1>6 DEF FlushFails, CallFails
  <2> QED BY <2>1, <2>2
<1>7. CASE StartBatch \/ LooksAtBatch
  <2>1. UNCHANGED <<queue, payloads, batch, chain, call, i, seqno, content>>
    BY <1>7 DEF StartBatch, LooksAtBatch
  <2>2. pc \in {"batch", "issued"} /\ pc' \in InLoop
    BY <1>7 DEF StartBatch, LooksAtBatch
  <2> QED BY <2>1, <2>2
<1>8. CASE ReissueWaits \/ Rewrite
  BY <1>8 DEF ReissueWaits, Rewrite, WaitEnds
<1>9. CASE AppendNeedsRoom \/ AppendFails
  <2>1. UNCHANGED <<queue, payloads, batch, chain, call, i, seqno, content>>
    BY <1>9 DEF AppendNeedsRoom, AppendFails
  <2>2. pc = "append" /\ pc' \in {"room", "error"}
    BY <1>9 DEF AppendNeedsRoom, AppendFails
  <2> QED BY <2>1, <2>2
<1>10. CASE AppendBatch
  <2>1. chain' \in Seq(Batches) /\ Len(chain') <= MaxChain
    BY <1>10, AppendingToChain
  <2>2. UNCHANGED <<queue, payloads, kbase_seqno, call, i, seqno, content>>
    BY <1>10 DEF AppendBatch
  <2>3. issued' \in [Batches -> BOOLEAN]
    BY <1>10 DEF AppendBatch
  <2>4. pc = "append" /\ pc' \in InLoop
    BY <1>10 DEF AppendBatch
  <2> QED BY <2>1, <2>2, <2>3, <2>4
<1>11. CASE Finish \/ ApplyEventOp
  BY <1>11 DEF Finish, ApplyEventOp, WaitEnds
<1>12. CASE Signals
  <2>1. Consumed(state) \in [Syncs -> {"reset", "pending", "signalled", "failed"}]
    BY DEF Consumed
  <2>2. state' \in [Syncs -> {"reset", "pending", "signalled", "failed"}]
    BY <1>12, <2>1 DEF Signals
  <2>3. work' \in [Syncs -> 0 .. MaxSubmits \cup {File}]
    BY <1>12 DEF Signals
  <2>4. pc' = "idle" /\ UNCHANGED <<queue, chain, batch, call, i, seqno, content>>
    BY <1>12 DEF Signals
  <2> QED BY <2>2, <2>3, <2>4
<1>13. CASE NextBatch
  <2>1. UNCHANGED <<queue, payloads, batch, chain, call, seqno, content>>
    BY <1>13 DEF NextBatch
  <2>2. i \in 1 .. Len(call.batches) /\ Len(call.batches) \in Nat
    BY <1>13 DEF NextBatch
  <2>3. /\ i' \in 1 .. 1 + Len(call.batches)
        /\ pc' \in {"batch", "final"}
        /\ pc' = "batch" => i' \in 1 .. Len(call.batches)
    BY ONLY <1>13, <2>2 DEF NextBatch
  <2> QED BY <2>1, <2>3
<1> HIDE DEF TInv
<1> QED BY <1>1, <1>2, <1>3, <1>4, <1>5, <1>6, <1>7, <1>8, <1>9, <1>10, <1>11, <1>12, <1>13
        DEF Proceed

LEMMA TypesOthers ==
  ASSUME TInv, Next \/ UNCHANGED vars, ~ Proceed
  PROVE  TInv'
<1> USE SubmitsAssumption, ChainAssumption
    DEF TInv, TypeOK, CallHasType, LoopHasBatch, ContentHasType, InLoop,
        queue, payloads, batch, thread, history, Outside
<1>1. CASE StartCall
  <2>1. /\ call'.batches \in Seq(Batches)
        /\ call'.wait \in Syncs \cup {NoSync} /\ call'.signal \in Syncs \cup {NoSync}
    BY ONLY <1>1, CallsAssumption DEF StartCall
  <2>2. /\ i' = 1 /\ pc' = "cache"
        /\ UNCHANGED <<queue, payloads, batch, chain, seqno, content>>
    BY <1>1 DEF StartCall
  <2>3. i' \in 1 .. 1 + Len(call'.batches)
    BY ONLY <2>1, <2>2
  <2> QED BY <2>1, <2>2, <2>3
<1>2. CASE GpuEnds
  BY <1>2 DEF GpuEnds, Queue!End
<1>3. CASE EventIsRead
  <2>1. UNCHANGED <<payloads, Outside, submitted, ended>>
    BY <1>3 DEF EventIsRead, Queue!Complete, Queue!Lose
  <2>2. completed < ended /\ completed' \in {completed, completed + 1}
    BY <1>3 DEF EventIsRead, Queue!Complete, Queue!Lose
  <2> QED BY <2>1, <2>2
<1>4. CASE HostWaits
  BY <1>4 DEF HostWaits, Payload!Observe
<1>5. CASE HostImports \/ HostResets
  <2>1. state' \in [Syncs -> {"reset", "pending", "signalled", "failed"}]
    BY <1>5 DEF HostImports, HostResets, Payload!Set, Payload!Reset
  <2>2. \E s \in Syncs, w \in {0, File} : work' = [work EXCEPT ![s] = w]
    BY <1>5 DEF HostImports, HostResets, Payload!Set, Payload!Reset
  <2>3. UNCHANGED <<queue, Outside>>
    BY <1>5 DEF HostImports, HostResets
  <2>4. work' \in [Syncs -> 0 .. MaxSubmits \cup {File}]
    BY <2>2
  <2> QED BY <2>1, <2>3, <2>4
<1>6. CASE FileSignals
  BY <1>6 DEF FileSignals
<1>7. CASE UNCHANGED vars
  BY <1>7 DEF vars
<1> HIDE DEF TInv
<1> QED BY <1>1, <1>2, <1>3, <1>4, <1>5, <1>6, <1>7 DEF Next

LEMMA TypesHold == Spec => []TInv
<1>1. TInv /\ [Next]_vars => TInv'
  BY TypesProceed, TypesOthers DEF Next
<1> QED BY <1>1, TypesInit, PTL DEF Spec

(* Every variable keeps its type, and the chain its length, for any calls. *)
THEOREM SubmitTypeCorrect == Spec => []TypeOK
BY TypesHold, PTL DEF TInv

-----------------------------------------------------------------------------
(* Failures                                                                *)

(* A call was refused because the queue is lost or the map cache is; with  *)
(* the queue alive a broken map cache stops every call at its start; a     *)
(* later call does not reach its signals; and a sync can only have failed  *)
(* with the queue, or as an imported fence.                                *)
RefusalsHaveACause ==
  /\ refused => lost \/ cache_error
  /\ cache_error /\ ~lost => pc \in {"idle", "cache", "error"}
  /\ refused => pc # "signal"
  /\ \A s \in Syncs : state[s] = "failed" => lost \/ work[s] = File

LEMMA CausesInit == Init => RefusalsHaveACause
BY DEF Init, RefusalsHaveACause, Queue!Init

LEMMA SyncsFailWithTheQueue ==
  ASSUME TInv, RefusalsHaveACause, NEW s \in Syncs, Payload!Observe(s)
  PROVE  /\ \A r \in Syncs : state'[r] = "failed" => lost \/ work[r] = File
         /\ work' = work
BY DEF TInv, TypeOK, RefusalsHaveACause, Payload!Observe, Unwaitable

LEMMA CausesProceed ==
  ASSUME TInv, RefusalsHaveACause, Proceed
  PROVE  RefusalsHaveACause'
<1> USE DEF RefusalsHaveACause, queue, payloads, batch, thread, history
<1>1. CASE CacheFlushed \/ CacheFails
  BY <1>1 DEF CacheFlushed, CacheFails
<1>2. CASE WaitIsFree \/ WaitTakesFile
  BY <1>2 DEF WaitIsFree, WaitTakesFile, Loop
<1>10. CASE WaitHasFailed
  <2>1. refused' => refused \/ work[call.wait] # File
    BY <1>10 DEF WaitHasFailed, RefusedByQueue
  <2>2. call.wait \in Syncs /\ state[call.wait] = "failed" /\ pc' = "idle"
    BY <1>10 DEF WaitHasFailed, TInv, CallHasType
  <2>3. UNCHANGED <<lost, cache_error, state, work>>
    BY <1>10 DEF WaitHasFailed
  <2> QED BY <2>1, <2>2, <2>3
<1>3. CASE WaitOnCpu
  <2>1. call.wait \in Syncs /\ Payload!Observe(call.wait)
    BY <1>3 DEF WaitOnCpu, TInv, CallHasType
  <2>2. work' = work /\ \A r \in Syncs : state'[r] = "failed" => lost \/ work[r] = File
    BY <2>1, SyncsFailWithTheQueue
  <2>3. UNCHANGED <<lost, cache_error>> /\ ~ (cache_error /\ ~lost)
    BY <1>3 DEF WaitOnCpu
  <2>4. refused' => refused \/ (state'[call.wait] = "failed" /\ work[call.wait] # File)
    BY <1>3 DEF WaitOnCpu, RefusedByQueue
  <2>5. pc' \in {"final", "batch", "idle"}
    BY <1>3 DEF WaitOnCpu, Loop
  <2> QED BY <2>1, <2>2, <2>3, <2>4, <2>5
<1>4. CASE FlushNothing \/ FlushSubmits
  <2>1. ~lost /\ pc \in Flushing
    BY <1>4 DEF FlushNothing, FlushSubmits, Queue!Submit
  <2>2. ~refused /\ ~cache_error
    BY <2>1 DEF Flushing
  <2>3. UNCHANGED <<lost, cache_error, refused, state, work>>
    BY <1>4 DEF FlushNothing, FlushSubmits, Flushed, Queue!Submit
  <2> QED BY <2>2, <2>3
<1>5. CASE FlushFails \/ CallFails
  BY <1>5 DEF FlushFails, CallFails, Queue!Lose
<1>6. CASE StartBatch \/ LooksAtBatch \/ ReissueWaits \/ Rewrite
  BY <1>6 DEF StartBatch, LooksAtBatch, ReissueWaits, Rewrite, WaitEnds
<1>7. CASE AppendNeedsRoom \/ AppendBatch \/ AppendFails
  BY <1>7 DEF AppendNeedsRoom, AppendBatch, AppendFails
<1>8. CASE Finish \/ ApplyEventOp \/ NextBatch
  BY <1>8 DEF Finish, ApplyEventOp, NextBatch, WaitEnds
<1>9. CASE Signals
  <2>1. \A s \in Syncs : state'[s] = "failed" => state[s] = "failed" /\ work'[s] = work[s]
    BY <1>9 DEF Signals, Consumed, TInv, TypeOK
  <2> QED BY <1>9, <2>1 DEF Signals
<1> QED BY <1>1, <1>2, <1>3, <1>4, <1>5, <1>6, <1>7, <1>8, <1>9, <1>10 DEF Proceed

LEMMA CausesOthers ==
  ASSUME TInv, RefusalsHaveACause, Next \/ UNCHANGED vars, ~ Proceed
  PROVE  RefusalsHaveACause'
<1> USE DEF RefusalsHaveACause, queue, payloads, batch, thread, history, Outside
<1>1. CASE StartCall
  BY <1>1 DEF StartCall
<1>2. CASE GpuEnds
  BY <1>2 DEF GpuEnds, Queue!End
<1>3. CASE EventIsRead
  BY <1>3 DEF EventIsRead, Queue!Complete, Queue!Lose
<1>4. CASE HostWaits
  BY <1>4, SyncsFailWithTheQueue DEF HostWaits
<1>5. CASE HostImports \/ HostResets
  <2>1. \A s \in Syncs : state'[s] = "failed" => state[s] = "failed" /\ work'[s] = work[s]
    BY <1>5 DEF HostImports, HostResets, Payload!Set, Payload!Reset, TInv, TypeOK
  <2> QED BY <1>5, <2>1 DEF HostImports, HostResets
<1>6. CASE FileSignals
  BY <1>6 DEF FileSignals
<1>7. CASE UNCHANGED vars
  BY <1>7 DEF vars
<1> QED BY <1>1, <1>2, <1>3, <1>4, <1>5, <1>6, <1>7 DEF Next

LEMMA CausesHold == Spec => []RefusalsHaveACause
<1>1. TInv /\ RefusalsHaveACause /\ [Next]_vars => RefusalsHaveACause'
  BY CausesProceed, CausesOthers DEF Next
<1> QED BY <1>1, CausesInit, TypesHold, PTL DEF Spec

LEMMA OnlyFlushesSubmit ==
  ASSUME Next \/ UNCHANGED vars, submitted' # submitted
  PROVE  FlushSubmits
<1> USE DEF queue, Outside
<1>1. CASE Proceed
  BY <1>1 DEF Proceed, CacheFlushed, CacheFails, WaitIsFree, WaitTakesFile, WaitOnCpu,
              WaitHasFailed, FlushNothing, FlushFails, StartBatch, LooksAtBatch, ReissueWaits,
              Rewrite, AppendNeedsRoom, AppendBatch, AppendFails, Finish, ApplyEventOp,
              NextBatch, Signals, CallFails, Queue!Lose
<1>2. CASE StartCall \/ GpuEnds \/ EventIsRead
  BY <1>2 DEF StartCall, GpuEnds, EventIsRead, Queue!End, Queue!Complete, Queue!Lose
<1>3. CASE HostWaits \/ HostImports \/ HostResets \/ FileSignals \/ UNCHANGED vars
  BY <1>3 DEF HostWaits, HostImports, HostResets, FileSignals, vars
<1> QED BY <1>1, <1>2, <1>3 DEF Next

(* Once the queue or the map cache has failed a call, nothing is handed to *)
(* the GPU any more and no call succeeds: those error exits leave a queue  *)
(* or a map cache behind that refuses every later call.  The exit after a  *)
(* failed wait for an imported fence does not, and is not spoken of.       *)
THEOREM FailureLatches == Spec => FailureIsLatched
<1>1. ASSUME RefusalsHaveACause, [Next]_vars, refused
      PROVE  submitted' = submitted /\ ~(pc = "signal" /\ pc' = "idle")
  <2>1. ASSUME submitted' # submitted
        PROVE  FALSE
    <3>1. FlushSubmits
      BY <1>1, <2>1, OnlyFlushesSubmit
    <3>2. ~lost /\ pc \in Flushing
      BY <3>1 DEF FlushSubmits, Queue!Submit
    <3> QED BY <1>1, <3>2 DEF RefusalsHaveACause, Flushing
  <2> QED BY <1>1, <2>1 DEF RefusalsHaveACause
<1> QED BY <1>1, CausesHold, PTL DEF Spec, FailureIsLatched

-----------------------------------------------------------------------------
(* Batches submitted again                                                 *)

(* kbase_seqno of a batch is at least that of every submission it is in.   *)
SeqnosAreRecent ==
  \A s \in 1 .. submitted : \A n \in 1 .. Len(content[s]) :
    s <= kbase_seqno[content[s][n]]

(* A batch about to be rewritten is off the chain, and what it was in has  *)
(* completed.                                                              *)
RewriteIsSafe ==
  /\ pc \in {"reissue", "rewrite"} => ~OnChain(Current)
  /\ pc = "rewrite" => kbase_seqno[Current] <= completed

RInv == SeqnosAreRecent /\ RewriteIsSafe

LEMMA RewriteInit == Init => RInv
BY DEF Init, RInv, SeqnosAreRecent, RewriteIsSafe, Queue!Init

LEMMA RewriteUndisturbed ==
  ASSUME TInv, RInv,
         UNCHANGED <<submitted, content, kbase_seqno>>,
         completed' \in Nat, completed' >= completed,
         \/ UNCHANGED <<chain, call, i>> /\ pc' \in {pc, "idle"}
         \/ pc' \notin {"reissue", "rewrite"}
  PROVE  RInv'
<1>1. SeqnosAreRecent'
  BY DEF RInv, SeqnosAreRecent
<1>2. CASE UNCHANGED <<chain, call, i>> /\ pc' \in {pc, "idle"}
  <2>1. UNCHANGED <<OnChain(Current), Current>>
    BY <1>2 DEF OnChain, Current
  <2>2. pc = "rewrite" => kbase_seqno[Current] \in Nat
    <3>1. pc = "rewrite" => Current \in Batches
      BY ElementOfSeq DEF TInv, CallHasType, LoopHasBatch, InLoop, Current
    <3> QED BY <3>1 DEF TInv, TypeOK
  <2>3. completed \in Nat /\ completed' \in Nat
    BY <1>2 DEF TInv, TypeOK
  <2>4. pc' = "rewrite" => kbase_seqno[Current] <= completed'
    BY <1>2, <2>2, <2>3 DEF RInv, RewriteIsSafe
  <2>5. (kbase_seqno[Current])' = kbase_seqno[Current]
    BY <2>1
  <2> QED BY <1>1, <1>2, <2>1, <2>4, <2>5 DEF RInv, RewriteIsSafe
<1>3. CASE pc' \notin {"reissue", "rewrite"}
  BY <1>1, <1>3 DEF RInv, RewriteIsSafe
<1> QED BY <1>2, <1>3

LEMMA ChainIsNumbered ==
  ASSUME TInv, RInv, FlushSubmits
  PROVE  RInv'
<1>1. /\ submitted \in Nat
      /\ submitted' = submitted + 1 /\ submitted' \in 1 .. MaxSubmits
      /\ UNCHANGED <<completed, call, i>>
      /\ chain' = <<>>
  BY SubmitsAssumption DEF FlushSubmits, Flushed, Queue!Submit, TInv, TypeOK
<1>2. content' = [content EXCEPT ![submitted'] = chain]
  BY <1>1 DEF FlushSubmits
<1>3. kbase_seqno' = [b \in Batches |-> IF OnChain(b) THEN submitted' ELSE kbase_seqno[b]]
  BY <1>1 DEF FlushSubmits
<1>4. SeqnosAreRecent'
  <2> SUFFICES ASSUME NEW s \in 1 .. submitted', NEW n \in 1 .. Len(content'[s])
               PROVE  s <= kbase_seqno'[content'[s][n]]
    BY DEF SeqnosAreRecent
  <2>1. CASE s = submitted'
    <3>1. content'[s] = chain
      BY <1>1, <1>2, <2>1 DEF TInv, ContentHasType
    <3>2. chain[n] \in Batches /\ OnChain(chain[n])
      BY <3>1, ElementOfSeq DEF TInv, TypeOK, OnChain
    <3> QED BY <1>1, <1>3, <2>1, <3>1, <3>2
  <2>2. CASE s # submitted'
    <3>1. s \in 1 .. submitted /\ content'[s] = content[s]
      BY <1>1, <1>2, <2>2 DEF TInv, TypeOK, ContentHasType
    <3>2. content[s][n] \in Batches
      <4>1. s \in 1 .. MaxSubmits /\ n \in 1 .. Len(content[s])
        BY <1>1, <3>1, SubmitsAssumption
      <4>2. content[s] \in Seq(Batches)
        BY <4>1 DEF TInv, ContentHasType
      <4> QED BY <4>1, <4>2, ElementOfSeq
    <3>3. s <= kbase_seqno[content[s][n]]
      BY <3>1 DEF RInv, SeqnosAreRecent
    <3> QED BY <1>1, <1>3, <3>1, <3>2, <3>3
  <2> QED BY <2>1, <2>2
<1>5. RewriteIsSafe'
  <2>1. pc' # "rewrite"
    BY DEF FlushSubmits, Flushed, Flushing, Follows
  <2>2. ~OnChain(Current)'
    BY <1>1 DEF OnChain
  <2> QED BY <2>1, <2>2 DEF RewriteIsSafe
<1> QED BY <1>4, <1>5 DEF RInv

LEMMA RewriteProceed ==
  ASSUME TInv, RInv, Proceed
  PROVE  RInv'
<1> USE DEF queue, batch, thread, history
<1>0. completed \in Nat
  BY DEF TInv, TypeOK
<1>1. CASE CacheFlushed \/ CacheFails \/ WaitIsFree \/ WaitTakesFile \/ WaitHasFailed \/ WaitOnCpu
  BY <1>0, <1>1, RewriteUndisturbed
     DEF CacheFlushed, CacheFails, WaitIsFree, WaitTakesFile, WaitHasFailed, WaitOnCpu, Loop
<1>2. CASE FlushNothing
  <2>1. SeqnosAreRecent'
    BY <1>2 DEF FlushNothing, Flushed, RInv, SeqnosAreRecent
  <2>2. pc' # "rewrite" /\ ~OnChain(Current)'
    BY <1>2 DEF FlushNothing, Flushed, Flushing, Follows, OnChain
  <2> QED BY <2>1, <2>2 DEF RInv, RewriteIsSafe
<1>3. CASE FlushSubmits
  BY <1>3, ChainIsNumbered
<1>4. CASE FlushFails \/ CallFails
  BY <1>0, <1>4, RewriteUndisturbed DEF FlushFails, CallFails, Queue!Lose
<1>5. CASE StartBatch \/ Rewrite
  BY <1>0, <1>5, RewriteUndisturbed DEF StartBatch, Rewrite
<1>6. CASE LooksAtBatch
  <2>1. SeqnosAreRecent'
    BY <1>6 DEF LooksAtBatch, RInv, SeqnosAreRecent
  <2>2. pc' # "rewrite" /\ (pc' = "reissue" => ~OnChain(Current))
    BY <1>6 DEF LooksAtBatch
  <2>3. UNCHANGED OnChain(Current)
    BY <1>6 DEF LooksAtBatch, OnChain, Current
  <2> QED BY <2>1, <2>2, <2>3 DEF RInv, RewriteIsSafe
<1>7. CASE ReissueWaits
  <2>1. SeqnosAreRecent'
    BY <1>7 DEF ReissueWaits, RInv, SeqnosAreRecent
  <2>2. UNCHANGED <<OnChain(Current), kbase_seqno[Current], completed>>
    BY <1>7 DEF ReissueWaits, OnChain, Current
  <2>3. ~OnChain(Current)
    BY <1>7 DEF ReissueWaits, RInv, RewriteIsSafe
  <2>4. pc' = "rewrite" => completed >= kbase_seqno[Current]
    BY <1>7 DEF ReissueWaits, WaitEnds
  <2>5. kbase_seqno[Current] \in Nat
    BY <1>7, ElementOfSeq
       DEF ReissueWaits, TInv, TypeOK, CallHasType, LoopHasBatch, InLoop, Current
  <2> QED BY <1>0, <2>1, <2>2, <2>3, <2>4, <2>5 DEF RInv, RewriteIsSafe
<1>8. CASE AppendNeedsRoom \/ AppendBatch \/ AppendFails
  BY <1>0, <1>8, RewriteUndisturbed DEF AppendNeedsRoom, AppendBatch, AppendFails
<1>9. CASE Finish \/ ApplyEventOp \/ NextBatch \/ Signals
  BY <1>0, <1>9, RewriteUndisturbed DEF Finish, ApplyEventOp, NextBatch, Signals, WaitEnds
<1> QED BY <1>1, <1>2, <1>3, <1>4, <1>5, <1>6, <1>7, <1>8, <1>9 DEF Proceed

LEMMA RewriteOthers ==
  ASSUME TInv, RInv, Next \/ UNCHANGED vars, ~ Proceed
  PROVE  RInv'
<1> USE DEF queue, batch, thread, history, Outside
<1>0. completed \in Nat
  BY DEF TInv, TypeOK
<1>1. CASE StartCall
  BY <1>0, <1>1, RewriteUndisturbed DEF StartCall
<1>2. CASE GpuEnds \/ EventIsRead
  <2>1. UNCHANGED <<submitted, content, kbase_seqno, chain, call, i, pc>>
    BY <1>2 DEF GpuEnds, EventIsRead, Queue!End, Queue!Complete, Queue!Lose
  <2>2. completed' \in Nat /\ completed' >= completed
    BY <1>0, <1>2 DEF GpuEnds, EventIsRead, Queue!End, Queue!Complete, Queue!Lose
  <2> QED BY <2>1, <2>2, RewriteUndisturbed
<1>3. CASE HostWaits \/ HostImports \/ HostResets \/ FileSignals \/ UNCHANGED vars
  BY <1>0, <1>3, RewriteUndisturbed DEF HostWaits, HostImports, HostResets, FileSignals, vars
<1> QED BY <1>1, <1>2, <1>3 DEF Next

(* A batch that is submitted again is rewritten only when it is neither on *)
(* the chain nor in a submission the GPU has not ended.                    *)
THEOREM RewritesAreSafe == Spec => []NeverRewrittenInFlight
<1>1. TInv /\ RInv /\ [Next]_vars => RInv'
  BY RewriteProceed, RewriteOthers DEF Next
<1>2. TInv /\ RInv => NeverRewrittenInFlight
  <2> SUFFICES ASSUME TInv, RInv, pc = "rewrite",
                      NEW s \in ended + 1 .. submitted, NEW n \in 1 .. Len(content[s]),
                      content[s][n] = Current
               PROVE  FALSE
    BY DEF NeverRewrittenInFlight, InFlight, RInv, RewriteIsSafe
  <2>1. s \in 1 .. submitted /\ s > completed
    BY DEF TInv, TypeOK
  <2>2. s <= kbase_seqno[Current] /\ kbase_seqno[Current] <= completed
    BY <2>1 DEF RInv, SeqnosAreRecent, RewriteIsSafe
  <2>3. kbase_seqno[Current] \in Nat
    BY ElementOfSeq DEF TInv, TypeOK, CallHasType, LoopHasBatch, InLoop, Current
  <2> QED BY <2>1, <2>2, <2>3 DEF TInv, TypeOK
<1> QED BY <1>1, <1>2, RewriteInit, TypesHold, PTL DEF Spec

-----------------------------------------------------------------------------
(* Signals                                                                 *)

(* While the queue is alive nothing that failed has completed; what a sync *)
(* is signalled for has completed, and failed neither before nor since.    *)
SignalsAreSound ==
  /\ broken \subseteq 1 .. submitted
  /\ ~lost => \A n \in broken : n > completed
  /\ \A s \in Syncs :
       state[s] = "signalled" /\ work[s] # File
       => work[s] <= completed /\ \A n \in broken : work[s] < n

LEMMA SoundInit == Init => SignalsAreSound
BY DEF Init, SignalsAreSound, Queue!Init

(* Syncs that are not signalled by a step stay as sound as they were. *)
LEMMA SoundUndisturbed ==
  ASSUME TInv, SignalsAreSound,
         UNCHANGED <<completed, broken>>, submitted' \in Nat, submitted' >= submitted,
         lost => lost',
         \A s \in Syncs : state'[s] = "signalled" => state[s] = "signalled" /\ work'[s] = work[s]
  PROVE  SignalsAreSound'
BY DEF SignalsAreSound, TInv, TypeOK

LEMMA SoundObserve ==
  ASSUME TInv, SignalsAreSound, NEW s \in Syncs, Payload!Observe(s),
         UNCHANGED <<completed, broken, submitted, lost>>
  PROVE  SignalsAreSound'
<1>1. work' = work /\ state' \in {[state EXCEPT ![s] = "signalled"], [state EXCEPT ![s] = "failed"]}
  BY DEF Payload!Observe
<1>2. state'[s] = "signalled" => work[s] \in Finished
  BY DEF Payload!Observe, TInv, TypeOK
<1>3. state'[s] = "signalled" /\ work[s] # File => ~lost /\ work[s] \in 1 .. completed
  BY <1>2 DEF Finished
<1>4. state'[s] = "signalled" /\ work[s] # File
      => work[s] <= completed /\ \A n \in broken : work[s] < n
  <2> SUFFICES ASSUME state'[s] = "signalled", work[s] # File, NEW n \in broken
               PROVE  work[s] <= completed /\ work[s] < n
    BY <1>3 DEF TInv, TypeOK
  <2>1. n \in Nat /\ completed \in Nat /\ submitted \in Nat
    BY DEF SignalsAreSound, TInv, TypeOK
  <2> QED BY <1>3, <2>1 DEF SignalsAreSound
<1>5. \A r \in Syncs : r # s => state'[r] = state[r]
  BY <1>1 DEF TInv, TypeOK
<1> QED BY <1>1, <1>4, <1>5 DEF SignalsAreSound

LEMMA SoundSignals ==
  ASSUME TInv, SignalsAreSound, Signals
  PROVE  SignalsAreSound'
<1>1. UNCHANGED <<submitted, completed, lost, broken>>
  BY DEF Signals, queue
<1>2. completed \in Nat /\ submitted \in Nat
  BY DEF TInv, TypeOK
<1>3. \A s \in Syncs :
        state'[s] = "signalled" =>
          \/ state[s] = "signalled" /\ work'[s] = work[s]
          \/ work'[s] = 0
  BY DEF Signals, Consumed, TInv, TypeOK
<1>4. \A n \in broken : 0 < n
  BY <1>2 DEF SignalsAreSound
<1> QED BY <1>1, <1>2, <1>3, <1>4 DEF SignalsAreSound

LEMMA SoundProceed ==
  ASSUME TInv, SignalsAreSound, Proceed
  PROVE  SignalsAreSound'
<1> USE DEF queue, payloads
<1>0. submitted \in Nat /\ completed \in Nat
  BY DEF TInv, TypeOK
<1>1. CASE CacheFlushed \/ CacheFails \/ WaitIsFree \/ WaitTakesFile \/ WaitHasFailed
  BY <1>0, <1>1, SoundUndisturbed
     DEF CacheFlushed, CacheFails, WaitIsFree, WaitTakesFile, WaitHasFailed
<1>2. CASE WaitOnCpu
  BY <1>2, SoundObserve DEF WaitOnCpu, TInv, CallHasType
<1>3. CASE FlushNothing \/ FlushSubmits
  BY <1>0, <1>3, SoundUndisturbed DEF FlushNothing, FlushSubmits, Flushed, Queue!Submit
<1>4. CASE FlushFails \/ CallFails
  BY <1>0, <1>4, SoundUndisturbed DEF FlushFails, CallFails, Queue!Lose
<1>5. CASE StartBatch \/ LooksAtBatch \/ ReissueWaits \/ Rewrite
  BY <1>0, <1>5, SoundUndisturbed DEF StartBatch, LooksAtBatch, ReissueWaits, Rewrite
<1>6. CASE AppendNeedsRoom \/ AppendBatch \/ AppendFails
  BY <1>0, <1>6, SoundUndisturbed DEF AppendNeedsRoom, AppendBatch, AppendFails
<1>7. CASE Finish \/ ApplyEventOp \/ NextBatch
  BY <1>0, <1>7, SoundUndisturbed DEF Finish, ApplyEventOp, NextBatch
<1>8. CASE Signals
  BY <1>8, SoundSignals
<1> QED BY <1>1, <1>2, <1>3, <1>4, <1>5, <1>6, <1>7, <1>8 DEF Proceed

LEMMA SoundOthers ==
  ASSUME TInv, SignalsAreSound, Next \/ UNCHANGED vars, ~ Proceed
  PROVE  SignalsAreSound'
<1> USE DEF queue, payloads
<1>0. submitted \in Nat /\ completed \in Nat /\ ended \in 0 .. submitted /\ completed <= ended
  BY DEF TInv, TypeOK
<1>1. CASE StartCall \/ FileSignals \/ UNCHANGED vars
  BY <1>0, <1>1, SoundUndisturbed DEF StartCall, FileSignals, vars
<1>2. CASE GpuEnds
  <2>1. UNCHANGED <<payloads, submitted, completed, lost>> /\ ended < submitted
    BY <1>2 DEF GpuEnds, Queue!End
  <2>2. broken' \subseteq broken \cup {ended + 1}
    BY <1>2 DEF GpuEnds, Queue!End
  <2>3. \A n \in broken' : n \in broken \/ n > completed
    BY <1>0, <2>2
  <2>4. work \in [Syncs -> 0 .. MaxSubmits \cup {File}] /\ broken' \subseteq 1 .. submitted'
    BY <1>0, <2>1, <2>2 DEF TInv, TypeOK, SignalsAreSound
  <2>5. \A s \in Syncs : state[s] = "signalled" /\ work[s] # File
                         => \A n \in broken' : work[s] < n
    BY <1>0, <2>3, <2>4, SubmitsAssumption DEF SignalsAreSound
  <2> QED BY <2>1, <2>3, <2>4, <2>5 DEF SignalsAreSound
<1>3. CASE EventIsRead
  <2>1. CASE completed + 1 \in broken /\ ~lost
    BY <1>0, <1>3, <2>1, SoundUndisturbed DEF EventIsRead, Queue!Lose
  <2>2. CASE ~ (completed + 1 \in broken /\ ~lost)
    <3>1. UNCHANGED <<payloads, submitted, lost, broken>> /\ completed' = completed + 1
      BY <1>3, <2>2 DEF EventIsRead, Queue!Complete
    <3>2. broken \subseteq 1 .. submitted
      BY DEF SignalsAreSound
    <3>3. ~lost => \A n \in broken : n > completed + 1
      BY <1>0, <2>2, <3>2 DEF SignalsAreSound
    <3>4. \A s \in Syncs : state[s] = "signalled" /\ work[s] # File => work[s] <= completed + 1
      BY <1>0, SubmitsAssumption DEF SignalsAreSound, TInv, TypeOK
    <3> QED BY <3>1, <3>2, <3>3, <3>4 DEF SignalsAreSound
  <2> QED BY <2>1, <2>2
<1>4. CASE HostWaits
  BY <1>4, SoundObserve DEF HostWaits
<1>5. CASE HostImports \/ HostResets
  <2>1. \A s \in Syncs : state'[s] = "signalled" => state[s] = "signalled" /\ work'[s] = work[s]
    BY <1>5 DEF HostImports, HostResets, Payload!Set, Payload!Reset, TInv, TypeOK
  <2> QED BY <1>0, <1>5, <2>1, SoundUndisturbed DEF HostImports, HostResets
<1> QED BY <1>1, <1>2, <1>3, <1>4, <1>5 DEF Next

(* Nobody sees a fence or semaphore signalled for work that failed, or     *)
(* behind work that failed.                                                *)
THEOREM NoSignalOfFailedWork == Spec => []SignalledDidNotFail
<1>1. TInv /\ SignalsAreSound /\ [Next]_vars => SignalsAreSound'
  BY SoundProceed, SoundOthers DEF Next
<1>2. SignalsAreSound => SignalledDidNotFail
  BY DEF SignalsAreSound, SignalledDidNotFail
<1> QED BY <1>1, <1>2, SoundInit, TypesHold, PTL DEF Spec

-----------------------------------------------------------------------------
(* What was delivered: recursive functions as invariants                   *)

(* f is what BatchesOf, and what Delivered, is defined to be of contents   *)
(* c.  That there is such a function, and that its values up to the newest *)
(* submission are determined, cannot be shown by induction over            *)
(* submissions here; but submissions come one at a time, and every step    *)
(* keeps both.                                                             *)
Counts(f, c) ==
  f = [s \in 0 .. MaxSubmits |-> IF s = 0 THEN 0 ELSE f[s - 1] + Len(c[s])]
Joined(p, q) == p \o q
Delivers(f, c) ==
  f = [s \in 0 .. MaxSubmits |-> IF s = 0 THEN <<>> ELSE Joined(f[s - 1], c[s])]

CountsUpTo(f, n, c) == f[0] = 0 /\ \A s \in 1 .. n : f[s] = f[s - 1] + Len(c[s])
DeliversUpTo(f, n, c) == f[0] = <<>> /\ \A s \in 1 .. n : f[s] = Joined(f[s - 1], c[s])

OnlyCount(f, n, c) ==
  \A g : CountsUpTo(g, n, c) => \A s \in 0 .. n : g[s] = f[s]
OnlyDelivery(f, n, c) ==
  \A g : DeliversUpTo(g, n, c) => \A s \in 0 .. n : g[s] = f[s]

Grows(f, n) == \A s \in 0 .. n : f[s] \in Nat /\ \A t \in s .. n : f[s] <= f[t]

BatchesAreCounted ==
  /\ Counts(BatchesOf, content)
  /\ Grows(BatchesOf, submitted) /\ OnlyCount(BatchesOf, submitted, content)

BatchesAreDelivered ==
  /\ Delivers(Delivered, content)
  /\ \A s \in 0 .. submitted : Delivered[s] \in Seq(Batches)
  /\ OnlyDelivery(Delivered, submitted, content)

NothingAhead == \A s \in submitted + 1 .. MaxSubmits : content[s] = <<>>

LEMMA CountUnfolds == (\E f : Counts(f, content)) => Counts(BatchesOf, content)
<1> SUFFICES ASSUME NEW f, Counts(f, content) PROVE Counts(BatchesOf, content)
  OBVIOUS
<1> DEFINE C(g) == g = [s \in 0 .. MaxSubmits |-> IF s = 0 THEN 0 ELSE g[s - 1] + Len(content[s])]
<1>1. C(f)
  BY DEF Counts
<1>2. BatchesOf = CHOOSE g : C(g)
  BY DEF BatchesOf
<1> HIDE DEF C
<1>3. C(BatchesOf)
  BY <1>1, <1>2, Zenon
<1> QED BY <1>3 DEF C, Counts

LEMMA DeliveryUnfolds == (\E f : Delivers(f, content)) => Delivers(Delivered, content)
<1> SUFFICES ASSUME NEW f, Delivers(f, content) PROVE Delivers(Delivered, content)
  OBVIOUS
<1> DEFINE C(g) == g = [s \in 0 .. MaxSubmits |-> IF s = 0 THEN <<>> ELSE g[s - 1] \o content[s]]
<1>1. C(f)
  BY DEF Delivers, Joined
<1>2. Delivered = CHOOSE g : C(g)
  BY DEF Delivered
<1> HIDE DEF C
<1>3. C(Delivered)
  BY <1>1, <1>2, Zenon
<1> QED BY <1>3 DEF C, Delivers, Joined

LEMMA NextUnfolds ==
  /\ (\E f : Counts(f, content')) => Counts(BatchesOf', content')
  /\ (\E f : Delivers(f, content')) => Delivers(Delivered', content')
<1>1. /\ ((\E f : Counts(f, content)) => Counts(BatchesOf, content))'
      /\ ((\E f : Delivers(f, content)) => Delivers(Delivered, content))'
  BY CountUnfolds, DeliveryUnfolds, PTL
<1> QED BY <1>1

LEMMA SameContent ==
  ASSUME UNCHANGED content
  PROVE  UNCHANGED <<BatchesOf, Delivered>>
BY DEF BatchesOf, Delivered

(* The same, of any contents c that become d by the submission n + 1.      *)
LEMMA CountGrows ==
  ASSUME NEW n \in Nat, n + 1 \in 1 .. MaxSubmits, NEW c, NEW d, NEW B, NEW k \in Nat,
         \A s \in 1 .. MaxSubmits : s # n + 1 => d[s] = c[s],
         k = Len(d[n + 1]), \A s \in n + 2 .. MaxSubmits : d[s] = <<>>,
         Counts(B, c), Grows(B, n)
  PROVE  \E f : Counts(f, d)
<1> DEFINE f == [s \in 0 .. MaxSubmits |-> IF s <= n THEN B[s] ELSE B[n] + k]
<1>1. MaxSubmits \in Nat
  BY SubmitsAssumption
<1>2. \A s \in 0 .. MaxSubmits : B[s] = IF s = 0 THEN 0 ELSE B[s - 1] + Len(c[s])
  BY DEF Counts
<1>3. B[n] \in Nat /\ B[n] + k \in Nat
  BY DEF Grows
<1>4. ASSUME NEW s \in 0 .. MaxSubmits
      PROVE  f[s] = IF s = 0 THEN 0 ELSE f[s - 1] + Len(d[s])
  <2>1. CASE s = 0
    BY <1>1, <1>2, <2>1
  <2>2. CASE s \in 1 .. n
    <3>1. f[s] = B[s] /\ f[s - 1] = B[s - 1] /\ d[s] = c[s] /\ s # 0
      BY <1>1, <2>2
    <3> QED BY <1>2, <3>1
  <2>3. CASE s = n + 1
    BY <1>1, <2>3
  <2>4. CASE s \in n + 2 .. MaxSubmits
    <3>1. f[s] = B[n] + k /\ f[s - 1] = B[n] + k /\ d[s] = <<>> /\ s # 0
      BY <1>1, <2>4
    <3>2. Len(d[s]) = 0
      BY <3>1
    <3> HIDE DEF f
    <3> QED BY <1>3, <3>1, <3>2
  <2> QED BY <1>1, <2>1, <2>2, <2>3, <2>4
<1>5. f = [s \in 0 .. MaxSubmits |-> IF s = 0 THEN 0 ELSE f[s - 1] + Len(d[s])]
  BY <1>4, Zenon
<1> HIDE DEF f
<1> QED BY <1>5 DEF Counts

LEMMA CountStays ==
  ASSUME NEW n \in Nat, n + 1 \in 1 .. MaxSubmits, NEW c, NEW d, NEW B, NEW D,
         \A s \in 1 .. MaxSubmits : s # n + 1 => d[s] = c[s],
         Len(d[n + 1]) \in Nat,
         Grows(B, n), OnlyCount(B, n, c), Counts(D, d)
  PROVE  /\ \A s \in 0 .. n : D[s] = B[s]
         /\ D[n + 1] = B[n] + Len(d[n + 1])
         /\ Grows(D, n + 1) /\ OnlyCount(D, n + 1, d)
<1>1. MaxSubmits \in Nat
  BY SubmitsAssumption
<1>2. \A s \in 0 .. MaxSubmits : D[s] = IF s = 0 THEN 0 ELSE D[s - 1] + Len(d[s])
  BY DEF Counts
<1>3. CountsUpTo(D, n, c)
  <2>1. D[0] = 0
    BY <1>1, <1>2
  <2>2. ASSUME NEW s \in 1 .. n PROVE D[s] = D[s - 1] + Len(c[s])
    <3>1. s \in 0 .. MaxSubmits /\ s # 0 /\ d[s] = c[s]
      BY <1>1
    <3> QED BY <1>2, <3>1
  <2> QED BY <2>1, <2>2 DEF CountsUpTo
<1>4. \A s \in 0 .. n : D[s] = B[s]
  BY <1>3 DEF OnlyCount
<1>5. D[n + 1] = B[n] + Len(d[n + 1])
  <2>1. D[n + 1] = D[n] + Len(d[n + 1])
    BY <1>1, <1>2
  <2> QED BY <1>4, <2>1
<1>6. Grows(D, n + 1)
  <2>1. \A s \in 0 .. n : B[s] \in Nat /\ B[s] <= B[n] /\ B[n] \in Nat
    BY DEF Grows
  <2>2. \A s \in 0 .. n : D[s] \in Nat /\ D[s] <= D[n + 1] /\ D[n + 1] \in Nat
    BY <1>4, <1>5, <2>1
  <2>3. \A s \in 0 .. n : \A t \in s .. n : D[s] <= D[t]
    BY <1>4 DEF Grows
  <2>4. \A s \in 0 .. n + 1 : s \in 0 .. n \/ s = n + 1
    OBVIOUS
  <2>5. \A s \in 0 .. n : \A t \in s .. n + 1 : D[s] <= D[t]
    <3> TAKE s \in 0 .. n
    <3> TAKE t \in s .. n + 1
    <3>1. t \in s .. n \/ t = n + 1
      OBVIOUS
    <3> QED BY <2>2, <2>3, <3>1
  <2>6. D[n + 1] \in Nat /\ \A t \in n + 1 .. n + 1 : t = n + 1
    BY <2>2
  <2>7. ASSUME NEW s \in 0 .. n + 1
        PROVE  D[s] \in Nat /\ \A t \in s .. n + 1 : D[s] <= D[t]
    <3>1. CASE s \in 0 .. n
      BY <2>2, <2>5, <3>1
    <3>2. CASE s = n + 1
      BY <2>6, <3>2
    <3> QED BY <2>4, <3>1, <3>2
  <2> QED BY <2>7 DEF Grows
<1>7. OnlyCount(D, n + 1, d)
  <2> SUFFICES ASSUME NEW g, CountsUpTo(g, n + 1, d), NEW s \in 0 .. n + 1
               PROVE  g[s] = D[s]
    BY DEF OnlyCount
  <2>1. CountsUpTo(g, n, c)
    <3>1. g[0] = 0 /\ \A r \in 1 .. n : g[r] = g[r - 1] + Len(d[r])
      BY DEF CountsUpTo
    <3>2. \A r \in 1 .. n : d[r] = c[r]
      BY <1>1
    <3> QED BY <3>1, <3>2 DEF CountsUpTo
  <2>2. \A r \in 0 .. n : g[r] = D[r]
    BY <1>4, <2>1 DEF OnlyCount
  <2>3. g[n + 1] = g[n] + Len(d[n + 1])
    BY DEF CountsUpTo
  <2>4. g[n + 1] = D[n + 1]
    BY <1>4, <1>5, <2>2, <2>3
  <2>5. s \in 0 .. n \/ s = n + 1
    OBVIOUS
  <2> QED BY <2>2, <2>4, <2>5
<1> QED BY <1>4, <1>5, <1>6, <1>7

LEMMA DeliveryGrows ==
  ASSUME NEW n \in Nat, n + 1 \in 1 .. MaxSubmits, NEW c, NEW d, NEW B, NEW q \in Seq(Batches),
         \A s \in 1 .. MaxSubmits : s # n + 1 => d[s] = c[s],
         q = d[n + 1], \A s \in n + 2 .. MaxSubmits : d[s] = <<>>,
         Delivers(B, c), \A s \in 0 .. n : B[s] \in Seq(Batches)
  PROVE  \E f : Delivers(f, d)
<1> DEFINE f == [s \in 0 .. MaxSubmits |-> IF s <= n THEN B[s] ELSE Joined(B[n], q)]
<1>1. MaxSubmits \in Nat
  BY SubmitsAssumption
<1>2. \A s \in 0 .. MaxSubmits : B[s] = IF s = 0 THEN <<>> ELSE Joined(B[s - 1], c[s])
  BY DEF Delivers
<1>3. Joined(B[n], q) \in Seq(Batches)
  BY ConcatProperties DEF Joined
<1>4. Joined(Joined(B[n], q), <<>>) = Joined(B[n], q)
  BY <1>3, ConcatEmptySeq DEF Joined
<1>5. ASSUME NEW s \in 0 .. MaxSubmits
      PROVE  f[s] = IF s = 0 THEN <<>> ELSE Joined(f[s - 1], d[s])
  <2>1. CASE s = 0
    BY <1>1, <1>2, <2>1
  <2>2. CASE s \in 1 .. n
    <3>1. f[s] = B[s] /\ f[s - 1] = B[s - 1] /\ d[s] = c[s] /\ s # 0
      BY <1>1, <2>2
    <3> QED BY <1>2, <3>1
  <2>3. CASE s = n + 1
    <3>1. f[s] = Joined(B[n], q) /\ f[s - 1] = B[n] /\ d[s] = q /\ s # 0
      BY <1>1, <2>3
    <3> QED BY <3>1
  <2>4. CASE s \in n + 2 .. MaxSubmits
    <3>1. f[s] = Joined(B[n], q) /\ f[s - 1] = Joined(B[n], q) /\ d[s] = <<>> /\ s # 0
      BY <1>1, <2>4
    <3> HIDE DEF f
    <3> QED BY <1>4, <3>1
  <2> QED BY <1>1, <2>1, <2>2, <2>3, <2>4
<1>6. f = [s \in 0 .. MaxSubmits |-> IF s = 0 THEN <<>> ELSE Joined(f[s - 1], d[s])]
  BY <1>5, Zenon
<1> HIDE DEF f
<1> QED BY <1>6 DEF Delivers

LEMMA DeliveryStays ==
  ASSUME NEW n \in Nat, n + 1 \in 1 .. MaxSubmits, NEW c, NEW d, NEW B, NEW D,
         \A s \in 1 .. MaxSubmits : s # n + 1 => d[s] = c[s],
         OnlyDelivery(B, n, c), Delivers(D, d)
  PROVE  /\ \A s \in 0 .. n : D[s] = B[s]
         /\ D[n + 1] = Joined(B[n], d[n + 1])
         /\ OnlyDelivery(D, n + 1, d)
<1>1. MaxSubmits \in Nat
  BY SubmitsAssumption
<1>2. \A s \in 0 .. MaxSubmits : D[s] = IF s = 0 THEN <<>> ELSE Joined(D[s - 1], d[s])
  BY DEF Delivers
<1>3. DeliversUpTo(D, n, c)
  <2>1. D[0] = <<>>
    BY <1>1, <1>2
  <2>2. ASSUME NEW s \in 1 .. n PROVE D[s] = Joined(D[s - 1], c[s])
    <3>1. s \in 0 .. MaxSubmits /\ s # 0 /\ d[s] = c[s]
      BY <1>1
    <3> QED BY <1>2, <3>1
  <2> QED BY <2>1, <2>2 DEF DeliversUpTo
<1>4. \A s \in 0 .. n : D[s] = B[s]
  BY <1>3 DEF OnlyDelivery
<1>5. D[n + 1] = Joined(B[n], d[n + 1])
  <2>1. D[n + 1] = Joined(D[n], d[n + 1])
    BY <1>1, <1>2
  <2> QED BY <1>4, <2>1
<1>6. OnlyDelivery(D, n + 1, d)
  <2> SUFFICES ASSUME NEW g, DeliversUpTo(g, n + 1, d), NEW s \in 0 .. n + 1
               PROVE  g[s] = D[s]
    BY DEF OnlyDelivery
  <2>1. DeliversUpTo(g, n, c)
    <3>1. g[0] = <<>> /\ \A r \in 1 .. n : g[r] = Joined(g[r - 1], d[r])
      BY DEF DeliversUpTo
    <3>2. \A r \in 1 .. n : d[r] = c[r]
      BY <1>1
    <3> QED BY <3>1, <3>2 DEF DeliversUpTo
  <2>2. \A r \in 0 .. n : g[r] = D[r]
    BY <1>4, <2>1 DEF OnlyDelivery
  <2>3. g[n + 1] = Joined(g[n], d[n + 1])
    BY DEF DeliversUpTo
  <2>4. g[n + 1] = D[n + 1]
    BY <1>4, <1>5, <2>2, <2>3
  <2>5. s \in 0 .. n \/ s = n + 1
    OBVIOUS
  <2> QED BY <2>2, <2>4, <2>5
<1> QED BY <1>4, <1>5, <1>6

LEMMA NothingCounted ==
  ASSUME Init
  PROVE  BatchesAreCounted /\ BatchesAreDelivered /\ NothingAhead
<1>1. submitted = 0 /\ content = [s \in 1 .. MaxSubmits |-> <<>>] /\ MaxSubmits \in Nat
  BY SubmitsAssumption DEF Init, Queue!Init
<1>2. Counts(BatchesOf, content)
  <2> DEFINE f == [s \in 0 .. MaxSubmits |-> 0]
  <2>1. Counts(f, content)
    BY <1>1 DEF Counts
  <2> QED BY <2>1, CountUnfolds
<1>3. Delivers(Delivered, content)
  <2> DEFINE f == [s \in 0 .. MaxSubmits |-> <<>>]
  <2>1. Joined(<<>>, <<>>) = <<>>
    BY EmptySeq, ConcatEmptySeq DEF Joined
  <2>2. Delivers(f, content)
    BY <1>1, <2>1 DEF Delivers
  <2> QED BY <2>2, DeliveryUnfolds
<1>4. BatchesOf[0] = 0 /\ Delivered[0] = <<>> /\ \A s \in 0 .. 0 : s = 0
  BY <1>1, <1>2, <1>3 DEF Counts, Delivers
<1>5. BatchesAreCounted
  BY <1>1, <1>2, <1>4 DEF BatchesAreCounted, OnlyCount, CountsUpTo, Grows
<1>6. BatchesAreDelivered
  <2>1. <<>> \in Seq(Batches)
    BY EmptySeq
  <2>2. OnlyDelivery(Delivered, submitted, content)
    BY <1>1, <1>4 DEF OnlyDelivery, DeliversUpTo
  <2> QED BY <1>1, <1>3, <1>4, <2>1, <2>2 DEF BatchesAreDelivered
<1>7. NothingAhead
  BY <1>1 DEF NothingAhead
<1> QED BY <1>5, <1>6, <1>7

(* A flush counts and delivers the chain after what was delivered before.  *)
LEMMA FlushDelivers ==
  ASSUME TInv, BatchesAreCounted, BatchesAreDelivered, NothingAhead, FlushSubmits
  PROVE  /\ BatchesAreCounted' /\ BatchesAreDelivered' /\ NothingAhead'
         /\ \A s \in 0 .. submitted : BatchesOf'[s] = BatchesOf[s]
         /\ BatchesOf'[submitted + 1] = BatchesOf[submitted] + Len(chain)
         /\ Delivered'[submitted + 1] = Joined(Delivered[submitted], chain)
<1>1. /\ submitted \in Nat /\ submitted' = submitted + 1
      /\ submitted + 1 \in 1 .. MaxSubmits /\ MaxSubmits \in Nat
  BY SubmitsAssumption DEF FlushSubmits, Queue!Submit, TInv, TypeOK
<1>2. /\ content' = [content EXCEPT ![submitted'] = chain]
      /\ chain \in Seq(Batches) /\ Len(chain) \in Nat
  BY DEF FlushSubmits, TInv, TypeOK
<1>3. /\ content'[submitted + 1] = chain
      /\ \A s \in 1 .. MaxSubmits : s # submitted + 1 => content'[s] = content[s]
  BY <1>1, <1>2 DEF TInv, ContentHasType
<1>4. \A s \in submitted + 2 .. MaxSubmits : content'[s] = <<>>
  BY <1>1, <1>3 DEF NothingAhead
<1>5. \E f : Counts(f, content')
  BY <1>1, <1>2, <1>3, <1>4, CountGrows DEF BatchesAreCounted
<1>6. \E f : Delivers(f, content')
  BY <1>1, <1>2, <1>3, <1>4, DeliveryGrows DEF BatchesAreDelivered
<1>7. Counts(BatchesOf', content') /\ Delivers(Delivered', content')
  BY <1>5, <1>6, NextUnfolds, Zenon
<1>8. /\ \A s \in 0 .. submitted : BatchesOf'[s] = BatchesOf[s]
      /\ BatchesOf'[submitted + 1] = BatchesOf[submitted] + Len(chain)
      /\ Grows(BatchesOf', submitted + 1) /\ OnlyCount(BatchesOf', submitted + 1, content')
  <2>1. /\ Grows(BatchesOf, submitted) /\ OnlyCount(BatchesOf, submitted, content)
        /\ Len(content'[submitted + 1]) \in Nat /\ Len(content'[submitted + 1]) = Len(chain)
    BY <1>2, <1>3 DEF BatchesAreCounted
  <2>2. /\ \A s \in 0 .. submitted : BatchesOf'[s] = BatchesOf[s]
        /\ BatchesOf'[submitted + 1] = BatchesOf[submitted] + Len(content'[submitted + 1])
        /\ Grows(BatchesOf', submitted + 1) /\ OnlyCount(BatchesOf', submitted + 1, content')
    BY ONLY <1>1, <1>3, <1>7, <2>1, CountStays
  <2> QED BY <2>1, <2>2
<1>9. /\ \A s \in 0 .. submitted : Delivered'[s] = Delivered[s]
      /\ Delivered'[submitted + 1] = Joined(Delivered[submitted], chain)
      /\ OnlyDelivery(Delivered', submitted + 1, content')
  BY <1>1, <1>3, <1>7, DeliveryStays DEF BatchesAreDelivered
<1>10. \A s \in 0 .. submitted + 1 : Delivered'[s] \in Seq(Batches)
  <2>1. \A s \in 0 .. submitted : Delivered'[s] \in Seq(Batches)
    BY <1>9 DEF BatchesAreDelivered
  <2>2. Delivered[submitted] \in Seq(Batches)
    BY <1>1 DEF BatchesAreDelivered
  <2>3. Delivered'[submitted + 1] \in Seq(Batches)
    BY <1>2, <1>9, <2>2, ConcatProperties DEF Joined
  <2>4. \A s \in 0 .. submitted + 1 : s \in 0 .. submitted \/ s = submitted + 1
    BY <1>1
  <2> QED BY <2>1, <2>3, <2>4
<1>11. BatchesAreCounted'
  BY <1>1, <1>7, <1>8 DEF BatchesAreCounted
<1>12. BatchesAreDelivered'
  BY <1>1, <1>7, <1>9, <1>10 DEF BatchesAreDelivered
<1>13. NothingAhead'
  BY <1>1, <1>4 DEF NothingAhead
<1> QED BY <1>8, <1>9, <1>11, <1>12, <1>13

-----------------------------------------------------------------------------
(* The order of the batches                                                *)

HistoryHasType ==
  /\ order \in Seq(Batches) /\ wait_at \subseteq Nat
  /\ event_at \in Nat /\ signal_at \in [Syncs -> Nat]

(* What was delivered and what is on the chain is all of the order, unless *)
(* the queue is lost with what was on the chain.                           *)
ChainAddsUp ==
  /\ BatchesOf[submitted] + Len(chain) <= Len(order)
  /\ ~lost => BatchesOf[submitted] + Len(chain) = Len(order)

DInv ==
  /\ HistoryHasType
  /\ BatchesAreCounted /\ BatchesAreDelivered /\ NothingAhead
  /\ ChainAddsUp /\ OrderIsKept

LEMMA DeliveryInit == Init => DInv
<1> SUFFICES ASSUME Init PROVE DInv
  OBVIOUS
<1>1. BatchesAreCounted /\ BatchesAreDelivered /\ NothingAhead
  BY NothingCounted
<1>2. submitted = 0 /\ chain = <<>> /\ order = <<>> /\ Len(chain) = 0 /\ Len(order) = 0
  BY DEF Init, Queue!Init
<1>3. HistoryHasType
  BY <1>2, EmptySeq DEF Init, HistoryHasType
<1>4. BatchesOf[0] = 0 /\ Delivered[0] = <<>>
  BY <1>1, SubmitsAssumption
     DEF BatchesAreCounted, Counts, BatchesAreDelivered, Delivers
<1>5. ChainAddsUp
  BY <1>2, <1>4 DEF ChainAddsUp
<1>6. OrderIsKept
  BY <1>2, <1>4, EmptySeq, ConcatEmptySeq DEF OrderIsKept
<1> QED BY <1>1, <1>3, <1>5, <1>6 DEF DInv

(* All but two steps deliver nothing and order nothing; the chain is       *)
(* dropped only with the queue.                                            *)
Quiet ==
  /\ UNCHANGED <<submitted, content, order, gate>>
  /\ chain' = chain \/ (chain' = <<>> /\ (lost' \/ chain = <<>>))
  /\ wait_fd => wait_fd' \/ lost'
  /\ lost => lost'
  /\ file => file'

LEMMA QuietSteps ==
  ASSUME Next \/ UNCHANGED vars, ~FlushSubmits, ~AppendBatch
  PROVE  Quiet
<1> USE DEF queue, history, Quiet
<1>1. CASE CacheFlushed \/ CacheFails \/ WaitIsFree \/ WaitTakesFile \/ WaitOnCpu \/ WaitHasFailed
  BY <1>1 DEF CacheFlushed, CacheFails, WaitIsFree, WaitTakesFile, WaitOnCpu, WaitHasFailed
<1>2. CASE FlushNothing \/ FlushFails \/ CallFails
  BY <1>2 DEF FlushNothing, Flushed, FlushFails, CallFails, Queue!Lose
<1>3. CASE StartBatch \/ LooksAtBatch \/ ReissueWaits \/ Rewrite \/ AppendNeedsRoom \/ AppendFails
  BY <1>3 DEF StartBatch, LooksAtBatch, ReissueWaits, Rewrite, AppendNeedsRoom, AppendFails
<1>4. CASE Finish \/ ApplyEventOp \/ NextBatch \/ Signals \/ StartCall
  BY <1>4 DEF Finish, ApplyEventOp, NextBatch, Signals, StartCall
<1>5. CASE GpuEnds \/ EventIsRead
  BY <1>5 DEF GpuEnds, EventIsRead, Outside, Queue!End, Queue!Complete, Queue!Lose
<1>6. CASE HostWaits \/ HostImports \/ HostResets \/ FileSignals \/ UNCHANGED vars
  BY <1>6 DEF HostWaits, HostImports, HostResets, FileSignals, Outside, vars
<1> QED BY <1>1, <1>2, <1>3, <1>4, <1>5, <1>6 DEF Next, Proceed

LEMMA HistoryKeepsType ==
  ASSUME TInv, HistoryHasType, Next \/ UNCHANGED vars
  PROVE  HistoryHasType'
<1> USE DEF HistoryHasType
<1>1. Len(order) \in Nat
  OBVIOUS
<1>2. CASE AppendBatch
  <2>1. Current \in Batches
    BY <1>2, ElementOfSeq DEF TInv, CallHasType, LoopHasBatch, InLoop, AppendBatch, Current
  <2>2. order' \in Seq(Batches)
    BY <1>2, <2>1, AppendProperties DEF AppendBatch
  <2> QED BY <1>2, <2>2 DEF AppendBatch
<1>3. CASE WaitTakesFile \/ WaitOnCpu
  BY <1>1, <1>3 DEF WaitTakesFile, WaitOnCpu, Waiting
<1>4. CASE ApplyEventOp
  BY <1>1, <1>4 DEF ApplyEventOp
<1>5. CASE Signals
  BY <1>1, <1>5 DEF Signals
<1>6. CASE UNCHANGED <<order, wait_at, event_at, signal_at>>
  BY <1>6
<1> HIDE DEF HistoryHasType
<1> USE DEF history
<1>7. CASE CacheFlushed \/ CacheFails \/ WaitIsFree \/ WaitHasFailed \/ StartCall
  BY <1>6, <1>7 DEF CacheFlushed, CacheFails, WaitIsFree, WaitHasFailed, StartCall
<1>8. CASE FlushNothing \/ FlushSubmits \/ FlushFails \/ CallFails
  BY <1>6, <1>8 DEF FlushNothing, FlushSubmits, Flushed, FlushFails, CallFails
<1>9. CASE StartBatch \/ LooksAtBatch \/ ReissueWaits \/ Rewrite \/ AppendNeedsRoom \/ AppendFails
  BY <1>6, <1>9 DEF StartBatch, LooksAtBatch, ReissueWaits, Rewrite, AppendNeedsRoom, AppendFails
<1>10. CASE Finish \/ NextBatch
  BY <1>6, <1>10 DEF Finish, NextBatch
<1>11. CASE GpuEnds \/ EventIsRead \/ HostWaits \/ HostImports \/ HostResets \/ FileSignals
  BY <1>6, <1>11 DEF GpuEnds, EventIsRead, HostWaits, HostImports, HostResets, FileSignals, Outside
<1>12. CASE UNCHANGED vars
  BY <1>6, <1>12 DEF vars
<1> QED BY <1>2, <1>3, <1>4, <1>5, <1>7, <1>8, <1>9, <1>10, <1>11, <1>12 DEF Next, Proceed

LEMMA JoinedAppends ==
  ASSUME NEW s \in Seq(Batches), NEW q \in Seq(Batches), NEW b \in Batches
  PROVE  Joined(s, Append(q, b)) = Append(Joined(s, q), b)
<1>1. <<b>> \in Seq(Batches) /\ s \o q \in Seq(Batches)
  BY ConcatProperties
<1>2. Append(q, b) = q \o <<b>> /\ Append(s \o q, b) = (s \o q) \o <<b>>
  BY <1>1, AppendIsConcat
<1>3. (s \o q) \o <<b>> = s \o (q \o <<b>>)
  BY <1>1, ConcatAssociative
<1> QED BY <1>2, <1>3 DEF Joined

LEMMA DeliveryStep ==
  ASSUME TInv, DInv, Next \/ UNCHANGED vars
  PROVE  DInv'
<1>1. HistoryHasType'
  BY HistoryKeepsType DEF DInv
<1>2. /\ submitted \in Nat /\ submitted \in 0 .. submitted
      /\ BatchesOf[submitted] \in Nat /\ Delivered[submitted] \in Seq(Batches)
      /\ order \in Seq(Batches) /\ Len(order) \in Nat
      /\ chain \in Seq(Batches) /\ Len(chain) \in Nat
  BY DEF DInv, HistoryHasType, BatchesAreCounted, Grows, BatchesAreDelivered, TInv, TypeOK
<1>3. CASE FlushSubmits
  <2>1. /\ BatchesAreCounted' /\ BatchesAreDelivered' /\ NothingAhead'
        /\ BatchesOf'[submitted + 1] = BatchesOf[submitted] + Len(chain)
        /\ Delivered'[submitted + 1] = Joined(Delivered[submitted], chain)
    BY <1>3, FlushDelivers DEF DInv
  <2>2. /\ submitted' = submitted + 1 /\ chain' = <<>> /\ ~lost
        /\ UNCHANGED <<order, lost>>
    BY <1>3 DEF FlushSubmits, Flushed, Queue!Submit
  <2>3. ChainAddsUp'
    <3>1. BatchesOf[submitted] + Len(chain) = Len(order)
      BY <2>2 DEF DInv, ChainAddsUp
    <3>2. BatchesOf'[submitted'] = Len(order) /\ Len(chain') = 0
      BY <2>1, <2>2, <3>1
    <3>3. BatchesOf'[submitted'] + Len(chain') = Len(order')
      BY <1>2, <2>2, <3>2
    <3>4. Len(order') \in Nat
      BY <1>2, <2>2
    <3> QED BY <3>3, <3>4 DEF ChainAddsUp
  <2>4. OrderIsKept'
    <3>1. Joined(Delivered[submitted], chain) = order
      BY <2>2 DEF DInv, OrderIsKept, Joined
    <3>2. Delivered'[submitted'] = order
      BY <2>1, <2>2, <3>1
    <3>3. order \o <<>> = order
      BY <1>2, ConcatEmptySeq
    <3> QED BY <2>2, <3>2, <3>3 DEF OrderIsKept
  <2> QED BY <1>1, <2>1, <2>3, <2>4 DEF DInv
<1>4. CASE AppendBatch
  <2>1. /\ UNCHANGED <<submitted, content, lost>>
        /\ chain' = Append(chain, Current) /\ order' = Append(order, Current)
    BY <1>4 DEF AppendBatch, queue
  <2>2. UNCHANGED <<BatchesOf, Delivered>>
    BY <2>1, SameContent
  <2>3. BatchesAreCounted' /\ BatchesAreDelivered' /\ NothingAhead'
    BY <2>1, <2>2 DEF DInv, BatchesAreCounted, BatchesAreDelivered, NothingAhead
  <2>4. Current \in Batches
    BY <1>4, ElementOfSeq DEF TInv, CallHasType, LoopHasBatch, InLoop, AppendBatch, Current
  <2>5. Len(chain') = Len(chain) + 1 /\ Len(order') = Len(order) + 1
    BY <1>2, <2>1, <2>4, AppendProperties
  <2>6. ChainAddsUp'
    <3>1. /\ BatchesOf[submitted] + Len(chain) <= Len(order)
          /\ ~lost => BatchesOf[submitted] + Len(chain) = Len(order)
      BY DEF DInv, ChainAddsUp
    <3>2. /\ BatchesOf[submitted] + (Len(chain) + 1) <= Len(order) + 1
          /\ ~lost => BatchesOf[submitted] + (Len(chain) + 1) = Len(order) + 1
      BY ONLY <1>2, <3>1
    <3>3. BatchesOf'[submitted'] = BatchesOf[submitted] /\ lost' = lost
      BY <2>1, <2>2
    <3> QED BY ONLY <2>5, <3>2, <3>3 DEF ChainAddsUp
  <2>7. Joined(Delivered[submitted], Append(chain, Current))
          = Append(Joined(Delivered[submitted], chain), Current)
    BY <1>2, <2>4, JoinedAppends
  <2>8. OrderIsKept'
    <3>1. ~lost => Joined(Delivered[submitted], chain) = order
      BY DEF DInv, OrderIsKept, Joined
    <3>2. ~lost => Joined(Delivered[submitted], chain') = order'
      BY <2>1, <2>7, <3>1
    <3>3. ~lost' => Joined(Delivered'[submitted'], chain') = order'
      BY <2>1, <2>2, <3>2
    <3> QED BY <3>3 DEF OrderIsKept, Joined
  <2> QED BY <1>1, <2>3, <2>6, <2>8 DEF DInv
<1>5. CASE ~FlushSubmits /\ ~AppendBatch
  <2>1. Quiet
    BY <1>5, QuietSteps
  <2>2. UNCHANGED <<BatchesOf, Delivered>>
    BY <2>1, SameContent DEF Quiet
  <2>3. BatchesAreCounted' /\ BatchesAreDelivered' /\ NothingAhead'
    BY <2>1, <2>2 DEF Quiet, DInv, BatchesAreCounted, BatchesAreDelivered, NothingAhead
  <2>4. ChainAddsUp' /\ OrderIsKept'
    <3>1. CASE chain' = chain
      BY <2>1, <2>2, <3>1 DEF Quiet, DInv, ChainAddsUp, OrderIsKept
    <3>2. CASE chain' = <<>> /\ chain # <<>> /\ lost'
      <4>1. Len(chain') = 0 /\ BatchesOf[submitted] <= Len(order)
        BY <1>2, <3>2 DEF DInv, ChainAddsUp
      <4> QED BY <1>2, <2>1, <2>2, <3>2, <4>1 DEF Quiet, ChainAddsUp, OrderIsKept
    <3> QED BY <2>1, <3>1, <3>2 DEF Quiet
  <2> QED BY <1>1, <2>3, <2>4 DEF DInv
<1> QED BY <1>3, <1>4, <1>5

LEMMA DeliveriesHold == Spec => []DInv
<1>1. TInv /\ DInv /\ [Next]_vars => DInv'
  BY DeliveryStep
<1> QED BY <1>1, DeliveryInit, TypesHold, PTL DEF Spec

-----------------------------------------------------------------------------
(* What has ended stands for the history                                   *)

(* Right after its flush a call's newest submission stands for everything  *)
(* in the order.                                                           *)
NewestIsAll ==
  /\ pc \in {"finish", "apply", "signal"} =>
       chain = <<>> /\ seqno = submitted /\ Len(order) <= BatchesOf[submitted]
  /\ pc = "apply" => seqno <= completed

(* The event was set behind work that has ended; a sync stands for a       *)
(* submission that holds, with those before it, all that it is a signal of.*)
HistoryIsBehind ==
  /\ event_at <= BatchesOf[ended]
  /\ \A s \in Syncs :
       state[s] # "reset" /\ work[s] # File =>
         work[s] \in 0 .. submitted /\ signal_at[s] <= BatchesOf[work[s]]

(* Before the file has signalled, what waits for it is either not yet      *)
(* submitted, or not before a submission that waits for it.                *)
FileIsAwaited ==
  /\ gate \subseteq 1 .. submitted
  /\ \A n \in wait_at :
       \/ file
       \/ BatchesOf[submitted] <= n /\ (wait_fd \/ lost)
       \/ \E g \in gate : ended < g /\ BatchesOf[g - 1] <= n

SInv == NewestIsAll /\ HistoryIsBehind /\ FileIsAwaited

LEMMA StandsInit == ASSUME Init PROVE SInv
<1>1. BatchesOf[0] = 0
  BY NothingCounted, SubmitsAssumption DEF BatchesAreCounted, Counts
<1>2. NewestIsAll
  BY DEF Init, NewestIsAll
<1>3. HistoryIsBehind
  BY <1>1 DEF Init, Queue!Init, HistoryIsBehind
<1>4. FileIsAwaited
  BY DEF Init, FileIsAwaited
<1> QED BY <1>2, <1>3, <1>4 DEF SInv

(* A flush ends with the newest submission. *)
LEMMA FlushIsAll ==
  ASSUME TInv, DInv, FlushSubmits \/ FlushNothing
  PROVE  NewestIsAll'
<1>1. pc' # "apply" /\ chain' = <<>> /\ seqno' = submitted' /\ ~lost /\ order' = order
  <2>1. pc \in Flushing /\ pc' = Follows /\ chain' = <<>> /\ order' = order
    BY DEF FlushSubmits, FlushNothing, Flushed
  <2>2. Follows # "apply"
    BY <2>1 DEF Flushing, Follows
  <2>3. seqno' = submitted' /\ ~lost
    BY DEF FlushSubmits, FlushNothing, queue, Queue!Submit
  <2> QED BY <2>1, <2>2, <2>3
<1>2. /\ BatchesOf[submitted] \in Nat /\ Len(order) \in Nat
      /\ BatchesOf[submitted] + Len(chain) = Len(order)
  BY <1>1 DEF DInv, ChainAddsUp, BatchesAreCounted, Grows, HistoryHasType, TInv, TypeOK
<1>3. CASE FlushSubmits
  <2>1. submitted' = submitted + 1
    BY <1>3 DEF FlushSubmits, Queue!Submit
  <2>2. BatchesOf'[submitted + 1] = Len(order)
    BY <1>2, <1>3, FlushDelivers DEF DInv
  <2> QED BY <1>1, <1>2, <2>1, <2>2 DEF NewestIsAll
<1>4. CASE FlushNothing
  <2>1. UNCHANGED <<submitted, content>> /\ Len(chain) = 0
    BY <1>4 DEF FlushNothing, queue
  <2>2. BatchesOf'[submitted'] = Len(order)
    BY <1>2, <2>1, SameContent
  <2> QED BY <1>1, <1>2, <2>2 DEF NewestIsAll
<1> QED BY <1>3, <1>4

LEMMA NewestStep ==
  ASSUME TInv, DInv, NewestIsAll, Next \/ UNCHANGED vars
  PROVE  NewestIsAll'
<1> USE DEF queue, thread
<1>1. CASE FlushSubmits \/ FlushNothing
  BY <1>1, FlushIsAll
<1>2. CASE pc' \notin {"finish", "apply", "signal"}
  BY <1>2 DEF NewestIsAll
<1>3. CASE /\ UNCHANGED <<submitted, content, chain, seqno, order>>
           /\ completed \in Nat /\ completed' \in Nat /\ completed <= completed' /\ seqno \in Nat
           /\ \/ pc' = pc
              \/ pc = "finish" /\ (pc' = "apply" => seqno <= completed)
  <2>1. BatchesOf' = BatchesOf
    BY <1>3, SameContent
  <2> QED BY <1>3, <2>1 DEF NewestIsAll
<1>0. completed \in Nat /\ seqno \in Nat
  BY DEF TInv, TypeOK
<1>4. CASE CacheFlushed \/ CacheFails \/ WaitIsFree \/ WaitTakesFile \/ WaitHasFailed
  BY <1>2, <1>4 DEF CacheFlushed, CacheFails, WaitIsFree, WaitTakesFile, WaitHasFailed, Loop
<1>5. CASE WaitOnCpu
  <2>1. pc' \in {Loop, "idle"}
    BY <1>5 DEF WaitOnCpu
  <2> QED BY <1>2, <2>1 DEF Loop
<1>6. CASE FlushFails \/ CallFails \/ StartCall
  BY <1>2, <1>6 DEF FlushFails, CallFails, StartCall
<1>7. CASE StartBatch \/ LooksAtBatch \/ ReissueWaits \/ Rewrite
  <2>1. pc' \in {"before", "issued", "append", "evict", "reissue", "rewrite", "error"}
    BY <1>7 DEF StartBatch, LooksAtBatch, ReissueWaits, WaitEnds, Rewrite
  <2> QED BY <1>2, <2>1
<1>8. CASE AppendNeedsRoom \/ AppendBatch \/ AppendFails
  BY <1>2, <1>8 DEF AppendNeedsRoom, AppendBatch, AppendFails
<1>9. CASE Finish
  <2>1. /\ UNCHANGED <<submitted, content, chain, seqno, order, completed>>
        /\ pc = "finish" /\ (pc' = "apply" => seqno <= completed)
    BY <1>9 DEF Finish, WaitEnds, history
  <2> QED BY <1>0, <1>3, <2>1
<1>10. CASE ApplyEventOp \/ NextBatch \/ Signals
  BY <1>2, <1>10 DEF ApplyEventOp, NextBatch, Signals
<1>11. CASE GpuEnds \/ EventIsRead
  <2>1. /\ UNCHANGED <<submitted, content, chain, seqno, order, pc>>
        /\ completed' \in {completed, completed + 1}
    BY <1>11 DEF GpuEnds, EventIsRead, Outside, history, Queue!End, Queue!Complete, Queue!Lose
  <2> QED BY <1>0, <1>3, <2>1
<1>12. CASE HostWaits \/ HostImports \/ HostResets \/ FileSignals \/ UNCHANGED vars
  <2>1. UNCHANGED <<submitted, content, chain, seqno, order, pc, completed>>
    BY <1>12 DEF HostWaits, HostImports, HostResets, FileSignals, Outside, history, vars
  <2> QED BY <1>0, <1>3, <2>1
<1> QED BY <1>1, <1>4, <1>5, <1>6, <1>7, <1>8, <1>9, <1>10, <1>11, <1>12 DEF Next, Proceed

(* Steps that raise no signal leave every sync behind what it stands for. *)
SyncsAsBefore ==
  /\ UNCHANGED <<event_at, signal_at>>
  /\ \A s \in Syncs :
       \/ state'[s] = "reset" \/ work'[s] = File
       \/ state[s] # "reset" /\ work'[s] = work[s]

LEMMA QuietSyncs ==
  ASSUME TInv, Next \/ UNCHANGED vars, ~Signals, ~ApplyEventOp
  PROVE  SyncsAsBefore
<1> USE DEF payloads, history
<1>1. CASE UNCHANGED <<state, work, event_at, signal_at>>
  BY <1>1 DEF SyncsAsBefore
<1>2. CASE CacheFlushed \/ CacheFails \/ WaitIsFree \/ WaitTakesFile \/ WaitHasFailed \/ StartCall
  BY <1>1, <1>2 DEF CacheFlushed, CacheFails, WaitIsFree, WaitTakesFile, WaitHasFailed, StartCall
<1>3. CASE FlushNothing \/ FlushSubmits \/ FlushFails \/ CallFails
  BY <1>1, <1>3 DEF FlushNothing, FlushSubmits, Flushed, FlushFails, CallFails
<1>4. CASE StartBatch \/ LooksAtBatch \/ ReissueWaits \/ Rewrite
  BY <1>1, <1>4 DEF StartBatch, LooksAtBatch, ReissueWaits, Rewrite
<1>5. CASE AppendNeedsRoom \/ AppendBatch \/ AppendFails \/ Finish \/ NextBatch
  BY <1>1, <1>5 DEF AppendNeedsRoom, AppendBatch, AppendFails, Finish, NextBatch
<1>6. CASE GpuEnds \/ EventIsRead \/ FileSignals \/ UNCHANGED vars
  BY <1>1, <1>6 DEF GpuEnds, EventIsRead, FileSignals, Outside, vars
<1>7. ASSUME NEW s \in Syncs, Payload!Observe(s), UNCHANGED <<event_at, signal_at>>
      PROVE  SyncsAsBefore
  <2>1. /\ state[s] = "pending" /\ work' = work
        /\ state' = [state EXCEPT ![s] = "signalled"] \/ state' = [state EXCEPT ![s] = "failed"]
    BY <1>7 DEF Payload!Observe
  <2>2. \A r \in Syncs : r # s => state'[r] = state[r]
    BY <2>1 DEF TInv, TypeOK
  <2> QED BY <1>7, <2>1, <2>2 DEF SyncsAsBefore
<1>8. CASE WaitOnCpu
  BY <1>7, <1>8 DEF WaitOnCpu, TInv, CallHasType
<1>9. CASE HostWaits
  BY <1>7, <1>9 DEF HostWaits, Outside
<1>10. CASE HostImports
  <2>1. PICK s \in Syncs : /\ state' = [state EXCEPT ![s] = "pending"]
                           /\ work' = [work EXCEPT ![s] = File]
    BY <1>10 DEF HostImports, Payload!Set
  <2> QED BY <1>10, <2>1 DEF HostImports, Outside, SyncsAsBefore, TInv, TypeOK
<1>11. CASE HostResets
  <2>1. PICK s \in Syncs : /\ state' = [state EXCEPT ![s] = "reset"]
                           /\ work' = [work EXCEPT ![s] = 0]
    BY <1>11 DEF HostResets, Payload!Reset, Payload!Set
  <2> QED BY <1>11, <2>1 DEF HostResets, Outside, SyncsAsBefore, TInv, TypeOK
<1> QED BY <1>2, <1>3, <1>4, <1>5, <1>6, <1>8, <1>9, <1>10, <1>11 DEF Next, Proceed

(* Along submissions the count of batches only grows, and stays a number.  *)
LEMMA CountsOf ==
  ASSUME TInv, DInv
  PROVE  /\ ended \in 0 .. submitted /\ completed \in 0 .. ended /\ submitted \in Nat
         /\ \A s \in 0 .. submitted : BatchesOf[s] \in Nat /\ BatchesOf[s] <= BatchesOf[submitted]
         /\ \A s \in 0 .. submitted : \A t \in 0 .. s : BatchesOf[t] <= BatchesOf[s]
         /\ Len(order) \in Nat /\ BatchesOf[submitted] <= Len(order)
<1>1. ended \in 0 .. submitted /\ completed \in 0 .. ended /\ submitted \in Nat
  BY DEF TInv, TypeOK
<1>2. Grows(BatchesOf, submitted)
  BY DEF DInv, BatchesAreCounted
<1>3. /\ \A s \in 0 .. submitted : BatchesOf[s] \in Nat /\ BatchesOf[s] <= BatchesOf[submitted]
      /\ \A s \in 0 .. submitted : \A t \in 0 .. s : BatchesOf[t] <= BatchesOf[s]
  BY <1>1, <1>2 DEF Grows
<1>4. Len(order) \in Nat /\ Len(chain) \in Nat /\ BatchesOf[submitted] + Len(chain) <= Len(order)
  BY DEF DInv, HistoryHasType, ChainAddsUp, TInv, TypeOK
<1> QED BY <1>1, <1>3, <1>4

(* Nothing submitted before is counted anew. *)
LEMMA CountsAreKept ==
  ASSUME TInv, DInv, Next \/ UNCHANGED vars
  PROVE  /\ submitted' \in Nat /\ submitted <= submitted' /\ ended' \in Nat /\ ended <= ended'
         /\ ended' \in 0 .. submitted
         /\ \A s \in 0 .. submitted : BatchesOf'[s] = BatchesOf[s]
<1>1. submitted \in Nat /\ ended \in 0 .. submitted
  BY DEF TInv, TypeOK
<1>2. CASE FlushSubmits
  <2>1. submitted' = submitted + 1 /\ ended' = ended
    BY <1>2 DEF FlushSubmits, Queue!Submit
  <2>2. \A s \in 0 .. submitted : BatchesOf'[s] = BatchesOf[s]
    BY <1>2, FlushDelivers DEF DInv
  <2> QED BY <1>1, <2>1, <2>2
<1>3. CASE ~FlushSubmits
  <2>1. UNCHANGED <<submitted, content>>
    <3>1. CASE AppendBatch
      BY <3>1 DEF AppendBatch, queue
    <3>2. CASE ~AppendBatch
      BY <1>3, <3>2, QuietSteps DEF Quiet
    <3> QED BY <3>1, <3>2
  <2>2. BatchesOf' = BatchesOf
    BY <2>1, SameContent
  <2>3. ended' = ended \/ (ended < submitted /\ ended' = ended + 1)
    <3> USE DEF queue
    <3>1. CASE GpuEnds
      BY <3>1 DEF GpuEnds, Queue!End
    <3>2. CASE EventIsRead
      BY <3>2 DEF EventIsRead, Queue!Complete, Queue!Lose
    <3>3. CASE FlushFails \/ CallFails \/ FlushNothing
      BY <3>3 DEF FlushFails, CallFails, FlushNothing, Queue!Lose
    <3>4. CASE StartCall \/ CacheFlushed \/ CacheFails \/ WaitIsFree \/ WaitTakesFile \/ WaitOnCpu
               \/ WaitHasFailed
      BY <3>4
         DEF StartCall, CacheFlushed, CacheFails, WaitIsFree, WaitTakesFile, WaitOnCpu, WaitHasFailed
    <3>5. CASE StartBatch \/ LooksAtBatch \/ ReissueWaits \/ Rewrite
      BY <3>5 DEF StartBatch, LooksAtBatch, ReissueWaits, Rewrite
    <3>6. CASE AppendNeedsRoom \/ AppendBatch \/ AppendFails
      BY <3>6 DEF AppendNeedsRoom, AppendBatch, AppendFails
    <3>7. CASE Finish \/ ApplyEventOp \/ NextBatch \/ Signals
      BY <3>7 DEF Finish, ApplyEventOp, NextBatch, Signals
    <3>8. CASE HostWaits \/ HostImports \/ HostResets \/ FileSignals \/ UNCHANGED vars
      BY <3>8 DEF HostWaits, HostImports, HostResets, FileSignals, vars
    <3> QED BY <1>3, <3>1, <3>2, <3>3, <3>4, <3>5, <3>6, <3>7, <3>8 DEF Next, Proceed
  <2> QED BY <1>1, <2>1, <2>2, <2>3
<1> QED BY <1>2, <1>3

LEMMA BehindStep ==
  ASSUME TInv, DInv, NewestIsAll, HistoryIsBehind, Next \/ UNCHANGED vars
  PROVE  HistoryIsBehind'
<1>1. /\ ended \in 0 .. submitted /\ completed \in 0 .. ended /\ submitted \in Nat
      /\ event_at \in Nat /\ signal_at \in [Syncs -> Nat] /\ Len(order) \in Nat
      /\ \A s \in 0 .. submitted : BatchesOf[s] \in Nat
      /\ \A s \in 0 .. submitted : \A t \in 0 .. s : BatchesOf[t] <= BatchesOf[s]
  BY CountsOf DEF DInv, HistoryHasType
<1>2. /\ submitted' \in Nat /\ submitted <= submitted' /\ ended' \in Nat /\ ended <= ended'
      /\ ended' \in 0 .. submitted
      /\ \A s \in 0 .. submitted : BatchesOf'[s] = BatchesOf[s]
  BY CountsAreKept
<1>3. event_at <= BatchesOf'[ended']
  <2>1. event_at <= BatchesOf[ended] /\ BatchesOf[ended] <= BatchesOf[ended']
    BY <1>1, <1>2 DEF HistoryIsBehind
  <2>2. BatchesOf'[ended'] = BatchesOf[ended']
    BY <1>2
  <2>3. BatchesOf[ended] \in Nat /\ BatchesOf[ended'] \in Nat
    BY <1>1, <1>2
  <2> QED BY ONLY <1>1, <2>1, <2>2, <2>3
<1>4. ASSUME NEW s \in Syncs, state[s] # "reset", work[s] # File
      PROVE  work[s] \in 0 .. submitted' /\ signal_at[s] <= BatchesOf'[work[s]]
  <2>1. work[s] \in 0 .. submitted /\ signal_at[s] <= BatchesOf[work[s]]
    BY <1>4 DEF HistoryIsBehind
  <2> QED BY <1>1, <1>2, <2>1
<1>5. CASE ~Signals /\ ~ApplyEventOp
  <2>1. SyncsAsBefore
    BY <1>5, QuietSyncs
  <2>2. ASSUME NEW s \in Syncs, state'[s] # "reset", work'[s] # File
        PROVE  work'[s] \in 0 .. submitted' /\ signal_at'[s] <= BatchesOf'[work'[s]]
    <3>1. state[s] # "reset" /\ work'[s] = work[s] /\ signal_at' = signal_at
      BY <2>1, <2>2 DEF SyncsAsBefore
    <3> QED BY <1>4, <2>2, <3>1
  <2> QED BY <1>3, <2>1, <2>2 DEF SyncsAsBefore, HistoryIsBehind
<1>6. CASE ApplyEventOp
  <2>1. /\ pc = "apply" /\ event_at' = Len(order)
        /\ UNCHANGED <<state, work, signal_at, submitted, ended, content>>
    BY <1>6 DEF ApplyEventOp, queue, payloads
  <2>2. seqno = submitted /\ seqno <= completed /\ Len(order) <= BatchesOf[submitted]
    BY <2>1 DEF NewestIsAll
  <2>3. ended = submitted
    BY <1>1, <2>2
  <2>4. Len(order) <= BatchesOf'[ended']
    BY <1>1, <1>2, <2>1, <2>2, <2>3
  <2>5. \A s \in Syncs : state'[s] # "reset" /\ work'[s] # File
          => work'[s] \in 0 .. submitted' /\ signal_at'[s] <= BatchesOf'[work'[s]]
    BY <1>4, <2>1
  <2> QED BY <2>1, <2>4, <2>5 DEF HistoryIsBehind
<1>7. CASE Signals
  <2>1. pc = "signal" /\ UNCHANGED <<event_at, submitted, ended, content>>
    BY <1>7 DEF Signals, queue
  <2>2. seqno = submitted /\ Len(order) <= BatchesOf[submitted]
    BY <2>1 DEF NewestIsAll
  <2>3. ASSUME NEW s \in Syncs, state'[s] # "reset", work'[s] # File
        PROVE  work'[s] \in 0 .. submitted' /\ signal_at'[s] <= BatchesOf'[work'[s]]
    <3>1. CASE call.signal = s
      <4>1. s # NoSync
        BY SyncsAssumption
      <4>2. work'[s] = seqno /\ signal_at'[s] = Len(order)
        BY <1>1, <1>7, <3>1, <4>1 DEF Signals, TInv, TypeOK
      <4> QED BY <1>1, <1>2, <2>1, <2>2, <4>2
    <3>2. CASE call.signal # s
      <4>1. state'[s] = Consumed(state)[s] /\ work'[s] = work[s] /\ signal_at'[s] = signal_at[s]
        <5>1. CASE call.signal = NoSync
          BY <1>7, <5>1 DEF Signals
        <5>2. CASE call.signal # NoSync
          BY <1>1, <1>7, <3>2, <5>2 DEF Signals, Consumed, TInv, TypeOK
        <5> QED BY <5>1, <5>2
      <4>2. state[s] # "reset"
        BY <2>3, <4>1 DEF Consumed, TInv, TypeOK
      <4> QED BY <1>4, <2>3, <4>1, <4>2
    <3> QED BY <3>1, <3>2
  <2> QED BY <1>3, <2>1, <2>3 DEF HistoryIsBehind
<1> QED BY <1>5, <1>6, <1>7

LEMMA AwaitedAfterFlush ==
  ASSUME TInv, DInv, FileIsAwaited, FlushSubmits
  PROVE  FileIsAwaited'
<1>1. /\ submitted \in Nat /\ submitted' = submitted + 1 /\ ended \in 0 .. submitted
      /\ ended' = ended /\ file' = file /\ wait_at' = wait_at /\ ~lost /\ lost' = lost
      /\ gate' = IF wait_fd THEN gate \cup {submitted'} ELSE gate
  BY DEF FlushSubmits, Flushed, Queue!Submit, TInv, TypeOK
<1>2. \A s \in 0 .. submitted : BatchesOf'[s] = BatchesOf[s]
  BY CountsAreKept DEF Next, Proceed
<1>3. gate \subseteq 1 .. submitted
  BY DEF FileIsAwaited
<1>4. gate \subseteq gate' /\ gate' \subseteq 1 .. submitted'
  BY <1>1, <1>3
<1>5. ASSUME NEW n \in wait_at, ~file
      PROVE  \E g \in gate' : ended' < g /\ BatchesOf'[g - 1] <= n
  <2>1. CASE BatchesOf[submitted] <= n /\ wait_fd
    <3>1. submitted + 1 \in gate' /\ ended' < submitted + 1 /\ (submitted + 1) - 1 = submitted
      BY <1>1, <2>1
    <3>2. BatchesOf'[submitted] <= n
      BY <1>1, <1>2, <2>1
    <3> QED BY <3>1, <3>2
  <2>2. CASE \E g \in gate : ended < g /\ BatchesOf[g - 1] <= n
    <3>1. PICK g \in gate : ended < g /\ BatchesOf[g - 1] <= n
      BY <2>2
    <3>2. g - 1 \in 0 .. submitted
      BY <1>1, <1>3
    <3>3. BatchesOf'[g - 1] <= n
      BY <1>2, <3>1, <3>2
    <3> QED BY <1>1, <1>4, <3>1, <3>3
  <2> QED BY <1>1, <1>5, <2>1, <2>2 DEF FileIsAwaited
<1> QED BY <1>1, <1>4, <1>5 DEF FileIsAwaited

(* A wait on the CPU for the file succeeds only once that has ended. *)
LEMMA FileWasAwaited ==
  ASSUME TInv, WaitOnCpu, WaitsForFile, state'[call.wait] = "signalled"
  PROVE  file
<1>1. File \in Finished
  BY DEF WaitOnCpu, WaitsForFile, Payload!Observe, TInv, TypeOK, CallHasType
<1>2. 1 .. completed \subseteq 1 .. MaxSubmits
  BY SubmitsAssumption DEF TInv, TypeOK
<1> QED BY <1>1, <1>2, FileAssumption DEF Finished

LEMMA AwaitedStep ==
  ASSUME TInv, DInv, FileIsAwaited, Next \/ UNCHANGED vars
  PROVE  FileIsAwaited'
<1>1. /\ submitted \in Nat /\ ended \in 0 .. submitted /\ ended' \in Nat /\ ended <= ended'
      /\ \A s \in 0 .. submitted : BatchesOf'[s] = BatchesOf[s]
      /\ BatchesOf[submitted] <= Len(order) /\ BatchesOf[submitted] \in Nat
      /\ gate \subseteq 1 .. submitted
  BY CountsOf, CountsAreKept DEF FileIsAwaited
<1>2. CASE FlushSubmits
  BY <1>2, AwaitedAfterFlush
<1>3. ASSUME ~FlushSubmits
      PROVE  /\ UNCHANGED <<submitted, gate>> /\ (file => file')
             /\ (wait_fd => wait_fd' \/ lost') /\ (lost => lost')
  <2>1. CASE AppendBatch
    BY <2>1 DEF AppendBatch, queue
  <2>2. CASE ~AppendBatch
    BY <1>3, <2>2, QuietSteps DEF Quiet
  <2> QED BY <2>1, <2>2
<1>4. ASSUME ~FlushSubmits, wait_at' = wait_at,
             file \/ ended' = ended \/ (ended' = ended + 1 /\ ended' \notin gate)
      PROVE  FileIsAwaited'
  <2>1. /\ submitted' = submitted /\ gate' = gate
        /\ file => file'
        /\ wait_fd \/ lost => wait_fd' \/ lost'
    BY <1>3, <1>4
  <2>2. BatchesOf'[submitted'] = BatchesOf[submitted]
    BY <1>1, <2>1
  <2>3. ASSUME NEW g \in gate, ended < g, NEW n, BatchesOf[g - 1] <= n, ~file
        PROVE  ended' < g /\ BatchesOf'[g - 1] <= n
    <3>1. g \in 1 .. submitted /\ g - 1 \in 0 .. submitted
      BY <1>1
    <3>2. ended' < g
      BY <1>1, <1>4, <2>3, <3>1
    <3> QED BY <1>1, <2>3, <3>1, <3>2
  <2>4. ASSUME NEW n \in wait_at, ~file'
        PROVE  \/ BatchesOf'[submitted'] <= n /\ (wait_fd' \/ lost')
               \/ \E g \in gate' : ended' < g /\ BatchesOf'[g - 1] <= n
    <3>1. CASE BatchesOf[submitted] <= n /\ (wait_fd \/ lost)
      BY <2>1, <2>2, <3>1
    <3>2. CASE \E g \in gate : ended < g /\ BatchesOf[g - 1] <= n
      BY <2>1, <2>3, <2>4, <3>2
    <3> QED BY <2>1, <2>4, <3>1, <3>2 DEF FileIsAwaited
  <2> QED BY <1>1, <1>4, <2>1, <2>4 DEF FileIsAwaited
<1>5. CASE WaitTakesFile
  <2>1. /\ wait_at' = wait_at \cup {Len(order)} /\ wait_fd' = TRUE
        /\ UNCHANGED <<submitted, ended, gate, file, content>>
    BY <1>5 DEF WaitTakesFile, Waiting, queue
  <2>2. BatchesOf'[submitted'] = BatchesOf[submitted] /\ BatchesOf' = BatchesOf
    BY <2>1, SameContent
  <2>3. ASSUME NEW n \in wait_at', ~file'
        PROVE  \/ BatchesOf'[submitted'] <= n /\ (wait_fd' \/ lost')
               \/ \E g \in gate' : ended' < g /\ BatchesOf'[g - 1] <= n
    <3>1. CASE n = Len(order)
      BY <1>1, <2>1, <2>2, <3>1
    <3>2. CASE n \in wait_at
      BY <2>1, <2>2, <2>3, <3>2 DEF FileIsAwaited
    <3> QED BY <2>1, <2>3, <3>1, <3>2
  <2> QED BY <1>1, <2>1, <2>3 DEF FileIsAwaited
<1>6. CASE WaitOnCpu
  <2>1. UNCHANGED <<submitted, ended, gate, file>>
    BY <1>6 DEF WaitOnCpu, queue
  <2>2. CASE WaitsForFile /\ state'[call.wait] = "signalled"
    <3>1. file'
      BY <1>6, <2>1, <2>2, FileWasAwaited
    <3>2. wait_at' = Waiting
      BY <1>6, <2>2 DEF WaitOnCpu
    <3> QED BY <1>1, <2>1, <3>1, <3>2 DEF FileIsAwaited
  <2>3. CASE ~(WaitsForFile /\ state'[call.wait] = "signalled")
    <3>1. ~FlushSubmits
      BY <1>6 DEF WaitOnCpu, FlushSubmits, Flushing
    <3>2. wait_at' = wait_at
      BY <1>6, <2>3 DEF WaitOnCpu, Waiting
    <3> QED BY <1>4, <2>1, <3>1, <3>2
  <2> QED BY <2>2, <2>3
<1>7. CASE ~FlushSubmits /\ ~WaitTakesFile /\ ~WaitOnCpu
  <2> USE DEF queue, history
  <2>1. CASE GpuEnds
    BY <1>4, <1>7, <2>1 DEF GpuEnds, Queue!End, Outside
  <2>2. CASE EventIsRead
    BY <1>4, <1>7, <2>2 DEF EventIsRead, Queue!Complete, Queue!Lose, Outside
  <2>3. CASE FlushFails \/ CallFails \/ FlushNothing
    BY <1>4, <1>7, <2>3 DEF FlushFails, CallFails, FlushNothing, Flushed, Queue!Lose
  <2>4. CASE StartCall \/ CacheFlushed \/ CacheFails \/ WaitIsFree \/ WaitHasFailed
    BY <1>4, <1>7, <2>4 DEF StartCall, CacheFlushed, CacheFails, WaitIsFree, WaitHasFailed
  <2>5. CASE StartBatch \/ LooksAtBatch \/ ReissueWaits \/ Rewrite
    BY <1>4, <1>7, <2>5 DEF StartBatch, LooksAtBatch, ReissueWaits, Rewrite
  <2>6. CASE AppendNeedsRoom \/ AppendBatch \/ AppendFails
    BY <1>4, <1>7, <2>6 DEF AppendNeedsRoom, AppendBatch, AppendFails
  <2>7. CASE Finish \/ ApplyEventOp \/ NextBatch \/ Signals
    BY <1>4, <1>7, <2>7 DEF Finish, ApplyEventOp, NextBatch, Signals
  <2>8. CASE HostWaits \/ HostImports \/ HostResets \/ FileSignals \/ UNCHANGED vars
    BY <1>4, <1>7, <2>8 DEF HostWaits, HostImports, HostResets, FileSignals, Outside, vars
  <2> QED BY <1>7, <2>1, <2>2, <2>3, <2>4, <2>5, <2>6, <2>7, <2>8 DEF Next, Proceed
<1> QED BY <1>2, <1>5, <1>6, <1>7

LEMMA StandsHold == Spec => []SInv
<1>1. Init => SInv
  BY StandsInit
<1>2. TInv /\ DInv /\ SInv /\ [Next]_vars => SInv'
  BY NewestStep, BehindStep, AwaitedStep DEF SInv
<1> QED BY <1>1, <1>2, DeliveriesHold, TypesHold, PTL DEF Spec

(* The batches go to the GPU in the order of the calls, each once, none    *)
(* before the fence its call waits for, and none is rewritten under it:    *)
(* for any calls, chain length and failures.                               *)
THEOREM BatchesStayInOrder == Spec => []BatchesAreInOrder
<1>1. TInv /\ DInv /\ SInv => BatchesAwaitTheFile
  <2> SUFFICES ASSUME TInv, DInv, SInv, NEW n \in wait_at, BatchesOf[ended] > n, ~file
               PROVE  FALSE
    BY DEF BatchesAwaitTheFile
  <2>1. /\ ended \in 0 .. submitted /\ submitted \in Nat /\ n \in Nat
        /\ \A s \in 0 .. submitted : BatchesOf[s] \in Nat
        /\ \A s \in 0 .. submitted : \A t \in 0 .. s : BatchesOf[t] <= BatchesOf[s]
    BY CountsOf DEF DInv, HistoryHasType
  <2>2. CASE BatchesOf[submitted] <= n
    BY <2>1, <2>2
  <2>3. CASE \E g \in gate : ended < g /\ BatchesOf[g - 1] <= n
    <3>1. PICK g \in gate : ended < g /\ BatchesOf[g - 1] <= n
      BY <2>3
    <3>2. g - 1 \in 0 .. submitted /\ ended \in 0 .. g - 1
      BY <2>1, <3>1 DEF SInv, FileIsAwaited
    <3>3. /\ BatchesOf[ended] <= BatchesOf[g - 1]
          /\ BatchesOf[ended] \in Nat /\ BatchesOf[g - 1] \in Nat
      BY <2>1, <3>2
    <3> QED BY <2>1, <3>1, <3>3
  <2> QED BY <2>2, <2>3 DEF SInv, FileIsAwaited
<1>2. DInv => OrderIsKept
  BY DEF DInv
<1> QED BY <1>1, <1>2, SubmitTypeCorrect, RewritesAreSafe, TypesHold, DeliveriesHold, StandsHold,
           PTL DEF BatchesAreInOrder

(* An event is seen set, a fence or semaphore signalled, only when every   *)
(* batch it stands for has finished, and none of them failed.              *)
THEOREM SignalsAreTrue == Spec => []SignalsAreEarned
<1>1. TInv /\ DInv /\ SInv /\ SignalsAreSound => SetAfterItsWork /\ SignalledAfterItsWork
  <2> SUFFICES ASSUME TInv, DInv, SInv, SignalsAreSound
               PROVE  SetAfterItsWork /\ SignalledAfterItsWork
    OBVIOUS
  <2>1. SetAfterItsWork
    BY DEF SInv, HistoryIsBehind, SetAfterItsWork
  <2>2. ASSUME NEW s \in Syncs, state[s] = "signalled", work[s] # File
        PROVE  signal_at[s] <= BatchesOf[ended]
    <3>1. work[s] \in 0 .. submitted /\ signal_at[s] <= BatchesOf[work[s]] /\ work[s] <= completed
      BY <2>2 DEF SInv, HistoryIsBehind, SignalsAreSound
    <3>2. /\ ended \in 0 .. submitted /\ completed \in 0 .. ended /\ submitted \in Nat
          /\ signal_at[s] \in Nat
          /\ \A r \in 0 .. submitted : BatchesOf[r] \in Nat
          /\ \A r \in 0 .. submitted : \A t \in 0 .. r : BatchesOf[t] <= BatchesOf[r]
      BY CountsOf DEF DInv, HistoryHasType
    <3>3. work[s] \in 0 .. ended
      BY <3>1, <3>2
    <3>4. /\ BatchesOf[work[s]] <= BatchesOf[ended]
          /\ BatchesOf[work[s]] \in Nat /\ BatchesOf[ended] \in Nat
      BY <3>2, <3>3
    <3> QED BY <3>1, <3>2, <3>4
  <2> QED BY <2>1, <2>2 DEF SignalledAfterItsWork
<1>2. TInv /\ SignalsAreSound /\ [Next]_vars => SignalsAreSound'
  BY SoundProceed, SoundOthers DEF Next
<1>3. Spec => []SignalsAreSound
  BY <1>2, SoundInit, TypesHold, PTL DEF Spec
<1> QED BY <1>1, <1>3, NoSignalOfFailedWork, TypesHold, DeliveriesHold, StandsHold,
           PTL DEF SignalsAreEarned
=============================================================================
