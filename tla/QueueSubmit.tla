---------------------------- MODULE QueueSubmit -----------------------------
(***************************************************************************)
(* panvk gpu_queue_submit on the Job Manager with kbase: what vkQueueSubmit*)
(* does with the batches of its command buffers, between the job queue     *)
(* below (InOrderQueue) and the binary syncs beside it (BinaryPayloads).   *)
(*                                                                         *)
(* The batches of a call are collected on a chain, which becomes one       *)
(* submission when it is flushed: at the end of the call, when it is full, *)
(* before a batch that is on it is rewritten, and around a batch with      *)
(* event operations, which the CPU applies once that batch has finished.   *)
(* An action is what the submitting thread does between two points at      *)
(* which the GPU, a failure or another thread matters to it.               *)
(*                                                                         *)
(* Right before some definitions stands a variant of them with a mistake   *)
(* in it; nothing uses it.                                                 *)
(***************************************************************************)
EXTENDS Naturals, Sequences

CONSTANTS
  Batches,        \* the batches of the recorded command buffers
  EventBatches,   \* those that end with a SET of the event
  Syncs, NoSync,
  File,           \* the fence of an imported sync_file
  Calls,          \* what may be submitted: [batches, wait, signal]
  MaxChain,       \* PANVK_KBASE_MAX_CHAIN, in batches
  MaxSubmits,     \* bound: submissions in a behaviour
  MaxCalls,       \* bound: calls in a behaviour
  MayFail         \* what may fail: "ioctl", "job", "cache", "poll"

ASSUME EventAssumption == EventBatches \subseteq Batches
ASSUME SyncsAssumption == NoSync \notin Syncs
ASSUME FileAssumption == File \notin 1 .. MaxSubmits
ASSUME CallsAssumption ==
  \A c \in Calls : /\ c.batches \in Seq(Batches)
                   /\ c.wait \in Syncs \cup {NoSync} /\ c.signal \in Syncs \cup {NoSync}
ASSUME ChainAssumption == MaxChain \in Nat \ {0}
(* Before a batch, to rewrite it, for want of room, after it, at the end.  *)
ASSUME SubmitsAssumption ==
  /\ MaxSubmits \in Nat
  /\ \A c \in Calls : MaxSubmits >= MaxCalls * (4 * Len(c.batches) + 1)

VARIABLES
  submitted, ended, completed, lost, fence, told, broken,  \* InOrderQueue
  state, work,            \* BinaryPayloads
  file,                   \* the imported fence has ended
  chain, wait_fd,         \* k->chain: batches, imported fence
  issued, kbase_seqno,    \* of every batch
  kbase_set,              \* the event
  cache_error,            \* pan_kmod_bo_map_sync_error
  pc, call, i, seqno,     \* the submitting thread
  refused,                \* history: a call has failed, not in its wait for the imported fence
  content, gate,          \* history: batches and imported fence of a submission
  order,                  \* history: the batches in the order of the calls
  event_at, signal_at,    \* history: how much of order a SET, a signal is after
  wait_at,                \* history: batches of calls that wait for the file
  calls                   \* for the bound

queue == <<submitted, ended, completed, lost, fence, told, broken>>
payloads == <<state, work>>
batch == <<issued, kbase_seqno>>
thread == <<pc, call, i, seqno>>
history == <<refused, content, gate, order, event_at, signal_at, wait_at, calls>>
vars == <<queue, payloads, file, chain, wait_fd, batch, kbase_set, cache_error, thread, history>>

Queue == INSTANCE InOrderQueue

Fails(what) == what \in MayFail

(* Of a lost queue every wait fails, also one for work that has completed. *)
(* The wait for an imported fence fails when its descriptor cannot be      *)
(* polled, and says nothing of the queue.                                  *)
Finished == (IF lost THEN {} ELSE 1 .. completed) \cup (IF file THEN {File} ELSE {})
Unwaitable == (IF lost THEN 1 .. MaxSubmits ELSE {}) \cup (IF Fails("poll") THEN {File} ELSE {})

Payload ==
  INSTANCE BinaryPayloads WITH Work <- 1 .. MaxSubmits \cup {File}, None <- 0,
                               done <- Finished, broken <- Unwaitable

-----------------------------------------------------------------------------

NoCall == [batches |-> <<>>, wait |-> NoSync, signal |-> NoSync]

Init ==
  /\ Queue!Init
  /\ state = [s \in Syncs |-> "reset"] /\ work = [s \in Syncs |-> 0]
  /\ file = FALSE
  /\ chain = <<>> /\ wait_fd = FALSE
  /\ issued = [b \in Batches |-> FALSE] /\ kbase_seqno = [b \in Batches |-> 0]
  /\ kbase_set = FALSE
  /\ cache_error = FALSE
  /\ pc = "idle" /\ call = NoCall /\ i = 1 /\ seqno = 0
  /\ refused = FALSE
  /\ content = [s \in 1 .. MaxSubmits |-> <<>>]
  /\ gate = {}
  /\ order = <<>>
  /\ event_at = 0 /\ signal_at = [s \in Syncs |-> 0]
  /\ wait_at = {}
  /\ calls = 0

Current == call.batches[i]
HasEventOps == Current \in EventBatches
OnChain(b) == \E n \in 1 .. Len(chain) : chain[n] = b

-----------------------------------------------------------------------------
(* The start of a call                                                     *)

(* A wait is for a payload that is there; a signal goes to a sync that     *)
(* nobody armed (both are Vulkan's rules for binary semaphores).           *)
StartCall ==
  /\ pc = "idle" /\ calls < MaxCalls
  /\ \E c \in Calls :
       /\ c.wait # NoSync => state[c.wait] # "reset"
       /\ c.signal # NoSync => state[c.signal] = "reset"
       /\ call' = c
  /\ calls' = calls + 1 /\ i' = 1 /\ pc' = "cache"
  /\ UNCHANGED <<queue, payloads, file, chain, wait_fd, batch, kbase_set, cache_error, seqno,
                 refused, content, gate, order, event_at, signal_at, wait_at>>

(* The first flush of the map cache: its error, once there, stays. *)
CacheFlushed ==
  /\ pc = "cache" /\ ~cache_error
  /\ pc' = "wait"
  /\ UNCHANGED <<queue, payloads, file, chain, wait_fd, batch, kbase_set, cache_error, call, i,
                 seqno, history>>

CacheFailsOnce ==
  /\ pc = "cache" /\ (cache_error \/ Fails("cache"))
  /\ refused' = TRUE /\ pc' = "idle"
  /\ UNCHANGED <<queue, payloads, file, chain, wait_fd, batch, kbase_set, cache_error, call, i,
                 seqno, content, gate, order, event_at, signal_at, wait_at, calls>>

(* It loses the device for Vulkan and leaves the job queue alone. *)
CacheFails ==
  /\ pc = "cache" /\ (cache_error \/ Fails("cache"))
  /\ cache_error' = TRUE
  /\ refused' = TRUE /\ pc' = "idle"
  /\ UNCHANGED <<queue, payloads, file, chain, wait_fd, batch, kbase_set, call, i, seqno,
                 content, gate, order, event_at, signal_at, wait_at, calls>>

Loop == IF call.batches = <<>> THEN "final" ELSE "batch"

WaitsForFile == call.wait # NoSync /\ state[call.wait] = "pending" /\ work[call.wait] = File
Waiting == IF WaitsForFile THEN wait_at \cup {Len(order)} ELSE wait_at

(* Nothing to wait for: no semaphore, one that is signalled, or work of    *)
(* this queue, which everything submitted later runs after.                *)
WaitIsFree ==
  /\ pc = "wait"
  /\ \/ call.wait = NoSync
     \/ call.wait # NoSync /\ state[call.wait] = "signalled"
     \/ call.wait # NoSync /\ state[call.wait] = "pending" /\ work[call.wait] # File
  /\ pc' = Loop
  /\ UNCHANGED <<queue, payloads, file, chain, wait_fd, batch, kbase_set, cache_error, call, i,
                 seqno, history>>

WaitDropsFile ==
  /\ pc = "wait" /\ WaitsForFile
  /\ wait_at' = Waiting
  /\ pc' = Loop
  /\ UNCHANGED <<queue, payloads, file, chain, wait_fd, batch, kbase_set, cache_error, call, i,
                 seqno, refused, content, gate, order, event_at, signal_at, calls>>

(* An imported fence becomes part of the chain's next submission. *)
WaitTakesFile ==
  /\ pc = "wait" /\ WaitsForFile
  /\ wait_fd' = TRUE
  /\ wait_at' = Waiting
  /\ pc' = Loop
  /\ UNCHANGED <<queue, payloads, file, chain, batch, kbase_set, cache_error, call, i, seqno,
                 refused, content, gate, order, event_at, signal_at, calls>>

WaitGoesOnRegardless ==
  /\ pc = "wait" /\ call.wait # NoSync
  /\ UNCHANGED <<queue, file>>
  /\ Payload!Observe(call.wait)
  /\ pc' = Loop /\ wait_at' = Waiting
  /\ UNCHANGED <<chain, wait_fd, batch, kbase_set, cache_error, call, i, seqno,
                 refused, content, gate, order, event_at, signal_at, calls>>

RefusedByQueue == refused' = (refused \/ work[call.wait] # File)

(* Any other payload is waited for here: a descriptor that could not be    *)
(* dupped, or one that another thread is waiting for at the moment.  When  *)
(* the wait fails the call returns its error and leaves nothing behind:    *)
(* the chain is empty, and neither the queue nor the device is lost by it. *)
WaitOnCpu ==
  /\ pc = "wait" /\ call.wait # NoSync
  /\ UNCHANGED <<queue, file>>
  /\ Payload!Observe(call.wait)
  /\ \/ state'[call.wait] = "signalled" /\ pc' = Loop /\ wait_at' = Waiting /\ UNCHANGED refused
     \/ state'[call.wait] = "failed" /\ pc' = "idle" /\ RefusedByQueue /\ UNCHANGED wait_at
  /\ UNCHANGED <<chain, wait_fd, batch, kbase_set, cache_error, call, i, seqno,
                 content, gate, order, event_at, signal_at, calls>>

(* A sync whose wait has failed before, maybe on another thread: the wait  *)
(* returns that error at once, and so does the call.                       *)
WaitHasFailed ==
  /\ pc = "wait" /\ call.wait # NoSync /\ state[call.wait] = "failed"
  /\ RefusedByQueue /\ pc' = "idle"
  /\ UNCHANGED <<queue, payloads, file, chain, wait_fd, batch, kbase_set, cache_error, call, i,
                 seqno, content, gate, order, event_at, signal_at, wait_at, calls>>

-----------------------------------------------------------------------------
(* panvk_kbase_flush                                                       *)

Flushing == {"before", "evict", "room", "after", "final"}
Follows ==
  CASE pc = "before" -> "issued"
    [] pc = "evict" -> "reissue"
    [] pc = "room" -> "append"
    [] pc = "after" -> "finish"
    [] pc = "final" -> "signal"

FlushedKeepsChain ==
  /\ UNCHANGED chain /\ wait_fd' = FALSE
  /\ pc' = Follows
  /\ UNCHANGED <<payloads, file, issued, kbase_set, cache_error, call, i,
                 refused, order, event_at, signal_at, wait_at, calls>>

Flushed ==
  /\ chain' = <<>> /\ wait_fd' = FALSE
  /\ pc' = Follows
  /\ UNCHANGED <<payloads, file, issued, kbase_set, cache_error, call, i,
                 refused, order, event_at, signal_at, wait_at, calls>>

(* With nothing on the chain the newest submission stands for it. *)
FlushNothing ==
  /\ pc \in Flushing /\ ~lost
  /\ chain = <<>> /\ ~wait_fd
  /\ seqno' = submitted
  /\ Flushed
  /\ UNCHANGED <<queue, kbase_seqno, content, gate>>

FlushForgetsSeqno ==
  /\ pc \in Flushing
  /\ chain # <<>> \/ wait_fd
  /\ Queue!Submit
  /\ seqno' = submitted'
  /\ UNCHANGED kbase_seqno
  /\ content' = [content EXCEPT ![submitted'] = chain]
  /\ gate' = IF wait_fd THEN gate \cup {submitted'} ELSE gate
  /\ Flushed

FlushSubmits ==
  /\ pc \in Flushing
  /\ chain # <<>> \/ wait_fd
  /\ Queue!Submit
  /\ seqno' = submitted'
  /\ kbase_seqno' = [b \in Batches |-> IF OnChain(b) THEN submitted' ELSE kbase_seqno[b]]
  /\ content' = [content EXCEPT ![submitted'] = chain]
  /\ gate' = IF wait_fd THEN gate \cup {submitted'} ELSE gate
  /\ Flushed

(* The queue is lost, or the ioctl fails and loses it. *)
FlushFails ==
  /\ pc \in Flushing
  /\ lost \/ Fails("ioctl")
  /\ Queue!Lose
  /\ seqno' = 0
  /\ chain' = <<>> /\ wait_fd' = FALSE
  /\ pc' = "error"
  /\ UNCHANGED <<payloads, file, batch, kbase_set, cache_error, call, i, history>>

-----------------------------------------------------------------------------
(* One batch: the loop of gpu_queue_submit and panvk_queue_submit_batch    *)

(* What precedes a batch with event operations is submitted first. *)
StartBatch ==
  /\ pc = "batch"
  /\ pc' = IF HasEventOps THEN "before" ELSE "issued"
  /\ UNCHANGED <<queue, payloads, file, chain, wait_fd, batch, kbase_set, cache_error, call, i,
                 seqno, history>>

(* Never rewrite a batch that is on the chain or that the GPU may run. *)
LooksAtBatch ==
  /\ pc = "issued"
  /\ pc' = CASE ~issued[Current] -> "append"
             [] issued[Current] /\ OnChain(Current) -> "evict"
             [] issued[Current] /\ ~OnChain(Current) -> "reissue"
  /\ UNCHANGED <<queue, payloads, file, chain, wait_fd, batch, kbase_set, cache_error, call, i,
                 seqno, history>>

WaitEndsUnlessLost(n, then) == ~lost /\ completed >= n /\ pc' = then

(* The end of a wait for seqno n: it fails when the queue is lost. *)
WaitEnds(n, then) ==
  \/ lost /\ pc' = "error"
  \/ ~lost /\ completed >= n /\ pc' = then

ReissueWaits ==
  /\ pc = "reissue"
  /\ WaitEnds(kbase_seqno[Current], "rewrite")
  /\ UNCHANGED <<queue, payloads, file, chain, wait_fd, batch, kbase_set, cache_error, call, i,
                 seqno, history>>

(* The job headers, fragment and tiler descriptors are reset. *)
Rewrite ==
  /\ pc = "rewrite"
  /\ pc' = "append"
  /\ UNCHANGED <<queue, payloads, file, chain, wait_fd, batch, kbase_set, cache_error, call, i,
                 seqno, history>>

ChainIsFullLate == Len(chain) > MaxChain
ChainIsFull == Len(chain) + 1 > MaxChain

(* The map cache is flushed and room made, before the batch goes on the    *)
(* chain. *)
AppendNeedsRoom ==
  /\ pc = "append" /\ ~cache_error /\ ChainIsFull
  /\ pc' = "room"
  /\ UNCHANGED <<queue, payloads, file, chain, wait_fd, batch, kbase_set, cache_error, call, i,
                 seqno, history>>

AppendBatch ==
  /\ pc = "append" /\ ~cache_error /\ ~ChainIsFull
  /\ chain' = Append(chain, Current)
  /\ issued' = [issued EXCEPT ![Current] = TRUE]
  /\ order' = Append(order, Current)
  /\ pc' = IF HasEventOps THEN "after" ELSE "next"
  /\ UNCHANGED <<queue, payloads, file, wait_fd, kbase_seqno, kbase_set, cache_error, call, i,
                 seqno, refused, content, gate, event_at, signal_at, wait_at, calls>>

AppendFails ==
  /\ pc = "append" /\ (cache_error \/ Fails("cache"))
  /\ cache_error' = TRUE
  /\ pc' = "error"
  /\ UNCHANGED <<queue, payloads, file, chain, wait_fd, batch, kbase_set, call, i, seqno,
                 history>>

FinishNeedNotEnd ==
  /\ pc = "finish"
  /\ pc' = IF lost THEN "error" ELSE "apply"
  /\ UNCHANGED <<queue, payloads, file, chain, wait_fd, batch, kbase_set, cache_error, call, i,
                 seqno, history>>

FinishIgnoresLoss ==
  /\ pc = "finish"
  /\ lost \/ completed >= seqno
  /\ pc' = "apply"
  /\ UNCHANGED <<queue, payloads, file, chain, wait_fd, batch, kbase_set, cache_error, call, i,
                 seqno, history>>

(* The waiting flush after a batch with event operations. *)
Finish ==
  /\ pc = "finish"
  /\ WaitEnds(seqno, "apply")
  /\ UNCHANGED <<queue, payloads, file, chain, wait_fd, batch, kbase_set, cache_error, call, i,
                 seqno, history>>

(* panvk_signal_event_syncobjs *)
ApplyEventOp ==
  /\ pc = "apply"
  /\ kbase_set' = TRUE
  /\ event_at' = Len(order)
  /\ pc' = "next"
  /\ UNCHANGED <<queue, payloads, file, chain, wait_fd, batch, cache_error, call, i, seqno,
                 refused, content, gate, order, signal_at, wait_at, calls>>

NextBatch ==
  /\ pc = "next"
  /\ IF i < Len(call.batches) THEN i' = i + 1 /\ pc' = "batch" ELSE UNCHANGED i /\ pc' = "final"
  /\ UNCHANGED <<queue, payloads, file, chain, wait_fd, batch, kbase_set, cache_error, call,
                 seqno, history>>

-----------------------------------------------------------------------------
(* The end of a call                                                       *)

(* The semaphore that was waited for is unsignalled again (by the runtime).*)
Consumed(st) == IF call.wait = NoSync THEN st ELSE [st EXCEPT ![call.wait] = "reset"]

SignalsNewest ==
  /\ pc = "signal"
  /\ IF call.signal = NoSync
       THEN /\ state' = Consumed(state)
            /\ UNCHANGED <<work, signal_at>>
       ELSE /\ state' = [Consumed(state) EXCEPT ![call.signal] = "pending"]
            /\ work' = [work EXCEPT ![call.signal] = completed]
            /\ signal_at' = [signal_at EXCEPT ![call.signal] = Len(order)]
  /\ pc' = "idle"
  /\ UNCHANGED <<queue, file, chain, wait_fd, batch, kbase_set, cache_error, call, i, seqno,
                 refused, content, gate, order, event_at, wait_at, calls>>

(* A signal is pending on the call's last submission; with none at all     *)
(* (seqno 0) it is raised at once.                                         *)
Signals ==
  /\ pc = "signal"
  /\ IF call.signal = NoSync
       THEN /\ state' = Consumed(state)
            /\ UNCHANGED <<work, signal_at>>
       ELSE /\ state' = [Consumed(state) EXCEPT ![call.signal] =
                           IF seqno = 0 THEN "signalled" ELSE "pending"]
            /\ work' = [work EXCEPT ![call.signal] = seqno]
            /\ signal_at' = [signal_at EXCEPT ![call.signal] = Len(order)]
  /\ pc' = "idle"
  /\ UNCHANGED <<queue, file, chain, wait_fd, batch, kbase_set, cache_error, call, i, seqno,
                 refused, content, gate, order, event_at, wait_at, calls>>

(* err_submit: the chain is emptied, the queue and the device are lost. *)
CallFails ==
  /\ pc = "error"
  /\ Queue!Lose
  /\ chain' = <<>> /\ wait_fd' = FALSE
  /\ refused' = TRUE
  /\ pc' = "idle"
  /\ UNCHANGED <<payloads, file, batch, kbase_set, cache_error, call, i, seqno,
                 content, gate, order, event_at, signal_at, wait_at, calls>>

-----------------------------------------------------------------------------
(* The others                                                              *)

Outside == <<chain, wait_fd, batch, kbase_set, cache_error, thread, history>>

(* The GPU ends the next submission, after the imported fence it waits     *)
(* for; one of its jobs may fail.                                          *)
GpuEnds ==
  /\ Queue!End
  /\ ended' \in gate => file
  /\ ~Fails("job") => broken' = broken
  /\ UNCHANGED <<payloads, file, Outside>>

EventIsReadOnly ==
  /\ Queue!Complete
  /\ UNCHANGED <<payloads, file, Outside>>

(* Some thread reads the event of a submission; of a failed one the device *)
(* is lost.                                                                *)
EventIsRead ==
  /\ completed < ended
  /\ IF completed + 1 \in broken /\ ~lost THEN Queue!Lose ELSE Queue!Complete
  /\ UNCHANGED <<payloads, file, Outside>>

(* The host looks at a sync, imports a sync_file into one, resets one that *)
(* no call uses.                                                           *)
HostWaits ==
  /\ UNCHANGED <<queue, file, Outside>>
  /\ \E s \in Syncs : Payload!Observe(s)

Unused(s) == pc = "idle" \/ (call.wait # s /\ call.signal # s)

HostImports ==
  /\ UNCHANGED <<queue, file, Outside>>
  /\ \E s \in Syncs : Unused(s) /\ state[s] = "reset" /\ Payload!Set(s, "pending", File)

HostResets ==
  /\ UNCHANGED <<queue, file, Outside>>
  /\ \E s \in Syncs : Unused(s) /\ state[s] \in {"signalled", "failed"} /\ Payload!Reset(s)

(* The imported fence ends.  With or without an error: a poll succeeds for *)
(* both, and the GPU's wait for it only orders what comes after.           *)
FileSignals ==
  /\ ~file /\ file' = TRUE
  /\ UNCHANGED <<queue, payloads, Outside>>

-----------------------------------------------------------------------------

Proceed ==
  \/ CacheFlushed \/ CacheFails
  \/ WaitIsFree \/ WaitTakesFile \/ WaitOnCpu \/ WaitHasFailed
  \/ FlushNothing \/ FlushSubmits \/ FlushFails
  \/ StartBatch \/ LooksAtBatch \/ ReissueWaits \/ Rewrite
  \/ AppendNeedsRoom \/ AppendBatch \/ AppendFails
  \/ Finish \/ ApplyEventOp \/ NextBatch
  \/ Signals \/ CallFails

Next ==
  \/ StartCall \/ Proceed
  \/ GpuEnds \/ EventIsRead
  \/ HostWaits \/ HostImports \/ HostResets \/ FileSignals

Spec == Init /\ [][Next]_vars

(* The submitting thread goes on, the GPU ends what it was given, somebody *)
(* reads the events, and the imported fence signals.                       *)
Fairness ==
  WF_vars(Proceed) /\ WF_vars(GpuEnds) /\ WF_vars(EventIsRead) /\ WF_vars(FileSignals)

FairSpec == Spec /\ Fairness

-----------------------------------------------------------------------------
(* Properties                                                              *)

TypeOK ==
  /\ submitted \in 0 .. MaxSubmits /\ ended \in 0 .. submitted /\ completed \in 0 .. ended
  /\ state \in [Syncs -> {"reset", "pending", "signalled", "failed"}]
  /\ work \in [Syncs -> 0 .. MaxSubmits \cup {File}]
  /\ chain \in Seq(Batches) /\ Len(chain) <= MaxChain
  /\ kbase_seqno \in [Batches -> 0 .. submitted]
  /\ issued \in [Batches -> BOOLEAN]
  /\ i \in 1 .. 1 + Len(call.batches)
  /\ seqno \in 0 .. submitted

InFlight(b) ==
  \/ OnChain(b)
  \/ \E s \in ended + 1 .. submitted : \E n \in 1 .. Len(content[s]) : content[s][n] = b

(* A batch is rewritten only when it is neither on the chain nor with the  *)
(* GPU, however often and in whichever call it was submitted before.       *)
NeverRewrittenInFlight == pc = "rewrite" => ~InFlight(Current)

BatchesOf[s \in 0 .. MaxSubmits] ==
  IF s = 0 THEN 0 ELSE BatchesOf[s - 1] + Len(content[s])

(* The event is seen set only when the batch that sets it, and every batch *)
(* submitted before, has finished.                                         *)
SetAfterItsWork == event_at <= BatchesOf[ended]

(* A fence or semaphore is seen signalled only when every batch of the     *)
(* call that signals it, and of the calls before, has finished.            *)
SignalledAfterItsWork ==
  \A s \in Syncs :
    state[s] = "signalled" /\ work[s] # File => signal_at[s] <= BatchesOf[ended]

(* Nobody sees a fence or semaphore signalled when a job of the work it    *)
(* stands for, or of work before, has failed.                              *)
SignalledDidNotFail ==
  \A s \in Syncs :
    state[s] = "signalled" /\ work[s] # File => \A n \in broken : work[s] < n

(* A call that waits for an imported fence has none of its batches run     *)
(* before that fence, in whichever of its submissions they went.           *)
BatchesAwaitTheFile == \A n \in wait_at : BatchesOf[ended] > n => file

(* The batches reach the GPU in the order of the calls, each once. *)
Delivered[s \in 0 .. MaxSubmits] ==
  IF s = 0 THEN <<>> ELSE Delivered[s - 1] \o content[s]

OrderIsKept == ~lost => Delivered[submitted] \o chain = order

(* Batches go to the GPU in the order of the calls, each once, behind the  *)
(* fence they wait for, and are not rewritten under it.                    *)
BatchesAreInOrder == TypeOK /\ NeverRewrittenInFlight /\ BatchesAwaitTheFile /\ OrderIsKept

(* An event, a fence or a semaphore is given only for work that was done   *)
(* and did not fail.                                                       *)
SignalsAreEarned == SetAfterItsWork /\ SignalledAfterItsWork /\ SignalledDidNotFail

(* Once the queue or the map cache has failed a call, no later call hands  *)
(* over a batch or succeeds.  A call that fails in its wait for an         *)
(* imported fence does not count: it loses neither, and calls go on.       *)
FailureIsLatched ==
  [][refused => submitted' = submitted /\ ~(pc = "signal" /\ pc' = "idle")]_vars

(* Every call returns, whatever fails on the way. *)
EveryCallReturns == pc # "idle" ~> pc = "idle"
=============================================================================
