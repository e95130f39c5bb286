----------------------------- MODULE KbaseSync ------------------------------
(***************************************************************************)
(* kbase_cpu_sync: the binary sync type that VkFence, binary VkSemaphore   *)
(* and the points of the emulated timelines stand on where there are no    *)
(* DRM syncobjs (panvk_vX_physical_device.c).                              *)
(*                                                                         *)
(* A sync holds a payload: nothing, work of the kbase queue (a seqno), an  *)
(* imported sync_file, or the fact that it is signalled.  Any number of    *)
(* threads wait.  The first to find the payload pending becomes its owner: *)
(* it waits for the work without the sync's mutex and tells the others,    *)
(* who sleep on the condition variable, how that ended.  An action is what *)
(* a thread does while it holds the mutex, or the wait it does without.    *)
(*                                                                         *)
(* The queue and the imported fences are external here: KbaseQueue is the  *)
(* model of the queue's side of the callbacks.                             *)
(*                                                                         *)
(* Right before some definitions stands a variant of them with a mistake   *)
(* in it; nothing uses it.                                                 *)
(***************************************************************************)
EXTENDS Naturals, Sequences, FiniteSets

CONSTANTS
  Syncs, Threads,
  MaxSeqno,      \* bound: submissions in a behaviour
  Fences,        \* the fences of the sync_files that are imported
  Lists          \* the lists of syncs that are waited for in one call

ASSUME SyncsAssumption == IsFiniteSet(Syncs)
ASSUME BoundsAssumption == MaxSeqno \in Nat
ASSUME FencesAssumption == "closed" \notin Fences
ASSUME ListsAssumption == \A list \in Lists : list \in Seq(Syncs) /\ list # <<>>

VARIABLES
  sync,                        \* struct kbase_cpu_sync, by sync
  cond,                        \* the threads asleep on its condition variable
  fds,                         \* the fence behind every open descriptor
  pc, call,                    \* the threads
  submitted, completed, lost,  \* the kbase queue
  fence,                       \* the imported fences
  work                         \* history: what a payload was armed with

threads == <<pc, call>>
queue == <<submitted, completed, lost>>
vars == <<sync, cond, fds, threads, queue, fence, work>>

-----------------------------------------------------------------------------
(* Data                                                                    *)

(* Every sync keeps at most one descriptor; an import opens the new one    *)
(* before it closes the old.  0: none (-1 in the code).                    *)
Fds == 1 .. Cardinality(Syncs) + 1
NoFence == "closed"

Work == [src : {"queue"}, id : 1 .. MaxSeqno] \cup [src : {"file"}, id : Fences]
NoWork == [src |-> "none", id |-> 0]

(* wait: the pending_wait callback; export: there is a pending_export;     *)
(* target: targets[0], a seqno or a descriptor; file: sync_file.  A failed *)
(* sync keeps the error (result): only the loss of the device.             *)
States == {"RESET", "PENDING", "WAITING", "SIGNALED", "FAILED"}
Sync == [state : States, wait : {"none", "queue", "file"}, export : BOOLEAN,
         target : Nat, file : {0} \cup Fds]

Fresh(state) == [state |-> state, wait |-> "none", export |-> FALSE,
                 target |-> 0, file |-> 0]

Timeouts == {"zero", "finite", "infinite"}

(* A call to wait_many (or to wait_one, or an export that has to wait).    *)
(* i: the sync it is at; wait, target: copied for the wait outside the     *)
(* mutex; result: what that wait returned.                                 *)
Call == [syncs : Seq(Syncs), i : Nat, any : BOOLEAN, pending : BOOLEAN,
         timeout : Timeouts, wait : {"none", "queue", "file"}, target : Nat,
         result : {"none", "SUCCESS", "TIMEOUT", "LOST"}]
NoCall == [syncs |-> <<>>, i |-> 1, any |-> FALSE, pending |-> FALSE,
           timeout |-> "zero", wait |-> "none", target |-> 0, result |-> "none"]

Init ==
  /\ sync \in [Syncs -> {Fresh("RESET"), Fresh("SIGNALED")}]
  /\ cond = [s \in Syncs |-> {}]
  /\ fds = [f \in Fds |-> NoFence]
  /\ pc = [t \in Threads |-> "idle"]
  /\ call = [t \in Threads |-> NoCall]
  /\ submitted = 0 /\ completed = 0 /\ lost = FALSE
  /\ fence = [f \in Fences |-> "unsignalled"]
  /\ work = [s \in Syncs |-> NoWork]

-----------------------------------------------------------------------------
(* The kbase queue and the imported fences                                 *)

QueueCompletes ==
  /\ completed < submitted
  /\ completed' = completed + 1
  /\ UNCHANGED <<sync, cond, fds, threads, submitted, lost, fence, work>>

QueueIsLost ==
  /\ ~ lost /\ lost' = TRUE
  /\ UNCHANGED <<sync, cond, fds, threads, submitted, completed, fence, work>>

FenceEnds(f) ==
  /\ fence[f] = "unsignalled"
  /\ \E st \in {"signalled", "error"} : fence' = [fence EXCEPT ![f] = st]
  /\ UNCHANGED <<sync, cond, fds, threads, queue, work>>

-----------------------------------------------------------------------------
(* What the driver and the runtime do to a sync                            *)

Uses(t, s) == pc[t] # "idle" /\ \E i \in DOMAIN call[t].syncs : call[t].syncs[i] = s

(* Vulkan's external synchronisation: a sync that is reset, moved, imported*)
(* to or destroyed is in no other call.  A signal may be armed while others*)
(* wait for one: that sync is a fence in the unsignalled state.            *)
Exclusive(s) == \A t \in Threads : ~ Uses(t, s)
MayArm(s) == Exclusive(s) \/ sync[s].state = "RESET"

Broadcast(s) == cond' = [cond EXCEPT ![s] = {}]

(* kbase_cpu_sync_drop_file: close the imported sync_file.                 *)
Dropped(s) == [f \in Fds |-> IF f = sync[s].file THEN NoFence ELSE fds[f]]

Signal(s) ==
  /\ MayArm(s)
  /\ fds' = Dropped(s)
  /\ sync' = [sync EXCEPT ![s] = [Fresh("SIGNALED") EXCEPT !.target = sync[s].target]]
  /\ Broadcast(s)
  /\ work' = [work EXCEPT ![s] = NoWork]
  /\ UNCHANGED <<threads, queue, fence>>

Reset(s) ==
  /\ Exclusive(s)
  /\ fds' = Dropped(s)
  /\ sync' = [sync EXCEPT ![s] = Fresh("RESET")]
  /\ work' = [work EXCEPT ![s] = NoWork]
  /\ UNCHANGED <<cond, threads, queue, fence>>

(* The end of a vkQueueSubmit: the signal is pending on the submission, a  *)
(* new one or, if the call had nothing to run, the latest.  The device may *)
(* have been lost since it was submitted.                                  *)
PendingOldTarget(s, q) ==
  [Fresh("PENDING") EXCEPT !.wait = "queue", !.export = TRUE,
                           !.target = sync[s].target]
Pending(s, q) ==
  [Fresh("PENDING") EXCEPT !.wait = "queue", !.export = TRUE, !.target = q]

SetPending(s) ==
  /\ MayArm(s)
  /\ \E q \in {submitted, submitted + 1} \cap 1 .. MaxSeqno :
       /\ submitted' = q
       /\ sync' = [sync EXCEPT ![s] = Pending(s, q)]
       /\ work' = [work EXCEPT ![s] = [src |-> "queue", id |-> q]]
  /\ fds' = Dropped(s)
  /\ Broadcast(s)
  /\ UNCHANGED <<threads, completed, lost, fence>>

(* The caller's sync_file is dupped to a number that is not in use (TLC's  *)
(* choice is the lowest, as the kernel's), then the sync drops the one it  *)
(* had.                                                                    *)
(* (An import of -1 is a Signal.)                                          *)
ImportFile(s) ==
  /\ Exclusive(s)
  /\ \E f \in Fences :
       LET fd == CHOOSE d \in Fds : fds[d] = NoFence
       IN /\ fds' = [Dropped(s) EXCEPT ![fd] = f]
          /\ sync' = [sync EXCEPT ![s] =
                        [Fresh("PENDING") EXCEPT !.wait = "file",
                                                 !.target = fd, !.file = fd]]
          /\ work' = [work EXCEPT ![s] = [src |-> "file", id |-> f]]
  /\ Broadcast(s)
  /\ UNCHANGED <<threads, queue, fence>>

(* dst drops what it held and takes everything from src, which is reset.   *)
MovedFromKeepsFile(src) == [Fresh("RESET") EXCEPT !.file = sync[src].file]
MovedFrom(src) == Fresh("RESET")

Move(dst, src) ==
  /\ dst # src /\ Exclusive(dst) /\ Exclusive(src)
  /\ fds' = Dropped(dst)
  /\ sync' = [sync EXCEPT ![dst] = sync[src], ![src] = MovedFrom(src)]
  /\ cond' = [cond EXCEPT ![dst] = {}, ![src] = {}]
  /\ work' = [work EXCEPT ![dst] = work[src], ![src] = NoWork]
  /\ UNCHANGED <<threads, queue, fence>>

(* The sync is destroyed, and another one is made in its place.            *)
FinishAndInit(s) ==
  /\ Exclusive(s)
  /\ fds' = Dropped(s)
  /\ \E state \in {"RESET", "SIGNALED"} :
       sync' = [sync EXCEPT ![s] = Fresh(state)]
  /\ work' = [work EXCEPT ![s] = NoWork]
  /\ UNCHANGED <<cond, threads, queue, fence>>

-----------------------------------------------------------------------------
(* kbase_cpu_sync_wait_many and kbase_cpu_sync_wait_one                    *)

Begin(t, where, c) ==
  /\ pc[t] = "idle"
  /\ pc' = [pc EXCEPT ![t] = where]
  /\ call' = [call EXCEPT ![t] = c]
  /\ UNCHANGED <<sync, cond, fds, queue, fence, work>>

StartWait(t) ==
  \E list \in Lists, any, pending \in BOOLEAN, timeout \in Timeouts :
    Begin(t, "look", [NoCall EXCEPT !.syncs = list, !.any = any,
                                    !.pending = pending, !.timeout = timeout])

Current(t) == call[t].syncs[call[t].i]

(* A wait for any of the syncs only polls each of them.                    *)
Timeout(t) == IF call[t].any THEN "zero" ELSE call[t].timeout

Goto(t, where, c) ==
  /\ pc' = [pc EXCEPT ![t] = where]
  /\ call' = [call EXCEPT ![t] = c]

Return(t) == Goto(t, "idle", NoCall)

(* wait_one returned res for the current sync: on to the next one, or out. *)
LastPlusOne(c) == c.i = Len(c.syncs) + 1
Last(c) == c.i = Len(c.syncs)

WaitOneReturns(t, res) ==
  LET c == call[t]
      next == [c EXCEPT !.i = @ + 1, !.wait = "none", !.target = 0,
                        !.result = "none"]
      done == IF c.any THEN res # "TIMEOUT" ELSE res # "SUCCESS"
  IN IF done \/ (~ c.any /\ Last(c)) THEN Return(t)
     ELSE IF Last(c) THEN Goto(t, "again", [next EXCEPT !.i = 1])
     ELSE Goto(t, "look", next)

(* wait for any: all polled in vain.                                       *)
AnyTimesOut(t) ==
  /\ pc[t] = "again" /\ call[t].timeout # "infinite"
  /\ Return(t)
  /\ UNCHANGED <<sync, cond, fds, queue, fence, work>>

AnyPollsAgain(t) ==
  /\ pc[t] = "again" /\ call[t].timeout # "zero"
  /\ Goto(t, "look", call[t])
  /\ UNCHANGED <<sync, cond, fds, queue, fence, work>>

(* With the mutex: look at the state.                                      *)
Looks(t, state) == pc[t] = "look" /\ sync[Current(t)].state = state

FindsSignaled(t) ==
  /\ \/ Looks(t, "SIGNALED")
     \/ Looks(t, "PENDING") /\ call[t].pending
  /\ WaitOneReturns(t, "SUCCESS")
  /\ UNCHANGED <<sync, cond, fds, queue, fence, work>>

FindsFailed(t) ==
  /\ Looks(t, "FAILED")
  /\ WaitOneReturns(t, "LOST")
  /\ UNCHANGED <<sync, cond, fds, queue, fence, work>>

(* A pending payload nobody waits for: own the wait.                       *)
OwnedNot(s) == sync[s]
Owned(s) == [sync[s] EXCEPT !.state = "WAITING"]

TakesOver(t) ==
  LET s == Current(t)
  IN /\ Looks(t, "PENDING") /\ ~ call[t].pending
     /\ sync' = [sync EXCEPT ![s] = Owned(s)]
     /\ Goto(t, "callback", [call[t] EXCEPT !.wait = sync[s].wait,
                                            !.target = sync[s].target])
     /\ UNCHANGED <<cond, fds, queue, fence, work>>

(* Nothing armed yet, or another thread owns the wait.                     *)
Busy(t) == Looks(t, "RESET") \/ Looks(t, "WAITING")

FindsBusy(t) ==
  /\ Busy(t) /\ Timeout(t) = "zero"
  /\ WaitOneReturns(t, "TIMEOUT")
  /\ UNCHANGED <<sync, cond, fds, queue, fence, work>>

Sleeps(t) ==
  /\ Busy(t) /\ Timeout(t) # "zero"
  /\ cond' = [cond EXCEPT ![Current(t)] = @ \cup {t}]
  /\ Goto(t, "cond", call[t])
  /\ UNCHANGED <<sync, fds, queue, fence, work>>

Wakes(t) ==
  /\ pc[t] = "cond" /\ t \notin cond[Current(t)]
  /\ Goto(t, "look", call[t])
  /\ UNCHANGED <<sync, cond, fds, queue, fence, work>>

(* A time-out is reported without another look at the state.               *)
SleepTimesOut(t) ==
  LET s == Current(t)
  IN /\ pc[t] = "cond" /\ t \in cond[s] /\ Timeout(t) = "finite"
     /\ cond' = [cond EXCEPT ![s] = @ \ {t}]
     /\ WaitOneReturns(t, "TIMEOUT")
     /\ UNCHANGED <<sync, fds, queue, fence, work>>

(* The wait without the mutex: panvk_kbase_sync_wait_cb on a seqno, or     *)
(* kbase_cpu_sync_file_wait on a descriptor.                               *)
NotYet(t) == IF Timeout(t) = "infinite" THEN {} ELSE {"TIMEOUT"}

QueueWaitResults(t) ==
  IF lost THEN {"LOST"}
  ELSE IF completed >= call[t].target THEN {"SUCCESS"} ELSE NotYet(t)

FileWaitResults(t) ==
  LET f == fds[call[t].target]
  IN IF f = NoFence THEN {"LOST"}
     ELSE CASE fence[f] = "signalled"   -> {"SUCCESS"}
            [] fence[f] = "error"       -> {"LOST"}
            [] fence[f] = "unsignalled" -> NotYet(t)

CallbackReturns(t) ==
  /\ pc[t] = "callback"
  /\ \E res \in IF call[t].wait = "queue" THEN QueueWaitResults(t)
                                          ELSE FileWaitResults(t) :
       Goto(t, "back", [call[t] EXCEPT !.result = res])
  /\ UNCHANGED <<sync, cond, fds, queue, fence, work>>

(* With the mutex again: record the result; after a time-out another       *)
(* thread may own the wait.                                                *)
AfterForgetsTimeout(c, res) ==
  CASE res = "SUCCESS" -> [c EXCEPT !.state = "SIGNALED", !.wait = "none"]
    [] res = "TIMEOUT" -> c
    [] res = "LOST"    -> [c EXCEPT !.state = "FAILED"]
AfterTimeoutIsSuccess(c, res) ==
  CASE res = "SUCCESS" -> [c EXCEPT !.state = "SIGNALED", !.wait = "none"]
    [] res = "TIMEOUT" -> [c EXCEPT !.state = "SIGNALED", !.wait = "none"]
    [] res = "LOST"    -> [c EXCEPT !.state = "FAILED"]
After(c, res) ==
  CASE res = "SUCCESS" -> [c EXCEPT !.state = "SIGNALED", !.wait = "none"]
    [] res = "TIMEOUT" -> [c EXCEPT !.state = "PENDING"]
    [] res = "LOST"    -> [c EXCEPT !.state = "FAILED"]

WakeOthersOnceDone(s, res) ==
  cond' = IF res = "TIMEOUT" THEN cond ELSE [cond EXCEPT ![s] = {}]
WakeOthers(s, res) == Broadcast(s)

OwnerReports(t) ==
  LET s == Current(t)
      res == call[t].result
  IN /\ pc[t] = "back"
     /\ sync' = [sync EXCEPT ![s] = After(sync[s], res)]
     /\ WakeOthers(s, res)
     /\ WaitOneReturns(t, res)
     /\ UNCHANGED <<fds, queue, fence, work>>

-----------------------------------------------------------------------------
(* kbase_cpu_sync_export_sync_file                                         *)

StartExport(t) ==
  \E s \in Syncs :
    Begin(t, "export", [NoCall EXCEPT !.syncs = <<s>>, !.timeout = "infinite"])

(* An imported sync_file is handed on as a dup.                            *)
ExportsFile(t) ==
  LET s == Current(t)
  IN /\ pc[t] = "export"
     /\ sync[s].state = "PENDING" /\ sync[s].file # 0
     /\ Return(t)
     /\ UNCHANGED <<sync, cond, fds, queue, fence, work>>

(* Work of the queue becomes a fence, without the mutex.                   *)
ExportsWork(t) ==
  LET s == Current(t)
  IN /\ pc[t] = "export"
     /\ sync[s].state = "PENDING" /\ sync[s].file = 0 /\ sync[s].export
     /\ Goto(t, "export_fn", [call[t] EXCEPT !.target = sync[s].target])
     /\ UNCHANGED <<sync, cond, fds, queue, fence, work>>

ExportReturns(t) ==
  /\ pc[t] = "export_fn"
  /\ Return(t)
  /\ UNCHANGED <<sync, cond, fds, queue, fence, work>>

(* Otherwise wait, and say that it is signalled.                           *)
ExportWaits(t) ==
  LET s == Current(t)
  IN /\ pc[t] = "export"
     /\ ~ (sync[s].state = "PENDING" /\ (sync[s].file # 0 \/ sync[s].export))
     /\ Goto(t, "look", call[t])
     /\ UNCHANGED <<sync, cond, fds, queue, fence, work>>

-----------------------------------------------------------------------------
Host ==
  \/ \E s \in Syncs :
       \/ Signal(s) \/ Reset(s) \/ SetPending(s) \/ ImportFile(s)
       \/ FinishAndInit(s)
  \/ \E dst, src \in Syncs : Move(dst, src)

ThreadStep(t) ==
  \/ AnyTimesOut(t) \/ AnyPollsAgain(t)
  \/ FindsSignaled(t) \/ FindsFailed(t) \/ TakesOver(t) \/ FindsBusy(t)
  \/ Sleeps(t) \/ Wakes(t) \/ SleepTimesOut(t)
  \/ CallbackReturns(t) \/ OwnerReports(t)
  \/ ExportsFile(t) \/ ExportsWork(t) \/ ExportReturns(t) \/ ExportWaits(t)

Next ==
  \/ QueueCompletes \/ QueueIsLost \/ (\E f \in Fences : FenceEnds(f))
  \/ Host
  \/ \E t \in Threads : StartWait(t) \/ StartExport(t) \/ ThreadStep(t)

Spec == Init /\ [][Next]_vars

(* Threads go on, and a time-out that has passed is seen the next time the *)
(* thread looks, however often it is woken in between; the queue and the   *)
(* imported fences make progress.  No call has to start, no sync has to be *)
(* armed and the device need not fail.                                     *)
Fairness ==
  /\ \A t \in Threads : /\ WF_vars(ThreadStep(t))
                        /\ SF_vars(AnyTimesOut(t)) /\ SF_vars(SleepTimesOut(t))
  /\ WF_vars(QueueCompletes)
  /\ \A f \in Fences : WF_vars(FenceEnds(f))

FairSpec == Spec /\ Fairness

-----------------------------------------------------------------------------
(* Properties                                                              *)

(* Every variable has its type.                                            *)
TypeOK ==
  /\ sync \in [Syncs -> Sync]
  /\ cond \in [Syncs -> SUBSET Threads]
  /\ fds \in [Fds -> Fences \cup {NoFence}]
  /\ pc \in [Threads -> {"idle", "look", "cond", "callback", "back", "again",
                         "export", "export_fn"}]
  /\ call \in [Threads -> Call]
  /\ \A t \in Threads : pc[t] # "idle" => call[t].i \in DOMAIN call[t].syncs
  /\ submitted \in 0 .. MaxSeqno /\ completed \in 0 .. submitted
  /\ lost \in BOOLEAN
  /\ fence \in [Fences -> {"unsignalled", "signalled", "error"}]
  /\ work \in [Syncs -> Work \cup {NoWork}]

(* A sync is in the state WAITING exactly while one thread waits for its   *)
(* payload: two would report twice, none would leave the others asleep.    *)
OneOwner ==
  \A s \in Syncs :
    LET owners == {t \in Threads : pc[t] \in {"callback", "back"} /\ Current(t) = s}
    IN IF sync[s].state = "WAITING" THEN \E t \in Threads : owners = {t}
                                    ELSE owners = {}

(* Nobody sleeps on a sync that is armed, signalled or failed: whoever     *)
(* sleeps has an owner to wake him, or waits for a signal to be armed.     *)
SleepersHaveAReason ==
  \A s \in Syncs : cond[s] # {} => sync[s].state \in {"RESET", "WAITING"}

(* The hand-over of a wait from thread to thread never leaves a sync with  *)
(* two owners, with none, or with a sleeper nobody will wake.              *)
WaitsAreHandedOver == OneOwner /\ SleepersHaveAReason

(* A pending payload is waited for, and exported, by what it was armed     *)
(* with last; a descriptor in use is open and still the imported one (the  *)
(* comment on kbase_cpu_sync_file_wait).                                   *)
StandsFor(wait, target, w) ==
  \/ wait = "queue" /\ w = [src |-> "queue", id |-> target]
  \/ wait = "file" /\ target \in Fds /\ w = [src |-> "file", id |-> fds[target]]

PayloadIsWhatWasArmed ==
  /\ \A s \in Syncs : sync[s].state \in {"PENDING", "WAITING"}
                      => StandsFor(sync[s].wait, sync[s].target, work[s])
  /\ \A t \in Threads :
       /\ pc[t] = "callback"
          => StandsFor(call[t].wait, call[t].target, work[Current(t)])
       /\ pc[t] = "export_fn"
          => StandsFor("queue", call[t].target, work[Current(t)])

(* Every open descriptor is the sync_file of one sync: none leaks, none is *)
(* closed twice.                                                           *)
DescriptorsAreOwnedOnce ==
  /\ \A f \in Fds : fds[f] # NoFence <=> \E s \in Syncs : sync[s].file = f
  /\ \A s, r \in Syncs : sync[s].file = sync[r].file /\ sync[s].file # 0 => s = r

DoneWork == [src : {"queue"}, id : 1 .. completed]
            \cup [src : {"file"}, id : {f \in Fences : fence[f] = "signalled"}]
FailedWork == (IF lost THEN [src : {"queue"}, id : 1 .. MaxSeqno] ELSE {})
              \cup [src : {"file"}, id : {f \in Fences : fence[f] = "error"}]

(* A sync is a binary payload: WAITING is a pending one somebody waits for.*)
(* It is signalled once its work is done, and failed only if it failed.    *)
Abstract(state) ==
  CASE state = "RESET" -> "reset"
    [] state \in {"PENDING", "WAITING"} -> "pending"
    [] state = "SIGNALED" -> "signalled"
    [] state = "FAILED" -> "failed"

Payloads == INSTANCE BinaryPayloads
              WITH None <- NoWork,
                   state <- [s \in Syncs |-> Abstract(sync[s].state)],
                   done <- DoneWork, broken <- FailedWork

IsABinaryPayload == Payloads!Spec

(* A call returns if it has a time-out, or once the syncs it waits for are *)
(* armed, whoever else waits for them and however impatiently.             *)
Armed(t) ==
  LET c == call[t]
  IN IF c.any
     THEN \E i \in DOMAIN c.syncs : sync[c.syncs[i]].state # "RESET"
     ELSE \A i \in DOMAIN c.syncs : sync[c.syncs[i]].state # "RESET"

EveryArmedWaitReturns ==
  \A t \in Threads :
    pc[t] # "idle" /\ (call[t].timeout # "infinite" \/ Armed(t)) ~> pc[t] = "idle"

=============================================================================
