----------------------------- MODULE KbaseQueue -----------------------------
(***************************************************************************)
(* The kbase Job Manager queue of the PanVK driver: submission of atoms,   *)
(* completion by reading kernel events, waits and sync_file exports        *)
(* (panvk_vX_gpu_queue.c, "kernel-side chaining, async completion").       *)
(*                                                                         *)
(* Any thread that needs progress (a CPU wait, an allocation short of atom *)
(* numbers) reads the completion events, one reader at a time; the mutex   *)
(* k->mtx is dropped while the reader polls and while others sleep on the  *)
(* condition variable.  An action is what a thread does between two such   *)
(* points, or one iteration of a loop it runs with the mutex held.         *)
(*                                                                         *)
(* The kernel side (katom, events, fence) is external: it is what the      *)
(* driver relies on, as the comment that opens the code states it.         *)
(*                                                                         *)
(* Right before some definitions stands a variant of them with a mistake   *)
(* in it; nothing uses it.  Put in the place of the definition, it shows   *)
(* which property notices the mistake.                                     *)
(***************************************************************************)
EXTENDS Naturals, Sequences, FiniteSets

CONSTANTS
  Atoms,        \* the atom numbers, 1 .. 255 (0: "no dependency")
  Threads,      \* the threads that call into the queue
  NoThread,     \* the mutex has no holder
  Submitter,    \* vkQueueSubmit is externally synchronised: one submitter
  MaxJobs,      \* PANVK_KBASE_MAX_CHAIN
  MaxRead,      \* events one read() returns at most (32)
  MaxSubmits,   \* bound: submissions in a behaviour
  Faults        \* the failures that may happen, a subset of FaultKinds

FaultKinds == {"gpu", "fence_wait", "no_fd", "poll", "submit"}

ASSUME AtomsAssumption == IsFiniteSet(Atoms)
ASSUME ThreadsAssumption == NoThread \notin Threads /\ Submitter \in Threads
ASSUME BoundsAssumption ==
  /\ MaxJobs \in Nat /\ MaxJobs >= 1
  /\ MaxRead \in Nat /\ MaxRead >= 1
  /\ MaxSubmits \in Nat
ASSUME FaultsAssumption == Faults \subseteq FaultKinds

VARIABLES
  (* struct panvk_kbase_jm *)
  mtx,              \* holder of k->mtx
  cnd,              \* the threads asleep on k->cnd
  atom_use, nr_free,
  subs,             \* the ring, oldest first, without its unused slots
  last_seqno, completed_seqno,
  lost, reading,
  (* the calling threads *)
  pc, call,
  (* kbase and the GPU *)
  katom,            \* the kernel's record of every atom number
  events,           \* completion events not read yet, oldest first
  fence,            \* the out-fence (sync_file) of every submission
  (* history *)
  told,             \* submissions some caller was told are finished
  broken            \* submissions with a job that failed or was cancelled

jm == <<atom_use, nr_free, subs, last_seqno, completed_seqno, lost, reading>>
threads == <<mtx, cnd, pc, call>>
kernel == <<katom, events, fence>>
history == <<told, broken>>
vars == <<jm, threads, kernel, history>>

-----------------------------------------------------------------------------
(* Data                                                                    *)

Seqnos == 1 .. MaxSubmits
Timeouts == {"zero", "finite", "infinite"}
Codes == {"DONE", "FAILED", "CANCELLED"}
Event == [atom : Atoms, code : Codes]

(* A submission in flight.  fence: an export made its out-fence; waits:    *)
(* which of its atoms is a FENCE_WAIT (k->atom_info keeps it by number).   *)
Sub == [seqno : Nat, last : Atoms, done : BOOLEAN, fence : BOOLEAN,
        atoms : SUBSET Atoms, waits : SUBSET Atoms]

(* What a thread inside a call keeps on its stack.  loop is the loop that  *)
(* called progress_locked; ev the events read and not handled yet; prog    *)
(* and failed the result and the error flag of progress_locked.            *)
Loops == {"wait", "submit", "export_alloc"}
Call == [seqno : Nat, timeout : Timeouts, nr_jobs : Nat, wait_fd : BOOLEAN,
         loop : Loops, ev : Seq(Event), prog : BOOLEAN, failed : BOOLEAN]
NoCall == [seqno |-> 0, timeout |-> "zero", nr_jobs |-> 0, wait_fd |-> FALSE,
           loop |-> "wait", ev |-> <<>>, prog |-> TRUE, failed |-> FALSE]

(* A kernel atom.  live: submitted and not ended; ended: its event waits   *)
(* to be read; unused: the number can be submitted (code: how it ended     *)
(* last).  order, data: the dependencies not met yet; bad: a DATA          *)
(* dependency failed; quiet: EVENT_ONLY_ON_FAILURE; sub: the submission it *)
(* works for.                                                              *)
KAtom == [st : {"unused", "live", "ended"},
          kind : {"JOB", "FENCE_WAIT", "FENCE_TRIGGER", "DEP"},
          order : SUBSET Atoms, data : SUBSET Atoms, bad : BOOLEAN,
          quiet : BOOLEAN, code : Codes, sub : Nat]

KNew(kind, order, data, quiet, s) ==
  [st |-> "live", kind |-> kind, order |-> order, data |-> data,
   bad |-> FALSE, quiet |-> quiet, code |-> "DONE", sub |-> s]

KUnused(code) == [KNew("DEP", {}, {}, FALSE, 0) EXCEPT !.st = "unused",
                                                       !.code = code]

Live(a) == katom[a].st = "live"
Free == {a \in Atoms : atom_use[a] = "FREE"}

(* The ring never needs more slots than this: every submission in flight   *)
(* holds at least one of the atom numbers (PANVK_KBASE_MAX_SUBS).          *)
MaxSubsOffByOne == Cardinality(Atoms) - 1
MaxSubs == Cardinality(Atoms)

Init ==
  /\ mtx = NoThread
  /\ cnd = {}
  /\ atom_use = [a \in Atoms |-> "FREE"]
  /\ nr_free = Cardinality(Atoms)
  /\ subs = <<>>
  /\ last_seqno = 0
  /\ completed_seqno = 0
  /\ lost = FALSE
  /\ reading = FALSE
  /\ pc = [t \in Threads |-> "idle"]
  /\ call = [t \in Threads |-> NoCall]
  /\ katom = [a \in Atoms |-> KUnused("DONE")]
  /\ events = <<>>
  /\ fence = [s \in Seqnos |-> "none"]
  /\ told = {}
  /\ broken = {}

-----------------------------------------------------------------------------
(* kbase and the GPU                                                       *)

(* JOB_SUBMIT takes the atoms of new, a function from atom numbers to      *)
(* records.  A dependency on an atom that is not live any more is met, or  *)
(* has failed if it is a DATA dependency on an atom that did not end DONE. *)
Enqueued(new) ==
  LET StillLive(d) == d \in DOMAIN new \/ Live(d)
  IN [a \in Atoms |->
       IF a \notin DOMAIN new THEN katom[a]
       ELSE [new[a] EXCEPT
               !.order = {d \in @ : StillLive(d)},
               !.data  = {d \in @ : StillLive(d)},
               !.bad   = \E d \in new[a].data : /\ ~ StillLive(d)
                                                /\ katom[d].code # "DONE"]]

(* How a live atom whose dependencies are met can end.  A FENCE_WAIT ends  *)
(* when the imported fence signals, with CANCELLED if that fence failed.   *)
Outcomes(a) ==
  IF katom[a].bad THEN {"CANCELLED"}
  ELSE {"DONE"}
       \cup (IF katom[a].kind = "JOB" /\ "gpu" \in Faults
             THEN {"FAILED"} ELSE {})
       \cup (IF katom[a].kind = "FENCE_WAIT" /\ "fence_wait" \in Faults
             THEN {"CANCELLED"} ELSE {})

Ready(a) == Live(a) /\ katom[a].order = {} /\ katom[a].data = {}

EndAtom(a) ==
  /\ Ready(a)
  /\ \E code \in Outcomes(a) :
       LET silent == katom[a].quiet /\ code = "DONE"
       IN /\ katom' = [b \in Atoms |->
               IF b = a
               THEN IF silent THEN KUnused("DONE")
                    ELSE [katom[a] EXCEPT !.st = "ended", !.code = code]
               ELSE [katom[b] EXCEPT
                       !.order = @ \ {a},
                       !.data  = @ \ {a},
                       !.bad   = @ \/ (a \in katom[b].data /\ code # "DONE")]]
          /\ events' = IF silent THEN events
                       ELSE Append(events, [atom |-> a, code |-> code])
          /\ broken' = IF katom[a].kind = "JOB" /\ code # "DONE"
                       THEN broken \cup {katom[a].sub} ELSE broken
  /\ fence' = IF katom[a].kind = "FENCE_TRIGGER"
              THEN [fence EXCEPT ![katom[a].sub] = "signalled"] ELSE fence
  /\ UNCHANGED <<jm, threads, told>>

-----------------------------------------------------------------------------
(* panvk_kbase_progress_locked: wait for completions and process them      *)

Holds(t, where) == pc[t] = where /\ mtx = t

(* The call returns: mtx_unlock and out.                                   *)
Return(t) ==
  /\ mtx' = NoThread
  /\ pc' = [pc EXCEPT ![t] = "idle"]
  /\ call' = [call EXCEPT ![t] = NoCall]

(* Another thread reads: sleep until its broadcast, unless the caller only *)
(* polls.                                                                  *)
ProgressAsFollower(t) ==
  /\ reading
  /\ IF call[t].timeout = "zero"
     THEN /\ call' = [call EXCEPT ![t].prog = FALSE]
          /\ UNCHANGED <<mtx, cnd, pc>>
     ELSE /\ call' = [call EXCEPT ![t].loop = pc[t]]
          /\ cnd' = cnd \cup {t}
          /\ mtx' = NoThread
          /\ pc' = [pc EXCEPT ![t] = "cond"]
  /\ UNCHANGED reading

ProgressAsReaderToo(t) ==
  /\ reading' = TRUE
  /\ mtx' = NoThread
  /\ pc' = [pc EXCEPT ![t] = "poll"]
  /\ call' = [call EXCEPT ![t].loop = pc[t]]
  /\ UNCHANGED cnd
ProgressAsReader(t) ==
  /\ ~ reading
  /\ reading' = TRUE
  /\ mtx' = NoThread
  /\ pc' = [pc EXCEPT ![t] = "poll"]
  /\ call' = [call EXCEPT ![t].loop = pc[t]]
  /\ UNCHANGED cnd

Progress(t) ==
  /\ ProgressAsFollower(t) \/ ProgressAsReader(t)
  /\ UNCHANGED <<atom_use, nr_free, subs, last_seqno, completed_seqno, lost,
                 kernel, history>>

(* u_cnd_monotonic_timedwait returns with the mutex.  Woken by a broadcast *)
(* or, as POSIX allows, spuriously: progress.  Timed out: none.            *)
CondReturn(t, progress) ==
  /\ pc[t] = "cond" /\ mtx = NoThread
  /\ mtx' = t
  /\ cnd' = cnd \ {t}
  /\ pc' = [pc EXCEPT ![t] = call[t].loop]
  /\ call' = [call EXCEPT ![t].prog = progress]
  /\ UNCHANGED <<jm, kernel, history>>

CondWoken(t) == t \notin cnd /\ CondReturn(t, TRUE)
CondSpurious(t) == t \in cnd /\ CondReturn(t, TRUE)
CondTimedOut(t) == t \in cnd /\ call[t].timeout = "finite" /\ CondReturn(t, FALSE)

(* ppoll and read, without the mutex.  read() takes up to MaxRead events,  *)
(* and the kernel lets their numbers be used again.                        *)
PollEvents(t) ==
  LET n == IF Len(events) < MaxRead THEN Len(events) ELSE MaxRead
      read == {events[i].atom : i \in 1 .. n}
  IN /\ pc[t] = "poll" /\ events # <<>>
     /\ pc' = [pc EXCEPT ![t] = "lock"]
     /\ call' = [call EXCEPT ![t].ev = SubSeq(events, 1, n),
                             ![t].prog = TRUE]
     /\ events' = SubSeq(events, n + 1, Len(events))
     /\ katom' = [a \in Atoms |-> IF a \in read THEN KUnused(katom[a].code)
                                                ELSE katom[a]]
     /\ UNCHANGED <<jm, mtx, cnd, fence, history>>

PollTimedOut(t) ==
  /\ pc[t] = "poll" /\ events = <<>> /\ call[t].timeout # "infinite"
  /\ pc' = [pc EXCEPT ![t] = "lock"]
  /\ call' = [call EXCEPT ![t].prog = FALSE]
  /\ UNCHANGED <<jm, mtx, cnd, kernel, history>>

PollFailed(t) ==
  /\ pc[t] = "poll" /\ "poll" \in Faults
  /\ pc' = [pc EXCEPT ![t] = "lock"]
  /\ call' = [call EXCEPT ![t].prog = TRUE, ![t].failed = TRUE]
  /\ UNCHANGED <<jm, mtx, cnd, kernel, history>>

(* mtx_lock: after the poll, or on entry of panvk_kbase_wait_seqno.        *)
Lock(t) ==
  /\ pc[t] \in {"lock", "enter_wait"} /\ mtx = NoThread
  /\ mtx' = t
  /\ pc' = [pc EXCEPT ![t] = IF @ = "lock" THEN "handle" ELSE "wait"]
  /\ UNCHANGED <<jm, cnd, call, kernel, history>>

-----------------------------------------------------------------------------
(* panvk_kbase_handle_event, on every event read                           *)

FreeAtomsCountOne(as) ==
  /\ atom_use' = [a \in Atoms |-> IF a \in as THEN "FREE" ELSE atom_use[a]]
  /\ nr_free' = nr_free + 1
FreeAtoms(as) ==
  /\ atom_use' = [a \in Atoms |-> IF a \in as THEN "FREE" ELSE atom_use[a]]
  /\ nr_free' = nr_free + Cardinality(as)

(* Any failure loses the device but that of a FENCE_WAIT cancelled because *)
(* the imported fence had an error.                                        *)
FatalNever(ev, waits) == FALSE
FatalEvenForImports(ev, waits) == ev.code # "DONE"
Fatal(ev, waits) ==
  /\ ev.code # "DONE"
  /\ ~ (ev.atom \in waits /\ ev.code = "CANCELLED")

HeadDone == subs # <<>> /\ Head(subs).done

(* The reader turns to its next event once the finished submissions at the *)
(* head of the ring are retired (RetireOldest).                            *)
TakeEvent(t, ev) ==
  /\ Holds(t, "handle") /\ ~ HeadDone
  /\ call[t].ev # <<>> /\ ev = Head(call[t].ev)
  /\ call' = [call EXCEPT ![t].ev = Tail(@)]
  /\ UNCHANGED <<mtx, cnd, pc, last_seqno, completed_seqno, reading, kernel, history>>

IsAuxOrSub(a) == atom_use[a] # "FREE"
IsAux(a) == atom_use[a] = "AUX"

HandleAuxEvent(t) ==
  \E ev \in Event :
    /\ TakeEvent(t, ev)
    /\ IsAux(ev.atom)
    /\ lost' = (lost \/ Fatal(ev, {}))
    /\ FreeAtoms({ev.atom})
    /\ UNCHANGED subs

(* panvk_kbase_find_sub: the submission in flight that holds the number.   *)
FindSub(a) == {i \in 1 .. Len(subs) : a \in subs[i].atoms}

(* The event that completes a submission is the one of its last atom.      *)
CompletesOnAnyEvent(sub, a) == TRUE
Completes(sub, a) == a = sub.last

HandleSubEvent(t) ==
  \E ev \in Event :
    /\ TakeEvent(t, ev)
    /\ ~ IsAux(ev.atom)
    /\ \E i \in FindSub(ev.atom) :
         /\ lost' = (lost \/ Fatal(ev, subs[i].waits))
         /\ subs' = [subs EXCEPT ![i].done = @ \/ Completes(subs[i], ev.atom)]
    /\ UNCHANGED <<atom_use, nr_free>>

HandleUnknownEvent(t) ==
  \E ev \in Event :
    /\ TakeEvent(t, ev)
    /\ ~ IsAux(ev.atom) /\ FindSub(ev.atom) = {}
    /\ UNCHANGED <<atom_use, nr_free, subs, lost>>

(* Submissions complete in order: one iteration of the loop that retires   *)
(* the finished ones at the head, which nothing can come between.          *)
DropNewest(q) == SubSeq(q, 1, Len(q) - 1)
DropOldest(q) == Tail(q)

RetireOldest(t) ==
  /\ Holds(t, "handle") /\ HeadDone
  /\ FreeAtoms(Head(subs).atoms)
  /\ completed_seqno' = Head(subs).seqno
  /\ subs' = DropOldest(subs)
  /\ UNCHANGED <<last_seqno, lost, reading, threads, kernel, history>>

(* u_cnd_monotonic_broadcast.                                              *)
BroadcastOnProgress(t) == IF call[t].prog THEN cnd' = {} ELSE UNCHANGED cnd
Broadcast(t) == cnd' = {}

(* All events handled: stop being the reader, tell the others, go back to  *)
(* the loop that called.                                                   *)
FinishProgress(t) ==
  /\ Holds(t, "handle") /\ ~ HeadDone /\ call[t].ev = <<>>
  /\ lost' = (lost \/ call[t].failed)
  /\ reading' = FALSE
  /\ Broadcast(t)
  /\ pc' = [pc EXCEPT ![t] = call[t].loop]
  /\ call' = [call EXCEPT ![t].failed = FALSE]
  /\ UNCHANGED <<mtx, atom_use, nr_free, subs, last_seqno, completed_seqno,
                 kernel, history>>

-----------------------------------------------------------------------------
(* panvk_kbase_wait_seqno                                                  *)

Begin(t, where, c) ==
  /\ pc[t] = "idle" /\ mtx = NoThread
  /\ mtx' = t
  /\ pc' = [pc EXCEPT ![t] = where]
  /\ call' = [call EXCEPT ![t] = c]
  /\ UNCHANGED <<jm, cnd, kernel, history>>

StartWait(t) ==
  \E s \in 1 .. last_seqno, timeout \in Timeouts :
    Begin(t, "wait", [NoCall EXCEPT !.seqno = s, !.timeout = timeout])

Completed(s) == completed_seqno >= s

(* VK_SUCCESS: completed, and the device was not lost in the meantime.     *)
SucceedsThoughLost(s) == Completed(s)
Succeeds(s) == Completed(s) /\ ~ lost

(* The loop ends: completed, lost or timed out, and a lost device wins.    *)
WaitReturns(t) ==
  LET s == call[t].seqno
  IN /\ Holds(t, "wait")
     /\ Completed(s) \/ lost \/ ~ call[t].prog
     /\ told' = IF Succeeds(s) THEN told \cup {s} ELSE told
     /\ Return(t)
     /\ UNCHANGED <<jm, cnd, kernel, broken>>

WaitMore(t) ==
  /\ Holds(t, "wait")
  /\ ~ Completed(call[t].seqno) /\ ~ lost /\ call[t].prog
  /\ Progress(t)

-----------------------------------------------------------------------------
(* panvk_kbase_submit_locked                                               *)

(* n job atoms and, with w, a wait for an imported sync_file.              *)
StartSubmit(t) ==
  \E n \in 0 .. MaxJobs, w \in BOOLEAN :
    /\ t = Submitter /\ last_seqno < MaxSubmits
    /\ Begin(t, "submit", [NoCall EXCEPT !.timeout = "infinite",
                                         !.nr_jobs = n, !.wait_fd = w])

NrAtoms(n, w) == n + (IF w THEN 1 ELSE 0) + (IF n = 0 THEN 1 ELSE 0)
Needed(t) == NrAtoms(call[t].nr_jobs, call[t].wait_fd)
NothingToSubmit(t) == call[t].nr_jobs = 0 /\ ~ call[t].wait_fd

(* A submission is refused once the device is lost: before it looks for    *)
(* numbers and again after a wait for them.                                *)
RefusedNever == FALSE
Refused == lost

(* Refused, or nothing to submit (the caller gets last_seqno).             *)
SubmitReturns(t) ==
  /\ Holds(t, "submit")
  /\ Refused \/ NothingToSubmit(t)
  /\ Return(t)
  /\ UNCHANGED <<jm, cnd, kernel, history>>

(* panvk_kbase_alloc_atoms waits while it is short of numbers.             *)
SubmitWaits(t) ==
  /\ Holds(t, "submit") /\ ~ Refused /\ ~ NothingToSubmit(t)
  /\ nr_free < Needed(t)
  /\ Progress(t)

(* The numbers panvk_kbase_alloc_atoms may return: n different free ones.  *)
(* The code takes the next n from a cursor that runs round the table; any  *)
(* choice is allowed here.                                                 *)
Allocations(n) ==
  {nums \in [1 .. n -> Free] : \A i, j \in 1 .. n : nums[i] = nums[j] => i = j}

(* The previous submission's last atom, while it is in flight.             *)
Prev == IF subs = <<>> THEN {} ELSE {subs[Len(subs)].last}

(* The atoms of a submission.  The FENCE_WAIT depends on nothing; the first*)
(* job has an ORDER dependency on the previous submission and on the wait, *)
(* the others a DATA dependency on the job before; only the last reports   *)
(* success.  Without a job, a DEP atom stands in for it.                   *)
FirstJobOrderNoWait(wait) == Prev
FirstJobOrder(wait) == Prev \cup wait

SubmissionAtom(nums, i, n, w) ==
  LET first == IF w THEN 2 ELSE 1
      wait == IF w THEN {nums[1]} ELSE {}
      s == last_seqno + 1
  IN IF w /\ i = 1 THEN KNew("FENCE_WAIT", {}, {}, TRUE, s)
     ELSE IF n = 0 THEN KNew("DEP", Prev \cup wait, {}, FALSE, s)
     ELSE IF i = first THEN KNew("JOB", FirstJobOrder(wait), {}, n > 1, s)
     ELSE KNew("JOB", {}, {nums[i - 1]}, i < Len(nums), s)

(* The first m atoms of a submission, by their numbers.                    *)
AtomsToSubmit(nums, m, n, w) ==
  [a \in {nums[i] : i \in 1 .. m} |->
     SubmissionAtom(nums, CHOOSE i \in 1 .. m : nums[i] = a, n, w)]

NumbersOf(nums) == {nums[i] : i \in 1 .. Len(nums)}

AllocateUncounted(nums, use) ==
  /\ atom_use' = [a \in Atoms |-> IF a \in NumbersOf(nums) THEN use ELSE atom_use[a]]
  /\ UNCHANGED nr_free
Allocate(nums, use) ==
  /\ atom_use' = [a \in Atoms |-> IF a \in NumbersOf(nums) THEN use ELSE atom_use[a]]
  /\ nr_free' = nr_free - Len(nums)

Submit(t) ==
  LET n == call[t].nr_jobs
      w == call[t].wait_fd
  IN /\ Holds(t, "submit") /\ ~ Refused /\ ~ NothingToSubmit(t)
     /\ nr_free >= Needed(t)
     /\ \E nums \in Allocations(Needed(t)) :
          /\ Allocate(nums, "SUB")
          /\ katom' = Enqueued(AtomsToSubmit(nums, Len(nums), n, w))
          /\ subs' = Append(subs,
                       [seqno |-> last_seqno + 1, last |-> nums[Len(nums)],
                        done |-> FALSE, fence |-> FALSE,
                        atoms |-> NumbersOf(nums),
                        waits |-> IF w THEN {nums[1]} ELSE {}])
     /\ last_seqno' = last_seqno + 1
     /\ Return(t)
     /\ UNCHANGED <<completed_seqno, lost, reading, cnd, events, fence, history>>

(* The ioctl fails, perhaps after some atoms: their numbers stay taken.    *)
SubmitFails(t) ==
  LET n == call[t].nr_jobs
      w == call[t].wait_fd
  IN /\ "submit" \in Faults
     /\ Holds(t, "submit") /\ ~ Refused /\ ~ NothingToSubmit(t)
     /\ nr_free >= Needed(t)
     /\ \E nums \in Allocations(Needed(t)), m \in 0 .. Needed(t) - 1 :
          /\ Allocate(nums, "SUB")
          /\ katom' = Enqueued(AtomsToSubmit(nums, m, n, w))
     /\ lost' = TRUE
     /\ Broadcast(t)
     /\ Return(t)
     /\ UNCHANGED <<subs, last_seqno, completed_seqno, reading, events, fence, history>>

-----------------------------------------------------------------------------
(* panvk_kbase_sync_export_cb                                              *)

StartExport(t) ==
  \E s \in 1 .. last_seqno :
    Begin(t, "export", [NoCall EXCEPT !.seqno = s, !.timeout = "infinite"])

(* The ring slot of submission s, while it is in flight.                   *)
SubOf(s) == subs[s - Head(subs).seqno + 1]
HasFence(s) == ~ Completed(s) /\ SubOf(s).fence

(* A lost device; or the submission is finished, and -1 says so; or its    *)
(* out-fence exists, and the caller gets a duplicate.                      *)
ExportReturns(t) ==
  LET s == call[t].seqno
  IN /\ Holds(t, "export")
     /\ lost \/ Completed(s) \/ HasFence(s)
     /\ told' = IF Succeeds(s) THEN told \cup {s} ELSE told
     /\ Return(t)
     /\ UNCHANGED <<jm, cnd, kernel, broken>>

(* No out-fence yet: allocate a number for the FENCE_TRIGGER.              *)
ExportNeedsFence(t) ==
  LET s == call[t].seqno
  IN /\ Holds(t, "export") /\ ~ lost /\ ~ Completed(s) /\ ~ HasFence(s)
     /\ pc' = [pc EXCEPT ![t] = "export_alloc"]
     /\ UNCHANGED <<mtx, cnd, call, jm, kernel, history>>

ExportAllocFails(t) ==
  /\ Holds(t, "export_alloc") /\ lost
  /\ Return(t)
  /\ UNCHANGED <<jm, cnd, kernel, history>>

ExportWaits(t) ==
  /\ Holds(t, "export_alloc") /\ ~ lost /\ nr_free < 1
  /\ Progress(t)

(* The allocation may have waited: the submission may have completed, or   *)
(* another export may have made its fence.                                 *)
OvertakenIfCompleted(s) == Completed(s)
Overtaken(s) == Completed(s) \/ HasFence(s)

HasNumber(t) == Holds(t, "export_alloc") /\ ~ lost /\ nr_free >= 1

(* The number is freed again and the loop starts over.                     *)
ExportLooksAgain(t) ==
  /\ HasNumber(t) /\ Overtaken(call[t].seqno)
  /\ pc' = [pc EXCEPT ![t] = "export"]
  /\ UNCHANGED <<mtx, cnd, call, jm, kernel, history>>

TriggerAfterOldest(s) ==
  KNew("FENCE_TRIGGER", {}, {Head(subs).last}, FALSE, s)
TriggerAtom(s) == KNew("FENCE_TRIGGER", {}, {SubOf(s).last}, FALSE, s)

ExportTrigger(t) ==
  LET s == call[t].seqno
  IN /\ HasNumber(t) /\ ~ Overtaken(s)
     /\ \E nums \in Allocations(1) :
          /\ Allocate(nums, "AUX")
          /\ katom' = Enqueued([a \in {nums[1]} |-> TriggerAtom(s)])
     /\ subs' = [subs EXCEPT ![s - Head(subs).seqno + 1].fence = TRUE]
     /\ fence' = [fence EXCEPT ![s] = "armed"]
     /\ Return(t)
     /\ UNCHANGED <<last_seqno, completed_seqno, lost, reading, cnd, events, history>>

(* The ioctl fails: the number stays taken.                                *)
ExportTriggerFails(t) ==
  /\ "submit" \in Faults
  /\ HasNumber(t) /\ ~ Overtaken(call[t].seqno)
  /\ \E nums \in Allocations(1) : Allocate(nums, "AUX")
  /\ lost' = TRUE
  /\ Broadcast(t)
  /\ Return(t)
  /\ UNCHANGED <<subs, last_seqno, completed_seqno, reading, kernel, history>>

(* kbase made no fence: the atom ends with an error, and the export falls  *)
(* back to a wait on the CPU.                                              *)
ExportNoFd(t) ==
  /\ "no_fd" \in Faults
  /\ HasNumber(t) /\ ~ Overtaken(call[t].seqno)
  /\ \E nums \in Allocations(1) :
       /\ Allocate(nums, "AUX")
       /\ katom' = [katom EXCEPT ![nums[1]] =
                      [TriggerAtom(call[t].seqno) EXCEPT
                         !.st = "ended", !.data = {}, !.code = "CANCELLED"]]
       /\ events' = Append(events, [atom |-> nums[1], code |-> "CANCELLED"])
  /\ mtx' = NoThread
  /\ pc' = [pc EXCEPT ![t] = "enter_wait"]
  /\ UNCHANGED <<subs, last_seqno, completed_seqno, lost, reading, cnd, call,
                 fence, history>>

-----------------------------------------------------------------------------
CallStep(t) ==
  \/ WaitReturns(t) \/ WaitMore(t)
  \/ SubmitReturns(t) \/ SubmitWaits(t) \/ Submit(t) \/ SubmitFails(t)
  \/ ExportReturns(t) \/ ExportNeedsFence(t) \/ ExportAllocFails(t)
  \/ ExportWaits(t) \/ ExportLooksAgain(t) \/ ExportTrigger(t)
  \/ ExportTriggerFails(t) \/ ExportNoFd(t)

ReaderStep(t) ==
  \/ PollEvents(t) \/ PollTimedOut(t) \/ PollFailed(t)
  \/ HandleAuxEvent(t) \/ HandleSubEvent(t) \/ HandleUnknownEvent(t)
  \/ RetireOldest(t) \/ FinishProgress(t)

Start(t) == StartWait(t) \/ StartSubmit(t) \/ StartExport(t)

Next ==
  \/ \E t \in Threads :
       \/ Start(t) \/ CallStep(t) \/ ReaderStep(t)
       \/ Lock(t) \/ CondWoken(t) \/ CondSpurious(t) \/ CondTimedOut(t)
  \/ \E a \in Atoms : EndAtom(a)

Spec == Init /\ [][Next]_vars

(* Threads keep running; the mutex is granted in the end to whoever keeps  *)
(* asking for it, after a poll, a wake-up or a timed-out sleep (strong     *)
(* fairness: it is not free all the time); the GPU and the imported fences *)
(* make progress.  Nothing makes a call start or a sleeper wake            *)
(* spuriously.                                                             *)
GetsMutex(t) == Lock(t) \/ CondWoken(t) \/ CondTimedOut(t)

Fairness ==
  /\ \A t \in Threads : /\ WF_vars(CallStep(t) \/ ReaderStep(t))
                        /\ SF_vars(GetsMutex(t))
  /\ WF_vars(\E a \in Atoms : EndAtom(a))

FairSpec == Spec /\ Fairness

-----------------------------------------------------------------------------
(* Properties                                                              *)

(* Every variable has its type.                                            *)
TypeOK ==
  /\ mtx \in Threads \cup {NoThread}
  /\ cnd \subseteq Threads
  /\ atom_use \in [Atoms -> {"FREE", "SUB", "AUX"}]
  /\ nr_free \in 0 .. Cardinality(Atoms)
  /\ subs \in Seq(Sub)
  /\ last_seqno \in Nat /\ completed_seqno \in Nat
  /\ lost \in BOOLEAN /\ reading \in BOOLEAN
  /\ pc \in [Threads -> {"idle", "wait", "submit", "export", "export_alloc",
                         "enter_wait", "cond", "poll", "lock", "handle"}]
  /\ call \in [Threads -> Call]
  /\ katom \in [Atoms -> KAtom]
  /\ events \in Seq(Event)
  /\ fence \in [Seqnos -> {"none", "armed", "signalled"}]
  /\ told \subseteq Nat /\ broken \subseteq Nat

(* nr_free counts the free numbers: panvk_kbase_alloc_atoms takes a free   *)
(* number by walking the table until it meets one, for ever if none is     *)
(* left.                                                                   *)
FreeCountIsExact == nr_free = Cardinality(Free)

(* The ring holds exactly the submissions completed_seqno + 1 .. last_seqno*)
(* in order: an export finds its own by the distance from the head (the    *)
(* assertion of panvk_kbase_sync_export_cb).                               *)
RingHoldsTheSeqnosInFlight ==
  /\ last_seqno = completed_seqno + Len(subs)
  /\ \A i \in 1 .. Len(subs) : subs[i].seqno = completed_seqno + i

(* No number is in two submissions, nor in one and free: an event finds    *)
(* the submission it is about.                                             *)
SubmissionsOwnTheirNumbers ==
  /\ \A i \in 1 .. Len(subs) :
       /\ subs[i].last \in subs[i].atoms
       /\ \A a \in subs[i].atoms : atom_use[a] = "SUB"
  /\ \A i, j \in 1 .. Len(subs) : i # j => subs[i].atoms \cap subs[j].atoms = {}

(* The ring has a slot for every submission that fits in the atom numbers  *)
(* (the assertion before the push in panvk_kbase_submit_locked).           *)
RingFits == Len(subs) <= MaxSubs

(* A number the driver may hand out is one the kernel lets it reuse, and   *)
(* no event for its earlier use is still to be handled: an event never     *)
(* completes the wrong submission.                                         *)
FreeNumbersAreIdle ==
  \A a \in Free :
    /\ katom[a].st = "unused"
    /\ \A t \in Threads : \A i \in DOMAIN call[t].ev : call[t].ev[i].atom # a

(* One thread reads the events at a time, and k->reading says so.          *)
OneReader ==
  LET readers == {t \in Threads : pc[t] \in {"poll", "lock", "handle"}}
  IN IF reading THEN Cardinality(readers) = 1 ELSE readers = {}

(* Nobody sleeps without a reader that will wake him: no lost wake-up when *)
(* the reader leaves on its own timeout, or fails.                         *)
SleepersHaveAReader == cnd # {} => reading

(* The shared tiler heap stays serialised: at most one job atom is free to *)
(* run, whatever failed before.                                            *)
JobsAreSerialised ==
  \A a, b \in Atoms :
    /\ Ready(a) /\ katom[a].kind = "JOB"
    /\ Ready(b) /\ katom[b].kind = "JOB"
    => a = b

(* No job may run before the imported fence its submission waits for.      *)
JobsAwaitTheirFence ==
  \A a, w \in Atoms :
    /\ Ready(a) /\ katom[a].kind = "JOB"
    /\ Live(w) /\ katom[w].kind = "FENCE_WAIT"
    => katom[w].sub # katom[a].sub

(* All the work up to submission s has ended on the GPU.                   *)
Ended(s) == \A a \in Atoms : Live(a) /\ katom[a].kind # "FENCE_TRIGGER"
                             => katom[a].sub > s

(* completed_seqno never runs ahead of the GPU.                            *)
CompletedHasEnded == Ended(completed_seqno)

(* An exported sync_file signals only after all the work up to its         *)
(* submission.                                                             *)
SignalledHasEnded == \A s \in Seqnos : fence[s] = "signalled" => Ended(s)

(* Whatever the faults and the interleaving, a caller told that a          *)
(* submission is finished was told the truth, and none of its jobs failed. *)
ToldTheTruth == \A s \in told : Ended(s) /\ s \notin broken

(* Concurrent exports share one FENCE_TRIGGER per submission.              *)
OneTriggerPerSubmission ==
  \A a, b \in Atoms :
    /\ Live(a) /\ katom[a].kind = "FENCE_TRIGGER"
    /\ Live(b) /\ katom[b].kind = "FENCE_TRIGGER"
    /\ katom[a].sub = katom[b].sub
    => a = b

(* What a failure or a race must never let the GPU do: run two jobs on one *)
(* tiler heap, run one before its fence, or trigger a fence twice.         *)
AtomsAreInOrder == JobsAreSerialised /\ JobsAwaitTheirFence /\ OneTriggerPerSubmission

(* Nothing is taken for finished too early: neither completed_seqno, nor   *)
(* an exported sync_file, nor a number that is handed out again.           *)
NothingEndsEarly == CompletedHasEnded /\ SignalledHasEnded /\ FreeNumbersAreIdle

(* The events have one reader, and whoever sleeps has one: the hand-over   *)
(* of k->reading loses no wake-up, however the reader leaves.              *)
SleepersHaveOneReader == OneReader /\ SleepersHaveAReader

(* An error of an imported fence neither loses the device nor cancels the  *)
(* work that waited for it (no other fault in the run).                    *)
ImportErrorsAreHarmless == ~ lost /\ broken = {}

(* The queue does what it promises: InOrderQueue, with the submissions the *)
(* GPU has ended read off the atoms that are still live.                   *)
EndedSubmissions ==
  LET upto == {s \in 0 .. last_seqno : Ended(s)}
  IN CHOOSE s \in upto : \A r \in upto : r <= s

Promise == INSTANCE InOrderQueue
             WITH submitted <- last_seqno, completed <- completed_seqno,
                  ended <- EndedSubmissions

KeepsItsPromise == Promise!Spec

(* Every call returns, whoever reads the events and however it leaves.     *)
EveryCallReturns == \A t \in Threads : pc[t] # "idle" ~> pc[t] = "idle"

=============================================================================
