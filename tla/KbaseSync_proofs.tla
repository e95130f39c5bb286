-------------------------- MODULE KbaseSync_proofs ---------------------------
(***************************************************************************)
(* Proofs about KbaseSync, for any number of syncs, threads, fences and    *)
(* submissions.                                                            *)
(***************************************************************************)
EXTENDS KbaseSync, FiniteSetTheorems, TLAPS

Inside == {"callback", "back"}

(* OneOwner, in the form the steps are proved about.                       *)
OwnerIsUnique ==
  /\ \A t \in Threads : pc[t] \in Inside => sync[Current(t)].state = "WAITING"
  /\ \A t, u \in Threads :
       pc[t] \in Inside /\ pc[u] \in Inside /\ Current(t) = Current(u) => t = u
  /\ \A s \in Syncs : sync[s].state = "WAITING"
                      => \E t \in Threads : pc[t] \in Inside /\ Current(t) = s

(* Who is asleep on a sync is in a call that waits for it.                 *)
SleepersAreThere ==
  \A s \in Syncs : \A t \in cond[s] : pc[t] = "cond" /\ Current(t) = s

(* The three ways to be pending come as one.                               *)
Shape(c) ==
  \/ c.wait = "queue" /\ c.export = TRUE /\ c.file = 0
  \/ c.wait = "file" /\ c.export = FALSE /\ c.file = c.target /\ c.target \in Fds
PayloadHasShape ==
  \A s \in Syncs : sync[s].state \in {"PENDING", "WAITING"} => Shape(sync[s])

(* What a thread copied for the time without the mutex is still so.        *)
CopiesAreCurrent ==
  \A t \in Threads :
    /\ pc[t] = "callback" => /\ call[t].wait = sync[Current(t)].wait
                             /\ call[t].target = sync[Current(t)].target
    /\ pc[t] = "export_fn" => sync[Current(t)].state # "RESET"
    /\ pc[t] = "back" => call[t].result # "none"

(* The inductive invariant.                                                *)
IInv ==
  /\ TypeOK
  /\ OwnerIsUnique
  /\ SleepersAreThere
  /\ SleepersHaveAReason
  /\ PayloadHasShape
  /\ PayloadIsWhatWasArmed
  /\ CopiesAreCurrent
  /\ DescriptorsAreOwnedOnce

-----------------------------------------------------------------------------
(* Lemmas on the data                                                      *)

LEMMA FdsAreNumbers == Fds \subseteq Nat /\ 0 \notin Fds
<1>1. Cardinality(Syncs) \in Nat
  BY SyncsAssumption, FS_CardinalityType
<1>. QED
  BY <1>1 DEF Fds

LEMMA FreshType == ASSUME NEW st \in States PROVE Fresh(st) \in Sync /\ Fresh(st).state = st
BY DEF Fresh, Sync

LEMMA SyncState == ASSUME IInv, NEW s \in Syncs PROVE sync[s] \in Sync
BY DEF IInv, TypeOK

LEMMA CurrentIsUsed ==
  ASSUME IInv, NEW t \in Threads, pc[t] # "idle"
  PROVE  Current(t) \in Syncs /\ Uses(t, Current(t))
<1>1. call[t].syncs \in Seq(Syncs) /\ call[t].i \in DOMAIN call[t].syncs
  BY DEF IInv, TypeOK, Call
<1>. QED
  BY <1>1 DEF Current, Uses

(* Whatever may change a sync, nobody is inside a wait or an export of it. *)
LEMMA NoneInside ==
  ASSUME IInv, NEW s \in Syncs, MayArm(s),
         NEW t \in Threads, pc[t] \in Inside \cup {"export_fn"}
  PROVE  Current(t) # s
<1>1. pc[t] # "idle"
  BY DEF Inside
<1>2. CASE Exclusive(s)
  BY <1>1, <1>2, CurrentIsUsed DEF Exclusive
<1>3. CASE sync[s].state = "RESET"
  BY <1>3 DEF Inside, IInv, OwnerIsUnique, CopiesAreCurrent
<1>. QED
  BY <1>2, <1>3 DEF MayArm

(* Nobody sleeps on a sync that is in no call.                             *)
LEMMA NoneAsleep ==
  ASSUME IInv, NEW s \in Syncs, Exclusive(s)
  PROVE  cond[s] = {}
<1>1. SUFFICES ASSUME NEW t \in cond[s] PROVE FALSE
  OBVIOUS
<1>2. t \in Threads /\ pc[t] = "cond" /\ Current(t) = s
  BY DEF IInv, TypeOK, SleepersAreThere
<1>. QED
  BY <1>2, CurrentIsUsed DEF Exclusive

-----------------------------------------------------------------------------
(* Lemmas on the descriptors                                               *)

LEMMA DroppedIsOwned ==
  ASSUME IInv, NEW s \in Syncs
  PROVE  /\ Dropped(s) \in [Fds -> Fences \cup {NoFence}]
         /\ \A f \in Fds : Dropped(s)[f] # NoFence
                           <=> \E r \in Syncs \ {s} : sync[r].file = f
         /\ \A r \in Syncs \ {s} : sync[r].file # 0
                                   => Dropped(s)[sync[r].file] = fds[sync[r].file]
         /\ \A f \in Fds : f # sync[s].file => Dropped(s)[f] = fds[f]
<1>1. fds \in [Fds -> Fences \cup {NoFence}]
  BY DEF IInv, TypeOK
<1>2. \A f \in Fds : Dropped(s)[f] = IF f = sync[s].file THEN NoFence ELSE fds[f]
  BY DEF Dropped
<1>3. ASSUME NEW f \in Fds
      PROVE  Dropped(s)[f] # NoFence <=> \E r \in Syncs \ {s} : sync[r].file = f
  BY <1>2, FdsAreNumbers DEF IInv, DescriptorsAreOwnedOnce
<1>4. ASSUME NEW r \in Syncs \ {s}, sync[r].file # 0
      PROVE  Dropped(s)[sync[r].file] = fds[sync[r].file]
  <2>1. sync[r].file \in Fds
    BY <1>4, SyncState DEF Sync
  <2>2. sync[r].file # sync[s].file
    BY <1>4 DEF IInv, DescriptorsAreOwnedOnce
  <2>. QED
    BY <1>2, <2>1, <2>2
<1>5. Dropped(s) \in [Fds -> Fences \cup {NoFence}]
  BY <1>1 DEF Dropped
<1>. QED
  BY <1>2, <1>3, <1>4, <1>5

(* A number is free for an import: every sync keeps one open at most.      *)
LEMMA FdIsFree == ASSUME IInv PROVE \E d \in Fds : fds[d] = NoFence
<1>. SUFFICES ASSUME \A d \in Fds : fds[d] # NoFence PROVE FALSE
  OBVIOUS
<1>. DEFINE f == [d \in Fds |-> CHOOSE s \in Syncs : sync[s].file = d]
<1>1. \A d \in Fds : f[d] \in Syncs /\ sync[f[d]].file = d
  BY DEF IInv, DescriptorsAreOwnedOnce
<1>2. f \in [Fds -> Syncs]
  BY <1>1
<1>3. Cardinality(Syncs) \in Nat
  BY SyncsAssumption, FS_CardinalityType
<1>4. IsFiniteSet(Fds) /\ Cardinality(Fds) = Cardinality(Syncs) + 1
  BY <1>3, FS_Interval DEF Fds
<1>5. Cardinality(Syncs) < Cardinality(Fds)
  BY <1>3, <1>4
<1>. HIDE DEF f
<1>6. \E d, e \in Fds : d # e /\ f[d] = f[e]
  BY <1>2, <1>4, <1>5, SyncsAssumption, FS_PigeonHole
<1>. QED
  BY <1>1, <1>6

-----------------------------------------------------------------------------
(* The syncs of C are changed, by who may change them, and no thread moves.*)
LEMMA HostStep ==
  ASSUME IInv, UNCHANGED threads, NEW C \in SUBSET Syncs,
         \A s \in C, t \in Threads : pc[t] \in Inside \cup {"export_fn"} => Current(t) # s,
         \A s \in Syncs \ C : /\ sync'[s] = sync[s] /\ work'[s] = work[s]
                              /\ cond'[s] = cond[s]
                              /\ sync[s].file # 0 => fds'[sync[s].file] = fds[sync[s].file],
         \A s \in C : /\ cond'[s] \subseteq cond[s]
                      /\ cond'[s] # {} => sync'[s].state = "RESET"
                      /\ sync'[s].state # "WAITING"
                      /\ sync'[s].state = "PENDING"
                         => /\ Shape(sync'[s])
                            /\ StandsFor(sync[s].wait, sync[s].target, work[s])'
  PROVE  /\ OwnerIsUnique' /\ SleepersAreThere' /\ SleepersHaveAReason'
         /\ PayloadHasShape' /\ PayloadIsWhatWasArmed' /\ CopiesAreCurrent'
<1>1. pc' = pc /\ call' = call /\ \A t \in Threads : Current(t)' = Current(t)
  BY DEF threads, Current
<1>2. \A t \in Threads : pc[t] \in Inside \cup {"export_fn"} => Current(t) \in Syncs \ C
  BY CurrentIsUsed DEF Inside
<1>3. OwnerIsUnique'
  <2>1. \A t \in Threads : pc'[t] \in Inside => sync'[Current(t)'].state = "WAITING"
    BY <1>1, <1>2 DEF IInv, OwnerIsUnique
  <2>2. ASSUME NEW s \in Syncs, sync'[s].state = "WAITING"
        PROVE  \E t \in Threads : pc'[t] \in Inside /\ Current(t)' = s
    <3>1. s \in Syncs \ C /\ sync[s].state = "WAITING"
      BY <2>2
    <3>. QED
      BY <1>1, <3>1 DEF IInv, OwnerIsUnique
  <2>3. \A t, u \in Threads :
          pc'[t] \in Inside /\ pc'[u] \in Inside /\ Current(t)' = Current(u)' => t = u
    BY <1>1 DEF IInv, OwnerIsUnique
  <2>. QED
    BY <2>1, <2>2, <2>3 DEF OwnerIsUnique
<1>4. SleepersAreThere'
  <2>. SUFFICES ASSUME NEW s \in Syncs, NEW t \in cond'[s]
                PROVE  pc'[t] = "cond" /\ Current(t)' = s
    BY DEF SleepersAreThere
  <2>1. t \in cond[s] /\ t \in Threads
    BY DEF IInv, TypeOK
  <2>. QED
    BY <1>1, <2>1 DEF IInv, SleepersAreThere
<1>5. SleepersHaveAReason'
  BY DEF IInv, SleepersHaveAReason
<1>6. PayloadHasShape'
  BY DEF IInv, PayloadHasShape
<1>7. CopiesAreCurrent'
  <2>. SUFFICES ASSUME NEW t \in Threads
                PROVE  /\ pc'[t] = "callback" => /\ call'[t].wait = sync'[Current(t)'].wait
                                                 /\ call'[t].target = sync'[Current(t)'].target
                       /\ pc'[t] = "export_fn" => sync'[Current(t)'].state # "RESET"
                       /\ pc'[t] = "back" => call'[t].result # "none"
    BY DEF CopiesAreCurrent
  <2>1. CASE pc[t] \in Inside \cup {"export_fn"}
    BY <1>1, <1>2, <2>1 DEF IInv, CopiesAreCurrent
  <2>2. CASE pc[t] \notin Inside \cup {"export_fn"}
    BY <1>1, <2>2 DEF Inside
  <2>. QED
    BY <2>1, <2>2
<1>8. PayloadIsWhatWasArmed'
  <2>1. ASSUME NEW s \in Syncs, sync'[s].state \in {"PENDING", "WAITING"}
        PROVE  StandsFor(sync[s].wait, sync[s].target, work[s])'
    <3>1. CASE s \in C
      BY <2>1, <3>1
    <3>2. CASE s \in Syncs \ C
      <4>1. StandsFor(sync[s].wait, sync[s].target, work[s]) /\ Shape(sync[s])
        BY <2>1, <3>2 DEF IInv, PayloadIsWhatWasArmed, PayloadHasShape
      <4>. QED
        BY <3>2, <4>1, FdsAreNumbers DEF StandsFor, Shape
    <3>. QED
      BY <3>1, <3>2
  <2>2. ASSUME NEW t \in Threads, pc'[t] = "callback"
        PROVE  StandsFor(call[t].wait, call[t].target, work[Current(t)])'
    <3>1. /\ Current(t)' = Current(t) /\ Current(t) \in Syncs
          /\ sync'[Current(t)].state = "WAITING"
          /\ call'[t].wait = sync'[Current(t)].wait
          /\ call'[t].target = sync'[Current(t)].target
      BY <1>1, <1>2, <1>3, <1>7, <2>2 DEF OwnerIsUnique, CopiesAreCurrent, Inside
    <3>2. StandsFor(sync[Current(t)].wait, sync[Current(t)].target, work[Current(t)])'
      BY <2>1, <3>1
    <3>. QED
      BY <3>1, <3>2 DEF StandsFor
  <2>3. ASSUME NEW t \in Threads, pc'[t] = "export_fn"
        PROVE  StandsFor("queue", call[t].target, work[Current(t)])'
    <3>1. pc[t] = "export_fn" /\ Current(t)' = Current(t) /\ Current(t) \in Syncs \ C
      BY <1>1, <1>2, <2>3
    <3>2. StandsFor("queue", call[t].target, work[Current(t)])
      BY <3>1 DEF IInv, PayloadIsWhatWasArmed
    <3>. QED
      BY <1>1, <3>1, <3>2 DEF StandsFor
  <2>. QED
    BY <2>1, <2>2, <2>3 DEF PayloadIsWhatWasArmed
<1>. QED
  BY <1>3, <1>4, <1>5, <1>6, <1>7, <1>8

-----------------------------------------------------------------------------
(* The host's operations                                                   *)

(* The sync gives up its descriptor, and has none.                         *)
LEMMA ForgetsFile ==
  ASSUME IInv, NEW s \in Syncs, NEW new, new.file = 0,
         fds' = Dropped(s), sync' = [sync EXCEPT ![s] = new]
  PROVE  DescriptorsAreOwnedOnce'
<1>1. sync'[s].file = 0 /\ \A r \in Syncs \ {s} : sync'[r] = sync[r]
  BY DEF IInv, TypeOK
<1>2. \A f \in Fds : fds'[f] # NoFence <=> \E r \in Syncs \ {s} : sync[r].file = f
  BY DroppedIsOwned
<1>3. \A f \in Fds : fds'[f] # NoFence <=> \E r \in Syncs : sync'[r].file = f
  BY <1>1, <1>2, FdsAreNumbers
<1>. QED
  BY <1>1, <1>3 DEF IInv, DescriptorsAreOwnedOnce

(* Signal, Reset, SetPending, FinishAndInit: s gets a new content without a*)
(* descriptor.                                                             *)
LEMMA SetKeepsIInv ==
  ASSUME IInv, NEW s \in Syncs, MayArm(s), UNCHANGED threads,
         NEW new \in Sync, NEW w \in Work \cup {NoWork},
         new.file = 0, new.state # "WAITING",
         new.state = "PENDING" => Shape(new) /\ w = [src |-> "queue", id |-> new.target],
         fds' = Dropped(s), sync' = [sync EXCEPT ![s] = new],
         work' = [work EXCEPT ![s] = w],
         \/ cond' = [cond EXCEPT ![s] = {}]
         \/ cond' = cond /\ (cond[s] = {} \/ new.state = "RESET"),
         submitted' \in 0 .. MaxSeqno, submitted <= submitted',
         UNCHANGED <<completed, lost, fence>>
  PROVE  IInv'
<1>1. /\ sync'[s] = new /\ work'[s] = w
      /\ cond'[s] \in {{}, cond[s]} /\ (cond'[s] # {} => new.state = "RESET")
      /\ \A r \in Syncs \ {s} : /\ sync'[r] = sync[r] /\ work'[r] = work[r]
                                /\ cond'[r] = cond[r]
  BY DEF IInv, TypeOK
<1>2. \A t \in Threads : pc[t] \in Inside \cup {"export_fn"} => Current(t) # s
  BY NoneInside
<1>3. \A r \in Syncs \ {s} : sync[r].file # 0 => fds'[sync[r].file] = fds[sync[r].file]
  BY DroppedIsOwned
<1>4. new.state = "PENDING"
      => Shape(sync'[s]) /\ StandsFor(sync[s].wait, sync[s].target, work[s])'
  BY <1>1, FdsAreNumbers DEF StandsFor, Shape
<1>5. /\ OwnerIsUnique' /\ SleepersAreThere' /\ SleepersHaveAReason'
      /\ PayloadHasShape' /\ PayloadIsWhatWasArmed' /\ CopiesAreCurrent'
  <2>. DEFINE C == {s}
  <2>1. /\ C \in SUBSET Syncs
        /\ \A r \in C, t \in Threads : pc[t] \in Inside \cup {"export_fn"} => Current(t) # r
        /\ \A r \in Syncs \ C : /\ sync'[r] = sync[r] /\ work'[r] = work[r]
                                /\ cond'[r] = cond[r]
                                /\ sync[r].file # 0 => fds'[sync[r].file] = fds[sync[r].file]
        /\ \A r \in C : /\ cond'[r] \subseteq cond[r]
                        /\ cond'[r] # {} => sync'[r].state = "RESET"
                        /\ sync'[r].state # "WAITING"
                        /\ sync'[r].state = "PENDING"
                           => /\ Shape(sync'[r])
                              /\ StandsFor(sync[r].wait, sync[r].target, work[r])'
    BY <1>1, <1>2, <1>3, <1>4
  <2>. HIDE DEF C
  <2>. QED
    BY <2>1, HostStep
<1>6. TypeOK'
  <2>1. sync' \in [Syncs -> Sync] /\ work' \in [Syncs -> Work \cup {NoWork}]
    BY DEF IInv, TypeOK
  <2>2. cond' \in [Syncs -> SUBSET Threads]
    BY DEF IInv, TypeOK
  <2>3. fds' \in [Fds -> Fences \cup {NoFence}]
    BY DroppedIsOwned
  <2>4. completed' \in 0 .. submitted'
    BY BoundsAssumption DEF IInv, TypeOK
  <2>. QED
    BY <2>1, <2>2, <2>3, <2>4 DEF IInv, TypeOK, threads
<1>7. DescriptorsAreOwnedOnce'
  BY ForgetsFile
<1>. QED
  BY <1>5, <1>6, <1>7 DEF IInv

LEMMA SignalKeepsIInv == ASSUME IInv, NEW s \in Syncs, Signal(s) PROVE IInv'
<1>. DEFINE new == [Fresh("SIGNALED") EXCEPT !.target = sync[s].target]
<1>1. new \in Sync /\ new.file = 0 /\ new.state = "SIGNALED"
  BY SyncState DEF Fresh, Sync, States
<1>2. /\ MayArm(s) /\ UNCHANGED threads /\ fds' = Dropped(s)
      /\ sync' = [sync EXCEPT ![s] = new] /\ work' = [work EXCEPT ![s] = NoWork]
      /\ cond' = [cond EXCEPT ![s] = {}]
      /\ UNCHANGED <<submitted, completed, lost, fence>>
  BY DEF Signal, Broadcast, queue
<1>3. submitted' \in 0 .. MaxSeqno /\ submitted <= submitted'
  BY <1>2 DEF IInv, TypeOK
<1>4. NoWork \in Work \cup {NoWork}
  OBVIOUS
<1>. HIDE DEF new
<1>. QED
  BY <1>1, <1>2, <1>3, <1>4, SetKeepsIInv

(* An exclusive operation that leaves the sync fresh.                      *)
LEMMA FreshKeepsIInv ==
  ASSUME IInv, NEW s \in Syncs, Reset(s) \/ FinishAndInit(s)
  PROVE  IInv'
<1>1. PICK st \in {"RESET", "SIGNALED"} :
        /\ Exclusive(s) /\ UNCHANGED <<cond, threads, submitted, completed, lost, fence>>
        /\ fds' = Dropped(s) /\ work' = [work EXCEPT ![s] = NoWork]
        /\ sync' = [sync EXCEPT ![s] = Fresh(st)]
  BY DEF Reset, FinishAndInit, queue
<1>2. Fresh(st) \in Sync /\ Fresh(st).file = 0 /\ Fresh(st).state = st
  BY FreshType DEF Fresh, States
<1>3. cond[s] = {} /\ MayArm(s)
  BY <1>1, NoneAsleep DEF MayArm
<1>4. submitted' \in 0 .. MaxSeqno /\ submitted <= submitted'
  BY <1>1 DEF IInv, TypeOK
<1>5. NoWork \in Work \cup {NoWork}
  OBVIOUS
<1>. QED
  BY <1>1, <1>2, <1>3, <1>4, <1>5, SetKeepsIInv

LEMMA SetPendingKeepsIInv == ASSUME IInv, NEW s \in Syncs, SetPending(s) PROVE IInv'
<1>1. PICK q \in {submitted, submitted + 1} \cap 1 .. MaxSeqno :
        /\ submitted' = q /\ sync' = [sync EXCEPT ![s] = Pending(s, q)]
        /\ work' = [work EXCEPT ![s] = [src |-> "queue", id |-> q]]
  BY DEF SetPending
<1>2. /\ MayArm(s) /\ UNCHANGED <<threads, completed, lost, fence>>
      /\ fds' = Dropped(s) /\ cond' = [cond EXCEPT ![s] = {}]
  BY DEF SetPending, Broadcast
<1>3. q \in 1 .. MaxSeqno /\ q \in 0 .. MaxSeqno /\ submitted <= q /\ q \in Nat
  BY BoundsAssumption DEF IInv, TypeOK
<1>4. /\ Pending(s, q) \in Sync /\ Pending(s, q).file = 0
      /\ Pending(s, q).state = "PENDING" /\ Pending(s, q).target = q
      /\ Shape(Pending(s, q))
  BY <1>3 DEF Pending, Fresh, Sync, States, Shape
<1>5. [src |-> "queue", id |-> q] \in Work \cup {NoWork}
  BY <1>3 DEF Work
<1>6. Pending(s, q).state # "WAITING" /\ submitted' \in 0 .. MaxSeqno /\ submitted <= submitted'
  BY <1>1, <1>3, <1>4
<1>. QED
  BY <1>1, <1>2, <1>4, <1>5, <1>6, SetKeepsIInv

LEMMA ImportFileKeepsIInv == ASSUME IInv, NEW s \in Syncs, ImportFile(s) PROVE IInv'
<1>. DEFINE fd == CHOOSE d \in Fds : fds[d] = NoFence
            new == [Fresh("PENDING") EXCEPT !.wait = "file", !.target = fd, !.file = fd]
<1>1. fd \in Fds /\ fds[fd] = NoFence
  BY FdIsFree
<1>. HIDE DEF fd
<1>2. PICK f \in Fences :
        /\ fds' = [Dropped(s) EXCEPT ![fd] = f]
        /\ sync' = [sync EXCEPT ![s] = new]
        /\ work' = [work EXCEPT ![s] = [src |-> "file", id |-> f]]
  BY DEF ImportFile, fd
<1>3. Exclusive(s) /\ UNCHANGED <<threads, submitted, completed, lost, fence>>
      /\ cond' = [cond EXCEPT ![s] = {}]
  BY DEF ImportFile, Broadcast, queue
<1>4. /\ new \in Sync /\ new.state = "PENDING" /\ new.file = fd /\ Shape(new)
      /\ new.wait = "file" /\ new.target = fd
  BY <1>1, FdsAreNumbers DEF Fresh, Sync, States, Shape
<1>. HIDE DEF new
<1>5. \A r \in Syncs : sync[r].file # fd
  BY <1>1 DEF IInv, DescriptorsAreOwnedOnce
<1>6. /\ sync'[s] = new /\ work'[s] = [src |-> "file", id |-> f] /\ cond'[s] = {}
      /\ \A r \in Syncs \ {s} : /\ sync'[r] = sync[r] /\ work'[r] = work[r]
                                /\ cond'[r] = cond[r]
  BY <1>2, <1>3 DEF IInv, TypeOK
<1>7. /\ fds'[fd] = f /\ \A d \in Fds \ {fd} : fds'[d] = Dropped(s)[d]
      /\ fds' \in [Fds -> Fences \cup {NoFence}]
  BY <1>1, <1>2, DroppedIsOwned
<1>8. ASSUME NEW r \in Syncs \ {s}, sync[r].file # 0
      PROVE  fds'[sync[r].file] = fds[sync[r].file]
  <2>1. sync[r].file \in Fds \ {fd}
    BY <1>5, <1>8, SyncState DEF Sync
  <2>. QED
    BY <1>7, <1>8, <2>1, DroppedIsOwned
<1>9. StandsFor(sync[s].wait, sync[s].target, work[s])'
  BY <1>1, <1>4, <1>6, <1>7 DEF StandsFor
<1>10. /\ OwnerIsUnique' /\ SleepersAreThere' /\ SleepersHaveAReason'
       /\ PayloadHasShape' /\ PayloadIsWhatWasArmed' /\ CopiesAreCurrent'
  <2>. DEFINE C == {s}
  <2>1. \A t \in Threads : pc[t] \in Inside \cup {"export_fn"} => Current(t) # s
    BY <1>3, NoneInside DEF MayArm
  <2>2. /\ C \in SUBSET Syncs
        /\ \A r \in C, t \in Threads : pc[t] \in Inside \cup {"export_fn"} => Current(t) # r
        /\ \A r \in Syncs \ C : /\ sync'[r] = sync[r] /\ work'[r] = work[r]
                                /\ cond'[r] = cond[r]
                                /\ sync[r].file # 0 => fds'[sync[r].file] = fds[sync[r].file]
        /\ \A r \in C : /\ cond'[r] \subseteq cond[r]
                        /\ cond'[r] # {} => sync'[r].state = "RESET"
                        /\ sync'[r].state # "WAITING"
                        /\ sync'[r].state = "PENDING"
                           => /\ Shape(sync'[r])
                              /\ StandsFor(sync[r].wait, sync[r].target, work[r])'
    BY <1>4, <1>6, <1>8, <1>9, <2>1
  <2>. HIDE DEF C
  <2>. QED
    BY <1>3, <2>2, HostStep
<1>11. TypeOK'
  <2>1. [src |-> "file", id |-> f] \in Work
    BY DEF Work
  <2>2. sync' \in [Syncs -> Sync] /\ work' \in [Syncs -> Work \cup {NoWork}]
    BY <1>2, <1>4, <2>1 DEF IInv, TypeOK
  <2>3. cond' \in [Syncs -> SUBSET Threads]
    BY <1>3 DEF IInv, TypeOK
  <2>. QED
    BY <1>3, <1>7, <2>2, <2>3 DEF IInv, TypeOK, threads
<1>12. DescriptorsAreOwnedOnce'
  <2>1. ASSUME NEW d \in Fds
        PROVE  fds'[d] # NoFence <=> \E r \in Syncs : sync'[r].file = d
    <3>1. CASE d = fd
      BY <1>4, <1>6, <1>7, <3>1, FencesAssumption DEF NoFence
    <3>2. CASE d # fd
      <4>1. fds'[d] # NoFence <=> \E r \in Syncs \ {s} : sync[r].file = d
        BY <1>7, <3>2, DroppedIsOwned
      <4>. QED
        BY <1>4, <1>6, <3>2, <4>1
    <3>. QED
      BY <3>1, <3>2
  <2>2. \A r, q \in Syncs : sync'[r].file = sync'[q].file /\ sync'[r].file # 0 => r = q
    BY <1>4, <1>5, <1>6 DEF IInv, DescriptorsAreOwnedOnce
  <2>. QED
    BY <2>1, <2>2 DEF DescriptorsAreOwnedOnce
<1>. QED
  BY <1>10, <1>11, <1>12 DEF IInv

LEMMA MoveKeepsIInv == ASSUME IInv, NEW dst \in Syncs, NEW src \in Syncs, Move(dst, src) PROVE IInv'
<1>1. /\ dst # src /\ Exclusive(dst) /\ Exclusive(src)
      /\ UNCHANGED <<threads, submitted, completed, lost, fence>>
      /\ fds' = Dropped(dst)
      /\ sync' = [sync EXCEPT ![dst] = sync[src], ![src] = Fresh("RESET")]
      /\ cond' = [cond EXCEPT ![dst] = {}, ![src] = {}]
      /\ work' = [work EXCEPT ![dst] = work[src], ![src] = NoWork]
  BY DEF Move, MovedFrom, queue
<1>2. /\ sync'[dst] = sync[src] /\ work'[dst] = work[src] /\ cond'[dst] = {}
      /\ sync'[src] = Fresh("RESET") /\ work'[src] = NoWork /\ cond'[src] = {}
      /\ \A r \in Syncs \ {dst, src} : /\ sync'[r] = sync[r] /\ work'[r] = work[r]
                                       /\ cond'[r] = cond[r]
  BY <1>1 DEF IInv, TypeOK
<1>3. Fresh("RESET") \in Sync /\ Fresh("RESET").state = "RESET" /\ Fresh("RESET").file = 0
  BY FreshType DEF Fresh, States
<1>4. \A t \in Threads : pc[t] \in Inside \cup {"export_fn"} => Current(t) # dst /\ Current(t) # src
  BY <1>1, NoneInside DEF MayArm
<1>5. sync[src].state # "WAITING"
  BY <1>4 DEF IInv, OwnerIsUnique
<1>6. \A r \in Syncs \ {dst} : sync[r].file # 0 => fds'[sync[r].file] = fds[sync[r].file]
  BY <1>1, DroppedIsOwned
<1>7. ASSUME sync'[dst].state = "PENDING"
      PROVE  Shape(sync'[dst]) /\ StandsFor(sync[dst].wait, sync[dst].target, work[dst])'
  <2>1. Shape(sync[src]) /\ StandsFor(sync[src].wait, sync[src].target, work[src])
    BY <1>2, <1>7 DEF IInv, PayloadHasShape, PayloadIsWhatWasArmed
  <2>2. sync[src].wait = "file"
        => sync[src].target \in Fds /\ fds'[sync[src].target] = fds[sync[src].target]
    BY <1>1, <1>6, <2>1, FdsAreNumbers DEF Shape
  <2>. QED
    BY <1>2, <2>1, <2>2 DEF StandsFor
<1>8. /\ OwnerIsUnique' /\ SleepersAreThere' /\ SleepersHaveAReason'
      /\ PayloadHasShape' /\ PayloadIsWhatWasArmed' /\ CopiesAreCurrent'
  <2>. DEFINE C == {dst, src}
  <2>1. \A r \in C : /\ cond'[r] \subseteq cond[r]
                     /\ cond'[r] # {} => sync'[r].state = "RESET"
                     /\ sync'[r].state # "WAITING"
                     /\ sync'[r].state = "PENDING"
                        => /\ Shape(sync'[r])
                           /\ StandsFor(sync[r].wait, sync[r].target, work[r])'
    BY <1>2, <1>3, <1>5, <1>7
  <2>2. /\ C \in SUBSET Syncs
        /\ \A r \in C, t \in Threads : pc[t] \in Inside \cup {"export_fn"} => Current(t) # r
        /\ \A r \in Syncs \ C : /\ sync'[r] = sync[r] /\ work'[r] = work[r]
                                /\ cond'[r] = cond[r]
                                /\ sync[r].file # 0 => fds'[sync[r].file] = fds[sync[r].file]
    BY <1>2, <1>4, <1>6
  <2>. HIDE DEF C
  <2>. QED
    BY <1>1, <2>1, <2>2, HostStep
<1>9. TypeOK'
  <2>1. sync' \in [Syncs -> Sync] /\ work' \in [Syncs -> Work \cup {NoWork}]
    BY <1>1, <1>3 DEF IInv, TypeOK
  <2>2. cond' \in [Syncs -> SUBSET Threads]
    BY <1>1 DEF IInv, TypeOK
  <2>3. fds' \in [Fds -> Fences \cup {NoFence}]
    BY <1>1, DroppedIsOwned
  <2>. QED
    BY <1>1, <2>1, <2>2, <2>3 DEF IInv, TypeOK, threads
<1>10. DescriptorsAreOwnedOnce'
  <2>1. ASSUME NEW d \in Fds
        PROVE  fds'[d] # NoFence <=> \E r \in Syncs : sync'[r].file = d
    <3>1. fds'[d] # NoFence <=> \E r \in Syncs \ {dst} : sync[r].file = d
      BY <1>1, DroppedIsOwned
    <3>2. (\E r \in Syncs \ {dst} : sync[r].file = d)
          <=> \E r \in Syncs : sync'[r].file = d
      BY <1>1, <1>2, <1>3, FdsAreNumbers, ZenonT(60)
    <3>. QED
      BY <3>1, <3>2
  <2>2. ASSUME NEW r \in Syncs, NEW q \in Syncs,
               sync'[r].file = sync'[q].file, sync'[r].file # 0
        PROVE  r = q
    <3>. DEFINE origin(x) == IF x = dst THEN src ELSE x
    <3>1. \A x \in Syncs : sync'[x].file # 0
                          => x # src /\ sync[origin(x)].file = sync'[x].file
      BY <1>1, <1>2, <1>3
    <3>2. origin(r) \in Syncs /\ origin(q) \in Syncs
      OBVIOUS
    <3>3. origin(r) = origin(q)
      BY <2>2, <3>1, <3>2 DEF IInv, DescriptorsAreOwnedOnce
    <3>. QED
      BY <2>2, <3>1, <3>3
  <2>. QED
    BY <2>1, <2>2 DEF DescriptorsAreOwnedOnce
<1>. QED
  BY <1>8, <1>9, <1>10 DEF IInv

(* The queue and the fences go on.                                         *)
LEMMA ElsewhereKeepsIInv ==
  ASSUME IInv, UNCHANGED <<sync, cond, fds, threads, work>>,
         submitted' \in 0 .. MaxSeqno, completed' \in 0 .. submitted', lost' \in BOOLEAN,
         fence' \in [Fences -> {"unsignalled", "signalled", "error"}]
  PROVE  IInv'
<1>1. \A t \in Threads : Current(t)' = Current(t)
  BY DEF Current, threads
<1>2. TypeOK' /\ SleepersHaveAReason' /\ PayloadHasShape' /\ DescriptorsAreOwnedOnce'
  BY DEF IInv, TypeOK, threads, SleepersHaveAReason, PayloadHasShape, DescriptorsAreOwnedOnce
<1>. pc' = pc /\ call' = call
  BY DEF threads
<1>3. OwnerIsUnique' /\ SleepersAreThere' /\ CopiesAreCurrent'
  <2>1. OwnerIsUnique'
    BY <1>1 DEF IInv, OwnerIsUnique
  <2>2. SleepersAreThere'
    <3>. SUFFICES ASSUME NEW s \in Syncs, NEW t \in cond'[s]
                  PROVE  pc'[t] = "cond" /\ Current(t)' = s
      BY DEF SleepersAreThere
    <3>1. t \in cond[s] /\ t \in Threads
      BY DEF IInv, TypeOK
    <3>. QED
      BY <1>1, <3>1 DEF IInv, SleepersAreThere
  <2>3. CopiesAreCurrent'
    BY <1>1 DEF IInv, CopiesAreCurrent
  <2>. QED
    BY <2>1, <2>2, <2>3
<1>4. PayloadIsWhatWasArmed'
  BY <1>1 DEF IInv, PayloadIsWhatWasArmed, StandsFor, threads
<1>. QED
  BY <1>2, <1>3, <1>4 DEF IInv

LEMMA QueueKeepsIInv ==
  ASSUME IInv, \/ QueueCompletes \/ QueueIsLost \/ UNCHANGED vars
               \/ \E f \in Fences : FenceEnds(f)
  PROVE  IInv'
<1>1. submitted \in 0 .. MaxSeqno /\ completed \in 0 .. submitted /\ lost \in BOOLEAN
      /\ fence \in [Fences -> {"unsignalled", "signalled", "error"}]
  BY DEF IInv, TypeOK
<1>2. CASE QueueCompletes
  <2>1. completed' \in 0 .. submitted' /\ submitted' \in 0 .. MaxSeqno
    BY <1>1, <1>2, BoundsAssumption DEF QueueCompletes
  <2>. QED
    BY <1>1, <1>2, <2>1, ElsewhereKeepsIInv DEF QueueCompletes
<1>3. CASE QueueIsLost
  BY <1>1, <1>3, ElsewhereKeepsIInv DEF QueueIsLost
<1>4. CASE UNCHANGED vars
  BY <1>1, <1>4, ElsewhereKeepsIInv DEF vars, queue
<1>5. CASE \E f \in Fences : FenceEnds(f)
  <2>1. fence' \in [Fences -> {"unsignalled", "signalled", "error"}]
    BY <1>1, <1>5 DEF FenceEnds
  <2>. QED
    BY <1>1, <1>5, <2>1, ElsewhereKeepsIInv DEF FenceEnds, queue
<1>. QED
  BY <1>2, <1>3, <1>4, <1>5

-----------------------------------------------------------------------------
(* The steps of a thread                                                   *)

Places == {"idle", "look", "cond", "callback", "back", "again", "export", "export_fn"}

LEMMA GotoType ==
  ASSUME IInv, NEW t \in Threads, NEW there \in Places, NEW c \in Call,
         Goto(t, there, c), there # "idle" => c.i \in DOMAIN c.syncs
  PROVE  /\ pc' \in [Threads -> Places] /\ call' \in [Threads -> Call]
         /\ \A u \in Threads : pc'[u] # "idle" => call'[u].i \in DOMAIN call'[u].syncs
         /\ pc'[t] = there /\ call'[t] = c /\ Current(t)' = c.syncs[c.i]
         /\ \A u \in Threads \ {t} : /\ pc'[u] = pc[u] /\ call'[u] = call[u]
                                     /\ Current(u)' = Current(u)
BY DEF Goto, Current, IInv, TypeOK, Places

(* t moves to a place where it neither waits nor sleeps.                   *)
LEMMA ThreadMoves ==
  ASSUME IInv, NEW t \in Threads, NEW there \in Places \ {"callback", "back", "cond"},
         NEW c \in Call, Goto(t, there, c), pc[t] \notin Inside,
         there # "idle" => c.i \in DOMAIN c.syncs,
         there = "export_fn" => /\ sync[c.syncs[c.i]].state # "RESET"
                                /\ StandsFor("queue", c.target, work[c.syncs[c.i]]),
         cond' \in [Syncs -> SUBSET Threads],
         \A s \in Syncs : cond'[s] \subseteq cond[s] /\ t \notin cond'[s],
         UNCHANGED <<sync, fds, queue, fence, work>>
  PROVE  IInv'
<1>1. /\ pc'[t] = there /\ call'[t] = c /\ Current(t)' = c.syncs[c.i]
      /\ \A u \in Threads \ {t} : /\ pc'[u] = pc[u] /\ call'[u] = call[u]
                                  /\ Current(u)' = Current(u)
  BY GotoType
<1>2. TypeOK'
  BY GotoType DEF IInv, TypeOK, queue, Places
<1>3. OwnerIsUnique'
  <2>1. \A u \in Threads : pc'[u] \in Inside => u # t /\ pc[u] \in Inside
    BY <1>1 DEF Inside
  <2>2. \A u \in Threads : pc[u] \in Inside => u # t
    OBVIOUS
  <2>. QED
    BY <1>1, <2>1, <2>2 DEF IInv, OwnerIsUnique
<1>4. SleepersAreThere'
  <2>. SUFFICES ASSUME NEW s \in Syncs, NEW u \in cond'[s]
                PROVE  pc'[u] = "cond" /\ Current(u)' = s
    BY DEF SleepersAreThere
  <2>1. u \in cond[s] /\ u \in Threads \ {t}
    BY DEF IInv, TypeOK
  <2>. QED
    BY <1>1, <2>1 DEF IInv, SleepersAreThere
<1>5. SleepersHaveAReason' /\ PayloadHasShape' /\ DescriptorsAreOwnedOnce'
  BY DEF IInv, SleepersHaveAReason, PayloadHasShape, DescriptorsAreOwnedOnce
<1>6. CopiesAreCurrent'
  BY <1>1 DEF IInv, CopiesAreCurrent
<1>7. PayloadIsWhatWasArmed'
  BY <1>1 DEF IInv, PayloadIsWhatWasArmed, StandsFor
<1>. QED
  BY <1>2, <1>3, <1>4, <1>5, <1>6, <1>7 DEF IInv

LEMMA NoCallType == NoCall \in Call
BY DEF NoCall, Call, Timeouts

LEMMA NextCall ==
  ASSUME NEW c \in Call, NEW n \in Nat
  PROVE  LET next == [c EXCEPT !.i = n, !.wait = "none", !.target = 0, !.result = "none"]
         IN  next \in Call /\ next.syncs = c.syncs /\ next.i = n
BY DEF Call

(* wait_one returns, or the call does.                                     *)
LEMMA ReturnsSomewhere ==
  ASSUME IInv, NEW t \in Threads, pc[t] # "idle", NEW res,
         WaitOneReturns(t, res) \/ Return(t)
  PROVE  \E there \in {"idle", "look", "again"}, c \in Call :
           Goto(t, there, c) /\ (there # "idle" => c.i \in DOMAIN c.syncs)
<1>1. /\ call[t] \in Call /\ call[t].syncs \in Seq(Syncs)
      /\ call[t].i \in DOMAIN call[t].syncs
  BY DEF IInv, TypeOK, Call
<1>2. CASE Return(t)
  BY <1>2, NoCallType DEF Return
<1>3. CASE WaitOneReturns(t, res) /\ ~ Return(t)
  <2>. DEFINE next == [call[t] EXCEPT !.i = @ + 1, !.wait = "none", !.target = 0,
                                      !.result = "none"]
  <2>1. next \in Call /\ next.syncs = call[t].syncs /\ next.i = call[t].i + 1
    <3>1. call[t].i + 1 \in Nat
      BY <1>1
    <3>. QED
      BY <1>1, <3>1, NextCall
  <2>2. CASE Last(call[t])
    <3>. DEFINE first == [next EXCEPT !.i = 1]
    <3>1. first \in Call /\ first.i = 1 /\ first.syncs = call[t].syncs
      BY <2>1 DEF Call
    <3>2. first.i \in DOMAIN first.syncs
      BY <1>1, <3>1
    <3>. QED
      BY <1>3, <2>2, <3>1, <3>2 DEF WaitOneReturns
  <2>3. CASE ~ Last(call[t])
    <3>1. next.i \in DOMAIN next.syncs
      BY <1>1, <2>1, <2>3 DEF Last
    <3>. QED
      BY <1>3, <2>1, <2>3, <3>1 DEF WaitOneReturns
  <2>. QED
    BY <2>2, <2>3
<1>. QED
  BY <1>2, <1>3

LEMMA NotAsleep ==
  ASSUME IInv, NEW t \in Threads, pc[t] # "cond"
  PROVE  \A s \in Syncs : t \notin cond[s]
BY DEF IInv, SleepersAreThere

LEMMA StartKeepsIInv ==
  ASSUME IInv, NEW t \in Threads, StartWait(t) \/ StartExport(t)
  PROVE  IInv'
<1>1. PICK there \in {"look", "export"}, c \in Call :
        Begin(t, there, c) /\ c.i \in DOMAIN c.syncs
  <2>1. CASE StartWait(t)
    <3>1. PICK list \in Lists, any \in BOOLEAN, pending \in BOOLEAN, timeout \in Timeouts :
            Begin(t, "look", [NoCall EXCEPT !.syncs = list, !.any = any,
                                            !.pending = pending, !.timeout = timeout])
      BY <2>1 DEF StartWait
    <3>. DEFINE c == [NoCall EXCEPT !.syncs = list, !.any = any,
                                    !.pending = pending, !.timeout = timeout]
    <3>2. list \in Seq(Syncs) /\ list # <<>>
      BY ListsAssumption
    <3>3. c \in Call /\ c.i = 1 /\ c.syncs = list
      BY <3>2 DEF NoCall, Call
    <3>4. 1 \in DOMAIN list
      BY <3>2
    <3>. QED
      BY <3>1, <3>3, <3>4
  <2>2. CASE StartExport(t)
    <3>1. PICK s \in Syncs :
            Begin(t, "export", [NoCall EXCEPT !.syncs = <<s>>, !.timeout = "infinite"])
      BY <2>2 DEF StartExport
    <3>. DEFINE c == [NoCall EXCEPT !.syncs = <<s>>, !.timeout = "infinite"]
    <3>2. <<s>> \in Seq(Syncs) /\ 1 \in DOMAIN <<s>>
      OBVIOUS
    <3>3. c \in Call /\ c.i = 1 /\ c.syncs = <<s>>
      BY <3>2 DEF NoCall, Call, Timeouts
    <3>. QED
      BY <3>1, <3>2, <3>3
  <2>. QED
    BY <2>1, <2>2
<1>2. pc[t] = "idle" /\ Goto(t, there, c) /\ UNCHANGED <<sync, cond, fds, queue, fence, work>>
  BY <1>1 DEF Begin, Goto
<1>3. there \in Places \ {"callback", "back", "cond"} /\ there # "export_fn" /\ pc[t] \notin Inside
  BY <1>2 DEF Places, Inside
<1>4. cond' \in [Syncs -> SUBSET Threads] /\ \A s \in Syncs : t \notin cond'[s]
  BY <1>2, NotAsleep DEF IInv, TypeOK
<1>. QED
  BY <1>1, <1>2, <1>3, <1>4, ThreadMoves

(* Steps that look at a sync and change nothing of it.                     *)
LEMMA LooksKeepIInv ==
  ASSUME IInv, NEW t \in Threads,
         \/ AnyTimesOut(t) \/ AnyPollsAgain(t) \/ FindsSignaled(t) \/ FindsFailed(t)
         \/ FindsBusy(t) \/ Wakes(t) \/ SleepTimesOut(t)
         \/ ExportsFile(t) \/ ExportReturns(t) \/ ExportWaits(t)
  PROVE  IInv'
<1>1. pc[t] \in {"again", "look", "cond", "export", "export_fn"}
  BY DEF AnyTimesOut, AnyPollsAgain, FindsSignaled, FindsFailed, FindsBusy, Busy, Looks,
         Wakes, SleepTimesOut, ExportsFile, ExportReturns, ExportWaits
<1>2. UNCHANGED <<sync, fds, queue, fence, work>>
  BY DEF AnyTimesOut, AnyPollsAgain, FindsSignaled, FindsFailed, FindsBusy,
         Wakes, SleepTimesOut, ExportsFile, ExportReturns, ExportWaits
<1>3. call[t] \in Call /\ call[t].i \in DOMAIN call[t].syncs
  BY <1>1 DEF IInv, TypeOK
<1>4. PICK there \in {"idle", "look", "again"}, c \in Call :
        Goto(t, there, c) /\ (there # "idle" => c.i \in DOMAIN c.syncs)
  <2>1. CASE AnyTimesOut(t) \/ ExportsFile(t) \/ ExportReturns(t)
    BY <1>1, <2>1, ReturnsSomewhere DEF AnyTimesOut, ExportsFile, ExportReturns
  <2>2. CASE FindsSignaled(t) \/ FindsFailed(t) \/ FindsBusy(t) \/ SleepTimesOut(t)
    BY <1>1, <2>2, ReturnsSomewhere DEF FindsSignaled, FindsFailed, FindsBusy, SleepTimesOut
  <2>3. CASE AnyPollsAgain(t) \/ Wakes(t) \/ ExportWaits(t)
    BY <1>3, <2>3 DEF AnyPollsAgain, Wakes, ExportWaits
  <2>. QED
    BY <2>1, <2>2, <2>3
<1>5. /\ cond' \in [Syncs -> SUBSET Threads]
      /\ \A s \in Syncs : cond'[s] \subseteq cond[s] /\ t \notin cond'[s]
  <2>1. cond \in [Syncs -> SUBSET Threads] /\ Current(t) \in Syncs
    BY <1>1, CurrentIsUsed DEF IInv, TypeOK
  <2>2. \A s \in Syncs \ {Current(t)} : t \notin cond[s]
    BY DEF IInv, SleepersAreThere
  <2>3. CASE SleepTimesOut(t)
    <3>1. cond' = [cond EXCEPT ![Current(t)] = @ \ {t}]
      BY <2>3 DEF SleepTimesOut
    <3>. QED
      BY <2>1, <2>2, <3>1
  <2>4. CASE Wakes(t)
    BY <2>1, <2>2, <2>4 DEF Wakes
  <2>5. CASE pc[t] # "cond"
    <3>1. cond' = cond
      BY <2>5 DEF AnyTimesOut, AnyPollsAgain, FindsSignaled, FindsFailed, FindsBusy,
                  Wakes, SleepTimesOut, ExportsFile, ExportReturns, ExportWaits
    <3>. QED
      BY <2>1, <2>5, <3>1, NotAsleep
  <2>6. pc[t] = "cond" => SleepTimesOut(t) \/ Wakes(t)
    BY DEF AnyTimesOut, AnyPollsAgain, FindsSignaled, FindsFailed, FindsBusy, Busy, Looks,
           ExportsFile, ExportReturns, ExportWaits
  <2>. QED
    BY <2>3, <2>4, <2>5, <2>6
<1>6. there \in Places \ {"callback", "back", "cond"} /\ there # "export_fn"
  BY DEF Places
<1>7. pc[t] \notin Inside
  BY <1>1 DEF Inside
<1>. QED
  BY <1>2, <1>4, <1>5, <1>6, <1>7, ThreadMoves

LEMMA ExportsWorkKeepsIInv == ASSUME IInv, NEW t \in Threads, ExportsWork(t) PROVE IInv'
<1>. DEFINE s == Current(t)
            c == [call[t] EXCEPT !.target = sync[s].target]
<1>1. /\ pc[t] = "export" /\ sync[s].state = "PENDING" /\ sync[s].file = 0
      /\ sync[s].export /\ Goto(t, "export_fn", c)
      /\ UNCHANGED <<sync, cond, fds, queue, fence, work>>
  BY DEF ExportsWork
<1>2. s \in Syncs /\ sync[s] \in Sync
  BY <1>1, CurrentIsUsed, SyncState
<1>3. call[t] \in Call /\ call[t].i \in DOMAIN call[t].syncs
  BY <1>1 DEF IInv, TypeOK
<1>4. c \in Call /\ c.target = sync[s].target /\ c.syncs = call[t].syncs /\ c.i = call[t].i
  BY <1>2, <1>3 DEF Call, Sync
<1>5. c.i \in DOMAIN c.syncs /\ c.syncs[c.i] = s
  BY <1>3, <1>4 DEF Current
<1>6. sync[s].wait = "queue" /\ StandsFor("queue", sync[s].target, work[s])
  <2>1. Shape(sync[s]) /\ StandsFor(sync[s].wait, sync[s].target, work[s])
    BY <1>1, <1>2 DEF IInv, PayloadHasShape, PayloadIsWhatWasArmed
  <2>2. sync[s].wait = "queue"
    BY <1>1, <2>1, FdsAreNumbers DEF Shape
  <2>. QED
    BY <2>1, <2>2
<1>7. /\ cond' \in [Syncs -> SUBSET Threads]
      /\ \A r \in Syncs : cond'[r] \subseteq cond[r] /\ t \notin cond'[r]
  BY <1>1, NotAsleep DEF IInv, TypeOK
<1>8. "export_fn" \in Places \ {"callback", "back", "cond"} /\ pc[t] \notin Inside
  BY <1>1 DEF Places, Inside
<1>9. sync[c.syncs[c.i]].state # "RESET" /\ StandsFor("queue", c.target, work[c.syncs[c.i]])
  BY <1>1, <1>4, <1>5, <1>6
<1>. HIDE DEF c, s
<1>. QED
  BY <1>1, <1>4, <1>5, <1>7, <1>8, <1>9, ThreadMoves

LEMMA SleepsKeepsIInv == ASSUME IInv, NEW t \in Threads, Sleeps(t) PROVE IInv'
<1>. DEFINE s == Current(t)
<1>1. /\ pc[t] = "look" /\ sync[s].state \in {"RESET", "WAITING"}
      /\ cond' = [cond EXCEPT ![s] = @ \cup {t}] /\ Goto(t, "cond", call[t])
      /\ UNCHANGED <<sync, fds, queue, fence, work>>
  BY DEF Sleeps, Busy, Looks
<1>2. call[t] \in Call /\ call[t].i \in DOMAIN call[t].syncs /\ "cond" \in Places
  BY <1>1 DEF IInv, TypeOK, Places
<1>3. s \in Syncs
  BY <1>1, CurrentIsUsed
<1>4. /\ pc'[t] = "cond" /\ Current(t)' = s /\ call' \in [Threads -> Call]
      /\ \A u \in Threads \ {t} : /\ pc'[u] = pc[u] /\ call'[u] = call[u]
                                  /\ Current(u)' = Current(u)
  BY <1>1, <1>2, GotoType DEF Current
<1>. HIDE DEF s
<1>5. TypeOK'
  <2>1. cond' \in [Syncs -> SUBSET Threads]
    BY <1>1, <1>3 DEF IInv, TypeOK
  <2>2. /\ pc' \in [Threads -> Places]
        /\ \A u \in Threads : pc'[u] # "idle" => call'[u].i \in DOMAIN call'[u].syncs
    BY <1>1, <1>2, GotoType
  <2>. QED
    BY <1>1, <1>4, <2>1, <2>2 DEF IInv, TypeOK, queue, Places
<1>6. OwnerIsUnique'
  <2>1. \A u \in Threads : /\ pc'[u] \in Inside => u # t
                           /\ pc[u] \in Inside => u # t
    BY <1>1, <1>4 DEF Inside
  <2>. QED
    BY <1>1, <1>4, <2>1 DEF IInv, OwnerIsUnique
<1>7. SleepersAreThere'
  <2>. SUFFICES ASSUME NEW r \in Syncs, NEW u \in cond'[r]
                PROVE  pc'[u] = "cond" /\ Current(u)' = r
    BY DEF SleepersAreThere
  <2>1. u \in Threads
    BY <1>5 DEF TypeOK
  <2>2. CASE u = t
    <3>1. t \notin cond[r]
      BY <1>1, NotAsleep
    <3>2. r = s
      BY <1>1, <2>2, <3>1 DEF IInv, TypeOK
    <3>. QED
      BY <1>4, <2>2, <3>2
  <2>3. CASE u # t
    <3>1. u \in cond[r]
      BY <1>1, <2>3 DEF IInv, TypeOK
    <3>. QED
      BY <1>4, <2>1, <2>3, <3>1 DEF IInv, SleepersAreThere
  <2>. QED
    BY <2>2, <2>3
<1>8. SleepersHaveAReason'
  BY <1>1 DEF IInv, SleepersHaveAReason, TypeOK
<1>9. PayloadHasShape' /\ DescriptorsAreOwnedOnce'
  BY <1>1 DEF IInv, PayloadHasShape, DescriptorsAreOwnedOnce
<1>10. CopiesAreCurrent'
  BY <1>1, <1>4 DEF IInv, CopiesAreCurrent
<1>11. PayloadIsWhatWasArmed'
  BY <1>1, <1>4 DEF IInv, PayloadIsWhatWasArmed, StandsFor
<1>. QED
  BY <1>5, <1>6, <1>7, <1>8, <1>9, <1>10, <1>11 DEF IInv

LEMMA TakesOverKeepsIInv == ASSUME IInv, NEW t \in Threads, TakesOver(t) PROVE IInv'
<1>. DEFINE s == Current(t)
            c == [call[t] EXCEPT !.wait = sync[s].wait, !.target = sync[s].target]
<1>1. /\ pc[t] = "look" /\ sync[s].state = "PENDING"
      /\ sync' = [sync EXCEPT ![s] = [sync[s] EXCEPT !.state = "WAITING"]]
      /\ Goto(t, "callback", c) /\ UNCHANGED <<cond, fds, queue, fence, work>>
  BY DEF TakesOver, Looks, Owned
<1>2. s \in Syncs /\ sync[s] \in Sync
  BY <1>1, CurrentIsUsed, SyncState
<1>3. call[t] \in Call /\ call[t].i \in DOMAIN call[t].syncs /\ "callback" \in Places
  BY <1>1 DEF IInv, TypeOK, Places
<1>4. /\ c \in Call /\ c.wait = sync[s].wait /\ c.target = sync[s].target
      /\ c.syncs = call[t].syncs /\ c.i = call[t].i
  BY <1>2, <1>3 DEF Call, Sync
<1>5. c.i \in DOMAIN c.syncs /\ c.syncs[c.i] = s
  BY <1>3, <1>4 DEF Current
<1>6. /\ sync'[s] \in Sync /\ sync'[s].state = "WAITING" /\ sync'[s].wait = sync[s].wait
      /\ sync'[s].export = sync[s].export
      /\ sync'[s].target = sync[s].target /\ sync'[s].file = sync[s].file
      /\ \A r \in Syncs \ {s} : sync'[r] = sync[r]
  BY <1>1, <1>2 DEF IInv, TypeOK, Sync, States
<1>. HIDE DEF s, c
<1>7. /\ pc'[t] = "callback" /\ call'[t] = c /\ Current(t)' = s
      /\ \A u \in Threads \ {t} : /\ pc'[u] = pc[u] /\ call'[u] = call[u]
                                  /\ Current(u)' = Current(u)
  BY <1>1, <1>3, <1>4, <1>5, GotoType
<1>8. TypeOK'
  <2>1. sync' \in [Syncs -> Sync]
    BY <1>1, <1>6 DEF IInv, TypeOK
  <2>2. /\ pc' \in [Threads -> Places] /\ call' \in [Threads -> Call]
        /\ \A u \in Threads : pc'[u] # "idle" => call'[u].i \in DOMAIN call'[u].syncs
    BY <1>1, <1>3, <1>4, <1>5, GotoType
  <2>. QED
    BY <1>1, <2>1, <2>2 DEF IInv, TypeOK, queue, Places
<1>9. \A u \in Threads : pc[u] \in Inside \cup {"export_fn"} => u # t
  BY <1>1 DEF Inside
<1>10. \A u \in Threads : pc[u] \in Inside => Current(u) # s
  BY <1>1 DEF IInv, OwnerIsUnique
<1>11. OwnerIsUnique'
  <2>1. \A u \in Threads \ {t} : pc'[u] \in Inside => /\ Current(u)' = Current(u)
                                                      /\ Current(u) \in Syncs \ {s}
                                                      /\ sync'[Current(u)].state = "WAITING"
    <3>. SUFFICES ASSUME NEW u \in Threads \ {t}, pc[u] \in Inside
                  PROVE  /\ Current(u) \in Syncs \ {s}
                         /\ sync'[Current(u)].state = "WAITING"
      BY <1>7
    <3>1. Current(u) \in Syncs
      BY CurrentIsUsed DEF Inside
    <3>. QED
      BY <1>6, <1>10, <3>1 DEF IInv, OwnerIsUnique
  <2>2. \A u \in Threads : pc'[u] \in Inside => sync'[Current(u)'].state = "WAITING"
    BY <1>6, <1>7, <2>1
  <2>3. ASSUME NEW u \in Threads, NEW v \in Threads, pc'[u] \in Inside, pc'[v] \in Inside,
               Current(u)' = Current(v)'
        PROVE  u = v
    <3>1. CASE u = t \/ v = t
      BY <1>7, <2>1, <2>3, <3>1
    <3>2. CASE u # t /\ v # t
      BY <1>7, <2>3, <3>2 DEF IInv, OwnerIsUnique
    <3>. QED
      BY <3>1, <3>2
  <2>4. ASSUME NEW r \in Syncs, sync'[r].state = "WAITING"
        PROVE  \E u \in Threads : pc'[u] \in Inside /\ Current(u)' = r
    <3>1. CASE r = s
      BY <1>7, <3>1 DEF Inside
    <3>2. CASE r # s
      <4>1. PICK u \in Threads : pc[u] \in Inside /\ Current(u) = r
        BY <1>6, <2>4, <3>2 DEF IInv, OwnerIsUnique
      <4>. QED
        BY <1>7, <1>9, <4>1
    <3>. QED
      BY <3>1, <3>2
  <2>. QED
    BY <2>2, <2>3, <2>4 DEF OwnerIsUnique
<1>12. SleepersAreThere'
  <2>. SUFFICES ASSUME NEW r \in Syncs, NEW u \in cond[r]
                PROVE  pc'[u] = "cond" /\ Current(u)' = r
    BY <1>1 DEF SleepersAreThere
  <2>1. u \in Threads /\ pc[u] = "cond" /\ Current(u) = r
    BY DEF IInv, TypeOK, SleepersAreThere
  <2>. QED
    BY <1>1, <1>7, <2>1
<1>13. SleepersHaveAReason'
  BY <1>1, <1>6 DEF IInv, SleepersHaveAReason
<1>14. PayloadHasShape'
  BY <1>1, <1>2, <1>6 DEF IInv, PayloadHasShape, Shape
<1>15. DescriptorsAreOwnedOnce'
  <2>1. \A r \in Syncs : sync'[r].file = sync[r].file
    BY <1>6
  <2>. QED
    BY <1>1, <2>1 DEF IInv, DescriptorsAreOwnedOnce
<1>16. CopiesAreCurrent'
  <2>. SUFFICES ASSUME NEW u \in Threads
                PROVE  /\ pc'[u] = "callback" => /\ call'[u].wait = sync'[Current(u)'].wait
                                                 /\ call'[u].target = sync'[Current(u)'].target
                       /\ pc'[u] = "export_fn" => sync'[Current(u)'].state # "RESET"
                       /\ pc'[u] = "back" => call'[u].result # "none"
    BY DEF CopiesAreCurrent
  <2>1. CASE u = t
    BY <1>4, <1>6, <1>7, <2>1
  <2>2. CASE u # t /\ pc[u] \in {"callback", "back", "export_fn"}
    <3>1. Current(u) \in Syncs
      BY <2>2, CurrentIsUsed
    <3>. QED
      BY <1>6, <1>7, <2>2, <3>1 DEF IInv, CopiesAreCurrent
  <2>3. CASE u # t /\ pc[u] \notin {"callback", "back", "export_fn"}
    BY <1>7, <2>3
  <2>. QED
    BY <2>1, <2>2, <2>3
<1>17. PayloadIsWhatWasArmed'
  <2>1. \A r \in Syncs : sync'[r].state \in {"PENDING", "WAITING"}
          => StandsFor(sync[r].wait, sync[r].target, work[r])'
    BY <1>1, <1>2, <1>6 DEF IInv, PayloadIsWhatWasArmed, StandsFor
  <2>2. StandsFor(sync[s].wait, sync[s].target, work[s])
    BY <1>1, <1>2 DEF IInv, PayloadIsWhatWasArmed
  <2>3. \A u \in Threads :
          /\ pc'[u] = "callback" => StandsFor(call[u].wait, call[u].target, work[Current(u)])'
          /\ pc'[u] = "export_fn" => StandsFor("queue", call[u].target, work[Current(u)])'
    BY <1>1, <1>4, <1>7, <2>2 DEF IInv, PayloadIsWhatWasArmed, StandsFor
  <2>. QED
    BY <2>1, <2>3 DEF PayloadIsWhatWasArmed
<1>. QED
  BY <1>8, <1>11, <1>12, <1>13, <1>14, <1>15, <1>16, <1>17 DEF IInv

(* What a wait without the mutex can return, and what that says.           *)
LEMMA CallbackResults ==
  ASSUME IInv, NEW t \in Threads, pc[t] = "callback",
         NEW res \in IF call[t].wait = "queue" THEN QueueWaitResults(t)
                                               ELSE FileWaitResults(t)
  PROVE  /\ res \in {"SUCCESS", "TIMEOUT", "LOST"}
         /\ res = "SUCCESS" => work[Current(t)] \in DoneWork
         /\ res = "LOST" => work[Current(t)] \in FailedWork
<1>. DEFINE w == work[Current(t)]
<1>1. Current(t) \in Syncs /\ w \in Work \cup {NoWork}
  BY CurrentIsUsed DEF IInv, TypeOK
<1>2. StandsFor(call[t].wait, call[t].target, w)
  BY DEF IInv, PayloadIsWhatWasArmed
<1>3. lost \in BOOLEAN /\ completed \in Nat
      /\ fence \in [Fences -> {"unsignalled", "signalled", "error"}]
  BY BoundsAssumption DEF IInv, TypeOK
<1>4. CASE call[t].wait = "queue"
  <2>1. w = [src |-> "queue", id |-> call[t].target] /\ call[t].target \in 1 .. MaxSeqno
    BY <1>1, <1>2, <1>4 DEF StandsFor, Work, NoWork
  <2>2. res \in QueueWaitResults(t)
    BY <1>4
  <2>3. CASE lost
    <3>1. res = "LOST"
      BY <2>2, <2>3 DEF QueueWaitResults
    <3>2. [src |-> "queue", id |-> call[t].target] \in FailedWork
      BY <2>1, <2>3 DEF FailedWork
    <3>. QED
      BY <2>1, <3>1, <3>2
  <2>4. CASE ~ lost /\ completed >= call[t].target
    <3>1. res = "SUCCESS"
      BY <2>2, <2>4 DEF QueueWaitResults
    <3>2. call[t].target \in 1 .. completed
      BY <1>3, <2>1, <2>4, BoundsAssumption
    <3>3. [src |-> "queue", id |-> call[t].target] \in DoneWork
      BY <3>2 DEF DoneWork
    <3>. QED
      BY <2>1, <3>1, <3>3
  <2>5. CASE ~ lost /\ ~ (completed >= call[t].target)
    <3>1. res = "TIMEOUT"
      BY <2>2, <2>5 DEF QueueWaitResults, NotYet
    <3>. QED
      BY <3>1
  <2>. QED
    BY <2>3, <2>4, <2>5
<1>5. CASE call[t].wait # "queue"
  <2>. DEFINE f == fds[call[t].target]
  <2>1. w = [src |-> "file", id |-> f]
    BY <1>2, <1>5 DEF StandsFor
  <2>2. f \in Fences
    BY <1>1, <2>1 DEF Work, NoWork
  <2>3. f # NoFence /\ fence[f] \in {"unsignalled", "signalled", "error"}
    BY <1>3, <2>2, FencesAssumption DEF NoFence
  <2>4. res \in FileWaitResults(t)
    BY <1>5
  <2>5. CASE fence[f] = "signalled"
    <3>1. res = "SUCCESS"
      BY <2>3, <2>4, <2>5 DEF FileWaitResults
    <3>2. [src |-> "file", id |-> f] \in DoneWork
      BY <2>2, <2>5 DEF DoneWork
    <3>. QED
      BY <2>1, <3>1, <3>2
  <2>6. CASE fence[f] = "error"
    <3>1. res = "LOST"
      BY <2>3, <2>4, <2>6 DEF FileWaitResults
    <3>2. [src |-> "file", id |-> f] \in FailedWork
      BY <2>2, <2>6 DEF FailedWork
    <3>. QED
      BY <2>1, <3>1, <3>2
  <2>7. CASE fence[f] = "unsignalled"
    <3>1. res = "TIMEOUT"
      BY <2>3, <2>4, <2>7 DEF FileWaitResults, NotYet
    <3>. QED
      BY <3>1
  <2>. QED
    BY <2>3, <2>5, <2>6, <2>7
<1>. QED
  BY <1>4, <1>5

LEMMA CallbackKeepsIInv == ASSUME IInv, NEW t \in Threads, CallbackReturns(t) PROVE IInv'
<1>1. PICK res \in {"SUCCESS", "TIMEOUT", "LOST"} :
        /\ pc[t] = "callback" /\ Goto(t, "back", [call[t] EXCEPT !.result = res])
        /\ UNCHANGED <<sync, cond, fds, queue, fence, work>>
  BY CallbackResults DEF CallbackReturns
<1>. DEFINE c == [call[t] EXCEPT !.result = res]
<1>2. call[t] \in Call /\ call[t].i \in DOMAIN call[t].syncs /\ "back" \in Places
  BY <1>1 DEF IInv, TypeOK, Places
<1>3. c \in Call /\ c.syncs = call[t].syncs /\ c.i = call[t].i /\ c.result = res
  BY <1>2 DEF Call
<1>4. c.i \in DOMAIN c.syncs /\ c.syncs[c.i] = Current(t)
  BY <1>2, <1>3 DEF Current
<1>5. Goto(t, "back", c)
  BY <1>1
<1>. HIDE DEF c
<1>6. /\ pc'[t] = "back" /\ call'[t] = c
      /\ \A u \in Threads : Current(u)' = Current(u)
      /\ \A u \in Threads \ {t} : pc'[u] = pc[u] /\ call'[u] = call[u]
  BY <1>2, <1>3, <1>4, <1>5, GotoType
<1>7. TypeOK'
  <2>1. /\ pc' \in [Threads -> Places] /\ call' \in [Threads -> Call]
        /\ \A u \in Threads : pc'[u] # "idle" => call'[u].i \in DOMAIN call'[u].syncs
    BY <1>2, <1>3, <1>4, <1>5, GotoType
  <2>. QED
    BY <1>1, <2>1 DEF IInv, TypeOK, queue, Places
<1>8. OwnerIsUnique'
  <2>1. \A u \in Threads : pc'[u] \in Inside <=> pc[u] \in Inside
    BY <1>1, <1>6 DEF Inside
  <2>. QED
    BY <1>1, <1>6, <2>1 DEF IInv, OwnerIsUnique
<1>9. SleepersAreThere'
  <2>. SUFFICES ASSUME NEW r \in Syncs, NEW u \in cond[r]
                PROVE  pc'[u] = "cond" /\ Current(u)' = r
    BY <1>1 DEF SleepersAreThere
  <2>1. u \in Threads /\ pc[u] = "cond" /\ Current(u) = r
    BY DEF IInv, TypeOK, SleepersAreThere
  <2>. QED
    BY <1>1, <1>6, <2>1
<1>10. SleepersHaveAReason' /\ PayloadHasShape' /\ DescriptorsAreOwnedOnce'
  BY <1>1 DEF IInv, SleepersHaveAReason, PayloadHasShape, DescriptorsAreOwnedOnce
<1>11. CopiesAreCurrent'
  BY <1>1, <1>3, <1>6 DEF IInv, CopiesAreCurrent
<1>12. PayloadIsWhatWasArmed'
  BY <1>1, <1>6 DEF IInv, PayloadIsWhatWasArmed, StandsFor
<1>. QED
  BY <1>7, <1>8, <1>9, <1>10, <1>11, <1>12 DEF IInv

LEMMA OwnerReportsKeepsIInv == ASSUME IInv, NEW t \in Threads, OwnerReports(t) PROVE IInv'
<1>. DEFINE s == Current(t)
            res == call[t].result
<1>1. /\ pc[t] = "back" /\ sync' = [sync EXCEPT ![s] = After(sync[s], res)]
      /\ cond' = [cond EXCEPT ![s] = {}] /\ WaitOneReturns(t, res)
      /\ UNCHANGED <<fds, queue, fence, work>>
  BY DEF OwnerReports, WakeOthers, Broadcast
<1>2. /\ s \in Syncs /\ sync[s] \in Sync /\ sync[s].state = "WAITING"
      /\ res \in {"SUCCESS", "TIMEOUT", "LOST"}
  <2>1. res # "none" /\ res \in {"none", "SUCCESS", "TIMEOUT", "LOST"}
    BY <1>1 DEF IInv, CopiesAreCurrent, TypeOK, Call
  <2>. QED
    BY <1>1, <2>1, CurrentIsUsed, SyncState DEF IInv, OwnerIsUnique, Inside
<1>3. PICK there \in {"idle", "look", "again"}, c \in Call :
        Goto(t, there, c) /\ (there # "idle" => c.i \in DOMAIN c.syncs)
  BY <1>1, ReturnsSomewhere
<1>4. there \in Places /\ there \notin Inside /\ there \notin {"cond", "export_fn"}
  BY DEF Places, Inside
<1>5. /\ pc'[t] = there /\ call'[t] = c
      /\ \A u \in Threads \ {t} : /\ pc'[u] = pc[u] /\ call'[u] = call[u]
                                  /\ Current(u)' = Current(u)
  BY <1>3, <1>4, GotoType
<1>6. /\ sync'[s] = After(sync[s], res)
      /\ \A r \in Syncs \ {s} : sync'[r] = sync[r] /\ cond'[r] = cond[r]
      /\ cond'[s] = {}
  BY <1>1, <1>2 DEF IInv, TypeOK
<1>7. /\ sync'[s] \in Sync /\ sync'[s].state \in {"PENDING", "SIGNALED", "FAILED"}
      /\ sync'[s].file = sync[s].file
      /\ sync'[s].state = "PENDING" => /\ sync'[s].wait = sync[s].wait
                                       /\ sync'[s].target = sync[s].target
                                       /\ sync'[s].export = sync[s].export
  <2>1. CASE res = "SUCCESS"
    BY <1>2, <1>6, <2>1 DEF After, Sync, States
  <2>2. CASE res = "TIMEOUT"
    BY <1>2, <1>6, <2>2 DEF After, Sync, States
  <2>3. CASE res = "LOST"
    BY <1>2, <1>6, <2>3 DEF After, Sync, States
  <2>. QED
    BY <1>2, <2>1, <2>2, <2>3
<1>8. \A u \in Threads \ {t} : pc[u] \in Inside => Current(u) # s
  BY <1>1 DEF IInv, OwnerIsUnique, Inside
<1>. HIDE DEF s, res
<1>9. TypeOK'
  <2>1. sync' \in [Syncs -> Sync] /\ cond' \in [Syncs -> SUBSET Threads]
    BY <1>1, <1>2, <1>6, <1>7 DEF IInv, TypeOK
  <2>2. /\ pc' \in [Threads -> Places] /\ call' \in [Threads -> Call]
        /\ \A u \in Threads : pc'[u] # "idle" => call'[u].i \in DOMAIN call'[u].syncs
    BY <1>3, <1>4, GotoType
  <2>. QED
    BY <1>1, <2>1, <2>2 DEF IInv, TypeOK, queue, Places
<1>10. OwnerIsUnique'
  <2>1. \A u \in Threads : pc'[u] \in Inside
          => /\ u # t /\ pc[u] \in Inside /\ Current(u)' = Current(u)
             /\ Current(u) \in Syncs \ {s}
    <3>. SUFFICES ASSUME NEW u \in Threads, pc'[u] \in Inside
                  PROVE  /\ u # t /\ pc[u] \in Inside /\ Current(u)' = Current(u)
                         /\ Current(u) \in Syncs \ {s}
      OBVIOUS
    <3>1. u # t /\ pc[u] \in Inside /\ Current(u)' = Current(u)
      BY <1>4, <1>5
    <3>2. Current(u) \in Syncs
      BY <3>1, CurrentIsUsed DEF Inside
    <3>. QED
      BY <1>8, <3>1, <3>2
  <2>2. \A u \in Threads : pc'[u] \in Inside => sync'[Current(u)'].state = "WAITING"
    BY <1>6, <2>1 DEF IInv, OwnerIsUnique
  <2>3. \A u, v \in Threads :
          pc'[u] \in Inside /\ pc'[v] \in Inside /\ Current(u)' = Current(v)' => u = v
    BY <2>1 DEF IInv, OwnerIsUnique
  <2>4. ASSUME NEW r \in Syncs, sync'[r].state = "WAITING"
        PROVE  \E u \in Threads : pc'[u] \in Inside /\ Current(u)' = r
    <3>1. r # s /\ sync[r].state = "WAITING"
      BY <1>6, <1>7, <2>4
    <3>2. PICK u \in Threads : pc[u] \in Inside /\ Current(u) = r
      BY <3>1 DEF IInv, OwnerIsUnique
    <3>3. u # t
      BY <3>1, <3>2 DEF s
    <3>. QED
      BY <1>5, <3>2, <3>3
  <2>. QED
    BY <2>2, <2>3, <2>4 DEF OwnerIsUnique
<1>11. SleepersAreThere'
  <2>. SUFFICES ASSUME NEW r \in Syncs, NEW u \in cond'[r]
                PROVE  pc'[u] = "cond" /\ Current(u)' = r
    BY DEF SleepersAreThere
  <2>1. u \in cond[r]
    BY <1>6
  <2>2. u \in Threads /\ pc[u] = "cond" /\ Current(u) = r
    BY <2>1 DEF IInv, TypeOK, SleepersAreThere
  <2>. QED
    BY <1>1, <1>5, <2>2
<1>12. SleepersHaveAReason'
  BY <1>6 DEF IInv, SleepersHaveAReason
<1>13. PayloadHasShape'
  BY <1>2, <1>6, <1>7 DEF IInv, PayloadHasShape, Shape
<1>14. DescriptorsAreOwnedOnce'
  <2>1. \A r \in Syncs : sync'[r].file = sync[r].file
    BY <1>6, <1>7
  <2>. QED
    BY <1>1, <2>1 DEF IInv, DescriptorsAreOwnedOnce
<1>15. CopiesAreCurrent'
  <2>. SUFFICES ASSUME NEW u \in Threads
                PROVE  /\ pc'[u] = "callback" => /\ call'[u].wait = sync'[Current(u)'].wait
                                                 /\ call'[u].target = sync'[Current(u)'].target
                       /\ pc'[u] = "export_fn" => sync'[Current(u)'].state # "RESET"
                       /\ pc'[u] = "back" => call'[u].result # "none"
    BY DEF CopiesAreCurrent
  <2>1. CASE u = t
    BY <1>4, <1>5, <2>1 DEF Inside
  <2>2. CASE u # t /\ pc[u] \in {"callback", "back", "export_fn"}
    <3>1. Current(u) \in Syncs
      BY <2>2, CurrentIsUsed
    <3>. QED
      BY <1>5, <1>6, <1>7, <1>8, <2>2, <3>1 DEF IInv, CopiesAreCurrent, Inside
  <2>3. CASE u # t /\ pc[u] \notin {"callback", "back", "export_fn"}
    BY <1>5, <2>3
  <2>. QED
    BY <2>1, <2>2, <2>3
<1>16. PayloadIsWhatWasArmed'
  <2>1. \A r \in Syncs : sync'[r].state \in {"PENDING", "WAITING"}
          => StandsFor(sync[r].wait, sync[r].target, work[r])'
    BY <1>1, <1>2, <1>6, <1>7 DEF IInv, PayloadIsWhatWasArmed, StandsFor
  <2>2. \A u \in Threads :
          /\ pc'[u] = "callback" => StandsFor(call[u].wait, call[u].target, work[Current(u)])'
          /\ pc'[u] = "export_fn" => StandsFor("queue", call[u].target, work[Current(u)])'
    BY <1>1, <1>4, <1>5 DEF IInv, PayloadIsWhatWasArmed, StandsFor, Inside
  <2>. QED
    BY <2>1, <2>2 DEF PayloadIsWhatWasArmed
<1>. QED
  BY <1>9, <1>10, <1>11, <1>12, <1>13, <1>14, <1>15, <1>16 DEF IInv

-----------------------------------------------------------------------------
(* The invariant is inductive                                              *)

LEMMA InitIInv == Init => IInv
<1>. SUFFICES ASSUME Init PROVE IInv
  OBVIOUS
<1>1. \A s \in Syncs : /\ sync[s] \in Sync /\ sync[s].state \in {"RESET", "SIGNALED"}
                       /\ sync[s].file = 0
  <2>1. \A st \in {"RESET", "SIGNALED"} :
          Fresh(st) \in Sync /\ Fresh(st).state = st /\ Fresh(st).file = 0
    BY FreshType DEF Fresh, States
  <2>2. \A s \in Syncs : sync[s] \in {Fresh("RESET"), Fresh("SIGNALED")}
    BY DEF Init
  <2>. QED
    BY <2>1, <2>2
<1>2. TypeOK
  <2>1. sync \in [Syncs -> Sync]
    BY <1>1 DEF Init
  <2>2. call \in [Threads -> Call]
    BY NoCallType DEF Init
  <2>3. submitted \in 0 .. MaxSeqno /\ completed \in 0 .. submitted
    BY BoundsAssumption DEF Init
  <2>4. work \in [Syncs -> Work \cup {NoWork}]
    BY DEF Init
  <2>5. /\ cond \in [Syncs -> SUBSET Threads] /\ fds \in [Fds -> Fences \cup {NoFence}]
        /\ pc \in [Threads -> {"idle", "look", "cond", "callback", "back", "again",
                               "export", "export_fn"}]
        /\ \A t \in Threads : pc[t] = "idle"
        /\ lost \in BOOLEAN
        /\ fence \in [Fences -> {"unsignalled", "signalled", "error"}]
    BY DEF Init
  <2>. QED
    BY <2>1, <2>2, <2>3, <2>4, <2>5 DEF TypeOK
<1>3. \A t \in Threads : pc[t] = "idle"
  BY DEF Init
<1>4. OwnerIsUnique /\ CopiesAreCurrent
  BY <1>1, <1>3 DEF OwnerIsUnique, CopiesAreCurrent, Inside
<1>5. SleepersAreThere /\ SleepersHaveAReason
  BY DEF Init, SleepersAreThere, SleepersHaveAReason
<1>6. PayloadHasShape /\ PayloadIsWhatWasArmed
  BY <1>1, <1>3 DEF PayloadHasShape, PayloadIsWhatWasArmed
<1>7. DescriptorsAreOwnedOnce
  BY <1>1, FdsAreNumbers DEF Init, DescriptorsAreOwnedOnce
<1>. QED
  BY <1>2, <1>4, <1>5, <1>6, <1>7 DEF IInv

LEMMA NextKeepsIInv == IInv /\ [Next]_vars => IInv'
<1>1. ASSUME IInv, Host PROVE IInv'
  BY <1>1, SignalKeepsIInv, FreshKeepsIInv, SetPendingKeepsIInv, ImportFileKeepsIInv,
     MoveKeepsIInv DEF Host
<1>2. ASSUME IInv, NEW t \in Threads, ThreadStep(t) PROVE IInv'
  BY <1>2, LooksKeepIInv, TakesOverKeepsIInv, SleepsKeepsIInv, CallbackKeepsIInv,
     OwnerReportsKeepsIInv, ExportsWorkKeepsIInv DEF ThreadStep
<1>. QED
  BY <1>1, <1>2, QueueKeepsIInv, StartKeepsIInv DEF Next

LEMMA IInvHolds == Spec => []IInv
BY InitIInv, NextKeepsIInv, PTL DEF Spec

-----------------------------------------------------------------------------
(* What the syncs guarantee                                                *)

(* Every variable has its type; a call in progress is at one of its syncs. *)
THEOREM SyncTypeCorrect == Spec => []TypeOK
BY IInvHolds, PTL DEF IInv

(* Exactly one thread waits for the payload of a sync that is WAITING, and *)
(* none for another's.                                                     *)
THEOREM WaitHasOneOwner == Spec => []OneOwner
<1>1. IInv => OneOwner
  <2>. SUFFICES ASSUME IInv, NEW s \in Syncs
                PROVE  LET owners == {t \in Threads : pc[t] \in Inside /\ Current(t) = s}
                       IN IF sync[s].state = "WAITING" THEN \E t \in Threads : owners = {t}
                                                       ELSE owners = {}
    BY DEF OneOwner, Inside
  <2>. DEFINE owners == {t \in Threads : pc[t] \in Inside /\ Current(t) = s}
  <2>1. CASE sync[s].state = "WAITING"
    <3>1. PICK t \in Threads : pc[t] \in Inside /\ Current(t) = s
      BY <2>1 DEF IInv, OwnerIsUnique
    <3>2. owners = {t}
      BY <3>1 DEF IInv, OwnerIsUnique
    <3>. QED
      BY <2>1, <3>2
  <2>2. CASE sync[s].state # "WAITING"
    <3>1. owners = {}
      BY <2>2 DEF IInv, OwnerIsUnique
    <3>. QED
      BY <2>2, <3>1
  <2>. QED
    BY <2>1, <2>2
<1>. QED
  BY <1>1, IInvHolds, PTL

(* Nobody is left asleep on a sync that has something to wait for and no   *)
(* thread that waits for it.                                               *)
THEOREM NoForgottenSleeper == Spec => []SleepersHaveAReason
BY IInvHolds, PTL DEF IInv

(* The two together: the wait for a payload always has one owner, who      *)
(* wakes whoever sleeps on it.                                             *)
THEOREM HandOver == Spec => []WaitsAreHandedOver
BY WaitHasOneOwner, NoForgottenSleeper, PTL DEF WaitsAreHandedOver

(* No wait or export is for work, or for a descriptor, that the sync does  *)
(* not stand for any more.                                                 *)
THEOREM NoStaleTarget == Spec => []PayloadIsWhatWasArmed
BY IInvHolds, PTL DEF IInv

(* No descriptor leaks or is closed twice, however syncs are moved,        *)
(* imported to, reset and destroyed.                                       *)
THEOREM DescriptorOwnership == Spec => []DescriptorsAreOwnedOnce
BY IInvHolds, PTL DEF IInv

-----------------------------------------------------------------------------
(* KbaseSync implements BinaryPayloads                                     *)

(* What an owner is about to report is so.                                 *)
ResultsAreTrue ==
  \A t \in Threads : pc[t] = "back" =>
    /\ call[t].result = "SUCCESS" => work[Current(t)] \in DoneWork
    /\ call[t].result = "LOST" => work[Current(t)] \in FailedWork

(* Work that has ended, or failed, stays so.                               *)
LEMMA WorkEndsForGood ==
  ASSUME IInv, [Next]_vars
  PROVE  DoneWork \subseteq DoneWork' /\ FailedWork \subseteq FailedWork'
<1>1. CASE UNCHANGED <<completed, lost, fence>>
  BY <1>1 DEF DoneWork, FailedWork
<1>2. CASE QueueCompletes
  <2>1. 1 .. completed \subseteq 1 .. completed'
    BY <1>2, BoundsAssumption DEF QueueCompletes, IInv, TypeOK
  <2>. QED
    BY <1>2, <2>1 DEF QueueCompletes, DoneWork, FailedWork
<1>3. CASE QueueIsLost
  BY <1>3 DEF QueueIsLost, DoneWork, FailedWork
<1>4. CASE \E f \in Fences : FenceEnds(f)
  <2>1. \A f \in Fences : fence[f] # "unsignalled" => fence'[f] = fence[f]
    BY <1>4 DEF FenceEnds, IInv, TypeOK
  <2>2. completed' = completed /\ lost' = lost
    BY <1>4 DEF FenceEnds, queue
  <2>. QED
    BY <2>1, <2>2 DEF DoneWork, FailedWork
<1>5. ASSUME Host \/ UNCHANGED vars PROVE UNCHANGED <<completed, lost, fence>>
  BY <1>5 DEF Host, Signal, Reset, SetPending, ImportFile, FinishAndInit, Move, queue, vars
<1>6. ASSUME NEW t \in Threads, StartWait(t) \/ StartExport(t) \/ ThreadStep(t)
      PROVE  UNCHANGED <<completed, lost, fence>>
  BY <1>6 DEF StartWait, StartExport, Begin, ThreadStep, AnyTimesOut, AnyPollsAgain,
              FindsSignaled, FindsFailed, TakesOver, FindsBusy, Sleeps, Wakes, SleepTimesOut,
              CallbackReturns, OwnerReports, ExportsFile, ExportsWork, ExportReturns,
              ExportWaits, queue
<1>. QED
  BY <1>1, <1>2, <1>3, <1>4, <1>5, <1>6 DEF Next

(* Nothing takes the work away from an owner.                              *)
LEMMA OwnerKeepsWork ==
  ASSUME IInv, [Next]_vars, NEW t \in Threads, pc'[t] = "back", ~ CallbackReturns(t)
  PROVE  /\ pc[t] = "back" /\ call'[t] = call[t] /\ Current(t)' = Current(t)
         /\ work'[Current(t)] = work[Current(t)]
<1>1. ASSUME UNCHANGED <<threads, work>>
      PROVE  /\ pc[t] = "back" /\ call'[t] = call[t] /\ Current(t)' = Current(t)
             /\ work'[Current(t)] = work[Current(t)]
  BY <1>1 DEF threads, Current
<1>2. CASE Host
  <2>1. UNCHANGED threads /\ pc[t] = "back"
    BY <1>2 DEF Host, Signal, Reset, SetPending, ImportFile, FinishAndInit, Move, threads
  <2>2. Current(t) \in Syncs
    BY <2>1, CurrentIsUsed
  <2>3. \A s \in Syncs : MayArm(s) => Current(t) # s
    BY <2>1, NoneInside DEF Inside
  <2>4. ASSUME NEW s \in Syncs,
               Signal(s) \/ Reset(s) \/ SetPending(s) \/ ImportFile(s) \/ FinishAndInit(s)
        PROVE  work'[Current(t)] = work[Current(t)]
    <3>1. Current(t) # s
      BY <2>3, <2>4 DEF Signal, Reset, SetPending, ImportFile, FinishAndInit, MayArm
    <3>2. \E w : work' = [work EXCEPT ![s] = w]
      BY <2>4 DEF Signal, Reset, SetPending, ImportFile, FinishAndInit
    <3>. QED
      BY <2>2, <3>1, <3>2 DEF IInv, TypeOK
  <2>5. ASSUME NEW dst \in Syncs, NEW src \in Syncs, Move(dst, src)
        PROVE  work'[Current(t)] = work[Current(t)]
    BY <2>2, <2>3, <2>5 DEF Move, MayArm, IInv, TypeOK
  <2>6. work'[Current(t)] = work[Current(t)]
    BY <1>2, <2>4, <2>5 DEF Host
  <2>. QED
    BY <2>1, <2>6 DEF threads, Current
<1>3. ASSUME NEW u \in Threads, StartWait(u) \/ StartExport(u) \/ ThreadStep(u)
      PROVE  /\ pc[t] = "back" /\ call'[t] = call[t] /\ Current(t)' = Current(t)
             /\ work'[Current(t)] = work[Current(t)]
  <2>1. work' = work
    BY <1>3 DEF StartWait, StartExport, Begin, ThreadStep, AnyTimesOut, AnyPollsAgain,
                FindsSignaled, FindsFailed, TakesOver, FindsBusy, Sleeps, Wakes, SleepTimesOut,
                CallbackReturns, OwnerReports, ExportsFile, ExportsWork, ExportReturns,
                ExportWaits
  <2>2. CASE CallbackReturns(u)
    <3>1. u # t
      BY <2>2
    <3>2. /\ pc' = [pc EXCEPT ![u] = "back"] /\ \E c : call' = [call EXCEPT ![u] = c]
      BY <2>2 DEF CallbackReturns, Goto
    <3>. QED
      BY <2>1, <3>1, <3>2 DEF IInv, TypeOK, Current
  <2>3. CASE ~ CallbackReturns(u)
    <3>1. \E there \in Places \ {"back"} : \E c : Goto(u, there, c)
      <4>1. CASE StartWait(u) \/ StartExport(u)
        BY <4>1 DEF StartWait, StartExport, Begin, Goto, Places
      <4>2. CASE ThreadStep(u)
        BY <2>3, <4>2 DEF ThreadStep, AnyTimesOut, AnyPollsAgain, FindsSignaled, FindsFailed,
                 TakesOver, FindsBusy, Sleeps, Wakes, SleepTimesOut, OwnerReports,
                 ExportsFile, ExportsWork, ExportReturns, ExportWaits, WaitOneReturns,
                 Return, Places
      <4>. QED
        BY <1>3, <4>1, <4>2
    <3>2. u # t
      BY <3>1 DEF Goto, IInv, TypeOK
    <3>. QED
      BY <2>1, <3>1, <3>2 DEF Goto, IInv, TypeOK, Current
  <2>. QED
    BY <2>2, <2>3
<1>4. CASE QueueCompletes \/ QueueIsLost \/ (\E f \in Fences : FenceEnds(f)) \/ UNCHANGED vars
  BY <1>1, <1>4 DEF QueueCompletes, QueueIsLost, FenceEnds, vars
<1>. QED
  BY <1>2, <1>3, <1>4 DEF Next

LEMMA ResultsStayTrue == IInv /\ ResultsAreTrue /\ [Next]_vars => ResultsAreTrue'
<1>. SUFFICES ASSUME IInv, ResultsAreTrue, [Next]_vars, NEW t \in Threads, pc'[t] = "back"
              PROVE  /\ call'[t].result = "SUCCESS" => work'[Current(t)'] \in DoneWork'
                     /\ call'[t].result = "LOST" => work'[Current(t)'] \in FailedWork'
  BY DEF ResultsAreTrue
<1>1. CASE CallbackReturns(t)
  <2>1. PICK res \in IF call[t].wait = "queue" THEN QueueWaitResults(t)
                                               ELSE FileWaitResults(t) :
          /\ pc[t] = "callback" /\ call' = [call EXCEPT ![t] = [call[t] EXCEPT !.result = res]]
          /\ UNCHANGED <<queue, fence, work>>
    BY <1>1 DEF CallbackReturns, Goto
  <2>2. /\ res = "SUCCESS" => work[Current(t)] \in DoneWork
        /\ res = "LOST" => work[Current(t)] \in FailedWork
    BY <2>1, CallbackResults
  <2>3. call'[t].result = res /\ Current(t)' = Current(t)
    BY <2>1 DEF IInv, TypeOK, Call, Current
  <2>. QED
    BY <2>1, <2>2, <2>3, WorkEndsForGood
<1>2. CASE ~ CallbackReturns(t)
  BY <1>2, OwnerKeepsWork, WorkEndsForGood DEF ResultsAreTrue
<1>. QED
  BY <1>1, <1>2

LEMMA AbstractSet ==
  ASSUME IInv, NEW s \in Syncs, NEW new, NEW w,
         sync' = [sync EXCEPT ![s] = new], work' = [work EXCEPT ![s] = w],
         UNCHANGED <<completed, lost, fence>>
  PROVE  Payloads!Set(s, Abstract(new.state), w)
<1>1. [r \in Syncs |-> Abstract(sync'[r].state)]
      = [[r \in Syncs |-> Abstract(sync[r].state)] EXCEPT ![s] = Abstract(new.state)]
  BY DEF IInv, TypeOK
<1>2. UNCHANGED <<DoneWork, FailedWork>>
  BY DEF DoneWork, FailedWork
<1>. QED
  BY <1>1, <1>2 DEF Payloads!Set

LEMMA HostRefines == ASSUME IInv, Host PROVE Payloads!Next
<1>1. ASSUME NEW s \in Syncs, Signal(s) PROVE Payloads!Signal(s)
  <2>. DEFINE new == [Fresh("SIGNALED") EXCEPT !.target = sync[s].target]
  <2>1. new.state = "SIGNALED" /\ Abstract("SIGNALED") = "signalled"
    BY DEF Fresh, Abstract
  <2>2. Payloads!Set(s, Abstract(new.state), NoWork)
    BY <1>1, AbstractSet DEF Signal, queue
  <2>. QED
    BY <2>1, <2>2 DEF Payloads!Signal
<1>2. ASSUME NEW s \in Syncs, Reset(s) \/ FinishAndInit(s)
      PROVE  Payloads!Reset(s) \/ Payloads!Signal(s)
  <2>1. PICK st \in {"RESET", "SIGNALED"} :
          /\ sync' = [sync EXCEPT ![s] = Fresh(st)] /\ work' = [work EXCEPT ![s] = NoWork]
          /\ UNCHANGED <<completed, lost, fence>>
    BY <1>2 DEF Reset, FinishAndInit, queue
  <2>2. Payloads!Set(s, Abstract(Fresh(st).state), NoWork)
    BY <2>1, AbstractSet
  <2>3. Fresh(st).state = st /\ Abstract("SIGNALED") = "signalled" /\ Abstract("RESET") = "reset"
    BY DEF Fresh, Abstract
  <2>. QED
    BY <2>2, <2>3 DEF Payloads!Reset, Payloads!Signal
<1>3. ASSUME NEW s \in Syncs, SetPending(s) PROVE Payloads!Arm(s)
  <2>1. PICK q \in 1 .. MaxSeqno :
          /\ sync' = [sync EXCEPT ![s] = Pending(s, q)]
          /\ work' = [work EXCEPT ![s] = [src |-> "queue", id |-> q]]
    BY <1>3 DEF SetPending
  <2>2. Payloads!Set(s, Abstract(Pending(s, q).state), [src |-> "queue", id |-> q])
    BY <1>3, <2>1, AbstractSet DEF SetPending
  <2>3. Pending(s, q).state = "PENDING" /\ Abstract("PENDING") = "pending"
    BY DEF Pending, Fresh, Abstract
  <2>4. [src |-> "queue", id |-> q] \in Work
    BY DEF Work
  <2>. QED
    BY <2>2, <2>3, <2>4 DEF Payloads!Arm
<1>4. ASSUME NEW s \in Syncs, ImportFile(s) PROVE Payloads!Arm(s)
  <2>. DEFINE fd == CHOOSE d \in Fds : fds[d] = NoFence
              new == [Fresh("PENDING") EXCEPT !.wait = "file", !.target = fd, !.file = fd]
  <2>1. PICK f \in Fences : /\ sync' = [sync EXCEPT ![s] = new]
                            /\ work' = [work EXCEPT ![s] = [src |-> "file", id |-> f]]
    BY <1>4 DEF ImportFile
  <2>3. new.state = "PENDING" /\ Abstract("PENDING") = "pending"
    BY DEF Fresh, Abstract
  <2>. HIDE DEF new
  <2>2. Payloads!Set(s, Abstract(new.state), [src |-> "file", id |-> f])
    BY <1>4, <2>1, AbstractSet DEF ImportFile, queue
  <2>4. [src |-> "file", id |-> f] \in Work
    BY DEF Work
  <2>. QED
    BY <2>2, <2>3, <2>4 DEF Payloads!Arm
<1>5. ASSUME NEW dst \in Syncs, NEW src \in Syncs, Move(dst, src)
      PROVE  Payloads!Move(dst, src)
  <2>1. UNCHANGED <<DoneWork, FailedWork>> /\ dst # src
    BY <1>5 DEF Move, DoneWork, FailedWork, queue
  <2>2. sync' = [sync EXCEPT ![dst] = sync[src], ![src] = Fresh("RESET")]
        /\ work' = [work EXCEPT ![dst] = work[src], ![src] = NoWork]
    BY <1>5 DEF Move, MovedFrom
  <2>3. Abstract(Fresh("RESET").state) = "reset"
    BY DEF Fresh, Abstract
  <2>4. [r \in Syncs |-> Abstract(sync'[r].state)]
        = [[r \in Syncs |-> Abstract(sync[r].state)]
             EXCEPT ![dst] = [r \in Syncs |-> Abstract(sync[r].state)][src], ![src] = "reset"]
    <3>1. \A r \in Syncs : sync'[r] = IF r = src THEN Fresh("RESET")
                                      ELSE IF r = dst THEN sync[src] ELSE sync[r]
      BY <2>1, <2>2 DEF IInv, TypeOK
    <3>. QED
      BY <2>1, <2>3, <3>1
  <2>. QED
    BY <2>1, <2>2, <2>4 DEF Payloads!Move
<1>. QED
  BY <1>1, <1>2, <1>3, <1>4, <1>5 DEF Host, Payloads!Next

LEMMA OwnerRefines ==
  ASSUME IInv, ResultsAreTrue, NEW t \in Threads, OwnerReports(t)
  PROVE  Payloads!Next \/ UNCHANGED Payloads!vars
<1>. DEFINE s == Current(t)
            res == call[t].result
            absState == [r \in Syncs |-> Abstract(sync[r].state)]
<1>1. /\ pc[t] = "back" /\ sync' = [sync EXCEPT ![s] = After(sync[s], res)]
      /\ work' = work /\ UNCHANGED <<DoneWork, FailedWork>>
  BY DEF OwnerReports, DoneWork, FailedWork, queue
<1>2. s \in Syncs /\ sync[s] \in Sync /\ sync[s].state = "WAITING"
      /\ res \in {"SUCCESS", "TIMEOUT", "LOST"}
  <2>1. res # "none" /\ res \in {"none", "SUCCESS", "TIMEOUT", "LOST"}
    BY <1>1 DEF IInv, CopiesAreCurrent, TypeOK, Call
  <2>. QED
    BY <1>1, <2>1, CurrentIsUsed, SyncState DEF IInv, OwnerIsUnique, Inside
<1>3. absState' = [absState EXCEPT ![s] = Abstract(After(sync[s], res).state)]
  BY <1>1, <1>2 DEF IInv, TypeOK
<1>4. absState[s] = "pending"
  BY <1>2 DEF Abstract
<1>5. CASE res = "SUCCESS"
  <2>1. After(sync[s], res).state = "SIGNALED"
    BY <1>2, <1>5 DEF After, Sync
  <2>2. absState' = [absState EXCEPT ![s] = "signalled"]
    BY <1>3, <2>1 DEF Abstract
  <2>3. work[s] \in DoneWork
    BY <1>1, <1>5 DEF ResultsAreTrue
  <2>4. Payloads!Observe(s)
    BY <1>1, <1>4, <2>2, <2>3 DEF Payloads!Observe
  <2>. QED
    BY <1>2, <2>4 DEF Payloads!Next
<1>6. CASE res = "LOST"
  <2>1. After(sync[s], res).state = "FAILED"
    BY <1>2, <1>6 DEF After, Sync
  <2>2. absState' = [absState EXCEPT ![s] = "failed"]
    BY <1>3, <2>1 DEF Abstract
  <2>3. work[s] \in FailedWork
    BY <1>1, <1>6 DEF ResultsAreTrue
  <2>4. Payloads!Observe(s)
    BY <1>1, <1>4, <2>2, <2>3 DEF Payloads!Observe
  <2>. QED
    BY <1>2, <2>4 DEF Payloads!Next
<1>7. CASE res = "TIMEOUT"
  <2>1. After(sync[s], res).state = "PENDING"
    BY <1>2, <1>7 DEF After, Sync
  <2>2. absState' = absState
    BY <1>2, <1>3, <1>4, <2>1 DEF Abstract
  <2>. QED
    BY <1>1, <2>2 DEF Payloads!vars
<1>. QED
  BY <1>2, <1>5, <1>6, <1>7

LEMMA InitRefines == Init => Payloads!Init
<1>. SUFFICES ASSUME Init PROVE Payloads!Init
  OBVIOUS
<1>. DEFINE absState == [s \in Syncs |-> Abstract(sync[s].state)]
<1>1. \A s \in Syncs : sync[s].state \in {"RESET", "SIGNALED"}
  BY DEF Init, Fresh
<1>2. absState \in [Syncs -> {"reset", "signalled"}]
  BY <1>1 DEF Abstract
<1>3. DoneWork = {}
  <2>1. 1 .. completed = {} /\ {f \in Fences : fence[f] = "signalled"} = {}
    BY DEF Init
  <2>. QED
    BY <2>1 DEF DoneWork
<1>4. FailedWork = {}
  <2>1. ~ lost /\ {f \in Fences : fence[f] = "error"} = {}
    BY DEF Init
  <2>. QED
    BY <2>1 DEF FailedWork
<1>5. work = [s \in Syncs |-> NoWork]
  BY DEF Init
<1>. QED
  BY <1>2, <1>3, <1>4, <1>5 DEF Payloads!Init

(* The other steps: a sync that turns WAITING is pending still, and the    *)
(* queue and the fences only make progress.                                *)
LEMMA QuietRefines ==
  ASSUME IInv, IInv', [Next]_vars,
         UNCHANGED work, \A s \in Syncs : Abstract(sync'[s].state) = Abstract(sync[s].state)
  PROVE  Payloads!Next \/ UNCHANGED Payloads!vars
<1>1. [s \in Syncs |-> Abstract(sync'[s].state)] = [s \in Syncs |-> Abstract(sync[s].state)]
  OBVIOUS
<1>2. DoneWork \subseteq DoneWork' /\ FailedWork \subseteq FailedWork'
  BY WorkEndsForGood
<1>3. DoneWork' \subseteq Work /\ FailedWork' \subseteq Work
  <2>1. completed' \in Nat /\ completed' <= MaxSeqno
    BY BoundsAssumption DEF IInv, TypeOK
  <2>2. 1 .. completed' \subseteq 1 .. MaxSeqno
    BY <2>1, BoundsAssumption
  <2>. QED
    BY <2>2 DEF DoneWork, FailedWork, Work
<1>4. Payloads!Progress
  BY <1>1, <1>2, <1>3 DEF Payloads!Progress
<1>. QED
  BY <1>4 DEF Payloads!Next

LEMMA StepRefines ==
  ASSUME IInv, IInv', ResultsAreTrue, [Next]_vars
  PROVE  Payloads!Next \/ UNCHANGED Payloads!vars
<1>1. CASE QueueCompletes \/ QueueIsLost \/ (\E f \in Fences : FenceEnds(f)) \/ UNCHANGED vars
  <2>1. UNCHANGED <<sync, work>>
    BY <1>1 DEF QueueCompletes, QueueIsLost, FenceEnds, vars
  <2>. QED
    BY <2>1, QuietRefines
<1>2. CASE Host
  BY <1>2, HostRefines
<1>3. ASSUME NEW t \in Threads, StartWait(t) \/ StartExport(t) \/ ThreadStep(t)
      PROVE  Payloads!Next \/ UNCHANGED Payloads!vars
  <2>1. CASE OwnerReports(t)
    BY <2>1, OwnerRefines
  <2>2. CASE TakesOver(t)
    <3>. DEFINE s == Current(t)
    <3>1. /\ pc[t] = "look" /\ sync[s].state = "PENDING" /\ work' = work
          /\ sync' = [sync EXCEPT ![s] = [sync[s] EXCEPT !.state = "WAITING"]]
      BY <2>2 DEF TakesOver, Looks, Owned
    <3>2. s \in Syncs /\ sync[s] \in Sync
      BY <3>1, CurrentIsUsed, SyncState
    <3>3. sync'[s].state = "WAITING" /\ \A r \in Syncs \ {s} : sync'[r] = sync[r]
      BY <3>1, <3>2 DEF IInv, TypeOK, Sync
    <3>4. \A r \in Syncs : Abstract(sync'[r].state) = Abstract(sync[r].state)
      BY <3>1, <3>3 DEF Abstract
    <3>. QED
      BY <3>1, <3>4, QuietRefines
  <2>3. CASE ~ OwnerReports(t) /\ ~ TakesOver(t)
    <3>1. UNCHANGED <<sync, work>>
      BY <1>3, <2>3 DEF StartWait, StartExport, Begin, ThreadStep, AnyTimesOut,
                  AnyPollsAgain, FindsSignaled, FindsFailed, FindsBusy, Sleeps, Wakes,
                  SleepTimesOut, CallbackReturns, ExportsFile, ExportsWork, ExportReturns,
                  ExportWaits
    <3>. QED
      BY <3>1, QuietRefines
  <2>. QED
    BY <2>1, <2>2, <2>3
<1>. QED
  BY <1>1, <1>2, <1>3 DEF Next

(* A kbase_cpu_sync is a binary payload: it is signalled only by the host  *)
(* or once the work it was armed with last is done, failed only if that    *)
(* work failed, and neither time-outs nor the hand-over of the wait show.  *)
THEOREM SyncsAreBinaryPayloads == Spec => IsABinaryPayload
<1>1. Init => ResultsAreTrue
  BY DEF Init, ResultsAreTrue
<1>2. IInv /\ IInv' /\ ResultsAreTrue /\ [Next]_vars => [Payloads!Next]_Payloads!vars
  BY StepRefines
<1>. QED
  BY <1>1, <1>2, InitRefines, ResultsStayTrue, IInvHolds, PTL
     DEF Spec, Payloads!Spec, IsABinaryPayload

=============================================================================
