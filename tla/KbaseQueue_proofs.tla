-------------------------- MODULE KbaseQueue_proofs --------------------------
(***************************************************************************)
(* Proofs about KbaseQueue, for any number of atoms, threads and           *)
(* submissions and under every combination of faults.                      *)
(***************************************************************************)
EXTENDS KbaseQueue, FiniteSetTheorems, SequenceTheorems, TLAPS

(* A call is about a submission that was made before it.                   *)
CallsAreForSubmitted == \A t \in Threads : call[t].seqno <= last_seqno

(* The reader is unique and is what k->reading stands for.                 *)
Readers == {"poll", "lock", "handle"}
ReaderIsUnique ==
  /\ reading <=> \E t \in Threads : pc[t] \in Readers
  /\ \A t, u \in Threads : pc[t] \in Readers /\ pc[u] \in Readers => t = u

(* The inductive invariant.                                                *)
IInv ==
  /\ TypeOK
  /\ FreeCountIsExact
  /\ RingHoldsTheSeqnosInFlight
  /\ SubmissionsOwnTheirNumbers
  /\ CallsAreForSubmitted
  /\ ReaderIsUnique
  /\ SleepersHaveAReader

-----------------------------------------------------------------------------
(* Lemmas on the kernel's records                                          *)

LEMMA KNewType ==
  ASSUME NEW kind \in {"JOB", "FENCE_WAIT", "FENCE_TRIGGER", "DEP"},
         NEW order \in SUBSET Atoms, NEW data \in SUBSET Atoms,
         NEW quiet \in BOOLEAN, NEW s \in Nat
  PROVE  KNew(kind, order, data, quiet, s) \in KAtom
BY DEF KNew, KAtom, Codes

LEMMA KUnusedType ==
  ASSUME NEW code \in Codes
  PROVE  KUnused(code) \in KAtom
BY DEF KUnused, KNew, KAtom, Codes

LEMMA EnqueuedType ==
  ASSUME katom \in [Atoms -> KAtom],
         NEW new, \A a \in DOMAIN new : new[a] \in KAtom
  PROVE  Enqueued(new) \in [Atoms -> KAtom]
<1>1. SUFFICES ASSUME NEW a \in Atoms, a \in DOMAIN new
               PROVE  Enqueued(new)[a] \in KAtom
  BY DEF Enqueued
<1>. DEFINE bad == \E d \in new[a].data : /\ ~ (d \in DOMAIN new \/ Live(d))
                                         /\ katom[d].code # "DONE"
            order == {d \in new[a].order : d \in DOMAIN new \/ Live(d)}
            data == {d \in new[a].data : d \in DOMAIN new \/ Live(d)}
<1>2. Enqueued(new)[a] = [new[a] EXCEPT !.order = order, !.data = data, !.bad = bad]
  BY <1>1 DEF Enqueued
<1>3. bad \in BOOLEAN
  OBVIOUS
<1>4. order \in SUBSET Atoms /\ data \in SUBSET Atoms
  BY <1>1 DEF KAtom
<1>5. new[a] \in KAtom
  BY <1>1
<1>. HIDE DEF bad, order, data
<1>. QED
  BY <1>2, <1>3, <1>4, <1>5 DEF KAtom

-----------------------------------------------------------------------------
(* Lemmas on the atom numbers                                              *)

LEMMA FreeIsFinite == IsFiniteSet(Free) /\ Cardinality(Free) \in 0 .. Cardinality(Atoms)
<1>1. Free \in SUBSET Atoms
  BY DEF Free
<1>. QED
  BY <1>1, AtomsAssumption, FS_Subset, FS_CardinalityType

LEMMA FreeIsFinitePrime ==
  IsFiniteSet(Free') /\ Cardinality(Free') \in 0 .. Cardinality(Atoms)
<1>1. Free' \in SUBSET Atoms
  BY DEF Free
<1>. QED
  BY <1>1, AtomsAssumption, FS_Subset, FS_CardinalityType

LEMMA DisjointUnion ==
  ASSUME NEW S, NEW T, IsFiniteSet(S), IsFiniteSet(T), S \cap T = {}
  PROVE  Cardinality(S \cup T) = Cardinality(S) + Cardinality(T)
<1>1. Cardinality(S \cup T) = Cardinality(S) + Cardinality(T) - Cardinality(S \cap T)
  BY FS_Union
<1>2. Cardinality(S \cap T) = 0
  BY FS_EmptySet, Zenon
<1>3. Cardinality(S) \in Nat /\ Cardinality(T) \in Nat
  BY FS_CardinalityType
<1>. HIDE DEF Cardinality
<1>. QED
  BY <1>1, <1>2, <1>3

(* panvk_kbase_free_atoms keeps nr_free exact when none of the numbers is  *)
(* free already (its assertion).                                           *)
LEMMA FreeAtomsKeepsCount ==
  ASSUME TypeOK, FreeCountIsExact, NEW as \in SUBSET Atoms,
         as \cap Free = {}, FreeAtoms(as)
  PROVE  /\ FreeCountIsExact'
         /\ atom_use' \in [Atoms -> {"FREE", "SUB", "AUX"}]
         /\ nr_free' \in 0 .. Cardinality(Atoms)
         /\ \A a \in Atoms \ as : atom_use'[a] = atom_use[a]
<1>1. atom_use' \in [Atoms -> {"FREE", "SUB", "AUX"}]
  BY DEF FreeAtoms, TypeOK
<1>2. Free' = Free \cup as
  BY DEF FreeAtoms, Free, TypeOK
<1>3. IsFiniteSet(as) /\ IsFiniteSet(Free)
  BY FreeIsFinite, AtomsAssumption, FS_Subset
<1>4. Cardinality(Free \cup as) = Cardinality(Free) + Cardinality(as)
  <2>1. Free \cap as = {}
    OBVIOUS
  <2>. QED
    BY ONLY <1>3, <2>1, DisjointUnion, Zenon
<1>5. Cardinality(Free') = Cardinality(Free) + Cardinality(as)
  BY ONLY <1>2, <1>4, Zenon
<1>6. nr_free' = Cardinality(Free) + Cardinality(as)
  BY DEF FreeAtoms, FreeCountIsExact
<1>. QED
  BY <1>1, <1>5, <1>6, FreeIsFinitePrime DEF FreeCountIsExact, FreeAtoms

(* What panvk_kbase_alloc_atoms returns: as many different free numbers as *)
(* it was asked for.                                                       *)
LEMMA AllocationsAreFree ==
  ASSUME NEW n \in Nat, NEW nums \in Allocations(n)
  PROVE  /\ nums \in Seq(Atoms) /\ Len(nums) = n
         /\ \A i \in 1 .. n : nums[i] \in NumbersOf(nums)
         /\ NumbersOf(nums) \in SUBSET Free
         /\ IsFiniteSet(NumbersOf(nums)) /\ Cardinality(NumbersOf(nums)) = n
<1>1. nums \in [1 .. n -> Free] /\ Free \subseteq Atoms
  BY DEF Allocations, Free
<1>2. nums \in Seq(Free) /\ nums \in Seq(Atoms) /\ Len(nums) = n
  BY <1>1
<1>3. NumbersOf(nums) \in SUBSET Free
  BY <1>1, <1>2 DEF NumbersOf
<1>4. nums \in Bijection(1 .. n, NumbersOf(nums))
  BY <1>1, <1>2 DEF Allocations, NumbersOf, Bijection, Injection, Surjection, IsInjective
<1>5. IsFiniteSet(1 .. n) /\ Cardinality(1 .. n) = n
  BY FS_Interval
<1>6. ExistsBijection(1 .. n, NumbersOf(nums))
  BY <1>4 DEF ExistsBijection
<1>. QED
  BY <1>2, <1>3, <1>5, <1>6, FS_Bijection DEF NumbersOf

LEMMA AllocateKeepsCount ==
  ASSUME TypeOK, FreeCountIsExact, NEW n \in Nat, NEW nums \in Allocations(n),
         NEW use \in {"SUB", "AUX"}, Allocate(nums, use)
  PROVE  /\ FreeCountIsExact'
         /\ atom_use' \in [Atoms -> {"FREE", "SUB", "AUX"}]
         /\ nr_free' \in 0 .. Cardinality(Atoms)
         /\ \A a \in NumbersOf(nums) : atom_use'[a] = use
         /\ \A a \in Atoms \ NumbersOf(nums) : atom_use'[a] = atom_use[a]
<1>1. NumbersOf(nums) \in SUBSET Free /\ IsFiniteSet(NumbersOf(nums))
      /\ Cardinality(NumbersOf(nums)) = n /\ Len(nums) = n
  BY AllocationsAreFree
<1>2. atom_use' \in [Atoms -> {"FREE", "SUB", "AUX"}]
  BY DEF Allocate, TypeOK
<1>3. Free' = Free \ NumbersOf(nums)
  BY <1>1 DEF Allocate, Free, TypeOK
<1>4. Cardinality(Free \ NumbersOf(nums)) = Cardinality(Free) - Cardinality(Free \cap NumbersOf(nums))
  BY FreeIsFinite, FS_Difference
<1>5. Free \cap NumbersOf(nums) = NumbersOf(nums)
  BY <1>1
<1>6. nr_free' = Cardinality(Free')
  BY <1>1, <1>3, <1>4, <1>5 DEF Allocate, FreeCountIsExact
<1>7. \A a \in NumbersOf(nums) : a \in Atoms
  BY <1>1 DEF Free
<1>. QED
  BY <1>2, <1>6, <1>7, FreeIsFinitePrime DEF FreeCountIsExact, Allocate

-----------------------------------------------------------------------------
(* Lemmas on the parts of the invariant that a step leaves alone           *)

numbers == <<atom_use, nr_free, subs, last_seqno, completed_seqno>>

LEMMA NumbersUnchanged ==
  ASSUME IInv, UNCHANGED numbers
  PROVE  /\ FreeCountIsExact' /\ RingHoldsTheSeqnosInFlight'
         /\ SubmissionsOwnTheirNumbers'
BY DEF IInv, numbers, FreeCountIsExact, Free, RingHoldsTheSeqnosInFlight,
       SubmissionsOwnTheirNumbers

(* A thread that is not the reader moves, and does not become it.          *)
LEMMA ReaderStays ==
  ASSUME IInv, NEW t \in Threads, NEW there,
         pc[t] \notin Readers, there \notin Readers,
         pc' = [pc EXCEPT ![t] = there], reading' = reading
  PROVE  ReaderIsUnique'
<1>1. \A u \in Threads : pc'[u] \in Readers <=> pc[u] \in Readers
  BY DEF IInv, TypeOK
<1>. QED
  BY <1>1 DEF IInv, ReaderIsUnique

(* The reader moves on.                                                    *)
LEMMA ReaderMoves ==
  ASSUME IInv, NEW t \in Threads, NEW there,
         pc[t] \in Readers, there \in Readers,
         pc' = [pc EXCEPT ![t] = there], reading' = reading
  PROVE  ReaderIsUnique'
<1>1. \A u \in Threads : pc'[u] \in Readers <=> pc[u] \in Readers
  BY DEF IInv, TypeOK
<1>. QED
  BY <1>1 DEF IInv, ReaderIsUnique

LEMMA CallUpdate ==
  ASSUME IInv, NEW t \in Threads, NEW c \in Call, call' = [call EXCEPT ![t] = c],
         c.seqno <= last_seqno', last_seqno' \in Nat, last_seqno <= last_seqno'
  PROVE  call' \in [Threads -> Call] /\ CallsAreForSubmitted'
<1>1. call' \in [Threads -> Call]
  BY DEF IInv, TypeOK
<1>2. ASSUME NEW u \in Threads PROVE call'[u].seqno <= last_seqno'
  <2>1. call[u].seqno \in Nat /\ last_seqno \in Nat
    BY DEF IInv, TypeOK, Call
  <2>2. call[u].seqno <= last_seqno
    BY DEF IInv, CallsAreForSubmitted
  <2>3. CASE u = t
    BY <2>3 DEF IInv, TypeOK
  <2>4. CASE u # t
    BY <2>1, <2>2, <2>4 DEF IInv, TypeOK
  <2>. QED
    BY <2>3, <2>4
<1>. QED
  BY <1>1, <1>2 DEF CallsAreForSubmitted

LEMMA NoCallType == NoCall \in Call /\ NoCall.seqno = 0
BY DEF NoCall, Call, Timeouts, Loops

LEMMA SeqnoCall ==
  ASSUME NEW c \in Call, NEW s \in Nat, NEW timeout \in Timeouts
  PROVE  /\ [c EXCEPT !.seqno = s, !.timeout = timeout] \in Call
         /\ [c EXCEPT !.seqno = s, !.timeout = timeout].seqno = s
BY DEF Call

LEMMA JobsCall ==
  ASSUME NEW c \in Call, NEW n \in Nat, NEW w \in BOOLEAN, NEW timeout \in Timeouts
  PROVE  /\ [c EXCEPT !.timeout = timeout, !.nr_jobs = n, !.wait_fd = w] \in Call
         /\ [c EXCEPT !.timeout = timeout, !.nr_jobs = n, !.wait_fd = w].seqno = c.seqno
BY DEF Call

(* Leaving a call.                                                         *)
LEMMA ReturnStep ==
  ASSUME IInv, NEW t \in Threads, Return(t), pc[t] \notin Readers,
         reading' = reading, last_seqno' \in Nat, last_seqno <= last_seqno'
  PROVE  /\ mtx' \in Threads \cup {NoThread}
         /\ pc' \in [Threads -> {"idle", "wait", "submit", "export", "export_alloc",
                                 "enter_wait", "cond", "poll", "lock", "handle"}]
         /\ call' \in [Threads -> Call] /\ CallsAreForSubmitted'
         /\ ReaderIsUnique'
<1>1. call' = [call EXCEPT ![t] = NoCall] /\ mtx' = NoThread /\ pc' = [pc EXCEPT ![t] = "idle"]
  BY DEF Return
<1>2. call' \in [Threads -> Call] /\ CallsAreForSubmitted'
  <2>1. NoCall \in Call /\ NoCall.seqno <= last_seqno'
    BY NoCallType
  <2>. QED
    BY <1>1, <2>1, CallUpdate
<1>3. ReaderIsUnique'
  BY <1>1, ReaderStays DEF Readers
<1>. QED
  BY <1>1, <1>2, <1>3 DEF IInv, TypeOK

-----------------------------------------------------------------------------
(* The steps                                                               *)

LEMMA StartKeepsIInv ==
  ASSUME IInv, NEW t \in Threads, Start(t)
  PROVE  IInv'
<1>1. PICK where \in {"wait", "submit", "export"}, c \in Call :
        c.seqno <= last_seqno /\ Begin(t, where, c)
  <2>1. CASE StartWait(t)
    <3>1. PICK s \in 1 .. last_seqno, timeout \in Timeouts :
            Begin(t, "wait", [NoCall EXCEPT !.seqno = s, !.timeout = timeout])
      BY <2>1 DEF StartWait
    <3>. DEFINE c == [NoCall EXCEPT !.seqno = s, !.timeout = timeout]
    <3>9. s \in Nat /\ NoCall \in Call /\ "infinite" \in Timeouts
      BY NoCallType DEF IInv, TypeOK, Timeouts
    <3>2. c \in Call /\ c.seqno = s
      BY <3>9, SeqnoCall
    <3>. HIDE DEF c
    <3>3. c.seqno <= last_seqno
      BY <3>2 DEF IInv, TypeOK
    <3>. QED
      BY <3>1, <3>2, <3>3 DEF c
  <2>2. CASE StartSubmit(t)
    <3>1. PICK n \in 0 .. MaxJobs, w \in BOOLEAN :
            Begin(t, "submit", [NoCall EXCEPT !.timeout = "infinite",
                                              !.nr_jobs = n, !.wait_fd = w])
      BY <2>2 DEF StartSubmit
    <3>. DEFINE c == [NoCall EXCEPT !.timeout = "infinite",
                                    !.nr_jobs = n, !.wait_fd = w]
    <3>9. n \in Nat /\ NoCall \in Call /\ "infinite" \in Timeouts
      BY NoCallType, BoundsAssumption DEF Timeouts
    <3>2. c \in Call /\ c.seqno = NoCall.seqno
      BY <3>9, JobsCall, ZenonT(60)
    <3>. HIDE DEF c
    <3>3. c.seqno <= last_seqno
      BY <3>2, NoCallType DEF IInv, TypeOK
    <3>. QED
      BY <3>1, <3>2, <3>3 DEF c
  <2>3. CASE StartExport(t)
    <3>1. PICK s \in 1 .. last_seqno :
            Begin(t, "export", [NoCall EXCEPT !.seqno = s, !.timeout = "infinite"])
      BY <2>3 DEF StartExport
    <3>. DEFINE c == [NoCall EXCEPT !.seqno = s, !.timeout = "infinite"]
    <3>9. s \in Nat /\ NoCall \in Call /\ "infinite" \in Timeouts
      BY NoCallType DEF IInv, TypeOK, Timeouts
    <3>2. c \in Call /\ c.seqno = s
      BY <3>9, SeqnoCall
    <3>. HIDE DEF c
    <3>3. c.seqno <= last_seqno
      BY <3>2 DEF IInv, TypeOK
    <3>. QED
      BY <3>1, <3>2, <3>3 DEF c
  <2>. QED
    BY <2>1, <2>2, <2>3 DEF Start
<1>2. /\ pc[t] = "idle" /\ mtx' = t /\ pc' = [pc EXCEPT ![t] = where]
      /\ call' = [call EXCEPT ![t] = c] /\ UNCHANGED <<jm, cnd, kernel, history>>
  BY <1>1 DEF Begin
<1>3. UNCHANGED numbers /\ UNCHANGED <<reading, lost>>
  BY <1>2 DEF jm, numbers
<1>4. call' \in [Threads -> Call] /\ CallsAreForSubmitted'
  <2>1. last_seqno' = last_seqno /\ last_seqno \in Nat /\ last_seqno <= last_seqno
    BY <1>3 DEF IInv, TypeOK, numbers
  <2>. QED
    BY <1>1, <1>2, <2>1, CallUpdate
<1>5. ReaderIsUnique'
  BY <1>2, <1>3, ReaderStays DEF Readers
<1>6. TypeOK'
  BY <1>2, <1>3, <1>4 DEF IInv, TypeOK, numbers, kernel, history
<1>7. SleepersHaveAReader'
  BY <1>2, <1>3 DEF IInv, SleepersHaveAReader
<1>. QED
  BY <1>3, <1>4, <1>5, <1>6, <1>7, NumbersUnchanged DEF IInv

LEMMA QuietReturn ==
  ASSUME IInv, NEW t \in Threads, Return(t), pc[t] \notin Readers,
         UNCHANGED <<jm, cnd, kernel, broken>>, told' \subseteq Nat
  PROVE  IInv'
<1>1. UNCHANGED numbers /\ UNCHANGED <<reading, lost, katom, events, fence>>
  BY DEF jm, numbers, kernel
<1>2. last_seqno' = last_seqno /\ last_seqno \in Nat /\ last_seqno <= last_seqno
  BY <1>1 DEF IInv, TypeOK, numbers
<1>3. /\ mtx' \in Threads \cup {NoThread}
      /\ pc' \in [Threads -> {"idle", "wait", "submit", "export", "export_alloc",
                              "enter_wait", "cond", "poll", "lock", "handle"}]
      /\ call' \in [Threads -> Call] /\ CallsAreForSubmitted'
      /\ ReaderIsUnique'
  BY <1>1, <1>2, ReturnStep
<1>4. TypeOK'
  BY <1>1, <1>3 DEF IInv, TypeOK, numbers
<1>5. SleepersHaveAReader'
  BY <1>1 DEF IInv, SleepersHaveAReader
<1>. QED
  BY <1>1, <1>3, <1>4, <1>5, NumbersUnchanged DEF IInv

(* The calls that return without touching the ring.                        *)
LEMMA ReturnsKeepIInv ==
  ASSUME IInv, NEW t \in Threads,
         WaitReturns(t) \/ SubmitReturns(t) \/ ExportReturns(t) \/ ExportAllocFails(t)
  PROVE  IInv'
<1>1. call[t].seqno \in Nat /\ told \subseteq Nat
  BY DEF IInv, TypeOK, Call
<1>2. CASE WaitReturns(t)
  <2>1. told' \subseteq Nat
    BY <1>1, <1>2 DEF WaitReturns
  <2>. QED
    BY <1>2, <2>1, QuietReturn DEF WaitReturns, Holds, Readers
<1>3. CASE SubmitReturns(t)
  <2>1. told' \subseteq Nat /\ UNCHANGED broken
    BY <1>1, <1>3 DEF SubmitReturns, history
  <2>. QED
    BY <1>3, <2>1, QuietReturn DEF SubmitReturns, Holds, Readers
<1>4. CASE ExportReturns(t)
  <2>1. told' \subseteq Nat
    BY <1>1, <1>4 DEF ExportReturns
  <2>. QED
    BY <1>4, <2>1, QuietReturn DEF ExportReturns, Holds, Readers
<1>5. CASE ExportAllocFails(t)
  <2>1. told' \subseteq Nat /\ UNCHANGED broken
    BY <1>1, <1>5 DEF ExportAllocFails, history
  <2>. QED
    BY <1>5, <2>1, QuietReturn DEF ExportAllocFails, Holds, Readers
<1>. QED
  BY <1>2, <1>3, <1>4, <1>5

(* What progress_locked changes in a thread's locals.                      *)
LEMMA LocalsCall ==
  ASSUME NEW c \in Call
  PROVE  /\ \A loop \in Loops : LET d == [c EXCEPT !.loop = loop]
                                IN d \in Call /\ d.seqno = c.seqno
         /\ \A prog \in BOOLEAN : LET d == [c EXCEPT !.prog = prog]
                                  IN d \in Call /\ d.seqno = c.seqno
         /\ \A failed \in BOOLEAN : LET d == [c EXCEPT !.failed = failed]
                                    IN d \in Call /\ d.seqno = c.seqno
         /\ \A ev \in Seq(Event) : LET d == [c EXCEPT !.ev = ev]
                                   IN d \in Call /\ d.seqno = c.seqno
<1>1. ASSUME NEW loop \in Loops
      PROVE  [c EXCEPT !.loop = loop] \in Call /\ [c EXCEPT !.loop = loop].seqno = c.seqno
  BY DEF Call
<1>2. ASSUME NEW prog \in BOOLEAN
      PROVE  [c EXCEPT !.prog = prog] \in Call /\ [c EXCEPT !.prog = prog].seqno = c.seqno
  BY DEF Call
<1>3. ASSUME NEW failed \in BOOLEAN
      PROVE  /\ [c EXCEPT !.failed = failed] \in Call
             /\ [c EXCEPT !.failed = failed].seqno = c.seqno
  BY DEF Call
<1>4. ASSUME NEW ev \in Seq(Event)
      PROVE  [c EXCEPT !.ev = ev] \in Call /\ [c EXCEPT !.ev = ev].seqno = c.seqno
  BY DEF Call
<1>. QED
  BY <1>1, <1>2, <1>3, <1>4

LEMMA ReadCall ==
  ASSUME NEW c \in Call, NEW ev \in Seq(Event), NEW prog \in BOOLEAN
  PROVE  /\ [c EXCEPT !.ev = ev, !.prog = prog] \in Call
         /\ [c EXCEPT !.ev = ev, !.prog = prog].seqno = c.seqno
BY DEF Call

LEMMA FailCall ==
  ASSUME NEW c \in Call
  PROVE  /\ [c EXCEPT !.prog = TRUE, !.failed = TRUE] \in Call
         /\ [c EXCEPT !.prog = TRUE, !.failed = TRUE].seqno = c.seqno
BY DEF Call

LEMMA LocalsUpdate ==
  ASSUME IInv, NEW t \in Threads, NEW c \in Call, c.seqno = call[t].seqno,
         call' = [call EXCEPT ![t] = c], last_seqno' = last_seqno
  PROVE  call' \in [Threads -> Call] /\ CallsAreForSubmitted'
<1>1. c.seqno <= last_seqno /\ last_seqno \in Nat /\ last_seqno <= last_seqno
  BY DEF IInv, TypeOK, CallsAreForSubmitted
<1>. QED
  BY <1>1, CallUpdate

(* A step of a thread inside a call, or of the reader, that leaves the     *)
(* ring and the numbers alone.                                             *)
LEMMA LocalStep ==
  ASSUME IInv, NEW t \in Threads, UNCHANGED numbers,
         NEW c \in Call, c.seqno = call[t].seqno, call' = [call EXCEPT ![t] = c],
         mtx' \in Threads \cup {NoThread}, cnd' \subseteq Threads,
         reading' \in BOOLEAN, lost' \in BOOLEAN,
         pc' \in [Threads -> {"idle", "wait", "submit", "export", "export_alloc",
                             "enter_wait", "cond", "poll", "lock", "handle"}],
         katom' \in [Atoms -> KAtom], events' \in Seq(Event),
         UNCHANGED <<fence, told, broken>>,
         ReaderIsUnique', SleepersHaveAReader'
  PROVE  IInv'
<1>1. call' \in [Threads -> Call] /\ CallsAreForSubmitted'
  BY LocalsUpdate DEF numbers
<1>2. TypeOK'
  BY <1>1 DEF IInv, TypeOK, numbers
<1>. QED
  BY <1>1, <1>2, NumbersUnchanged DEF IInv

(* The loops wait, submit and export_alloc call progress_locked.           *)
LEMMA ProgressKeepsIInv ==
  ASSUME IInv, NEW t \in Threads, Holds(t, pc[t]), pc[t] \in Loops, Progress(t)
  PROVE  IInv'
<1>1. UNCHANGED numbers /\ UNCHANGED <<lost, kernel, history>>
  BY DEF Progress, numbers
<1>2. call[t] \in Call /\ FALSE \in BOOLEAN /\ pc[t] \in Loops /\ t \in Threads
  BY DEF IInv, TypeOK
<1>3. PICK c \in Call : c.seqno = call[t].seqno /\ call' = [call EXCEPT ![t] = c]
  <2>1. CASE call' = [call EXCEPT ![t].prog = FALSE]
    <3>. DEFINE d == [call[t] EXCEPT !.prog = FALSE]
    <3>1. d \in Call /\ d.seqno = call[t].seqno
      BY <1>2, LocalsCall
    <3>2. call' = [call EXCEPT ![t] = d]
      BY <2>1
    <3>. QED
      BY <3>1, <3>2
  <2>2. CASE call' = [call EXCEPT ![t].loop = pc[t]]
    <3>. DEFINE d == [call[t] EXCEPT !.loop = pc[t]]
    <3>1. d \in Call /\ d.seqno = call[t].seqno
      BY <1>2, LocalsCall
    <3>2. call' = [call EXCEPT ![t] = d]
      BY <2>2
    <3>. QED
      BY <3>1, <3>2
  <2>. QED
    BY <2>1, <2>2 DEF Progress, ProgressAsFollower, ProgressAsReader
<1>4. /\ mtx' \in Threads \cup {NoThread} /\ cnd' \subseteq Threads
      /\ reading' \in BOOLEAN /\ lost' \in BOOLEAN
      /\ pc' \in [Threads -> {"idle", "wait", "submit", "export", "export_alloc",
                              "enter_wait", "cond", "poll", "lock", "handle"}]
  BY <1>1 DEF IInv, TypeOK, Progress, ProgressAsFollower, ProgressAsReader
<1>5. ReaderIsUnique' /\ SleepersHaveAReader'
  <2>1. CASE ProgressAsFollower(t)
    <3>1. ReaderIsUnique'
      <4>1. CASE UNCHANGED pc
        BY <2>1, <4>1 DEF ProgressAsFollower, IInv, ReaderIsUnique
      <4>2. CASE pc' = [pc EXCEPT ![t] = "cond"]
        BY <2>1, <4>2, ReaderStays DEF ProgressAsFollower, Loops, Readers
      <4>. QED
        BY <2>1, <4>1, <4>2 DEF ProgressAsFollower
    <3>. QED
      BY <2>1, <3>1 DEF ProgressAsFollower, SleepersHaveAReader
  <2>2. CASE ProgressAsReader(t)
    <3>1. pc' = [pc EXCEPT ![t] = "poll"] /\ reading' = TRUE
      BY <2>2 DEF ProgressAsReader
    <3>2. \A u \in Threads : pc[u] \notin Readers
      BY <2>2 DEF ProgressAsReader, IInv, ReaderIsUnique
    <3>3. \A u \in Threads : pc'[u] \in Readers <=> u = t
      BY <3>1, <3>2 DEF IInv, TypeOK, Readers
    <3>. QED
      BY <3>1, <3>3 DEF ReaderIsUnique, SleepersHaveAReader
  <2>. QED
    BY <2>1, <2>2 DEF Progress
<1>. QED
  BY <1>1, <1>3, <1>4, <1>5, LocalStep DEF IInv, TypeOK, kernel, history

LEMMA CondReturnKeepsIInv ==
  ASSUME IInv, NEW t \in Threads, NEW progress \in BOOLEAN, CondReturn(t, progress)
  PROVE  IInv'
<1>1. UNCHANGED <<numbers, reading, lost, kernel, history>>
  BY DEF CondReturn, jm, numbers
<1>. DEFINE c == [call[t] EXCEPT !.prog = progress]
<1>2. c \in Call /\ c.seqno = call[t].seqno
  BY LocalsCall DEF IInv, TypeOK
<1>3. call[t].loop \in Loops
  BY DEF IInv, TypeOK, Call
<1>4. call' = [call EXCEPT ![t] = c] /\ pc' = [pc EXCEPT ![t] = call[t].loop]
  BY DEF CondReturn
<1>. HIDE DEF c
<1>5. ReaderIsUnique'
  <2>1. pc[t] \notin Readers /\ call[t].loop \notin Readers
    BY <1>3 DEF CondReturn, Readers, Loops
  <2>. QED
    BY <1>1, <1>4, <2>1, ReaderStays
<1>6. SleepersHaveAReader'
  BY <1>1 DEF CondReturn, IInv, SleepersHaveAReader
<1>7. pc' \in [Threads -> {"idle", "wait", "submit", "export", "export_alloc",
                          "enter_wait", "cond", "poll", "lock", "handle"}]
  BY <1>3, <1>4 DEF IInv, TypeOK, Loops
<1>8. /\ mtx' \in Threads \cup {NoThread} /\ cnd' \subseteq Threads
      /\ reading' \in BOOLEAN /\ lost' \in BOOLEAN
      /\ katom' \in [Atoms -> KAtom] /\ events' \in Seq(Event)
      /\ UNCHANGED numbers /\ UNCHANGED <<fence, told, broken>>
  BY <1>1 DEF CondReturn, IInv, TypeOK, kernel, history
<1>. QED
  BY <1>2, <1>4, <1>5, <1>6, <1>7, <1>8, LocalStep

(* The steps that only move a thread: lock, and the export's two looks.    *)
LEMMA MovesKeepIInv ==
  ASSUME IInv, NEW t \in Threads, Lock(t) \/ ExportNeedsFence(t) \/ ExportLooksAgain(t)
  PROVE  IInv'
<1>1. UNCHANGED <<numbers, reading, lost, cnd, kernel, history, call>>
  BY DEF Lock, ExportNeedsFence, ExportLooksAgain, jm, numbers
<1>2. call[t] \in Call /\ call' = [call EXCEPT ![t] = call[t]]
  BY <1>1 DEF IInv, TypeOK
<1>3. PICK there \in {"handle", "wait", "export", "export_alloc"} :
        /\ pc' = [pc EXCEPT ![t] = there]
        /\ pc[t] \in Readers <=> there \in Readers
  BY DEF Lock, ExportNeedsFence, ExportLooksAgain, HasNumber, Holds, Readers, IInv, TypeOK
<1>4. ReaderIsUnique'
  BY <1>1, <1>3, ReaderStays, ReaderMoves
<1>5. SleepersHaveAReader'
  BY <1>1 DEF IInv, SleepersHaveAReader
<1>6. /\ mtx' \in Threads \cup {NoThread}
      /\ pc' \in [Threads -> {"idle", "wait", "submit", "export", "export_alloc",
                              "enter_wait", "cond", "poll", "lock", "handle"}]
  BY <1>3 DEF IInv, TypeOK, Lock, ExportNeedsFence, ExportLooksAgain
<1>. QED
  BY <1>1, <1>2, <1>4, <1>5, <1>6, LocalStep DEF IInv, TypeOK, kernel, history

(* ppoll and read.                                                         *)
LEMMA PollKeepsIInv ==
  ASSUME IInv, NEW t \in Threads, PollEvents(t) \/ PollTimedOut(t) \/ PollFailed(t)
  PROVE  IInv'
<1>1. /\ UNCHANGED <<numbers, reading, lost, mtx, cnd, fence, history>>
      /\ pc[t] = "poll" /\ pc' = [pc EXCEPT ![t] = "lock"]
  BY DEF PollEvents, PollTimedOut, PollFailed, jm, numbers, kernel
<1>2. call[t] \in Call /\ TRUE \in BOOLEAN /\ FALSE \in BOOLEAN
  BY DEF IInv, TypeOK
<1>3. /\ katom' \in [Atoms -> KAtom] /\ events' \in Seq(Event)
      /\ \E c \in Call : c.seqno = call[t].seqno /\ call' = [call EXCEPT ![t] = c]
  <2>1. CASE PollEvents(t)
    <3>. DEFINE n == IF Len(events) < MaxRead THEN Len(events) ELSE MaxRead
                read == {events[i].atom : i \in 1 .. n}
                c == [call[t] EXCEPT !.ev = SubSeq(events, 1, n), !.prog = TRUE]
    <3>1. events \in Seq(Event) /\ n \in Nat /\ n <= Len(events)
      BY BoundsAssumption DEF IInv, TypeOK
    <3>2. /\ call' = [call EXCEPT ![t] = c]
          /\ events' = SubSeq(events, n + 1, Len(events))
          /\ katom' = [a \in Atoms |-> IF a \in read THEN KUnused(katom[a].code)
                                                     ELSE katom[a]]
      BY <2>1 DEF PollEvents
    <3>. HIDE DEF n
    <3>3. SubSeq(events, 1, n) \in Seq(Event)
      BY <3>1
    <3>4. SubSeq(events, n + 1, Len(events)) \in Seq(Event)
      BY <3>1
    <3>5. c \in Call /\ c.seqno = call[t].seqno
      BY <1>2, <3>3, ReadCall
    <3>6. katom' \in [Atoms -> KAtom]
      <4>1. katom \in [Atoms -> KAtom]
        BY DEF IInv, TypeOK
      <4>2. \A a \in Atoms : KUnused(katom[a].code) \in KAtom
        <5>1. \A a \in Atoms : katom[a].code \in Codes
          BY <4>1 DEF KAtom
        <5>. QED
          BY <5>1, KUnusedType
      <4>. QED
        BY <3>2, <4>1, <4>2
    <3>. QED
      BY <3>2, <3>4, <3>5, <3>6
  <2>2. CASE PollTimedOut(t)
    <3>. DEFINE c == [call[t] EXCEPT !.prog = FALSE]
    <3>1. c \in Call /\ c.seqno = call[t].seqno
      BY <1>2, LocalsCall
    <3>2. call' = [call EXCEPT ![t] = c]
      BY <2>2 DEF PollTimedOut
    <3>. QED
      BY <2>2, <3>1, <3>2 DEF PollTimedOut, kernel, IInv, TypeOK
  <2>3. CASE PollFailed(t)
    <3>. DEFINE c == [call[t] EXCEPT !.prog = TRUE, !.failed = TRUE]
    <3>1. c \in Call /\ c.seqno = call[t].seqno
      BY <1>2, FailCall
    <3>2. call' = [call EXCEPT ![t] = c]
      BY <2>3 DEF PollFailed
    <3>. QED
      BY <2>3, <3>1, <3>2 DEF PollFailed, kernel, IInv, TypeOK
  <2>. QED
    BY <2>1, <2>2, <2>3
<1>4. PICK c \in Call : c.seqno = call[t].seqno /\ call' = [call EXCEPT ![t] = c]
  BY <1>3
<1>5. ReaderIsUnique'
  BY <1>1, ReaderMoves DEF Readers
<1>6. SleepersHaveAReader'
  BY <1>1 DEF IInv, SleepersHaveAReader
<1>7. /\ mtx' \in Threads \cup {NoThread} /\ cnd' \subseteq Threads
      /\ reading' \in BOOLEAN /\ lost' \in BOOLEAN
      /\ UNCHANGED numbers /\ UNCHANGED <<fence, told, broken>>
      /\ pc' \in [Threads -> {"idle", "wait", "submit", "export", "export_alloc",
                              "enter_wait", "cond", "poll", "lock", "handle"}]
  BY <1>1 DEF IInv, TypeOK, history
<1>. QED
  BY <1>3, <1>4, <1>5, <1>6, <1>7, LocalStep

(* Stop being the reader: it was the only one.                             *)
LEMMA FinishProgressKeepsIInv ==
  ASSUME IInv, NEW t \in Threads, FinishProgress(t)
  PROVE  IInv'
<1>. DEFINE c == [call[t] EXCEPT !.failed = FALSE]
<1>1. c \in Call /\ c.seqno = call[t].seqno
  BY LocalsCall DEF IInv, TypeOK
<1>2. /\ call' = [call EXCEPT ![t] = c] /\ pc' = [pc EXCEPT ![t] = call[t].loop]
      /\ reading' = FALSE /\ cnd' = {} /\ mtx' = mtx
      /\ UNCHANGED numbers /\ UNCHANGED <<kernel, history>>
  BY DEF FinishProgress, Broadcast, numbers
<1>. HIDE DEF c
<1>3. call[t].loop \in Loops /\ call[t].failed \in BOOLEAN
  BY DEF IInv, TypeOK, Call
<1>4. ReaderIsUnique'
  <2>1. \A u \in Threads : pc'[u] \notin Readers
    BY <1>2, <1>3 DEF FinishProgress, Holds, IInv, TypeOK, ReaderIsUnique, Readers, Loops
  <2>. QED
    BY <1>2, <2>1 DEF ReaderIsUnique
<1>5. SleepersHaveAReader'
  BY <1>2 DEF SleepersHaveAReader
<1>6. pc' \in [Threads -> {"idle", "wait", "submit", "export", "export_alloc",
                          "enter_wait", "cond", "poll", "lock", "handle"}]
  BY <1>2, <1>3 DEF IInv, TypeOK, Loops
<1>7. lost' \in BOOLEAN
  BY <1>3 DEF FinishProgress, IInv, TypeOK
<1>8. /\ mtx' \in Threads \cup {NoThread} /\ cnd' \subseteq Threads
      /\ reading' \in BOOLEAN
      /\ katom' \in [Atoms -> KAtom] /\ events' \in Seq(Event)
      /\ UNCHANGED <<fence, told, broken>>
  BY <1>2 DEF IInv, TypeOK, kernel, history
<1>. QED
  BY <1>1, <1>2, <1>4, <1>5, <1>6, <1>7, <1>8, LocalStep

LEMMA UnknownEventKeepsIInv ==
  ASSUME IInv, NEW t \in Threads, HandleUnknownEvent(t)
  PROVE  IInv'
<1>. DEFINE c == [call[t] EXCEPT !.ev = Tail(@)]
<1>1. /\ call' = [call EXCEPT ![t] = c] /\ call[t].ev # <<>>
      /\ UNCHANGED <<mtx, cnd, pc, reading, lost, kernel, history>> /\ UNCHANGED numbers
  BY DEF HandleUnknownEvent, TakeEvent, numbers
<1>2. call[t].ev \in Seq(Event) /\ call[t] \in Call
  BY DEF IInv, TypeOK, Call
<1>3. Tail(call[t].ev) \in Seq(Event)
  BY <1>1, <1>2
<1>4. c \in Call /\ c.seqno = call[t].seqno
  BY <1>2, <1>3, LocalsCall
<1>. HIDE DEF c
<1>5. ReaderIsUnique' /\ SleepersHaveAReader'
  BY <1>1 DEF IInv, ReaderIsUnique, SleepersHaveAReader
<1>6. /\ mtx' \in Threads \cup {NoThread} /\ cnd' \subseteq Threads
      /\ reading' \in BOOLEAN /\ lost' \in BOOLEAN
      /\ katom' \in [Atoms -> KAtom] /\ events' \in Seq(Event)
      /\ UNCHANGED <<fence, told, broken>>
      /\ pc' \in [Threads -> {"idle", "wait", "submit", "export", "export_alloc",
                              "enter_wait", "cond", "poll", "lock", "handle"}]
  BY <1>1 DEF IInv, TypeOK, kernel, history
<1>. QED
  BY <1>1, <1>4, <1>5, <1>6, LocalStep

-----------------------------------------------------------------------------
(* The kernel's step                                                       *)

LEMMA EndedType ==
  ASSUME NEW k \in KAtom, NEW code \in Codes
  PROVE  [k EXCEPT !.st = "ended", !.code = code] \in KAtom
BY DEF KAtom, Codes

LEMMA MetType ==
  ASSUME NEW k \in KAtom, NEW a, NEW bad \in BOOLEAN
  PROVE  [k EXCEPT !.order = @ \ {a}, !.data = @ \ {a}, !.bad = bad] \in KAtom
<1>1. k.order \ {a} \in SUBSET Atoms /\ k.data \ {a} \in SUBSET Atoms
  BY DEF KAtom
<1>. DEFINE order == k.order \ {a}
            data == k.data \ {a}
<1>2. [k EXCEPT !.order = @ \ {a}, !.data = @ \ {a}, !.bad = bad]
        = [k EXCEPT !.order = order, !.data = data, !.bad = bad]
  OBVIOUS
<1>3. order \in SUBSET Atoms /\ data \in SUBSET Atoms
  BY <1>1
<1>. HIDE DEF order, data
<1>. QED
  BY <1>2, <1>3 DEF KAtom

LEMMA EndAtomKeepsIInv ==
  ASSUME IInv, NEW a \in Atoms, EndAtom(a)
  PROVE  IInv'
<1>1. katom \in [Atoms -> KAtom] /\ katom[a] \in KAtom
  BY DEF IInv, TypeOK
<1>2. PICK code \in Outcomes(a) :
        LET silent == katom[a].quiet /\ code = "DONE"
        IN /\ katom' = [b \in Atoms |->
                IF b = a
                THEN IF silent THEN KUnused("DONE")
                     ELSE [katom[a] EXCEPT !.st = "ended", !.code = code]
                ELSE [katom[b] EXCEPT
                        !.order = @ \ {a},
                        !.data  = @ \ {a},
                        !.bad   = @ \/ (a \in katom[b].data /\ code # "DONE")]]
           /\ events' = IF silent THEN events
                        ELSE Append(events, [atom |-> a, code |-> code])
           /\ broken' = IF katom[a].kind = "JOB" /\ code # "DONE"
                        THEN broken \cup {katom[a].sub} ELSE broken
  BY DEF EndAtom
<1>3. code \in Codes
  BY DEF Outcomes, Codes
<1>4. katom' \in [Atoms -> KAtom]
  <2>1. KUnused("DONE") \in KAtom
    BY KUnusedType DEF Codes
  <2>2. [katom[a] EXCEPT !.st = "ended", !.code = code] \in KAtom
    BY <1>1, <1>3, EndedType
  <2>3. ASSUME NEW b \in Atoms
        PROVE  [katom[b] EXCEPT !.order = @ \ {a}, !.data  = @ \ {a},
                  !.bad = @ \/ (a \in katom[b].data /\ code # "DONE")] \in KAtom
    <3>. DEFINE bad == katom[b].bad \/ (a \in katom[b].data /\ code # "DONE")
    <3>1. bad \in BOOLEAN /\ katom[b] \in KAtom
      BY <1>1 DEF KAtom
    <3>. HIDE DEF bad
    <3>2. [katom[b] EXCEPT !.order = @ \ {a}, !.data = @ \ {a}, !.bad = bad] \in KAtom
      BY <3>1, MetType
    <3>. QED
      BY <3>2 DEF bad
  <2>. QED
    BY <1>2, <2>1, <2>2, <2>3
<1>5. events' \in Seq(Event)
  <2>1. [atom |-> a, code |-> code] \in Event /\ events \in Seq(Event)
    BY <1>3 DEF Event, IInv, TypeOK
  <2>2. Append(events, [atom |-> a, code |-> code]) \in Seq(Event)
    BY <2>1, AppendProperties
  <2>3. events' \in {events, Append(events, [atom |-> a, code |-> code])}
    BY <1>2
  <2>. QED
    BY <2>1, <2>2, <2>3
<1>6. broken' \subseteq Nat
  <2>1. katom[a].sub \in Nat /\ broken \subseteq Nat
    BY <1>1 DEF KAtom, IInv, TypeOK
  <2>. QED
    BY <1>2, <2>1
<1>7. fence' \in [Seqnos -> {"none", "armed", "signalled"}]
  BY DEF EndAtom, IInv, TypeOK
<1>8. UNCHANGED <<numbers, reading, lost, mtx, cnd, pc, call, told>>
  BY DEF EndAtom, jm, threads, numbers
<1>9. TypeOK'
  BY <1>4, <1>5, <1>6, <1>7, <1>8 DEF IInv, TypeOK, numbers
<1>10. CallsAreForSubmitted' /\ ReaderIsUnique' /\ SleepersHaveAReader'
  BY <1>8 DEF IInv, CallsAreForSubmitted, ReaderIsUnique, SleepersHaveAReader, numbers
<1>. QED
  BY <1>8, <1>9, <1>10, NumbersUnchanged DEF IInv

-----------------------------------------------------------------------------
(* The steps that change the ring                                          *)

LEMMA DoneUpdate ==
  ASSUME NEW q \in Seq(Sub), NEW i \in 1 .. Len(q), NEW d \in BOOLEAN
  PROVE  LET r == [q EXCEPT ![i].done = d]
         IN /\ r \in Seq(Sub) /\ Len(r) = Len(q)
            /\ \A j \in 1 .. Len(q) : /\ r[j].seqno = q[j].seqno
                                      /\ r[j].last = q[j].last
                                      /\ r[j].atoms = q[j].atoms
<1>1. q[i] \in Sub
  OBVIOUS
<1>. DEFINE e == [q[i] EXCEPT !.done = d]
            r == [q EXCEPT ![i] = e]
<1>2. e \in Sub /\ e.seqno = q[i].seqno /\ e.last = q[i].last /\ e.atoms = q[i].atoms
  BY <1>1 DEF Sub
<1>. HIDE DEF e
<1>3. r \in Seq(Sub) /\ Len(r) = Len(q)
  BY <1>2
<1>4. \A j \in 1 .. Len(q) : r[j] = IF j = i THEN e ELSE q[j]
  OBVIOUS
<1>5. [q EXCEPT ![i].done = d] = r
  BY DEF e
<1>. QED
  BY <1>2, <1>3, <1>4, <1>5

LEMMA FenceUpdate ==
  ASSUME NEW q \in Seq(Sub), NEW i \in 1 .. Len(q)
  PROVE  LET r == [q EXCEPT ![i].fence = TRUE]
         IN /\ r \in Seq(Sub) /\ Len(r) = Len(q)
            /\ \A j \in 1 .. Len(q) : /\ r[j].seqno = q[j].seqno
                                      /\ r[j].last = q[j].last
                                      /\ r[j].atoms = q[j].atoms
<1>1. q[i] \in Sub
  OBVIOUS
<1>. DEFINE e == [q[i] EXCEPT !.fence = TRUE]
            r == [q EXCEPT ![i] = e]
<1>2. e \in Sub /\ e.seqno = q[i].seqno /\ e.last = q[i].last /\ e.atoms = q[i].atoms
  BY <1>1 DEF Sub
<1>. HIDE DEF e
<1>3. r \in Seq(Sub) /\ Len(r) = Len(q)
  BY <1>2
<1>4. \A j \in 1 .. Len(q) : r[j] = IF j = i THEN e ELSE q[j]
  OBVIOUS
<1>5. [q EXCEPT ![i].fence = TRUE] = r
  BY DEF e
<1>. QED
  BY <1>2, <1>3, <1>4, <1>5

LEMMA RingEntry ==
  ASSUME TypeOK, NEW i \in 1 .. Len(subs)
  PROVE  subs[i] \in Sub
<1>1. subs \in Seq(Sub)
  BY DEF TypeOK
<1>. QED
  BY <1>1

(* A flag of a submission in the ring changes, and no number it holds.     *)
LEMMA RingKeepsItsNumbers ==
  ASSUME IInv, subs' \in Seq(Sub), Len(subs') = Len(subs),
         \A j \in 1 .. Len(subs) : /\ subs'[j].seqno = subs[j].seqno
                                  /\ subs'[j].last = subs[j].last
                                  /\ subs'[j].atoms = subs[j].atoms,
         UNCHANGED <<last_seqno, completed_seqno>>,
         \A a \in Atoms : atom_use[a] = "SUB" => atom_use'[a] = "SUB"
  PROVE  RingHoldsTheSeqnosInFlight' /\ SubmissionsOwnTheirNumbers'
<1>1. RingHoldsTheSeqnosInFlight'
  BY DEF IInv, RingHoldsTheSeqnosInFlight
<1>2. \A j \in 1 .. Len(subs) : subs[j].atoms \in SUBSET Atoms
  BY RingEntry DEF IInv, Sub
<1>3. SubmissionsOwnTheirNumbers'
  BY <1>2 DEF IInv, SubmissionsOwnTheirNumbers
<1>. QED
  BY <1>1, <1>3

LEMMA TakeEventKeeps ==
  ASSUME IInv, NEW t \in Threads, NEW ev \in Event, TakeEvent(t, ev)
  PROVE  /\ call' \in [Threads -> Call] /\ CallsAreForSubmitted'
         /\ ReaderIsUnique' /\ SleepersHaveAReader'
         /\ UNCHANGED <<mtx, cnd, pc, last_seqno, completed_seqno, reading, katom, events,
                        fence, told, broken>>
         /\ ev.atom \in Atoms
<1>. DEFINE c == [call[t] EXCEPT !.ev = Tail(@)]
<1>1. /\ call' = [call EXCEPT ![t] = c] /\ call[t].ev # <<>>
      /\ UNCHANGED <<mtx, cnd, pc, last_seqno, completed_seqno, reading, katom, events,
                     fence, told, broken>>
  BY DEF TakeEvent, kernel, history
<1>2. call[t].ev \in Seq(Event) /\ call[t] \in Call
  BY DEF IInv, TypeOK, Call
<1>3. Tail(call[t].ev) \in Seq(Event)
  BY <1>1, <1>2
<1>4. c \in Call /\ c.seqno = call[t].seqno
  BY <1>2, <1>3, LocalsCall
<1>. HIDE DEF c
<1>5. ReaderIsUnique' /\ SleepersHaveAReader'
  BY <1>1 DEF IInv, ReaderIsUnique, SleepersHaveAReader
<1>6. call' \in [Threads -> Call] /\ CallsAreForSubmitted'
  BY <1>1, <1>4, LocalsUpdate
<1>. QED
  BY <1>1, <1>5, <1>6 DEF Event

LEMMA AuxEventKeepsIInv ==
  ASSUME IInv, NEW t \in Threads, HandleAuxEvent(t)
  PROVE  IInv'
<1>1. PICK ev \in Event :
        /\ TakeEvent(t, ev) /\ IsAux(ev.atom)
        /\ lost' = (lost \/ Fatal(ev, {}))
        /\ FreeAtoms({ev.atom}) /\ UNCHANGED subs
  BY DEF HandleAuxEvent
<1>2. /\ call' \in [Threads -> Call] /\ CallsAreForSubmitted'
      /\ ReaderIsUnique' /\ SleepersHaveAReader'
      /\ UNCHANGED <<mtx, cnd, pc, last_seqno, completed_seqno, reading, katom, events,
                     fence, told, broken>>
      /\ ev.atom \in Atoms
  BY <1>1, TakeEventKeeps
<1>3. {ev.atom} \in SUBSET Atoms /\ {ev.atom} \cap Free = {}
  BY <1>1, <1>2 DEF IsAux, Free
<1>4. /\ FreeCountIsExact'
      /\ atom_use' \in [Atoms -> {"FREE", "SUB", "AUX"}]
      /\ nr_free' \in 0 .. Cardinality(Atoms)
      /\ \A a \in Atoms \ {ev.atom} : atom_use'[a] = atom_use[a]
  BY <1>1, <1>3, FreeAtomsKeepsCount DEF IInv
<1>5. \A a \in Atoms : atom_use[a] = "SUB" => atom_use'[a] = "SUB"
  BY <1>1, <1>4 DEF IsAux
<1>6. RingHoldsTheSeqnosInFlight' /\ SubmissionsOwnTheirNumbers'
  BY <1>1, <1>2, <1>5, RingKeepsItsNumbers DEF IInv, TypeOK
<1>7. lost' \in BOOLEAN
  BY <1>1 DEF IInv, TypeOK, Fatal
<1>8. TypeOK'
  BY <1>1, <1>2, <1>4, <1>7 DEF IInv, TypeOK
<1>. QED
  BY <1>2, <1>4, <1>6, <1>8 DEF IInv

LEMMA SubEventKeepsIInv ==
  ASSUME IInv, NEW t \in Threads, HandleSubEvent(t)
  PROVE  IInv'
<1>1. PICK ev \in Event : \E i \in FindSub(ev.atom) :
        /\ TakeEvent(t, ev)
        /\ lost' = (lost \/ Fatal(ev, subs[i].waits))
        /\ subs' = [subs EXCEPT ![i].done = @ \/ Completes(subs[i], ev.atom)]
        /\ UNCHANGED <<atom_use, nr_free>>
  BY DEF HandleSubEvent
<1>2. PICK i \in FindSub(ev.atom) :
        /\ TakeEvent(t, ev)
        /\ lost' = (lost \/ Fatal(ev, subs[i].waits))
        /\ subs' = [subs EXCEPT ![i].done = @ \/ Completes(subs[i], ev.atom)]
        /\ UNCHANGED <<atom_use, nr_free>>
  BY <1>1
<1>3. i \in 1 .. Len(subs) /\ subs[i] \in Sub /\ subs \in Seq(Sub)
  BY RingEntry DEF FindSub, IInv, TypeOK
<1>4. /\ call' \in [Threads -> Call] /\ CallsAreForSubmitted'
      /\ ReaderIsUnique' /\ SleepersHaveAReader'
      /\ UNCHANGED <<mtx, cnd, pc, last_seqno, completed_seqno, reading, katom, events,
                     fence, told, broken>>
  BY <1>2, TakeEventKeeps
<1>5. PICK d \in BOOLEAN : subs' = [subs EXCEPT ![i].done = d]
  <2>. DEFINE d == subs[i].done \/ Completes(subs[i], ev.atom)
  <2>1. d \in BOOLEAN
    BY <1>3 DEF Sub
  <2>2. subs' = [subs EXCEPT ![i].done = d]
    BY <1>2
  <2>. QED
    BY <2>1, <2>2
<1>6. /\ subs' \in Seq(Sub) /\ Len(subs') = Len(subs)
      /\ \A j \in 1 .. Len(subs) : /\ subs'[j].seqno = subs[j].seqno
                                   /\ subs'[j].last = subs[j].last
                                   /\ subs'[j].atoms = subs[j].atoms
  BY <1>3, <1>5, DoneUpdate
<1>7. RingHoldsTheSeqnosInFlight' /\ SubmissionsOwnTheirNumbers'
  BY <1>2, <1>4, <1>6, RingKeepsItsNumbers
<1>8. lost' \in BOOLEAN
  BY <1>2 DEF IInv, TypeOK, Fatal
<1>9. TypeOK'
  BY <1>2, <1>4, <1>6, <1>8 DEF IInv, TypeOK
<1>10. FreeCountIsExact'
  BY <1>2 DEF IInv, FreeCountIsExact, Free
<1>. QED
  BY <1>4, <1>7, <1>9, <1>10 DEF IInv

(* The head of the ring is submission completed_seqno + 1, and what it     *)
(* holds is not free.                                                      *)
LEMMA RingHead ==
  ASSUME IInv, subs # <<>>
  PROVE  /\ Len(subs) \in Nat /\ Len(subs) >= 1 /\ Head(subs) = subs[1]
         /\ Head(subs) \in Sub /\ Head(subs).seqno = completed_seqno + 1
         /\ Head(subs).atoms \cap Free = {}
<1>1. subs \in Seq(Sub) /\ Len(subs) \in Nat /\ Len(subs) >= 1 /\ Head(subs) = subs[1]
  BY DEF IInv, TypeOK
<1>2. 1 \in 1 .. Len(subs) /\ subs[1] \in Sub
  BY <1>1
<1>3. subs[1].seqno = completed_seqno + 1
  BY <1>2 DEF IInv, RingHoldsTheSeqnosInFlight
<1>4. subs[1].atoms \cap Free = {}
  BY <1>2 DEF IInv, SubmissionsOwnTheirNumbers, Free
<1>. QED
  BY <1>1, <1>2, <1>3, <1>4

LEMMA RetireKeepsIInv ==
  ASSUME IInv, NEW t \in Threads, RetireOldest(t)
  PROVE  IInv'
<1>1. /\ subs # <<>> /\ subs' = Tail(subs) /\ FreeAtoms(Head(subs).atoms)
      /\ completed_seqno' = Head(subs).seqno
      /\ UNCHANGED <<last_seqno, lost, reading, mtx, cnd, pc, call, katom, events, fence,
                     told, broken>>
  BY DEF RetireOldest, HeadDone, DropOldest, threads, kernel, history
<1>2. /\ Len(subs) \in Nat /\ Len(subs) >= 1 /\ Head(subs) = subs[1]
      /\ Head(subs) \in Sub /\ Head(subs).seqno = completed_seqno + 1
      /\ Head(subs).atoms \cap Free = {}
  BY <1>1, RingHead
<1>3. Head(subs).atoms \in SUBSET Atoms
  BY <1>2 DEF Sub
<1>4. /\ FreeCountIsExact'
      /\ atom_use' \in [Atoms -> {"FREE", "SUB", "AUX"}]
      /\ nr_free' \in 0 .. Cardinality(Atoms)
      /\ \A a \in Atoms \ Head(subs).atoms : atom_use'[a] = atom_use[a]
  BY <1>1, <1>2, <1>3, FreeAtomsKeepsCount DEF IInv
<1>5. /\ subs' \in Seq(Sub) /\ Len(subs') = Len(subs) - 1
      /\ \A j \in 1 .. Len(subs') : j + 1 \in 1 .. Len(subs) /\ subs'[j] = subs[j + 1]
  <2>1. subs \in Seq(Sub) /\ subs # <<>>
    BY <1>1 DEF IInv, TypeOK
  <2>. QED
    BY <1>1, <2>1
<1>6. completed_seqno' = completed_seqno + 1 /\ completed_seqno \in Nat /\ last_seqno \in Nat
  BY <1>1, <1>2 DEF IInv, TypeOK
<1>7. RingHoldsTheSeqnosInFlight'
  <2>1. last_seqno' = completed_seqno' + Len(subs')
    BY <1>1, <1>2, <1>5, <1>6 DEF IInv, RingHoldsTheSeqnosInFlight
  <2>2. ASSUME NEW j \in 1 .. Len(subs')
        PROVE  subs'[j].seqno = completed_seqno' + j
    <3>1. subs'[j].seqno = subs[j + 1].seqno /\ j + 1 \in 1 .. Len(subs)
      BY <1>5
    <3>2. subs[j + 1].seqno = completed_seqno + (j + 1)
      BY <3>1 DEF IInv, RingHoldsTheSeqnosInFlight
    <3>. QED
      BY <1>2, <1>5, <1>6, <3>1, <3>2
  <2>. QED
    BY <2>1, <2>2 DEF RingHoldsTheSeqnosInFlight
<1>8. SubmissionsOwnTheirNumbers'
  <2>1. ASSUME NEW j \in 1 .. Len(subs')
        PROVE  /\ subs'[j].last \in subs'[j].atoms
               /\ \A a \in subs'[j].atoms : atom_use'[a] = "SUB"
    <3>1. subs'[j] = subs[j + 1] /\ j + 1 \in 1 .. Len(subs) /\ 1 \in 1 .. Len(subs)
          /\ j + 1 # 1
      BY <1>2, <1>5
    <3>2. subs[j + 1].atoms \cap subs[1].atoms = {}
      BY <3>1 DEF IInv, SubmissionsOwnTheirNumbers
    <3>3. subs[j + 1].atoms \in SUBSET Atoms
      BY <3>1, RingEntry DEF IInv, Sub
    <3>4. /\ subs[j + 1].last \in subs[j + 1].atoms
          /\ \A a \in subs[j + 1].atoms : atom_use[a] = "SUB"
      BY <3>1 DEF IInv, SubmissionsOwnTheirNumbers
    <3>. QED
      BY <1>2, <1>4, <3>1, <3>2, <3>3, <3>4
  <2>2. ASSUME NEW i \in 1 .. Len(subs'), NEW j \in 1 .. Len(subs'), i # j
        PROVE  subs'[i].atoms \cap subs'[j].atoms = {}
    <3>1. /\ i + 1 \in 1 .. Len(subs) /\ subs'[i] = subs[i + 1]
          /\ j + 1 \in 1 .. Len(subs) /\ subs'[j] = subs[j + 1] /\ i + 1 # j + 1
      BY <1>5, <2>2
    <3>. QED
      BY <3>1 DEF IInv, SubmissionsOwnTheirNumbers
  <2>. QED
    BY <2>1, <2>2 DEF SubmissionsOwnTheirNumbers
<1>9. TypeOK'
  BY <1>1, <1>4, <1>5, <1>6 DEF IInv, TypeOK
<1>10. CallsAreForSubmitted' /\ ReaderIsUnique' /\ SleepersHaveAReader'
  BY <1>1 DEF IInv, CallsAreForSubmitted, ReaderIsUnique, SleepersHaveAReader
<1>. QED
  BY <1>4, <1>7, <1>8, <1>9, <1>10 DEF IInv

LEMMA NeededType ==
  ASSUME TypeOK, NEW t \in Threads
  PROVE  /\ Needed(t) \in Nat /\ Needed(t) >= 1
         /\ call[t].nr_jobs \in Nat /\ call[t].wait_fd \in BOOLEAN
<1>1. call[t].nr_jobs \in Nat /\ call[t].wait_fd \in BOOLEAN
  BY DEF TypeOK, Call
<1>. QED
  BY <1>1 DEF Needed, NrAtoms

LEMMA PrevType == ASSUME TypeOK PROVE Prev \in SUBSET Atoms
<1>1. CASE subs = <<>>
  BY <1>1 DEF Prev
<1>2. CASE subs # <<>>
  <2>1. Len(subs) \in 1 .. Len(subs)
    BY <1>2 DEF TypeOK
  <2>2. subs[Len(subs)].last \in Atoms
    BY <2>1, RingEntry DEF Sub
  <2>. QED
    BY <2>2 DEF Prev
<1>. QED
  BY <1>1, <1>2

(* What JOB_SUBMIT is given has the type of kernel atoms, all of it or its *)
(* first m atoms.                                                          *)
LEMMA AtomsToSubmitType ==
  ASSUME TypeOK, NEW nums \in Seq(Atoms), NEW m \in 0 .. Len(nums),
         NEW n \in Nat, NEW w \in BOOLEAN
  PROVE  \A a \in DOMAIN AtomsToSubmit(nums, m, n, w) :
           AtomsToSubmit(nums, m, n, w)[a] \in KAtom
<1>1. ASSUME NEW i \in 1 .. m PROVE SubmissionAtom(nums, i, n, w) \in KAtom
  <2>. DEFINE wait == IF w THEN {nums[1]} ELSE {}
              first == IF w THEN 2 ELSE 1
              s == last_seqno + 1
  <2>1. Prev \in SUBSET Atoms /\ s \in Nat
    BY PrevType DEF TypeOK
  <2>2. wait \in SUBSET Atoms
    BY <1>1
  <2>3. CASE w /\ i = 1
    BY <2>1, <2>3, KNewType DEF SubmissionAtom
  <2>4. CASE ~ (w /\ i = 1) /\ n = 0
    <3>1. SubmissionAtom(nums, i, n, w) = KNew("DEP", Prev \cup wait, {}, FALSE, s)
      BY <2>4 DEF SubmissionAtom
    <3>. QED
      BY <2>1, <2>2, <3>1, KNewType, ZenonT(60)
  <2>5. CASE ~ (w /\ i = 1) /\ n # 0 /\ i = first
    <3>1. SubmissionAtom(nums, i, n, w) = KNew("JOB", Prev \cup wait, {}, n > 1, s)
      BY <2>5 DEF SubmissionAtom, FirstJobOrder
    <3>2. Prev \cup wait \in SUBSET Atoms /\ (n > 1) \in BOOLEAN
      BY <2>1, <2>2
    <3>. QED
      BY <2>1, <3>1, <3>2, KNewType, ZenonT(60)
  <2>6. CASE ~ (w /\ i = 1) /\ n # 0 /\ i # first
    <3>1. SubmissionAtom(nums, i, n, w) = KNew("JOB", {}, {nums[i - 1]}, i < Len(nums), s)
      BY <2>6 DEF SubmissionAtom
    <3>2. i - 1 \in 1 .. Len(nums)
      BY <2>6
    <3>3. {nums[i - 1]} \in SUBSET Atoms /\ (i < Len(nums)) \in BOOLEAN
      BY <3>2
    <3>. QED
      BY <2>1, <3>1, <3>3, KNewType, ZenonT(60)
  <2>. QED
    BY <2>3, <2>4, <2>5, <2>6
<1>2. ASSUME NEW a \in {nums[i] : i \in 1 .. m}
      PROVE  (CHOOSE i \in 1 .. m : nums[i] = a) \in 1 .. m
  BY <1>2
<1>. QED
  BY <1>1, <1>2 DEF AtomsToSubmit

(* What is left of the invariant when a call returns having changed the    *)
(* ring or the numbers.                                                    *)
LEMMA ReturnRest ==
  ASSUME IInv, NEW t \in Threads, Return(t), pc[t] \notin Readers,
         reading' = reading, last_seqno' \in Nat, last_seqno <= last_seqno',
         cnd' = cnd \/ cnd' = {}, lost' \in BOOLEAN,
         atom_use' \in [Atoms -> {"FREE", "SUB", "AUX"}],
         nr_free' \in 0 .. Cardinality(Atoms),
         subs' \in Seq(Sub), completed_seqno' = completed_seqno,
         katom' \in [Atoms -> KAtom], events' = events,
         fence' \in [Seqnos -> {"none", "armed", "signalled"}],
         UNCHANGED history
  PROVE  TypeOK' /\ CallsAreForSubmitted' /\ ReaderIsUnique' /\ SleepersHaveAReader'
<1>1. /\ mtx' \in Threads \cup {NoThread}
      /\ pc' \in [Threads -> {"idle", "wait", "submit", "export", "export_alloc",
                              "enter_wait", "cond", "poll", "lock", "handle"}]
      /\ call' \in [Threads -> Call] /\ CallsAreForSubmitted'
      /\ ReaderIsUnique'
  BY ReturnStep
<1>2. SleepersHaveAReader'
  BY DEF IInv, SleepersHaveAReader
<1>3. TypeOK'
  BY <1>1 DEF IInv, TypeOK, history
<1>. QED
  BY <1>1, <1>2, <1>3

LEMMA SubmitKeepsIInv ==
  ASSUME IInv, NEW t \in Threads, Submit(t)
  PROVE  IInv'
<1>. DEFINE n == call[t].nr_jobs
            w == call[t].wait_fd
<1>1. PICK nums \in Allocations(Needed(t)) :
        /\ Allocate(nums, "SUB")
        /\ katom' = Enqueued(AtomsToSubmit(nums, Len(nums), n, w))
        /\ subs' = Append(subs,
                     [seqno |-> last_seqno + 1, last |-> nums[Len(nums)],
                      done |-> FALSE, fence |-> FALSE,
                      atoms |-> NumbersOf(nums),
                      waits |-> IF w THEN {nums[1]} ELSE {}])
  BY DEF Submit
<1>2. /\ last_seqno' = last_seqno + 1 /\ Return(t) /\ pc[t] = "submit"
      /\ UNCHANGED <<completed_seqno, lost, reading, cnd, events, fence, history>>
  BY DEF Submit, Holds
<1>. DEFINE sub == [seqno |-> last_seqno + 1, last |-> nums[Len(nums)],
                    done |-> FALSE, fence |-> FALSE, atoms |-> NumbersOf(nums),
                    waits |-> IF w THEN {nums[1]} ELSE {}]
<1>3. Needed(t) \in Nat /\ Needed(t) >= 1 /\ n \in Nat /\ w \in BOOLEAN
  BY NeededType DEF IInv
<1>4. /\ nums \in Seq(Atoms) /\ Len(nums) = Needed(t)
      /\ \A i \in 1 .. Needed(t) : nums[i] \in NumbersOf(nums)
      /\ NumbersOf(nums) \in SUBSET Free /\ NumbersOf(nums) \in SUBSET Atoms
  BY <1>3, AllocationsAreFree DEF Free
<1>5. /\ FreeCountIsExact'
      /\ atom_use' \in [Atoms -> {"FREE", "SUB", "AUX"}]
      /\ nr_free' \in 0 .. Cardinality(Atoms)
      /\ \A a \in NumbersOf(nums) : atom_use'[a] = "SUB"
      /\ \A a \in Atoms \ NumbersOf(nums) : atom_use'[a] = atom_use[a]
  BY <1>1, <1>3, AllocateKeepsCount DEF IInv
<1>6. katom' \in [Atoms -> KAtom]
  <2>1. Len(nums) \in 0 .. Len(nums)
    BY <1>4
  <2>2. \A a \in DOMAIN AtomsToSubmit(nums, Len(nums), n, w) :
          AtomsToSubmit(nums, Len(nums), n, w)[a] \in KAtom
    BY <1>3, <1>4, <2>1, AtomsToSubmitType DEF IInv
  <2>. QED
    BY <1>1, <2>2, EnqueuedType DEF IInv, TypeOK
<1>7. /\ sub \in Sub /\ sub.seqno = last_seqno + 1 /\ sub.last \in sub.atoms
      /\ sub.atoms = NumbersOf(nums)
  <2>1. nums[Len(nums)] \in NumbersOf(nums) /\ nums[Len(nums)] \in Atoms /\ nums[1] \in Atoms
    BY <1>3, <1>4
  <2>2. last_seqno + 1 \in Nat
    BY DEF IInv, TypeOK
  <2>. QED
    BY <1>4, <2>1, <2>2 DEF Sub
<1>8. subs' = Append(subs, sub)
  BY <1>1
<1>. HIDE DEF n, w, sub
<1>9. /\ subs \in Seq(Sub) /\ Len(subs) \in Nat /\ subs' \in Seq(Sub)
      /\ Len(subs') = Len(subs) + 1 /\ subs'[Len(subs) + 1] = sub
      /\ \A j \in 1 .. Len(subs) : subs'[j] = subs[j]
  BY <1>7, <1>8 DEF IInv, TypeOK
<1>10. /\ last_seqno \in Nat /\ completed_seqno \in Nat
       /\ last_seqno = completed_seqno + Len(subs)
       /\ \A j \in 1 .. Len(subs) : subs[j].seqno = completed_seqno + j
  BY DEF IInv, TypeOK, RingHoldsTheSeqnosInFlight
<1>11. RingHoldsTheSeqnosInFlight'
  <2>1. last_seqno' = completed_seqno' + Len(subs')
    BY <1>2, <1>9, <1>10
  <2>2. ASSUME NEW j \in 1 .. Len(subs') PROVE subs'[j].seqno = completed_seqno' + j
    <3>1. CASE j = Len(subs) + 1
      BY <1>2, <1>7, <1>9, <1>10, <3>1
    <3>2. CASE j \in 1 .. Len(subs)
      BY <1>2, <1>9, <1>10, <3>2
    <3>. QED
      BY <1>9, <3>1, <3>2
  <2>. QED
    BY <2>1, <2>2 DEF RingHoldsTheSeqnosInFlight
<1>12. SubmissionsOwnTheirNumbers'
  <2>1. ASSUME NEW j \in 1 .. Len(subs)
        PROVE  /\ subs[j].last \in subs[j].atoms
               /\ \A a \in subs[j].atoms : atom_use'[a] = "SUB"
               /\ subs[j].atoms \cap NumbersOf(nums) = {}
    <3>1. subs[j].atoms \in SUBSET Atoms
      BY RingEntry DEF IInv, Sub
    <3>2. /\ subs[j].last \in subs[j].atoms
          /\ \A a \in subs[j].atoms : atom_use[a] = "SUB"
      BY DEF IInv, SubmissionsOwnTheirNumbers
    <3>3. subs[j].atoms \cap NumbersOf(nums) = {}
      BY <1>4, <3>2 DEF Free
    <3>. QED
      BY <1>5, <3>1, <3>2, <3>3
  <2>2. ASSUME NEW j \in 1 .. Len(subs')
        PROVE  /\ subs'[j].last \in subs'[j].atoms
               /\ \A a \in subs'[j].atoms : atom_use'[a] = "SUB"
    <3>1. CASE j = Len(subs) + 1
      BY <1>5, <1>7, <1>9, <3>1
    <3>2. CASE j \in 1 .. Len(subs)
      BY <1>9, <2>1, <3>2
    <3>. QED
      BY <1>9, <3>1, <3>2
  <2>3. ASSUME NEW i \in 1 .. Len(subs'), NEW j \in 1 .. Len(subs'), i # j
        PROVE  subs'[i].atoms \cap subs'[j].atoms = {}
    <3>1. CASE i \in 1 .. Len(subs) /\ j \in 1 .. Len(subs)
      BY <1>9, <2>3, <3>1 DEF IInv, SubmissionsOwnTheirNumbers
    <3>2. CASE i = Len(subs) + 1 /\ j \in 1 .. Len(subs)
      BY <1>7, <1>9, <2>1, <3>2
    <3>3. CASE i \in 1 .. Len(subs) /\ j = Len(subs) + 1
      BY <1>7, <1>9, <2>1, <3>3
    <3>. QED
      BY <1>9, <2>3, <3>1, <3>2, <3>3
  <2>. QED
    BY <2>2, <2>3 DEF SubmissionsOwnTheirNumbers
<1>13. TypeOK' /\ CallsAreForSubmitted' /\ ReaderIsUnique' /\ SleepersHaveAReader'
  <2>1. /\ pc[t] \notin Readers /\ last_seqno' \in Nat /\ last_seqno <= last_seqno'
        /\ lost' \in BOOLEAN /\ fence' \in [Seqnos -> {"none", "armed", "signalled"}]
    BY <1>2, <1>10 DEF Readers, IInv, TypeOK
  <2>. QED
    BY <1>2, <1>5, <1>6, <1>9, <2>1, ReturnRest
<1>. QED
  BY <1>5, <1>11, <1>12, <1>13 DEF IInv

(* The numbers of atoms an ioctl refused stay taken, by nothing in the     *)
(* ring.                                                                   *)
LEMMA AllocateKeepsRing ==
  ASSUME IInv, NEW n \in Nat, NEW nums \in Allocations(n),
         NEW use \in {"SUB", "AUX"}, Allocate(nums, use),
         subs' \in Seq(Sub), Len(subs') = Len(subs),
         \A j \in 1 .. Len(subs) : /\ subs'[j].seqno = subs[j].seqno
                                  /\ subs'[j].last = subs[j].last
                                  /\ subs'[j].atoms = subs[j].atoms,
         UNCHANGED <<last_seqno, completed_seqno>>
  PROVE  /\ FreeCountIsExact' /\ RingHoldsTheSeqnosInFlight' /\ SubmissionsOwnTheirNumbers'
         /\ atom_use' \in [Atoms -> {"FREE", "SUB", "AUX"}]
         /\ nr_free' \in 0 .. Cardinality(Atoms)
<1>1. /\ FreeCountIsExact'
      /\ atom_use' \in [Atoms -> {"FREE", "SUB", "AUX"}]
      /\ nr_free' \in 0 .. Cardinality(Atoms)
      /\ \A a \in Atoms \ NumbersOf(nums) : atom_use'[a] = atom_use[a]
  BY AllocateKeepsCount DEF IInv
<1>2. NumbersOf(nums) \in SUBSET Free
  BY AllocationsAreFree
<1>3. \A a \in Atoms : atom_use[a] = "SUB" => atom_use'[a] = "SUB"
  BY <1>1, <1>2 DEF Free
<1>. QED
  BY <1>1, <1>3, RingKeepsItsNumbers

LEMMA SubmitFailsKeepsIInv ==
  ASSUME IInv, NEW t \in Threads, SubmitFails(t)
  PROVE  IInv'
<1>. DEFINE n == call[t].nr_jobs
            w == call[t].wait_fd
<1>1. PICK nums \in Allocations(Needed(t)), m \in 0 .. Needed(t) - 1 :
        /\ Allocate(nums, "SUB")
        /\ katom' = Enqueued(AtomsToSubmit(nums, m, n, w))
  BY DEF SubmitFails
<1>2. /\ lost' = TRUE /\ cnd' = {} /\ Return(t) /\ pc[t] = "submit"
      /\ UNCHANGED <<subs, last_seqno, completed_seqno, reading, events, fence, history>>
  BY DEF SubmitFails, Holds, Broadcast
<1>3. Needed(t) \in Nat /\ n \in Nat /\ w \in BOOLEAN
  BY NeededType DEF IInv
<1>4. nums \in Seq(Atoms) /\ Len(nums) = Needed(t)
  BY <1>3, AllocationsAreFree
<1>5. /\ FreeCountIsExact' /\ RingHoldsTheSeqnosInFlight' /\ SubmissionsOwnTheirNumbers'
      /\ atom_use' \in [Atoms -> {"FREE", "SUB", "AUX"}]
      /\ nr_free' \in 0 .. Cardinality(Atoms)
  BY <1>1, <1>2, <1>3, AllocateKeepsRing DEF IInv, TypeOK
<1>6. katom' \in [Atoms -> KAtom]
  <2>1. m \in 0 .. Len(nums)
    BY <1>3, <1>4
  <2>2. \A a \in DOMAIN AtomsToSubmit(nums, m, n, w) :
          AtomsToSubmit(nums, m, n, w)[a] \in KAtom
    BY <1>3, <1>4, <2>1, AtomsToSubmitType DEF IInv
  <2>. QED
    BY <1>1, <2>2, EnqueuedType DEF IInv, TypeOK
<1>7. /\ pc[t] \notin Readers /\ last_seqno' \in Nat /\ last_seqno <= last_seqno'
      /\ lost' \in BOOLEAN /\ fence' \in [Seqnos -> {"none", "armed", "signalled"}]
      /\ subs' \in Seq(Sub)
  BY <1>2 DEF Readers, IInv, TypeOK
<1>8. TypeOK' /\ CallsAreForSubmitted' /\ ReaderIsUnique' /\ SleepersHaveAReader'
  BY <1>2, <1>5, <1>6, <1>7, ReturnRest
<1>. QED
  BY <1>5, <1>8 DEF IInv

(* The slot an export looks at is the one of its submission.               *)
LEMMA RingSlot ==
  ASSUME IInv, NEW s \in Nat, ~ Completed(s), s <= last_seqno
  PROVE  /\ subs # <<>> /\ s - Head(subs).seqno + 1 \in 1 .. Len(subs)
         /\ SubOf(s) \in Sub /\ SubOf(s).seqno = s
<1>1. /\ last_seqno = completed_seqno + Len(subs) /\ Len(subs) \in Nat
      /\ completed_seqno \in Nat /\ completed_seqno < s /\ subs \in Seq(Sub)
  BY DEF IInv, TypeOK, RingHoldsTheSeqnosInFlight, Completed
<1>2. subs # <<>>
  BY <1>1
<1>3. Head(subs).seqno = completed_seqno + 1
  BY <1>2, RingHead
<1>4. s - Head(subs).seqno + 1 = s - completed_seqno
  BY <1>1, <1>3
<1>5. s - completed_seqno \in 1 .. Len(subs)
  BY <1>1
<1>6. subs[s - completed_seqno].seqno = completed_seqno + (s - completed_seqno)
  BY <1>5 DEF IInv, RingHoldsTheSeqnosInFlight
<1>7. subs[s - completed_seqno] \in Sub
  BY <1>5, RingEntry DEF IInv
<1>. QED
  BY <1>1, <1>2, <1>4, <1>5, <1>6, <1>7 DEF SubOf

LEMMA TriggerKeepsIInv ==
  ASSUME IInv, NEW t \in Threads,
         ExportTrigger(t) \/ ExportTriggerFails(t) \/ ExportNoFd(t)
  PROVE  IInv'
<1>. DEFINE s == call[t].seqno
            i == s - Head(subs).seqno + 1
<1>1. /\ s \in Nat /\ s <= last_seqno /\ ~ Completed(s) /\ pc[t] = "export_alloc"
      /\ call[t] \in Call /\ last_seqno \in Nat
  BY DEF IInv, TypeOK, Call, CallsAreForSubmitted, ExportTrigger, ExportTriggerFails,
         ExportNoFd, Overtaken, HasNumber, Holds
<1>2. subs # <<>> /\ i \in 1 .. Len(subs) /\ SubOf(s) \in Sub
  BY <1>1, RingSlot
<1>3. subs \in Seq(Sub) /\ katom \in [Atoms -> KAtom] /\ 1 \in Nat
  BY DEF IInv, TypeOK
<1>4. TriggerAtom(s) \in KAtom
  <2>1. SubOf(s).last \in Atoms
    BY <1>2 DEF Sub
  <2>. QED
    BY <1>1, <2>1, KNewType DEF TriggerAtom
<1>5. PICK nums \in Allocations(1) :
        /\ Allocate(nums, "AUX")
        /\ ExportTrigger(t) => katom' = Enqueued([a \in {nums[1]} |-> TriggerAtom(s)])
        /\ ExportNoFd(t) =>
             /\ katom' = [katom EXCEPT ![nums[1]] =
                            [TriggerAtom(s) EXCEPT
                               !.st = "ended", !.data = {}, !.code = "CANCELLED"]]
             /\ events' = Append(events, [atom |-> nums[1], code |-> "CANCELLED"])
  <2>1. CASE ExportTrigger(t) /\ ~ ExportNoFd(t)
    BY <2>1 DEF ExportTrigger
  <2>2. CASE ExportTriggerFails(t) /\ ~ ExportTrigger(t) /\ ~ ExportNoFd(t)
    BY <2>2 DEF ExportTriggerFails
  <2>3. CASE ExportNoFd(t) /\ ~ ExportTrigger(t)
    BY <2>3 DEF ExportNoFd
  <2>4. ~ (ExportTrigger(t) /\ ExportNoFd(t))
    BY <1>3, <1>1 DEF ExportTrigger, ExportNoFd, Return, IInv, TypeOK
  <2>. QED
    BY <2>1, <2>2, <2>3, <2>4
<1>6. nums[1] \in Atoms
  BY AllocationsAreFree, <1>3 DEF Free
<1>. HIDE DEF s, i
<1>7. CASE ExportTrigger(t)
  <2>1. /\ subs' = [subs EXCEPT ![i].fence = TRUE]
        /\ fence' = [fence EXCEPT ![s] = "armed"] /\ Return(t)
        /\ UNCHANGED <<last_seqno, completed_seqno, lost, reading, cnd, events, history>>
    BY <1>7 DEF ExportTrigger, s, i
  <2>2. /\ subs' \in Seq(Sub) /\ Len(subs') = Len(subs)
        /\ \A j \in 1 .. Len(subs) : /\ subs'[j].seqno = subs[j].seqno
                                     /\ subs'[j].last = subs[j].last
                                     /\ subs'[j].atoms = subs[j].atoms
    BY <1>2, <1>3, <2>1, FenceUpdate
  <2>3. /\ FreeCountIsExact' /\ RingHoldsTheSeqnosInFlight' /\ SubmissionsOwnTheirNumbers'
        /\ atom_use' \in [Atoms -> {"FREE", "SUB", "AUX"}]
        /\ nr_free' \in 0 .. Cardinality(Atoms)
    BY <1>3, <1>5, <2>1, <2>2, AllocateKeepsRing
  <2>4. katom' \in [Atoms -> KAtom]
    <3>1. katom' = Enqueued([a \in {nums[1]} |-> TriggerAtom(s)])
      BY <1>5, <1>7
    <3>2. \A a \in DOMAIN [a \in {nums[1]} |-> TriggerAtom(s)] :
            [b \in {nums[1]} |-> TriggerAtom(s)][a] \in KAtom
      BY <1>4
    <3>. QED
      BY <1>3, <3>1, <3>2, EnqueuedType
  <2>5. /\ pc[t] \notin Readers /\ last_seqno' \in Nat /\ last_seqno <= last_seqno'
        /\ lost' \in BOOLEAN
    BY <1>1, <2>1 DEF Readers, IInv, TypeOK
  <2>7. fence' \in [Seqnos -> {"none", "armed", "signalled"}]
    BY <2>1 DEF IInv, TypeOK
  <2>6. TypeOK' /\ CallsAreForSubmitted' /\ ReaderIsUnique' /\ SleepersHaveAReader'
    BY <2>7, <2>1, <2>2, <2>3, <2>4, <2>5, ReturnRest
  <2>. QED
    BY <2>3, <2>6 DEF IInv
<1>8. CASE ExportTriggerFails(t)
  <2>1. /\ lost' = TRUE /\ cnd' = {} /\ Return(t)
        /\ UNCHANGED <<subs, last_seqno, completed_seqno, reading, katom, events, fence,
                       history>>
    BY <1>8 DEF ExportTriggerFails, Broadcast, kernel
  <2>2. /\ FreeCountIsExact' /\ RingHoldsTheSeqnosInFlight' /\ SubmissionsOwnTheirNumbers'
        /\ atom_use' \in [Atoms -> {"FREE", "SUB", "AUX"}]
        /\ nr_free' \in 0 .. Cardinality(Atoms)
    BY <1>3, <1>5, <2>1, AllocateKeepsRing
  <2>3. /\ pc[t] \notin Readers /\ last_seqno' \in Nat /\ last_seqno <= last_seqno'
        /\ lost' \in BOOLEAN /\ fence' \in [Seqnos -> {"none", "armed", "signalled"}]
        /\ subs' \in Seq(Sub) /\ katom' \in [Atoms -> KAtom]
    BY <1>1, <1>3, <2>1 DEF Readers, IInv, TypeOK
  <2>4. TypeOK' /\ CallsAreForSubmitted' /\ ReaderIsUnique' /\ SleepersHaveAReader'
    BY <2>1, <2>2, <2>3, ReturnRest
  <2>. QED
    BY <2>2, <2>4 DEF IInv
<1>9. CASE ExportNoFd(t)
  <2>1. /\ mtx' = NoThread /\ pc' = [pc EXCEPT ![t] = "enter_wait"]
        /\ UNCHANGED <<subs, last_seqno, completed_seqno, lost, reading, cnd, call,
                       fence, history>>
    BY <1>9 DEF ExportNoFd
  <2>2. /\ FreeCountIsExact' /\ RingHoldsTheSeqnosInFlight' /\ SubmissionsOwnTheirNumbers'
        /\ atom_use' \in [Atoms -> {"FREE", "SUB", "AUX"}]
        /\ nr_free' \in 0 .. Cardinality(Atoms)
    BY <1>3, <1>5, <2>1, AllocateKeepsRing
  <2>3. katom' \in [Atoms -> KAtom]
    <3>1. [TriggerAtom(s) EXCEPT !.st = "ended", !.data = {}, !.code = "CANCELLED"] \in KAtom
      BY <1>4 DEF KAtom, Codes
    <3>. QED
      BY <1>3, <1>5, <1>9, <3>1
  <2>4. events' \in Seq(Event)
    <3>1. [atom |-> nums[1], code |-> "CANCELLED"] \in Event
      BY <1>6 DEF Event, Codes
    <3>2. events \in Seq(Event)
      BY DEF IInv, TypeOK
    <3>3. Append(events, [atom |-> nums[1], code |-> "CANCELLED"]) \in Seq(Event)
      BY <3>1, <3>2, AppendProperties
    <3>. QED
      BY <1>5, <1>9, <3>3
  <2>5. CallsAreForSubmitted' /\ SleepersHaveAReader'
    BY <2>1 DEF IInv, CallsAreForSubmitted, SleepersHaveAReader
  <2>6. ReaderIsUnique'
    BY <1>1, <2>1, ReaderStays DEF Readers
  <2>7. TypeOK'
    BY <2>1, <2>2, <2>3, <2>4 DEF IInv, TypeOK, history
  <2>. QED
    BY <2>2, <2>5, <2>6, <2>7 DEF IInv
<1>. QED
  BY <1>7, <1>8, <1>9

-----------------------------------------------------------------------------
(* The invariant is inductive                                              *)

LEMMA InitIInv == Init => IInv
<1>. SUFFICES ASSUME Init PROVE IInv
  OBVIOUS
<1>2. Cardinality(Atoms) \in Nat
  BY AtomsAssumption, FS_CardinalityType
<1>3. Free = Atoms
  BY DEF Init, Free
<1>4. FreeCountIsExact
  BY <1>3, Zenon DEF Init, FreeCountIsExact
<1>5. subs = <<>> /\ Len(subs) = 0 /\ last_seqno = 0 /\ completed_seqno = 0
  BY DEF Init
<1>6. RingHoldsTheSeqnosInFlight /\ SubmissionsOwnTheirNumbers
  BY <1>5 DEF RingHoldsTheSeqnosInFlight, SubmissionsOwnTheirNumbers
<1>7. CallsAreForSubmitted
  BY NoCallType DEF Init, CallsAreForSubmitted
<1>8. ReaderIsUnique /\ SleepersHaveAReader
  BY DEF Init, ReaderIsUnique, Readers, SleepersHaveAReader
<1>9. TypeOK
  <2>1. katom \in [Atoms -> KAtom]
    BY KUnusedType DEF Init, Codes
  <2>2. call \in [Threads -> Call]
    BY NoCallType DEF Init
  <2>3. atom_use \in [Atoms -> {"FREE", "SUB", "AUX"}]
    BY DEF Init
  <2>4. fence \in [Seqnos -> {"none", "armed", "signalled"}]
    BY DEF Init
  <2>5. pc \in [Threads -> {"idle", "wait", "submit", "export", "export_alloc",
                           "enter_wait", "cond", "poll", "lock", "handle"}]
    BY DEF Init
  <2>6. nr_free \in 0 .. Cardinality(Atoms)
    BY <1>2 DEF Init
  <2>7. subs \in Seq(Sub) /\ events \in Seq(Event)
    BY DEF Init
  <2>8. /\ mtx \in Threads \cup {NoThread} /\ cnd \subseteq Threads
        /\ lost \in BOOLEAN /\ reading \in BOOLEAN
        /\ told \subseteq Nat /\ broken \subseteq Nat
    BY DEF Init
  <2>. QED
    BY <1>5, <2>1, <2>2, <2>3, <2>4, <2>5, <2>6, <2>7, <2>8 DEF TypeOK
<1>. QED
  BY <1>4, <1>6, <1>7, <1>8, <1>9 DEF IInv

LEMMA WaitsKeepIInv ==
  ASSUME IInv, NEW t \in Threads, WaitMore(t) \/ SubmitWaits(t) \/ ExportWaits(t)
  PROVE  IInv'
BY ProgressKeepsIInv DEF WaitMore, SubmitWaits, ExportWaits, Holds, Loops

LEMMA StutterKeepsIInv == ASSUME IInv, UNCHANGED vars PROVE IInv'
<1>1. UNCHANGED <<numbers, lost, reading, mtx, cnd, pc, call, katom, events, fence, told,
                  broken>>
  BY DEF vars, jm, threads, kernel, history, numbers
<1>2. TypeOK' /\ CallsAreForSubmitted' /\ ReaderIsUnique' /\ SleepersHaveAReader'
  BY <1>1 DEF IInv, TypeOK, CallsAreForSubmitted, ReaderIsUnique, SleepersHaveAReader, numbers
<1>. QED
  BY <1>1, <1>2, NumbersUnchanged DEF IInv

LEMMA NextKeepsIInv == IInv /\ [Next]_vars => IInv'
<1>1. ASSUME IInv, NEW t \in Threads, CallStep(t) PROVE IInv'
  BY <1>1, ReturnsKeepIInv, WaitsKeepIInv, MovesKeepIInv, SubmitKeepsIInv,
     SubmitFailsKeepsIInv, TriggerKeepsIInv DEF CallStep
<1>2. ASSUME IInv, NEW t \in Threads, ReaderStep(t) PROVE IInv'
  BY <1>2, PollKeepsIInv, AuxEventKeepsIInv, SubEventKeepsIInv, UnknownEventKeepsIInv,
     RetireKeepsIInv, FinishProgressKeepsIInv DEF ReaderStep
<1>3. ASSUME IInv, NEW t \in Threads, CondWoken(t) \/ CondSpurious(t) \/ CondTimedOut(t)
      PROVE  IInv'
  BY <1>3, CondReturnKeepsIInv DEF CondWoken, CondSpurious, CondTimedOut
<1>4. ASSUME IInv, NEW t \in Threads, Lock(t) PROVE IInv'
  BY <1>4, MovesKeepIInv
<1>. QED
  BY <1>1, <1>2, <1>3, <1>4, StartKeepsIInv, EndAtomKeepsIInv, StutterKeepsIInv DEF Next

LEMMA IInvHolds == Spec => []IInv
BY InitIInv, NextKeepsIInv, PTL DEF Spec

-----------------------------------------------------------------------------
(* What the queue guarantees                                               *)

(* Type correctness: in particular no event or fault drives nr_free out of *)
(* 0 .. the number of atoms.                                               *)
THEOREM TypeCorrect == Spec => []TypeOK
BY IInvHolds, PTL DEF IInv

(* nr_free is the number of free atom numbers, so that the walk of         *)
(* panvk_kbase_alloc_atoms over the table always ends.                     *)
THEOREM FreeCount == Spec => []FreeCountIsExact
BY IInvHolds, PTL DEF IInv

(* The ring is the submissions in flight in order: the slot an export      *)
(* computes from its seqno is its own.                                     *)
THEOREM RingInOrder == Spec => []RingHoldsTheSeqnosInFlight
BY IInvHolds, PTL DEF IInv

(* The numbers of the submissions in flight are taken, and by one only.    *)
THEOREM NumbersOwned == Spec => []SubmissionsOwnTheirNumbers
BY IInvHolds, PTL DEF IInv

(* Whoever sleeps on the condition variable has a reader to wake him,      *)
(* however the calls interleave and whatever fails.                        *)
THEOREM NoLostWakeUp == Spec => []SleepersHaveAReader
BY IInvHolds, PTL DEF IInv

(* One thread at a time reads the events, and k->reading says so.          *)
THEOREM ReaderExclusion == Spec => []OneReader
<1>1. IInv => OneReader
  <2>. SUFFICES ASSUME IInv PROVE OneReader
    OBVIOUS
  <2>. DEFINE readers == {t \in Threads : pc[t] \in Readers}
  <2>1. CASE reading
    <3>1. PICK t \in Threads : pc[t] \in Readers
      BY <2>1 DEF IInv, ReaderIsUnique
    <3>2. readers = {t}
      BY <3>1 DEF IInv, ReaderIsUnique
    <3>3. Cardinality({t}) = 1
      BY FS_Singleton
    <3>4. Cardinality(readers) = 1
      BY ONLY <3>2, <3>3, Zenon
    <3>. QED
      BY <2>1, <3>4 DEF OneReader, Readers
  <2>2. CASE ~ reading
    <3>1. readers = {}
      BY <2>2 DEF IInv, ReaderIsUnique
    <3>. QED
      BY <2>2, <3>1 DEF OneReader, Readers
  <2>. QED
    BY <2>1, <2>2
<1>. QED
  BY <1>1, IInvHolds, PTL

(* The two together: whoever reads events is alone, and wakes the others.  *)
THEOREM NoForgottenReader == Spec => []SleepersHaveOneReader
BY NoLostWakeUp, ReaderExclusion, PTL DEF SleepersHaveOneReader

(* The ring never holds more submissions than there are atom numbers: each *)
(* owns its last atom.                                                     *)
THEOREM RingNeverOverflows == Spec => []RingFits
<1>1. IInv => RingFits
  <2>. SUFFICES ASSUME IInv PROVE RingFits
    OBVIOUS
  <2>. DEFINE f == [i \in 1 .. Len(subs) |-> subs[i].last]
  <2>1. Len(subs) \in Nat
    BY DEF IInv, TypeOK
  <2>2. \A i \in 1 .. Len(subs) : f[i] \in Atoms
    BY RingEntry DEF IInv, Sub
  <2>3. ASSUME NEW i \in 1 .. Len(subs), NEW j \in 1 .. Len(subs), f[i] = f[j]
        PROVE  i = j
    <3>1. f[i] \in subs[i].atoms /\ f[j] \in subs[j].atoms
      BY DEF IInv, SubmissionsOwnTheirNumbers
    <3>. QED
      BY <2>3, <3>1 DEF IInv, SubmissionsOwnTheirNumbers
  <2>4. f \in Injection(1 .. Len(subs), Atoms)
    BY <2>2, <2>3 DEF Injection, IsInjective
  <2>6. Cardinality(1 .. Len(subs)) = Len(subs)
    BY <2>1, FS_Interval, SMTT(30)
  <2>7. Cardinality(1 .. Len(subs)) <= Cardinality(Atoms)
    BY ONLY <2>4, AtomsAssumption, FS_Injection, Zenon
  <2>. QED
    BY <2>6, <2>7 DEF RingFits, MaxSubs
<1>. QED
  BY <1>1, IInvHolds, PTL

=============================================================================
