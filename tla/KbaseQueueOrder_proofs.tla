----------------------- MODULE KbaseQueueOrder_proofs -----------------------
(***************************************************************************)
(* Proofs about KbaseQueue and the kernel's atoms: nothing is taken for    *)
(* finished too early, jobs stay serialised, and callers are told the      *)
(* truth, for any number of atoms, threads and submissions and under every *)
(* combination of faults.                                                  *)
(*                                                                         *)
(* The invariant speaks of where an atom is (with the GPU, in the event    *)
(* queue, in a reader's hands, or nowhere) and of the chain of             *)
(* dependencies its submission forms with the ones before.                 *)
(*                                                                         *)
(* It also decides what becomes of a submission.  The promise TLC checks   *)
(* on small instances (KeepsItsPromise) is kept: KbaseQueue implements     *)
(* InOrderQueue, and the refinement reads "the GPU has ended submissions   *)
(* 1 .. e" off the last atoms in the ring: those up to e are over, those   *)
(* behind it live.  And as long as nothing else fails, an imported fence   *)
(* with an error neither loses the device nor cancels the work that waited *)
(* for it.                                                                 *)
(***************************************************************************)
EXTENDS KbaseQueue_proofs

-----------------------------------------------------------------------------
(* The threads                                                             *)

SubmittingAt(where, loop) ==
  where = "submit" \/ (where \in Readers \cup {"cond"} /\ loop = "submit")
Submitting(t) == SubmittingAt(pc[t], call[t].loop)

(* Events are in a thread's hands only between its read and the end of its *)
(* handling them; submission is externally synchronised; every other call  *)
(* is about a submission.                                                  *)
ThreadsBehave ==
  /\ last_seqno <= MaxSubmits
  /\ \A t \in Threads :
       /\ call[t].ev # <<>> => pc[t] \in {"lock", "handle"}
       /\ Submitting(t) => t = Submitter /\ last_seqno < MaxSubmits
       /\ pc[t] # "idle" /\ ~ Submitting(t) => call[t].seqno >= 1

-----------------------------------------------------------------------------
(* Where an atom's event is                                                *)

InEvents(a) == \E p \in 1 .. Len(events) : events[p].atom = a
InHand(a) == \E t \in Threads : \E p \in 1 .. Len(call[t].ev) : call[t].ev[p].atom = a

(* The queue of events holds one for every ended atom, and no other.       *)
EventsAreEnded ==
  /\ \A p \in 1 .. Len(events) : katom[events[p].atom].st = "ended"
  /\ \A p, q \in 1 .. Len(events) : events[p].atom = events[q].atom => p = q
  /\ \A a \in Atoms : katom[a].st = "ended" => InEvents(a)

(* An event in a reader's hands is the only trace of its atom.             *)
HandsAreUnused ==
  \A t \in Threads :
    /\ \A p \in 1 .. Len(call[t].ev) : katom[call[t].ev[p].atom].st = "unused"
    /\ \A p, q \in 1 .. Len(call[t].ev) :
         call[t].ev[p].atom = call[t].ev[q].atom => p = q

(* The event of a submission's last atom comes behind those of its others: *)
(* in the queue, in hand, and where it has been handled.                   *)
LastIsLastQueued ==
  \A i \in 1 .. Len(subs) : \A a \in subs[i].atoms : \A p, q \in 1 .. Len(events) :
    events[p].atom = subs[i].last /\ events[q].atom = a => q <= p

LastIsLastInHand ==
  \A i \in 1 .. Len(subs) : \A a \in subs[i].atoms :
    \A t \in Threads : \A p \in 1 .. Len(call[t].ev) :
      call[t].ev[p].atom = subs[i].last =>
        /\ katom[a].st # "ended"
        /\ \A q \in 1 .. Len(call[t].ev) : call[t].ev[q].atom = a => q <= p

DoneIsOver ==
  \A i \in 1 .. Len(subs) : \A a \in subs[i].atoms :
    subs[i].done => katom[a].st = "unused" /\ ~ InHand(a)

Places ==
  /\ EventsAreEnded /\ HandsAreUnused /\ FreeNumbersAreIdle
  /\ LastIsLastQueued /\ LastIsLastInHand /\ DoneIsOver

-----------------------------------------------------------------------------
(* The chain of dependencies                                               *)

LiveIn(K, a) == K[a].st = "live"
DepsIn(K, a) == K[a].order \cup K[a].data

(* The atoms nums of a submission, by the kernel's records K: each waits   *)
(* for the one before; the first f - 1 wait for an imported fence; the     *)
(* first after them waits for the last of the submissions 1 .. before of   *)
(* the ring q.                                                             *)
Chain(K, q, nums, f, before) ==
  /\ \A k, l \in 1 .. Len(nums) : k < l /\ LiveIn(K, nums[k]) => LiveIn(K, nums[l])
  /\ \A k, l \in 1 .. Len(nums) :
       l = k + 1 /\ LiveIn(K, nums[k]) => nums[k] \in DepsIn(K, nums[l])
  /\ \A k \in 1 .. Len(nums) :
       LiveIn(K, nums[k]) => (k < f <=> K[nums[k]].kind = "FENCE_WAIT")
  /\ f \in 1 .. Len(nums) =>
       /\ \A i \in 1 .. before : LiveIn(K, q[i].last) => LiveIn(K, nums[f])
       /\ before > 0 /\ LiveIn(K, q[before].last) => q[before].last \in DepsIn(K, nums[f])

(* When an atom that waits for nothing ends, the chain holds.              *)
LEMMA ChainEnds ==
  ASSUME NEW K, NEW K2, NEW q, NEW nums \in Seq(Atoms), NEW f \in Nat, NEW before \in Nat,
         NEW x \in Atoms, LiveIn(K, x), DepsIn(K, x) = {},
         \A i \in 1 .. before : q[i].last \in Atoms,
         \A a \in Atoms : LiveIn(K2, a) <=> (a # x /\ LiveIn(K, a)),
         \A a \in Atoms : a # x => /\ K2[a].kind = K[a].kind
                                   /\ DepsIn(K2, a) = DepsIn(K, a) \ {x},
         \A i \in 1 .. before : LiveIn(K, q[i].last) => LiveIn(K, q[before].last),
         Chain(K, q, nums, f, before)
  PROVE  Chain(K2, q, nums, f, before)
<1>1. \A k \in 1 .. Len(nums) : nums[k] \in Atoms
  OBVIOUS
<1>2. ASSUME NEW k \in 1 .. Len(nums), NEW l \in 1 .. Len(nums),
             k < l, LiveIn(K2, nums[k])
      PROVE  LiveIn(K2, nums[l])
  <2>1. LiveIn(K, nums[k]) /\ LiveIn(K, nums[l])
    BY <1>1, <1>2 DEF Chain
  <2>2. nums[l] # x
    <3> SUFFICES ASSUME nums[l] = x PROVE FALSE
      OBVIOUS
    <3>1. l - 1 \in 1 .. Len(nums) /\ l = (l - 1) + 1 /\ (k = l - 1 \/ k < l - 1)
      BY <1>2
    <3>2. LiveIn(K, nums[l - 1])
      BY <2>1, <3>1 DEF Chain
    <3>3. nums[l - 1] \in DepsIn(K, nums[l])
      BY <3>1, <3>2 DEF Chain
    <3> QED BY <3>3
  <2> QED BY <1>1, <2>1, <2>2
<1>3. ASSUME NEW k \in 1 .. Len(nums), NEW l \in 1 .. Len(nums),
             l = k + 1, LiveIn(K2, nums[k])
      PROVE  nums[k] \in DepsIn(K2, nums[l])
  <2>1. LiveIn(K2, nums[l])
    BY <1>2, <1>3
  <2>2. LiveIn(K, nums[k]) /\ nums[k] # x /\ nums[l] # x
    BY <1>1, <1>3, <2>1
  <2>3. nums[k] \in DepsIn(K, nums[l])
    BY <1>3, <2>2 DEF Chain
  <2> QED BY <1>1, <2>2, <2>3
<1>4. ASSUME NEW k \in 1 .. Len(nums), LiveIn(K2, nums[k])
      PROVE  k < f <=> K2[nums[k]].kind = "FENCE_WAIT"
  <2>1. LiveIn(K, nums[k]) /\ K2[nums[k]].kind = K[nums[k]].kind
    BY <1>1, <1>4
  <2>2. k < f <=> K[nums[k]].kind = "FENCE_WAIT"
    BY <2>1 DEF Chain
  <2> QED BY <2>1, <2>2
<1>5. ASSUME f \in 1 .. Len(nums), NEW i \in 1 .. before, LiveIn(K2, q[i].last)
      PROVE  LiveIn(K2, nums[f])
  <2>1. LiveIn(K, q[i].last) /\ LiveIn(K, q[before].last) /\ before > 0
    BY <1>5
  <2>2. LiveIn(K, nums[f]) /\ q[before].last \in DepsIn(K, nums[f])
    BY <1>5, <2>1 DEF Chain
  <2>3. nums[f] # x
    BY <2>2
  <2> QED BY <1>1, <1>5, <2>2, <2>3
<1>6. ASSUME f \in 1 .. Len(nums), before > 0, LiveIn(K2, q[before].last)
      PROVE  q[before].last \in DepsIn(K2, nums[f])
  <2>1. before \in 1 .. before
    BY <1>6
  <2>2. LiveIn(K, q[before].last) /\ q[before].last # x /\ q[before].last \in Atoms
    BY <1>6, <2>1
  <2>3. q[before].last \in DepsIn(K, nums[f])
    BY <1>6, <2>2 DEF Chain
  <2>4. nums[f] # x /\ nums[f] \in Atoms
    BY <1>1, <1>6, <2>3
  <2> QED BY <2>2, <2>3, <2>4
<1>7. f \in 1 .. Len(nums) =>
       /\ \A i \in 1 .. before : LiveIn(K2, q[i].last) => LiveIn(K2, nums[f])
       /\ before > 0 /\ LiveIn(K2, q[before].last) => q[before].last \in DepsIn(K2, nums[f])
  BY <1>5, <1>6
<1> QED
  BY <1>2, <1>3, <1>4, <1>7 DEF Chain

(* A chain none of whose atoms changes, live or become live, holds.        *)
LEMMA ChainRests ==
  ASSUME NEW K, NEW K2, NEW q, NEW q2, NEW nums, NEW f \in Nat, NEW before \in Nat,
         \A k \in 1 .. Len(nums) :
           LiveIn(K, nums[k]) \/ LiveIn(K2, nums[k]) => K2[nums[k]] = K[nums[k]],
         \A i \in 1 .. before :
           /\ q2[i].last = q[i].last
           /\ LiveIn(K2, q[i].last) => LiveIn(K, q[i].last),
         Len(nums) \in Nat,
         Chain(K, q, nums, f, before)
  PROVE  Chain(K2, q2, nums, f, before)
<1>1. \A k \in 1 .. Len(nums) :
        /\ LiveIn(K, nums[k]) <=> LiveIn(K2, nums[k])
        /\ LiveIn(K, nums[k]) => DepsIn(K2, nums[k]) = DepsIn(K, nums[k])
                                 /\ K2[nums[k]].kind = K[nums[k]].kind
  BY DEF LiveIn, DepsIn
<1>2. ASSUME f \in 1 .. Len(nums), NEW i \in 1 .. before, LiveIn(K2, q2[i].last)
      PROVE  LiveIn(K2, nums[f])
  BY <1>1, <1>2 DEF Chain
<1>3. ASSUME f \in 1 .. Len(nums), before > 0, LiveIn(K2, q2[before].last)
      PROVE  q2[before].last \in DepsIn(K2, nums[f])
  <2>1. before \in 1 .. before
    BY <1>3
  <2>2. LiveIn(K, q[before].last) /\ q2[before].last = q[before].last
    BY <1>3, <2>1
  <2>3. LiveIn(K, nums[f]) /\ q[before].last \in DepsIn(K, nums[f])
    BY <1>3, <2>1, <2>2 DEF Chain
  <2> QED BY <1>1, <1>3, <2>2, <2>3
<1>4. ASSUME NEW k \in 1 .. Len(nums), NEW l \in 1 .. Len(nums),
             l = k + 1, LiveIn(K2, nums[k])
      PROVE  nums[k] \in DepsIn(K2, nums[l])
  <2>1. LiveIn(K, nums[k]) /\ LiveIn(K, nums[l])
    BY <1>1, <1>4 DEF Chain
  <2> QED BY <1>1, <1>4, <2>1 DEF Chain
<1>5. \A k, l \in 1 .. Len(nums) : k < l /\ LiveIn(K2, nums[k]) => LiveIn(K2, nums[l])
  BY <1>1 DEF Chain
<1>6. \A k \in 1 .. Len(nums) :
       LiveIn(K2, nums[k]) => (k < f <=> K2[nums[k]].kind = "FENCE_WAIT")
  BY <1>1 DEF Chain
<1> QED
  BY <1>2, <1>3, <1>4, <1>5, <1>6 DEF Chain

(* A chain does not care for the oldest submission once it is over.        *)
LEMMA ChainShifts ==
  ASSUME NEW K, NEW q, NEW q2, NEW nums, NEW f \in Nat, NEW before \in Nat,
         \A i \in 1 .. before : q2[i] = q[i + 1],
         Chain(K, q, nums, f, before + 1)
  PROVE  Chain(K, q2, nums, f, before)
<1>1. ASSUME f \in 1 .. Len(nums), NEW i \in 1 .. before, LiveIn(K, q2[i].last)
      PROVE  LiveIn(K, nums[f])
  <2>1. i + 1 \in 1 .. before + 1 /\ q2[i] = q[i + 1]
    BY <1>1
  <2> QED BY <1>1, <2>1 DEF Chain
<1>2. ASSUME f \in 1 .. Len(nums), before > 0, LiveIn(K, q2[before].last)
      PROVE  q2[before].last \in DepsIn(K, nums[f])
  <2>1. before \in 1 .. before /\ before + 1 > 0 /\ q2[before] = q[before + 1]
    BY <1>2
  <2> QED BY <1>2, <2>1 DEF Chain
<1> QED
  BY <1>1, <1>2 DEF Chain

-----------------------------------------------------------------------------
(* The atoms and the submissions they work for                             *)

Working(a) == Live(a) /\ katom[a].kind # "FENCE_TRIGGER"
InRing(a) == \E i \in 1 .. Len(subs) : a \in subs[i].atoms

RingChain(j) ==
  \E nums \in Seq(Atoms), f \in Nat :
    /\ f \in 1 .. Len(nums)
    /\ NumbersOf(nums) = subs[j].atoms /\ nums[Len(nums)] = subs[j].last
    /\ Chain(katom, subs, nums, f, j - 1)

(* The kernel took only the first atoms of a submission: the ring does not *)
(* know them, but they run behind everything it knows.                     *)
OrphanChain ==
  \E nums \in Seq(Atoms), f \in Nat :
    /\ f >= 1
    /\ \A a \in Atoms : Working(a) /\ ~ InRing(a) => a \in NumbersOf(nums)
    /\ \A a \in NumbersOf(nums) : atom_use[a] = "SUB" /\ ~ InRing(a)
    /\ Chain(katom, subs, nums, f, Len(subs))

Chains == (\A j \in 1 .. Len(subs) : RingChain(j)) /\ OrphanChain

(* Whom an atom the GPU still has works for.                               *)
OwnersAreKnown ==
  /\ \A i \in 1 .. Len(subs) : \A a \in subs[i].atoms :
       Live(a) => /\ katom[a].kind # "FENCE_TRIGGER"
                  /\ katom[a].sub = subs[i].seqno
                  /\ a \in subs[i].waits => katom[a].kind = "FENCE_WAIT"
  /\ \A a \in Atoms : Working(a) /\ ~ InRing(a) => lost /\ katom[a].sub = last_seqno + 1
  /\ \A a \in Atoms : Live(a) /\ katom[a].kind = "FENCE_TRIGGER" => atom_use[a] = "AUX"

(* A sync_file has one trigger until it signals, and the trigger waits for *)
(* the last atom of its submission.                                        *)
TriggersAreOne ==
  /\ \A a \in Atoms : Live(a) /\ katom[a].kind = "FENCE_TRIGGER" =>
       /\ katom[a].sub \in 1 .. last_seqno
       /\ fence[katom[a].sub] = "armed"
       /\ \A i \in 1 .. Len(subs) : subs[i].seqno = katom[a].sub /\ Live(subs[i].last)
                                    => subs[i].last \in katom[a].data
  /\ OneTriggerPerSubmission
  /\ \A s \in Seqnos : fence[s] # "none" => s <= last_seqno
  /\ \A i \in 1 .. Len(subs) : ~ subs[i].fence => fence[subs[i].seqno] = "none"

LEMMA RingAtoms ==
  ASSUME IInv
  PROVE  /\ subs \in Seq(Sub) /\ Len(subs) \in Nat
         /\ \A i \in 1 .. Len(subs) :
              /\ subs[i] \in Sub /\ subs[i].last \in subs[i].atoms
              /\ subs[i].atoms \subseteq Atoms /\ subs[i].last \in Atoms
              /\ subs[i].seqno = completed_seqno + i /\ subs[i].seqno \in Nat
              /\ \A a \in subs[i].atoms : atom_use[a] = "SUB"
<1>1. subs \in Seq(Sub) /\ Len(subs) \in Nat /\ \A i \in 1 .. Len(subs) : subs[i] \in Sub
  BY RingEntry DEF IInv, TypeOK
<1> QED
  BY <1>1 DEF IInv, SubmissionsOwnTheirNumbers, RingHoldsTheSeqnosInFlight, Sub

(* As long as any atom of a submission is live, its last one is.           *)
LEMMA LastOutlives ==
  ASSUME IInv, Chains, NEW j \in 1 .. Len(subs), NEW a \in subs[j].atoms, Live(a)
  PROVE  Live(subs[j].last)
<1>1. PICK nums \in Seq(Atoms), f \in Nat :
        /\ f \in 1 .. Len(nums)
        /\ NumbersOf(nums) = subs[j].atoms /\ nums[Len(nums)] = subs[j].last
        /\ Chain(katom, subs, nums, f, j - 1)
  BY DEF Chains, RingChain
<1>2. PICK k \in 1 .. Len(nums) : nums[k] = a
  BY <1>1 DEF NumbersOf
<1>3. Len(nums) \in Nat /\ (k = Len(nums) \/ k < Len(nums)) /\ Len(nums) \in 1 .. Len(nums)
  OBVIOUS
<1> QED
  BY <1>1, <1>2, <1>3 DEF Chain, LiveIn, Live

(* The last atoms in the ring end in its order.                            *)
LEMMA LastsEndInOrder ==
  ASSUME IInv, Chains, NEW j \in 1 .. Len(subs), NEW i \in 1 .. j, Live(subs[i].last)
  PROVE  Live(subs[j].last)
<1>1. CASE i = j
  BY <1>1
<1>2. CASE i # j
  <2>1. PICK nums \in Seq(Atoms), f \in Nat :
          /\ f \in 1 .. Len(nums)
          /\ NumbersOf(nums) = subs[j].atoms /\ nums[Len(nums)] = subs[j].last
          /\ Chain(katom, subs, nums, f, j - 1)
    BY DEF Chains, RingChain
  <2>2. i \in 1 .. j - 1
    BY <1>2, RingAtoms
  <2>3. LiveIn(katom, nums[f])
    BY <2>1, <2>2 DEF Chain, LiveIn, Live
  <2>4. Len(nums) \in Nat /\ (f = Len(nums) \/ f < Len(nums)) /\ Len(nums) \in 1 .. Len(nums)
    BY <2>1
  <2> QED
    BY <2>1, <2>3, <2>4 DEF Chain, LiveIn, Live
<1> QED BY <1>1, <1>2

(* What works, works for a submission that is not complete.                *)
LEMMA WorkIsNotComplete ==
  ASSUME IInv, OwnersAreKnown, NEW a \in Atoms, Working(a)
  PROVE  katom[a].sub > completed_seqno
<1>1. CASE InRing(a)
  <2>1. PICK i \in 1 .. Len(subs) : a \in subs[i].atoms
    BY <1>1 DEF InRing
  <2>2. katom[a].sub = subs[i].seqno
    BY <2>1 DEF OwnersAreKnown, Working
  <2> QED BY <2>1, <2>2, RingAtoms DEF IInv, TypeOK
<1>2. CASE ~ InRing(a)
  <2>1. katom[a].sub = last_seqno + 1 /\ last_seqno = completed_seqno + Len(subs)
    BY <1>2 DEF OwnersAreKnown, IInv, RingHoldsTheSeqnosInFlight
  <2> QED BY <2>1, RingAtoms DEF IInv, TypeOK
<1> QED BY <1>1, <1>2

(* Once the last atom of a submission has ended, so has all the work up to *)
(* it.                                                                     *)
LEMMA EndedWithLast ==
  ASSUME IInv, Chains, OwnersAreKnown, NEW i \in 1 .. Len(subs), ~ Live(subs[i].last)
  PROVE  Ended(subs[i].seqno)
<1> SUFFICES ASSUME NEW a \in Atoms, Working(a)
             PROVE  katom[a].sub > subs[i].seqno
  BY DEF Ended, Working
<1>1. CASE InRing(a)
  <2>1. PICK j \in 1 .. Len(subs) : a \in subs[j].atoms
    BY <1>1 DEF InRing
  <2>2. katom[a].sub = subs[j].seqno
    BY <2>1 DEF OwnersAreKnown, Working
  <2>3. Live(subs[j].last)
    BY <2>1, LastOutlives DEF Working
  <2>4. ~ (j <= i)
    <3> SUFFICES ASSUME j <= i PROVE FALSE
      OBVIOUS
    <3>1. j \in 1 .. i
      BY RingAtoms
    <3> QED BY <2>3, <3>1, LastsEndInOrder
  <2>5. completed_seqno \in Nat
    BY DEF IInv, TypeOK
  <2> QED BY <2>2, <2>4, <2>5, RingAtoms
<1>2. CASE ~ InRing(a)
  <2>1. katom[a].sub = last_seqno + 1 /\ last_seqno = completed_seqno + Len(subs)
    BY <1>2 DEF OwnersAreKnown, IInv, RingHoldsTheSeqnosInFlight
  <2>2. completed_seqno \in Nat
    BY DEF IInv, TypeOK
  <2> QED BY <2>1, <2>2, RingAtoms DEF IInv, TypeOK
<1> QED BY <1>1, <1>2

-----------------------------------------------------------------------------
(* How the steps change atoms and ring                                     *)

(* No atom ends, and only a trigger may be new; the ring stays as it is.   *)
Rests ==
  /\ last_seqno' = last_seqno /\ (lost => lost')
  /\ Len(subs') = Len(subs)
  /\ \A i \in 1 .. Len(subs) :
       /\ subs'[i].seqno = subs[i].seqno /\ subs'[i].last = subs[i].last
       /\ subs'[i].atoms = subs[i].atoms /\ subs'[i].waits = subs[i].waits
  /\ \A a \in Atoms :
       /\ atom_use[a] = "SUB" => atom_use'[a] = "SUB"
       /\ atom_use[a] = "AUX" /\ Live(a) => atom_use'[a] = "AUX"
       /\ Live(a) => katom'[a] = katom[a]
       /\ Live(a)' /\ ~ Live(a) => /\ katom'[a].kind = "FENCE_TRIGGER"
                                   /\ atom_use[a] = "FREE" /\ atom_use'[a] = "AUX"

LEMMA RestsKeepsChains ==
  ASSUME IInv, Chains, OwnersAreKnown, Rests
  PROVE  Chains' /\ OwnersAreKnown'
<1>1. \A a \in Atoms : Working(a)' => Working(a) /\ katom'[a] = katom[a]
  BY DEF Rests, Working, Live
<1>2. \A a : InRing(a)' <=> InRing(a)
  BY DEF Rests, InRing
<1>3. \A a \in Atoms : atom_use[a] = "SUB" =>
        (LiveIn(katom, a) \/ LiveIn(katom', a) => katom'[a] = katom[a])
  BY DEF Rests, Live, LiveIn
<1>4. ASSUME NEW before \in 0 .. Len(subs)
      PROVE  \A i \in 1 .. before :
               /\ subs'[i].last = subs[i].last
               /\ LiveIn(katom', subs[i].last) => LiveIn(katom, subs[i].last)
  BY <1>3, <1>4, RingAtoms DEF Rests, LiveIn
<1>5. ASSUME NEW j \in 1 .. Len(subs) PROVE RingChain(j)'
  <2>1. PICK nums \in Seq(Atoms), f \in Nat :
          /\ f \in 1 .. Len(nums)
          /\ NumbersOf(nums) = subs[j].atoms /\ nums[Len(nums)] = subs[j].last
          /\ Chain(katom, subs, nums, f, j - 1)
    BY DEF Chains, RingChain
  <2>2. \A k \in 1 .. Len(nums) : atom_use[nums[k]] = "SUB" /\ nums[k] \in Atoms
    BY <2>1, RingAtoms DEF NumbersOf
  <2>3. PICK b \in Nat : b = j - 1 /\ b \in 0 .. Len(subs)
    BY RingAtoms
  <2>4. \A k \in 1 .. Len(nums) : LiveIn(katom, nums[k]) \/ LiveIn(katom', nums[k])
                                  => katom'[nums[k]] = katom[nums[k]]
    BY <1>3, <2>2
  <2>5. \A i \in 1 .. b :
          /\ subs'[i].last = subs[i].last
          /\ LiveIn(katom', subs[i].last) => LiveIn(katom, subs[i].last)
    BY <1>4, <2>3
  <2>6. Chain(katom', subs', nums, f, b)
    <3>1. Chain(katom, subs, nums, f, b) /\ Len(nums) \in Nat
      BY <2>1, <2>3
    <3> QED
      BY <2>4, <2>5, <3>1, ChainRests
  <2> QED
    BY <2>1, <2>3, <2>6 DEF RingChain, Rests
<1>6. OrphanChain'
  <2>1. PICK nums \in Seq(Atoms), f \in Nat :
          /\ f >= 1
          /\ \A a \in Atoms : Working(a) /\ ~ InRing(a) => a \in NumbersOf(nums)
          /\ \A a \in NumbersOf(nums) : atom_use[a] = "SUB" /\ ~ InRing(a)
          /\ Chain(katom, subs, nums, f, Len(subs))
    BY DEF Chains, OrphanChain
  <2>2. \A k \in 1 .. Len(nums) : nums[k] \in Atoms /\ nums[k] \in NumbersOf(nums)
    BY DEF NumbersOf
  <2>3. \A k \in 1 .. Len(nums) : LiveIn(katom, nums[k]) \/ LiveIn(katom', nums[k])
                                  => katom'[nums[k]] = katom[nums[k]]
    BY <1>3, <2>1, <2>2
  <2>4. Len(subs) \in 0 .. Len(subs) /\ Len(subs) \in Nat /\ Len(nums) \in Nat
    BY RingAtoms
  <2>5. \A i \in 1 .. Len(subs) :
          /\ subs'[i].last = subs[i].last
          /\ LiveIn(katom', subs[i].last) => LiveIn(katom, subs[i].last)
    BY <1>4, <2>4
  <2>6. Chain(katom', subs', nums, f, Len(subs))
    BY <2>1, <2>3, <2>4, <2>5, ChainRests
  <2>7. \A a \in NumbersOf(nums) : a \in Atoms /\ atom_use'[a] = "SUB" /\ ~ InRing(a)'
    BY <1>2, <2>1 DEF Rests, NumbersOf
  <2>8. \A a \in Atoms : Working(a)' /\ ~ InRing(a)' => a \in NumbersOf(nums)
    BY <1>1, <1>2, <2>1
  <2>9. Len(subs') = Len(subs)
    BY DEF Rests
  <2> QED
    BY <2>1, <2>6, <2>7, <2>8, <2>9 DEF OrphanChain
<1>7. OwnersAreKnown'
  <2>1. ASSUME NEW i \in 1 .. Len(subs'), NEW a \in subs'[i].atoms, Live(a)'
        PROVE  /\ katom'[a].kind # "FENCE_TRIGGER"
               /\ katom'[a].sub = subs'[i].seqno
               /\ a \in subs'[i].waits => katom'[a].kind = "FENCE_WAIT"
    <3>1. i \in 1 .. Len(subs) /\ a \in subs[i].atoms /\ a \in Atoms /\ atom_use[a] = "SUB"
      BY <2>1, RingAtoms DEF Rests
    <3>2. Live(a) /\ katom'[a] = katom[a]
      BY <1>3, <2>1, <3>1 DEF LiveIn, Live
    <3> QED
      BY <3>1, <3>2 DEF OwnersAreKnown, Rests
  <2>2. \A a \in Atoms : Working(a)' /\ ~ InRing(a)' => lost' /\ katom'[a].sub = last_seqno' + 1
    BY <1>1, <1>2 DEF OwnersAreKnown, Rests
  <2>3. \A a \in Atoms : Live(a)' /\ katom'[a].kind = "FENCE_TRIGGER" => atom_use'[a] = "AUX"
    BY DEF OwnersAreKnown, Rests, Live
  <2> QED
    BY <2>1, <2>2, <2>3 DEF OwnersAreKnown
<1>8. Len(subs') = Len(subs)
  BY DEF Rests
<1> QED
  BY <1>5, <1>6, <1>7, <1>8 DEF Chains

(* An atom ends: what stays and what goes.                                 *)
LEMMA EndFacts ==
  ASSUME IInv, NEW x \in Atoms, EndAtom(x)
  PROVE  /\ Live(x) /\ DepsIn(katom, x) = {} /\ Ready(x)
         /\ UNCHANGED <<jm, threads, told>>
         /\ katom' \in [Atoms -> KAtom]
         /\ katom'[x].st \in {"unused", "ended"}
         /\ \A a \in Atoms : a # x =>
              /\ katom'[a].st = katom[a].st /\ katom'[a].kind = katom[a].kind
              /\ katom'[a].sub = katom[a].sub /\ katom'[a].code = katom[a].code
              /\ katom'[a].data = katom[a].data \ {x}
              /\ DepsIn(katom', a) = DepsIn(katom, a) \ {x}
         /\ \A a \in Atoms : Live(a)' <=> (a # x /\ Live(a))
<1>1. PICK code \in Outcomes(x) :
        katom' = [b \in Atoms |->
               IF b = x
               THEN IF katom[x].quiet /\ code = "DONE" THEN KUnused("DONE")
                    ELSE [katom[x] EXCEPT !.st = "ended", !.code = code]
               ELSE [katom[b] EXCEPT
                       !.order = @ \ {x},
                       !.data  = @ \ {x},
                       !.bad   = @ \/ (x \in katom[b].data /\ code # "DONE")]]
  BY DEF EndAtom
<1>2. katom \in [Atoms -> KAtom] /\ katom' \in [Atoms -> KAtom]
  BY EndAtomKeepsIInv DEF IInv, TypeOK
<1>3. katom'[x].st \in {"unused", "ended"}
  <2>1. KUnused("DONE").st = "unused"
    BY DEF KUnused, KNew
  <2>2. [katom[x] EXCEPT !.st = "ended", !.code = code].st = "ended"
    BY <1>2 DEF KAtom
  <2> QED BY <1>1, <2>1, <2>2
<1>4. ASSUME NEW a \in Atoms, a # x
      PROVE  /\ katom'[a].st = katom[a].st /\ katom'[a].kind = katom[a].kind
             /\ katom'[a].sub = katom[a].sub /\ katom'[a].code = katom[a].code
             /\ katom'[a].order = katom[a].order \ {x}
             /\ katom'[a].data = katom[a].data \ {x}
  <2>1. katom'[a] = [katom[a] EXCEPT
                       !.order = @ \ {x},
                       !.data  = @ \ {x},
                       !.bad   = @ \/ (x \in katom[a].data /\ code # "DONE")]
    BY <1>1, <1>4
  <2>2. katom[a] \in KAtom
    BY <1>2
  <2> QED BY <2>1, <2>2 DEF KAtom
<1>5. \A a \in Atoms : a # x => DepsIn(katom', a) = DepsIn(katom, a) \ {x}
  BY <1>4 DEF DepsIn
<1>6. Live(x) /\ DepsIn(katom, x) = {} /\ Ready(x) /\ UNCHANGED <<jm, threads, told>>
  BY DEF EndAtom, Ready, DepsIn
<1>7. \A a \in Atoms : Live(a)' <=> (a # x /\ Live(a))
  BY <1>3, <1>4 DEF Live
<1> QED
  BY <1>2, <1>3, <1>4, <1>5, <1>6, <1>7

LEMMA EndKeepsChains ==
  ASSUME IInv, Chains, OwnersAreKnown, NEW x \in Atoms, EndAtom(x)
  PROVE  Chains' /\ OwnersAreKnown'
<1>1. /\ LiveIn(katom, x) /\ DepsIn(katom, x) = {}
      /\ UNCHANGED <<atom_use, subs, last_seqno, lost>>
      /\ \A a \in Atoms : LiveIn(katom', a) <=> (a # x /\ LiveIn(katom, a))
      /\ \A a \in Atoms : a # x => /\ katom'[a].kind = katom[a].kind
                                   /\ DepsIn(katom', a) = DepsIn(katom, a) \ {x}
      /\ \A a \in Atoms : Live(a)' => Live(a) /\ katom'[a].kind = katom[a].kind
                                      /\ katom'[a].sub = katom[a].sub
  BY EndFacts DEF Live, LiveIn, jm
<1>2. ASSUME NEW before \in Nat, before <= Len(subs), NEW nums \in Seq(Atoms), NEW f \in Nat,
             Chain(katom, subs, nums, f, before)
      PROVE  Chain(katom', subs, nums, f, before)
  <2>1. \A i \in 1 .. before : subs[i].last \in Atoms
    BY <1>2, RingAtoms
  <2>2. ASSUME NEW i \in 1 .. before, LiveIn(katom, subs[i].last)
        PROVE  LiveIn(katom, subs[before].last)
    <3>1. before \in 1 .. Len(subs)
      BY <1>2, RingAtoms
    <3> QED BY <2>2, <3>1, LastsEndInOrder DEF LiveIn, Live
  <2> QED
    BY <1>1, <1>2, <2>1, <2>2, ChainEnds
<1>3. ASSUME NEW j \in 1 .. Len(subs) PROVE RingChain(j)'
  <2>1. j - 1 \in Nat /\ j - 1 <= Len(subs)
    BY RingAtoms
  <2> QED
    BY <1>1, <1>2, <2>1 DEF Chains, RingChain
<1>4. OrphanChain'
  <2>1. PICK nums \in Seq(Atoms), f \in Nat :
          /\ f >= 1
          /\ \A a \in Atoms : Working(a) /\ ~ InRing(a) => a \in NumbersOf(nums)
          /\ \A a \in NumbersOf(nums) : atom_use[a] = "SUB" /\ ~ InRing(a)
          /\ Chain(katom, subs, nums, f, Len(subs))
    BY DEF Chains, OrphanChain
  <2>2. Chain(katom', subs', nums, f, Len(subs'))
    BY <1>1, <1>2, <2>1, RingAtoms
  <2>3. \A a \in Atoms : Working(a)' /\ ~ InRing(a)' => a \in NumbersOf(nums)
    BY <1>1, <2>1 DEF Working, InRing
  <2>4. \A a \in NumbersOf(nums) : atom_use'[a] = "SUB" /\ ~ InRing(a)'
    BY <1>1, <2>1 DEF InRing
  <2> QED BY <2>1, <2>2, <2>3, <2>4 DEF OrphanChain
<1>5. OwnersAreKnown'
  <2>1. \A i \in 1 .. Len(subs) : \A a \in subs[i].atoms : a \in Atoms
    BY RingAtoms
  <2>2. \A i \in 1 .. Len(subs') : \A a \in subs'[i].atoms :
       Live(a)' => /\ katom'[a].kind # "FENCE_TRIGGER"
                   /\ katom'[a].sub = subs'[i].seqno
                   /\ a \in subs'[i].waits => katom'[a].kind = "FENCE_WAIT"
    BY <1>1, <2>1 DEF OwnersAreKnown
  <2>3. \A a \in Atoms : Working(a)' /\ ~ InRing(a)' => lost' /\ katom'[a].sub = last_seqno' + 1
    BY <1>1 DEF OwnersAreKnown, Working, InRing
  <2>4. \A a \in Atoms : Live(a)' /\ katom'[a].kind = "FENCE_TRIGGER" => atom_use'[a] = "AUX"
    BY <1>1 DEF OwnersAreKnown
  <2> QED BY <2>2, <2>3, <2>4 DEF OwnersAreKnown
<1> QED BY <1>1, <1>3, <1>4, <1>5 DEF Chains

(* The oldest submission is retired: all of it is over.                    *)
LEMMA RetireFacts ==
  ASSUME IInv, NEW t \in Threads, RetireOldest(t)
  PROVE  /\ UNCHANGED <<last_seqno, lost, katom, events, fence, history, pc, call>>
         /\ subs # <<>> /\ 1 \in 1 .. Len(subs) /\ subs[1].done
         /\ completed_seqno' = completed_seqno + 1
         /\ Len(subs') = Len(subs) - 1
         /\ \A i \in 1 .. Len(subs') : subs'[i] = subs[i + 1]
         /\ \A a \in Atoms : atom_use'[a] = IF a \in subs[1].atoms THEN "FREE" ELSE atom_use[a]
<1>1. subs # <<>> /\ Head(subs).done /\ FreeAtoms(Head(subs).atoms)
      /\ completed_seqno' = Head(subs).seqno /\ subs' = Tail(subs)
      /\ UNCHANGED <<last_seqno, lost, katom, events, fence, history, pc, call>>
  BY DEF RetireOldest, HeadDone, DropOldest, kernel, threads
<1>2. Len(subs) >= 1 /\ Head(subs) = subs[1] /\ Head(subs).seqno = completed_seqno + 1
      /\ subs \in Seq(Sub)
  BY <1>1, RingHead DEF IInv, TypeOK
<1>3. Len(subs') = Len(subs) - 1 /\ \A i \in 1 .. Len(subs') : subs'[i] = subs[i + 1]
  BY <1>1, <1>2
<1> QED
  BY <1>1, <1>2, <1>3 DEF FreeAtoms

LEMMA RetireKeepsChains ==
  ASSUME IInv, Chains, OwnersAreKnown, DoneIsOver, NEW t \in Threads, RetireOldest(t)
  PROVE  Chains' /\ OwnersAreKnown'
<1>1. /\ UNCHANGED <<last_seqno, lost, katom>> /\ 1 \in 1 .. Len(subs)
      /\ Len(subs') = Len(subs) - 1 /\ Len(subs) \in Nat
      /\ \A i \in 1 .. Len(subs') : subs'[i] = subs[i + 1] /\ i + 1 \in 1 .. Len(subs)
      /\ \A a \in Atoms : atom_use'[a] = IF a \in subs[1].atoms THEN "FREE" ELSE atom_use[a]
      /\ \A a \in subs[1].atoms : ~ Live(a)
  BY RetireFacts, RingAtoms DEF DoneIsOver, Live
<1>2. \A a \in Atoms : InRing(a)' => InRing(a)
  BY <1>1 DEF InRing
<1>3. ASSUME NEW a \in Atoms, InRing(a), ~ InRing(a)' PROVE ~ Live(a) /\ a \in subs[1].atoms
  <2>1. PICK i \in 1 .. Len(subs) : a \in subs[i].atoms
    BY <1>3 DEF InRing
  <2>2. i = 1
    <3> SUFFICES ASSUME i # 1 PROVE FALSE
      OBVIOUS
    <3>1. i - 1 \in 1 .. Len(subs') /\ subs'[i - 1] = subs[(i - 1) + 1] /\ (i - 1) + 1 = i
      BY <1>1
    <3> QED BY <1>3, <2>1, <3>1 DEF InRing
  <2> QED BY <1>1, <2>1, <2>2
<1>4. ASSUME NEW j \in 1 .. Len(subs') PROVE RingChain(j)'
  <2>1. PICK nums \in Seq(Atoms), f \in Nat :
          /\ f \in 1 .. Len(nums)
          /\ NumbersOf(nums) = subs[j + 1].atoms /\ nums[Len(nums)] = subs[j + 1].last
          /\ Chain(katom, subs, nums, f, (j + 1) - 1)
    BY <1>1 DEF Chains, RingChain
  <2>2. PICK b \in Nat : b = j - 1
    BY <1>1
  <2>3. Chain(katom, subs, nums, f, b + 1) /\ \A i \in 1 .. b : subs'[i] = subs[i + 1]
    BY <1>1, <2>1, <2>2
  <2>4. Chain(katom, subs', nums, f, b)
    BY <2>3, ChainShifts
  <2> QED
    BY <1>1, <2>1, <2>2, <2>4 DEF RingChain
<1>5. OrphanChain'
  <2>1. PICK nums \in Seq(Atoms), f \in Nat :
          /\ f >= 1
          /\ \A a \in Atoms : Working(a) /\ ~ InRing(a) => a \in NumbersOf(nums)
          /\ \A a \in NumbersOf(nums) : atom_use[a] = "SUB" /\ ~ InRing(a)
          /\ Chain(katom, subs, nums, f, Len(subs))
    BY DEF Chains, OrphanChain
  <2>2. PICK b \in Nat : b = Len(subs') /\ b + 1 = Len(subs)
    BY <1>1
  <2>3. Chain(katom, subs, nums, f, b + 1) /\ \A i \in 1 .. b : subs'[i] = subs[i + 1]
    BY <1>1, <2>1, <2>2
  <2>4. Chain(katom, subs', nums, f, b)
    BY <2>3, ChainShifts
  <2>5. ASSUME NEW a \in NumbersOf(nums) PROVE atom_use'[a] = "SUB" /\ ~ InRing(a)'
    <3>1. a \in Atoms
      BY <2>5 DEF NumbersOf
    <3>2. ~ InRing(a) /\ atom_use[a] = "SUB"
      BY <2>1, <2>5
    <3>3. a \notin subs[1].atoms
      BY <1>1, <3>2 DEF InRing
    <3> QED BY <1>1, <1>2, <3>1, <3>2, <3>3
  <2>6. \A a \in Atoms : Working(a)' /\ ~ InRing(a)' => a \in NumbersOf(nums)
    BY <1>1, <1>3, <2>1 DEF Working, Live
  <2> QED BY <1>1, <2>1, <2>2, <2>4, <2>5, <2>6 DEF OrphanChain
<1>6. OwnersAreKnown'
  <2>1. \A i \in 1 .. Len(subs') : \A a \in subs'[i].atoms :
       Live(a)' => /\ katom'[a].kind # "FENCE_TRIGGER"
                   /\ katom'[a].sub = subs'[i].seqno
                   /\ a \in subs'[i].waits => katom'[a].kind = "FENCE_WAIT"
    BY <1>1 DEF OwnersAreKnown, Live
  <2>2. \A a \in Atoms : Working(a)' /\ ~ InRing(a)' => lost' /\ katom'[a].sub = last_seqno' + 1
    BY <1>1, <1>3 DEF OwnersAreKnown, Working, Live
  <2>3. \A a \in Atoms : Live(a)' /\ katom'[a].kind = "FENCE_TRIGGER" => atom_use'[a] = "AUX"
    BY <1>1 DEF OwnersAreKnown, Live
  <2> QED BY <2>1, <2>2, <2>3 DEF OwnersAreKnown
<1> QED BY <1>4, <1>5, <1>6 DEF Chains

-----------------------------------------------------------------------------
(* What a submission adds to the kernel's atoms                            *)

Sent(nums, m) == {nums[k] : k \in 1 .. m}

(* The k-th atom given to the kernel.                                      *)
LEMMA SentAtom ==
  ASSUME NEW nums \in Seq(Atoms), NEW m \in 0 .. Len(nums), NEW n \in Nat, NEW w \in BOOLEAN,
         \A i, j \in 1 .. Len(nums) : nums[i] = nums[j] => i = j,
         NEW k \in 1 .. m
  PROVE  /\ nums[k] \in Sent(nums, m) /\ nums[k] \in Atoms
         /\ AtomsToSubmit(nums, m, n, w)[nums[k]] = SubmissionAtom(nums, k, n, w)
<1>1. nums[k] \in Sent(nums, m) /\ nums[k] \in Atoms /\ \A i \in 1 .. m : i \in 1 .. Len(nums)
  BY DEF Sent
<1>2. (CHOOSE i \in 1 .. m : nums[i] = nums[k]) = k
  BY <1>1
<1>3. AtomsToSubmit(nums, m, n, w)[nums[k]]
        = SubmissionAtom(nums, CHOOSE i \in 1 .. m : nums[i] = nums[k], n, w)
  BY <1>1 DEF AtomsToSubmit, Sent
<1> QED BY <1>1, <1>2, <1>3

LEMMA EnqueuedAtom ==
  ASSUME katom \in [Atoms -> KAtom], NEW new, NEW a \in Atoms
  PROVE  /\ a \notin DOMAIN new => Enqueued(new)[a] = katom[a]
         /\ a \in DOMAIN new /\ new[a] \in KAtom =>
              /\ Enqueued(new)[a].st = new[a].st /\ Enqueued(new)[a].kind = new[a].kind
              /\ Enqueued(new)[a].sub = new[a].sub
              /\ Enqueued(new)[a].order = {d \in new[a].order : d \in DOMAIN new \/ Live(d)}
              /\ Enqueued(new)[a].data = {d \in new[a].data : d \in DOMAIN new \/ Live(d)}
<1>1. ASSUME a \notin DOMAIN new PROVE Enqueued(new)[a] = katom[a]
  BY <1>1 DEF Enqueued
<1>2. ASSUME a \in DOMAIN new, new[a] \in KAtom
      PROVE /\ Enqueued(new)[a].st = new[a].st /\ Enqueued(new)[a].kind = new[a].kind
            /\ Enqueued(new)[a].sub = new[a].sub
            /\ Enqueued(new)[a].order = {d \in new[a].order : d \in DOMAIN new \/ Live(d)}
            /\ Enqueued(new)[a].data = {d \in new[a].data : d \in DOMAIN new \/ Live(d)}
  <2> DEFINE bad == \E d \in new[a].data : /\ ~ (d \in DOMAIN new \/ Live(d))
                                           /\ katom[d].code # "DONE"
             order == {d \in new[a].order : d \in DOMAIN new \/ Live(d)}
             data == {d \in new[a].data : d \in DOMAIN new \/ Live(d)}
  <2>1. Enqueued(new)[a] = [new[a] EXCEPT !.order = order, !.data = data, !.bad = bad]
    BY <1>2 DEF Enqueued
  <2> HIDE DEF bad, order, data
  <2>2. /\ Enqueued(new)[a].st = new[a].st /\ Enqueued(new)[a].kind = new[a].kind
        /\ Enqueued(new)[a].sub = new[a].sub
        /\ Enqueued(new)[a].order = order
        /\ Enqueued(new)[a].data = data
    BY <1>2, <2>1 DEF KAtom
  <2> QED BY <2>2 DEF order, data
<1> QED BY <1>1, <1>2

(* Numbers for a submission, as panvk_kbase_alloc_atoms returns them.      *)
Chosen(nums, n, w) ==
  /\ nums \in Seq(Atoms) /\ Len(nums) = NrAtoms(n, w)
  /\ \A i, j \in 1 .. Len(nums) : nums[i] = nums[j] => i = j
  /\ NumbersOf(nums) \in SUBSET Free

FirstJob(w) == IF w THEN 2 ELSE 1

(* The kernel's records K once it took the first m atoms: they are live,   *)
(* they work for the next number, and each waits for the one before.       *)
Took(K, nums, m, w) ==
  /\ \A a \in Atoms : a \notin Sent(nums, m) => K[a] = katom[a]
  /\ \A k \in 1 .. m :
       /\ nums[k] \in Sent(nums, m) /\ nums[k] \in Atoms
       /\ LiveIn(K, nums[k]) /\ K[nums[k]].sub = last_seqno + 1
       /\ K[nums[k]].kind # "FENCE_TRIGGER"
       /\ k < FirstJob(w) <=> K[nums[k]].kind = "FENCE_WAIT"
       /\ k >= 2 => nums[k - 1] \in DepsIn(K, nums[k])
       /\ k = FirstJob(w) => \A d \in Prev : Live(d) => d \in DepsIn(K, nums[k])

LEMMA SentFacts ==
  ASSUME IInv, NEW n \in Nat, NEW w \in BOOLEAN, NEW nums, Chosen(nums, n, w),
         NEW m \in 0 .. Len(nums), NEW K, K = Enqueued(AtomsToSubmit(nums, m, n, w))
  PROVE  Took(K, nums, m, w)
<1> DEFINE f == FirstJob(w)
<1>0. /\ nums \in Seq(Atoms) /\ Len(nums) = NrAtoms(n, w)
      /\ \A i, j \in 1 .. Len(nums) : nums[i] = nums[j] => i = j
  BY DEF Chosen
<1> DEFINE new == AtomsToSubmit(nums, m, n, w)
<1>1. DOMAIN new = Sent(nums, m)
  BY DEF AtomsToSubmit, Sent
<1>2. katom \in [Atoms -> KAtom] /\ last_seqno + 1 \in Nat /\ Len(nums) \in Nat /\ m \in Nat
  BY <1>0 DEF IInv, TypeOK
<1>3. \A a \in DOMAIN new : new[a] \in KAtom
  BY <1>0, AtomsToSubmitType DEF IInv
<1>4. \A a \in Atoms : a \notin Sent(nums, m) => K[a] = katom[a]
  BY <1>1, <1>2, EnqueuedAtom
<1>5. ASSUME NEW k \in 1 .. m
      PROVE  /\ nums[k] \in Sent(nums, m) /\ nums[k] \in Atoms
             /\ LiveIn(K, nums[k]) /\ K[nums[k]].sub = last_seqno + 1
             /\ K[nums[k]].kind # "FENCE_TRIGGER"
             /\ k < f <=> K[nums[k]].kind = "FENCE_WAIT"
             /\ k >= 2 => nums[k - 1] \in DepsIn(K, nums[k])
             /\ k = f => \A d \in Prev : Live(d) => d \in DepsIn(K, nums[k])
  <2> DEFINE rec == SubmissionAtom(nums, k, n, w)
             wait == IF w THEN {nums[1]} ELSE {}
  <2>1. nums[k] \in Sent(nums, m) /\ nums[k] \in Atoms /\ new[nums[k]] = rec
    BY <1>0, SentAtom, SMTT(30)
  <2>2. rec \in KAtom
    BY <1>1, <1>3, <2>1
  <2>3. /\ K[nums[k]].st = rec.st /\ K[nums[k]].kind = rec.kind /\ K[nums[k]].sub = rec.sub
        /\ K[nums[k]].order = {d \in rec.order : d \in DOMAIN new \/ Live(d)}
        /\ K[nums[k]].data = {d \in rec.data : d \in DOMAIN new \/ Live(d)}
    BY <1>1, <1>2, <2>1, <2>2, EnqueuedAtom
  <2>4. rec.st = "live" /\ rec.sub = last_seqno + 1
    BY DEF SubmissionAtom, KNew
  <2>5. rec.kind # "FENCE_TRIGGER" /\ (k < f <=> rec.kind = "FENCE_WAIT")
    <3>1. k < f <=> w /\ k = 1
      BY DEF FirstJob
    <3> QED BY <3>1 DEF SubmissionAtom, KNew
  <2>6. ASSUME k >= 2 PROVE nums[k - 1] \in rec.order \cup rec.data
    <3>1. CASE w /\ k = 2
      <4>1. rec.order = Prev \cup {nums[1]}
        BY <3>1 DEF SubmissionAtom, KNew, FirstJobOrder
      <4>2. k - 1 = 1
        BY <3>1
      <4>3. nums[1] \in rec.order
        BY <4>1
      <4> HIDE DEF rec
      <4> QED BY <4>2, <4>3
    <3>2. CASE ~ (w /\ k = 2)
      <4>1. n # 0
        BY <1>0, <1>2, <2>6, <3>2 DEF NrAtoms
      <4>2. rec.data = {nums[k - 1]}
        BY <2>6, <3>2, <4>1 DEF SubmissionAtom, KNew
      <4> QED BY <4>2
    <3> QED BY <3>1, <3>2
  <2>7. ASSUME k >= 2 PROVE nums[k - 1] \in DOMAIN new
    <3>1. k - 1 \in 1 .. m
      BY <2>7
    <3> QED BY <1>1, <3>1 DEF Sent
  <2>8. ASSUME k = f PROVE Prev \subseteq rec.order
    BY <2>8 DEF SubmissionAtom, KNew, FirstJobOrder, FirstJob
  <2> HIDE DEF rec, new
  <2>9. k >= 2 => nums[k - 1] \in DepsIn(K, nums[k])
    BY <2>3, <2>6, <2>7 DEF DepsIn
  <2>10. k = f => \A d \in Prev : Live(d) => d \in DepsIn(K, nums[k])
    BY <2>3, <2>8 DEF DepsIn
  <2> QED
    BY <2>1, <2>3, <2>4, <2>5, <2>9, <2>10 DEF LiveIn
<1> QED BY <1>4, <1>5 DEF Took

(* They form a chain behind the ring.                                      *)
LEMMA SentChain ==
  ASSUME IInv, NEW n \in Nat, NEW w \in BOOLEAN, NEW nums, Chosen(nums, n, w),
         NEW m \in 0 .. Len(nums), NEW K, Took(K, nums, m, w),
         NEW q, \A i \in 1 .. Len(subs) : q[i].last = subs[i].last,
         NEW ns \in Seq(Atoms), Len(ns) = m, \A k \in 1 .. m : ns[k] = nums[k]
  PROVE  Chain(K, q, ns, FirstJob(w), Len(subs))
<1> DEFINE f == FirstJob(w)
<1>0. Len(nums) \in Nat /\ nums \in Seq(Atoms) /\ f \in Nat
  BY DEF Chosen, FirstJob
<1>1. /\ \A a \in Atoms : a \notin Sent(nums, m) => K[a] = katom[a]
      /\ \A k \in 1 .. m :
              /\ nums[k] \in Sent(nums, m) /\ nums[k] \in Atoms
              /\ LiveIn(K, nums[k])
              /\ k < f <=> K[nums[k]].kind = "FENCE_WAIT"
              /\ k >= 2 => nums[k - 1] \in DepsIn(K, nums[k])
              /\ k = f => \A d \in Prev : Live(d) => d \in DepsIn(K, nums[k])
  BY DEF Took
<1> HIDE DEF f
<1>2. \A k, l \in 1 .. Len(ns) : l = k + 1 => ns[k] \in DepsIn(K, ns[l])
  <2> SUFFICES ASSUME NEW k \in 1 .. Len(ns), NEW l \in 1 .. Len(ns), l = k + 1
               PROVE  ns[k] \in DepsIn(K, ns[l])
    OBVIOUS
  <2>1. l >= 2 /\ l - 1 = k /\ k \in 1 .. m /\ l \in 1 .. m
    BY <1>0
  <2>2. ns[k] = nums[k] /\ ns[l] = nums[l]
    BY <2>1
  <2>3. nums[l - 1] \in DepsIn(K, nums[l])
    BY <1>1, <2>1
  <2> QED BY <2>1, <2>2, <2>3
<1>3. ASSUME f \in 1 .. Len(ns), Len(subs) > 0, LiveIn(K, q[Len(subs)].last)
      PROVE  q[Len(subs)].last \in DepsIn(K, ns[f])
  <2>1. Len(subs) \in 1 .. Len(subs) /\ subs # <<>>
    BY <1>3, RingAtoms
  <2>2. q[Len(subs)].last = subs[Len(subs)].last /\ subs[Len(subs)].last \in Prev
        /\ subs[Len(subs)].last \in Atoms
        /\ atom_use[subs[Len(subs)].last] = "SUB"
    BY <2>1, RingAtoms DEF Prev
  <2>3. subs[Len(subs)].last \notin Sent(nums, m)
    BY <1>0, <2>2 DEF Sent, Chosen, NumbersOf, Free
  <2>4. Live(subs[Len(subs)].last)
    BY <1>1, <1>3, <2>2, <2>3 DEF LiveIn, Live
  <2> QED BY <1>1, <1>3, <2>2, <2>4
<1>4. \A k \in 1 .. Len(ns) : LiveIn(K, ns[k]) /\ (k < f <=> K[ns[k]].kind = "FENCE_WAIT")
  BY <1>0, <1>1
<1> QED
  BY <1>0, <1>2, <1>3, <1>4 DEF Chain, f

LEMMA ChosenNumbers ==
  ASSUME IInv, NEW t \in Threads, NEW nums \in Allocations(Needed(t))
  PROVE  /\ Chosen(nums, call[t].nr_jobs, call[t].wait_fd)
         /\ Needed(t) \in Nat /\ Len(nums) = Needed(t) /\ Len(nums) >= 1
         /\ call[t].nr_jobs \in Nat /\ call[t].wait_fd \in BOOLEAN
         /\ FirstJob(call[t].wait_fd) \in 1 .. Len(nums)
         /\ \A k \in 1 .. Len(nums) : nums[k] \in NumbersOf(nums)
         /\ NumbersOf(nums) \in SUBSET Atoms
<1>1. Needed(t) \in Nat /\ Needed(t) >= 1 /\ call[t].nr_jobs \in Nat /\ call[t].wait_fd \in BOOLEAN
  BY NeededType DEF IInv
<1>2. /\ nums \in Seq(Atoms) /\ Len(nums) = Needed(t) /\ NumbersOf(nums) \in SUBSET Free
      /\ \A k \in 1 .. Len(nums) : nums[k] \in NumbersOf(nums)
  BY <1>1, AllocationsAreFree
<1>3. \A i, j \in 1 .. Len(nums) : nums[i] = nums[j] => i = j
  BY <1>2 DEF Allocations
<1>4. FirstJob(call[t].wait_fd) \in 1 .. Len(nums)
  BY <1>1, <1>2 DEF FirstJob, Needed, NrAtoms
<1> QED
  BY <1>1, <1>2, <1>3, <1>4 DEF Chosen, Needed, Free

(* What a submission that comes through does.                              *)
Submits(t, n, w, nums) ==
  /\ Chosen(nums, n, w) /\ FirstJob(w) \in 1 .. Len(nums)
  /\ Took(katom', nums, Len(nums), w)
  /\ \A a \in Atoms : atom_use'[a] = IF a \in NumbersOf(nums) THEN "SUB" ELSE atom_use[a]
  /\ Len(subs') = Len(subs) + 1
  /\ \A i \in 1 .. Len(subs) : subs'[i] = subs[i]
  /\ subs'[Len(subs) + 1] = [seqno |-> last_seqno + 1, last |-> nums[Len(nums)],
                             done |-> FALSE, fence |-> FALSE,
                             atoms |-> NumbersOf(nums),
                             waits |-> IF w THEN {nums[1]} ELSE {}]
  /\ last_seqno' = last_seqno + 1 /\ ~ lost /\ pc[t] = "submit" /\ Return(t)
  /\ UNCHANGED <<completed_seqno, lost, events, fence, history>>

LEMMA SubmitFacts ==
  ASSUME IInv, NEW t \in Threads, Submit(t)
  PROVE  \E n \in Nat, w \in BOOLEAN, nums \in Seq(Atoms) : Submits(t, n, w, nums)
<1> DEFINE n == call[t].nr_jobs
           w == call[t].wait_fd
<1>1. PICK nums \in Allocations(Needed(t)) :
        /\ Allocate(nums, "SUB")
        /\ katom' = Enqueued(AtomsToSubmit(nums, Len(nums), n, w))
        /\ subs' = Append(subs,
                     [seqno |-> last_seqno + 1, last |-> nums[Len(nums)],
                      done |-> FALSE, fence |-> FALSE,
                      atoms |-> NumbersOf(nums),
                      waits |-> IF w THEN {nums[1]} ELSE {}])
  BY DEF Submit
<1> DEFINE sub == [seqno |-> last_seqno + 1, last |-> nums[Len(nums)],
                   done |-> FALSE, fence |-> FALSE, atoms |-> NumbersOf(nums),
                   waits |-> IF w THEN {nums[1]} ELSE {}]
<1>2. /\ Chosen(nums, n, w) /\ Len(nums) >= 1 /\ n \in Nat /\ w \in BOOLEAN
      /\ FirstJob(w) \in 1 .. Len(nums) /\ nums \in Seq(Atoms)
  BY ChosenNumbers DEF Chosen
<1>3. Took(katom', nums, Len(nums), w)
  BY <1>1, <1>2, SentFacts
<1>4. /\ last_seqno' = last_seqno + 1 /\ ~ lost /\ pc[t] = "submit" /\ Return(t)
      /\ UNCHANGED <<completed_seqno, lost, events, fence, history>>
  BY DEF Submit, Holds, Refused
<1>5. subs \in Seq(Sub) /\ subs' \in Seq(Sub)
  BY SubmitKeepsIInv DEF IInv, TypeOK
<1>6. subs' = Append(subs, sub)
  BY <1>1
<1> HIDE DEF n, w, sub
<1>7. /\ Len(subs') = Len(subs) + 1 /\ subs'[Len(subs) + 1] = sub
      /\ \A i \in 1 .. Len(subs) : subs'[i] = subs[i]
  BY <1>5, <1>6
<1>8. \A a \in Atoms : atom_use'[a] = IF a \in NumbersOf(nums) THEN "SUB" ELSE atom_use[a]
  BY <1>1 DEF Allocate
<1> QED
  BY <1>2, <1>3, <1>4, <1>7, <1>8 DEF sub, Submits

LEMMA SubmitFailsFacts ==
  ASSUME IInv, NEW t \in Threads, SubmitFails(t)
  PROVE  \E n \in Nat, w \in BOOLEAN, nums \in Seq(Atoms), m \in Nat :
           /\ Chosen(nums, n, w) /\ m \in 0 .. Len(nums)
           /\ Took(katom', nums, m, w)
           /\ \A a \in Atoms : atom_use'[a] = IF a \in NumbersOf(nums) THEN "SUB" ELSE atom_use[a]
           /\ ~ lost /\ lost' /\ pc[t] = "submit" /\ Return(t)
           /\ UNCHANGED <<subs, last_seqno, completed_seqno, events, fence, history>>
<1> DEFINE n == call[t].nr_jobs
           w == call[t].wait_fd
<1>1. PICK nums \in Allocations(Needed(t)), m \in 0 .. Needed(t) - 1 :
        /\ Allocate(nums, "SUB")
        /\ katom' = Enqueued(AtomsToSubmit(nums, m, n, w))
  BY DEF SubmitFails
<1>2. /\ Chosen(nums, n, w) /\ Len(nums) >= 1 /\ n \in Nat /\ w \in BOOLEAN
      /\ Len(nums) = Needed(t) /\ Needed(t) \in Nat /\ nums \in Seq(Atoms)
  BY ChosenNumbers DEF Chosen
<1>3. m \in 0 .. Len(nums) /\ m \in Nat
  BY <1>2
<1>4. Took(katom', nums, m, w)
  BY <1>1, <1>2, <1>3, SentFacts
<1>5. /\ ~ lost /\ lost' /\ pc[t] = "submit" /\ Return(t)
      /\ UNCHANGED <<subs, last_seqno, completed_seqno, events, fence, history>>
  BY DEF SubmitFails, Holds, Refused
<1>6. \A a \in Atoms : atom_use'[a] = IF a \in NumbersOf(nums) THEN "SUB" ELSE atom_use[a]
  BY <1>1 DEF Allocate
<1> HIDE DEF n, w
<1> QED
  BY <1>2, <1>3, <1>4, <1>5, <1>6

(* The chains in the ring stand when the kernel takes new atoms: those had *)
(* free numbers.                                                           *)
LEMMA RingChainsStand ==
  ASSUME IInv, Chains, NEW n \in Nat, NEW w \in BOOLEAN, NEW nums, Chosen(nums, n, w),
         NEW m \in 0 .. Len(nums), Took(katom', nums, m, w),
         \A i \in 1 .. Len(subs) : subs'[i] = subs[i],
         NEW j \in 1 .. Len(subs)
  PROVE  RingChain(j)'
<1>1. PICK rn \in Seq(Atoms), f \in Nat :
        /\ f \in 1 .. Len(rn)
        /\ NumbersOf(rn) = subs[j].atoms /\ rn[Len(rn)] = subs[j].last
        /\ Chain(katom, subs, rn, f, j - 1)
  BY DEF Chains, RingChain
<1>2. \A a \in Atoms : atom_use[a] = "SUB" => katom'[a] = katom[a]
  <2>1. \A a \in Atoms : atom_use[a] = "SUB" => a \notin Sent(nums, m)
    <3>1. Len(nums) \in Nat /\ NumbersOf(nums) \in SUBSET Free
      BY DEF Chosen
    <3> QED BY <3>1 DEF Sent, NumbersOf, Free
  <2> QED BY <2>1 DEF Took
<1>3. \A k \in 1 .. Len(rn) : katom'[rn[k]] = katom[rn[k]]
  BY <1>1, <1>2, RingAtoms DEF NumbersOf
<1>4. PICK b \in Nat : b = j - 1 /\ b <= Len(subs)
  BY RingAtoms
<1>5. \A i \in 1 .. b :
        /\ subs'[i].last = subs[i].last
        /\ LiveIn(katom', subs[i].last) => LiveIn(katom, subs[i].last)
  <2> SUFFICES ASSUME NEW i \in 1 .. b
               PROVE  /\ subs'[i].last = subs[i].last
                      /\ LiveIn(katom', subs[i].last) => LiveIn(katom, subs[i].last)
    OBVIOUS
  <2>1. i \in 1 .. Len(subs)
    BY <1>4, RingAtoms
  <2>2. /\ subs'[i] = subs[i] /\ subs[i].last \in Atoms
        /\ atom_use[subs[i].last] = "SUB"
    BY <2>1, RingAtoms
  <2>3. katom'[subs[i].last] = katom[subs[i].last]
    BY <1>2, <2>2
  <2> QED BY <2>2, <2>3 DEF LiveIn
<1>6. Chain(katom', subs', rn, f, b)
  <2>1. Chain(katom, subs, rn, f, b) /\ Len(rn) \in Nat
    BY <1>1, <1>4
  <2> QED BY <1>3, <1>5, <2>1, ChainRests
<1> QED
  BY <1>1, <1>4, <1>6 DEF RingChain

(* What works is new, or did so before.                                    *)
LEMMA WorkersBefore ==
  ASSUME IInv, NEW nums, NEW m \in Nat, NEW w \in BOOLEAN, Took(katom', nums, m, w),
         NEW a \in Atoms, Live(a)', a \notin Sent(nums, m)
  PROVE  Live(a) /\ katom'[a] = katom[a]
BY DEF Took, Live

LEMMA SubmitKeepsChains ==
  ASSUME IInv, Chains, OwnersAreKnown, NEW t \in Threads, Submit(t)
  PROVE  Chains' /\ OwnersAreKnown'
<1>0. PICK n \in Nat, w \in BOOLEAN, nums \in Seq(Atoms) : Submits(t, n, w, nums)
  BY SubmitFacts
<1>1. /\ Chosen(nums, n, w) /\ FirstJob(w) \in 1 .. Len(nums)
      /\ Took(katom', nums, Len(nums), w)
      /\ \A a \in Atoms : atom_use'[a] = IF a \in NumbersOf(nums) THEN "SUB" ELSE atom_use[a]
      /\ Len(subs') = Len(subs) + 1
      /\ \A i \in 1 .. Len(subs) : subs'[i] = subs[i]
      /\ subs'[Len(subs) + 1] = [seqno |-> last_seqno + 1, last |-> nums[Len(nums)],
                                 done |-> FALSE, fence |-> FALSE,
                                 atoms |-> NumbersOf(nums),
                                 waits |-> IF w THEN {nums[1]} ELSE {}]
      /\ last_seqno' = last_seqno + 1 /\ ~ lost /\ UNCHANGED lost
  BY <1>0 DEF Submits
<1> DEFINE sub == subs'[Len(subs) + 1]
<1>2. /\ sub.seqno = last_seqno + 1 /\ sub.last = nums[Len(nums)] /\ sub.atoms = NumbersOf(nums)
      /\ sub.waits = IF w THEN {nums[1]} ELSE {}
      /\ Len(subs) \in Nat /\ Len(nums) \in Nat /\ Len(nums) \in 0 .. Len(nums)
      /\ Sent(nums, Len(nums)) = NumbersOf(nums)
  BY <1>1, RingAtoms DEF Sent, NumbersOf
<1> HIDE DEF sub
<1>3. \A a \in Atoms : Working(a)' =>
        a \in NumbersOf(nums) \/ (Working(a) /\ katom'[a] = katom[a])
  BY <1>1, <1>2, WorkersBefore DEF Working
<1>4. \A a : InRing(a)' <=> InRing(a) \/ a \in NumbersOf(nums)
  <2>1. ASSUME NEW a, InRing(a)' PROVE InRing(a) \/ a \in NumbersOf(nums)
    <3>1. PICK i \in 1 .. Len(subs') : a \in subs'[i].atoms
      BY <2>1 DEF InRing
    <3>2. i \in 1 .. Len(subs) \/ i = Len(subs) + 1
      BY <1>1, <1>2
    <3> QED BY <1>1, <1>2, <3>1, <3>2 DEF InRing, sub
  <2>2. ASSUME NEW a, InRing(a) PROVE InRing(a)'
    <3>1. PICK i \in 1 .. Len(subs) : a \in subs[i].atoms
      BY <2>2 DEF InRing
    <3>2. i \in 1 .. Len(subs') /\ subs'[i] = subs[i]
      BY <1>1, <1>2
    <3> QED BY <3>1, <3>2 DEF InRing
  <2>3. ASSUME NEW a, a \in NumbersOf(nums) PROVE InRing(a)'
    <3>1. Len(subs) + 1 \in 1 .. Len(subs')
      BY <1>1, <1>2
    <3> QED BY <1>2, <2>3, <3>1 DEF InRing, sub
  <2> QED BY <2>1, <2>2, <2>3
<1>5. \A j \in 1 .. Len(subs) : RingChain(j)'
  BY <1>1, <1>2, RingChainsStand
<1>10. PICK top \in Nat : top = Len(subs) + 1
  BY <1>2
<1>6. RingChain(top)'
  <2>1. Len(subs) = top - 1 /\ subs'[top] = sub
    BY <1>2, <1>10 DEF sub
  <2>2. \A i \in 1 .. Len(subs) : subs'[i].last = subs[i].last
    BY <1>1
  <2>3. Chain(katom', subs', nums, FirstJob(w), Len(subs))
    BY <1>1, <1>2, <2>2, SentChain
  <2>4. Chain(katom', subs', nums, FirstJob(w), top - 1)
    BY <2>1, <2>3
  <2>5. FirstJob(w) \in Nat
    BY DEF FirstJob
  <2> QED BY <1>1, <1>2, <2>1, <2>4, <2>5 DEF RingChain
<1>7. OrphanChain'
  <2>1. ASSUME NEW a \in Atoms, Working(a)', ~ InRing(a)' PROVE FALSE
    <3>1. Working(a) /\ ~ InRing(a)
      BY <1>3, <1>4, <2>1
    <3> QED BY <1>1, <3>1 DEF OwnersAreKnown
  <2> DEFINE none == <<>>
  <2>2. none \in Seq(Atoms) /\ Len(none) = 0
    OBVIOUS
  <2> HIDE DEF none
  <2>3. NumbersOf(none) = {}
    BY <2>2 DEF NumbersOf
  <2>4. Chain(katom', subs', none, 1, Len(subs'))
    BY <2>2 DEF Chain
  <2>5. 1 \in Nat /\ 1 >= 1
    OBVIOUS
  <2> QED BY <2>1, <2>2, <2>3, <2>4, <2>5 DEF OrphanChain
<1>8. OwnersAreKnown'
  <2>1. ASSUME NEW i \in 1 .. Len(subs'), NEW a \in subs'[i].atoms, Live(a)'
        PROVE  /\ katom'[a].kind # "FENCE_TRIGGER"
               /\ katom'[a].sub = subs'[i].seqno
               /\ a \in subs'[i].waits => katom'[a].kind = "FENCE_WAIT"
    <3>1. CASE i \in 1 .. Len(subs)
      <4>1. a \in subs[i].atoms /\ a \in Atoms /\ atom_use[a] = "SUB" /\ subs'[i] = subs[i]
        BY <1>1, <2>1, <3>1, RingAtoms
      <4>2. a \notin NumbersOf(nums)
        BY <1>1, <4>1 DEF Chosen, Free
      <4>3. Live(a) /\ katom'[a] = katom[a]
        BY <1>1, <1>2, <2>1, <4>1, <4>2, WorkersBefore
      <4> QED BY <3>1, <4>1, <4>3 DEF OwnersAreKnown
    <3>2. CASE i = Len(subs) + 1
      <4>1. a \in NumbersOf(nums) /\ subs'[i] = sub
        BY <1>2, <2>1, <3>2 DEF sub
      <4>2. PICK k \in 1 .. Len(nums) : a = nums[k]
        BY <4>1 DEF NumbersOf
      <4>3. /\ katom'[a].kind # "FENCE_TRIGGER" /\ katom'[a].sub = last_seqno + 1
            /\ k < FirstJob(w) => katom'[a].kind = "FENCE_WAIT"
        BY <1>1, <4>2 DEF Took
      <4>4. ASSUME a \in sub.waits PROVE k < FirstJob(w)
        <5>1. w /\ nums[k] = nums[1] /\ 1 \in 1 .. Len(nums)
          BY <1>1, <1>2, <4>2, <4>4
        <5>2. k = 1
          BY <1>1, <5>1 DEF Chosen
        <5> QED BY <5>1, <5>2 DEF FirstJob
      <4> QED BY <1>2, <4>1, <4>3, <4>4
    <3> QED BY <1>1, <1>2, <3>1, <3>2
  <2>2. ASSUME NEW a \in Atoms, Working(a)', ~ InRing(a)'
        PROVE  lost' /\ katom'[a].sub = last_seqno' + 1
    <3>1. Working(a) /\ ~ InRing(a)
      BY <1>3, <1>4, <2>2
    <3> QED BY <1>1, <3>1 DEF OwnersAreKnown
  <2>3. ASSUME NEW a \in Atoms, Live(a)', katom'[a].kind = "FENCE_TRIGGER"
        PROVE  atom_use'[a] = "AUX"
    <3>1. a \notin NumbersOf(nums)
      <4> SUFFICES ASSUME a \in NumbersOf(nums) PROVE FALSE
        OBVIOUS
      <4>1. PICK k \in 1 .. Len(nums) : a = nums[k]
        BY DEF NumbersOf
      <4> QED BY <1>1, <2>3, <4>1 DEF Took
    <3>2. Live(a) /\ katom'[a] = katom[a]
      BY <1>1, <1>2, <2>3, <3>1, WorkersBefore
    <3> QED BY <1>1, <2>3, <3>1, <3>2 DEF OwnersAreKnown
  <2> QED BY <2>1, <2>2, <2>3 DEF OwnersAreKnown
<1>9. ASSUME NEW j \in 1 .. Len(subs') PROVE RingChain(j)'
  <2>1. j \in 1 .. Len(subs) \/ j = Len(subs) + 1
    BY <1>1, <1>2
  <2> QED BY <1>5, <1>6, <1>10, <2>1
<1> QED BY <1>7, <1>8, <1>9 DEF Chains

LEMMA SubmitFailsKeepsChains ==
  ASSUME IInv, Chains, OwnersAreKnown, NEW t \in Threads, SubmitFails(t)
  PROVE  Chains' /\ OwnersAreKnown'
<1>1. PICK n \in Nat, w \in BOOLEAN, nums \in Seq(Atoms), m \in Nat :
           /\ Chosen(nums, n, w) /\ m \in 0 .. Len(nums)
           /\ Took(katom', nums, m, w)
           /\ \A a \in Atoms : atom_use'[a] = IF a \in NumbersOf(nums) THEN "SUB" ELSE atom_use[a]
           /\ ~ lost /\ lost'
           /\ UNCHANGED <<subs, last_seqno>>
  BY SubmitFailsFacts
<1>2. Len(nums) \in Nat /\ Len(subs) \in Nat /\ Sent(nums, m) \subseteq NumbersOf(nums)
      /\ NumbersOf(nums) \in SUBSET Free
  BY <1>1, RingAtoms DEF Sent, NumbersOf, Chosen
<1>3. \A a \in Atoms : Working(a)' => a \in Sent(nums, m) \/ (Working(a) /\ katom'[a] = katom[a])
  BY <1>1, WorkersBefore DEF Working
<1>4. \A a : InRing(a)' <=> InRing(a)
  BY <1>1 DEF InRing
<1>5. \A a \in NumbersOf(nums) : a \in Atoms /\ ~ InRing(a) /\ atom_use'[a] = "SUB"
  <2>1. \A a \in NumbersOf(nums) : a \in Atoms /\ atom_use[a] = "FREE"
    BY <1>2 DEF Free
  <2> QED BY <1>1, <2>1, RingAtoms DEF InRing
<1>6. \A j \in 1 .. Len(subs) : RingChain(j)'
  BY <1>1, RingChainsStand
<1>7. OrphanChain'
  <2> DEFINE ns == SubSeq(nums, 1, m)
  <2>1. ns \in Seq(Atoms) /\ Len(ns) = m /\ \A k \in 1 .. m : ns[k] = nums[k]
    BY <1>1, <1>2
  <2>2. NumbersOf(ns) = Sent(nums, m)
    <3>1. NumbersOf(ns) = {ns[k] : k \in 1 .. m}
      BY <2>1 DEF NumbersOf
    <3> HIDE DEF ns
    <3> QED BY <2>1, <3>1 DEF Sent
  <2> HIDE DEF ns
  <2>3. Chain(katom', subs', ns, FirstJob(w), Len(subs))
    BY <1>1, <2>1, SentChain
  <2>4. \A a \in Atoms : Working(a)' /\ ~ InRing(a)' => a \in NumbersOf(ns)
    BY <1>1, <1>3, <1>4, <2>2 DEF OwnersAreKnown
  <2>5. \A a \in NumbersOf(ns) : atom_use'[a] = "SUB" /\ ~ InRing(a)'
    BY <1>2, <1>4, <1>5, <2>2
  <2>6. FirstJob(w) \in Nat /\ FirstJob(w) >= 1
    BY DEF FirstJob
  <2> QED BY <1>1, <2>1, <2>3, <2>4, <2>5, <2>6 DEF OrphanChain
<1>8. OwnersAreKnown'
  <2>1. ASSUME NEW i \in 1 .. Len(subs'), NEW a \in subs'[i].atoms, Live(a)'
        PROVE  /\ katom'[a].kind # "FENCE_TRIGGER"
               /\ katom'[a].sub = subs'[i].seqno
               /\ a \in subs'[i].waits => katom'[a].kind = "FENCE_WAIT"
    <3>1. i \in 1 .. Len(subs) /\ a \in subs[i].atoms /\ a \in Atoms /\ InRing(a)
      BY <1>1, <2>1, RingAtoms DEF InRing
    <3>2. a \notin Sent(nums, m)
      BY <1>2, <1>5, <3>1
    <3>3. Live(a) /\ katom'[a] = katom[a]
      BY <1>1, <2>1, <3>1, <3>2, WorkersBefore
    <3> QED BY <1>1, <3>1, <3>3 DEF OwnersAreKnown
  <2>2. ASSUME NEW a \in Atoms, Working(a)', ~ InRing(a)'
        PROVE  lost' /\ katom'[a].sub = last_seqno' + 1
    <3>1. a \in Sent(nums, m)
      BY <1>1, <1>3, <1>4, <2>2 DEF OwnersAreKnown
    <3>2. PICK k \in 1 .. m : a = nums[k]
      BY <3>1 DEF Sent
    <3> QED BY <1>1, <3>2 DEF Took
  <2>3. ASSUME NEW a \in Atoms, Live(a)', katom'[a].kind = "FENCE_TRIGGER"
        PROVE  atom_use'[a] = "AUX"
    <3>1. a \notin Sent(nums, m)
      BY <1>1, <2>3 DEF Took, Sent
    <3>2. Live(a) /\ katom'[a] = katom[a]
      BY <1>1, <2>3, <3>1, WorkersBefore
    <3>3. atom_use[a] = "AUX"
      BY <2>3, <3>2 DEF OwnersAreKnown
    <3>4. a \notin NumbersOf(nums)
      BY <1>2, <3>3 DEF Free
    <3> QED BY <1>1, <3>3, <3>4
  <2> QED BY <2>1, <2>2, <2>3 DEF OwnersAreKnown
<1> QED BY <1>1, <1>6, <1>7, <1>8 DEF Chains

-----------------------------------------------------------------------------
(* The threads keep behaving                                               *)

LEMMA OneThreadMoves ==
  ASSUME IInv, ThreadsBehave, NEW t \in Threads, NEW there, NEW c,
         pc' = [pc EXCEPT ![t] = there], call' = [call EXCEPT ![t] = c],
         last_seqno' <= MaxSubmits, last_seqno' = last_seqno \/ t = Submitter,
         c.ev # <<>> => there \in {"lock", "handle"},
         SubmittingAt(there, c.loop) => t = Submitter /\ last_seqno' < MaxSubmits,
         there # "idle" => SubmittingAt(there, c.loop) \/ c.seqno >= 1
  PROVE  ThreadsBehave'
<1>1. ASSUME NEW u \in Threads
      PROVE  /\ call'[u].ev # <<>> => pc'[u] \in {"lock", "handle"}
             /\ Submitting(u)' => u = Submitter /\ last_seqno' < MaxSubmits
             /\ pc'[u] # "idle" /\ ~ Submitting(u)' => call'[u].seqno >= 1
  <2>1. CASE u = t
    <3>1. pc'[u] = there /\ call'[u] = c
      BY <2>1 DEF IInv, TypeOK
    <3> QED BY <2>1, <3>1 DEF Submitting
  <2>2. CASE u # t
    <3>1. pc'[u] = pc[u] /\ call'[u] = call[u]
      BY <2>2 DEF IInv, TypeOK
    <3>2. Submitting(u) => last_seqno' = last_seqno
      BY <2>2 DEF ThreadsBehave
    <3> QED BY <3>1, <3>2 DEF ThreadsBehave, Submitting
  <2> QED BY <2>1, <2>2
<1> QED BY <1>1 DEF ThreadsBehave

LEMMA InitBehaves == Init => ThreadsBehave
BY BoundsAssumption DEF Init, ThreadsBehave, Submitting, SubmittingAt, NoCall, Readers

LEMMA ReturnBehaves ==
  ASSUME IInv, ThreadsBehave, NEW t \in Threads, Return(t),
         last_seqno' <= MaxSubmits, last_seqno' = last_seqno \/ t = Submitter
  PROVE  ThreadsBehave'
<1>1. NoCall.ev = <<>> /\ NoCall.seqno \in Nat
  BY DEF NoCall
<1>2. pc' = [pc EXCEPT ![t] = "idle"] /\ call' = [call EXCEPT ![t] = NoCall]
  BY DEF Return
<1>3. ~ SubmittingAt("idle", NoCall.loop)
  BY DEF SubmittingAt, Readers
<1> QED BY <1>1, <1>2, <1>3, OneThreadMoves

LEMMA StartBehaves ==
  ASSUME IInv, ThreadsBehave, NEW t \in Threads, Start(t)
  PROVE  ThreadsBehave'
<1>1. CASE StartWait(t)
  <2>1. PICK s \in 1 .. last_seqno, timeout \in Timeouts :
          Begin(t, "wait", [NoCall EXCEPT !.seqno = s, !.timeout = timeout])
    BY <1>1 DEF StartWait
  <2> DEFINE c == [NoCall EXCEPT !.seqno = s, !.timeout = timeout]
  <2>2. c.ev = <<>> /\ c.seqno = s /\ s \in Nat /\ s >= 1
    BY DEF NoCall, IInv, TypeOK
  <2>3. pc' = [pc EXCEPT ![t] = "wait"] /\ call' = [call EXCEPT ![t] = c]
        /\ last_seqno' = last_seqno
    BY <2>1 DEF Begin, jm
  <2> HIDE DEF c
  <2>4. last_seqno' <= MaxSubmits
    BY <2>3 DEF ThreadsBehave
  <2>5. ~ SubmittingAt("wait", c.loop)
    BY DEF SubmittingAt, Readers
  <2> QED BY <2>2, <2>3, <2>4, <2>5, OneThreadMoves
<1>2. CASE StartExport(t)
  <2>1. PICK s \in 1 .. last_seqno :
          Begin(t, "export", [NoCall EXCEPT !.seqno = s, !.timeout = "infinite"])
    BY <1>2 DEF StartExport
  <2> DEFINE c == [NoCall EXCEPT !.seqno = s, !.timeout = "infinite"]
  <2>2. c.ev = <<>> /\ c.seqno = s /\ s \in Nat /\ s >= 1
    BY DEF NoCall, IInv, TypeOK
  <2>3. pc' = [pc EXCEPT ![t] = "export"] /\ call' = [call EXCEPT ![t] = c]
        /\ last_seqno' = last_seqno
    BY <2>1 DEF Begin, jm
  <2> HIDE DEF c
  <2>4. last_seqno' <= MaxSubmits
    BY <2>3 DEF ThreadsBehave
  <2>5. ~ SubmittingAt("export", c.loop)
    BY DEF SubmittingAt, Readers
  <2> QED BY <2>2, <2>3, <2>4, <2>5, OneThreadMoves
<1>3. CASE StartSubmit(t)
  <2>1. PICK n \in 0 .. MaxJobs, w \in BOOLEAN :
          /\ t = Submitter /\ last_seqno < MaxSubmits
          /\ Begin(t, "submit", [NoCall EXCEPT !.timeout = "infinite",
                                               !.nr_jobs = n, !.wait_fd = w])
    BY <1>3 DEF StartSubmit
  <2> DEFINE c == [NoCall EXCEPT !.timeout = "infinite", !.nr_jobs = n, !.wait_fd = w]
  <2>2. c.ev = <<>> /\ c.seqno = 0
    BY DEF NoCall
  <2>3. pc' = [pc EXCEPT ![t] = "submit"] /\ call' = [call EXCEPT ![t] = c]
        /\ last_seqno' = last_seqno
    BY <2>1 DEF Begin, jm
  <2> HIDE DEF c
  <2>4. last_seqno' <= MaxSubmits
    BY <2>3 DEF ThreadsBehave
  <2>5. SubmittingAt("submit", c.loop)
    BY DEF SubmittingAt
  <2> QED BY <2>1, <2>2, <2>3, <2>4, <2>5, OneThreadMoves
<1> QED BY <1>1, <1>2, <1>3 DEF Start

(* A step of thread t within its call, which keeps its subject.            *)
LEMMA InsideBehaves ==
  ASSUME IInv, ThreadsBehave, NEW t \in Threads, NEW there, NEW c,
         pc' = [pc EXCEPT ![t] = there], call' = [call EXCEPT ![t] = c],
         UNCHANGED last_seqno, pc[t] # "idle", there # "idle",
         c.seqno = call[t].seqno,
         c.ev # <<>> => there \in {"lock", "handle"},
         SubmittingAt(there, c.loop) <=> Submitting(t)
  PROVE  ThreadsBehave'
<1>1. call[t].seqno \in Nat /\ last_seqno <= MaxSubmits /\ last_seqno \in Nat
  BY DEF IInv, TypeOK, Call, ThreadsBehave
<1>2. Submitting(t) => t = Submitter /\ last_seqno < MaxSubmits
  BY DEF ThreadsBehave
<1>3. ~ Submitting(t) => call[t].seqno >= 1
  BY DEF ThreadsBehave
<1>4. /\ last_seqno' <= MaxSubmits /\ last_seqno' = last_seqno
      /\ SubmittingAt(there, c.loop) => t = Submitter /\ last_seqno' < MaxSubmits
      /\ SubmittingAt(there, c.loop) \/ c.seqno >= 1
  BY <1>1, <1>2, <1>3
<1> QED BY <1>4, OneThreadMoves

LEMMA ProgressBehaves ==
  ASSUME IInv, ThreadsBehave, NEW t \in Threads, Progress(t),
         pc[t] \in {"wait", "submit", "export_alloc"}
  PROVE  ThreadsBehave'
<1>1. call[t] \in Call /\ UNCHANGED last_seqno /\ call[t].ev = <<>>
      /\ (Submitting(t) <=> pc[t] = "submit") /\ t \in DOMAIN pc
  BY DEF IInv, TypeOK, Progress, ThreadsBehave, Submitting, SubmittingAt, Readers
<1>2. CASE ProgressAsFollower(t) /\ call[t].timeout = "zero"
  <2> DEFINE c == [call[t] EXCEPT !.prog = FALSE]
  <2>1. c.seqno = call[t].seqno /\ c.ev = <<>>
    BY <1>1 DEF Call
  <2>2. call' = [call EXCEPT ![t] = c] /\ pc' = [pc EXCEPT ![t] = pc[t]]
    <3>1. call' = [call EXCEPT ![t] = c] /\ pc' = pc
      BY <1>2 DEF ProgressAsFollower
    <3>2. pc = [pc EXCEPT ![t] = pc[t]]
      BY DEF IInv, TypeOK
    <3> QED BY <3>1, <3>2
  <2> HIDE DEF c
  <2>3. SubmittingAt(pc[t], c.loop) <=> Submitting(t)
    BY <1>1 DEF SubmittingAt, Readers
  <2> QED BY <1>1, <2>1, <2>2, <2>3, InsideBehaves
<1>3. CASE ProgressAsFollower(t) /\ call[t].timeout # "zero"
  <2> DEFINE c == [call[t] EXCEPT !.loop = pc[t]]
  <2>1. c.seqno = call[t].seqno /\ c.ev = <<>> /\ c.loop = pc[t]
    BY <1>1 DEF Call
  <2>2. call' = [call EXCEPT ![t] = c] /\ pc' = [pc EXCEPT ![t] = "cond"]
    BY <1>1, <1>3 DEF ProgressAsFollower
  <2> HIDE DEF c
  <2>3. SubmittingAt("cond", c.loop) <=> Submitting(t)
    BY <1>1, <2>1 DEF SubmittingAt, Readers
  <2> QED BY <1>1, <2>1, <2>2, <2>3, InsideBehaves
<1>4. CASE ProgressAsReader(t)
  <2> DEFINE c == [call[t] EXCEPT !.loop = pc[t]]
  <2>1. c.seqno = call[t].seqno /\ c.ev = <<>> /\ c.loop = pc[t]
    BY <1>1 DEF Call
  <2>2. call' = [call EXCEPT ![t] = c] /\ pc' = [pc EXCEPT ![t] = "poll"]
    BY <1>1, <1>4 DEF ProgressAsReader
  <2> HIDE DEF c
  <2>3. SubmittingAt("poll", c.loop) <=> Submitting(t)
    BY <1>1, <2>1 DEF SubmittingAt, Readers
  <2> QED BY <1>1, <2>1, <2>2, <2>3, InsideBehaves
<1> QED BY <1>2, <1>3, <1>4 DEF Progress

LEMMA ReaderBehaves ==
  ASSUME IInv, ThreadsBehave, NEW t \in Threads,
         \/ Lock(t) \/ CondWoken(t) \/ CondSpurious(t) \/ CondTimedOut(t)
         \/ ReaderStep(t)
  PROVE  ThreadsBehave'
<1>0. /\ call[t] \in Call /\ call[t].seqno \in Nat /\ call[t].ev \in Seq(Event)
      /\ call[t].loop \in {"wait", "submit", "export_alloc"}
  BY DEF IInv, TypeOK, Call, Loops
<1>1. CASE Lock(t)
  <2> DEFINE there == IF pc[t] = "lock" THEN "handle" ELSE "wait"
  <2>1. /\ pc' = [pc EXCEPT ![t] = there] /\ UNCHANGED <<call, last_seqno>>
        /\ pc[t] \in {"lock", "enter_wait"}
    BY <1>1 DEF Lock, jm
  <2>2. call' = [call EXCEPT ![t] = call[t]]
    BY <2>1 DEF IInv, TypeOK
  <2>3. SubmittingAt(there, call[t].loop) <=> Submitting(t)
    BY <2>1 DEF SubmittingAt, Submitting, Readers
  <2>4. call[t].ev # <<>> => there \in {"lock", "handle"}
    BY <2>1 DEF ThreadsBehave
  <2>5. there # "idle" /\ pc[t] # "idle"
    BY <2>1
  <2> HIDE DEF there
  <2> QED BY <2>1, <2>2, <2>3, <2>4, <2>5, InsideBehaves
<1>2. CASE CondWoken(t) \/ CondSpurious(t) \/ CondTimedOut(t)
  <2>1. PICK progress \in BOOLEAN : CondReturn(t, progress)
    BY <1>2 DEF CondWoken, CondSpurious, CondTimedOut
  <2> DEFINE c == [call[t] EXCEPT !.prog = progress]
             there == call[t].loop
  <2>2. /\ pc' = [pc EXCEPT ![t] = there] /\ call' = [call EXCEPT ![t] = c]
        /\ UNCHANGED last_seqno /\ pc[t] = "cond"
    BY <2>1 DEF CondReturn, jm
  <2>3. c.seqno = call[t].seqno /\ c.ev = call[t].ev /\ c.loop = call[t].loop
    BY <1>0 DEF Call
  <2>4. call[t].ev = <<>>
    BY <2>2 DEF ThreadsBehave
  <2>5. there # "idle" /\ (SubmittingAt(there, c.loop) <=> Submitting(t))
    BY <1>0, <2>2, <2>3 DEF SubmittingAt, Submitting, Readers
  <2> HIDE DEF there, c
  <2> QED BY <2>2, <2>3, <2>4, <2>5, InsideBehaves
<1>3. CASE PollEvents(t) \/ PollTimedOut(t) \/ PollFailed(t)
  <2>1. PICK c : /\ call' = [call EXCEPT ![t] = c] /\ c.seqno = call[t].seqno
                 /\ c.loop = call[t].loop
    <3>1. CASE PollEvents(t)
      <4>1. PICK ev : call' = [call EXCEPT ![t] = [call[t] EXCEPT !.ev = ev, !.prog = TRUE]]
        BY <3>1 DEF PollEvents
      <4> DEFINE c == [call[t] EXCEPT !.ev = ev, !.prog = TRUE]
      <4>2. c.seqno = call[t].seqno /\ c.loop = call[t].loop
        BY <1>0 DEF Call
      <4> HIDE DEF c
      <4> QED BY <4>1, <4>2 DEF c
    <3>2. CASE PollTimedOut(t)
      <4> DEFINE c == [call[t] EXCEPT !.prog = FALSE]
      <4>1. call' = [call EXCEPT ![t] = c]
        BY <3>2 DEF PollTimedOut
      <4>2. c.seqno = call[t].seqno /\ c.loop = call[t].loop
        BY <1>0 DEF Call
      <4> HIDE DEF c
      <4> QED BY <4>1, <4>2
    <3>3. CASE PollFailed(t)
      <4> DEFINE c == [call[t] EXCEPT !.prog = TRUE, !.failed = TRUE]
      <4>1. call' = [call EXCEPT ![t] = c]
        BY <3>3 DEF PollFailed
      <4>2. c.seqno = call[t].seqno /\ c.loop = call[t].loop
        BY <1>0 DEF Call
      <4> HIDE DEF c
      <4> QED BY <4>1, <4>2
    <3> QED BY <1>3, <3>1, <3>2, <3>3
  <2>2. pc' = [pc EXCEPT ![t] = "lock"] /\ pc[t] = "poll" /\ UNCHANGED last_seqno
    BY <1>3 DEF PollEvents, PollTimedOut, PollFailed, jm
  <2>3. SubmittingAt("lock", c.loop) <=> Submitting(t)
    BY <2>1, <2>2 DEF SubmittingAt, Submitting, Readers
  <2> QED BY <2>1, <2>2, <2>3, InsideBehaves
<1>4. CASE HandleAuxEvent(t) \/ HandleSubEvent(t) \/ HandleUnknownEvent(t)
  <2>1. PICK ev \in Event : TakeEvent(t, ev)
    BY <1>4 DEF HandleAuxEvent, HandleSubEvent, HandleUnknownEvent
  <2> DEFINE c == [call[t] EXCEPT !.ev = Tail(@)]
  <2>2. /\ call' = [call EXCEPT ![t] = c] /\ pc[t] = "handle"
        /\ UNCHANGED <<pc, last_seqno>>
    BY <2>1 DEF TakeEvent, Holds
  <2>3. pc' = [pc EXCEPT ![t] = "handle"]
    BY <2>2 DEF IInv, TypeOK
  <2>4. c.seqno = call[t].seqno /\ c.loop = call[t].loop
    BY <1>0 DEF Call
  <2> HIDE DEF c
  <2>5. SubmittingAt("handle", c.loop) <=> Submitting(t)
    BY <2>2, <2>4 DEF SubmittingAt, Submitting, Readers
  <2> QED BY <2>2, <2>3, <2>4, <2>5, InsideBehaves
<1>5. CASE RetireOldest(t)
  BY <1>5, RetireFacts DEF ThreadsBehave, Submitting
<1>6. CASE FinishProgress(t)
  <2> DEFINE c == [call[t] EXCEPT !.failed = FALSE]
             there == call[t].loop
  <2>1. /\ pc' = [pc EXCEPT ![t] = there] /\ call' = [call EXCEPT ![t] = c]
        /\ UNCHANGED last_seqno /\ pc[t] = "handle" /\ call[t].ev = <<>>
    BY <1>6 DEF FinishProgress, Holds
  <2>2. c.seqno = call[t].seqno /\ c.ev = call[t].ev /\ c.loop = call[t].loop
    BY <1>0 DEF Call
  <2>3. there # "idle" /\ (SubmittingAt(there, c.loop) <=> Submitting(t))
    BY <1>0, <2>1, <2>2 DEF SubmittingAt, Submitting, Readers
  <2> HIDE DEF there, c
  <2> QED BY <2>1, <2>2, <2>3, InsideBehaves
<1> QED BY <1>1, <1>2, <1>3, <1>4, <1>5, <1>6 DEF ReaderStep

LEMMA CallBehaves ==
  ASSUME IInv, ThreadsBehave, NEW t \in Threads, CallStep(t)
  PROVE  ThreadsBehave'
<1>1. last_seqno <= MaxSubmits /\ last_seqno \in Nat
  BY DEF ThreadsBehave, IInv, TypeOK
<1>2. CASE \/ WaitReturns(t) \/ SubmitReturns(t) \/ SubmitFails(t) \/ ExportReturns(t)
           \/ ExportAllocFails(t) \/ ExportTrigger(t) \/ ExportTriggerFails(t)
  <2>1. Return(t) /\ UNCHANGED last_seqno
    BY <1>2 DEF WaitReturns, SubmitReturns, SubmitFails, ExportReturns, ExportAllocFails,
                ExportTrigger, ExportTriggerFails, jm
  <2> QED BY <1>1, <2>1, ReturnBehaves
<1>3. CASE Submit(t)
  <2>1. Return(t) /\ last_seqno' = last_seqno + 1 /\ pc[t] = "submit"
    BY <1>3 DEF Submit, Holds
  <2>2. t = Submitter /\ last_seqno < MaxSubmits
    BY <2>1 DEF ThreadsBehave, Submitting, SubmittingAt
  <2>3. last_seqno' <= MaxSubmits
    BY <1>1, <2>1, <2>2, BoundsAssumption
  <2> QED BY <2>1, <2>2, <2>3, ReturnBehaves
<1>4. CASE WaitMore(t) \/ SubmitWaits(t) \/ ExportWaits(t)
  BY <1>4, ProgressBehaves DEF WaitMore, SubmitWaits, ExportWaits, Holds
<1>5. CASE ExportNeedsFence(t) \/ ExportLooksAgain(t) \/ ExportNoFd(t)
  <2>1. PICK there \in {"export", "export_alloc", "enter_wait"} :
          /\ pc' = [pc EXCEPT ![t] = there] /\ UNCHANGED <<call, last_seqno>>
          /\ pc[t] \in {"export", "export_alloc"}
    BY <1>5 DEF ExportNeedsFence, ExportLooksAgain, ExportNoFd, HasNumber, Holds, jm
  <2>2. call' = [call EXCEPT ![t] = call[t]]
    BY <2>1 DEF IInv, TypeOK
  <2>3. SubmittingAt(there, call[t].loop) <=> Submitting(t)
    BY <2>1 DEF SubmittingAt, Submitting, Readers
  <2>4. call[t].ev = <<>>
    BY <2>1 DEF ThreadsBehave
  <2> QED BY <2>1, <2>2, <2>3, <2>4, InsideBehaves
<1> QED BY <1>2, <1>3, <1>4, <1>5 DEF CallStep

LEMMA NextBehaves == IInv /\ ThreadsBehave /\ [Next]_vars => ThreadsBehave'
<1>1. ASSUME IInv, ThreadsBehave, NEW a \in Atoms, EndAtom(a) PROVE ThreadsBehave'
  BY <1>1, EndFacts DEF ThreadsBehave, Submitting, jm, threads
<1>2. ASSUME IInv, ThreadsBehave, UNCHANGED vars PROVE ThreadsBehave'
  BY <1>2 DEF ThreadsBehave, Submitting, vars, jm, threads
<1> QED
  BY <1>1, <1>2, StartBehaves, CallBehaves, ReaderBehaves DEF Next

-----------------------------------------------------------------------------
(* Events stay where they belong                                           *)

HandsKept == \A u \in Threads : call'[u].ev = call[u].ev

LEMMA EventTypes ==
  ASSUME TypeOK
  PROVE  /\ events \in Seq(Event) /\ Len(events) \in Nat
         /\ \A p \in 1 .. Len(events) : events[p].atom \in Atoms
         /\ \A u \in Threads :
              /\ call[u].ev \in Seq(Event) /\ Len(call[u].ev) \in Nat
              /\ \A p \in 1 .. Len(call[u].ev) : call[u].ev[p].atom \in Atoms
<1>1. events \in Seq(Event) /\ \A u \in Threads : call[u].ev \in Seq(Event)
  BY DEF TypeOK, Call
<1>2. \A s \in Seq(Event) : Len(s) \in Nat /\ \A p \in 1 .. Len(s) : s[p] \in Event
  OBVIOUS
<1>3. \A e \in Event : e.atom \in Atoms
  BY DEF Event
<1> QED BY <1>1, <1>2, <1>3

LEMMA FreeIdle ==
  ASSUME TypeOK
  PROVE  FreeNumbersAreIdle <=> \A a \in Free : katom[a].st = "unused" /\ ~ InHand(a)
<1>1. \A u \in Threads : DOMAIN call[u].ev = 1 .. Len(call[u].ev)
  BY EventTypes
<1> QED BY <1>1 DEF FreeNumbersAreIdle, InHand

LEMMA FreeIdleAfter ==
  ASSUME TypeOK', \A a \in Free' : katom'[a].st = "unused" /\ ~ InHand(a)'
  PROVE  FreeNumbersAreIdle'
<1>1. \A u \in Threads : call'[u].ev \in Seq(Event)
  BY DEF TypeOK, Call
<1>2. \A u \in Threads : DOMAIN (call'[u].ev) = 1 .. Len(call'[u].ev)
  BY <1>1
<1> QED BY <1>2 DEF FreeNumbersAreIdle, InHand

(* Only the reader has events in hand.                                     *)
LEMMA OneHand ==
  ASSUME IInv, ThreadsBehave, NEW t \in Threads, pc[t] \in Readers,
         NEW u \in Threads, u # t
  PROVE  call[u].ev = <<>>
BY DEF IInv, ReaderIsUnique, ThreadsBehave, Readers

(* Numbers N that were free are taken, for atoms that are live now, or not *)
(* submitted at all; a submission may join the ring with them.             *)
Takes(N) ==
  /\ N \in SUBSET Free
  /\ \A a \in Atoms : a \notin N => katom'[a].st = katom[a].st /\ atom_use'[a] = atom_use[a]
  /\ \A a \in N : katom'[a].st \in {"live", "unused"} /\ atom_use'[a] # "FREE"
  /\ UNCHANGED events /\ HandsKept
  /\ \A i \in 1 .. Len(subs') :
       \/ /\ i \in 1 .. Len(subs)
          /\ subs'[i].last = subs[i].last /\ subs'[i].atoms = subs[i].atoms
          /\ subs'[i].done = subs[i].done
       \/ subs'[i].atoms \subseteq N /\ subs'[i].last \in N /\ ~ subs'[i].done

LEMMA TakesKeepsPlaces ==
  ASSUME IInv, IInv', Places, NEW N, Takes(N)
  PROVE  Places'
<1>1. /\ \A a \in Free : katom[a].st = "unused" /\ ~ InHand(a)
      /\ N \in SUBSET Atoms
  BY FreeIdle DEF IInv, Places, Takes, Free
<1>2. \A a \in Atoms : InEvents(a) \/ InHand(a) \/ katom[a].st = "ended" => a \notin N
  BY <1>1 DEF Takes, Places, EventsAreEnded, InEvents
<1>3. \A a : (InHand(a)' <=> InHand(a)) /\ (InEvents(a)' <=> InEvents(a))
  BY DEF InHand, InEvents, Takes, HandsKept
<1>4. \A i \in 1 .. Len(subs) : \A a \in subs[i].atoms : a \in Atoms /\ a \notin N
  BY RingAtoms DEF Takes, Free
<1>5. EventsAreEnded'
  <2>1. \A p \in 1 .. Len(events) : events[p].atom \in Atoms /\ InEvents(events[p].atom)
    BY EventTypes DEF IInv, InEvents
  <2>2. \A p \in 1 .. Len(events') : katom'[events'[p].atom].st = "ended"
    BY <1>2, <2>1 DEF Takes, Places, EventsAreEnded
  <2>3. \A p, q \in 1 .. Len(events') : events'[p].atom = events'[q].atom => p = q
    BY DEF Takes, Places, EventsAreEnded
  <2>4. \A a \in Atoms : katom'[a].st = "ended" => InEvents(a)'
    BY <1>3 DEF Takes, Places, EventsAreEnded
  <2> QED BY <2>2, <2>3, <2>4 DEF EventsAreEnded
<1>6. HandsAreUnused'
  <2>1. \A u \in Threads : \A p \in 1 .. Len(call[u].ev) :
          call[u].ev[p].atom \in Atoms /\ call[u].ev[p].atom \notin N
    BY <1>2, EventTypes DEF IInv, InHand
  <2> QED BY <2>1, SMTT(30) DEF Takes, HandsKept, Places, HandsAreUnused
<1>7. FreeNumbersAreIdle'
  <2>1. \A a \in Free' : a \in Free /\ a \notin N
    BY DEF Takes, Free
  <2>2. \A a \in Free' : katom'[a].st = "unused" /\ ~ InHand(a)'
    BY <1>1, <1>3, <2>1 DEF Takes, Free
  <2> QED BY <2>2, FreeIdleAfter DEF IInv
<1>8. LastIsLastQueued'
  <2> SUFFICES ASSUME NEW i \in 1 .. Len(subs'), NEW a \in subs'[i].atoms,
                      NEW p \in 1 .. Len(events), NEW q \in 1 .. Len(events),
                      events[p].atom = subs'[i].last, events[q].atom = a
               PROVE  q <= p
    BY DEF LastIsLastQueued, Takes
  <2>1. subs'[i].last \notin N
    BY <1>2, EventTypes DEF InEvents, IInv
  <2> QED BY <2>1 DEF Takes, Places, LastIsLastQueued
<1>9. LastIsLastInHand'
  <2> SUFFICES ASSUME NEW i \in 1 .. Len(subs'), NEW a \in subs'[i].atoms,
                      NEW u \in Threads, NEW p \in 1 .. Len(call[u].ev),
                      call[u].ev[p].atom = subs'[i].last
               PROVE  /\ katom'[a].st # "ended"
                      /\ \A q \in 1 .. Len(call[u].ev) : call[u].ev[q].atom = a => q <= p
    BY DEF LastIsLastInHand, Takes, HandsKept
  <2>1. subs'[i].last \notin N
    BY <1>2, EventTypes DEF InHand, IInv
  <2>2. /\ i \in 1 .. Len(subs)
        /\ subs'[i].last = subs[i].last /\ subs'[i].atoms = subs[i].atoms
    BY <2>1 DEF Takes
  <2>3. a \in Atoms /\ a \notin N
    BY <1>4, <2>2
  <2>4. katom'[a].st = katom[a].st
    BY <2>3 DEF Takes
  <2> QED BY <2>2, <2>4 DEF Places, LastIsLastInHand
<1>10. DoneIsOver'
  <2> SUFFICES ASSUME NEW i \in 1 .. Len(subs'), NEW a \in subs'[i].atoms, subs'[i].done
               PROVE  katom'[a].st = "unused" /\ ~ InHand(a)'
    BY DEF DoneIsOver
  <2>1. /\ i \in 1 .. Len(subs) /\ subs'[i].atoms = subs[i].atoms /\ subs[i].done
    BY DEF Takes
  <2>2. a \in Atoms /\ a \notin N
    BY <1>4, <2>1
  <2>3. katom'[a].st = katom[a].st
    BY <2>2 DEF Takes
  <2> QED BY <1>3, <2>1, <2>3 DEF Places, DoneIsOver
<1> QED
  BY <1>5, <1>6, <1>7, <1>8, <1>9, <1>10 DEF Places

(* The event e of the atom x, which was nowhere yet, joins the queue.      *)
Joins(x, e) ==
  /\ e.atom = x /\ events' = Append(events, e) /\ HandsKept /\ subs' = subs
  /\ katom[x].st # "ended" /\ ~ InHand(x) /\ katom'[x].st = "ended"
  /\ \A a \in Atoms : a # x => katom'[a].st = katom[a].st
  /\ \A a \in Atoms : atom_use'[a] = "FREE" => a # x /\ atom_use[a] = "FREE"
  /\ \A i \in 1 .. Len(subs) : x \in subs[i].atoms =>
       /\ ~ subs[i].done
       /\ x = subs[i].last \/ Live(subs[i].last)

LEMMA EventJoins ==
  ASSUME IInv, IInv', Places, NEW x \in Atoms, NEW e, Joins(x, e)
  PROVE  Places'
<1>0. e.atom = x /\ events' = Append(events, e) /\ HandsKept
  BY DEF Joins
<1>1. /\ Len(events') = Len(events) + 1 /\ Len(events) \in Nat
      /\ \A p \in 1 .. Len(events) : events'[p] = events[p]
      /\ events'[Len(events) + 1] = e
      /\ \A p \in 1 .. Len(events') : p \in 1 .. Len(events) \/ p = Len(events) + 1
  BY <1>0, EventTypes DEF IInv
<1>10. katom[x].st # "ended" /\ ~ InHand(x) /\ katom'[x].st = "ended"
  BY DEF Joins
<1>11. \A a \in Atoms : a # x => katom'[a].st = katom[a].st
  BY DEF Joins
<1>12. subs' = subs
  BY DEF Joins
<1>13. \A i \in 1 .. Len(subs) : x \in subs[i].atoms =>
         /\ ~ subs[i].done
         /\ x = subs[i].last \/ Live(subs[i].last)
  BY DEF Joins
<1>2. \A p \in 1 .. Len(events) : events[p].atom # x /\ events[p].atom \in Atoms
  BY <1>10, EventTypes DEF IInv, Places, EventsAreEnded
<1>3. \A a : InHand(a)' <=> InHand(a)
  BY <1>0 DEF InHand, HandsKept
<1>4. EventsAreEnded'
  <2>1. \A p \in 1 .. Len(events') : katom'[events'[p].atom].st = "ended"
    BY <1>0, <1>1, <1>2, <1>10, <1>11 DEF Places, EventsAreEnded
  <2>2. \A p, q \in 1 .. Len(events') : events'[p].atom = events'[q].atom => p = q
    BY <1>0, <1>1, <1>2 DEF Places, EventsAreEnded
  <2>3. ASSUME NEW a \in Atoms, katom'[a].st = "ended" PROVE InEvents(a)'
    <3>1. CASE a = x
      <4>1. Len(events) + 1 \in 1 .. Len(events')
        BY <1>1
      <4> QED BY <1>0, <1>1, <3>1, <4>1 DEF InEvents
    <3>2. CASE a # x
      <4>1. PICK p \in 1 .. Len(events) : events[p].atom = a
        BY <1>11, <2>3, <3>2 DEF Places, EventsAreEnded, InEvents
      <4>2. p \in 1 .. Len(events')
        BY <1>1
      <4> QED BY <1>1, <4>1, <4>2 DEF InEvents
    <3> QED BY <3>1, <3>2
  <2> QED BY <2>1, <2>2, <2>3 DEF EventsAreEnded
<1>5. HandsAreUnused'
  <2>1. \A u \in Threads : \A p \in 1 .. Len(call[u].ev) :
          call[u].ev[p].atom \in Atoms /\ call[u].ev[p].atom # x
    BY <1>10, EventTypes DEF IInv, InHand
  <2>2. \A u \in Threads : \A p \in 1 .. Len(call[u].ev) :
          katom'[call[u].ev[p].atom].st = "unused"
    BY <1>11, <2>1 DEF Places, HandsAreUnused
  <2>3. \A u \in Threads : \A p, q \in 1 .. Len(call'[u].ev) :
          call'[u].ev[p].atom = call'[u].ev[q].atom => p = q
    BY <1>0 DEF HandsKept, Places, HandsAreUnused
  <2> QED BY <1>0, <2>2, <2>3 DEF HandsKept, HandsAreUnused
<1>6. FreeNumbersAreIdle'
  <2>1. \A a \in Free' : a \in Free /\ a # x
    BY DEF Joins, Free
  <2>2. \A a \in Free : katom[a].st = "unused" /\ ~ InHand(a)
    BY FreeIdle DEF IInv, Places
  <2>3. \A a \in Free' : katom'[a].st = "unused" /\ ~ InHand(a)'
    BY <1>3, <1>11, <2>1, <2>2 DEF Free
  <2> QED BY <2>3, FreeIdleAfter DEF IInv
<1>7. LastIsLastQueued'
  <2> SUFFICES ASSUME NEW i \in 1 .. Len(subs'), NEW a \in subs'[i].atoms,
                      NEW p \in 1 .. Len(events'), NEW q \in 1 .. Len(events'),
                      events'[p].atom = subs'[i].last, events'[q].atom = a
               PROVE  q <= p
    BY DEF LastIsLastQueued
  <2>0. /\ i \in 1 .. Len(subs) /\ a \in subs[i].atoms
        /\ events'[p].atom = subs[i].last /\ events'[q].atom = a
    BY <1>12
  <2>1. CASE q \in 1 .. Len(events) /\ p \in 1 .. Len(events)
    <3>1. events[p].atom = subs[i].last /\ events[q].atom = a
      BY <1>1, <2>0, <2>1
    <3> QED BY <2>0, <2>1, <3>1 DEF Places, LastIsLastQueued
  <2>2. CASE q \in 1 .. Len(events) /\ p = Len(events) + 1
    BY <1>1, <2>2
  <2>3. CASE q = Len(events) + 1
    <3>1. a = x /\ (x = subs[i].last \/ Live(subs[i].last))
      BY <1>0, <1>1, <1>13, <2>0, <2>3
    <3>2. x # subs[i].last => p \in 1 .. Len(events)
      BY <1>0, <1>1, <2>0
    <3>3. x # subs[i].last => katom[subs[i].last].st = "ended"
      BY <1>1, <2>0, <3>2 DEF Places, EventsAreEnded
    <3>4. x = subs[i].last
      BY <3>1, <3>3 DEF Live
    <3>5. p = Len(events) + 1
      BY <1>1, <1>2, <2>0, <3>4
    <3> QED BY <1>1, <2>0, <2>3, <3>5
  <2> QED BY <1>1, <2>1, <2>2, <2>3
<1>8. LastIsLastInHand'
  <2> SUFFICES ASSUME NEW i \in 1 .. Len(subs'), NEW a \in subs'[i].atoms,
                      NEW u \in Threads, NEW p \in 1 .. Len(call'[u].ev),
                      call'[u].ev[p].atom = subs'[i].last
               PROVE  /\ katom'[a].st # "ended"
                      /\ \A q \in 1 .. Len(call'[u].ev) : call'[u].ev[q].atom = a => q <= p
    BY DEF LastIsLastInHand
  <2>0. /\ i \in 1 .. Len(subs) /\ a \in subs[i].atoms /\ call'[u].ev = call[u].ev
        /\ p \in 1 .. Len(call[u].ev) /\ call[u].ev[p].atom = subs[i].last
    BY <1>0, <1>12 DEF HandsKept
  <2>1. katom[subs[i].last].st = "unused" /\ InHand(subs[i].last)
    BY <2>0 DEF Places, HandsAreUnused, InHand
  <2>2. a # x
    BY <1>10, <1>13, <2>0, <2>1 DEF Live
  <2>3. katom'[a].st = katom[a].st
    BY <1>11, <2>0, <2>2, RingAtoms
  <2> QED BY <2>0, <2>3 DEF Places, LastIsLastInHand
<1>9. DoneIsOver'
  <2> SUFFICES ASSUME NEW i \in 1 .. Len(subs), NEW a \in subs[i].atoms, subs[i].done
               PROVE  katom'[a].st = "unused" /\ ~ InHand(a)'
    BY <1>12 DEF DoneIsOver
  <2>1. a # x /\ a \in Atoms
    BY <1>13, RingAtoms
  <2> QED BY <1>3, <1>11, <2>1 DEF Places, DoneIsOver
<1> QED
  BY <1>4, <1>5, <1>6, <1>7, <1>8, <1>9 DEF Places

(* An atom ends without an event.                                          *)
LEMMA NoEventKeepsPlaces ==
  ASSUME IInv, IInv', Places, UNCHANGED <<events, subs, atom_use>>, HandsKept,
         \A a \in Atoms : \/ katom'[a].st = katom[a].st
                          \/ Live(a) /\ katom'[a].st = "unused"
  PROVE  Places'
<1>1. \A a : (InHand(a)' <=> InHand(a)) /\ (InEvents(a)' <=> InEvents(a))
  BY DEF InHand, InEvents, HandsKept
<1>8. subs' = subs
  OBVIOUS
<1>2. EventsAreEnded'
  <2>1. \A p \in 1 .. Len(events) : events[p].atom \in Atoms
    BY EventTypes DEF IInv
  <2> QED BY <1>1, <2>1 DEF Places, EventsAreEnded, Live
<1>3. HandsAreUnused'
  <2>1. \A u \in Threads : \A p \in 1 .. Len(call[u].ev) : call[u].ev[p].atom \in Atoms
    BY EventTypes DEF IInv
  <2>2. \A u \in Threads : \A p \in 1 .. Len(call[u].ev) :
          katom'[call[u].ev[p].atom].st = "unused"
    BY <2>1 DEF Places, HandsAreUnused
  <2>3. \A u \in Threads : \A p, q \in 1 .. Len(call'[u].ev) :
          call'[u].ev[p].atom = call'[u].ev[q].atom => p = q
    BY DEF HandsKept, Places, HandsAreUnused
  <2> QED BY <2>2, <2>3 DEF HandsKept, HandsAreUnused
<1>4. FreeNumbersAreIdle'
  <2>1. \A a \in Free : katom[a].st = "unused" /\ ~ InHand(a)
    BY FreeIdle DEF IInv, Places
  <2>2. \A a \in Free' : katom'[a].st = "unused" /\ ~ InHand(a)'
    BY <1>1, <2>1 DEF Free
  <2> QED BY <2>2, FreeIdleAfter DEF IInv
<1>5. LastIsLastQueued'
  BY DEF Places, LastIsLastQueued
<1>6. LastIsLastInHand'
  <2> SUFFICES ASSUME NEW i \in 1 .. Len(subs'), NEW a \in subs'[i].atoms,
                      NEW u \in Threads, NEW p \in 1 .. Len(call'[u].ev),
                      call'[u].ev[p].atom = subs'[i].last
               PROVE  /\ katom'[a].st # "ended"
                      /\ \A q \in 1 .. Len(call'[u].ev) : call'[u].ev[q].atom = a => q <= p
    BY DEF LastIsLastInHand
  <2>0. /\ i \in 1 .. Len(subs) /\ a \in subs[i].atoms /\ call'[u].ev = call[u].ev
        /\ p \in 1 .. Len(call[u].ev) /\ call[u].ev[p].atom = subs[i].last
    BY <1>8 DEF HandsKept
  <2>1. a \in Atoms
    BY <2>0, RingAtoms
  <2> QED BY <2>0, <2>1 DEF Places, LastIsLastInHand
<1>7. DoneIsOver'
  <2> SUFFICES ASSUME NEW i \in 1 .. Len(subs), NEW a \in subs[i].atoms, subs[i].done
               PROVE  katom'[a].st = "unused" /\ ~ InHand(a)'
    BY DEF DoneIsOver
  <2>1. a \in Atoms
    BY RingAtoms
  <2> QED BY <1>1, <2>1 DEF Places, DoneIsOver, Live
<1> QED
  BY <1>2, <1>3, <1>4, <1>5, <1>6, <1>7 DEF Places

LEMMA EndKeepsPlaces ==
  ASSUME IInv, IInv', Places, Chains, NEW x \in Atoms, EndAtom(x)
  PROVE  Places'
<1>1. /\ Live(x) /\ UNCHANGED <<subs, atom_use, call>> /\ HandsKept
      /\ \A a \in Atoms : a # x => katom'[a].st = katom[a].st
  BY EndFacts DEF jm, threads, HandsKept
<1>2. PICK code \in Outcomes(x) :
        /\ katom'[x] = IF katom[x].quiet /\ code = "DONE" THEN KUnused("DONE")
                       ELSE [katom[x] EXCEPT !.st = "ended", !.code = code]
        /\ events' = IF katom[x].quiet /\ code = "DONE" THEN events
                     ELSE Append(events, [atom |-> x, code |-> code])
  BY DEF EndAtom
<1>3. katom[x] \in KAtom
  BY DEF IInv, TypeOK
<1>4. CASE katom[x].quiet /\ code = "DONE"
  <2>1. katom'[x].st = "unused" /\ events' = events
    BY <1>2, <1>4 DEF KUnused, KNew
  <2> QED BY <1>1, <2>1, NoEventKeepsPlaces
<1>5. CASE ~ (katom[x].quiet /\ code = "DONE")
  <2>1. katom'[x].st = "ended" /\ events' = Append(events, [atom |-> x, code |-> code])
    BY <1>2, <1>3, <1>5 DEF KAtom
  <2>2. katom[x].st # "ended" /\ ~ InHand(x)
    BY <1>1 DEF Live, Places, HandsAreUnused, InHand
  <2>3. \A a \in Atoms : atom_use'[a] = "FREE" => a # x /\ atom_use[a] = "FREE"
    <3>1. x \notin Free
      BY <1>1, FreeIdle DEF Places, IInv, Live
    <3> QED BY <1>1, <3>1 DEF Free
  <2>4. \A i \in 1 .. Len(subs) : x \in subs[i].atoms =>
          ~ subs[i].done /\ (x = subs[i].last \/ Live(subs[i].last))
    BY <1>1, LastOutlives DEF Places, DoneIsOver, Live
  <2>5. [atom |-> x, code |-> code].atom = x
    OBVIOUS
  <2> QED BY <1>1, <2>1, <2>2, <2>3, <2>4, <2>5, EventJoins DEF Joins
<1> QED BY <1>4, <1>5

(* Events go from the kernel's queue into the reader's hands, in order.    *)
LEMMA PollKeepsPlaces ==
  ASSUME IInv, IInv', ThreadsBehave, Places, NEW t \in Threads, PollEvents(t)
  PROVE  Places'
<1> DEFINE n == IF Len(events) < MaxRead THEN Len(events) ELSE MaxRead
           read == {events[i].atom : i \in 1 .. n}
<1>1. /\ events \in Seq(Event) /\ Len(events) \in Nat
      /\ n \in Nat /\ n <= Len(events)
  BY EventTypes, BoundsAssumption DEF IInv
<1>2. /\ pc[t] = "poll" /\ events' = SubSeq(events, n + 1, Len(events))
      /\ call' = [call EXCEPT ![t].ev = SubSeq(events, 1, n), ![t].prog = TRUE]
      /\ katom' = [a \in Atoms |-> IF a \in read THEN KUnused(katom[a].code) ELSE katom[a]]
      /\ UNCHANGED <<subs, atom_use>>
  BY DEF PollEvents, jm
<1>3. call \in [Threads -> Call]
  BY DEF IInv, TypeOK
<1>4. call'[t].ev = SubSeq(events, 1, n)
  BY <1>2, <1>3 DEF Call
<1>5. \A u \in Threads : call[u].ev = <<>> /\ (u # t => call'[u].ev = <<>>)
  BY <1>2, <1>3, OneHand DEF ThreadsBehave, Readers
<1>6. PICK k \in Nat : k = n
  BY <1>1
<1>23. /\ call'[t].ev = SubSeq(events, 1, k) /\ events' = SubSeq(events, k + 1, Len(events))
       /\ k <= Len(events)
  BY <1>1, <1>2, <1>4, <1>6
<1>7. /\ k <= Len(events)
      /\ Len(call'[t].ev) = k
      /\ \A p \in 1 .. k : call'[t].ev[p] = events[p] /\ p \in 1 .. Len(events)
  <2> HIDE DEF n, read
  <2> QED BY <1>1, <1>23
<1>8. /\ Len(events') = Len(events) - k
      /\ \A p \in 1 .. Len(events') : events'[p] = events[k + p] /\ k + p \in 1 .. Len(events)
  <2> HIDE DEF n, read
  <2> QED BY <1>1, <1>23
<1>9. \A a \in Atoms : a \in read <=> \E p \in 1 .. k : events[p].atom = a
  BY <1>6
<1>10. \A a \in Atoms : katom'[a].st = IF a \in read THEN "unused" ELSE katom[a].st
  BY <1>2 DEF KUnused, KNew
<1>22. subs' = subs
  BY <1>2
<1> HIDE DEF n, read
<1>11. \A a : InHand(a)' <=> \E p \in 1 .. k : events[p].atom = a
  <2>1. \A u \in Threads : u # t => Len(call'[u].ev) = 0
    BY <1>5
  <2> QED BY <1>7, <2>1 DEF InHand
<1>12. \A p \in 1 .. Len(events) : /\ events[p].atom \in Atoms
                                   /\ katom[events[p].atom].st = "ended"
  BY EventTypes DEF IInv, Places, EventsAreEnded
<1>13. \A p, q \in 1 .. Len(events) : events[p].atom = events[q].atom => p = q
  BY DEF Places, EventsAreEnded
<1>14. \A p \in 1 .. Len(events') : events'[p].atom \notin read
  <2> SUFFICES ASSUME NEW p \in 1 .. Len(events'), events'[p].atom \in read PROVE FALSE
    OBVIOUS
  <2>1. k + p \in 1 .. Len(events) /\ events[k + p].atom \in Atoms
        /\ events'[p].atom = events[k + p].atom
    BY <1>8, <1>12
  <2>2. PICK q \in 1 .. k : events[q].atom = events[k + p].atom
    BY <1>9, <2>1
  <2>3. q \in 1 .. Len(events) /\ q # k + p
    BY <1>1, <1>7
  <2> QED BY <1>13, <2>1, <2>2, <2>3
<1>15. EventsAreEnded'
  <2>1. \A p \in 1 .. Len(events') : katom'[events'[p].atom].st = "ended"
    BY <1>8, <1>10, <1>12, <1>14
  <2>2. ASSUME NEW p \in 1 .. Len(events'), NEW q \in 1 .. Len(events'),
               events'[p].atom = events'[q].atom
        PROVE  p = q
    <3>1. k + p = k + q
      BY <1>8, <1>13, <2>2
    <3>2. p \in Int /\ q \in Int
      OBVIOUS
    <3> QED BY <3>1, <3>2
  <2>3. ASSUME NEW a \in Atoms, katom'[a].st = "ended" PROVE InEvents(a)'
    <3>1. a \notin read /\ katom[a].st = "ended"
      BY <1>10, <2>3
    <3>2. PICK p \in 1 .. Len(events) : events[p].atom = a
      BY <3>1 DEF Places, EventsAreEnded, InEvents
    <3>3. ~ (p <= k)
      BY <1>9, <3>1, <3>2
    <3>4. p - k \in 1 .. Len(events') /\ k + (p - k) = p
      BY <1>1, <1>8, <3>3
    <3>5. events'[p - k].atom = a
      BY <1>8, <3>2, <3>4
    <3> QED BY <3>4, <3>5 DEF InEvents
  <2> QED BY <2>1, <2>2, <2>3 DEF EventsAreEnded
<1>16. HandsAreUnused'
  <2>1. \A u \in Threads : u # t => Len(call'[u].ev) = 0
    BY <1>5
  <2>2. \A p \in 1 .. k : katom'[events[p].atom].st = "unused"
    BY <1>7, <1>9, <1>10, <1>12
  <2>3. \A p \in 1 .. Len(call'[t].ev) : katom'[call'[t].ev[p].atom].st = "unused"
    BY <1>7, <2>2
  <2>4. \A p, q \in 1 .. Len(call'[t].ev) :
          call'[t].ev[p].atom = call'[t].ev[q].atom => p = q
    BY <1>7, <1>13
  <2> QED BY <2>1, <2>3, <2>4 DEF HandsAreUnused
<1>17. \A a \in Atoms : katom[a].st # "ended" => ~ InHand(a)' /\ katom'[a].st = katom[a].st
  BY <1>7, <1>9, <1>10, <1>11, <1>12
<1>18. FreeNumbersAreIdle'
  <2>1. \A a \in Free : katom[a].st = "unused"
    BY FreeIdle DEF IInv, Places
  <2>2. \A a \in Free' : a \in Atoms /\ a \in Free
    BY <1>2 DEF Free
  <2>3. \A a \in Free' : katom'[a].st = "unused" /\ ~ InHand(a)'
    BY <1>17, <2>1, <2>2
  <2> QED BY <2>3, FreeIdleAfter DEF IInv
<1>19. LastIsLastQueued'
  <2> SUFFICES ASSUME NEW i \in 1 .. Len(subs), NEW a \in subs[i].atoms,
                      NEW p \in 1 .. Len(events'), NEW q \in 1 .. Len(events'),
                      events'[p].atom = subs[i].last, events'[q].atom = a
               PROVE  q <= p
    BY <1>22 DEF LastIsLastQueued
  <2>1. k + q <= k + p
    BY <1>8 DEF Places, LastIsLastQueued
  <2> QED BY <2>1
<1>20. LastIsLastInHand'
  <2> SUFFICES ASSUME NEW i \in 1 .. Len(subs), NEW a \in subs[i].atoms,
                      NEW u \in Threads, NEW p \in 1 .. Len(call'[u].ev),
                      call'[u].ev[p].atom = subs[i].last
               PROVE  /\ katom'[a].st # "ended"
                      /\ \A q \in 1 .. Len(call'[u].ev) : call'[u].ev[q].atom = a => q <= p
    BY <1>22 DEF LastIsLastInHand
  <2>1. u = t
    <3>1. u # t => Len(call'[u].ev) = 0
      BY <1>5
    <3> QED BY <3>1
  <2>2. p \in 1 .. k /\ p \in 1 .. Len(events) /\ events[p].atom = subs[i].last
    BY <1>7, <2>1
  <2>3. a \in Atoms
    BY RingAtoms
  <2>4. \A q \in 1 .. Len(events) : events[q].atom = a => q <= p
    <3>1. LastIsLastQueued
      BY DEF Places
    <3> QED BY <2>2, <3>1 DEF LastIsLastQueued
  <2>5. katom'[a].st # "ended"
    <3> SUFFICES ASSUME katom'[a].st = "ended" PROVE FALSE
      OBVIOUS
    <3>1. a \notin read /\ katom[a].st = "ended"
      BY <1>10, <2>3
    <3>2. PICK q \in 1 .. Len(events) : events[q].atom = a
      BY <2>3, <3>1 DEF Places, EventsAreEnded, InEvents
    <3>3. q \in 1 .. k
      BY <2>2, <2>4, <3>2
    <3> QED BY <1>9, <2>3, <3>1, <3>2, <3>3
  <2> QED BY <1>7, <2>1, <2>4, <2>5
<1>21. DoneIsOver'
  <2> SUFFICES ASSUME NEW i \in 1 .. Len(subs), NEW a \in subs[i].atoms, subs[i].done
               PROVE  katom'[a].st = "unused" /\ ~ InHand(a)'
    BY <1>22 DEF DoneIsOver
  <2>1. a \in Atoms /\ katom[a].st = "unused"
    BY RingAtoms DEF Places, DoneIsOver
  <2> QED BY <1>17, <2>1
<1> QED
  BY <1>15, <1>16, <1>18, <1>19, <1>20, <1>21 DEF Places

(* An event leaves the reader's hands: its number may be free now, or the  *)
(* submission is done of which it is the last.                             *)
LEMMA TakenKeepsPlaces ==
  ASSUME IInv, IInv', ThreadsBehave, Places, Chains,
         NEW t \in Threads, NEW ev \in Event, TakeEvent(t, ev),
         \A a \in Atoms : atom_use'[a] = "FREE" => a = ev.atom \/ atom_use[a] = "FREE",
         Len(subs') = Len(subs),
         \A i \in 1 .. Len(subs) :
           /\ subs'[i].last = subs[i].last /\ subs'[i].atoms = subs[i].atoms
           /\ subs'[i].done => subs[i].done \/ subs[i].last = ev.atom
  PROVE  Places'
<1>1. /\ pc[t] = "handle" /\ call[t].ev # <<>> /\ ev = Head(call[t].ev)
      /\ call' = [call EXCEPT ![t].ev = Tail(@)]
      /\ UNCHANGED <<katom, events>>
  BY DEF TakeEvent, Holds, kernel
<1>17. UNCHANGED <<katom, events>>
  BY <1>1
<1>2. call \in [Threads -> Call] /\ call[t].ev \in Seq(Event) /\ ev.atom \in Atoms
  BY DEF IInv, TypeOK, Call, Event
<1>3. call'[t].ev = Tail(call[t].ev) /\ \A u \in Threads : u # t => call'[u].ev = <<>>
  BY <1>1, <1>2, OneHand DEF Call, Readers
<1>4. PICK k \in Nat : k = Len(call[t].ev) /\ k >= 1
  BY <1>1, <1>2
<1>5. /\ Len(call'[t].ev) = k - 1
      /\ \A p \in 1 .. k - 1 : call'[t].ev[p] = call[t].ev[p + 1] /\ p + 1 \in 1 .. k
      /\ call[t].ev[1] = ev /\ 1 \in 1 .. k
  BY <1>1, <1>2, <1>3, <1>4
<1>16. \A p \in 1 .. Len(call'[t].ev) :
         /\ p \in Int /\ p \in 1 .. k - 1 /\ p + 1 \in 1 .. k
         /\ p + 1 \in 1 .. Len(call[t].ev)
         /\ call'[t].ev[p].atom = call[t].ev[p + 1].atom
  <2> SUFFICES ASSUME NEW p \in 1 .. Len(call'[t].ev)
               PROVE  /\ p \in Int /\ p \in 1 .. k - 1 /\ p + 1 \in 1 .. k
                      /\ p + 1 \in 1 .. Len(call[t].ev)
                      /\ call'[t].ev[p].atom = call[t].ev[p + 1].atom
    OBVIOUS
  <2>1. p \in 1 .. k - 1 /\ p \in Int
    BY <1>5
  <2>2. p + 1 \in 1 .. k /\ call'[t].ev[p] = call[t].ev[p + 1]
    BY <1>5, <2>1
  <2> QED BY <1>4, <2>1, <2>2
<1>6. \A u \in Threads : u # t => Len(call'[u].ev) = 0
  BY <1>3
<1>7. \A p, q \in 1 .. k : call[t].ev[p].atom = call[t].ev[q].atom => p = q
  BY <1>4 DEF Places, HandsAreUnused
<1>8. \A a : InHand(a)' => /\ InHand(a) /\ a # ev.atom
                           /\ \E p \in 1 .. k : p # 1 /\ call[t].ev[p].atom = a
  <2> SUFFICES ASSUME NEW a, InHand(a)'
               PROVE  /\ InHand(a) /\ a # ev.atom
                      /\ \E p \in 1 .. k : p # 1 /\ call[t].ev[p].atom = a
    OBVIOUS
  <2>1. PICK p \in 1 .. k - 1 : call'[t].ev[p].atom = a
    BY <1>5, <1>6 DEF InHand
  <2>2. p + 1 \in 1 .. k /\ call[t].ev[p + 1].atom = a /\ p + 1 # 1
    BY <1>5, <2>1
  <2> QED BY <1>4, <1>5, <1>7, <2>2 DEF InHand
<1>9. /\ katom[ev.atom].st = "unused"
      /\ \A p \in 1 .. k : katom[call[t].ev[p].atom].st = "unused"
  BY <1>4, <1>5 DEF Places, HandsAreUnused
<1>10. EventsAreEnded'
  BY <1>1 DEF Places, EventsAreEnded, InEvents
<1>11. HandsAreUnused'
  <2>1. \A p \in 1 .. Len(call'[t].ev) : katom'[call'[t].ev[p].atom].st = "unused"
    <3> SUFFICES ASSUME NEW p \in 1 .. Len(call'[t].ev)
                 PROVE  katom'[call'[t].ev[p].atom].st = "unused"
      OBVIOUS
    <3>1. p + 1 \in 1 .. k /\ call'[t].ev[p].atom = call[t].ev[p + 1].atom
      BY <1>16
    <3>2. katom[call[t].ev[p + 1].atom].st = "unused"
      BY <1>9, <3>1
    <3> QED BY <1>1, <3>1, <3>2
  <2>2. ASSUME NEW p \in 1 .. Len(call'[t].ev), NEW q \in 1 .. Len(call'[t].ev),
               call'[t].ev[p].atom = call'[t].ev[q].atom
        PROVE  p = q
    <3>1. /\ p + 1 \in 1 .. k /\ q + 1 \in 1 .. k /\ p \in Int /\ q \in Int
          /\ call[t].ev[p + 1].atom = call[t].ev[q + 1].atom
      BY <1>16, <2>2
    <3>2. p + 1 = q + 1
      BY <1>7, <3>1
    <3> QED BY <3>1, <3>2
  <2> QED BY <1>6, <2>1, <2>2, SMTT(30) DEF HandsAreUnused
<1>12. FreeNumbersAreIdle'
  <2>1. \A a \in Free : katom[a].st = "unused" /\ ~ InHand(a)
    BY FreeIdle DEF IInv, Places
  <2>2. \A a \in Free' : a = ev.atom \/ a \in Free
    BY DEF Free
  <2>3. \A a \in Free' : katom'[a].st = "unused" /\ ~ InHand(a)'
    BY <1>1, <1>8, <1>9, <2>1, <2>2
  <2> QED BY <2>3, FreeIdleAfter DEF IInv
<1>13. LastIsLastQueued'
  <2> SUFFICES ASSUME NEW i \in 1 .. Len(subs), NEW a \in subs[i].atoms,
                      NEW p \in 1 .. Len(events), NEW q \in 1 .. Len(events),
                      events[p].atom = subs[i].last, events[q].atom = a
               PROVE  q <= p
    BY <1>17 DEF LastIsLastQueued
  <2> QED BY DEF Places, LastIsLastQueued
<1>14. LastIsLastInHand'
  <2> SUFFICES ASSUME NEW i \in 1 .. Len(subs), NEW a \in subs[i].atoms,
                      NEW u \in Threads, NEW p \in 1 .. Len(call'[u].ev),
                      call'[u].ev[p].atom = subs[i].last
               PROVE  /\ katom[a].st # "ended"
                      /\ \A q \in 1 .. Len(call'[u].ev) : call'[u].ev[q].atom = a => q <= p
    BY <1>17 DEF LastIsLastInHand
  <2>1. u = t /\ p \in 1 .. k - 1 /\ p + 1 \in 1 .. Len(call[t].ev)
        /\ call[t].ev[p + 1].atom = subs[i].last
    <3>1. u = t
      <4>1. u # t => 1 .. Len(call'[u].ev) = {}
        BY <1>6
      <4> QED BY <4>1
    <3> QED BY <1>16, <3>1
  <2>2. LastIsLastInHand
    BY DEF Places
  <2>3. /\ katom[a].st # "ended"
        /\ \A q \in 1 .. Len(call[t].ev) : call[t].ev[q].atom = a => q <= p + 1
    BY <2>1, <2>2 DEF LastIsLastInHand
  <2>4. ASSUME NEW q \in 1 .. Len(call'[t].ev), call'[t].ev[q].atom = a
        PROVE  q <= p
    <3>1. q + 1 <= p + 1
      BY <1>4, <1>5, <2>3, <2>4
    <3> QED BY <2>1, <3>1
  <2> QED BY <2>1, <2>3, <2>4
<1>15. DoneIsOver'
  <2> SUFFICES ASSUME NEW i \in 1 .. Len(subs), NEW a \in subs[i].atoms, subs'[i].done
               PROVE  katom[a].st = "unused" /\ ~ InHand(a)'
    BY <1>17 DEF DoneIsOver
  <2>1. CASE subs[i].done
    BY <1>8, <2>1 DEF Places, DoneIsOver
  <2>2. CASE subs[i].last = ev.atom
    <3>1. LastIsLastInHand /\ 1 \in 1 .. Len(call[t].ev)
      BY <1>4 DEF Places
    <3>2. /\ katom[a].st # "ended"
          /\ \A q \in 1 .. Len(call[t].ev) : call[t].ev[q].atom = a => q <= 1
      BY <1>5, <2>2, <3>1 DEF LastIsLastInHand
    <3>3. ~ Live(a)
      BY <1>9, <2>2, LastOutlives, RingAtoms DEF Live
    <3>4. a \in Atoms /\ katom[a] \in KAtom
      BY RingAtoms DEF IInv, TypeOK
    <3>5. katom[a].st = "unused"
      BY <3>2, <3>3, <3>4 DEF KAtom, Live
    <3>6. ~ InHand(a)'
      BY <1>4, <1>8, <3>2
    <3> QED BY <3>5, <3>6
  <2> QED BY <2>1, <2>2
<1> QED
  BY <1>10, <1>11, <1>12, <1>13, <1>14, <1>15 DEF Places

LEMMA HandlingKeepsPlaces ==
  ASSUME IInv, IInv', ThreadsBehave, Places, Chains, NEW t \in Threads,
         HandleAuxEvent(t) \/ HandleSubEvent(t) \/ HandleUnknownEvent(t)
  PROVE  Places'
<1>1. CASE HandleAuxEvent(t)
  <2>1. PICK ev \in Event : TakeEvent(t, ev) /\ FreeAtoms({ev.atom}) /\ UNCHANGED subs
    BY <1>1 DEF HandleAuxEvent
  <2>2. \A a \in Atoms : atom_use'[a] = "FREE" => a = ev.atom \/ atom_use[a] = "FREE"
    BY <2>1 DEF FreeAtoms
  <2> QED BY <2>1, <2>2, TakenKeepsPlaces
<1>2. CASE HandleSubEvent(t)
  <2>1. PICK ev \in Event : TakeEvent(t, ev) /\ UNCHANGED atom_use
           /\ \E i \in FindSub(ev.atom) :
                subs' = [subs EXCEPT ![i].done = @ \/ Completes(subs[i], ev.atom)]
    BY <1>2 DEF HandleSubEvent
  <2>2. PICK i \in 1 .. Len(subs) :
          subs' = [subs EXCEPT ![i].done = @ \/ Completes(subs[i], ev.atom)]
    BY <2>1 DEF FindSub
  <2>3. /\ Len(subs') = Len(subs)
        /\ \A j \in 1 .. Len(subs) :
             /\ subs'[j].last = subs[j].last /\ subs'[j].atoms = subs[j].atoms
             /\ subs'[j].done => subs[j].done \/ subs[j].last = ev.atom
    BY <2>2, RingAtoms DEF Sub, Completes
  <2> QED BY <2>1, <2>3, TakenKeepsPlaces
<1>3. CASE HandleUnknownEvent(t)
  <2>1. PICK ev \in Event : TakeEvent(t, ev) /\ UNCHANGED <<subs, atom_use>>
    BY <1>3 DEF HandleUnknownEvent
  <2>2. \A a \in Atoms : atom_use'[a] = "FREE" => a = ev.atom \/ atom_use[a] = "FREE"
    BY <2>1
  <2>3. /\ Len(subs') = Len(subs)
        /\ \A j \in 1 .. Len(subs) :
             /\ subs'[j].last = subs[j].last /\ subs'[j].atoms = subs[j].atoms
             /\ subs'[j].done => subs[j].done \/ subs[j].last = ev.atom
    BY <2>1
  <2> QED BY <2>1, <2>2, <2>3, TakenKeepsPlaces
<1> QED BY <1>1, <1>2, <1>3

LEMMA RetireKeepsPlaces ==
  ASSUME IInv, IInv', Places, NEW t \in Threads, RetireOldest(t)
  PROVE  Places'
<1>1. /\ UNCHANGED <<katom, events, call>> /\ 1 \in 1 .. Len(subs) /\ subs[1].done
      /\ Len(subs') = Len(subs) - 1 /\ Len(subs) \in Nat
      /\ \A i \in 1 .. Len(subs') : subs'[i] = subs[i + 1] /\ i + 1 \in 1 .. Len(subs)
      /\ \A a \in Atoms : atom_use'[a] = IF a \in subs[1].atoms THEN "FREE" ELSE atom_use[a]
  BY RetireFacts, RingAtoms, SMTT(30)
<1>2. \A i \in 1 .. Len(subs') : \E j \in 1 .. Len(subs) : subs'[i] = subs[j]
  BY <1>1
<1>3. \A a : InHand(a)' <=> InHand(a)
  BY <1>1 DEF InHand
<1>4. FreeNumbersAreIdle'
  <2>1. \A a \in Free : katom[a].st = "unused" /\ ~ InHand(a)
    BY FreeIdle DEF IInv, Places
  <2>2. \A a \in Free' : katom'[a].st = "unused" /\ ~ InHand(a)'
    BY <1>1, <1>3, <2>1 DEF Free, Places, DoneIsOver
  <2> QED BY <2>2, FreeIdleAfter DEF IInv
<1>5. EventsAreEnded' /\ HandsAreUnused'
  <2>1. UNCHANGED <<katom, events, call>>
    BY <1>1
  <2>2. EventsAreEnded'
    BY <2>1 DEF Places, EventsAreEnded, InEvents
  <2>3. HandsAreUnused'
    BY <2>1 DEF Places, HandsAreUnused
  <2> QED BY <2>2, <2>3
<1>6. LastIsLastQueued'
  <2> SUFFICES ASSUME NEW i \in 1 .. Len(subs'), NEW a \in subs'[i].atoms,
                      NEW p \in 1 .. Len(events), NEW q \in 1 .. Len(events),
                      events[p].atom = subs'[i].last, events[q].atom = a
               PROVE  q <= p
    BY <1>1 DEF LastIsLastQueued
  <2>1. PICK j \in 1 .. Len(subs) : subs'[i] = subs[j]
    BY <1>2
  <2> QED BY <2>1 DEF Places, LastIsLastQueued
<1>7. LastIsLastInHand'
  <2> SUFFICES ASSUME NEW i \in 1 .. Len(subs'), NEW a \in subs'[i].atoms,
                      NEW u \in Threads, NEW p \in 1 .. Len(call[u].ev),
                      call[u].ev[p].atom = subs'[i].last
               PROVE  /\ katom[a].st # "ended"
                      /\ \A q \in 1 .. Len(call[u].ev) : call[u].ev[q].atom = a => q <= p
    BY <1>1 DEF LastIsLastInHand
  <2>1. PICK j \in 1 .. Len(subs) : subs'[i] = subs[j]
    BY <1>2
  <2> QED BY <2>1 DEF Places, LastIsLastInHand
<1>8. DoneIsOver'
  <2> SUFFICES ASSUME NEW i \in 1 .. Len(subs'), NEW a \in subs'[i].atoms, subs'[i].done
               PROVE  katom[a].st = "unused" /\ ~ InHand(a)
    BY <1>1, <1>3 DEF DoneIsOver
  <2>1. PICK j \in 1 .. Len(subs) : subs'[i] = subs[j]
    BY <1>2
  <2> QED BY <2>1 DEF Places, DoneIsOver
<1> QED
  BY <1>4, <1>5, <1>6, <1>7, <1>8 DEF Places

-----------------------------------------------------------------------------
(* The steps, by what they do to atoms, ring and history                   *)

(* A step of the threads among themselves.  It may lose the device, or     *)
(* tell a caller that a submission is finished.                            *)
Quiet ==
  /\ UNCHANGED <<atom_use, subs, last_seqno, completed_seqno, katom, events, fence, broken>>
  /\ HandsKept
  /\ \/ UNCHANGED told /\ (lost => lost')
     \/ UNCHANGED lost /\ ~ lost /\ \E s \in 1 .. completed_seqno : told' = told \cup {s}

LEMMA OneHandKept ==
  ASSUME IInv, NEW t \in Threads, NEW c, call' = [call EXCEPT ![t] = c], c.ev = call[t].ev
  PROVE  HandsKept
<1>1. \A u \in Threads : call'[u].ev = call[u].ev
  BY DEF IInv, TypeOK
<1> QED BY <1>1 DEF HandsKept

LEMMA ReturnKeepsHands ==
  ASSUME IInv, ThreadsBehave, NEW t \in Threads, pc[t] \notin {"lock", "handle"}, Return(t)
  PROVE  HandsKept
<1>1. call[t].ev = <<>> /\ NoCall.ev = <<>>
  BY DEF ThreadsBehave, NoCall
<1>2. call' = [call EXCEPT ![t] = NoCall]
  BY DEF Return
<1> QED BY <1>1, <1>2, OneHandKept

LEMMA StartIsQuiet ==
  ASSUME IInv, ThreadsBehave, NEW t \in Threads, Start(t)
  PROVE  Quiet
<1>1. PICK c, where : Begin(t, where, c) /\ c.ev = <<>>
  <2>1. CASE StartWait(t)
    <3>1. PICK s \in 1 .. last_seqno, timeout \in Timeouts :
            Begin(t, "wait", [NoCall EXCEPT !.seqno = s, !.timeout = timeout])
      BY <2>1 DEF StartWait
    <3>2. [NoCall EXCEPT !.seqno = s, !.timeout = timeout].ev = <<>>
      BY DEF NoCall
    <3> QED BY <3>1, <3>2
  <2>2. CASE StartExport(t)
    <3>1. PICK s \in 1 .. last_seqno :
            Begin(t, "export", [NoCall EXCEPT !.seqno = s, !.timeout = "infinite"])
      BY <2>2 DEF StartExport
    <3>2. [NoCall EXCEPT !.seqno = s, !.timeout = "infinite"].ev = <<>>
      BY DEF NoCall
    <3> QED BY <3>1, <3>2
  <2>3. CASE StartSubmit(t)
    <3>1. PICK n \in 0 .. MaxJobs, w \in BOOLEAN :
            Begin(t, "submit", [NoCall EXCEPT !.timeout = "infinite",
                                              !.nr_jobs = n, !.wait_fd = w])
      BY <2>3 DEF StartSubmit
    <3>2. [NoCall EXCEPT !.timeout = "infinite", !.nr_jobs = n, !.wait_fd = w].ev = <<>>
      BY DEF NoCall
    <3> QED BY <3>1, <3>2
  <2> QED BY <2>1, <2>2, <2>3 DEF Start
<1>2. call[t].ev = <<>>
  BY <1>1 DEF Begin, ThreadsBehave
<1>3. HandsKept
  BY <1>1, <1>2, OneHandKept DEF Begin
<1> QED BY <1>1, <1>3 DEF Begin, Quiet, jm, kernel, history

LEMMA ProgressIsQuiet ==
  ASSUME IInv, NEW t \in Threads, Progress(t)
  PROVE  Quiet
<1>1. call[t] \in Call
  BY DEF IInv, TypeOK
<1>2. PICK c : call' = [call EXCEPT ![t] = c] /\ c.ev = call[t].ev
  <2>1. [call[t] EXCEPT !.prog = FALSE].ev = call[t].ev
        /\ [call[t] EXCEPT !.loop = pc[t]].ev = call[t].ev
    BY <1>1 DEF Call
  <2>2. \/ call' = [call EXCEPT ![t] = [call[t] EXCEPT !.prog = FALSE]]
        \/ call' = [call EXCEPT ![t] = [call[t] EXCEPT !.loop = pc[t]]]
    BY DEF Progress, ProgressAsFollower, ProgressAsReader
  <2> QED BY <2>1, <2>2
<1>3. HandsKept
  BY <1>2, OneHandKept
<1> QED BY <1>3 DEF Progress, Quiet, kernel, history

LEMMA ReaderIsQuiet ==
  ASSUME IInv, NEW t \in Threads,
         \/ Lock(t) \/ CondWoken(t) \/ CondSpurious(t) \/ CondTimedOut(t)
         \/ PollTimedOut(t) \/ PollFailed(t) \/ FinishProgress(t)
  PROVE  Quiet
<1>1. call[t] \in Call /\ call = [call EXCEPT ![t] = call[t]]
  BY DEF IInv, TypeOK
<1>2. PICK c : call' = [call EXCEPT ![t] = c] /\ c.ev = call[t].ev
  <2>1. CASE Lock(t)
    BY <1>1, <2>1 DEF Lock
  <2>2. CASE CondWoken(t) \/ CondSpurious(t) \/ CondTimedOut(t)
    <3>1. PICK progress \in BOOLEAN : CondReturn(t, progress)
      BY <2>2 DEF CondWoken, CondSpurious, CondTimedOut
    <3>2. [call[t] EXCEPT !.prog = progress].ev = call[t].ev
      BY <1>1 DEF Call
    <3>3. call' = [call EXCEPT ![t] = [call[t] EXCEPT !.prog = progress]]
      BY <3>1 DEF CondReturn
    <3> QED BY <3>2, <3>3
  <2>3. CASE PollTimedOut(t)
    <3>1. [call[t] EXCEPT !.prog = FALSE].ev = call[t].ev
      BY <1>1 DEF Call
    <3>2. call' = [call EXCEPT ![t] = [call[t] EXCEPT !.prog = FALSE]]
      BY <2>3 DEF PollTimedOut
    <3> QED BY <3>1, <3>2
  <2>4. CASE PollFailed(t)
    <3>1. [call[t] EXCEPT !.prog = TRUE, !.failed = TRUE].ev = call[t].ev
      BY <1>1 DEF Call
    <3>2. call' = [call EXCEPT ![t] = [call[t] EXCEPT !.prog = TRUE, !.failed = TRUE]]
      BY <2>4 DEF PollFailed
    <3> QED BY <3>1, <3>2
  <2>5. CASE FinishProgress(t)
    <3>1. [call[t] EXCEPT !.failed = FALSE].ev = call[t].ev
      BY <1>1 DEF Call
    <3>2. call' = [call EXCEPT ![t] = [call[t] EXCEPT !.failed = FALSE]]
      BY <2>5 DEF FinishProgress
    <3> QED BY <3>1, <3>2
  <2> QED BY <2>1, <2>2, <2>3, <2>4, <2>5
<1>3. HandsKept
  BY <1>2, OneHandKept
<1>4. /\ UNCHANGED <<atom_use, subs, last_seqno, completed_seqno, katom, events, fence,
                     broken, told>>
      /\ lost => lost'
  <2>1. CASE Lock(t) \/ PollTimedOut(t) \/ PollFailed(t)
    BY <2>1 DEF Lock, PollTimedOut, PollFailed, jm, kernel, history
  <2>2. CASE CondWoken(t) \/ CondSpurious(t) \/ CondTimedOut(t)
    BY <2>2 DEF CondWoken, CondSpurious, CondTimedOut, CondReturn, jm, kernel, history
  <2>3. CASE FinishProgress(t)
    BY <2>3 DEF FinishProgress, kernel, history
  <2> QED BY <2>1, <2>2, <2>3
<1> QED BY <1>3, <1>4 DEF Quiet

LEMMA CallIsQuiet ==
  ASSUME IInv, ThreadsBehave, NEW t \in Threads,
         \/ WaitReturns(t) \/ WaitMore(t) \/ SubmitReturns(t) \/ SubmitWaits(t)
         \/ ExportReturns(t) \/ ExportNeedsFence(t) \/ ExportAllocFails(t)
         \/ ExportWaits(t) \/ ExportLooksAgain(t)
  PROVE  Quiet
<1>1. CASE WaitMore(t) \/ SubmitWaits(t) \/ ExportWaits(t)
  BY <1>1, ProgressIsQuiet DEF WaitMore, SubmitWaits, ExportWaits
<1>2. CASE ExportNeedsFence(t) \/ ExportLooksAgain(t)
  BY <1>2 DEF ExportNeedsFence, ExportLooksAgain, Quiet, HandsKept, jm, kernel, history
<1>3. CASE SubmitReturns(t) \/ ExportAllocFails(t)
  <2>1. pc[t] \notin {"lock", "handle"} /\ Return(t) /\ UNCHANGED <<jm, kernel, history>>
    BY <1>3 DEF SubmitReturns, ExportAllocFails, Holds
  <2>2. HandsKept
    BY <2>1, ReturnKeepsHands
  <2> QED BY <2>1, <2>2 DEF Quiet, jm, kernel, history
<1>4. CASE WaitReturns(t) \/ ExportReturns(t)
  <2>1. /\ pc[t] \in {"wait", "export"} /\ Return(t) /\ UNCHANGED <<jm, kernel, broken>>
        /\ \/ UNCHANGED told
           \/ Succeeds(call[t].seqno) /\ told' = told \cup {call[t].seqno}
    BY <1>4 DEF WaitReturns, ExportReturns, Holds
  <2>2. HandsKept
    BY <2>1, ReturnKeepsHands
  <2>3. call[t].seqno >= 1 /\ call[t].seqno \in Nat /\ completed_seqno \in Nat
    BY <2>1 DEF ThreadsBehave, Submitting, SubmittingAt, Readers, IInv, TypeOK, Call
  <2>4. CASE UNCHANGED told
    BY <2>1, <2>2, <2>4 DEF Quiet, jm, kernel
  <2>5. CASE Succeeds(call[t].seqno) /\ told' = told \cup {call[t].seqno}
    <3>1. ~ lost /\ call[t].seqno \in 1 .. completed_seqno
      BY <2>3, <2>5 DEF Succeeds, Completed
    <3> QED BY <2>1, <2>2, <2>5, <3>1 DEF Quiet, jm, kernel
  <2> QED BY <2>1, <2>4, <2>5
<1> QED BY <1>1, <1>2, <1>3, <1>4

(* What a thread does that is not quiet.                                   *)
Loud(t) ==
  \/ PollEvents(t) \/ HandleAuxEvent(t) \/ HandleSubEvent(t) \/ HandleUnknownEvent(t)
  \/ RetireOldest(t) \/ Submit(t) \/ SubmitFails(t)
  \/ ExportTrigger(t) \/ ExportTriggerFails(t) \/ ExportNoFd(t)

LEMMA QuietOrLoud ==
  ASSUME IInv, ThreadsBehave, [Next]_vars
  PROVE  Quiet \/ (\E t \in Threads : Loud(t)) \/ (\E a \in Atoms : EndAtom(a))
<1>1. CASE UNCHANGED vars
  BY <1>1 DEF vars, jm, threads, kernel, history, Quiet, HandsKept
<1>2. CASE \E a \in Atoms : EndAtom(a)
  BY <1>2
<1>3. ASSUME NEW t \in Threads,
             \/ Start(t) \/ CallStep(t) \/ ReaderStep(t)
             \/ Lock(t) \/ CondWoken(t) \/ CondSpurious(t) \/ CondTimedOut(t)
      PROVE  Quiet \/ Loud(t)
  BY <1>3, StartIsQuiet, CallIsQuiet, ReaderIsQuiet DEF CallStep, ReaderStep, Loud
<1> QED BY <1>1, <1>2, <1>3 DEF Next

(* An export that made it past the table of numbers: x is its own.         *)
Exports(t, x) ==
  /\ x \in Atoms /\ atom_use[x] = "FREE"
  /\ \A a \in Atoms : atom_use'[a] = IF a = x THEN "AUX" ELSE atom_use[a]
  /\ \A a \in Atoms : a # x => katom'[a] = katom[a]
  /\ Len(subs') = Len(subs)
  /\ \A i \in 1 .. Len(subs) :
       /\ subs'[i].seqno = subs[i].seqno /\ subs'[i].last = subs[i].last
       /\ subs'[i].atoms = subs[i].atoms /\ subs'[i].waits = subs[i].waits
       /\ subs'[i].done = subs[i].done
  /\ UNCHANGED <<last_seqno, completed_seqno, history>>
  /\ (lost => lost') /\ HandsKept

(* How its trigger fared: armed, not submitted, or refused a sync_file.    *)
Armed(t, x) ==
  LET s == call[t].seqno
  IN /\ s \in 1 .. last_seqno /\ s > completed_seqno /\ ~ lost
     /\ UNCHANGED <<lost, events>>
     /\ Live(x)' /\ katom'[x].kind = "FENCE_TRIGGER" /\ katom'[x].sub = s
     /\ fence' = [fence EXCEPT ![s] = "armed"]
     /\ \A i \in 1 .. Len(subs) :
          /\ ~ subs'[i].fence => ~ subs[i].fence /\ subs[i].seqno # s
          /\ subs[i].seqno = s =>
               /\ ~ subs[i].fence
               /\ Live(subs[i].last) => subs[i].last \in katom'[x].data

NotSubmitted == lost' /\ UNCHANGED <<katom, events, subs, fence>>

NoSyncFile(x) ==
  /\ katom'[x].st = "ended" /\ UNCHANGED <<lost, subs, fence>>
  /\ events' = Append(events, [atom |-> x, code |-> "CANCELLED"])

LEMMA OneNumber ==
  ASSUME IInv, NEW nums \in Allocations(1), Allocate(nums, "AUX")
  PROVE  /\ nums[1] \in Atoms /\ atom_use[nums[1]] = "FREE"
         /\ \A a \in Atoms : atom_use'[a] = IF a = nums[1] THEN "AUX" ELSE atom_use[a]
<1>1. /\ Len(nums) = 1 /\ \A i \in 1 .. 1 : nums[i] \in NumbersOf(nums)
      /\ NumbersOf(nums) \in SUBSET Free
  <2>1. 1 \in Nat
    OBVIOUS
  <2> QED BY <2>1, AllocationsAreFree
<1>2. /\ Len(nums) = 1 /\ nums[1] \in NumbersOf(nums) /\ NumbersOf(nums) \in SUBSET Free
  BY <1>1
<1>3. \A a : a \in NumbersOf(nums) <=> a = nums[1]
  BY <1>2 DEF NumbersOf
<1> QED BY <1>2, <1>3 DEF Allocate, Free

LEMMA ExportSlot ==
  ASSUME IInv, ThreadsBehave, NEW t \in Threads, HasNumber(t), ~ Overtaken(call[t].seqno)
  PROVE  LET s == call[t].seqno
             j == s - Head(subs).seqno + 1
         IN /\ s \in Nat /\ s \in 1 .. last_seqno /\ s > completed_seqno /\ ~ lost
            /\ j \in 1 .. Len(subs) /\ SubOf(s) = subs[j]
            /\ subs[j].seqno = s /\ ~ subs[j].fence
            /\ \A i \in 1 .. Len(subs) : subs[i].seqno = s => i = j
            /\ TriggerAtom(s) \in KAtom /\ pc[t] = "export_alloc"
<1> DEFINE s == call[t].seqno
           j == s - Head(subs).seqno + 1
<1>1. /\ pc[t] = "export_alloc" /\ ~ Completed(s) /\ ~ HasFence(s) /\ ~ lost
  BY DEF HasNumber, Holds, Overtaken
<1>2. /\ s \in Nat /\ s >= 1 /\ s <= last_seqno /\ completed_seqno \in Nat /\ last_seqno \in Nat
  BY <1>1 DEF IInv, TypeOK, Call, CallsAreForSubmitted, ThreadsBehave, Submitting,
              SubmittingAt, Readers
<1>3. s > completed_seqno
  BY <1>1, <1>2 DEF Completed
<1>4. /\ j \in 1 .. Len(subs) /\ SubOf(s) \in Sub /\ SubOf(s).seqno = s
  BY <1>1, <1>2, RingSlot
<1>5. SubOf(s) = subs[j] /\ ~ subs[j].fence
  BY <1>1 DEF SubOf, HasFence
<1>6. TriggerAtom(s) \in KAtom
  <2>1. SubOf(s).last \in Atoms
    BY <1>4 DEF Sub
  <2> QED BY <1>2, <2>1, KNewType DEF TriggerAtom
<1> HIDE DEF s, j
<1>7. \A i \in 1 .. Len(subs) : subs[i].seqno = s => i = j
  BY <1>2, <1>4, <1>5, RingAtoms
<1>8. s \in 1 .. last_seqno
  BY <1>2
<1> QED
  BY <1>1, <1>2, <1>3, <1>4, <1>5, <1>6, <1>7, <1>8 DEF s, j

LEMMA TriggerFacts ==
  ASSUME IInv, ThreadsBehave, NEW t \in Threads, ExportTrigger(t)
  PROVE  \E x : Exports(t, x) /\ Armed(t, x)
<1> DEFINE s == call[t].seqno
           j == s - Head(subs).seqno + 1
<1>1. /\ s \in Nat /\ s \in 1 .. last_seqno /\ s > completed_seqno /\ ~ lost
      /\ j \in 1 .. Len(subs) /\ SubOf(s) = subs[j]
      /\ subs[j].seqno = s /\ ~ subs[j].fence
      /\ \A i \in 1 .. Len(subs) : subs[i].seqno = s => i = j
      /\ TriggerAtom(s) \in KAtom /\ pc[t] = "export_alloc"
  BY ExportSlot DEF ExportTrigger
<1>2. /\ subs' = [subs EXCEPT ![j].fence = TRUE]
      /\ fence' = [fence EXCEPT ![s] = "armed"] /\ Return(t)
      /\ UNCHANGED <<last_seqno, completed_seqno, lost, events, history>>
  BY DEF ExportTrigger
<1>3. PICK nums \in Allocations(1) :
        /\ Allocate(nums, "AUX")
        /\ katom' = Enqueued([a \in {nums[1]} |-> TriggerAtom(s)])
  BY DEF ExportTrigger
<1> DEFINE x == nums[1]
           new == [a \in {x} |-> TriggerAtom(s)]
<1>4. /\ x \in Atoms /\ atom_use[x] = "FREE"
      /\ \A a \in Atoms : atom_use'[a] = IF a = x THEN "AUX" ELSE atom_use[a]
  BY <1>3, OneNumber
<1>5. HandsKept
  BY <1>1, <1>2, ReturnKeepsHands
<1>6. katom \in [Atoms -> KAtom] /\ katom' = Enqueued(new)
      /\ DOMAIN new = {x} /\ new[x] = TriggerAtom(s)
  BY <1>3 DEF IInv, TypeOK
<1> HIDE DEF new, x, s, j
<1>7. \A a \in Atoms : a # x => katom'[a] = katom[a]
  BY <1>6, EnqueuedAtom
<1>8. /\ katom'[x].st = TriggerAtom(s).st /\ katom'[x].kind = TriggerAtom(s).kind
      /\ katom'[x].sub = TriggerAtom(s).sub
      /\ katom'[x].data = {d \in TriggerAtom(s).data : d \in DOMAIN new \/ Live(d)}
  BY <1>1, <1>4, <1>6, EnqueuedAtom
<1>9. /\ TriggerAtom(s).st = "live" /\ TriggerAtom(s).kind = "FENCE_TRIGGER"
      /\ TriggerAtom(s).sub = s /\ TriggerAtom(s).data = {subs[j].last}
  BY <1>1 DEF TriggerAtom, KNew
<1>10. /\ Len(subs') = Len(subs)
       /\ \A i \in 1 .. Len(subs) :
            /\ subs'[i].seqno = subs[i].seqno /\ subs'[i].last = subs[i].last
            /\ subs'[i].atoms = subs[i].atoms /\ subs'[i].waits = subs[i].waits
            /\ subs'[i].done = subs[i].done
            /\ subs'[i].fence = IF i = j THEN TRUE ELSE subs[i].fence
  <2>1. \A i \in 1 .. Len(subs) :
          subs'[i] = IF i = j THEN [subs[j] EXCEPT !.fence = TRUE] ELSE subs[i]
    BY <1>1, <1>2, RingAtoms
  <2>2. subs[j] \in Sub
    BY <1>1, RingAtoms
  <2>3. /\ [subs[j] EXCEPT !.fence = TRUE].seqno = subs[j].seqno
        /\ [subs[j] EXCEPT !.fence = TRUE].last = subs[j].last
        /\ [subs[j] EXCEPT !.fence = TRUE].atoms = subs[j].atoms
        /\ [subs[j] EXCEPT !.fence = TRUE].waits = subs[j].waits
        /\ [subs[j] EXCEPT !.fence = TRUE].done = subs[j].done
        /\ [subs[j] EXCEPT !.fence = TRUE].fence = TRUE
    BY <2>2 DEF Sub
  <2>4. Len(subs') = Len(subs)
    BY <1>2, RingAtoms
  <2> QED BY <2>1, <2>3, <2>4
<1>11. Exports(t, x)
  BY <1>2, <1>4, <1>5, <1>7, <1>10 DEF Exports
<1>12. Armed(t, x)
  <2>1. Live(x)' /\ katom'[x].kind = "FENCE_TRIGGER" /\ katom'[x].sub = s
    BY <1>8, <1>9 DEF Live
  <2>2. \A i \in 1 .. Len(subs) :
          /\ ~ subs'[i].fence => ~ subs[i].fence /\ subs[i].seqno # s
          /\ subs[i].seqno = s =>
               /\ ~ subs[i].fence
               /\ Live(subs[i].last) => subs[i].last \in katom'[x].data
    BY <1>1, <1>8, <1>9, <1>10
  <2> QED BY <1>1, <1>2, <2>1, <2>2 DEF Armed, s
<1> QED BY <1>11, <1>12

LEMMA TriggerFailsFacts ==
  ASSUME IInv, ThreadsBehave, NEW t \in Threads, ExportTriggerFails(t)
  PROVE  \E x : Exports(t, x) /\ NotSubmitted
<1>1. PICK nums \in Allocations(1) : Allocate(nums, "AUX")
  BY DEF ExportTriggerFails
<1>2. /\ lost' /\ Return(t) /\ pc[t] = "export_alloc"
      /\ UNCHANGED <<subs, last_seqno, completed_seqno, katom, events, fence, history>>
  BY DEF ExportTriggerFails, HasNumber, Holds, kernel
<1>3. HandsKept
  BY <1>2, ReturnKeepsHands
<1>4. Exports(t, nums[1])
  BY <1>1, <1>2, <1>3, OneNumber DEF Exports
<1> QED BY <1>2, <1>4 DEF NotSubmitted

LEMMA NoFdFacts ==
  ASSUME IInv, ThreadsBehave, NEW t \in Threads, ExportNoFd(t)
  PROVE  \E x : Exports(t, x) /\ NoSyncFile(x)
<1>1. PICK nums \in Allocations(1) :
        /\ Allocate(nums, "AUX")
        /\ katom' = [katom EXCEPT ![nums[1]] =
                       [TriggerAtom(call[t].seqno) EXCEPT
                          !.st = "ended", !.data = {}, !.code = "CANCELLED"]]
        /\ events' = Append(events, [atom |-> nums[1], code |-> "CANCELLED"])
  BY DEF ExportNoFd
<1>2. /\ nums[1] \in Atoms /\ atom_use[nums[1]] = "FREE"
      /\ \A a \in Atoms : atom_use'[a] = IF a = nums[1] THEN "AUX" ELSE atom_use[a]
  BY <1>1, OneNumber
<1>3. UNCHANGED <<subs, last_seqno, completed_seqno, lost, call, fence, history>>
  BY DEF ExportNoFd
<1>4. TriggerAtom(call[t].seqno) \in KAtom
  BY ExportSlot DEF ExportNoFd
<1>5. [TriggerAtom(call[t].seqno) EXCEPT
         !.st = "ended", !.data = {}, !.code = "CANCELLED"].st = "ended"
  BY <1>4 DEF KAtom
<1>6. katom \in [Atoms -> KAtom]
  BY DEF IInv, TypeOK
<1>7. katom'[nums[1]].st = "ended" /\ \A a \in Atoms : a # nums[1] => katom'[a] = katom[a]
  BY <1>1, <1>2, <1>5, <1>6
<1>8. HandsKept
  BY <1>3 DEF HandsKept
<1>9. Exports(t, nums[1])
  BY <1>2, <1>3, <1>7, <1>8 DEF Exports
<1>10. NoSyncFile(nums[1])
  BY <1>1, <1>3, <1>7 DEF NoSyncFile
<1> QED BY <1>9, <1>10

(* No atom ends in these steps, and none starts but a trigger.             *)
LEMMA QuietRests == ASSUME IInv, Quiet PROVE Rests
BY DEF Quiet, Rests, Live

LEMMA ExportRests ==
  ASSUME IInv, NEW t \in Threads, NEW x, Exports(t, x),
         Armed(t, x) \/ NotSubmitted \/ NoSyncFile(x), ~ Live(x)
  PROVE  Rests
<1>1. Live(x)' => katom'[x].kind = "FENCE_TRIGGER"
  BY DEF Armed, NotSubmitted, NoSyncFile, Live, Exports
<1> QED BY <1>1 DEF Exports, Rests, Live

LEMMA PollRests ==
  ASSUME IInv, Places, NEW t \in Threads, PollEvents(t)
  PROVE  Rests
<1> DEFINE n == IF Len(events) < MaxRead THEN Len(events) ELSE MaxRead
           read == {events[i].atom : i \in 1 .. n}
<1>1. /\ katom' = [a \in Atoms |-> IF a \in read THEN KUnused(katom[a].code) ELSE katom[a]]
      /\ UNCHANGED <<subs, atom_use, last_seqno, lost>>
  BY DEF PollEvents, jm
<1>2. n \in Nat /\ n <= Len(events)
  BY EventTypes, BoundsAssumption DEF IInv
<1>3. \A a \in read : katom[a].st = "ended"
  BY <1>2 DEF Places, EventsAreEnded
<1> HIDE DEF read
<1>4. \A a \in Atoms : Live(a)' => Live(a) /\ katom'[a] = katom[a]
  BY <1>1 DEF Live, KUnused, KNew
<1>5. \A a \in Atoms : Live(a) => katom'[a] = katom[a]
  BY <1>1, <1>3 DEF Live
<1> QED BY <1>1, <1>4, <1>5 DEF Rests

LEMMA HandlingRests ==
  ASSUME IInv, Places, NEW t \in Threads,
         HandleAuxEvent(t) \/ HandleSubEvent(t) \/ HandleUnknownEvent(t)
  PROVE  Rests
<1>1. PICK ev \in Event :
        /\ TakeEvent(t, ev) /\ (lost => lost')
        /\ \A a \in Atoms : atom_use'[a] = atom_use[a] \/ (a = ev.atom /\ atom_use[a] = "AUX")
        /\ Len(subs') = Len(subs)
        /\ \A i \in 1 .. Len(subs) :
             /\ subs'[i].seqno = subs[i].seqno /\ subs'[i].last = subs[i].last
             /\ subs'[i].atoms = subs[i].atoms /\ subs'[i].waits = subs[i].waits
  <2>1. CASE HandleAuxEvent(t)
    <3>1. PICK ev \in Event : /\ TakeEvent(t, ev) /\ IsAux(ev.atom) /\ (lost => lost')
                              /\ FreeAtoms({ev.atom}) /\ UNCHANGED subs
      BY <2>1 DEF HandleAuxEvent
    <3>2. \A a \in Atoms : atom_use'[a] = atom_use[a] \/ (a = ev.atom /\ atom_use[a] = "AUX")
      BY <3>1 DEF FreeAtoms, IsAux
    <3> QED BY <3>1, <3>2
  <2>2. CASE HandleSubEvent(t)
    <3>1. PICK ev \in Event : /\ TakeEvent(t, ev) /\ (lost => lost') /\ UNCHANGED atom_use
             /\ \E i \in FindSub(ev.atom) :
                  subs' = [subs EXCEPT ![i].done = @ \/ Completes(subs[i], ev.atom)]
      BY <2>2 DEF HandleSubEvent
    <3>2. PICK i \in 1 .. Len(subs) :
            subs' = [subs EXCEPT ![i].done = @ \/ Completes(subs[i], ev.atom)]
      BY <3>1 DEF FindSub
    <3>3. /\ Len(subs') = Len(subs)
          /\ \A j \in 1 .. Len(subs) :
               /\ subs'[j].seqno = subs[j].seqno /\ subs'[j].last = subs[j].last
               /\ subs'[j].atoms = subs[j].atoms /\ subs'[j].waits = subs[j].waits
      BY <3>2, RingAtoms DEF Sub
    <3> QED BY <3>1, <3>3
  <2>3. CASE HandleUnknownEvent(t)
    BY <2>3 DEF HandleUnknownEvent
  <2> QED BY <2>1, <2>2, <2>3
<1>2. /\ UNCHANGED <<katom, last_seqno>> /\ call[t].ev # <<>> /\ ev = Head(call[t].ev)
  BY <1>1 DEF TakeEvent, kernel
<1>3. katom[ev.atom].st = "unused"
  <2>1. call[t].ev \in Seq(Event)
    BY EventTypes DEF IInv
  <2>2. 1 \in 1 .. Len(call[t].ev) /\ ev = call[t].ev[1]
    BY <1>2, <2>1
  <2> QED BY <2>2 DEF Places, HandsAreUnused
<1> QED BY <1>1, <1>2, <1>3 DEF Rests, Live

(* Where these steps leave the events.                                     *)
LEMMA QuietKeepsPlaces ==
  ASSUME IInv, IInv', Places, Quiet
  PROVE  Places'
<1>1. Takes({})
  BY DEF Takes, Quiet
<1> QED BY <1>1, TakesKeepsPlaces

LEMMA ExportKeepsPlaces ==
  ASSUME IInv, IInv', Places, NEW t \in Threads, NEW x, Exports(t, x),
         Armed(t, x) \/ NotSubmitted \/ NoSyncFile(x)
  PROVE  Places' /\ ~ Live(x)
<1>1. x \in Free /\ x \in Atoms /\ katom[x].st = "unused" /\ ~ InHand(x)
  BY FreeIdle DEF Exports, Free, Places, IInv
<1>2. CASE Armed(t, x) \/ NotSubmitted
  <2>1. /\ katom'[x].st \in {"live", "unused"} /\ UNCHANGED events
    BY <1>1, <1>2 DEF Armed, NotSubmitted, Live
  <2>2. Takes({x})
    BY <1>1, <2>1 DEF Takes, Exports
  <2> QED BY <1>1, <2>2, TakesKeepsPlaces DEF Live
<1>3. CASE NoSyncFile(x)
  <2>1. [atom |-> x, code |-> "CANCELLED"].atom = x
    OBVIOUS
  <2>2. \A i \in 1 .. Len(subs) : x \notin subs[i].atoms
    BY RingAtoms DEF Exports
  <2>3. \A a \in Atoms : atom_use'[a] = "FREE" => a # x /\ atom_use[a] = "FREE"
    BY DEF Exports
  <2>4. \A i \in 1 .. Len(subs) : x \in subs[i].atoms =>
           /\ ~ subs[i].done
           /\ x = subs[i].last \/ Live(subs[i].last)
    BY <2>2
  <2>5. \A a \in Atoms : a # x => katom'[a].st = katom[a].st
    BY DEF Exports
  <2>6. /\ events' = Append(events, [atom |-> x, code |-> "CANCELLED"]) /\ HandsKept
        /\ UNCHANGED subs /\ katom[x].st # "ended" /\ katom'[x].st = "ended"
    BY <1>1, <1>3 DEF NoSyncFile, Exports
  <2> QED BY <1>1, <2>1, <2>3, <2>4, <2>5, <2>6, EventJoins DEF Joins, Live
<1> QED BY <1>2, <1>3

LEMMA SubmitKeepsPlaces ==
  ASSUME IInv, IInv', ThreadsBehave, Places, NEW t \in Threads, Submit(t) \/ SubmitFails(t)
  PROVE  Places'
<1>1. PICK w \in BOOLEAN, nums \in Seq(Atoms), m \in Nat :
        /\ NumbersOf(nums) \in SUBSET Free /\ m \in 0 .. Len(nums)
        /\ Took(katom', nums, m, w)
        /\ \A a \in Atoms : atom_use'[a] = IF a \in NumbersOf(nums) THEN "SUB" ELSE atom_use[a]
        /\ pc[t] = "submit" /\ Return(t) /\ UNCHANGED events
        /\ \/ UNCHANGED subs
           \/ /\ Len(subs') = Len(subs) + 1 /\ \A i \in 1 .. Len(subs) : subs'[i] = subs[i]
              /\ subs'[Len(subs) + 1].atoms = NumbersOf(nums)
              /\ subs'[Len(subs) + 1].last = nums[Len(nums)]
              /\ ~ subs'[Len(subs) + 1].done
              /\ Len(nums) >= 1
  <2>1. CASE Submit(t)
    <3>0. PICK n \in Nat, w \in BOOLEAN, nums \in Seq(Atoms) : Submits(t, n, w, nums)
      BY <2>1, SubmitFacts
    <3>1. /\ Chosen(nums, n, w) /\ FirstJob(w) \in 1 .. Len(nums)
          /\ Took(katom', nums, Len(nums), w)
          /\ \A a \in Atoms : atom_use'[a] = IF a \in NumbersOf(nums) THEN "SUB" ELSE atom_use[a]
          /\ Len(subs') = Len(subs) + 1
          /\ \A i \in 1 .. Len(subs) : subs'[i] = subs[i]
          /\ subs'[Len(subs) + 1] = [seqno |-> last_seqno + 1, last |-> nums[Len(nums)],
                                     done |-> FALSE, fence |-> FALSE,
                                     atoms |-> NumbersOf(nums),
                                     waits |-> IF w THEN {nums[1]} ELSE {}]
          /\ pc[t] = "submit" /\ Return(t) /\ UNCHANGED events
      BY <3>0 DEF Submits
    <3>2. /\ subs'[Len(subs) + 1].atoms = NumbersOf(nums)
          /\ subs'[Len(subs) + 1].last = nums[Len(nums)]
          /\ ~ subs'[Len(subs) + 1].done
      BY <3>1
    <3>3. Len(nums) \in Nat /\ Len(nums) \in 0 .. Len(nums) /\ Len(nums) >= 1
      BY <3>1
    <3> QED BY <3>1, <3>2, <3>3 DEF Chosen
  <2>2. CASE SubmitFails(t)
    BY <2>2, SubmitFailsFacts DEF Chosen
  <2> QED BY <2>1, <2>2
<1> DEFINE N == NumbersOf(nums)
<1>2. Sent(nums, m) \subseteq N
  BY <1>1 DEF Sent, NumbersOf
<1>3. \A a \in Atoms : a \notin N => katom'[a].st = katom[a].st /\ atom_use'[a] = atom_use[a]
  BY <1>1, <1>2 DEF Took
<1>4. \A a \in N : katom'[a].st \in {"live", "unused"} /\ atom_use'[a] # "FREE"
  <2> SUFFICES ASSUME NEW a \in N
               PROVE  katom'[a].st \in {"live", "unused"} /\ atom_use'[a] # "FREE"
    OBVIOUS
  <2>1. a \in Free /\ a \in Atoms /\ katom[a].st = "unused"
    BY <1>1, FreeIdle DEF Free, Places, IInv
  <2>2. a \in Sent(nums, m) => katom'[a].st = "live"
    BY <1>1 DEF Took, Sent, LiveIn
  <2>3. a \notin Sent(nums, m) => katom'[a].st = "unused"
    BY <1>1, <2>1 DEF Took
  <2> QED BY <1>1, <2>1, <2>2, <2>3
<1>5. HandsKept
  BY <1>1, ReturnKeepsHands
<1>6. \A i \in 1 .. Len(subs') :
       \/ /\ i \in 1 .. Len(subs)
          /\ subs'[i].last = subs[i].last /\ subs'[i].atoms = subs[i].atoms
          /\ subs'[i].done = subs[i].done
       \/ subs'[i].atoms \subseteq N /\ subs'[i].last \in N /\ ~ subs'[i].done
  <2>1. CASE UNCHANGED subs
    BY <2>1
  <2>2. CASE /\ Len(subs') = Len(subs) + 1 /\ \A i \in 1 .. Len(subs) : subs'[i] = subs[i]
             /\ subs'[Len(subs) + 1].atoms = N
             /\ subs'[Len(subs) + 1].last = nums[Len(nums)]
             /\ ~ subs'[Len(subs) + 1].done
             /\ Len(nums) >= 1
    <3>1. nums[Len(nums)] \in N
      BY <2>2 DEF NumbersOf
    <3>2. \A i \in 1 .. Len(subs') : i \in 1 .. Len(subs) \/ i = Len(subs) + 1
      BY <2>2, RingAtoms
    <3> QED BY <2>2, <3>1, <3>2
  <2> QED BY <1>1, <2>1, <2>2
<1>7. Takes(N)
  BY <1>1, <1>3, <1>4, <1>5, <1>6 DEF Takes
<1> QED BY <1>7, TakesKeepsPlaces

-----------------------------------------------------------------------------
(* The sync_files                                                          *)

LEMMA FenceTypes ==
  ASSUME IInv, ThreadsBehave
  PROVE  /\ fence \in [Seqnos -> {"none", "armed", "signalled"}]
         /\ last_seqno \in Nat /\ \A s \in 1 .. last_seqno : s \in Seqnos
         /\ \A i \in 1 .. Len(subs) : subs[i].seqno \in 1 .. last_seqno
         /\ \A i, j \in 1 .. Len(subs) : subs[i].seqno = subs[j].seqno => i = j
<1>1. /\ fence \in [Seqnos -> {"none", "armed", "signalled"}] /\ last_seqno \in Nat
      /\ completed_seqno \in Nat /\ last_seqno <= MaxSubmits /\ MaxSubmits \in Nat
      /\ last_seqno = completed_seqno + Len(subs)
  BY BoundsAssumption
     DEF IInv, TypeOK, ThreadsBehave, RingHoldsTheSeqnosInFlight
<1>2. \A s \in 1 .. last_seqno : s \in Seqnos
  BY <1>1 DEF Seqnos
<1>3. \A i \in 1 .. Len(subs) : subs[i].seqno = completed_seqno + i
  BY RingAtoms
<1> QED BY <1>1, <1>2, <1>3, RingAtoms

(* No trigger is new, no sync_file changes, and the ring keeps its entries *)
(* or gets one for a new submission.                                       *)
LEMMA TriggersStand ==
  ASSUME IInv, ThreadsBehave, ThreadsBehave', IInv', TriggersAreOne, UNCHANGED fence,
         last_seqno' \in {last_seqno, last_seqno + 1},
         \A a \in Atoms : Live(a)' /\ katom'[a].kind = "FENCE_TRIGGER" =>
           /\ Live(a) /\ katom[a].kind = "FENCE_TRIGGER" /\ katom'[a].sub = katom[a].sub
           /\ \A d \in katom[a].data : Live(d)' => d \in katom'[a].data,
         \A i \in 1 .. Len(subs') :
           \/ \E j \in 1 .. Len(subs) :
                /\ subs'[i].seqno = subs[j].seqno /\ subs'[i].last = subs[j].last
                /\ ~ subs'[i].fence => ~ subs[j].fence
                /\ katom'[subs[j].last].st = "live" => Live(subs[j].last)
           \/ subs'[i].seqno = last_seqno + 1 /\ last_seqno' = last_seqno + 1
  PROVE  TriggersAreOne'
<1>1. /\ fence \in [Seqnos -> {"none", "armed", "signalled"}]
      /\ last_seqno \in Nat /\ last_seqno' \in Nat
      /\ last_seqno' = last_seqno + 1 => last_seqno + 1 \in Seqnos
  <2>1. last_seqno' <= MaxSubmits /\ MaxSubmits \in Nat
    BY BoundsAssumption DEF ThreadsBehave
  <2> QED BY <2>1, FenceTypes DEF Seqnos
<1>2. \A a \in Atoms : Live(a) /\ katom[a].kind = "FENCE_TRIGGER" =>
        /\ katom[a].sub \in 1 .. last_seqno
        /\ fence[katom[a].sub] = "armed"
        /\ \A i \in 1 .. Len(subs) : subs[i].seqno = katom[a].sub /\ Live(subs[i].last)
                                     => subs[i].last \in katom[a].data
  BY DEF TriggersAreOne
<1>3. ASSUME NEW a \in Atoms, Live(a)', katom'[a].kind = "FENCE_TRIGGER"
      PROVE  /\ katom'[a].sub \in 1 .. last_seqno'
             /\ fence'[katom'[a].sub] = "armed"
             /\ \A i \in 1 .. Len(subs') :
                  subs'[i].seqno = katom'[a].sub /\ katom'[subs'[i].last].st = "live"
                  => subs'[i].last \in katom'[a].data
  <2>1. /\ Live(a) /\ katom[a].kind = "FENCE_TRIGGER" /\ katom'[a].sub = katom[a].sub
        /\ \A d \in katom[a].data : Live(d)' => d \in katom'[a].data
    BY <1>3
  <2>2. /\ katom'[a].sub \in 1 .. last_seqno' /\ fence'[katom'[a].sub] = "armed"
        /\ katom'[a].sub # last_seqno + 1
    BY <1>1, <1>2, <2>1
  <2>3. ASSUME NEW i \in 1 .. Len(subs'), subs'[i].seqno = katom'[a].sub,
               katom'[subs'[i].last].st = "live"
        PROVE  subs'[i].last \in katom'[a].data
    <3>1. PICK j \in 1 .. Len(subs) :
            /\ subs'[i].seqno = subs[j].seqno /\ subs'[i].last = subs[j].last
            /\ katom'[subs[j].last].st = "live" => Live(subs[j].last)
      BY <2>2, <2>3
    <3>2. subs[j].last \in katom[a].data
      BY <1>2, <2>1, <2>3, <3>1
    <3> QED BY <2>1, <2>3, <3>1, <3>2 DEF Live
  <2> QED BY <2>2, <2>3
<1>4. OneTriggerPerSubmission'
  BY DEF TriggersAreOne, OneTriggerPerSubmission
<1>5. \A s \in Seqnos : fence'[s] # "none" => s <= last_seqno'
  BY <1>1 DEF TriggersAreOne, Seqnos
<1>6. \A i \in 1 .. Len(subs') : ~ subs'[i].fence => fence'[subs'[i].seqno] = "none"
  <2> SUFFICES ASSUME NEW i \in 1 .. Len(subs'), ~ subs'[i].fence
               PROVE  fence[subs'[i].seqno] = "none"
    OBVIOUS
  <2>1. CASE \E j \in 1 .. Len(subs) : subs'[i].seqno = subs[j].seqno /\ ~ subs[j].fence
    BY <2>1 DEF TriggersAreOne
  <2>2. CASE subs'[i].seqno = last_seqno + 1 /\ last_seqno' = last_seqno + 1
    <3>1. last_seqno + 1 \in Seqnos /\ ~ (last_seqno + 1 <= last_seqno)
      BY <1>1, <2>2
    <3> QED BY <2>2, <3>1 DEF TriggersAreOne
  <2> QED BY <2>1, <2>2
<1> QED
  BY <1>3, <1>4, <1>5, <1>6 DEF TriggersAreOne, Live

LEMMA RestsKeepsTriggers ==
  ASSUME IInv, ThreadsBehave, ThreadsBehave', IInv', TriggersAreOne, Rests, UNCHANGED fence,
         \A a \in Atoms : Live(a)' => Live(a),
         \A i \in 1 .. Len(subs) : ~ subs'[i].fence => ~ subs[i].fence
  PROVE  TriggersAreOne'
<1>1. \A a \in Atoms : Live(a)' => katom'[a] = katom[a]
  BY DEF Rests
<1>2. \A i \in 1 .. Len(subs') :
        \E j \in 1 .. Len(subs) :
          /\ subs'[i].seqno = subs[j].seqno /\ subs'[i].last = subs[j].last
          /\ ~ subs'[i].fence => ~ subs[j].fence
          /\ katom'[subs[j].last].st = "live" => Live(subs[j].last)
  BY RingAtoms DEF Rests, Live
<1>3. last_seqno' \in {last_seqno, last_seqno + 1}
  BY DEF Rests
<1>4. \A a \in Atoms : Live(a)' /\ katom'[a].kind = "FENCE_TRIGGER" =>
           /\ Live(a) /\ katom[a].kind = "FENCE_TRIGGER" /\ katom'[a].sub = katom[a].sub
           /\ \A d \in katom[a].data : Live(d)' => d \in katom'[a].data
  BY <1>1
<1> QED BY <1>2, <1>3, <1>4, TriggersStand

LEMMA RetireKeepsTriggers ==
  ASSUME IInv, ThreadsBehave, ThreadsBehave', IInv', TriggersAreOne,
         NEW t \in Threads, RetireOldest(t)
  PROVE  TriggersAreOne'
<1>1. /\ UNCHANGED <<last_seqno, katom, fence>>
      /\ Len(subs') = Len(subs) - 1 /\ Len(subs) \in Nat
      /\ \A i \in 1 .. Len(subs') : subs'[i] = subs[i + 1] /\ i + 1 \in 1 .. Len(subs)
  BY RetireFacts, RingAtoms
<1>2. \A i \in 1 .. Len(subs') :
        \E j \in 1 .. Len(subs) :
          /\ subs'[i].seqno = subs[j].seqno /\ subs'[i].last = subs[j].last
          /\ ~ subs'[i].fence => ~ subs[j].fence
          /\ katom'[subs[j].last].st = "live" => Live(subs[j].last)
  <2> SUFFICES ASSUME NEW i \in 1 .. Len(subs')
               PROVE  \E j \in 1 .. Len(subs) :
                        /\ subs'[i].seqno = subs[j].seqno /\ subs'[i].last = subs[j].last
                        /\ ~ subs'[i].fence => ~ subs[j].fence
                        /\ katom'[subs[j].last].st = "live" => Live(subs[j].last)
    OBVIOUS
  <2>1. PICK j \in 1 .. Len(subs) : subs'[i] = subs[j]
    BY <1>1
  <2> QED BY <1>1, <2>1 DEF Live
<1>3. last_seqno' \in {last_seqno, last_seqno + 1} /\ UNCHANGED fence
  BY <1>1
<1>4. \A a \in Atoms : Live(a)' /\ katom'[a].kind = "FENCE_TRIGGER" =>
           /\ Live(a) /\ katom[a].kind = "FENCE_TRIGGER" /\ katom'[a].sub = katom[a].sub
           /\ \A d \in katom[a].data : Live(d)' => d \in katom'[a].data
  BY <1>1 DEF Live
<1> QED BY <1>2, <1>3, <1>4, TriggersStand

(* What the kernel took, from a submission that came through or did not.   *)
LEMMA SubmitTook ==
  ASSUME IInv, NEW t \in Threads, Submit(t) \/ SubmitFails(t)
  PROVE  \E w \in BOOLEAN, nums \in Seq(Atoms), m \in Nat :
           /\ NumbersOf(nums) \in SUBSET Free /\ m \in 0 .. Len(nums)
           /\ Took(katom', nums, m, w)
           /\ (lost => lost') /\ pc[t] = "submit" /\ Return(t)
           /\ UNCHANGED <<completed_seqno, events, fence, history>>
           /\ \/ UNCHANGED <<subs, last_seqno>>
              \/ /\ Len(subs') = Len(subs) + 1 /\ \A i \in 1 .. Len(subs) : subs'[i] = subs[i]
                 /\ subs'[Len(subs) + 1].seqno = last_seqno + 1
                 /\ last_seqno' = last_seqno + 1
<1>1. CASE Submit(t)
  <2>0. PICK n \in Nat, w \in BOOLEAN, nums \in Seq(Atoms) : Submits(t, n, w, nums)
    BY <1>1, SubmitFacts
  <2>1. /\ Chosen(nums, n, w)
        /\ Took(katom', nums, Len(nums), w)
        /\ Len(subs') = Len(subs) + 1
        /\ \A i \in 1 .. Len(subs) : subs'[i] = subs[i]
        /\ subs'[Len(subs) + 1] = [seqno |-> last_seqno + 1, last |-> nums[Len(nums)],
                                   done |-> FALSE, fence |-> FALSE,
                                   atoms |-> NumbersOf(nums),
                                   waits |-> IF w THEN {nums[1]} ELSE {}]
        /\ last_seqno' = last_seqno + 1 /\ ~ lost /\ pc[t] = "submit" /\ Return(t)
        /\ UNCHANGED <<completed_seqno, lost, events, fence, history>>
    BY <2>0 DEF Submits
  <2>2. subs'[Len(subs) + 1].seqno = last_seqno + 1
    BY <2>1
  <2>3. Len(nums) \in Nat /\ Len(nums) \in 0 .. Len(nums)
    BY <2>1
  <2>4. NumbersOf(nums) \in SUBSET Free
    BY <2>1 DEF Chosen
  <2> QED BY <2>1, <2>2, <2>3, <2>4
<1>2. CASE SubmitFails(t)
  BY <1>2, SubmitFailsFacts DEF Chosen
<1> QED BY <1>1, <1>2

LEMMA SubmitKeepsTriggers ==
  ASSUME IInv, ThreadsBehave, ThreadsBehave', IInv', Places, TriggersAreOne,
         NEW t \in Threads, Submit(t) \/ SubmitFails(t)
  PROVE  TriggersAreOne'
<1>1. PICK w \in BOOLEAN, nums \in Seq(Atoms), m \in Nat :
           /\ NumbersOf(nums) \in SUBSET Free /\ m \in 0 .. Len(nums)
           /\ Took(katom', nums, m, w) /\ UNCHANGED fence
           /\ \/ UNCHANGED <<subs, last_seqno>>
              \/ /\ Len(subs') = Len(subs) + 1 /\ \A i \in 1 .. Len(subs) : subs'[i] = subs[i]
                 /\ subs'[Len(subs) + 1].seqno = last_seqno + 1
                 /\ last_seqno' = last_seqno + 1
  BY SubmitTook
<1>2. \A a \in Sent(nums, m) : a \in Free /\ katom'[a].kind # "FENCE_TRIGGER"
  <2>1. \A k \in 1 .. m : k \in 1 .. Len(nums)
    BY <1>1
  <2> QED BY <1>1, <2>1 DEF Sent, Took, NumbersOf
<1>3. \A a \in Atoms : a \notin Sent(nums, m) => katom'[a] = katom[a]
  BY <1>1 DEF Took
<1>4. \A j \in 1 .. Len(subs) : subs[j].last \in Atoms /\ subs[j].last \notin Sent(nums, m)
  BY <1>2, RingAtoms DEF Free
<1>5. \A i \in 1 .. Len(subs') :
        \/ \E j \in 1 .. Len(subs) :
             /\ subs'[i].seqno = subs[j].seqno /\ subs'[i].last = subs[j].last
             /\ ~ subs'[i].fence => ~ subs[j].fence
             /\ katom'[subs[j].last].st = "live" => Live(subs[j].last)
        \/ subs'[i].seqno = last_seqno + 1 /\ last_seqno' = last_seqno + 1
  <2> SUFFICES ASSUME NEW i \in 1 .. Len(subs')
               PROVE \/ i \in 1 .. Len(subs) /\ subs'[i] = subs[i]
                     \/ subs'[i].seqno = last_seqno + 1 /\ last_seqno' = last_seqno + 1
    BY <1>3, <1>4 DEF Live
  <2> QED BY <1>1, RingAtoms
<1>6. \A a \in Atoms : Live(a)' /\ katom'[a].kind = "FENCE_TRIGGER" =>
           /\ Live(a) /\ katom[a].kind = "FENCE_TRIGGER" /\ katom'[a].sub = katom[a].sub
           /\ \A d \in katom[a].data : Live(d)' => d \in katom'[a].data
  BY <1>2, <1>3 DEF Live
<1>7. last_seqno' \in {last_seqno, last_seqno + 1} /\ UNCHANGED fence
  BY <1>1
<1> QED BY <1>5, <1>6, <1>7, TriggersStand

LEMMA ArmedKeepsTriggers ==
  ASSUME IInv, ThreadsBehave, IInv', TriggersAreOne, NEW t \in Threads, NEW x,
         Exports(t, x), Armed(t, x), ~ Live(x)
  PROVE  TriggersAreOne'
<1>1. PICK s \in Seqnos : s = call[t].seqno
  BY FenceTypes DEF Armed
<1>2. /\ fence \in [Seqnos -> {"none", "armed", "signalled"}]
      /\ fence' = [fence EXCEPT ![s] = "armed"] /\ s \in 1 .. last_seqno
      /\ last_seqno' = last_seqno /\ last_seqno \in Nat
      /\ Len(subs') = Len(subs) /\ Len(subs) \in Nat
  BY <1>1, FenceTypes, RingAtoms DEF Armed, Exports
<1>3. /\ x \in Atoms /\ Live(x)' /\ katom'[x].kind = "FENCE_TRIGGER" /\ katom'[x].sub = s
      /\ \A a \in Atoms : a # x => katom'[a] = katom[a]
  BY <1>1 DEF Armed, Exports
<1>4. \A i \in 1 .. Len(subs) :
        /\ subs'[i].seqno = subs[i].seqno /\ subs'[i].last = subs[i].last
        /\ subs[i].last \in Atoms /\ subs[i].last # x
        /\ ~ subs'[i].fence => ~ subs[i].fence /\ subs[i].seqno # s
        /\ subs[i].seqno = s =>
             /\ ~ subs[i].fence
             /\ katom[subs[i].last].st = "live" => subs[i].last \in katom'[x].data
  BY <1>1, RingAtoms DEF Armed, Exports, Live
<1>5. PICK j \in 1 .. Len(subs) : subs[j].seqno = s
  <2>1. last_seqno = completed_seqno + Len(subs) /\ s > completed_seqno
        /\ completed_seqno \in Nat /\ s \in Nat
    BY <1>1, <1>2 DEF IInv, TypeOK, RingHoldsTheSeqnosInFlight, Armed
  <2>2. s - completed_seqno \in 1 .. Len(subs)
    BY <1>2, <2>1
  <2>3. subs[s - completed_seqno].seqno = completed_seqno + (s - completed_seqno)
    BY <2>2, RingAtoms
  <2> QED BY <2>1, <2>2, <2>3
<1>6. fence[s] = "none"
  BY <1>4, <1>5 DEF TriggersAreOne
<1>7. \A a \in Atoms : Live(a) /\ katom[a].kind = "FENCE_TRIGGER" =>
        /\ katom[a].sub \in 1 .. last_seqno /\ katom[a].sub # s
        /\ fence[katom[a].sub] = "armed" /\ katom[a].sub \in Seqnos
        /\ \A i \in 1 .. Len(subs) : subs[i].seqno = katom[a].sub /\ katom[subs[i].last].st = "live"
                                     => subs[i].last \in katom[a].data
  BY <1>6, FenceTypes DEF TriggersAreOne, Live
<1>8. ASSUME NEW a \in Atoms, katom'[a].st = "live", katom'[a].kind = "FENCE_TRIGGER"
      PROVE  /\ katom'[a].sub \in 1 .. last_seqno'
             /\ fence'[katom'[a].sub] = "armed"
             /\ \A i \in 1 .. Len(subs') :
                  subs'[i].seqno = katom'[a].sub /\ katom'[subs'[i].last].st = "live"
                  => subs'[i].last \in katom'[a].data
  <2>1. CASE a = x
    BY <1>2, <1>3, <1>4, <2>1
  <2>2. CASE a # x
    <3>1. Live(a) /\ katom'[a] = katom[a]
      BY <1>3, <1>8, <2>2 DEF Live
    <3>2. /\ katom[a].sub \in 1 .. last_seqno /\ katom[a].sub # s
          /\ fence[katom[a].sub] = "armed" /\ katom[a].sub \in Seqnos
      BY <1>7, <1>8, <3>1
    <3>3. \A i \in 1 .. Len(subs) : subs[i].seqno = katom[a].sub /\ katom[subs[i].last].st = "live"
                                     => subs[i].last \in katom[a].data
      BY <1>7, <1>8, <3>1
    <3>4. \A i \in 1 .. Len(subs) : katom'[subs'[i].last] = katom[subs[i].last]
      BY <1>3, <1>4
    <3> QED BY <1>2, <1>4, <3>1, <3>2, <3>3, <3>4
  <2> QED BY <2>1, <2>2
<1>9. \A a, b \in Atoms :
        /\ katom'[a].st = "live" /\ katom'[a].kind = "FENCE_TRIGGER"
        /\ katom'[b].st = "live" /\ katom'[b].kind = "FENCE_TRIGGER"
        /\ katom'[a].sub = katom'[b].sub
        => a = b
  <2>1. \A a \in Atoms : katom'[a].st = "live" /\ katom'[a].kind = "FENCE_TRIGGER" /\ a # x =>
          /\ Live(a) /\ katom[a].kind = "FENCE_TRIGGER"
          /\ katom'[a].sub = katom[a].sub /\ katom'[a].sub # s
    BY <1>3, <1>7 DEF Live
  <2>2. \A a, b \in Atoms :
          /\ Live(a) /\ katom[a].kind = "FENCE_TRIGGER"
          /\ Live(b) /\ katom[b].kind = "FENCE_TRIGGER"
          /\ katom[a].sub = katom[b].sub
          => a = b
    BY DEF TriggersAreOne, OneTriggerPerSubmission
  <2> QED BY <1>3, <2>1, <2>2
<1>10. \A r \in Seqnos : fence'[r] # "none" => r <= last_seqno'
  BY <1>2 DEF TriggersAreOne
<1>11. \A i \in 1 .. Len(subs') : ~ subs'[i].fence => fence'[subs'[i].seqno] = "none"
  <2> SUFFICES ASSUME NEW i \in 1 .. Len(subs), ~ subs'[i].fence
               PROVE  fence'[subs[i].seqno] = "none"
    BY <1>2, <1>4
  <2>1. ~ subs[i].fence /\ subs[i].seqno # s /\ subs[i].seqno \in Seqnos
    BY <1>4, FenceTypes
  <2>2. fence[subs[i].seqno] = "none"
    BY <2>1 DEF TriggersAreOne
  <2> QED BY <1>2, <2>1, <2>2
<1> QED
  BY <1>8, <1>9, <1>10, <1>11 DEF TriggersAreOne, OneTriggerPerSubmission, Live

LEMMA EndKeepsTriggers ==
  ASSUME IInv, ThreadsBehave, ThreadsBehave', IInv', TriggersAreOne,
         NEW x \in Atoms, EndAtom(x)
  PROVE  TriggersAreOne'
<1>1. /\ UNCHANGED <<subs, last_seqno>> /\ Live(x)
      /\ fence' = IF katom[x].kind = "FENCE_TRIGGER"
                  THEN [fence EXCEPT ![katom[x].sub] = "signalled"] ELSE fence
  BY EndFacts DEF jm, EndAtom
<1>2. \A a \in Atoms : katom'[a].st = "live" =>
        /\ a # x /\ Live(a) /\ katom'[a].kind = katom[a].kind /\ katom'[a].sub = katom[a].sub
        /\ katom'[a].data = katom[a].data \ {x}
  <2>1. \A a \in Atoms : katom'[a].st = "live" => a # x
    BY EndFacts
  <2> QED BY <2>1, EndFacts DEF Live
<1>3. \A i \in 1 .. Len(subs) : subs[i].last \in Atoms
  BY RingAtoms
<1>4. CASE katom[x].kind # "FENCE_TRIGGER"
  <2>1. UNCHANGED fence /\ last_seqno' \in {last_seqno, last_seqno + 1}
    BY <1>1, <1>4
  <2>2. \A i \in 1 .. Len(subs') :
        \E j \in 1 .. Len(subs) :
          /\ subs'[i].seqno = subs[j].seqno /\ subs'[i].last = subs[j].last
          /\ ~ subs'[i].fence => ~ subs[j].fence
          /\ katom'[subs[j].last].st = "live" => Live(subs[j].last)
    BY <1>1, <1>2, <1>3
  <2>3. \A a \in Atoms : Live(a)' /\ katom'[a].kind = "FENCE_TRIGGER" =>
           /\ Live(a) /\ katom[a].kind = "FENCE_TRIGGER" /\ katom'[a].sub = katom[a].sub
           /\ \A d \in katom[a].data : Live(d)' => d \in katom'[a].data
    <3>1. ~ Live(x)'
      BY EndFacts
    <3> QED BY <1>2, <3>1 DEF Live
  <2> QED BY <2>1, <2>2, <2>3, TriggersStand
<1>5. CASE katom[x].kind = "FENCE_TRIGGER"
  <2>1. PICK s \in Seqnos : s = katom[x].sub /\ fence[s] = "armed" /\ s <= last_seqno
    BY <1>1, <1>5, FenceTypes DEF TriggersAreOne
  <2>2. /\ fence \in [Seqnos -> {"none", "armed", "signalled"}]
        /\ fence' = [fence EXCEPT ![s] = "signalled"]
    BY <1>1, <1>5, <2>1, FenceTypes
  <2>3. \A a \in Atoms : Live(a) /\ katom[a].kind = "FENCE_TRIGGER" /\ a # x =>
          /\ katom[a].sub # s /\ katom[a].sub \in 1 .. last_seqno
          /\ katom[a].sub \in Seqnos /\ fence[katom[a].sub] = "armed"
    BY <1>1, <1>5, <2>1, FenceTypes DEF TriggersAreOne, OneTriggerPerSubmission
  <2>4. ASSUME NEW a \in Atoms, katom'[a].st = "live", katom'[a].kind = "FENCE_TRIGGER"
        PROVE  /\ katom'[a].sub \in 1 .. last_seqno'
               /\ fence'[katom'[a].sub] = "armed"
               /\ \A i \in 1 .. Len(subs') :
                    subs'[i].seqno = katom'[a].sub /\ katom'[subs'[i].last].st = "live"
                    => subs'[i].last \in katom'[a].data
    <3>1. /\ a # x /\ Live(a) /\ katom[a].kind = "FENCE_TRIGGER" /\ katom'[a].sub = katom[a].sub
          /\ katom'[a].data = katom[a].data \ {x}
      BY <1>2, <2>4
    <3>2. /\ katom'[a].sub \in 1 .. last_seqno' /\ fence'[katom'[a].sub] = "armed"
      BY <1>1, <2>2, <2>3, <3>1
    <3>3. ASSUME NEW i \in 1 .. Len(subs), subs[i].seqno = katom[a].sub,
                 katom'[subs[i].last].st = "live"
          PROVE  subs[i].last \in katom'[a].data
      <4>1. Live(subs[i].last) /\ subs[i].last # x
        BY <1>2, <1>3, <3>3
      <4>2. subs[i].last \in katom[a].data
        BY <3>1, <3>3, <4>1 DEF TriggersAreOne
      <4> QED BY <3>1, <4>1, <4>2
    <3> QED BY <1>1, <3>1, <3>2, <3>3
  <2>5. \A a, b \in Atoms :
        /\ katom'[a].st = "live" /\ katom'[a].kind = "FENCE_TRIGGER"
        /\ katom'[b].st = "live" /\ katom'[b].kind = "FENCE_TRIGGER"
        /\ katom'[a].sub = katom'[b].sub
        => a = b
    BY <1>2 DEF TriggersAreOne, OneTriggerPerSubmission
  <2>6. \A r \in Seqnos : fence'[r] # "none" => r <= last_seqno'
    BY <1>1, <2>1, <2>2 DEF TriggersAreOne
  <2>7. \A i \in 1 .. Len(subs') : ~ subs'[i].fence => fence'[subs'[i].seqno] = "none"
    <3> SUFFICES ASSUME NEW i \in 1 .. Len(subs), ~ subs[i].fence
                 PROVE  fence'[subs[i].seqno] = "none"
      BY <1>1
    <3>1. fence[subs[i].seqno] = "none" /\ subs[i].seqno \in Seqnos
      BY FenceTypes DEF TriggersAreOne
    <3> QED BY <2>1, <2>2, <3>1
  <2> QED
    BY <2>4, <2>5, <2>6, <2>7 DEF TriggersAreOne, OneTriggerPerSubmission, Live
<1> QED BY <1>4, <1>5

(* New work is for a submission that has no sync_file yet.                 *)
WorkersKept ==
  \A a \in Atoms : katom'[a].st = "live" /\ katom'[a].kind # "FENCE_TRIGGER" =>
    \/ Working(a) /\ katom'[a].sub = katom[a].sub
    \/ katom'[a].sub = last_seqno + 1

LEMMA RestsKeepsWorkers == ASSUME Rests PROVE WorkersKept
BY DEF Rests, WorkersKept, Working, Live

LEMMA LoudKeepsWorkers ==
  ASSUME IInv,
         \/ \E a \in Atoms : EndAtom(a)
         \/ \E t \in Threads : RetireOldest(t) \/ Submit(t) \/ SubmitFails(t)
  PROVE  WorkersKept
<1>1. ASSUME NEW x \in Atoms, EndAtom(x) PROVE WorkersKept
  BY <1>1, EndFacts DEF WorkersKept, Working, Live
<1>2. ASSUME NEW t \in Threads, RetireOldest(t) PROVE WorkersKept
  BY <1>2, RetireFacts DEF WorkersKept, Working, Live
<1>3. ASSUME NEW t \in Threads, Submit(t) \/ SubmitFails(t) PROVE WorkersKept
  <2>1. PICK w \in BOOLEAN, nums \in Seq(Atoms), m \in Nat : Took(katom', nums, m, w)
    BY <1>3, SubmitTook
  <2> QED BY <2>1 DEF Took, Sent, WorkersKept, Working, Live
<1> QED BY <1>1, <1>2, <1>3

LEMMA WorkersKeepEnded ==
  ASSUME IInv, WorkersKept, NEW s \in Nat, s <= last_seqno, Ended(s)
  PROVE  Ended(s)'
<1>1. last_seqno \in Nat
  BY DEF IInv, TypeOK
<1> QED BY <1>1 DEF Ended, WorkersKept, Working, Live

LEMMA SignalledStands ==
  ASSUME IInv, ThreadsBehave, TriggersAreOne, SignalledHasEnded, WorkersKept,
         NEW e \in Seqnos, e <= last_seqno,
         \A s \in Seqnos : fence'[s] = "signalled" => fence[s] = "signalled" \/ s = e,
         fence'[e] = "signalled" => Ended(e)
  PROVE  SignalledHasEnded'
<1> SUFFICES ASSUME NEW s \in Seqnos, fence'[s] = "signalled"
             PROVE  Ended(s)'
  BY DEF SignalledHasEnded
<1>1. Ended(s)
  BY DEF SignalledHasEnded
<1>2. s \in Nat /\ s <= last_seqno
  BY DEF TriggersAreOne, Seqnos
<1> QED BY <1>1, <1>2, WorkersKeepEnded

LEMMA StandingFences ==
  ASSUME IInv, ThreadsBehave, TriggersAreOne, SignalledHasEnded, WorkersKept,
         \A s \in Seqnos : fence'[s] = "signalled" => fence[s] = "signalled"
  PROVE  SignalledHasEnded'
<1> SUFFICES ASSUME NEW s \in Seqnos, fence'[s] = "signalled"
             PROVE  Ended(s)'
  BY DEF SignalledHasEnded
<1>1. Ended(s) /\ s \in Nat /\ s <= last_seqno
  BY DEF SignalledHasEnded, TriggersAreOne, Seqnos
<1> QED BY <1>1, WorkersKeepEnded

(* A trigger that can run finds the work up to its submission ended.       *)
LEMMA TriggerIsLate ==
  ASSUME IInv, ThreadsBehave, Chains, OwnersAreKnown, TriggersAreOne, NEW x \in Atoms,
         Ready(x), katom[x].kind = "FENCE_TRIGGER"
  PROVE  Ended(katom[x].sub)
<1>1. /\ Live(x) /\ katom[x].data = {} /\ katom[x].sub \in 1 .. last_seqno
  BY DEF Ready, TriggersAreOne
<1>2. completed_seqno \in Nat /\ last_seqno \in Nat
      /\ last_seqno = completed_seqno + Len(subs) /\ Len(subs) \in Nat
  BY RingAtoms DEF IInv, TypeOK, RingHoldsTheSeqnosInFlight
<1>3. PICK s \in 1 .. last_seqno : s = katom[x].sub
  BY <1>1
<1>4. CASE s <= completed_seqno
  <2>1. ASSUME NEW a \in Atoms, Working(a) PROVE katom[a].sub > s
    <3>1. katom[a].sub > completed_seqno /\ katom[a].sub \in Nat
      BY <2>1, WorkIsNotComplete DEF IInv, TypeOK, KAtom
    <3> QED BY <1>2, <1>4, <3>1
  <2> QED BY <1>3, <2>1 DEF Ended, Working
<1>5. CASE ~ (s <= completed_seqno)
  <2>1. PICK i \in 1 .. Len(subs) : i = s - completed_seqno
    BY <1>2, <1>5
  <2>2. subs[i].seqno = s
    BY <1>2, <2>1, RingAtoms
  <2>3. ~ Live(subs[i].last)
    BY <1>1, <1>3, <2>2 DEF TriggersAreOne
  <2>4. Ended(subs[i].seqno)
    BY <2>3, EndedWithLast
  <2> QED BY <1>3, <2>2, <2>4
<1> QED BY <1>4, <1>5

LEMMA EndKeepsSignalled ==
  ASSUME IInv, ThreadsBehave, Chains, OwnersAreKnown, TriggersAreOne, SignalledHasEnded,
         NEW x \in Atoms, EndAtom(x)
  PROVE  SignalledHasEnded'
<1>1. WorkersKept
  BY LoudKeepsWorkers
<1>2. CASE katom[x].kind # "FENCE_TRIGGER"
  <2>1. UNCHANGED fence
    BY <1>2 DEF EndAtom
  <2> QED BY <1>1, <2>1, StandingFences
<1>3. CASE katom[x].kind = "FENCE_TRIGGER"
  <2>1. Ready(x) /\ Live(x) /\ fence' = [fence EXCEPT ![katom[x].sub] = "signalled"]
    BY <1>3 DEF EndAtom, Ready
  <2>2. Ended(katom[x].sub)
    BY <1>3, <2>1, TriggerIsLate
  <2>3. PICK e \in Seqnos : e = katom[x].sub /\ e <= last_seqno
    BY <1>3, <2>1, FenceTypes DEF TriggersAreOne
  <2>4. Ended(e)
    BY <2>2, <2>3
  <2>5. \A s \in Seqnos : fence'[s] = "signalled" => fence[s] = "signalled" \/ s = e
    BY <2>1, <2>3, FenceTypes
  <2> QED BY <1>1, <2>3, <2>4, <2>5, SignalledStands
<1> QED BY <1>2, <1>3

-----------------------------------------------------------------------------
(* The failures                                                            *)

FailsInEvents(a) ==
  \E p \in 1 .. Len(events) : events[p].atom = a /\ events[p].code # "DONE"
FailsInHand(a) ==
  \E t \in Threads : \E p \in 1 .. Len(call[t].ev) :
    call[t].ev[p].atom = a /\ call[t].ev[p].code # "DONE"

(* The ring entry i still has the event of a failed job before it.         *)
FailureAhead(i) ==
  \E a \in subs[i].atoms \ subs[i].waits : FailsInEvents(a) \/ FailsInHand(a)

(* A submission with a failed job does not complete before the device is   *)
(* lost: the event of the failure is read first.                           *)
FailuresAreSeen ==
  \A s \in broken : lost \/ \E i \in 1 .. Len(subs) : subs[i].seqno = s /\ FailureAhead(i)

Told == \A s \in told : s \in 1 .. completed_seqno /\ s \notin broken

(* The events of failures stay where they are; the ring may grow.          *)
LEMMA FailuresStand ==
  ASSUME IInv, FailuresAreSeen, UNCHANGED broken, lost => lost',
         \A a \in Atoms : /\ FailsInEvents(a) => FailsInEvents(a)'
                          /\ FailsInHand(a) => FailsInHand(a)',
         \A i \in 1 .. Len(subs) :
           /\ i \in 1 .. Len(subs')
           /\ subs'[i].seqno = subs[i].seqno /\ subs'[i].atoms = subs[i].atoms
           /\ subs'[i].waits = subs[i].waits
  PROVE  FailuresAreSeen'
<1>1. ASSUME NEW i \in 1 .. Len(subs), FailureAhead(i) PROVE FailureAhead(i)'
  <2>1. PICK a \in subs[i].atoms \ subs[i].waits : FailsInEvents(a) \/ FailsInHand(a)
    BY <1>1 DEF FailureAhead
  <2>2. a \in Atoms
    BY RingAtoms
  <2>3. FailsInEvents(a)' \/ FailsInHand(a)'
    BY <2>1, <2>2
  <2>4. a \in subs'[i].atoms \ subs'[i].waits
    OBVIOUS
  <2> QED BY <2>3, <2>4 DEF FailureAhead
<1> QED BY <1>1 DEF FailuresAreSeen

LEMMA HandsKeptFailures ==
  ASSUME HandsKept
  PROVE  \A a : FailsInHand(a) => FailsInHand(a)'
BY DEF HandsKept, FailsInHand

LEMMA EventsKeepFailures ==
  ASSUME IInv, UNCHANGED events \/ \E e : events' = Append(events, e)
  PROVE  \A a : FailsInEvents(a) => FailsInEvents(a)'
<1>1. \A p \in 1 .. Len(events) : p \in 1 .. Len(events') /\ events'[p] = events[p]
  BY EventTypes DEF IInv
<1> QED BY <1>1 DEF FailsInEvents

LEMMA CallsKeepFailures ==
  ASSUME IInv, ThreadsBehave, FailuresAreSeen,
         \/ Quiet
         \/ \E t \in Threads : Submit(t) \/ SubmitFails(t)
         \/ \E t \in Threads : \E x :
              Exports(t, x) /\ (Armed(t, x) \/ NotSubmitted \/ NoSyncFile(x))
  PROVE  FailuresAreSeen'
<1>1. CASE Quiet
  <2>1. \A i \in 1 .. Len(subs) :
           /\ i \in 1 .. Len(subs')
           /\ subs'[i].seqno = subs[i].seqno /\ subs'[i].atoms = subs[i].atoms
           /\ subs'[i].waits = subs[i].waits
    BY <1>1 DEF Quiet
  <2>2. HandsKept /\ UNCHANGED <<events, broken>> /\ (lost => lost')
    BY <1>1 DEF Quiet
  <2> QED BY <2>1, <2>2, HandsKeptFailures, EventsKeepFailures, FailuresStand
<1>2. ASSUME NEW t \in Threads, Submit(t) \/ SubmitFails(t) PROVE FailuresAreSeen'
  <2>1. /\ (lost => lost') /\ pc[t] = "submit" /\ Return(t)
        /\ UNCHANGED <<events, history>>
        /\ \/ UNCHANGED subs
           \/ Len(subs') = Len(subs) + 1 /\ \A i \in 1 .. Len(subs) : subs'[i] = subs[i]
    BY <1>2, SubmitTook
  <2>2. HandsKept
    BY <2>1, ReturnKeepsHands
  <2>3. \A i \in 1 .. Len(subs) :
           /\ i \in 1 .. Len(subs')
           /\ subs'[i].seqno = subs[i].seqno /\ subs'[i].atoms = subs[i].atoms
           /\ subs'[i].waits = subs[i].waits
    BY <2>1, RingAtoms
  <2>4. UNCHANGED broken
    BY <2>1 DEF history
  <2> QED BY <2>1, <2>2, <2>3, <2>4, HandsKeptFailures, EventsKeepFailures, FailuresStand
<1>3. ASSUME NEW t \in Threads, NEW x, Exports(t, x),
             Armed(t, x) \/ NotSubmitted \/ NoSyncFile(x)
      PROVE  FailuresAreSeen'
  <2>1. UNCHANGED events \/ \E e : events' = Append(events, e)
    BY <1>3 DEF Armed, NotSubmitted, NoSyncFile
  <2>2. HandsKept /\ UNCHANGED broken /\ (lost => lost')
    BY <1>3 DEF Exports, history
  <2>3. \A i \in 1 .. Len(subs) :
           /\ i \in 1 .. Len(subs')
           /\ subs'[i].seqno = subs[i].seqno /\ subs'[i].atoms = subs[i].atoms
           /\ subs'[i].waits = subs[i].waits
    BY <1>3 DEF Exports
  <2> QED BY <2>1, <2>2, <2>3, HandsKeptFailures, EventsKeepFailures, FailuresStand
<1> QED BY <1>1, <1>2, <1>3

LEMMA EndKeepsFailures ==
  ASSUME IInv, OwnersAreKnown, FailuresAreSeen, NEW x \in Atoms, EndAtom(x)
  PROVE  FailuresAreSeen'
<1>1. /\ Live(x) /\ UNCHANGED <<subs, lost, call>> /\ HandsKept
  BY EndFacts DEF jm, threads, HandsKept
<1>2. PICK code \in Outcomes(x) :
        /\ events' = IF katom[x].quiet /\ code = "DONE" THEN events
                     ELSE Append(events, [atom |-> x, code |-> code])
        /\ broken' = IF katom[x].kind = "JOB" /\ code # "DONE"
                     THEN broken \cup {katom[x].sub} ELSE broken
  BY DEF EndAtom
<1>3. /\ \A a : FailsInEvents(a) => FailsInEvents(a)'
      /\ \A a : FailsInHand(a) => FailsInHand(a)'
  BY <1>1, <1>2, EventsKeepFailures, HandsKeptFailures
<1>4. \A i \in 1 .. Len(subs) : FailureAhead(i) => FailureAhead(i)'
  BY <1>1, <1>3 DEF FailureAhead
<1>5. ASSUME NEW s \in broken
      PROVE  lost' \/ \E i \in 1 .. Len(subs) : subs[i].seqno = s /\ FailureAhead(i)'
  BY <1>1, <1>4 DEF FailuresAreSeen
<1>6. ASSUME katom[x].kind = "JOB", code # "DONE"
      PROVE  lost' \/ \E i \in 1 .. Len(subs) : subs[i].seqno = katom[x].sub /\ FailureAhead(i)'
  <2>1. CASE ~ InRing(x)
    BY <1>1, <1>6, <2>1 DEF OwnersAreKnown, Working
  <2>2. CASE InRing(x)
    <3>1. PICK i \in 1 .. Len(subs) : x \in subs[i].atoms
      BY <2>2 DEF InRing
    <3>2. subs[i].seqno = katom[x].sub /\ x \notin subs[i].waits
      BY <1>1, <1>6, <3>1 DEF OwnersAreKnown
    <3>3. FailsInEvents(x)'
      <4>1. events \in Seq(Event) /\ Len(events) \in Nat
        BY EventTypes DEF IInv
      <4>2. events' = Append(events, [atom |-> x, code |-> code])
        BY <1>2, <1>6
      <4>3. /\ Len(events) + 1 \in 1 .. Len(events')
            /\ events'[Len(events) + 1] = [atom |-> x, code |-> code]
        BY <4>1, <4>2
      <4> QED BY <1>6, <4>3 DEF FailsInEvents
    <3>4. FailureAhead(i)'
      BY <1>1, <3>1, <3>2, <3>3 DEF FailureAhead
    <3> QED BY <3>2, <3>4
  <2> QED BY <2>1, <2>2
<1>7. \A s \in broken' : lost' \/ \E i \in 1 .. Len(subs) : subs[i].seqno = s /\ FailureAhead(i)'
  BY <1>2, <1>5, <1>6
<1>8. subs' = subs
  BY <1>1
<1> QED BY <1>7, <1>8 DEF FailuresAreSeen

LEMMA PollKeepsFailures ==
  ASSUME IInv, ThreadsBehave, FailuresAreSeen, NEW t \in Threads, PollEvents(t)
  PROVE  FailuresAreSeen'
<1> DEFINE n == IF Len(events) < MaxRead THEN Len(events) ELSE MaxRead
<1>1. /\ events \in Seq(Event) /\ Len(events) \in Nat
      /\ n \in Nat /\ n <= Len(events)
  BY EventTypes, BoundsAssumption DEF IInv
<1>2. /\ pc[t] = "poll" /\ events' = SubSeq(events, n + 1, Len(events))
      /\ call' = [call EXCEPT ![t].ev = SubSeq(events, 1, n), ![t].prog = TRUE]
      /\ UNCHANGED <<subs, lost, broken>>
  BY DEF PollEvents, jm, history
<1>3. call \in [Threads -> Call]
  BY DEF IInv, TypeOK
<1>4. call'[t].ev = SubSeq(events, 1, n)
  BY <1>2, <1>3 DEF Call
<1>5. PICK k \in Nat : k = n
  BY <1>1
<1>6. /\ Len(call'[t].ev) = k /\ k <= Len(events)
      /\ \A p \in 1 .. k : call'[t].ev[p] = events[p]
      /\ Len(events') = Len(events) - k
      /\ \A p \in 1 .. Len(events') : events'[p] = events[k + p]
  <2>1. /\ call'[t].ev = SubSeq(events, 1, k) /\ events' = SubSeq(events, k + 1, Len(events))
        /\ k <= Len(events)
    BY <1>1, <1>2, <1>4, <1>5
  <2> HIDE DEF n
  <2>2. Len(call'[t].ev) = k /\ \A p \in 1 .. k : call'[t].ev[p] = events[p]
    BY <1>1, <2>1
  <2>3. /\ Len(events') = Len(events) - k
        /\ \A p \in 1 .. Len(events') : events'[p] = events[k + p]
    BY <1>1, <2>1
  <2> QED BY <2>1, <2>2, <2>3
<1> HIDE DEF n
<1>7. \A u \in Threads : Len(call[u].ev) = 0
  <2>1. \A u \in Threads : call[u].ev = <<>>
    BY <1>2, OneHand DEF ThreadsBehave, Readers
  <2> QED BY <2>1
<1>8. \A a : FailsInHand(a) => FALSE
  BY <1>7 DEF FailsInHand
<1>9. ASSUME NEW a \in Atoms, FailsInEvents(a) PROVE FailsInEvents(a)' \/ FailsInHand(a)'
  <2>1. PICK p \in 1 .. Len(events) : events[p].atom = a /\ events[p].code # "DONE"
    BY <1>9 DEF FailsInEvents
  <2>2. CASE p <= k
    <3>1. p \in 1 .. Len(call'[t].ev) /\ call'[t].ev[p] = events[p]
      BY <1>6, <2>2
    <3> QED BY <2>1, <3>1 DEF FailsInHand
  <2>3. CASE ~ (p <= k)
    <3>1. p - k \in 1 .. Len(events') /\ k + (p - k) = p
      BY <1>1, <1>6, <2>3
    <3>2. events'[p - k] = events[p]
      BY <1>6, <3>1
    <3> QED BY <2>1, <3>1, <3>2 DEF FailsInEvents
  <2> QED BY <2>2, <2>3
<1>10. ASSUME NEW i \in 1 .. Len(subs), FailureAhead(i) PROVE FailureAhead(i)'
  <2>1. PICK a \in subs[i].atoms \ subs[i].waits : FailsInEvents(a)
    BY <1>8, <1>10 DEF FailureAhead
  <2>2. FailsInEvents(a)' \/ FailsInHand(a)'
    BY <1>9, <2>1, RingAtoms
  <2>3. subs' = subs
    BY <1>2
  <2> QED BY <2>1, <2>2, <2>3 DEF FailureAhead
<1>11. subs' = subs /\ lost' = lost /\ broken' = broken
  BY <1>2
<1> QED BY <1>10, <1>11 DEF FailuresAreSeen

LEMMA HandlingKeepsFailures ==
  ASSUME IInv, ThreadsBehave, FailuresAreSeen, NEW t \in Threads,
         HandleAuxEvent(t) \/ HandleSubEvent(t) \/ HandleUnknownEvent(t)
  PROVE  FailuresAreSeen'
<1>1. PICK ev \in Event :
        /\ TakeEvent(t, ev) /\ (lost => lost')
        /\ Len(subs') = Len(subs)
        /\ \A i \in 1 .. Len(subs) :
             /\ subs'[i].seqno = subs[i].seqno /\ subs'[i].atoms = subs[i].atoms
             /\ subs'[i].waits = subs[i].waits
        /\ \A i \in 1 .. Len(subs) :
             ev.atom \in subs[i].atoms \ subs[i].waits /\ ev.code # "DONE" => lost'
  <2>1. CASE HandleAuxEvent(t)
    <3>1. PICK ev \in Event : /\ TakeEvent(t, ev) /\ IsAux(ev.atom) /\ (lost => lost')
                              /\ UNCHANGED subs
      BY <2>1 DEF HandleAuxEvent
    <3>2. \A i \in 1 .. Len(subs) : ev.atom \notin subs[i].atoms
      BY <3>1, RingAtoms DEF IsAux
    <3> QED BY <3>1, <3>2
  <2>2. CASE HandleSubEvent(t)
    <3>1. PICK ev \in Event : /\ TakeEvent(t, ev)
             /\ \E i \in FindSub(ev.atom) :
                  /\ lost' = (lost \/ Fatal(ev, subs[i].waits))
                  /\ subs' = [subs EXCEPT ![i].done = @ \/ Completes(subs[i], ev.atom)]
      BY <2>2 DEF HandleSubEvent
    <3>2. PICK i \in 1 .. Len(subs) :
            /\ ev.atom \in subs[i].atoms /\ lost' = (lost \/ Fatal(ev, subs[i].waits))
            /\ subs' = [subs EXCEPT ![i].done = @ \/ Completes(subs[i], ev.atom)]
      BY <3>1 DEF FindSub
    <3>3. /\ Len(subs') = Len(subs)
          /\ \A j \in 1 .. Len(subs) :
               /\ subs'[j].seqno = subs[j].seqno /\ subs'[j].atoms = subs[j].atoms
               /\ subs'[j].waits = subs[j].waits
      BY <3>2, RingAtoms DEF Sub
    <3>4. \A j \in 1 .. Len(subs) : ev.atom \in subs[j].atoms => j = i
      BY <3>2 DEF IInv, SubmissionsOwnTheirNumbers
    <3> QED BY <3>1, <3>2, <3>3, <3>4 DEF Fatal
  <2>3. CASE HandleUnknownEvent(t)
    BY <2>3 DEF HandleUnknownEvent, FindSub
  <2> QED BY <2>1, <2>2, <2>3
<1>2. /\ call[t].ev # <<>> /\ ev = Head(call[t].ev) /\ pc[t] = "handle"
      /\ call' = [call EXCEPT ![t].ev = Tail(@)]
      /\ UNCHANGED <<events, broken>>
  BY <1>1 DEF TakeEvent, Holds, kernel, history
<1>3. call \in [Threads -> Call] /\ call[t].ev \in Seq(Event)
  BY EventTypes DEF IInv, TypeOK
<1>4. call'[t].ev = Tail(call[t].ev) /\ \A u \in Threads : u # t => call'[u].ev = call[u].ev
  BY <1>2, <1>3 DEF Call
<1>5. ASSUME NEW a \in Atoms, FailsInHand(a)
      PROVE  FailsInHand(a)' \/ (ev.atom = a /\ ev.code # "DONE")
  <2>5. PICK u \in Threads : \E p \in 1 .. Len(call[u].ev) :
          call[u].ev[p].atom = a /\ call[u].ev[p].code # "DONE"
    BY <1>5 DEF FailsInHand
  <2>1. PICK p \in 1 .. Len(call[u].ev) :
          call[u].ev[p].atom = a /\ call[u].ev[p].code # "DONE"
    BY <2>5
  <2>2. CASE u # t
    BY <1>4, <2>1, <2>2 DEF FailsInHand
  <2>3. CASE u = t /\ p = 1
    BY <1>2, <1>3, <2>1, <2>3
  <2>4. CASE u = t /\ p # 1
    <3>1. p - 1 \in 1 .. Len(call'[t].ev) /\ call'[t].ev[p - 1] = call[t].ev[(p - 1) + 1]
      BY <1>2, <1>3, <1>4, <2>4
    <3>2. (p - 1) + 1 = p
      OBVIOUS
    <3> QED BY <2>1, <2>4, <3>1, <3>2 DEF FailsInHand
  <2> QED BY <2>2, <2>3, <2>4
<1>6. ASSUME NEW i \in 1 .. Len(subs), FailureAhead(i) PROVE lost' \/ FailureAhead(i)'
  <2>1. PICK a \in subs[i].atoms \ subs[i].waits : FailsInEvents(a) \/ FailsInHand(a)
    BY <1>6 DEF FailureAhead
  <2>2. a \in Atoms /\ a \in subs'[i].atoms \ subs'[i].waits
    BY <1>1, <2>1, RingAtoms
  <2>3. CASE FailsInEvents(a)
    <3>1. FailsInEvents(a)'
      BY <1>2, <2>3 DEF FailsInEvents
    <3> QED BY <2>2, <3>1 DEF FailureAhead
  <2>4. CASE FailsInHand(a)
    <3>1. CASE FailsInHand(a)'
      BY <2>2, <3>1 DEF FailureAhead
    <3>2. CASE ev.atom = a /\ ev.code # "DONE"
      BY <1>1, <2>1, <3>2
    <3> QED BY <1>5, <2>2, <2>4, <3>1, <3>2
  <2> QED BY <2>1, <2>3, <2>4
<1>7. broken' = broken
  BY <1>2
<1> QED BY <1>1, <1>6, <1>7 DEF FailuresAreSeen

LEMMA RetireKeepsFailures ==
  ASSUME IInv, Places, FailuresAreSeen, NEW t \in Threads, RetireOldest(t)
  PROVE  FailuresAreSeen'
<1>1. /\ UNCHANGED <<lost, events, call, broken>> /\ 1 \in 1 .. Len(subs) /\ subs[1].done
      /\ Len(subs') = Len(subs) - 1 /\ Len(subs) \in Nat
      /\ \A i \in 1 .. Len(subs') : subs'[i] = subs[i + 1]
  BY RetireFacts, RingAtoms DEF history
<1>2. ~ FailureAhead(1)
  <2>1. \A a \in subs[1].atoms : katom[a].st = "unused" /\ ~ InHand(a)
    BY <1>1 DEF Places, DoneIsOver
  <2>2. \A a \in subs[1].atoms : ~ FailsInEvents(a) /\ ~ FailsInHand(a)
    BY <2>1 DEF Places, EventsAreEnded, FailsInEvents, FailsInHand, InHand
  <2> QED BY <2>2 DEF FailureAhead
<1>3. ASSUME NEW i \in 1 .. Len(subs), FailureAhead(i)
      PROVE  \E j \in 1 .. Len(subs') : subs'[j] = subs[i] /\ FailureAhead(j)'
  <2>1. i # 1
    BY <1>2, <1>3
  <2>2. PICK j \in 1 .. Len(subs') : j = i - 1 /\ subs'[j] = subs[j + 1] /\ j + 1 = i
    BY <1>1, <2>1
  <2>3. PICK a \in subs[i].atoms \ subs[i].waits : FailsInEvents(a) \/ FailsInHand(a)
    BY <1>3 DEF FailureAhead
  <2>4. FailsInEvents(a)' \/ FailsInHand(a)'
    BY <1>1, <2>3 DEF FailsInEvents, FailsInHand
  <2>5. FailureAhead(j)'
    BY <2>2, <2>3, <2>4 DEF FailureAhead
  <2> QED BY <2>2, <2>5
<1> QED BY <1>1, <1>3 DEF FailuresAreSeen

-----------------------------------------------------------------------------
(* What the callers were told                                              *)

LEMMA BrokenIsNotComplete ==
  ASSUME IInv, FailuresAreSeen, ~ lost, NEW s \in broken
  PROVE  ~ (s \in 1 .. completed_seqno)
<1>1. PICK i \in 1 .. Len(subs) : subs[i].seqno = s
  BY DEF FailuresAreSeen
<1>2. completed_seqno \in Nat /\ s = completed_seqno + i
  BY <1>1, RingAtoms DEF IInv, TypeOK
<1> QED BY <1>2

LEMMA NextKeepsTold ==
  ASSUME IInv, ThreadsBehave, OwnersAreKnown, FailuresAreSeen, Told, [Next]_vars
  PROVE  Told'
<1>1. completed_seqno \in Nat
  BY DEF IInv, TypeOK
<1>2. CASE Quiet
  <2>1. UNCHANGED <<completed_seqno, broken>>
    BY <1>2 DEF Quiet
  <2>2. \A s \in told' : s \in told \/ (s \in 1 .. completed_seqno /\ ~ lost)
    BY <1>2 DEF Quiet
  <2> QED BY <2>1, <2>2, BrokenIsNotComplete DEF Told
<1>3. ASSUME NEW x \in Atoms, EndAtom(x) PROVE Told'
  <2>1. /\ UNCHANGED <<completed_seqno, told>> /\ Live(x)
        /\ broken' = broken \/ (katom[x].kind = "JOB" /\ broken' = broken \cup {katom[x].sub})
    BY <1>3, EndFacts DEF EndAtom, jm
  <2>2. katom[x].kind = "JOB" => katom[x].sub \in Nat /\ katom[x].sub > completed_seqno
    BY <2>1, WorkIsNotComplete DEF Working, IInv, TypeOK, KAtom
  <2> QED BY <1>1, <2>1, <2>2 DEF Told
<1>4. ASSUME NEW t \in Threads, Loud(t) PROVE Told'
  <2>1. CASE RetireOldest(t)
    <3>1. completed_seqno' = completed_seqno + 1 /\ UNCHANGED <<told, broken>>
      BY <2>1, RetireFacts DEF history
    <3> QED BY <1>1, <3>1 DEF Told
  <2>2. CASE ~ RetireOldest(t)
    <3>1. UNCHANGED <<completed_seqno, told, broken>>
      <4>1. CASE PollEvents(t)
        BY <4>1 DEF PollEvents, jm, history
      <4>2. CASE HandleAuxEvent(t) \/ HandleSubEvent(t) \/ HandleUnknownEvent(t)
        BY <4>2 DEF HandleAuxEvent, HandleSubEvent, HandleUnknownEvent, TakeEvent, history
      <4>3. CASE Submit(t) \/ SubmitFails(t)
        BY <4>3 DEF Submit, SubmitFails, history
      <4>4. CASE ExportTrigger(t) \/ ExportTriggerFails(t) \/ ExportNoFd(t)
        BY <4>4 DEF ExportTrigger, ExportTriggerFails, ExportNoFd, history
      <4> QED BY <1>4, <2>2, <4>1, <4>2, <4>3, <4>4 DEF Loud
    <3> QED BY <3>1 DEF Told
  <2> QED BY <2>1, <2>2
<1> QED BY <1>2, <1>3, <1>4, QuietOrLoud

-----------------------------------------------------------------------------
(* The inductive invariant                                                 *)

KInv ==
  /\ IInv
  /\ ThreadsBehave
  /\ Places
  /\ Chains
  /\ OwnersAreKnown
  /\ TriggersAreOne
  /\ SignalledHasEnded
  /\ FailuresAreSeen
  /\ Told

LEMMA InitKInv == Init => KInv
<1> SUFFICES ASSUME Init PROVE KInv
  OBVIOUS
<1>1. IInv /\ ThreadsBehave
  BY InitIInv, InitBehaves
<1>2. /\ subs = <<>> /\ Len(subs) = 0 /\ events = <<>> /\ Len(events) = 0
      /\ told = {} /\ broken = {}
      /\ \A a \in Atoms : katom[a].st = "unused" /\ atom_use[a] = "FREE"
      /\ \A s \in Seqnos : fence[s] = "none"
      /\ \A t \in Threads : call[t].ev = <<>> /\ Len(call[t].ev) = 0
  BY DEF Init, KUnused, KNew, NoCall
<1>3. 1 .. Len(subs) = {} /\ 1 .. Len(events) = {}
      /\ \A t \in Threads : 1 .. Len(call[t].ev) = {}
  BY <1>2
<1>4. Places
  <2>1. FreeNumbersAreIdle
    BY <1>1, <1>2, <1>3, FreeIdle DEF IInv, Free, InHand
  <2>2. EventsAreEnded /\ HandsAreUnused
    BY <1>2, <1>3 DEF EventsAreEnded, HandsAreUnused
  <2>3. LastIsLastQueued /\ LastIsLastInHand /\ DoneIsOver
    BY <1>3 DEF LastIsLastQueued, LastIsLastInHand, DoneIsOver
  <2> QED BY <2>1, <2>2, <2>3 DEF Places
<1>5. Chains
  <2>1. OrphanChain
    <3>1. \A a \in Atoms : ~ Working(a)
      BY <1>2 DEF Working, Live
    <3>2. <<>> \in Seq(Atoms) /\ Len(<<>>) = 0 /\ 1 .. 0 = {}
      OBVIOUS
    <3>3. NumbersOf(<<>>) = {}
      BY <3>2 DEF NumbersOf
    <3>4. Chain(katom, subs, <<>>, 1, Len(subs))
      BY <3>2 DEF Chain
    <3>5. 1 \in Nat /\ 1 >= 1
      OBVIOUS
    <3> QED BY <3>1, <3>2, <3>3, <3>4, <3>5 DEF OrphanChain
  <2> QED BY <1>3, <2>1 DEF Chains
<1>6. OwnersAreKnown
  BY <1>2, <1>3 DEF OwnersAreKnown, Working, Live
<1>7. TriggersAreOne
  BY <1>2, <1>3 DEF TriggersAreOne, OneTriggerPerSubmission, Live
<1>8. SignalledHasEnded /\ FailuresAreSeen /\ Told
  BY <1>2 DEF SignalledHasEnded, FailuresAreSeen, Told
<1> QED BY <1>1, <1>4, <1>5, <1>6, <1>7, <1>8 DEF KInv

(* The steps of the calls and of the reader that end no atom.              *)
LEMMA RestingStep ==
  ASSUME KInv, IInv', ThreadsBehave', NEW t \in Threads,
         \/ Quiet
         \/ PollEvents(t)
         \/ HandleAuxEvent(t) \/ HandleSubEvent(t) \/ HandleUnknownEvent(t)
         \/ ExportTrigger(t) \/ ExportTriggerFails(t) \/ ExportNoFd(t)
  PROVE  KInv'
<1>1. /\ IInv /\ ThreadsBehave /\ Places /\ Chains /\ OwnersAreKnown
      /\ TriggersAreOne /\ SignalledHasEnded /\ FailuresAreSeen
  BY DEF KInv
<1>2. Told'
  <2>1. [Next]_vars \/ Quiet
    BY DEF Next, ReaderStep, CallStep
  <2>2. CASE Quiet
    <3>1. UNCHANGED <<completed_seqno, broken>> /\ completed_seqno \in Nat
      BY <1>1, <2>2 DEF Quiet, IInv, TypeOK
    <3>2. \A s \in told' : s \in told \/ (s \in 1 .. completed_seqno /\ ~ lost)
      BY <2>2 DEF Quiet
    <3> QED BY <1>1, <3>1, <3>2, BrokenIsNotComplete DEF Told, KInv
  <2> QED BY <1>1, <2>1, <2>2, NextKeepsTold DEF KInv
<1>3. CASE Quiet
  <2>1. Rests /\ Places'
    BY <1>1, <1>3, QuietRests, QuietKeepsPlaces
  <2>2. UNCHANGED <<fence, katom, subs>>
    BY <1>3 DEF Quiet
  <2>3. TriggersAreOne'
    BY <1>1, <2>1, <2>2, RestsKeepsTriggers DEF Live
  <2>4. SignalledHasEnded'
    BY <1>1, <2>1, <2>2, RestsKeepsWorkers, StandingFences
  <2>5. FailuresAreSeen'
    BY <1>1, <1>3, CallsKeepFailures
  <2> QED BY <1>1, <1>2, <2>1, <2>3, <2>4, <2>5, RestsKeepsChains DEF KInv
<1>4. CASE PollEvents(t)
  <2>1. Rests /\ Places'
    BY <1>1, <1>4, PollRests, PollKeepsPlaces
  <2>2. UNCHANGED <<fence, subs>> /\ \A a \in Atoms : Live(a)' => Live(a)
    BY <1>4 DEF PollEvents, jm, Live, KUnused, KNew
  <2>3. TriggersAreOne'
    BY <1>1, <2>1, <2>2, RestsKeepsTriggers
  <2>4. SignalledHasEnded'
    BY <1>1, <2>1, <2>2, RestsKeepsWorkers, StandingFences
  <2>5. FailuresAreSeen'
    BY <1>1, <1>4, PollKeepsFailures
  <2> QED BY <1>1, <1>2, <2>1, <2>3, <2>4, <2>5, RestsKeepsChains DEF KInv
<1>5. CASE HandleAuxEvent(t) \/ HandleSubEvent(t) \/ HandleUnknownEvent(t)
  <2>1. Rests /\ Places'
    BY <1>1, <1>5, HandlingRests, HandlingKeepsPlaces
  <2>2. UNCHANGED <<fence, katom>>
    BY <1>5 DEF HandleAuxEvent, HandleSubEvent, HandleUnknownEvent, TakeEvent, kernel
  <2>3. \A i \in 1 .. Len(subs) : ~ subs'[i].fence => ~ subs[i].fence
    <3>1. CASE HandleAuxEvent(t) \/ HandleUnknownEvent(t)
      BY <3>1 DEF HandleAuxEvent, HandleUnknownEvent
    <3>2. CASE HandleSubEvent(t)
      <4>1. PICK ev \in Event : \E i \in FindSub(ev.atom) :
              subs' = [subs EXCEPT ![i].done = @ \/ Completes(subs[i], ev.atom)]
        BY <3>2 DEF HandleSubEvent
      <4>2. PICK i \in 1 .. Len(subs) :
              subs' = [subs EXCEPT ![i].done = @ \/ Completes(subs[i], ev.atom)]
        BY <4>1 DEF FindSub
      <4> QED BY <1>1, <4>2, RingAtoms DEF Sub
    <3> QED BY <1>5, <3>1, <3>2
  <2>4. \A a \in Atoms : Live(a)' => Live(a)
    BY <2>2 DEF Live
  <2>5. UNCHANGED fence
    BY <2>2
  <2>6. TriggersAreOne'
    BY <1>1, <2>1, <2>3, <2>4, <2>5, RestsKeepsTriggers
  <2>7. SignalledHasEnded'
    BY <1>1, <2>1, <2>5, RestsKeepsWorkers, StandingFences
  <2>8. FailuresAreSeen'
    BY <1>1, <1>5, HandlingKeepsFailures
  <2> QED BY <1>1, <1>2, <2>1, <2>6, <2>7, <2>8, RestsKeepsChains DEF KInv
<1>6. CASE ExportTrigger(t) \/ ExportTriggerFails(t) \/ ExportNoFd(t)
  <2>1. PICK x : Exports(t, x) /\ (Armed(t, x) \/ NotSubmitted \/ NoSyncFile(x))
    BY <1>1, <1>6, TriggerFacts, TriggerFailsFacts, NoFdFacts
  <2>2. Places' /\ ~ Live(x)
    BY <1>1, <2>1, ExportKeepsPlaces
  <2>3. Rests
    BY <1>1, <2>1, <2>2, ExportRests
  <2>4. FailuresAreSeen'
    BY <1>1, <2>1, CallsKeepFailures
  <2>5. TriggersAreOne'
    <3>1. CASE Armed(t, x)
      BY <1>1, <2>1, <2>2, <3>1, ArmedKeepsTriggers
    <3>2. CASE NotSubmitted \/ NoSyncFile(x)
      <4>1. UNCHANGED <<fence, subs>> /\ \A a \in Atoms : Live(a)' => Live(a)
        BY <2>1, <3>2 DEF NotSubmitted, NoSyncFile, Exports, Live
      <4> QED BY <1>1, <2>3, <4>1, RestsKeepsTriggers
    <3> QED BY <2>1, <3>1, <3>2
  <2>6. \A s \in Seqnos : fence'[s] = "signalled" => fence[s] = "signalled"
    <3>1. CASE Armed(t, x)
      <4>1. PICK s \in Seqnos : s = call[t].seqno
        BY <1>1, <3>1, FenceTypes DEF Armed
      <4>2. fence' = [fence EXCEPT ![s] = "armed"]
        BY <3>1, <4>1 DEF Armed
      <4> QED BY <1>1, <4>2, FenceTypes
    <3>2. CASE NotSubmitted \/ NoSyncFile(x)
      BY <3>2 DEF NotSubmitted, NoSyncFile
    <3> QED BY <2>1, <3>1, <3>2
  <2>7. SignalledHasEnded'
    BY <1>1, <2>3, <2>6, RestsKeepsWorkers, StandingFences
  <2> QED BY <1>1, <1>2, <2>2, <2>3, <2>4, <2>5, <2>7, RestsKeepsChains DEF KInv
<1> QED BY <1>3, <1>4, <1>5, <1>6

LEMMA NextKeepsKInv == KInv /\ [Next]_vars => KInv'
<1> SUFFICES ASSUME KInv, [Next]_vars PROVE KInv'
  OBVIOUS
<1>1. /\ IInv /\ ThreadsBehave /\ Places /\ Chains /\ OwnersAreKnown
      /\ TriggersAreOne /\ SignalledHasEnded /\ FailuresAreSeen /\ Told
  BY DEF KInv
<1>2. IInv' /\ ThreadsBehave' /\ Told'
  BY <1>1, NextKeepsIInv, NextBehaves, NextKeepsTold
<1>3. CASE Quiet
  BY <1>2, <1>3, ThreadsAssumption, RestingStep
<1>4. ASSUME NEW x \in Atoms, EndAtom(x) PROVE KInv'
  <2>1. Places'
    BY <1>1, <1>2, <1>4, EndKeepsPlaces
  <2>2. Chains' /\ OwnersAreKnown'
    BY <1>1, <1>4, EndKeepsChains
  <2>3. TriggersAreOne' /\ SignalledHasEnded'
    BY <1>1, <1>2, <1>4, EndKeepsTriggers, EndKeepsSignalled
  <2>4. FailuresAreSeen'
    BY <1>1, <1>4, EndKeepsFailures
  <2> QED BY <1>2, <2>1, <2>2, <2>3, <2>4 DEF KInv
<1>5. ASSUME NEW t \in Threads, RetireOldest(t) PROVE KInv'
  <2>1. Places' /\ FailuresAreSeen' /\ TriggersAreOne'
    BY <1>1, <1>2, <1>5, RetireKeepsPlaces, RetireKeepsFailures, RetireKeepsTriggers
  <2>2. Chains' /\ OwnersAreKnown'
    BY <1>1, <1>5, RetireKeepsChains DEF Places
  <2>3. WorkersKept /\ UNCHANGED fence
    BY <1>1, <1>5, LoudKeepsWorkers, RetireFacts
  <2>4. SignalledHasEnded'
    BY <1>1, <2>3, StandingFences
  <2> QED BY <1>2, <2>1, <2>2, <2>4 DEF KInv
<1>6. ASSUME NEW t \in Threads, Submit(t) \/ SubmitFails(t) PROVE KInv'
  <2>1. Places' /\ TriggersAreOne' /\ FailuresAreSeen'
    BY <1>1, <1>2, <1>6, SubmitKeepsPlaces, SubmitKeepsTriggers, CallsKeepFailures
  <2>2. Chains' /\ OwnersAreKnown'
    BY <1>1, <1>6, SubmitKeepsChains, SubmitFailsKeepsChains
  <2>3. WorkersKept /\ UNCHANGED fence
    BY <1>1, <1>6, LoudKeepsWorkers, SubmitTook
  <2>4. SignalledHasEnded'
    BY <1>1, <2>3, StandingFences
  <2> QED BY <1>2, <2>1, <2>2, <2>4 DEF KInv
<1>7. ASSUME NEW t \in Threads, Loud(t) PROVE KInv'
  BY <1>2, <1>5, <1>6, <1>7, RestingStep DEF Loud
<1> QED BY <1>1, <1>3, <1>4, <1>7, QuietOrLoud

LEMMA KInvHolds == Spec => []KInv
<1>1. Init => KInv
  BY InitKInv
<1>2. KInv /\ [Next]_vars => KInv'
  BY NextKeepsKInv
<1> QED BY <1>1, <1>2, PTL DEF Spec

-----------------------------------------------------------------------------
(* What may run                                                            *)

(* The place of an atom: its submission's in the ring, or behind it.       *)
Place == 1 .. Len(subs) + 1
AtPlace(a, p) == IF p \in 1 .. Len(subs) THEN a \in subs[p].atoms ELSE ~ InRing(a)

ChainAt(nums, f, p) ==
  /\ f >= 1
  /\ \A a \in Atoms : Working(a) /\ AtPlace(a, p) => a \in NumbersOf(nums)
  /\ Chain(katom, subs, nums, f, p - 1)

LEMMA PlaceOf ==
  ASSUME IInv, OwnersAreKnown, NEW a \in Atoms, Working(a)
  PROVE  \E p \in Place : AtPlace(a, p) /\ katom[a].sub = completed_seqno + p
<1>1. CASE InRing(a)
  <2>1. PICK p \in 1 .. Len(subs) : a \in subs[p].atoms
    BY <1>1 DEF InRing
  <2>2. katom[a].sub = subs[p].seqno
    BY <2>1 DEF OwnersAreKnown, Working
  <2>3. p \in Place
    BY RingAtoms DEF Place
  <2> QED BY <2>1, <2>2, <2>3, RingAtoms DEF AtPlace
<1>2. CASE ~ InRing(a)
  <2>1. katom[a].sub = last_seqno + 1 /\ last_seqno = completed_seqno + Len(subs)
    BY <1>2 DEF OwnersAreKnown, IInv, RingHoldsTheSeqnosInFlight
  <2>2. Len(subs) + 1 \in Place /\ Len(subs) + 1 \notin 1 .. Len(subs)
    BY RingAtoms DEF Place
  <2>3. katom[a].sub = completed_seqno + (Len(subs) + 1)
    BY <2>1, RingAtoms DEF IInv, TypeOK
  <2> QED BY <1>2, <2>2, <2>3 DEF AtPlace
<1> QED BY <1>1, <1>2

LEMMA ChainOf ==
  ASSUME IInv, Chains, NEW p \in Place
  PROVE  \E nums \in Seq(Atoms), f \in Nat : ChainAt(nums, f, p)
<1>1. CASE p \in 1 .. Len(subs)
  <2>1. PICK nums \in Seq(Atoms), f \in Nat :
          /\ f \in 1 .. Len(nums)
          /\ NumbersOf(nums) = subs[p].atoms /\ nums[Len(nums)] = subs[p].last
          /\ Chain(katom, subs, nums, f, p - 1)
    BY <1>1 DEF Chains, RingChain
  <2>2. f >= 1
    BY <2>1
  <2> QED BY <1>1, <2>1, <2>2 DEF ChainAt, AtPlace
<1>2. CASE p \notin 1 .. Len(subs)
  <2>1. PICK nums \in Seq(Atoms), f \in Nat :
          /\ f >= 1
          /\ \A a \in Atoms : Working(a) /\ ~ InRing(a) => a \in NumbersOf(nums)
          /\ \A a \in NumbersOf(nums) : atom_use[a] = "SUB" /\ ~ InRing(a)
          /\ Chain(katom, subs, nums, f, Len(subs))
    BY DEF Chains, OrphanChain
  <2>2. p - 1 = Len(subs)
    BY <1>2, RingAtoms DEF Place
  <2> QED BY <1>2, <2>1, <2>2 DEF ChainAt, AtPlace
<1> QED BY <1>1, <1>2

(* Work that waits for nothing comes behind nothing that is live.          *)
LEMMA ReadyIsFirst ==
  ASSUME IInv, Chains, NEW p \in Place, NEW nums \in Seq(Atoms), NEW f \in Nat,
         ChainAt(nums, f, p), NEW k \in 1 .. Len(nums),
         Ready(nums[k]), katom[nums[k]].kind # "FENCE_WAIT"
  PROVE  /\ f <= k
         /\ \A l \in 1 .. Len(nums) : l < k => ~ Live(nums[l])
         /\ \A i \in 1 .. p - 1 : ~ Live(subs[i].last)
<1>1. LiveIn(katom, nums[k]) /\ DepsIn(katom, nums[k]) = {}
  BY DEF Ready, Live, LiveIn, DepsIn
<1>2. f <= k
  BY <1>1 DEF ChainAt, Chain
<1>3. ASSUME NEW l \in 1 .. Len(nums), l < k, Live(nums[l]) PROVE FALSE
  <2>1. PICK m \in 1 .. Len(nums) : k = m + 1
    BY <1>3
  <2>2. l = m \/ l < m
    BY <1>3, <2>1
  <2>3. LiveIn(katom, nums[m])
    BY <1>3, <2>2 DEF ChainAt, Chain, Live, LiveIn
  <2> QED BY <1>1, <2>1, <2>3 DEF ChainAt, Chain
<1>4. ASSUME NEW i \in 1 .. p - 1, Live(subs[i].last) PROVE FALSE
  <2>1. f \in 1 .. Len(nums)
    BY <1>2 DEF ChainAt
  <2>2. LiveIn(katom, nums[f])
    BY <1>4, <2>1 DEF ChainAt, Chain, Live, LiveIn
  <2>3. p - 1 \in 1 .. Len(subs) /\ i \in 1 .. p - 1 /\ p - 1 > 0
    BY RingAtoms DEF Place
  <2>4. LiveIn(katom, subs[p - 1].last)
    BY <1>4, <2>3, LastsEndInOrder DEF LiveIn, Live
  <2>5. subs[p - 1].last \in DepsIn(katom, nums[f])
    BY <2>1, <2>3, <2>4 DEF ChainAt, Chain
  <2>6. f = k \/ f < k
    BY <1>2
  <2> QED BY <1>1, <1>3, <2>1, <2>2, <2>5, <2>6 DEF LiveIn, Live
<1> QED BY <1>2, <1>3, <1>4

(* The same, said of atoms at their places.                                *)
LEMMA NothingLiveBefore ==
  ASSUME IInv, Chains, NEW p \in Place, NEW q \in Place,
         NEW a \in Atoms, AtPlace(a, p), Ready(a), katom[a].kind = "JOB",
         NEW b \in Atoms, AtPlace(b, q), Working(b)
  PROVE  ~ (q < p)
<1> SUFFICES ASSUME q < p PROVE FALSE
  OBVIOUS
<1>1. q \in 1 .. Len(subs) /\ q \in 1 .. p - 1
  BY RingAtoms DEF Place
<1>2. Live(subs[q].last)
  BY <1>1, LastOutlives DEF AtPlace, Working
<1>3. PICK nums \in Seq(Atoms), f \in Nat : ChainAt(nums, f, p)
  BY ChainOf
<1>4. PICK k \in 1 .. Len(nums) : nums[k] = a
  BY <1>3 DEF ChainAt, NumbersOf, Working, Ready
<1>5. \A i \in 1 .. p - 1 : ~ Live(subs[i].last)
  BY <1>3, <1>4, ReadyIsFirst
<1> QED BY <1>1, <1>2, <1>5

LEMMA OnlyOneReady ==
  ASSUME IInv, Chains, OwnersAreKnown,
         NEW a \in Atoms, Ready(a), katom[a].kind = "JOB",
         NEW b \in Atoms, Ready(b), katom[b].kind = "JOB"
  PROVE  a = b
<1>1. Working(a) /\ Working(b)
  BY DEF Working, Ready
<1>2. PICK p \in Place : AtPlace(a, p)
  BY <1>1, PlaceOf
<1>3. PICK q \in Place : AtPlace(b, q)
  BY <1>1, PlaceOf
<1>4. ~ (q < p) /\ ~ (p < q)
  BY <1>1, <1>2, <1>3, NothingLiveBefore
<1>5. p = q
  BY <1>4, RingAtoms DEF Place
<1>6. PICK nums \in Seq(Atoms), f \in Nat : ChainAt(nums, f, p)
  BY ChainOf
<1>7. a \in NumbersOf(nums) /\ b \in NumbersOf(nums)
  BY <1>1, <1>2, <1>3, <1>5, <1>6 DEF ChainAt
<1>8. PICK k \in 1 .. Len(nums) : nums[k] = a
  BY <1>7 DEF NumbersOf
<1>9. PICK l \in 1 .. Len(nums) : nums[l] = b
  BY <1>7 DEF NumbersOf
<1>10. ~ (l < k) /\ ~ (k < l)
  BY <1>1, <1>6, <1>8, <1>9, ReadyIsFirst DEF Working
<1> QED BY <1>8, <1>9, <1>10

LEMMA NoJobBeforeItsFence ==
  ASSUME IInv, Chains, OwnersAreKnown,
         NEW a \in Atoms, Ready(a), katom[a].kind = "JOB",
         NEW w \in Atoms, Live(w), katom[w].kind = "FENCE_WAIT"
  PROVE  katom[w].sub # katom[a].sub
<1> SUFFICES ASSUME katom[w].sub = katom[a].sub PROVE FALSE
  OBVIOUS
<1>1. Working(a) /\ Working(w)
  BY DEF Working, Ready
<1>2. PICK p \in Place : AtPlace(a, p) /\ katom[a].sub = completed_seqno + p
  BY <1>1, PlaceOf
<1>3. PICK q \in Place : AtPlace(w, q) /\ katom[w].sub = completed_seqno + q
  BY <1>1, PlaceOf
<1>4. p = q
  BY <1>2, <1>3 DEF Place, IInv, TypeOK
<1>5. PICK nums \in Seq(Atoms), f \in Nat : ChainAt(nums, f, p)
  BY ChainOf
<1>6. a \in NumbersOf(nums) /\ w \in NumbersOf(nums)
  BY <1>1, <1>2, <1>3, <1>4, <1>5 DEF ChainAt
<1>7. PICK k \in 1 .. Len(nums) : nums[k] = a
  BY <1>6 DEF NumbersOf
<1>8. PICK l \in 1 .. Len(nums) : nums[l] = w
  BY <1>6 DEF NumbersOf
<1>9. f <= k /\ ~ (l < k)
  BY <1>1, <1>5, <1>7, <1>8, ReadyIsFirst DEF Working
<1>10. l < f
  BY <1>5, <1>8 DEF ChainAt, Chain, Live, LiveIn
<1> QED BY <1>9, <1>10

-----------------------------------------------------------------------------
(* The theorems                                                            *)

(* Whatever fails and however the calls interleave, at most one job is     *)
(* free to run, none before the imported fence of its submission, and a    *)
(* sync_file has one trigger: the shared tiler heap of                     *)
(* panvk_kbase_submit_locked's chain stays serialised.                     *)
THEOREM AtomsStayInOrder == Spec => []AtomsAreInOrder
<1>1. KInv => AtomsAreInOrder
  <2> SUFFICES ASSUME KInv PROVE AtomsAreInOrder
    OBVIOUS
  <2>1. IInv /\ Chains /\ OwnersAreKnown /\ TriggersAreOne
    BY DEF KInv
  <2>2. JobsAreSerialised
    BY <2>1, OnlyOneReady DEF JobsAreSerialised
  <2>3. JobsAwaitTheirFence
    BY <2>1, NoJobBeforeItsFence DEF JobsAwaitTheirFence
  <2> QED BY <2>1, <2>2, <2>3 DEF AtomsAreInOrder, TriggersAreOne
<1> QED BY <1>1, KInvHolds, PTL

(* completed_seqno, an exported sync_file that has signalled and a number  *)
(* that is handed out again all come after the work they stand for, in     *)
(* whatever order the events arrive and are handled.                       *)
THEOREM NothingEndsTooEarly == Spec => []NothingEndsEarly
<1>1. KInv => NothingEndsEarly
  <2> SUFFICES ASSUME KInv PROVE NothingEndsEarly
    OBVIOUS
  <2>1. IInv /\ OwnersAreKnown /\ SignalledHasEnded /\ FreeNumbersAreIdle
    BY DEF KInv, Places
  <2>2. CompletedHasEnded
    BY <2>1, WorkIsNotComplete DEF CompletedHasEnded, Ended, Working
  <2> QED BY <2>1, <2>2 DEF NothingEndsEarly
<1> QED BY <1>1, KInvHolds, PTL

(* A caller of panvk_kbase_wait_seqno or of the export callback that was   *)
(* told its submission is finished was told the truth: all the work up to  *)
(* it has ended, and no job of it has failed, not even one whose event a   *)
(* reader had not handled when it answered.                                *)
THEOREM CallersAreToldTheTruth == Spec => []ToldTheTruth
<1>1. KInv => ToldTheTruth
  <2> SUFFICES ASSUME KInv, NEW s \in told PROVE Ended(s) /\ s \notin broken
    BY DEF ToldTheTruth
  <2>1. IInv /\ OwnersAreKnown /\ Told
    BY DEF KInv
  <2>2. s \in Nat /\ s <= completed_seqno /\ s \notin broken
    BY <2>1 DEF Told, IInv, TypeOK
  <2>3. \A a \in Atoms : Working(a) => katom[a].sub > s
    BY <2>1, <2>2, WorkIsNotComplete, RingAtoms DEF IInv, TypeOK, KAtom
  <2> QED BY <2>2, <2>3 DEF Ended, Working
<1> QED BY <1>1, KInvHolds, PTL

-----------------------------------------------------------------------------
(* How far the GPU is                                                      *)

IsEnded(e) ==
  /\ e \in completed_seqno .. last_seqno
  /\ \A i \in 1 .. Len(subs) : Live(subs[i].last) <=> subs[i].seqno > e

HasEnded == \E e \in Nat : IsEnded(e)

LEMMA EndedBounds ==
  ASSUME IInv
  PROVE  /\ completed_seqno \in Nat /\ last_seqno \in Nat /\ Len(subs) \in Nat
         /\ last_seqno = completed_seqno + Len(subs)
BY RingAtoms DEF IInv, TypeOK, RingHoldsTheSeqnosInFlight

(* A submission in flight has its place in the ring.                       *)
LEMMA InFlight ==
  ASSUME IInv, NEW s \in Nat, s > completed_seqno, s <= last_seqno
  PROVE  \E i \in 1 .. Len(subs) : s = completed_seqno + i /\ subs[i].seqno = s
<1>1. s - completed_seqno \in 1 .. Len(subs) /\ s = completed_seqno + (s - completed_seqno)
  BY EndedBounds
<1> QED BY <1>1, RingAtoms

LEMMA EndedUpTo ==
  ASSUME KInv, NEW e \in Nat, IsEnded(e)
  PROVE  Ended(e)
<1>1. IInv /\ Chains /\ OwnersAreKnown
  BY DEF KInv
<1>2. CASE e = completed_seqno
  BY <1>1, <1>2, WorkIsNotComplete DEF Ended, Working
<1>3. CASE e # completed_seqno
  <2>1. e > completed_seqno /\ e <= last_seqno
    BY <1>1, <1>3, EndedBounds DEF IsEnded
  <2>2. PICK i \in 1 .. Len(subs) : subs[i].seqno = e
    BY <1>1, <2>1, InFlight
  <2> QED BY <1>1, <2>2, EndedWithLast DEF IsEnded
<1> QED BY <1>2, <1>3

(* It is what EndedSubmissions picks.                                      *)
LEMMA EndedIs ==
  ASSUME KInv, NEW e \in Nat, IsEnded(e)
  PROVE  EndedSubmissions = e
<1>1. IInv /\ Chains /\ OwnersAreKnown
  BY DEF KInv
<1>2. /\ completed_seqno \in Nat /\ last_seqno \in Nat
      /\ e \in completed_seqno .. last_seqno
  BY <1>1, EndedBounds DEF IsEnded
<1> DEFINE upto == {s \in 0 .. last_seqno : Ended(s)}
<1>3. e \in upto
  BY <1>2, EndedUpTo
<1>4. ASSUME NEW r \in upto PROVE r <= e
  <2> SUFFICES ASSUME ~ (r <= e) PROVE FALSE
    OBVIOUS
  <2>1. r \in Nat /\ r > completed_seqno /\ r <= last_seqno
    BY <1>2
  <2>2. PICK i \in 1 .. Len(subs) : /\ subs[i].seqno = r
                                    /\ subs[i].last \in subs[i].atoms /\ subs[i].last \in Atoms
    BY <1>1, <2>1, InFlight, RingAtoms
  <2>3. Live(subs[i].last)
    BY <2>2 DEF IsEnded
  <2>4. katom[subs[i].last].kind # "FENCE_TRIGGER" /\ katom[subs[i].last].sub = r
    BY <1>1, <2>2, <2>3 DEF OwnersAreKnown
  <2> QED BY <2>2, <2>3, <2>4 DEF Ended
<1> HIDE DEF upto
<1>5. \A s \in upto : (\A r \in upto : r <= s) => s = e
  <2>1. \A s \in upto : s \in Nat
    BY <1>2 DEF upto
  <2> QED BY <1>3, <1>4, <2>1
<1>6. (CHOOSE s \in upto : \A r \in upto : r <= s) = e
  BY <1>3, <1>4, <1>5
<1> QED BY <1>6 DEF upto, EndedSubmissions

LEMMA EndedIsNow == KInv => \A e \in Nat : IsEnded(e) => EndedSubmissions = e
BY EndedIs

LEMMA EndedIsAfter == KInv' => \A e \in Nat : IsEnded(e)' => EndedSubmissions' = e
<1>1. (KInv => \A e \in Nat : IsEnded(e) => EndedSubmissions = e)'
  BY EndedIsNow, PTL
<1> QED BY <1>1

-----------------------------------------------------------------------------
(* Every step is one of the abstract queue                                 *)

Promises == HasEnded' /\ [Promise!Next]_(Promise!vars)

(* The GPU has ended as much as before.                                    *)
LEMMA SameEnd ==
  ASSUME KInv, KInv', NEW e \in Nat, IsEnded(e), IsEnded(e)'
  PROVE  HasEnded' /\ EndedSubmissions = e /\ EndedSubmissions' = e
BY EndedIsNow, EndedIsAfter DEF HasEnded

LEMMA RestsEnded ==
  ASSUME KInv, NEW e \in Nat, IsEnded(e), Rests, UNCHANGED completed_seqno
  PROVE  IsEnded(e)'
<1>1. \A i \in 1 .. Len(subs) :
        /\ subs'[i].seqno = subs[i].seqno /\ subs'[i].last = subs[i].last
        /\ subs[i].last \in Atoms /\ atom_use[subs[i].last] = "SUB"
  BY RingAtoms DEF KInv, Rests
<1>2. \A i \in 1 .. Len(subs) : katom'[subs[i].last].st = "live" <=> Live(subs[i].last)
  BY <1>1 DEF Rests, Live
<1>3. Len(subs') = Len(subs) /\ last_seqno' = last_seqno
  BY DEF Rests
<1> QED BY <1>1, <1>2, <1>3 DEF IsEnded, Live

(* A step that only may lose the device.                                   *)
LEMMA MayLose ==
  ASSUME KInv, KInv', NEW e \in Nat, IsEnded(e), Rests,
         UNCHANGED <<completed_seqno, fence, told, broken>>
  PROVE  Promises
<1>1. HasEnded' /\ EndedSubmissions = e /\ EndedSubmissions' = e
  BY RestsEnded, SameEnd
<1>2. /\ last_seqno' = last_seqno /\ (lost => lost')
      /\ lost \in BOOLEAN /\ lost' \in BOOLEAN
  BY DEF Rests, KInv, IInv, TypeOK
<1>3. CASE lost' = lost
  BY <1>1, <1>2, <1>3 DEF Promises, Promise!vars
<1>4. CASE lost' # lost
  BY <1>1, <1>2, <1>4 DEF Promises, Promise!Next, Promise!Lose
<1> QED BY <1>3, <1>4

LEMMA QuietPromises ==
  ASSUME KInv, KInv', NEW e \in Nat, IsEnded(e), Quiet
  PROVE  Promises
<1>1. IInv /\ FailuresAreSeen /\ Rests
  BY QuietRests DEF KInv
<1>2. CASE UNCHANGED told
  BY <1>1, <1>2, MayLose DEF Quiet
<1>3. CASE told' # told
  <2>1. PICK s \in 1 .. completed_seqno : told' = told \cup {s}
    BY <1>3 DEF Quiet
  <2>2. UNCHANGED <<last_seqno, completed_seqno, lost, fence, broken>> /\ ~ lost
    BY <1>3 DEF Quiet
  <2>3. s \notin broken
    BY <1>1, <2>2, BrokenIsNotComplete
  <2>4. HasEnded' /\ EndedSubmissions = e /\ EndedSubmissions' = e
    BY <1>1, <2>2, RestsEnded, SameEnd
  <2> QED BY <2>1, <2>2, <2>3, <2>4 DEF Promises, Promise!Next, Promise!Report
<1> QED BY <1>2, <1>3

LEMMA ReaderPromises ==
  ASSUME KInv, KInv', NEW e \in Nat, IsEnded(e), NEW t \in Threads,
         PollEvents(t) \/ HandleAuxEvent(t) \/ HandleSubEvent(t) \/ HandleUnknownEvent(t)
  PROVE  Promises
<1>1. Rests
  BY PollRests, HandlingRests DEF KInv
<1>2. UNCHANGED <<completed_seqno, fence, told, broken>>
  BY DEF PollEvents, HandleAuxEvent, HandleSubEvent, HandleUnknownEvent, TakeEvent,
         jm, kernel, history
<1> QED BY <1>1, <1>2, MayLose

LEMMA RetirePromises ==
  ASSUME KInv, KInv', NEW e \in Nat, IsEnded(e), NEW t \in Threads, RetireOldest(t)
  PROVE  Promises
<1>1. IInv /\ DoneIsOver
  BY DEF KInv, Places
<1>2. /\ UNCHANGED <<last_seqno, lost, katom, fence, told, broken>>
      /\ 1 \in 1 .. Len(subs) /\ subs[1].done
      /\ completed_seqno' = completed_seqno + 1
      /\ Len(subs') = Len(subs) - 1
      /\ \A i \in 1 .. Len(subs') : subs'[i] = subs[i + 1]
  BY <1>1, RetireFacts DEF history
<1>3. /\ completed_seqno \in Nat /\ last_seqno \in Nat /\ Len(subs) \in Nat
      /\ subs[1].seqno = completed_seqno + 1
  BY <1>1, <1>2, RingAtoms DEF IInv, TypeOK
<1>4. completed_seqno + 1 <= e
  <2>1. ~ Live(subs[1].last)
    BY <1>1, <1>2, RingAtoms DEF DoneIsOver, Live
  <2> QED BY <1>2, <1>3, <2>1 DEF IsEnded
<1>5. IsEnded(e)'
  <2>1. e \in completed_seqno' .. last_seqno'
    BY <1>2, <1>3, <1>4 DEF IsEnded
  <2>2. ASSUME NEW i \in 1 .. Len(subs')
        PROVE  katom'[subs'[i].last].st = "live" <=> subs'[i].seqno > e
    <3>1. i + 1 \in 1 .. Len(subs) /\ subs'[i] = subs[i + 1]
      BY <1>2, <1>3
    <3> QED BY <1>2, <3>1 DEF IsEnded, Live
  <2> QED BY <2>1, <2>2 DEF IsEnded, Live
<1>6. HasEnded' /\ EndedSubmissions = e /\ EndedSubmissions' = e
  BY <1>5, SameEnd
<1> QED BY <1>2, <1>3, <1>4, <1>6 DEF Promises, Promise!Next, Promise!Complete

LEMMA ExportPromises ==
  ASSUME KInv, KInv', NEW e \in Nat, IsEnded(e), NEW t \in Threads,
         ExportTrigger(t) \/ ExportTriggerFails(t) \/ ExportNoFd(t)
  PROVE  Promises
<1>1. /\ IInv /\ ThreadsBehave /\ Places /\ TriggersAreOne /\ IInv'
  BY DEF KInv
<1>2. PICK x : /\ Exports(t, x)
               /\ Armed(t, x) \/ NotSubmitted \/ NoSyncFile(x)
  BY <1>1, TriggerFacts, TriggerFailsFacts, NoFdFacts
<1>3. Rests
  BY <1>1, <1>2, ExportKeepsPlaces, ExportRests
<1>4. UNCHANGED <<last_seqno, completed_seqno, told, broken>>
  BY <1>2 DEF Exports, history
<1>5. CASE NotSubmitted \/ NoSyncFile(x)
  <2>1. UNCHANGED fence
    BY <1>5 DEF NotSubmitted, NoSyncFile
  <2> QED BY <1>3, <1>4, <2>1, MayLose
<1>6. CASE Armed(t, x)
  <2>1. PICK s \in 1 .. last_seqno :
          /\ s > completed_seqno /\ ~ lost /\ UNCHANGED lost
          /\ fence' = [fence EXCEPT ![s] = "armed"]
          /\ \A i \in 1 .. Len(subs) : subs[i].seqno = s => ~ subs[i].fence
    BY <1>6 DEF Armed
  <2>2. completed_seqno \in Nat /\ last_seqno \in Nat
    BY <1>1, EndedBounds
  <2>3. PICK i \in 1 .. Len(subs) : subs[i].seqno = s
    BY <1>1, <2>1, <2>2, InFlight
  <2>4. fence[s] = "none"
    <3>1. fence[subs[i].seqno] = "none"
      BY <1>1, <2>1, <2>3 DEF TriggersAreOne
    <3> QED BY <2>3, <3>1
  <2>5. s \in completed_seqno + 1 .. last_seqno
    BY <2>1, <2>2
  <2>6. HasEnded' /\ EndedSubmissions = e /\ EndedSubmissions' = e
    BY <1>3, <1>4, RestsEnded, SameEnd
  <2> QED BY <1>4, <2>1, <2>4, <2>5, <2>6 DEF Promises, Promise!Next, Promise!Export
<1> QED BY <1>2, <1>5, <1>6

(* The kernel leaves the atoms of the ring alone when it takes new ones.    *)
LEMMA OldLasts ==
  ASSUME IInv, NEW n \in Nat, NEW w \in BOOLEAN, NEW nums, Chosen(nums, n, w),
         NEW m \in 0 .. Len(nums), Took(katom', nums, m, w),
         NEW i \in 1 .. Len(subs)
  PROVE  katom'[subs[i].last].st = "live" <=> Live(subs[i].last)
<1>1. subs[i].last \in Atoms /\ atom_use[subs[i].last] = "SUB"
  BY RingAtoms
<1>2. \A k \in 1 .. m : nums[k] \in NumbersOf(nums)
  BY DEF NumbersOf, Chosen
<1>3. subs[i].last \notin Sent(nums, m)
  BY <1>1, <1>2 DEF Sent, Chosen, Free
<1> QED BY <1>1, <1>3 DEF Took, Live

LEMMA SubmitPromises ==
  ASSUME KInv, KInv', NEW e \in Nat, IsEnded(e), NEW t \in Threads, Submit(t)
  PROVE  Promises
<1>1. IInv /\ ThreadsBehave
  BY DEF KInv
<1>0. PICK n \in Nat, w \in BOOLEAN, nums \in Seq(Atoms) : Submits(t, n, w, nums)
  BY <1>1, SubmitFacts
<1>2. /\ Chosen(nums, n, w) /\ FirstJob(w) \in 1 .. Len(nums)
      /\ Took(katom', nums, Len(nums), w)
      /\ Len(subs') = Len(subs) + 1
      /\ \A i \in 1 .. Len(subs) : subs'[i] = subs[i]
      /\ subs'[Len(subs) + 1] = [seqno |-> last_seqno + 1, last |-> nums[Len(nums)],
                                 done |-> FALSE, fence |-> FALSE,
                                 atoms |-> NumbersOf(nums),
                                 waits |-> IF w THEN {nums[1]} ELSE {}]
      /\ last_seqno' = last_seqno + 1 /\ ~ lost /\ pc[t] = "submit"
      /\ UNCHANGED <<completed_seqno, lost, fence, told, broken>>
  BY <1>0 DEF Submits, history
<1>3. /\ completed_seqno \in Nat /\ last_seqno \in Nat /\ Len(subs) \in Nat
      /\ e \in completed_seqno .. last_seqno
  BY <1>1, EndedBounds DEF IsEnded
<1>4. last_seqno < MaxSubmits
  BY <1>1, <1>2 DEF ThreadsBehave, Submitting, SubmittingAt
<1>5. \A i \in 1 .. Len(subs) : katom'[subs[i].last].st = "live" <=> Live(subs[i].last)
  <2>1. Len(nums) \in 0 .. Len(nums) /\ Took(katom', nums, Len(nums), w) /\ Chosen(nums, n, w)
    BY <1>2
  <2> QED BY <1>1, <2>1, OldLasts
<1>6. katom'[nums[Len(nums)]].st = "live"
  BY <1>2, SMTT(30) DEF Took, LiveIn
<1>7. IsEnded(e)'
  <2>1. e \in completed_seqno' .. last_seqno'
    BY <1>2, <1>3
  <2>2. ASSUME NEW i \in 1 .. Len(subs')
        PROVE  katom'[subs'[i].last].st = "live" <=> subs'[i].seqno > e
    <3>1. CASE i \in 1 .. Len(subs)
      BY <1>2, <1>5, <3>1 DEF IsEnded
    <3>2. CASE i = Len(subs) + 1
      <4>1. subs'[i].last = nums[Len(nums)] /\ subs'[i].seqno = last_seqno + 1
        BY <1>2, <3>2
      <4> QED BY <1>3, <1>6, <4>1
    <3> QED BY <1>2, <1>3, <2>2, <3>1, <3>2
  <2> QED BY <2>1, <2>2 DEF IsEnded, Live
<1>8. HasEnded' /\ EndedSubmissions = e /\ EndedSubmissions' = e
  BY <1>7, SameEnd
<1> QED BY <1>2, <1>4, <1>8 DEF Promises, Promise!Next, Promise!Submit

LEMMA SubmitFailsPromises ==
  ASSUME KInv, KInv', NEW e \in Nat, IsEnded(e), NEW t \in Threads, SubmitFails(t)
  PROVE  Promises
<1>1. IInv
  BY DEF KInv
<1>2. PICK n \in Nat, w \in BOOLEAN, nums \in Seq(Atoms), m \in Nat :
        /\ Chosen(nums, n, w) /\ m \in 0 .. Len(nums)
        /\ Took(katom', nums, m, w) /\ ~ lost /\ lost'
        /\ UNCHANGED <<subs, last_seqno, completed_seqno, fence, told, broken>>
  BY <1>1, SubmitFailsFacts DEF history
<1>3. \A i \in 1 .. Len(subs) : katom'[subs[i].last].st = "live" <=> Live(subs[i].last)
  BY <1>1, <1>2, OldLasts
<1>4. IsEnded(e)'
  BY <1>2, <1>3 DEF IsEnded, Live
<1>5. HasEnded' /\ EndedSubmissions = e /\ EndedSubmissions' = e
  BY <1>4, SameEnd
<1>6. lost' = TRUE
  BY <1>2 DEF KInv, IInv, TypeOK
<1> QED BY <1>2, <1>5, <1>6 DEF Promises, Promise!Next, Promise!Lose

-----------------------------------------------------------------------------
(* An atom ends                                                            *)

(* The last atom of a submission ends after those of all before it.        *)
LEMMA LastsBefore ==
  ASSUME IInv, Chains, NEW i \in 1 .. Len(subs), Ready(subs[i].last),
         NEW j \in 1 .. Len(subs), j < i
  PROVE  ~ Live(subs[j].last)
<1>1. PICK nums \in Seq(Atoms), f \in Nat :
        /\ f \in 1 .. Len(nums)
        /\ NumbersOf(nums) = subs[i].atoms /\ nums[Len(nums)] = subs[i].last
        /\ Chain(katom, subs, nums, f, i - 1)
  BY DEF Chains, RingChain
<1>2. Len(nums) \in 1 .. Len(nums) /\ f >= 1
  BY <1>1
<1>3. ChainAt(nums, f, i) /\ i \in Place
  BY <1>1, <1>2, RingAtoms DEF ChainAt, AtPlace, Place
<1>4. katom[nums[Len(nums)]].kind # "FENCE_WAIT"
  <2>1. LiveIn(katom, nums[Len(nums)]) /\ ~ (Len(nums) < f)
    BY <1>1, <1>2 DEF Ready, Live, LiveIn
  <2> QED BY <1>1, <1>2, <2>1 DEF Chain
<1>5. \A k \in 1 .. i - 1 : ~ Live(subs[k].last)
  BY <1>1, <1>2, <1>3, <1>4, ReadyIsFirst
<1> QED BY <1>5

LEMMA EndLastPromises ==
  ASSUME KInv, KInv', NEW e \in Nat, IsEnded(e), NEW x \in Atoms, EndAtom(x),
         NEW i \in 1 .. Len(subs), x = subs[i].last
  PROVE  Promises
<1>1. IInv /\ Chains /\ OwnersAreKnown
  BY DEF KInv
<1>2. /\ Live(x) /\ Ready(x) /\ UNCHANGED <<subs, last_seqno, completed_seqno, lost, told>>
      /\ \A a \in Atoms : katom'[a].st = "live" <=> (a # x /\ Live(a))
  BY <1>1, EndFacts DEF jm, Live
<1>3. katom[x].kind # "FENCE_TRIGGER" /\ katom[x].sub = subs[i].seqno
  BY <1>1, <1>2, RingAtoms DEF OwnersAreKnown
<1>4. /\ completed_seqno \in Nat /\ last_seqno \in Nat /\ Len(subs) \in Nat
      /\ e \in completed_seqno .. last_seqno /\ last_seqno = completed_seqno + Len(subs)
      /\ \A j \in 1 .. Len(subs) : subs[j].seqno = completed_seqno + j /\ subs[j].last \in Atoms
  BY <1>1, EndedBounds, RingAtoms DEF IsEnded
<1>5. subs[i].seqno = e + 1
  <2>1. subs[i].seqno > e
    BY <1>2 DEF IsEnded
  <2>2. subs[i].seqno = completed_seqno + i
    BY <1>4
  <2>3. CASE i = 1
    BY <1>4, <2>1, <2>2, <2>3
  <2>4. CASE i # 1
    <3>1. PICK j \in 1 .. Len(subs) : j + 1 = i /\ j < i
      <4>1. i - 1 \in 1 .. Len(subs) /\ (i - 1) + 1 = i /\ i - 1 < i
        BY <1>4, <2>4
      <4> QED BY <4>1
    <3>2. ~ Live(subs[j].last)
      BY <1>1, <1>2, <3>1, LastsBefore
    <3>3. ~ (subs[j].seqno > e) /\ subs[j].seqno = completed_seqno + j
      BY <1>4, <3>2 DEF IsEnded
    <3> QED BY <1>4, <2>1, <2>2, <3>1, <3>3
  <2> QED BY <2>3, <2>4
<1>6. \A j \in 1 .. Len(subs) : subs[j].last = x => j = i
  BY <1>1, RingAtoms DEF IInv, SubmissionsOwnTheirNumbers
<1>7. IsEnded(e + 1)' /\ e + 1 \in Nat
  <2>1. e + 1 \in completed_seqno' .. last_seqno'
    BY <1>2, <1>4, <1>5
  <2>2. ASSUME NEW j \in 1 .. Len(subs)
        PROVE  katom'[subs[j].last].st = "live" <=> subs[j].seqno > e + 1
    <3>1. katom'[subs[j].last].st = "live" <=> (j # i /\ subs[j].seqno > e)
      BY <1>2, <1>4, <1>6 DEF IsEnded
    <3> QED BY <1>4, <1>5, <3>1
  <2> QED BY <1>2, <2>1, <2>2 DEF IsEnded, Live
<1>8. HasEnded' /\ EndedSubmissions = e /\ EndedSubmissions' = e + 1
  BY <1>7, EndedIsNow, EndedIsAfter DEF HasEnded
<1>9. e < last_seqno
  BY <1>4, <1>5
<1>10. UNCHANGED fence /\ broken' \in {broken, broken \cup {e + 1}}
  BY <1>3, <1>5 DEF EndAtom
<1> QED BY <1>2, <1>8, <1>9, <1>10 DEF Promises, Promise!Next, Promise!End

LEMMA EndOtherPromises ==
  ASSUME KInv, KInv', NEW e \in Nat, IsEnded(e), NEW x \in Atoms, EndAtom(x),
         \A i \in 1 .. Len(subs) : x # subs[i].last
  PROVE  Promises
<1>1. /\ IInv /\ ThreadsBehave /\ Chains /\ OwnersAreKnown /\ TriggersAreOne
  BY DEF KInv
<1>2. /\ Live(x) /\ Ready(x) /\ UNCHANGED <<subs, last_seqno, completed_seqno, lost, told>>
      /\ \A a \in Atoms : katom'[a].st = "live" <=> (a # x /\ Live(a))
  BY <1>1, EndFacts DEF jm, Live
<1>3. /\ completed_seqno \in Nat /\ last_seqno \in Nat /\ Len(subs) \in Nat
      /\ e \in completed_seqno .. last_seqno /\ last_seqno = completed_seqno + Len(subs)
      /\ \A j \in 1 .. Len(subs) : subs[j].last \in Atoms
  BY <1>1, EndedBounds, RingAtoms DEF IsEnded
<1>4. IsEnded(e)'
  <2>1. \A j \in 1 .. Len(subs) : katom'[subs[j].last].st = "live" <=> Live(subs[j].last)
    BY <1>2, <1>3
  <2> QED BY <1>2, <2>1 DEF IsEnded, Live
<1>5. HasEnded' /\ EndedSubmissions = e /\ EndedSubmissions' = e
  BY <1>4, SameEnd
<1>6. CASE katom[x].kind = "FENCE_TRIGGER"
  <2>1. UNCHANGED broken /\ fence' = [fence EXCEPT ![katom[x].sub] = "signalled"]
    BY <1>6 DEF EndAtom
  <2>2. PICK s \in 1 .. last_seqno : s = katom[x].sub /\ fence[s] = "armed"
    BY <1>1, <1>2, <1>6 DEF TriggersAreOne
  <2>3. s <= e
    <3> SUFFICES ASSUME ~ (s <= e) PROVE FALSE
      OBVIOUS
    <3>1. s \in Nat /\ s > completed_seqno /\ s <= last_seqno /\ s > e
      BY <1>3
    <3>2. PICK i \in 1 .. Len(subs) : subs[i].seqno = s
      BY <1>1, <3>1, InFlight
    <3>3. Live(subs[i].last)
      BY <3>1, <3>2 DEF IsEnded
    <3>4. subs[i].last \in katom[x].data
      BY <1>1, <1>2, <1>6, <2>2, <3>2, <3>3 DEF TriggersAreOne
    <3> QED BY <1>2, <3>4 DEF Ready
  <2>4. s \in 1 .. e
    BY <1>3, <2>3
  <2> QED BY <1>2, <1>5, <2>1, <2>2, <2>4 DEF Promises, Promise!Next, Promise!Signal
<1>7. CASE katom[x].kind # "FENCE_TRIGGER"
  <2>1. UNCHANGED fence /\ (broken' = broken \/ broken' = broken \cup {katom[x].sub})
    BY <1>7 DEF EndAtom
  <2>2. katom[x].sub > e
    BY <1>2, <1>7, EndedUpTo DEF Ended
  <2>3. PICK p \in Place : katom[x].sub = completed_seqno + p
    BY <1>1, <1>2, <1>7, PlaceOf DEF Working
  <2>4. katom[x].sub \in e + 1 .. last_seqno + 1
    BY <1>3, <2>2, <2>3 DEF Place
  <2>5. CASE broken' = broken
    BY <1>2, <1>5, <2>1, <2>5 DEF Promises, Promise!vars
  <2>6. CASE broken' = broken \cup {katom[x].sub}
    BY <1>2, <1>5, <2>1, <2>4, <2>6 DEF Promises, Promise!Next, Promise!Break
  <2> QED BY <2>1, <2>5, <2>6
<1> QED BY <1>6, <1>7

-----------------------------------------------------------------------------
(* The theorem                                                             *)

LEMMA InitPromises == Init => HasEnded /\ Promise!Init
<1> SUFFICES ASSUME Init PROVE HasEnded /\ Promise!Init
  OBVIOUS
<1>1. KInv
  BY InitKInv
<1>2. IsEnded(0) /\ 0 \in Nat
  <2>1. Len(subs) = 0
    BY DEF Init
  <2> QED BY <2>1 DEF Init, IsEnded
<1>3. EndedSubmissions = 0
  BY <1>1, <1>2, EndedIsNow
<1>4. fence = [s \in 1 .. MaxSubmits |-> "none"]
  BY DEF Init, Seqnos
<1> QED BY <1>2, <1>3, <1>4 DEF Init, Promise!Init, HasEnded

LEMMA NextPromises == KInv /\ KInv' /\ HasEnded /\ [Next]_vars => Promises
<1> SUFFICES ASSUME KInv, KInv', HasEnded, [Next]_vars PROVE Promises
  OBVIOUS
<1>1. PICK e \in Nat : IsEnded(e)
  BY DEF HasEnded
<1>2. IInv /\ ThreadsBehave
  BY DEF KInv
<1>3. ASSUME NEW t \in Threads, Loud(t) PROVE Promises
  BY <1>1, <1>3, ReaderPromises, RetirePromises, SubmitPromises, SubmitFailsPromises,
     ExportPromises DEF Loud
<1>4. ASSUME NEW x \in Atoms, EndAtom(x) PROVE Promises
  BY <1>1, <1>4, EndLastPromises, EndOtherPromises
<1> QED BY <1>1, <1>2, <1>3, <1>4, QuietPromises, QuietOrLoud

(* The queue that any number of threads drive, with the kernel's events    *)
(* read by whichever waits, its retries and its failures, implements the   *)
(* in-order queue it promises: submissions end and complete in order, a    *)
(* caller is told only of what is complete on a device that is not lost,   *)
(* and a sync_file signals after the work it stands for.                   *)
THEOREM QueueKeepsItsPromise == Spec => KeepsItsPromise
<1>1. Init => HasEnded /\ Promise!Init
  BY InitPromises
<1>2. KInv /\ KInv' /\ HasEnded /\ [Next]_vars => HasEnded' /\ [Promise!Next]_(Promise!vars)
  BY NextPromises DEF Promises
<1> QED
  BY <1>1, <1>2, KInvHolds, PTL DEF Spec, KeepsItsPromise, Promise!Spec

-----------------------------------------------------------------------------
(* Errors of imported fences                                               *)

OnlyImportsFail == Faults \subseteq {"fence_wait"}

-----------------------------------------------------------------------------
(* The invariant                                                           *)

Unharmed == ~ lost /\ broken = {} /\ \A t \in Threads : ~ call[t].failed

(* Waits for imported fences are known to the ring, and no submission ends *)
(* with one: the last atom of each ended DONE, if it ended.                *)
WaitsAreKnown ==
  \A i \in 1 .. Len(subs) :
    /\ subs[i].waits \subseteq subs[i].atoms /\ subs[i].last \notin subs[i].waits
    /\ \A a \in subs[i].atoms : Live(a) /\ katom[a].kind = "FENCE_WAIT" => a \in subs[i].waits
    /\ katom[subs[i].last].code = "DONE"

(* Nothing depends on the outcome of such a wait, only on its end.         *)
NothingIsCancelled ==
  \A a \in Atoms : Live(a) =>
    /\ ~ katom[a].bad /\ katom[a].code = "DONE"
    /\ \A d \in katom[a].data : d \in Atoms /\ Live(d) /\ katom[d].kind # "FENCE_WAIT"

(* An event of a failure is of such a wait, wherever the event is.         *)
Excused(ev, q) ==
  ev.code # "DONE" => ev.code = "CANCELLED" /\ \E i \in 1 .. Len(q) : ev.atom \in q[i].waits

OnlyWaitsFail ==
  /\ \A p \in 1 .. Len(events) : Excused(events[p], subs)
  /\ \A t \in Threads : \A p \in 1 .. Len(call[t].ev) : Excused(call[t].ev[p], subs)

Harmless == Unharmed /\ WaitsAreKnown /\ NothingIsCancelled /\ OnlyWaitsFail

LEMMA InitHarmless == Init => Harmless
<1> SUFFICES ASSUME Init PROVE Harmless
  OBVIOUS
<1>1. Unharmed
  BY DEF Init, Unharmed, NoCall
<1>2. Len(subs) = 0 /\ Len(events) = 0 /\ \A t \in Threads : Len(call[t].ev) = 0
  BY DEF Init, NoCall
<1>3. \A a \in Atoms : ~ Live(a)
  BY DEF Init, Live, KUnused, KNew
<1> QED
  BY <1>1, <1>2, <1>3 DEF Harmless, WaitsAreKnown, NothingIsCancelled, OnlyWaitsFail

-----------------------------------------------------------------------------
(* Nobody loses the device                                                 *)

(* What a thread keeps of its call is no failure of poll.                  *)
LEMMA CallHasNotFailed ==
  ASSUME IInv, Unharmed, NEW t \in Threads, NEW c,
         call' = [call EXCEPT ![t] = c], ~ c.failed
  PROVE  \A u \in Threads : ~ call'[u].failed
BY DEF IInv, TypeOK, Unharmed

LEMMA LocalsHaveNotFailed ==
  ASSUME IInv, Unharmed, NEW t \in Threads
  PROVE  /\ ~ NoCall.failed
         /\ \A loop : ~ [call[t] EXCEPT !.loop = loop].failed
         /\ \A prog : ~ [call[t] EXCEPT !.prog = prog].failed
         /\ \A ev : ~ [call[t] EXCEPT !.ev = ev].failed
         /\ \A ev, prog : ~ [call[t] EXCEPT !.ev = ev, !.prog = prog].failed
         /\ ~ [call[t] EXCEPT !.failed = FALSE].failed
<1>1. call[t] \in Call /\ ~ call[t].failed
  BY DEF IInv, TypeOK, Unharmed
<1> QED BY <1>1 DEF Call, NoCall

LEMMA ProgressIsHarmless ==
  ASSUME IInv, Unharmed, NEW t \in Threads, Progress(t)
  PROVE  Unharmed'
<1>1. UNCHANGED <<lost, broken>>
  BY DEF Progress, history
<1>2. PICK c : call' = [call EXCEPT ![t] = c] /\ ~ c.failed
  <2>1. CASE call' = call
    BY <2>1 DEF IInv, TypeOK, Unharmed
  <2>2. CASE \E loop : call' = [call EXCEPT ![t].loop = loop]
    <3>1. PICK loop : call' = [call EXCEPT ![t] = [call[t] EXCEPT !.loop = loop]]
      BY <2>2
    <3> QED BY <3>1, LocalsHaveNotFailed
  <2>3. CASE \E prog : call' = [call EXCEPT ![t].prog = prog]
    <3>1. PICK prog : call' = [call EXCEPT ![t] = [call[t] EXCEPT !.prog = prog]]
      BY <2>3
    <3> QED BY <3>1, LocalsHaveNotFailed
  <2> QED BY <2>1, <2>2, <2>3 DEF Progress, ProgressAsFollower, ProgressAsReader
<1>3. \A u \in Threads : ~ call'[u].failed
  BY <1>2, CallHasNotFailed
<1> QED BY <1>1, <1>3 DEF Unharmed

LEMMA CallIsHarmless ==
  ASSUME OnlyImportsFail, IInv, Unharmed, NEW t \in Threads, Start(t) \/ CallStep(t)
  PROVE  Unharmed'
<1>1. CASE Start(t)
  <2>1. UNCHANGED <<lost, broken>>
    BY <1>1 DEF Start, StartWait, StartSubmit, StartExport, Begin, jm, history
  <2>2. PICK c : call' = [call EXCEPT ![t] = c] /\ ~ c.failed
    <3>1. CASE StartWait(t)
      <4>1. PICK s \in 1 .. last_seqno, timeout \in Timeouts :
              Begin(t, "wait", [NoCall EXCEPT !.seqno = s, !.timeout = timeout])
        BY <3>1 DEF StartWait
      <4>2. ~ [NoCall EXCEPT !.seqno = s, !.timeout = timeout].failed
        BY DEF NoCall
      <4> QED BY <4>1, <4>2 DEF Begin
    <3>2. CASE StartSubmit(t)
      <4>1. PICK n \in 0 .. MaxJobs, w \in BOOLEAN :
              Begin(t, "submit", [NoCall EXCEPT !.timeout = "infinite", !.nr_jobs = n, !.wait_fd = w])
        BY <3>2 DEF StartSubmit
      <4>2. ~ [NoCall EXCEPT !.timeout = "infinite", !.nr_jobs = n, !.wait_fd = w].failed
        BY DEF NoCall
      <4> QED BY <4>1, <4>2 DEF Begin
    <3>3. CASE StartExport(t)
      <4>1. PICK s \in 1 .. last_seqno :
              Begin(t, "export", [NoCall EXCEPT !.seqno = s, !.timeout = "infinite"])
        BY <3>3 DEF StartExport
      <4>2. ~ [NoCall EXCEPT !.seqno = s, !.timeout = "infinite"].failed
        BY DEF NoCall
      <4> QED BY <4>1, <4>2 DEF Begin
    <3> QED BY <1>1, <3>1, <3>2, <3>3 DEF Start
  <2>3. \A u \in Threads : ~ call'[u].failed
    BY <2>2, CallHasNotFailed
  <2> QED BY <2>1, <2>3 DEF Unharmed
<1>2. CASE WaitMore(t) \/ SubmitWaits(t) \/ ExportWaits(t)
  BY <1>2, ProgressIsHarmless DEF WaitMore, SubmitWaits, ExportWaits
<1>3. CASE ExportNeedsFence(t) \/ ExportLooksAgain(t)
  BY <1>3 DEF ExportNeedsFence, ExportLooksAgain, jm, history, Unharmed
<1>4. CASE \/ WaitReturns(t) \/ SubmitReturns(t) \/ Submit(t) \/ ExportReturns(t)
           \/ ExportAllocFails(t) \/ ExportTrigger(t)
  <2>1. UNCHANGED <<lost, broken>> /\ Return(t)
    BY <1>4 DEF WaitReturns, SubmitReturns, Submit, ExportReturns, ExportAllocFails,
                ExportTrigger, jm, history
  <2>2. \A u \in Threads : ~ call'[u].failed
    BY <2>1, LocalsHaveNotFailed, CallHasNotFailed DEF Return
  <2> QED BY <2>1, <2>2 DEF Unharmed
<1>5. CASE SubmitFails(t) \/ ExportTriggerFails(t) \/ ExportNoFd(t)
  BY <1>5 DEF SubmitFails, ExportTriggerFails, ExportNoFd, OnlyImportsFail
<1> QED BY <1>1, <1>2, <1>3, <1>4, <1>5 DEF CallStep

(* The reader's next event is the first in its hands.                      *)
LEMMA NextEvent ==
  ASSUME IInv, NEW t \in Threads, NEW ev \in Event, TakeEvent(t, ev)
  PROVE  /\ ev.atom \in Atoms /\ 1 \in 1 .. Len(call[t].ev) /\ ev = call[t].ev[1]
         /\ call' = [call EXCEPT ![t].ev = Tail(call[t].ev)]
         /\ UNCHANGED <<katom, events, broken>>
<1>1. call[t].ev \in Seq(Event) /\ call[t].ev # <<>> /\ ev = Head(call[t].ev)
  BY EventTypes DEF IInv, TakeEvent
<1>2. 1 \in 1 .. Len(call[t].ev) /\ ev = call[t].ev[1]
  BY <1>1
<1>3. ev.atom \in Atoms
  BY DEF Event
<1> QED BY <1>2, <1>3 DEF TakeEvent, kernel, history

(* Only a failure of a FENCE_WAIT is in hand, and that is not fatal.       *)
LEMMA NoFatalEvent ==
  ASSUME IInv, Harmless, NEW t \in Threads, NEW ev \in Event, TakeEvent(t, ev)
  PROVE  /\ IsAux(ev.atom) => ~ Fatal(ev, {})
         /\ \A i \in FindSub(ev.atom) : ~ Fatal(ev, subs[i].waits)
<1> SUFFICES ASSUME ev.code # "DONE"
             PROVE  /\ ~ IsAux(ev.atom) /\ ev.code = "CANCELLED"
                    /\ \A i \in FindSub(ev.atom) : ev.atom \in subs[i].waits
  BY DEF Fatal
<1>1. Excused(ev, subs)
  BY NextEvent DEF Harmless, OnlyWaitsFail
<1>2. PICK j \in 1 .. Len(subs) : ev.atom \in subs[j].waits
  BY <1>1 DEF Excused
<1>3. ev.atom \in subs[j].atoms
  BY <1>2 DEF Harmless, WaitsAreKnown
<1>4. ~ IsAux(ev.atom)
  BY <1>3, RingAtoms DEF IsAux
<1>5. \A i \in FindSub(ev.atom) : i = j
  BY <1>3 DEF FindSub, IInv, SubmissionsOwnTheirNumbers
<1> QED BY <1>1, <1>2, <1>4, <1>5 DEF Excused

LEMMA ReaderIsHarmless ==
  ASSUME OnlyImportsFail, IInv, Harmless, NEW t \in Threads,
         \/ ReaderStep(t) \/ Lock(t) \/ CondWoken(t) \/ CondSpurious(t) \/ CondTimedOut(t)
  PROVE  Unharmed'
<1>0. Unharmed
  BY DEF Harmless
<1>1. CASE PollEvents(t)
  <2>1. UNCHANGED <<lost, broken>>
    BY <1>1 DEF PollEvents, jm, history
  <2>2. PICK ev : call' = [call EXCEPT ![t].ev = ev, ![t].prog = TRUE]
    BY <1>1 DEF PollEvents
  <2>3. call' = [call EXCEPT ![t] = [call[t] EXCEPT !.ev = ev, !.prog = TRUE]]
    BY <2>2 DEF IInv, TypeOK
  <2>4. \A u \in Threads : ~ call'[u].failed
    BY <1>0, <2>3, LocalsHaveNotFailed, CallHasNotFailed
  <2> QED BY <1>0, <2>1, <2>4 DEF Unharmed
<1>2. CASE PollFailed(t)
  BY <1>2 DEF PollFailed, OnlyImportsFail
<1>3. CASE PollTimedOut(t) \/ CondWoken(t) \/ CondSpurious(t) \/ CondTimedOut(t)
  <2>1. UNCHANGED <<lost, broken>>
    BY <1>3 DEF PollTimedOut, CondWoken, CondSpurious, CondTimedOut, CondReturn, jm, history
  <2>2. PICK prog : call' = [call EXCEPT ![t].prog = prog]
    BY <1>3 DEF PollTimedOut, CondWoken, CondSpurious, CondTimedOut, CondReturn
  <2>3. \A u \in Threads : ~ call'[u].failed
    BY <1>0, <2>2, LocalsHaveNotFailed, CallHasNotFailed
  <2> QED BY <1>0, <2>1, <2>3 DEF Unharmed
<1>4. CASE Lock(t) \/ RetireOldest(t)
  BY <1>0, <1>4 DEF Lock, RetireOldest, jm, threads, history, Unharmed
<1>5. CASE HandleAuxEvent(t) \/ HandleSubEvent(t) \/ HandleUnknownEvent(t)
  <2>1. PICK ev \in Event : TakeEvent(t, ev) /\ ~ lost'
    <3>1. CASE HandleAuxEvent(t)
      BY <1>0, <3>1, NoFatalEvent DEF HandleAuxEvent, Unharmed
    <3>2. CASE HandleSubEvent(t)
      BY <1>0, <3>2, NoFatalEvent DEF HandleSubEvent, Unharmed
    <3>3. CASE HandleUnknownEvent(t)
      BY <1>0, <3>3 DEF HandleUnknownEvent, Unharmed
    <3> QED BY <1>5, <3>1, <3>2, <3>3
  <2>2. UNCHANGED broken /\ call' = [call EXCEPT ![t].ev = Tail(call[t].ev)]
    BY <2>1, NextEvent
  <2>3. \A u \in Threads : ~ call'[u].failed
    BY <1>0, <2>2, LocalsHaveNotFailed, CallHasNotFailed
  <2> QED BY <1>0, <2>1, <2>2, <2>3 DEF Unharmed
<1>6. CASE FinishProgress(t)
  <2>1. /\ lost' = (lost \/ call[t].failed) /\ UNCHANGED broken
        /\ call' = [call EXCEPT ![t].failed = FALSE]
    BY <1>6 DEF FinishProgress, history
  <2>2. \A u \in Threads : ~ call'[u].failed
    BY <1>0, <2>1, LocalsHaveNotFailed, CallHasNotFailed
  <2> QED BY <1>0, <2>1, <2>2 DEF Unharmed
<1> QED BY <1>1, <1>2, <1>3, <1>4, <1>5, <1>6 DEF ReaderStep

-----------------------------------------------------------------------------
(* Events of failures stay those of waits                                  *)

(* The ring keeps its submissions, up to what is done and exported.        *)
RingKept ==
  /\ Len(subs') = Len(subs)
  /\ \A i \in 1 .. Len(subs) :
       /\ subs'[i].last = subs[i].last /\ subs'[i].atoms = subs[i].atoms
       /\ subs'[i].waits = subs[i].waits

(* The kernel's atoms keep what matters here.                              *)
AtomsKept ==
  \A a \in Atoms : /\ Live(a)' <=> Live(a)
                   /\ Live(a) => katom'[a] = katom[a]
                   /\ katom'[a].code = katom[a].code

LEMMA AtomsKeptKeeps ==
  ASSUME IInv, Harmless, RingKept, AtomsKept
  PROVE  WaitsAreKnown' /\ NothingIsCancelled'
<1>1. \A i \in 1 .. Len(subs) : subs[i].last \in Atoms /\ subs[i].atoms \subseteq Atoms
  BY RingAtoms
<1>2. WaitsAreKnown'
  BY <1>1 DEF Harmless, WaitsAreKnown, RingKept, AtomsKept
<1>3. NothingIsCancelled'
  BY DEF Harmless, NothingIsCancelled, AtomsKept
<1> QED BY <1>2, <1>3

LEMMA WaitsStand ==
  ASSUME RingKept, NEW ev, Excused(ev, subs)
  PROVE  Excused(ev, subs')
BY DEF RingKept, Excused

LEMMA QuietKeepsHarmless ==
  ASSUME IInv, Harmless, Quiet, Unharmed'
  PROVE  Harmless'
<1>1. RingKept /\ AtomsKept /\ UNCHANGED events /\ \A u \in Threads : call'[u].ev = call[u].ev
  BY DEF Quiet, HandsKept, RingKept, AtomsKept, Live
<1>2. WaitsAreKnown' /\ NothingIsCancelled'
  BY <1>1, AtomsKeptKeeps
<1>3. /\ \A p \in 1 .. Len(events') : Excused(events'[p], subs')
      /\ \A u \in Threads : \A p \in 1 .. Len(call'[u].ev) : Excused(call'[u].ev[p], subs')
  BY <1>1, WaitsStand DEF Harmless, OnlyWaitsFail
<1> QED BY <1>2, <1>3 DEF Harmless, OnlyWaitsFail

LEMMA PollKeepsHarmless ==
  ASSUME IInv, ThreadsBehave, Places, Harmless, NEW t \in Threads, PollEvents(t), Unharmed'
  PROVE  Harmless'
<1> DEFINE n == IF Len(events) < MaxRead THEN Len(events) ELSE MaxRead
           read == {events[i].atom : i \in 1 .. n}
<1>1. /\ events \in Seq(Event) /\ Len(events) \in Nat
      /\ n \in Nat /\ n <= Len(events)
  BY EventTypes, BoundsAssumption DEF IInv
<1>2. /\ events' = SubSeq(events, n + 1, Len(events))
      /\ call' = [call EXCEPT ![t].ev = SubSeq(events, 1, n), ![t].prog = TRUE]
      /\ katom' = [a \in Atoms |-> IF a \in read THEN KUnused(katom[a].code) ELSE katom[a]]
      /\ UNCHANGED subs
  BY DEF PollEvents, jm
<1>3. call \in [Threads -> Call]
  BY DEF IInv, TypeOK
<1>4. call'[t].ev = SubSeq(events, 1, n) /\ \A u \in Threads : u # t => call'[u] = call[u]
  BY <1>2, <1>3 DEF Call
<1>5. \A a \in read : katom[a].st = "ended"
  BY <1>1 DEF Places, EventsAreEnded
<1> HIDE DEF read
<1>6. AtomsKept
  BY <1>2, <1>5 DEF AtomsKept, Live, KUnused, KNew
<1>7. RingKept
  BY <1>2 DEF RingKept
<1>8. PICK k \in Nat : k = n
  BY <1>1
<1>9. /\ call'[t].ev = SubSeq(events, 1, k) /\ events' = SubSeq(events, k + 1, Len(events))
      /\ k <= Len(events)
  BY <1>1, <1>2, <1>4, <1>8
<1> HIDE DEF n
<1>10. \A p \in 1 .. Len(call'[t].ev) : call'[t].ev[p] = events[p] /\ p \in 1 .. Len(events)
  BY <1>1, <1>9
<1>11. \A p \in 1 .. Len(events') : events'[p] = events[k + p] /\ k + p \in 1 .. Len(events)
  BY <1>1, <1>9
<1>12. \A p \in 1 .. Len(events) : Excused(events[p], subs')
  BY <1>7, WaitsStand DEF Harmless, OnlyWaitsFail
<1>13. \A p \in 1 .. Len(events') : Excused(events'[p], subs')
  BY <1>11, <1>12
<1>14. \A p \in 1 .. Len(call'[t].ev) : Excused(call'[t].ev[p], subs')
  BY <1>10, <1>12
<1>15. \A u \in Threads : u # t =>
         \A p \in 1 .. Len(call'[u].ev) : Excused(call'[u].ev[p], subs')
  BY <1>4, <1>7, WaitsStand DEF Harmless, OnlyWaitsFail
<1>16. WaitsAreKnown' /\ NothingIsCancelled'
  BY <1>6, <1>7, AtomsKeptKeeps
<1> QED BY <1>13, <1>14, <1>15, <1>16 DEF Harmless, OnlyWaitsFail

LEMMA HandlingKeepsHarmless ==
  ASSUME IInv, Harmless, NEW t \in Threads, Unharmed',
         HandleAuxEvent(t) \/ HandleSubEvent(t) \/ HandleUnknownEvent(t)
  PROVE  Harmless'
<1>1. PICK ev \in Event : TakeEvent(t, ev) /\ RingKept
  <2>1. CASE HandleAuxEvent(t) \/ HandleUnknownEvent(t)
    BY <2>1 DEF HandleAuxEvent, HandleUnknownEvent, RingKept
  <2>2. CASE HandleSubEvent(t)
    <3>1. PICK ev \in Event : /\ TakeEvent(t, ev)
             /\ \E i \in FindSub(ev.atom) :
                  subs' = [subs EXCEPT ![i].done = @ \/ Completes(subs[i], ev.atom)]
      BY <2>2 DEF HandleSubEvent
    <3>2. PICK i \in 1 .. Len(subs) :
            subs' = [subs EXCEPT ![i].done = @ \/ Completes(subs[i], ev.atom)]
      BY <3>1 DEF FindSub
    <3>3. RingKept
      BY <3>2, RingAtoms DEF Sub, RingKept
    <3> QED BY <3>1, <3>3
  <2> QED BY <2>1, <2>2
<1>2. /\ call' = [call EXCEPT ![t].ev = Tail(call[t].ev)]
      /\ UNCHANGED <<katom, events>>
  BY <1>1, NextEvent
<1>3. WaitsAreKnown' /\ NothingIsCancelled'
  <2>1. AtomsKept
    BY <1>2 DEF AtomsKept, Live
  <2> QED BY <1>1, <2>1, AtomsKeptKeeps
<1>4. \A p \in 1 .. Len(events') : Excused(events'[p], subs')
  BY <1>1, <1>2, WaitsStand DEF Harmless, OnlyWaitsFail
<1>5. \A u \in Threads : \A p \in 1 .. Len(call[u].ev) : Excused(call[u].ev[p], subs')
  BY <1>1, WaitsStand DEF Harmless, OnlyWaitsFail
<1>6. \A p \in 1 .. Len(call'[t].ev) :
        p + 1 \in 1 .. Len(call[t].ev) /\ call'[t].ev[p] = call[t].ev[p + 1]
  <2>1. call'[t].ev = Tail(call[t].ev)
    BY <1>2 DEF IInv, TypeOK, Call
  <2>2. call[t].ev \in Seq(Event) /\ call[t].ev # <<>>
    BY <1>1, EventTypes DEF IInv, TakeEvent
  <2> QED BY <2>1, <2>2
<1>7. \A u \in Threads : u # t => call'[u] = call[u]
  BY <1>2
<1>8. \A u \in Threads : \A p \in 1 .. Len(call'[u].ev) : Excused(call'[u].ev[p], subs')
  BY <1>5, <1>6, <1>7
<1> QED BY <1>3, <1>4, <1>8 DEF Harmless, OnlyWaitsFail

(* A submission is retired when nothing of it is on its way any more.      *)
LEMMA RetireKeepsHarmless ==
  ASSUME IInv, Places, Harmless, NEW t \in Threads, RetireOldest(t), Unharmed'
  PROVE  Harmless'
<1>1. /\ UNCHANGED <<katom, events, call>>
      /\ 1 \in 1 .. Len(subs) /\ subs[1].done /\ Len(subs') = Len(subs) - 1
      /\ \A i \in 1 .. Len(subs') : subs'[i] = subs[i + 1]
  BY RetireFacts
<1>2. Len(subs) \in Nat /\ \A i \in 1 .. Len(subs') : i + 1 \in 1 .. Len(subs)
  BY <1>1, RingAtoms
<1>3. WaitsAreKnown' /\ NothingIsCancelled'
  <2>1. WaitsAreKnown'
    <3>1. \A i \in 1 .. Len(subs') : i + 1 \in 1 .. Len(subs) /\ subs'[i] = subs[i + 1]
      BY <1>1, <1>2
    <3> SUFFICES ASSUME NEW i \in 1 .. Len(subs')
                 PROVE  /\ subs[i + 1].waits \subseteq subs[i + 1].atoms
                        /\ subs[i + 1].last \notin subs[i + 1].waits
                        /\ \A a \in subs[i + 1].atoms :
                             katom[a].st = "live" /\ katom[a].kind = "FENCE_WAIT"
                               => a \in subs[i + 1].waits
                        /\ katom[subs[i + 1].last].code = "DONE"
      BY <1>1, <3>1 DEF WaitsAreKnown, Live
    <3>2. i + 1 \in 1 .. Len(subs)
      BY <3>1
    <3> QED BY <3>2 DEF Harmless, WaitsAreKnown, Live
  <2>2. NothingIsCancelled'
    BY <1>1, <1>2 DEF Harmless, NothingIsCancelled, Live
  <2> QED BY <2>1, <2>2
<1>4. ASSUME NEW ev, Excused(ev, subs), ev.atom \notin subs[1].atoms
      PROVE  Excused(ev, subs')
  <2> SUFFICES ASSUME ev.code # "DONE"
               PROVE  \E i \in 1 .. Len(subs') : ev.atom \in subs'[i].waits
    BY <1>4 DEF Excused
  <2>1. PICK i \in 1 .. Len(subs) : ev.atom \in subs[i].waits
    BY <1>4 DEF Excused
  <2>2. i # 1
    BY <1>1, <1>4, <2>1 DEF Harmless, WaitsAreKnown
  <2>3. i - 1 \in 1 .. Len(subs') /\ (i - 1) + 1 = i
    BY <1>1, <1>2, <2>2
  <2>4. subs'[i - 1] = subs[i]
    BY <1>1, <2>3
  <2> QED BY <2>1, <2>3, <2>4
<1>5. \A a \in subs[1].atoms : katom[a].st = "unused" /\ ~ InHand(a)
  BY <1>1 DEF Places, DoneIsOver
<1>6. \A p \in 1 .. Len(events) : Excused(events[p], subs')
  <2>1. \A p \in 1 .. Len(events) : events[p].atom \notin subs[1].atoms
    BY <1>5 DEF Places, EventsAreEnded
  <2> QED BY <1>4, <2>1 DEF Harmless, OnlyWaitsFail
<1>7. \A u \in Threads : \A p \in 1 .. Len(call[u].ev) : Excused(call[u].ev[p], subs')
  <2>1. \A u \in Threads : \A p \in 1 .. Len(call[u].ev) : call[u].ev[p].atom \notin subs[1].atoms
    BY <1>5 DEF InHand
  <2> QED BY <1>4, <2>1 DEF Harmless, OnlyWaitsFail
<1> QED BY <1>1, <1>3, <1>6, <1>7 DEF Harmless, OnlyWaitsFail

-----------------------------------------------------------------------------
(* New atoms                                                               *)

LEMMA EnqueuedOutcome ==
  ASSUME katom \in [Atoms -> KAtom], NEW new, NEW a \in Atoms,
         a \in DOMAIN new, new[a] \in KAtom
  PROVE  /\ Enqueued(new)[a].code = new[a].code
         /\ Enqueued(new)[a].bad => \E d \in new[a].data : ~ Live(d) /\ d \notin DOMAIN new
                                                           /\ katom[d].code # "DONE"
<1> DEFINE bad == \E d \in new[a].data : /\ ~ (d \in DOMAIN new \/ Live(d))
                                         /\ katom[d].code # "DONE"
           order == {d \in new[a].order : d \in DOMAIN new \/ Live(d)}
           data == {d \in new[a].data : d \in DOMAIN new \/ Live(d)}
<1>1. Enqueued(new)[a] = [new[a] EXCEPT !.order = order, !.data = data, !.bad = bad]
  BY DEF Enqueued
<1> HIDE DEF bad, order, data
<1>2. Enqueued(new)[a].code = new[a].code /\ Enqueued(new)[a].bad = bad
  BY <1>1 DEF KAtom
<1> QED BY <1>2 DEF bad

(* Among the new atoms of a submission only jobs depend on data, of jobs.  *)
SentFine(K, nums, w) ==
  \A k \in 1 .. Len(nums) :
    /\ ~ K[nums[k]].bad /\ K[nums[k]].code = "DONE"
    /\ \A d \in K[nums[k]].data :
         k - 1 \in 1 .. Len(nums) /\ d = nums[k - 1] /\ ~ (k - 1 < FirstJob(w))

LEMMA SentAreFine ==
  ASSUME IInv, NEW n \in Nat, NEW w \in BOOLEAN, NEW nums, Chosen(nums, n, w),
         NEW K, K = Enqueued(AtomsToSubmit(nums, Len(nums), n, w))
  PROVE  SentFine(K, nums, w)
<1> SUFFICES ASSUME NEW k \in 1 .. Len(nums)
             PROVE  /\ ~ K[nums[k]].bad /\ K[nums[k]].code = "DONE"
                    /\ \A d \in K[nums[k]].data :
                         k - 1 \in 1 .. Len(nums) /\ d = nums[k - 1] /\ ~ (k - 1 < FirstJob(w))
  BY DEF SentFine
<1> DEFINE m == Len(nums)
           new == AtomsToSubmit(nums, m, n, w)
           rec == SubmissionAtom(nums, k, n, w)
<1>1. /\ nums \in Seq(Atoms) /\ m \in Nat /\ m \in 0 .. Len(nums)
      /\ \A i, j \in 1 .. Len(nums) : nums[i] = nums[j] => i = j
  BY DEF Chosen
<1>2. DOMAIN new = Sent(nums, m)
  BY DEF AtomsToSubmit, Sent
<1>3. nums[k] \in Sent(nums, m) /\ nums[k] \in Atoms /\ new[nums[k]] = rec
  BY <1>1, SentAtom
<1>4. rec \in KAtom
  <2>1. \A a \in DOMAIN new : new[a] \in KAtom
    BY <1>1, AtomsToSubmitType DEF IInv
  <2> QED BY <1>2, <1>3, <2>1
<1>5. katom \in [Atoms -> KAtom] /\ K = Enqueued(new)
  BY DEF IInv, TypeOK
<1>6. rec.code = "DONE"
  BY DEF SubmissionAtom, KNew
<1>7. \A d \in rec.data : k - 1 \in 1 .. Len(nums) /\ d = nums[k - 1] /\ ~ (k - 1 < FirstJob(w))
  <2>1. CASE (w /\ k = 1) \/ n = 0 \/ k = FirstJob(w)
    BY <2>1 DEF SubmissionAtom, KNew, FirstJob
  <2>2. CASE ~ (w /\ k = 1) /\ n # 0 /\ k # FirstJob(w)
    <3>1. rec.data = {nums[k - 1]}
      BY <2>2 DEF SubmissionAtom, KNew, FirstJob
    <3>2. k - 1 \in 1 .. Len(nums) /\ ~ (k - 1 < FirstJob(w))
      BY <1>1, <2>2 DEF FirstJob
    <3> HIDE DEF rec
    <3> QED BY <3>1, <3>2
  <2> QED BY <2>1, <2>2
<1> HIDE DEF new, rec, m
<1>8. /\ K[nums[k]].code = rec.code
      /\ K[nums[k]].bad => \E d \in rec.data : d \notin DOMAIN new
      /\ K[nums[k]].data = {d \in rec.data : d \in DOMAIN new \/ Live(d)}
  BY <1>2, <1>3, <1>4, <1>5, EnqueuedOutcome, EnqueuedAtom
<1>9. \A d \in rec.data : d \in DOMAIN new
  BY <1>2, <1>7 DEF Sent, m
<1> QED BY <1>6, <1>7, <1>8, <1>9

(* A wait for an imported fence is never all of a submission.              *)
LEMMA WaitIsNotAlone ==
  ASSUME NEW w, w, NEW m \in Nat, FirstJob(w) \in 1 .. m
  PROVE  m # 1
<1>1. FirstJob(w) = 2
  BY DEF FirstJob
<1>2. 2 \in 1 .. m
  BY ONLY <1>1, FirstJob(w) \in 1 .. m, ZenonT(60)
<1> QED BY ONLY <1>2, m \in Nat

LEMMA SubmitKeepsHarmless ==
  ASSUME IInv, ThreadsBehave, Places, Harmless, NEW t \in Threads, Submit(t), Unharmed'
  PROVE  Harmless'
<1> DEFINE n == call[t].nr_jobs
           w == call[t].wait_fd
<1>1. PICK nums \in Allocations(Needed(t)) :
        /\ katom' = Enqueued(AtomsToSubmit(nums, Len(nums), n, w))
        /\ subs' = Append(subs,
                     [seqno |-> last_seqno + 1, last |-> nums[Len(nums)],
                      done |-> FALSE, fence |-> FALSE,
                      atoms |-> NumbersOf(nums),
                      waits |-> IF w THEN {nums[1]} ELSE {}])
  BY DEF Submit
<1>2. /\ Chosen(nums, n, w) /\ n \in Nat /\ w \in BOOLEAN /\ nums \in Seq(Atoms)
      /\ FirstJob(w) \in 1 .. Len(nums) /\ Len(nums) \in Nat
  BY ChosenNumbers DEF Chosen
<1>0. ASSUME w PROVE Len(nums) # 1
  BY <1>0, <1>2, WaitIsNotAlone
<1>3. Took(katom', nums, Len(nums), w)
  BY <1>1, <1>2, SentFacts
<1>4. SentFine(katom', nums, w)
  BY <1>1, <1>2, SentAreFine
<1>5. pc[t] = "submit" /\ Return(t) /\ UNCHANGED events
  BY DEF Submit, Holds
<1> DEFINE sub == subs'[Len(subs) + 1]
<1>6. /\ Len(subs') = Len(subs) + 1 /\ \A i \in 1 .. Len(subs) : subs'[i] = subs[i]
      /\ sub.last = nums[Len(nums)] /\ sub.atoms = NumbersOf(nums)
      /\ sub.waits = IF w THEN {nums[1]} ELSE {}
  BY <1>1, RingAtoms
<1>7. /\ \A k \in 1 .. Len(nums) : nums[k] \in Atoms
      /\ \A i, j \in 1 .. Len(nums) : nums[i] = nums[j] => i = j
      /\ NumbersOf(nums) \in SUBSET Free /\ Sent(nums, Len(nums)) = NumbersOf(nums)
      /\ NumbersOf(nums) = {nums[k] : k \in 1 .. Len(nums)}
  BY <1>2 DEF Chosen, Sent, NumbersOf
<1>8. \A a \in Atoms : a \notin NumbersOf(nums) => katom'[a] = katom[a]
  BY <1>3, <1>7 DEF Took
<1>9. \A a \in NumbersOf(nums) : katom[a].st = "unused" /\ atom_use[a] = "FREE"
  BY <1>7, FreeIdle DEF IInv, Places, Free
<1> HIDE DEF n, w, sub
<1>10. WaitsAreKnown'
  <2>1. ASSUME NEW i \in 1 .. Len(subs)
        PROVE  /\ subs'[i].waits \subseteq subs'[i].atoms /\ subs'[i].last \notin subs'[i].waits
               /\ \A a \in subs'[i].atoms :
                    katom'[a].st = "live" /\ katom'[a].kind = "FENCE_WAIT" => a \in subs'[i].waits
               /\ katom'[subs'[i].last].code = "DONE"
    <3>1. \A a \in subs[i].atoms : a \in Atoms /\ katom'[a] = katom[a]
      BY <1>8, <1>9, RingAtoms
    <3>2. subs[i].last \in subs[i].atoms
      BY RingAtoms
    <3> QED BY <1>6, <3>1, <3>2 DEF Harmless, WaitsAreKnown, Live
  <2>2. /\ sub.waits \subseteq sub.atoms /\ sub.last \notin sub.waits
        /\ \A a \in sub.atoms :
             katom'[a].st = "live" /\ katom'[a].kind = "FENCE_WAIT" => a \in sub.waits
        /\ katom'[sub.last].code = "DONE"
    <3>1. 1 \in 1 .. Len(nums) /\ Len(nums) \in 1 .. Len(nums)
      BY <1>2
    <3>2. sub.waits \subseteq sub.atoms /\ sub.last \notin sub.waits
      <4>1. CASE w
        <5>1. nums[1] # nums[Len(nums)] /\ nums[1] \in NumbersOf(nums)
          BY <1>0, <1>7, <3>1, <4>1
        <5> QED BY <1>6, <4>1, <5>1
      <4>2. CASE ~ w
        BY <1>6, <4>2
      <4> QED BY <4>1, <4>2
    <3>3. katom'[sub.last].code = "DONE"
      BY <1>4, <1>6, <3>1 DEF SentFine
    <3>4. ASSUME NEW k \in 1 .. Len(nums), katom'[nums[k]].kind = "FENCE_WAIT"
          PROVE  nums[k] \in sub.waits
      <4>1. k < FirstJob(w)
        BY <1>3, <3>4 DEF Took
      <4>2. w /\ k = 1
        BY <4>1 DEF FirstJob
      <4> QED BY <1>6, <4>2
    <3> QED BY <1>6, <1>7, <3>2, <3>3, <3>4
  <2>3. \A i \in 1 .. Len(subs') : i \in 1 .. Len(subs) \/ i = Len(subs) + 1
    <3>1. Len(subs) \in Nat
      BY RingAtoms
    <3> QED BY <1>6, <3>1
  <2> QED BY <2>1, <2>2, <2>3 DEF WaitsAreKnown, Live, sub
<1>11. NothingIsCancelled'
  <2> SUFFICES ASSUME NEW a \in Atoms, katom'[a].st = "live"
               PROVE  /\ ~ katom'[a].bad /\ katom'[a].code = "DONE"
                      /\ \A d \in katom'[a].data :
                           /\ d \in Atoms /\ katom'[d].st = "live"
                           /\ katom'[d].kind # "FENCE_WAIT"
    BY DEF NothingIsCancelled, Live
  <2>1. CASE a \notin NumbersOf(nums)
    <3>1. katom'[a] = katom[a] /\ Live(a)
      BY <1>8, <2>1 DEF Live
    <3>2. \A d \in katom[a].data : d \in Atoms /\ Live(d) /\ katom[d].kind # "FENCE_WAIT"
      BY <3>1 DEF Harmless, NothingIsCancelled
    <3>3. \A d \in katom[a].data : katom'[d] = katom[d]
      BY <1>8, <1>9, <3>2 DEF Live
    <3> QED BY <3>1, <3>2, <3>3 DEF Harmless, NothingIsCancelled, Live
  <2>2. CASE a \in NumbersOf(nums)
    <3>1. PICK k \in 1 .. Len(nums) : nums[k] = a
      BY <1>7, <2>2
    <3>2. ASSUME NEW d \in katom'[a].data
          PROVE  d \in Atoms /\ katom'[d].st = "live" /\ katom'[d].kind # "FENCE_WAIT"
      <4>1. PICK j \in 1 .. Len(nums) : d = nums[j] /\ ~ (j < FirstJob(w))
        BY <1>4, <3>1 DEF SentFine
      <4> QED BY <1>3, <4>1 DEF Took, LiveIn
    <3> QED BY <1>4, <3>1, <3>2 DEF SentFine
  <2> QED BY <2>1, <2>2
<1>12. \A ev : Excused(ev, subs) => Excused(ev, subs')
  BY <1>6, RingAtoms DEF Excused
<1>13. \A u \in Threads : call'[u].ev = call[u].ev
  BY <1>5, ReturnKeepsHands DEF HandsKept
<1>14. /\ \A p \in 1 .. Len(events') : Excused(events'[p], subs')
       /\ \A u \in Threads : \A p \in 1 .. Len(call'[u].ev) : Excused(call'[u].ev[p], subs')
  BY <1>5, <1>12, <1>13 DEF Harmless, OnlyWaitsFail
<1> QED BY <1>10, <1>11, <1>14 DEF Harmless, OnlyWaitsFail

(* A trigger for a sync_file waits for the last atom of its submission,    *)
(* which does not fail.                                                    *)
LEMMA ExportKeepsHarmless ==
  ASSUME IInv, ThreadsBehave, Places, Harmless, NEW t \in Threads, ExportTrigger(t), Unharmed'
  PROVE  Harmless'
<1> DEFINE s == call[t].seqno
           j == s - Head(subs).seqno + 1
<1>1. /\ j \in 1 .. Len(subs) /\ SubOf(s) = subs[j]
      /\ TriggerAtom(s) \in KAtom /\ pc[t] = "export_alloc"
  BY ExportSlot DEF ExportTrigger
<1>2. /\ subs' = [subs EXCEPT ![j].fence = TRUE] /\ Return(t) /\ UNCHANGED events
  BY DEF ExportTrigger
<1>3. PICK nums \in Allocations(1) :
        /\ Allocate(nums, "AUX")
        /\ katom' = Enqueued([a \in {nums[1]} |-> TriggerAtom(s)])
  BY DEF ExportTrigger
<1> DEFINE x == nums[1]
           new == [a \in {x} |-> TriggerAtom(s)]
<1>4. x \in Atoms /\ atom_use[x] = "FREE"
  BY <1>3, OneNumber
<1>5. \A u \in Threads : call'[u].ev = call[u].ev
  BY <1>1, <1>2, ReturnKeepsHands DEF HandsKept
<1>6. /\ katom \in [Atoms -> KAtom] /\ katom' = Enqueued(new)
      /\ DOMAIN new = {x} /\ new[x] = TriggerAtom(s)
  BY <1>3 DEF IInv, TypeOK
<1>7. RingKept
  BY <1>1, <1>2, RingAtoms DEF Sub, RingKept
<1>8. /\ TriggerAtom(s).kind = "FENCE_TRIGGER" /\ TriggerAtom(s).data = {subs[j].last}
      /\ TriggerAtom(s).code = "DONE"
  BY <1>1 DEF TriggerAtom, KNew
<1>9. /\ subs[j].last \in Atoms /\ subs[j].last \in subs[j].atoms
      /\ katom[subs[j].last].code = "DONE"
      /\ Live(subs[j].last) => katom[subs[j].last].kind # "FENCE_WAIT"
  BY <1>1, RingAtoms DEF Harmless, WaitsAreKnown
<1>10. ~ Live(x) /\ \A i \in 1 .. Len(subs) : x \notin subs[i].atoms
  BY <1>4, FreeIdle, RingAtoms DEF IInv, Places, Free, Live
<1> HIDE DEF new, x, s, j
<1>11. \A a \in Atoms : a # x => katom'[a] = katom[a]
  BY <1>6, EnqueuedAtom
<1>12. /\ katom'[x].kind = "FENCE_TRIGGER" /\ katom'[x].code = "DONE" /\ ~ katom'[x].bad
       /\ \A d \in katom'[x].data : d = subs[j].last /\ (d = x \/ Live(d))
  BY <1>1, <1>4, <1>6, <1>8, <1>9, EnqueuedAtom, EnqueuedOutcome
<1>13. subs[j].last # x
  BY <1>1, <1>9, <1>10
<1>14. WaitsAreKnown'
  <2>1. \A i \in 1 .. Len(subs) : \A a \in subs[i].atoms : a \in Atoms /\ katom'[a] = katom[a]
    BY <1>10, <1>11, RingAtoms
  <2> QED BY <1>7, <2>1, RingAtoms DEF Harmless, WaitsAreKnown, RingKept, Live
<1>15. NothingIsCancelled'
  <2> SUFFICES ASSUME NEW a \in Atoms, katom'[a].st = "live"
               PROVE  /\ ~ katom'[a].bad /\ katom'[a].code = "DONE"
                      /\ \A d \in katom'[a].data :
                           /\ d \in Atoms /\ katom'[d].st = "live"
                           /\ katom'[d].kind # "FENCE_WAIT"
    BY DEF NothingIsCancelled, Live
  <2>1. CASE a = x
    BY <1>9, <1>11, <1>12, <1>13, <2>1 DEF Live
  <2>2. CASE a # x
    <3>1. katom'[a] = katom[a] /\ Live(a)
      BY <1>11, <2>2 DEF Live
    <3>2. \A d \in katom[a].data : d \in Atoms /\ Live(d) /\ katom[d].kind # "FENCE_WAIT"
      BY <3>1 DEF Harmless, NothingIsCancelled
    <3>3. \A d \in katom[a].data : katom'[d] = katom[d]
      BY <1>10, <1>11, <3>2
    <3> QED BY <3>1, <3>2, <3>3 DEF Harmless, NothingIsCancelled, Live
  <2> QED BY <2>1, <2>2
<1>16. /\ \A p \in 1 .. Len(events') : Excused(events'[p], subs')
       /\ \A u \in Threads : \A p \in 1 .. Len(call'[u].ev) : Excused(call'[u].ev[p], subs')
  BY <1>2, <1>5, <1>7, WaitsStand DEF Harmless, OnlyWaitsFail
<1> QED BY <1>14, <1>15, <1>16 DEF Harmless, OnlyWaitsFail

-----------------------------------------------------------------------------
(* An atom ends                                                            *)

LEMMA EndKeepsHarmless ==
  ASSUME OnlyImportsFail, IInv, OwnersAreKnown, Harmless, NEW x \in Atoms, EndAtom(x)
  PROVE  Harmless'
<1>1. PICK code \in Outcomes(x) :
        /\ katom' = [b \in Atoms |->
               IF b = x
               THEN IF katom[x].quiet /\ code = "DONE" THEN KUnused("DONE")
                    ELSE [katom[x] EXCEPT !.st = "ended", !.code = code]
               ELSE [katom[b] EXCEPT
                       !.order = @ \ {x},
                       !.data  = @ \ {x},
                       !.bad   = @ \/ (x \in katom[b].data /\ code # "DONE")]]
        /\ events' = IF katom[x].quiet /\ code = "DONE" THEN events
                     ELSE Append(events, [atom |-> x, code |-> code])
        /\ broken' = IF katom[x].kind = "JOB" /\ code # "DONE"
                     THEN broken \cup {katom[x].sub} ELSE broken
  BY DEF EndAtom
<1>2. /\ Live(x) /\ UNCHANGED <<subs, lost, call>>
      /\ \A a \in Atoms : a # x => /\ katom'[a].st = katom[a].st /\ katom'[a].kind = katom[a].kind
                                   /\ katom'[a].code = katom[a].code
                                   /\ katom'[a].data = katom[a].data \ {x}
      /\ \A a \in Atoms : Live(a)' <=> (a # x /\ Live(a))
  BY EndFacts DEF jm, threads
<1>3. code # "DONE" => code = "CANCELLED" /\ katom[x].kind = "FENCE_WAIT"
  BY <1>2 DEF Outcomes, Harmless, NothingIsCancelled, OnlyImportsFail
<1>4. Unharmed'
  BY <1>1, <1>2, <1>3 DEF Harmless, Unharmed
<1>5. code # "DONE" => \E i \in 1 .. Len(subs) : x \in subs[i].waits
  BY <1>2, <1>3 DEF OwnersAreKnown, Working, InRing, Harmless, Unharmed, WaitsAreKnown
<1>6. katom'[x].code = code
  <2>1. katom[x] \in KAtom
    BY DEF IInv, TypeOK
  <2>2. [katom[x] EXCEPT !.st = "ended", !.code = code].code = code /\ KUnused("DONE").code = "DONE"
    BY <2>1 DEF KAtom, KUnused, KNew
  <2> QED BY <1>1, <2>2
<1>7. WaitsAreKnown'
  <2>1. ASSUME NEW i \in 1 .. Len(subs)
        PROVE  /\ \A a \in subs[i].atoms :
                    Live(a)' /\ katom'[a].kind = "FENCE_WAIT" => a \in subs[i].waits
               /\ katom'[subs[i].last].code = "DONE"
    <3>1. subs[i].last \in subs[i].atoms /\ \A a \in subs[i].atoms : a \in Atoms
      BY RingAtoms
    <3>2. subs[i].last = x => code = "DONE"
      BY <1>2, <1>3, <3>1 DEF Harmless, WaitsAreKnown
    <3> QED BY <1>2, <1>6, <3>1, <3>2 DEF Harmless, WaitsAreKnown
  <2> QED BY <1>2, <2>1 DEF Harmless, WaitsAreKnown
<1>8. NothingIsCancelled'
  <2> SUFFICES ASSUME NEW a \in Atoms, Live(a)'
               PROVE  /\ ~ katom'[a].bad /\ katom'[a].code = "DONE"
                      /\ \A d \in katom'[a].data :
                           d \in Atoms /\ Live(d)' /\ katom'[d].kind # "FENCE_WAIT"
    BY DEF NothingIsCancelled
  <2>1. a # x /\ Live(a)
    BY <1>2
  <2>2. /\ ~ katom[a].bad /\ katom[a].code = "DONE"
        /\ \A d \in katom[a].data : d \in Atoms /\ Live(d) /\ katom[d].kind # "FENCE_WAIT"
    BY <2>1 DEF Harmless, NothingIsCancelled
  <2>3. ~ (x \in katom[a].data /\ code # "DONE")
    BY <1>3, <2>2
  <2>4. katom'[a].bad = (katom[a].bad \/ (x \in katom[a].data /\ code # "DONE"))
    <3>1. katom[a] \in KAtom
      BY DEF IInv, TypeOK
    <3>2. katom'[a] = [katom[a] EXCEPT
                         !.order = @ \ {x},
                         !.data  = @ \ {x},
                         !.bad   = @ \/ (x \in katom[a].data /\ code # "DONE")]
      BY <1>1, <2>1
    <3> QED BY <3>1, <3>2 DEF KAtom
  <2> QED BY <1>2, <2>1, <2>2, <2>3, <2>4
<1>9. \A p \in 1 .. Len(events') : Excused(events'[p], subs)
  <2>1. events \in Seq(Event)
    BY EventTypes DEF IInv
  <2>2. Excused([atom |-> x, code |-> code], subs)
    BY <1>3, <1>5 DEF Excused
  <2>3. \A p \in 1 .. Len(events') :
          \/ p \in 1 .. Len(events) /\ events'[p] = events[p]
          \/ events'[p] = [atom |-> x, code |-> code]
    <3>1. CASE events' = events
      BY <3>1
    <3>2. CASE events' = Append(events, [atom |-> x, code |-> code])
      BY ONLY <2>1, <3>2
    <3> QED BY <1>1, <3>1, <3>2
  <2> QED BY <2>2, <2>3 DEF Harmless, OnlyWaitsFail
<1> QED BY <1>2, <1>4, <1>7, <1>8, <1>9 DEF Harmless, OnlyWaitsFail

-----------------------------------------------------------------------------
(* The theorem                                                             *)

LEMMA NextKeepsHarmless ==
  ASSUME OnlyImportsFail, KInv, Harmless, [Next]_vars
  PROVE  Harmless'
<1>1. IInv /\ ThreadsBehave /\ Places /\ OwnersAreKnown
  BY DEF KInv
<1>2. CASE \E a \in Atoms : EndAtom(a)
  BY <1>1, <1>2, EndKeepsHarmless
<1>3. CASE UNCHANGED vars
  <2>1. Quiet
    BY <1>3 DEF vars, jm, threads, kernel, history, Quiet, HandsKept
  <2>2. Unharmed'
    BY <1>3 DEF vars, jm, threads, history, Harmless, Unharmed
  <2> QED BY <1>1, <2>1, <2>2, QuietKeepsHarmless
<1>4. ASSUME NEW t \in Threads,
             \/ Start(t) \/ CallStep(t) \/ ReaderStep(t)
             \/ Lock(t) \/ CondWoken(t) \/ CondSpurious(t) \/ CondTimedOut(t)
      PROVE  Harmless'
  <2>1. Unharmed'
    BY <1>1, <1>4, CallIsHarmless, ReaderIsHarmless DEF Harmless
  <2>2. Quiet \/ Loud(t)
    BY <1>1, <1>4, StartIsQuiet, CallIsQuiet, ReaderIsQuiet DEF CallStep, ReaderStep, Loud
  <2>3. CASE Quiet
    BY <1>1, <2>1, <2>3, QuietKeepsHarmless
  <2>4. CASE PollEvents(t) \/ RetireOldest(t)
    BY <1>1, <2>1, <2>4, PollKeepsHarmless, RetireKeepsHarmless
  <2>5. CASE HandleAuxEvent(t) \/ HandleSubEvent(t) \/ HandleUnknownEvent(t)
    BY <1>1, <2>1, <2>5, HandlingKeepsHarmless
  <2>6. CASE Submit(t) \/ ExportTrigger(t)
    BY <1>1, <2>1, <2>6, SubmitKeepsHarmless, ExportKeepsHarmless
  <2>7. CASE SubmitFails(t) \/ ExportTriggerFails(t) \/ ExportNoFd(t)
    BY <2>7 DEF SubmitFails, ExportTriggerFails, ExportNoFd, OnlyImportsFail
  <2> QED BY <2>2, <2>3, <2>4, <2>5, <2>6, <2>7 DEF Loud
<1> QED BY <1>2, <1>3, <1>4 DEF Next

(* As long as imported fences are all that fails, their errors neither     *)
(* lose the device nor cancel a job that waited for one: the GPU runs it   *)
(* after the fence whatever became of that.                                *)
THEOREM ImportErrorsDoNoHarm ==
  ASSUME OnlyImportsFail
  PROVE  Spec => []ImportErrorsAreHarmless
<1>1. KInv /\ Harmless /\ [Next]_vars => Harmless'
  BY NextKeepsHarmless
<1>2. Harmless => ImportErrorsAreHarmless
  BY DEF Harmless, Unharmed, ImportErrorsAreHarmless
<1> QED BY <1>1, <1>2, InitHarmless, KInvHolds, PTL DEF Spec
===============================================================================
