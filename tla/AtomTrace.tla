------------------------------- MODULE AtomTrace -------------------------------
(***************************************************************************)
(* tools/iolog: iolog.c logs the submissions of atoms and the events that  *)
(* are read back, from the threads that make the calls; blobdeps.py and    *)
(* passtime.py make dependencies and times of the log.                     *)
(*                                                                         *)
(* A submission takes the time, goes to the kernel, and is logged after-   *)
(* wards, under a lock of the logger's own: lines may stand in another     *)
(* order than the calls.  Atom numbers are used again as soon as the       *)
(* driver has read that their atom ended.  The log may be cut anywhere:    *)
(* every state is one a script may be given.                               *)
(*                                                                         *)
(* Times are readings of a clock that never shows the same time twice.     *)
(* The field id of a line is history: which atom it is really about.      *)
(*                                                                         *)
(* Right before some definitions stands a variant of them with a mistake   *)
(* in it; nothing uses it.                                                 *)
(***************************************************************************)
EXTENDS Naturals, Sequences, FiniteSets

CONSTANTS
  Threads, Numbers,     \* threads that submit; atom numbers
  Groups,               \* the atoms of a submission: sequences of kinds
  MaxSubs,              \* bound on submissions
  Serialised,           \* the driver holds a lock around a submission
  Silent                \* all atoms of a submission but the last have no event, unless they fail

VARIABLES
  clock,
  held,                 \* numbers the driver has taken
  call,                 \* thread -> its call, or Idle
  atoms,                \* the kernel's atoms, in the order they came
  ended,                \* those that have ended
  events,               \* events to be read: atoms
  reader,               \* [batch, at]: events read and when; at = 0: not yet known
  log,                  \* lines
  subs                  \* number of submissions begun

vars == <<clock, held, call, atoms, ended, events, reader, log, subs>>

Idle == [pc |-> "idle"]
NoRead == [batch |-> <<>>, at |-> 0]

Init ==
  /\ clock = 0 /\ held = {} /\ call = [t \in Threads |-> Idle]
  /\ atoms = <<>> /\ ended = {} /\ events = <<>> /\ reader = NoRead /\ log = <<>> /\ subs = 0

-----------------------------------------------------------------------------
(* The driver and the kernel                                               *)

Last(some) == IF some = {} THEN 0 ELSE CHOOSE i \in some : \A j \in some : j <= i

(* The latest atom with number n.                                          *)
Latest(n) == Last({i \in DOMAIN atoms : atoms[i].n = n})

(* The driver takes numbers, the first atom may wait for others that are   *)
(* on their way, each further one waits for the one before it.             *)
Enters(t) ==
  /\ call[t] = Idle /\ subs < MaxSubs
  /\ Serialised => \A u \in Threads : call[u] = Idle
  /\ \E g \in Groups, deps \in SUBSET {n \in held : Latest(n) # 0} :
       \E ns \in [DOMAIN g -> Numbers \ held] :
         /\ \A i, j \in DOMAIN g : i # j => ns[i] # ns[j]
         /\ Cardinality(deps) <= 2
         /\ held' = held \cup {ns[i] : i \in DOMAIN g}
         /\ call' = [call EXCEPT ![t] =
              [pc |-> "called", t0 |-> 0, ids |-> <<>>, ok |-> TRUE,
               atoms |-> [i \in DOMAIN g |-> [n |-> ns[i], k |-> g[i],
                                              deps |-> IF i = 1 THEN deps ELSE {ns[i - 1]}]]]]
  /\ subs' = subs + 1
  /\ UNCHANGED <<clock, atoms, ended, events, reader, log>>

StampsLater(t) ==
  /\ call[t].pc = "called"
  /\ call' = [call EXCEPT ![t].pc = "timed"]
  /\ UNCHANGED <<clock, held, atoms, ended, events, reader, log, subs>>

(* iolog_ioctl: the time is that before the call.                          *)
Stamps(t) ==
  /\ call[t].pc = "called"
  /\ clock' = clock + 1
  /\ call' = [call EXCEPT ![t].pc = "timed", ![t].t0 = clock']
  /\ UNCHANGED <<held, atoms, ended, events, reader, log, subs>>

(* The kernel takes the atoms in order; a number stands for the latest     *)
(* atom that has it.                                                       *)
Accepts(t) ==
  /\ call[t].pc = "timed"
  /\ LET first == Len(atoms)
         new == call[t].atoms
         id(d, i) == IF i > 1 THEN first + i - 1 ELSE Latest(d)
     IN /\ atoms' = atoms \o [i \in DOMAIN new |->
             [n |-> new[i].n, k |-> new[i].k, waits |-> {id(d, i) : d \in new[i].deps},
              silent |-> Silent /\ i < Len(new), last |-> first + Len(new)]]
        /\ call' = [call EXCEPT ![t].pc = "accepted", ![t].ids = [i \in DOMAIN new |-> first + i]]
  /\ UNCHANGED <<clock, held, ended, events, reader, log, subs>>

(* Or it does not.                                                         *)
Refuses(t) ==
  /\ call[t].pc = "timed"
  /\ call' = [call EXCEPT ![t].pc = "accepted", ![t].ok = FALSE,
                          ![t].ids = [i \in DOMAIN call[t].atoms |-> 0]]
  /\ UNCHANGED <<clock, held, atoms, ended, events, reader, log, subs>>

(* log_submit, after the call; then the call returns, and numbers of atoms *)
(* that were refused are free.                                             *)
Logs(t) ==
  /\ call[t].pc = "accepted"
  /\ LET c == call[t]   at == IF c.t0 = 0 THEN clock + 1 ELSE c.t0 IN
     /\ clock' = IF c.t0 = 0 THEN clock + 1 ELSE clock
     /\ log' = log \o [i \in DOMAIN c.atoms |->
          [line |-> "A", at |-> at, n |-> c.atoms[i].n, k |-> c.atoms[i].k,
           deps |-> c.atoms[i].deps, ok |-> c.ok, id |-> c.ids[i]]]
     /\ held' = IF c.ok THEN held ELSE held \ {c.atoms[i].n : i \in DOMAIN c.atoms}
  /\ call' = [call EXCEPT ![t] = Idle]
  /\ UNCHANGED <<atoms, ended, events, reader, subs>>

(* An atom ends behind those it waits for.                                 *)
Ends(a) ==
  /\ a \in DOMAIN atoms \ ended /\ atoms[a].waits \subseteq ended
  /\ ended' = ended \cup {a}
  /\ events' = IF atoms[a].silent THEN events ELSE Append(events, a)
  /\ UNCHANGED <<clock, held, call, atoms, reader, log, subs>>

InBatch == {reader.batch[i] : i \in DOMAIN reader.batch}

(* read: whatever there is, in one batch; the time is taken after it.      *)
Reads ==
  /\ reader = NoRead /\ events # <<>>
  /\ reader' = [batch |-> events, at |-> 0] /\ events' = <<>>
  /\ UNCHANGED <<clock, held, call, atoms, ended, log, subs>>

ReadStamps ==
  /\ reader # NoRead /\ reader.at = 0
  /\ clock' = clock + 1 /\ reader' = [reader EXCEPT !.at = clock']
  /\ UNCHANGED <<held, call, atoms, ended, events, log, subs>>

ReadLogsEarly ==
  /\ reader.at # 0
  /\ log' = log \o [i \in DOMAIN reader.batch |->
       [line |-> "E", at |-> reader.at, n |-> atoms[reader.batch[i]].n, id |-> reader.batch[i]]]
  /\ held' = held \ {atoms[a].n : a \in {b \in DOMAIN atoms : b \in InBatch \/ atoms[b].silent}}
  /\ reader' = NoRead
  /\ UNCHANGED <<clock, call, atoms, ended, events, subs>>

(* The driver takes back the number of an atom with its event, and those   *)
(* of silent ones with the event of the last of their submission.          *)
ReadLogs ==
  /\ reader.at # 0
  /\ log' = log \o [i \in DOMAIN reader.batch |->
       [line |-> "E", at |-> reader.at, n |-> atoms[reader.batch[i]].n, id |-> reader.batch[i]]]
  /\ held' = held \ {atoms[a].n : a \in {b \in DOMAIN atoms :
       (IF atoms[b].silent THEN atoms[b].last ELSE b) \in InBatch}}
  /\ reader' = NoRead
  /\ UNCHANGED <<clock, call, atoms, ended, events, subs>>

Next ==
  \/ \E t \in Threads : Enters(t) \/ Stamps(t) \/ Accepts(t) \/ Refuses(t) \/ Logs(t)
  \/ \E a \in DOMAIN atoms : Ends(a)
  \/ Reads \/ ReadStamps \/ ReadLogs

Spec == Init /\ [][Next]_vars

-----------------------------------------------------------------------------
(* The scripts, on the log as it is                                        *)

AtomLines == {i \in DOMAIN log : log[i].line = "A"}

(* passtime.py: the first completion event for the number at or after the  *)
(* time of the submission, 0 if there is none.                             *)
Completion(i) ==
  LET ts == {j \in DOMAIN log : log[j].line = "E" /\ log[j].n = log[i].n /\ log[j].at >= log[i].at}
  IN IF ts = {} THEN 0 ELSE CHOOSE j \in ts : \A m \in ts : log[j].at < log[m].at \/ (log[j].at = log[m].at /\ j <= m)

(* The atoms that were found to have ended, and when; the order of that.   *)
Done == {i \in AtomLines : log[i].k # "dep" /\ Completion(i) # 0}
End(i) == log[Completion(i)].at
Rank == [compute |-> 1, frag |-> 2, vtc |-> 3]
Sooner(i, j) ==
  LET e == End(i)   f == End(j) IN
  \/ e < f
  \/ e = f /\ Rank[log[i].k] < Rank[log[j].k]
  \/ e = f /\ log[i].k = log[j].k /\ (log[i].at < log[j].at \/ (log[i].at = log[j].at /\ i < j))

BusySinceSubmission(i) == log[i].at

(* Busy from its submission, or from the end of what ended before it.      *)
BusySince(i) == Last({log[i].at} \cup {End(j) : j \in {m \in Done : Sooner(m, i)}})

(* blobdeps.py: the last line before the i-th about number n.              *)
LastBefore(n, i) == Last({j \in AtomLines : j < i /\ log[j].n = n})

(* Does the atom wait for a fragment atom, or for a dependency atom that   *)
(* waits for one?                                                          *)
WaitsForFragment(i) ==
  \E d \in log[i].deps : LET j == LastBefore(d, i) IN
    /\ j # 0
    /\ \/ log[j].k = "frag"
       \/ log[j].k = "dep" /\ \E e \in log[j].deps : LET m == LastBefore(e, j) IN m # 0 /\ log[m].k = "frag"

-----------------------------------------------------------------------------
(* Properties                                                              *)

TypeOK ==
  /\ held \subseteq Numbers /\ subs \in 0 .. MaxSubs
  /\ ended \subseteq DOMAIN atoms
  /\ \A a \in DOMAIN atoms \ ended : atoms[a].n \in held
  /\ \A i \in DOMAIN log : log[i].at \in 1 .. clock

(* The time passtime.py gives an atom is that of its own end, never that   *)
(* of the next atom with its number: "Each atom's completion time is the   *)
(* first completion event for its atom number after its submit"            *)
(* (passtime.py:5-6), wherever the log is cut and however the lines of     *)
(* threads were mixed.  An atom the kernel refused has none.               *)
CompletionIsItsOwn ==
  \A i \in AtomLines : log[i].ok /\ Completion(i) # 0 => log[Completion(i)].id = log[i].id

(* No time is counted twice: what passtime.py calls busy lies between the  *)
(* submission of an atom and its end, and two atoms are never busy at once.*)
BusyTimeIsNotCountedTwice ==
  LET busy == {[of |-> i, from |-> BusySince(i), to |-> End(i)] : i \in Done} IN
  \A b \in busy :
    /\ log[b.of].at <= b.from /\ b.from <= b.to
    /\ \A c \in busy : c.of = b.of \/ c.to <= b.from \/ b.to <= c.from

(* The truth about an atom of the kernel's. *)
ReallyWaits(a) ==
  \E b \in atoms[a].waits :
    atoms[b].k = "frag" \/ (atoms[b].k = "dep" /\ \E c \in atoms[b].waits : atoms[c].k = "frag")

(* If the driver submits under a lock, a number in a dependency is found   *)
(* to be the atom the kernel took it for, though numbers are used again    *)
(* (blobdeps.py:76-77), and so is what blobdeps.py counts.                 *)
DependenciesAreTheKernels ==
  \A i \in {j \in AtomLines : log[j].ok} :
    /\ \A d \in log[i].deps : LastBefore(d, i) # 0 /\ log[LastBefore(d, i)].id \in atoms[log[i].id].waits
    /\ WaitsForFragment(i) <=> ReallyWaits(log[i].id)
=============================================================================
