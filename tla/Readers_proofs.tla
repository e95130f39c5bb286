----------------------------- MODULE Readers_proofs ----------------------------
(***************************************************************************)
(* Proofs about the tools that read dumps, logs and traces, for any of the *)
(* settings they may be run with: dumps of any lines and length, pairs of  *)
(* dumps of any shaders and uses, for any --pairs, any number of threads,  *)
(* atom numbers and submissions of any groups, any number of buffers and   *)
(* frames, whichever of them are traced.                                   *)
(*                                                                         *)
(* What a script makes of a file is compared with what the file is about,  *)
(* so each invariant speaks of both: of a dump, where its last headers and *)
(* descriptors are; of a log, which atoms and events still stand behind    *)
(* its lines; of a trace, what was recorded of the buffers.                *)
(***************************************************************************)
EXTENDS Readers, FiniteSetTheorems, SequenceTheorems, TLAPS

-----------------------------------------------------------------------------
(* A non-empty set of numbers with a bound has a greatest element          *)

LEMMA LeastNumber ==
  ASSUME NEW T, T \subseteq Nat, T # {}
  PROVE  \E x \in T : \A y \in T : x <= y
<1> DEFINE R == {ss \in Nat \X Nat : ss[1] < ss[2]}
<1>1. IsWellFoundedOn(R, Nat)
  BY NatLessThanWellFounded DEF OpToRel
<1>2. ASSUME NEW x \in Nat, NEW y \in Nat, x < y PROVE <<x, y>> \in R
  BY <1>2
<1> HIDE DEF R
<1>3. PICK x \in T : \A y \in T : ~ (<<y, x>> \in R)
  BY <1>1, WFMin
<1>4. \A y \in T : ~ (y < x)
  BY <1>2, <1>3
<1> QED BY <1>3, <1>4

GreatestOf(some) == IF some = {} THEN 0 ELSE CHOOSE i \in some : \A j \in some : j <= i

LEMMA Greatest ==
  ASSUME NEW n \in Nat, NEW S, S \subseteq 0 .. n
  PROVE  /\ GreatestOf(S) \in 0 .. n
         /\ S = {} => GreatestOf(S) = 0
         /\ S # {} => GreatestOf(S) \in S /\ \A j \in S : j <= GreatestOf(S)
<1>1. CASE S = {}
  BY <1>1 DEF GreatestOf
<1>2. CASE S # {}
  <2> DEFINE T == {n - j : j \in S}
  <2>0. \A j \in S : j \in Nat /\ n - j \in Nat
    OBVIOUS
  <2>1. T \subseteq Nat /\ T # {}
    BY <1>2, <2>0
  <2>2. PICK x \in T : \A y \in T : x <= y
    BY <2>1, LeastNumber
  <2>3. PICK i \in S : x = n - i
    BY <2>2
  <2>4. \A j \in S : n - i <= n - j
    BY <2>2, <2>3
  <2>5. \A j \in S : j <= i
    BY <2>0, <2>4
  <2>6. GreatestOf(S) \in S /\ \A j \in S : j <= GreatestOf(S)
    BY <1>2, <2>5 DEF GreatestOf
  <2> QED BY <1>2, <2>6
<1> QED BY <1>1, <1>2

(* It is what it is.                                                       *)
LEMMA GreatestIs ==
  ASSUME NEW S, S \subseteq Nat, NEW i \in S, \A j \in S : j <= i
  PROVE  GreatestOf(S) = i
<1>1. \A k \in S : (\A j \in S : j <= k) => k = i
  BY SMT
<1> QED BY <1>1 DEF GreatestOf

-----------------------------------------------------------------------------
(* The parser: IsaDump                                                     *)

DumpHeaders(d) == {l[2] : l \in {m \in d.lines : m[1] = "header"}}
DumpValues(d) == {l[2] : l \in d.lines} \cup {"none", 0}
IsBody(l) == l[1] \in {"instr", "blank"}

DumpTypes(d) ==
  /\ dump \in Seq(d.lines)
  /\ code = [v \in DOMAIN code |-> code[v]] /\ \A v \in DOMAIN code : code[v] \in Seq(d.lines)
  /\ cur = 0 \/ (cur \in DOMAIN code /\ cur \in DumpHeaders(d))
  /\ \A v \in DOMAIN code : \A k \in 1 .. Len(code[v]) : IsBody(code[v][k])
  /\ stage \in DumpValues(d) /\ regs \in DumpValues(d)
  /\ uses \in Seq(DumpValues(d) \X DumpValues(d) \X DumpValues(d))
  /\ \A k \in 1 .. Len(uses) : uses[k][1] # "none"

DumpLastOf(q, kind, n) == GreatestOf({k \in 1 .. n : q[k][1] = kind})
DumpLastHeader(q, v) == GreatestOf({k \in 1 .. Len(q) : q[k] = <<"header", v>>})

(* What is kept of the copy behind line h, while it is open, and later.    *)
DumpOpen(q, text, h) ==
  /\ Len(text) = Len(q) - h
  /\ \A k \in 1 .. Len(text) : text[k] = q[h + k]
  /\ \A k \in h + 1 .. Len(q) : IsBody(q[k])

DumpClosed(q, text, h) ==
  \E e \in h .. Len(q) - 1 :
    /\ ~ IsBody(q[e + 1]) /\ \A k \in h + 1 .. e : IsBody(q[k])
    /\ h + Len(text) <= e
    /\ \A k \in 1 .. Len(text) : text[k] = q[h + k]
    /\ \A k \in h + Len(text) + 1 .. e : q[k] = <<"blank">>

DumpCopies(d) ==
  \A v \in DumpHeaders(d) :
    IF DumpLastHeader(dump, v) = 0 THEN v \notin DOMAIN code
    ELSE /\ v \in DOMAIN code
         /\ IF v = cur THEN DumpOpen(dump, code[v], DumpLastHeader(dump, v))
            ELSE DumpClosed(dump, code[v], DumpLastHeader(dump, v))

(* The descriptor that is read, and those that were.                       *)
DumpBound(q) == {k \in 1 .. Len(q) : q[k][1] = "binary" /\ DumpLastOf(q, "stage", k) # 0}
DumpRegs(q, n) ==
  IF DumpLastOf(q, "regs", n) > DumpLastOf(q, "stage", n) THEN q[DumpLastOf(q, "regs", n)][2] ELSE 0
DumpUse(q, b) == <<q[DumpLastOf(q, "stage", b)][2], DumpRegs(q, b), q[b][2]>>
DumpRank(q, b) == Cardinality({c \in DumpBound(q) : c <= b})

DumpDescriptor ==
  /\ stage = IF DumpLastOf(dump, "stage", Len(dump)) = 0 THEN "none"
             ELSE dump[DumpLastOf(dump, "stage", Len(dump))][2]
  /\ regs = DumpRegs(dump, Len(dump))

DumpUses ==
  /\ Len(uses) = Cardinality(DumpBound(dump))
  /\ \A b \in DumpBound(dump) : uses[DumpRank(dump, b)] = DumpUse(dump, b)

DumpInv(d) == DumpTypes(d) /\ DumpCopies(d) /\ DumpDescriptor /\ DumpUses

LEMMA DumpLines ==
  ASSUME NEW d \in Dumps, NEW l \in d.lines
  PROVE  /\ l[1] \in {"header", "instr", "blank", "stage", "regs", "binary"}
         /\ l[1] = "blank" => l = <<"blank">>
         /\ l[1] = "header" => l = <<"header", l[2]>> /\ l[2] # 0 /\ l[2] \in DumpHeaders(d)
         /\ l[1] = "stage" => l[2] # "none"
         /\ l[2] \in DumpValues(d)
BY DumpsAssumption DEF DumpHeaders, DumpValues

(* One more line: the last line of a kind is that one or the same.         *)
LEMMA DumpLastStep ==
  ASSUME NEW S, NEW q \in Seq(S), NEW l \in S, NEW kind
  PROVE  /\ DumpLastOf(Append(q, l), kind, Len(q) + 1) =
              IF l[1] = kind THEN Len(q) + 1 ELSE DumpLastOf(q, kind, Len(q))
         /\ \A k \in 1 .. Len(q) : DumpLastOf(Append(q, l), kind, k) = DumpLastOf(q, kind, k)
         /\ \A k \in 0 .. Len(q) : DumpLastOf(q, kind, k) \in 0 .. k
<1> DEFINE n == Len(q)
           more == Append(q, l)
<1>1. n \in Nat /\ more[n + 1] = l /\ \A k \in 1 .. n : more[k] = q[k]
  OBVIOUS
<1>2. \A k \in 0 .. n : {j \in 1 .. k : more[j][1] = kind} = {j \in 1 .. k : q[j][1] = kind}
  BY <1>1
<1>3. ASSUME NEW k \in 0 .. n PROVE DumpLastOf(q, kind, k) \in 0 .. k
  <2>1. {j \in 1 .. k : q[j][1] = kind} \subseteq 0 .. k
    BY <1>1
  <2> QED BY <1>1, <2>1, Greatest DEF DumpLastOf
<1>6. ASSUME NEW k \in 1 .. n PROVE DumpLastOf(more, kind, k) = DumpLastOf(q, kind, k)
  <2> HIDE DEF more
  <2>1. k \in 0 .. n
    BY <1>1
  <2>2. {j \in 1 .. k : more[j][1] = kind} = {j \in 1 .. k : q[j][1] = kind}
    BY <1>2, <2>1
  <2> QED BY <2>2 DEF DumpLastOf
<1>4. CASE l[1] = kind
  <2> DEFINE T == {j \in 1 .. n + 1 : more[j][1] = kind}
  <2>1. T \subseteq Nat /\ n + 1 \in T /\ \A j \in T : j <= n + 1
    BY <1>1, <1>4
  <2>2. GreatestOf(T) = n + 1
    <3> HIDE DEF T
    <3> QED BY <2>1, GreatestIs
  <2>3. DumpLastOf(more, kind, n + 1) = n + 1
    BY <2>2 DEF DumpLastOf
  <2> HIDE DEF T, more
  <2> QED BY <1>3, <1>4, <1>6, <2>3 DEF more
<1>5. CASE l[1] # kind
  <2>1. {j \in 1 .. n + 1 : more[j][1] = kind} = {j \in 1 .. n : q[j][1] = kind}
    <3> HIDE DEF more
    <3>1. \A j \in 1 .. n + 1 : j \in 1 .. n \/ j = n + 1
      BY <1>1
    <3>2. \A j \in 1 .. n : j \in 1 .. n + 1
      BY <1>1
    <3> QED BY <1>1, <1>5, <3>1, <3>2
  <2>3. DumpLastOf(more, kind, n + 1) = DumpLastOf(q, kind, n)
    BY <2>1 DEF DumpLastOf
  <2> HIDE DEF more
  <2> QED BY <1>3, <1>5, <1>6, <2>3 DEF more
<1> QED BY <1>4, <1>5

LEMMA DumpHeaderStep ==
  ASSUME NEW S, NEW q \in Seq(S), NEW l \in S, NEW v
  PROVE  /\ DumpLastHeader(Append(q, l), v) =
              IF l = <<"header", v>> THEN Len(q) + 1 ELSE DumpLastHeader(q, v)
         /\ DumpLastHeader(q, v) \in 0 .. Len(q)
<1> DEFINE n == Len(q)
           more == Append(q, l)
<1>1. n \in Nat /\ Len(more) = n + 1 /\ more[n + 1] = l /\ \A k \in 1 .. n : more[k] = q[k]
  OBVIOUS
<1>2. {k \in 1 .. n : q[k] = <<"header", v>>} \subseteq 0 .. n
  BY <1>1
<1>3. DumpLastHeader(q, v) \in 0 .. n
  BY <1>1, <1>2, Greatest DEF DumpLastHeader
<1>4. CASE l = <<"header", v>>
  <2> DEFINE T == {j \in 1 .. n + 1 : more[j] = <<"header", v>>}
  <2>1. T \subseteq Nat /\ n + 1 \in T /\ \A j \in T : j <= n + 1
    BY <1>1, <1>4
  <2>2. GreatestOf(T) = n + 1
    <3> HIDE DEF T
    <3> QED BY <2>1, GreatestIs
  <2> QED BY <1>1, <1>3, <1>4, <2>2 DEF DumpLastHeader
<1>5. CASE l # <<"header", v>>
  <2>1. {j \in 1 .. n + 1 : more[j] = <<"header", v>>} = {j \in 1 .. n : q[j] = <<"header", v>>}
    <3> HIDE DEF more
    <3>1. \A j \in 1 .. n + 1 : j \in 1 .. n \/ j = n + 1
      BY <1>1
    <3>2. \A j \in 1 .. n : j \in 1 .. n + 1
      BY <1>1
    <3> QED BY <1>1, <1>5, <3>1, <3>2
  <2> QED BY <1>1, <1>3, <1>5, <2>1 DEF DumpLastHeader
<1> QED BY <1>4, <1>5

LEMMA DumpFront ==
  ASSUME NEW S, NEW q \in Seq(S), NEW m \in 0 .. Len(q)
  PROVE  /\ SubSeq(q, 1, m) \in Seq(S) /\ Len(SubSeq(q, 1, m)) = m
         /\ \A k \in 1 .. m : SubSeq(q, 1, m)[k] = q[k]
<1>1. Len(SubSeq(q, 1, m)) = m /\ \A k \in 1 .. m : SubSeq(q, 1, m)[k] = q[k]
  OBVIOUS
<1>2. \A k \in 1 .. m : q[k] \in S
  OBVIOUS
<1>3. SubSeq(q, 1, m) = [k \in 1 .. m |-> q[k]]
  OBVIOUS
<1>4. m \in Nat
  OBVIOUS
<1>5. [k \in 1 .. m |-> q[k]] \in Seq(S)
  BY <1>2, <1>4, SeqDef
<1> QED BY <1>1, <1>3, <1>5

LEMMA DumpOpenStep ==
  ASSUME NEW S, NEW q \in Seq(S), NEW l \in S, NEW text \in Seq(S), NEW h \in 0 .. Len(q), DumpOpen(q, text, h)
  PROVE  /\ IsBody(l) => DumpOpen(Append(q, l), Append(text, l), h)
         /\ ~ IsBody(l) => \A n \in 0 .. Len(text) :
              (\A k \in n + 1 .. Len(text) : text[k] = <<"blank">>)
                => DumpClosed(Append(q, l), SubSeq(text, 1, n), h)
<1> DEFINE m == Len(q)
           more == Append(q, l)
<1>1. m \in Nat /\ Len(more) = m + 1 /\ more[m + 1] = l /\ \A k \in 1 .. m : more[k] = q[k]
  OBVIOUS
<1>2. Len(text) = m - h /\ (\A k \in 1 .. Len(text) : text[k] = q[h + k]) /\ \A k \in h + 1 .. m : IsBody(q[k])
  BY DEF DumpOpen
<1>3. ASSUME IsBody(l) PROVE DumpOpen(more, Append(text, l), h)
  <2> DEFINE t2 == Append(text, l)
  <2>1. Len(t2) = Len(text) + 1 /\ t2[Len(text) + 1] = l /\ \A k \in 1 .. Len(text) : t2[k] = text[k]
    OBVIOUS
  <2> HIDE DEF t2, more
  <2>2. Len(t2) = Len(more) - h
    BY <1>1, <1>2, <2>1
  <2>3. \A k \in 1 .. Len(t2) : t2[k] = more[h + k]
    <3> TAKE k \in 1 .. Len(t2)
    <3>1. CASE k = Len(text) + 1
      BY <1>1, <1>2, <2>1, <3>1
    <3>2. CASE k \in 1 .. Len(text)
      <4>1. h + k \in 1 .. m
        BY <1>1, <1>2, <3>2
      <4> QED BY <1>1, <1>2, <2>1, <3>2, <4>1
    <3> QED BY <1>1, <1>2, <2>1, <3>1, <3>2
  <2>4. \A k \in h + 1 .. Len(more) : IsBody(more[k])
    <3> TAKE k \in h + 1 .. Len(more)
    <3>1. CASE k = m + 1
      BY <1>1, <1>3, <3>1
    <3>2. CASE k \in h + 1 .. m
      BY <1>1, <1>2, <3>2
    <3> QED BY <1>1, <3>1, <3>2
  <2>5. DumpOpen(more, t2, h)
    BY <2>2, <2>3, <2>4 DEF DumpOpen
  <2> QED BY <2>5 DEF t2, more
<1>4. ASSUME ~ IsBody(l), NEW n \in 0 .. Len(text), \A k \in n + 1 .. Len(text) : text[k] = <<"blank">>
      PROVE  DumpClosed(more, SubSeq(text, 1, n), h)
  <2> DEFINE t2 == SubSeq(text, 1, n)
  <2>1. Len(t2) = n /\ \A k \in 1 .. n : t2[k] = text[k]
    BY <1>1, <1>2
  <2> HIDE DEF t2, more
  <2>2. m \in h .. Len(more) - 1 /\ ~ IsBody(more[m + 1])
    BY <1>1, <1>4
  <2>3. \A k \in h + 1 .. m : IsBody(more[k])
    BY <1>1, <1>2
  <2>4. h + Len(t2) <= m /\ \A k \in 1 .. Len(t2) : t2[k] = more[h + k]
    <3>1. h + Len(t2) <= m
      BY <1>1, <1>2, <2>1
    <3>2. ASSUME NEW k \in 1 .. Len(t2) PROVE t2[k] = more[h + k]
      <4>1. k \in 1 .. n /\ k \in 1 .. Len(text) /\ h + k \in 1 .. m
        BY <1>1, <1>2, <2>1
      <4> QED BY <1>1, <1>2, <2>1, <4>1
    <3> QED BY <3>1, <3>2
  <2>5. \A k \in h + Len(t2) + 1 .. m : more[k] = <<"blank">>
    <3> TAKE k \in h + Len(t2) + 1 .. m
    <3>1. k - h \in n + 1 .. Len(text) /\ h + (k - h) = k /\ k \in 1 .. m
      BY <1>1, <1>2, <2>1
    <3>2. text[k - h] = q[k]
      BY <1>1, <1>2, <3>1
    <3> QED BY <1>1, <1>4, <3>1, <3>2
  <2>6. DumpClosed(more, t2, h)
    BY <2>2, <2>3, <2>4, <2>5 DEF DumpClosed
  <2> QED BY <2>6 DEF t2, more
<1> QED BY <1>3, <1>4

LEMMA DumpClosedStep ==
  ASSUME NEW S, NEW q \in Seq(S), NEW l \in S, NEW text \in Seq(S), NEW h \in 0 .. Len(q), DumpClosed(q, text, h)
  PROVE  DumpClosed(Append(q, l), text, h)
<1> DEFINE m == Len(q)
           more == Append(q, l)
<1>1. m \in Nat /\ Len(more) = m + 1 /\ \A k \in 1 .. m : more[k] = q[k]
  OBVIOUS
<1>2. PICK e \in h .. m - 1 :
        /\ ~ IsBody(q[e + 1]) /\ \A k \in h + 1 .. e : IsBody(q[k])
        /\ h + Len(text) <= e
        /\ \A k \in 1 .. Len(text) : text[k] = q[h + k]
        /\ \A k \in h + Len(text) + 1 .. e : q[k] = <<"blank">>
  BY DEF DumpClosed
<1> HIDE DEF more
<1>3. e \in h .. Len(more) - 1 /\ e + 1 \in 1 .. m /\ e \in Nat
  BY <1>1
<1>4. \A k \in h + 1 .. e : k \in 1 .. m
  BY <1>1
<1>5. Len(text) \in Int => \A k \in 1 .. Len(text) : h + k \in 1 .. m
  BY <1>1, <1>2
<1>6. DumpClosed(more, text, h)
  <2>1. ~ IsBody(more[e + 1]) /\ \A k \in h + 1 .. e : IsBody(more[k])
    BY <1>1, <1>2, <1>3, <1>4
  <2>2. \A k \in 1 .. Len(text) : text[k] = more[h + k]
    BY <1>1, <1>2, <1>5
  <2>3. \A k \in h + Len(text) + 1 .. e : more[k] = <<"blank">>
    <3> TAKE k \in h + Len(text) + 1 .. e
    <3>1. k \in 1 .. m
      BY <1>1, <1>2, <1>3
    <3> QED BY <1>1, <1>2, <3>1
  <2> QED BY <1>2, <1>3, <2>1, <2>2, <2>3 DEF DumpClosed
<1> QED BY <1>6 DEF more

LEMMA DumpTrims ==
  ASSUME NEW d, NEW S, NEW text \in Seq(S)
  PROVE  \E n \in 0 .. Len(text) :
           /\ Parser(d)!Trimmed(text) = SubSeq(text, 1, n)
           /\ \A k \in n + 1 .. Len(text) : text[k] = <<"blank">>
<1> DEFINE T == {k \in DOMAIN text : text[k] # <<"blank">>}
           n == GreatestOf(T)
<1>1. Len(text) \in Nat /\ DOMAIN text = 1 .. Len(text)
  OBVIOUS
<1>2. T \subseteq 0 .. Len(text)
  BY <1>1
<1>3. Parser(d)!Trimmed(text) = SubSeq(text, 1, n)
  BY DEF Parser!Trimmed, Parser!Last, Parser!Blank, GreatestOf
<1>4. n \in 0 .. Len(text) /\ (T = {} => n = 0) /\ (T # {} => \A j \in T : j <= n)
  <2> HIDE DEF T
  <2> QED BY <1>1, <1>2, Greatest
<1>5. \A k \in n + 1 .. Len(text) : text[k] = <<"blank">>
  <2> SUFFICES ASSUME NEW k \in n + 1 .. Len(text), text[k] # <<"blank">> PROVE FALSE
    OBVIOUS
  <2>1. k \in T /\ k > n
    BY <1>1, <1>4
  <2> HIDE DEF T, n
  <2> QED BY <1>4, <2>1
<1> HIDE DEF T, n
<1> QED BY <1>3, <1>4, <1>5

(* What a line does to the code.                                           *)
LEMMA DumpCopiesStep ==
  ASSUME NEW d \in Dumps, DumpTypes(d), DumpCopies(d), NEW l \in d.lines, Parser(d)!Reads(l)
  PROVE  /\ DumpCopies(d)'
         /\ code' = [v \in DOMAIN code' |-> code'[v]] /\ \A v \in DOMAIN code' : code'[v] \in Seq(d.lines)
         /\ cur' = 0 \/ (cur' \in DOMAIN code' /\ cur' \in DumpHeaders(d))
         /\ \A v \in DOMAIN code' : \A k \in 1 .. Len(code'[v]) : IsBody(code'[v][k])
<1> DEFINE H == DumpHeaders(d)
           n == Len(dump)
           h(v) == DumpLastHeader(dump, v)
<1>0. /\ dump \in Seq(d.lines) /\ n \in Nat
      /\ code = [v \in DOMAIN code |-> code[v]] /\ \A v \in DOMAIN code : code[v] \in Seq(d.lines)
      /\ cur = 0 \/ (cur \in DOMAIN code /\ cur \in H)
      /\ \A v \in DOMAIN code : \A k \in 1 .. Len(code[v]) : IsBody(code[v][k])
  BY DEF DumpTypes
<1>1. dump' = Append(dump, l)
  BY DEF Parser!Reads
<1>2. /\ l[1] \in {"header", "instr", "blank", "stage", "regs", "binary"}
      /\ l[1] = "header" => l = <<"header", l[2]>> /\ l[2] # 0 /\ l[2] \in H
  BY DumpLines
<1>3. \A v : /\ DumpLastHeader(dump', v) = IF l = <<"header", v>> THEN n + 1 ELSE h(v)
             /\ h(v) \in 0 .. n
  BY <1>0, <1>1, DumpHeaderStep
<1>4. \A v \in H : v # 0
  BY DumpLines DEF DumpHeaders
<1>5. ASSUME NEW v \in H
      PROVE  IF h(v) = 0 THEN v \notin DOMAIN code
             ELSE /\ v \in DOMAIN code
                  /\ IF v = cur THEN DumpOpen(dump, code[v], h(v)) ELSE DumpClosed(dump, code[v], h(v))
  BY DEF DumpCopies
<1>6. CASE l[1] = "header"
  <2> DEFINE w == l[2]
  <2>1. w \in H /\ l = <<"header", w>> /\ ~ IsBody(l)
    BY <1>2, <1>6 DEF IsBody
  <2>2. /\ cur' = w
        /\ code' = [v \in DOMAIN code \cup {w} |-> IF v = w THEN <<>> ELSE code[v]]
    BY <1>6 DEF Parser!Reads, Parser!Header
  <2>3. DOMAIN code' = DOMAIN code \cup {w}
    BY <2>2
  <2>4. ASSUME NEW v \in DOMAIN code' PROVE code'[v] = IF v = w THEN <<>> ELSE code[v]
    BY <2>2, <2>3
  <2>5. \A v \in DOMAIN code' : code'[v] \in Seq(d.lines)
    <3>1. <<>> \in Seq(d.lines)
      OBVIOUS
    <3>2. ASSUME NEW v \in DOMAIN code' PROVE code'[v] \in Seq(d.lines)
      <4>1. CASE v = w
        BY <2>4, <3>1, <4>1
      <4>2. CASE v # w
        BY <1>0, <2>3, <2>4, <4>2
      <4> QED BY <4>1, <4>2
    <3> QED BY <3>2
  <2>6. \A v \in DOMAIN code' : \A k \in 1 .. Len(code'[v]) : IsBody(code'[v][k])
    BY <1>0, <2>3, <2>4
  <2>7. ASSUME NEW v \in H
        PROVE  IF DumpLastHeader(dump', v) = 0 THEN v \notin DOMAIN code'
               ELSE /\ v \in DOMAIN code'
                    /\ IF v = cur' THEN DumpOpen(dump', code'[v], DumpLastHeader(dump', v))
                       ELSE DumpClosed(dump', code'[v], DumpLastHeader(dump', v))
    <3>1. CASE v = w
      <4>1. DumpLastHeader(dump', v) = n + 1 /\ code'[v] = <<>> /\ v \in DOMAIN code'
        BY <1>3, <2>1, <2>3, <2>4, <3>1
      <4>2. DumpOpen(dump', <<>>, n + 1)
        <5>1. Len(dump') = n + 1 /\ Len(<<>>) = 0 /\ n + 1 + 1 .. n + 1 = {} /\ 1 .. 0 = {}
          BY <1>0, <1>1
        <5> QED BY <1>0, <5>1 DEF DumpOpen
      <4> QED BY <1>0, <2>2, <3>1, <4>1, <4>2
    <3>2. CASE v # w
      <4>1. DumpLastHeader(dump', v) = h(v) /\ h(v) \in 0 .. n /\ cur' # v
        BY <1>3, <2>1, <2>2, <3>2
      <4>2. v \in DOMAIN code => v \in DOMAIN code' /\ code'[v] = code[v] /\ code[v] \in Seq(d.lines)
        BY <1>0, <2>3, <2>4, <3>2
      <4>3. CASE h(v) = 0
        BY <1>5, <2>3, <3>2, <4>1, <4>3
      <4>4. CASE h(v) # 0 /\ v = cur
        <5>1. v \in DOMAIN code /\ DumpOpen(dump, code[v], h(v))
          BY <1>5, <4>4
        <5>2. DumpClosed(Append(dump, l), SubSeq(code[v], 1, Len(code[v])), h(v))
          <6>1. Len(code[v]) \in 0 .. Len(code[v]) /\ Len(code[v]) + 1 .. Len(code[v]) = {}
            BY <4>2, <5>1
          <6> QED BY <1>0, <2>1, <4>1, <4>2, <5>1, <6>1, DumpOpenStep
        <5>3. SubSeq(code[v], 1, Len(code[v])) = code[v]
          BY <4>2, <5>1
        <5> QED BY <1>1, <4>1, <4>2, <4>4, <5>1, <5>2, <5>3
      <4>5. CASE h(v) # 0 /\ v # cur
        <5>1. v \in DOMAIN code /\ DumpClosed(dump, code[v], h(v))
          BY <1>5, <4>5
        <5>2. DumpClosed(Append(dump, l), code[v], h(v))
          BY <1>0, <4>1, <4>2, <5>1, DumpClosedStep
        <5> QED BY <1>1, <4>1, <4>2, <4>5, <5>1, <5>2
      <4> QED BY <4>3, <4>4, <4>5
    <3> QED BY <3>1, <3>2
  <2>8. DumpCopies(d)'
    BY <2>7 DEF DumpCopies
  <2> QED BY <2>1, <2>2, <2>3, <2>5, <2>6, <2>8
<1>7. CASE l[1] # "header"
  <2>0. Parser(d)!Body(l)
    BY <1>7 DEF Parser!Reads
  <2>1. \A v : DumpLastHeader(dump', v) = h(v) /\ h(v) \in 0 .. n
    <3>1. \A v : l # <<"header", v>>
      BY <1>7
    <3> QED BY <1>3, <3>1
  <2>2. CASE cur = 0
    <3>1. code' = code /\ cur' = cur
      BY <2>0, <2>2 DEF Parser!Body, Parser!None
    <3>2. ASSUME NEW v \in H, h(v) # 0
          PROVE v \in DOMAIN code /\ v # cur /\ DumpClosed(dump', code[v], h(v))
      <4>1. v \in DOMAIN code /\ v # cur /\ DumpClosed(dump, code[v], h(v))
        BY <1>4, <1>5, <2>2, <3>2
      <4>2. h(v) \in 0 .. n /\ code[v] \in Seq(d.lines)
        BY <1>0, <2>1, <4>1
      <4> QED BY <1>0, <1>1, <4>1, <4>2, DumpClosedStep
    <3>3. DumpCopies(d)'
      BY <1>5, <2>1, <3>1, <3>2 DEF DumpCopies
    <3> QED BY <1>0, <3>1, <3>3
  <2>3. CASE cur # 0
    <3>0. cur \in DOMAIN code /\ cur \in H /\ h(cur) # 0 /\ DumpOpen(dump, code[cur], h(cur))
      BY <1>0, <1>5, <2>3
    <3>1. PICK text \in Seq(d.lines) :
            /\ code' = [code EXCEPT ![cur] = text]
            /\ \A k \in 1 .. Len(text) : IsBody(text[k])
            /\ \/ cur' = cur /\ DumpOpen(dump', text, h(cur))
               \/ cur' = 0 /\ DumpClosed(dump', text, h(cur))
      <4>0. code[cur] \in Seq(d.lines) /\ h(cur) \in 0 .. n
        BY <1>0, <2>1, <3>0
      <4>1. CASE IsBody(l)
        <5>1. code' = [code EXCEPT ![cur] = Append(code[cur], l)] /\ cur' = cur
          BY <2>0, <2>3, <4>1 DEF Parser!Body, Parser!None, IsBody
        <5>2. DumpOpen(dump', Append(code[cur], l), h(cur))
          BY <1>0, <1>1, <3>0, <4>0, <4>1, DumpOpenStep
        <5>3. Append(code[cur], l) \in Seq(d.lines)
          <6>1. \A q \in Seq(d.lines) : Append(q, l) \in Seq(d.lines)
            OBVIOUS
          <6> QED BY <4>0, <6>1
        <5>4. \A k \in 1 .. Len(Append(code[cur], l)) : IsBody(Append(code[cur], l)[k])
          <6>1. \A k \in 1 .. Len(code[cur]) : IsBody(code[cur][k])
            BY <1>0, <3>0
          <6> QED BY <4>0, <4>1, <6>1
        <5> QED BY <5>1, <5>2, <5>3, <5>4
      <4>2. CASE ~ IsBody(l)
        <5>1. code' = [code EXCEPT ![cur] = Parser(d)!Trimmed(code[cur])] /\ cur' = 0
          BY <2>0, <2>3, <4>2 DEF Parser!Body, Parser!None, IsBody
        <5>2. PICK m \in 0 .. Len(code[cur]) :
                /\ Parser(d)!Trimmed(code[cur]) = SubSeq(code[cur], 1, m)
                /\ \A k \in m + 1 .. Len(code[cur]) : code[cur][k] = <<"blank">>
          <6>1. \A q \in Seq(d.lines) : \E m \in 0 .. Len(q) :
                  /\ Parser(d)!Trimmed(q) = SubSeq(q, 1, m)
                  /\ \A k \in m + 1 .. Len(q) : q[k] = <<"blank">>
            BY DumpTrims
          <6> QED BY <4>0, <6>1
        <5>3. DumpClosed(dump', SubSeq(code[cur], 1, m), h(cur))
          BY <1>0, <1>1, <3>0, <4>0, <4>2, <5>2, DumpOpenStep
        <5>4. /\ SubSeq(code[cur], 1, m) \in Seq(d.lines)
              /\ Len(SubSeq(code[cur], 1, m)) = m
              /\ \A k \in 1 .. m : SubSeq(code[cur], 1, m)[k] = code[cur][k]
          <6>1. \A q \in Seq(d.lines) : \A i \in 0 .. Len(q) :
                  /\ SubSeq(q, 1, i) \in Seq(d.lines) /\ Len(SubSeq(q, 1, i)) = i
                  /\ \A k \in 1 .. i : SubSeq(q, 1, i)[k] = q[k]
            BY DumpFront
          <6> QED BY <4>0, <5>2, <6>1
        <5>5. \A k \in 1 .. m : IsBody(code[cur][k])
          BY <1>0, <3>0, <4>0, <5>2
        <5> QED BY <5>1, <5>2, <5>3, <5>4, <5>5
      <4> QED BY <4>1, <4>2
    <3>2. DOMAIN code' = DOMAIN code /\ code'[cur] = text /\ \A v \in DOMAIN code : v # cur => code'[v] = code[v]
      BY <1>0, <3>0, <3>1
    <3>3. \A v \in DOMAIN code' : code'[v] \in Seq(d.lines) /\ \A k \in 1 .. Len(code'[v]) : IsBody(code'[v][k])
      BY <1>0, <3>0, <3>1, <3>2
    <3>4. ASSUME NEW v \in H
          PROVE  IF h(v) = 0 THEN v \notin DOMAIN code'
                 ELSE /\ v \in DOMAIN code'
                      /\ IF v = cur' THEN DumpOpen(dump', code'[v], h(v)) ELSE DumpClosed(dump', code'[v], h(v))
      <4>1. CASE h(v) = 0
        BY <1>5, <3>2, <4>1
      <4>2. CASE v = cur
        BY <1>4, <3>0, <3>1, <3>2, <4>2
      <4>3. CASE h(v) # 0 /\ v # cur
        <5>1. v \in DOMAIN code /\ DumpClosed(dump, code[v], h(v))
          BY <1>5, <4>3
        <5>2. h(v) \in 0 .. n /\ code[v] \in Seq(d.lines)
          BY <1>0, <2>1, <5>1
        <5>3. DumpClosed(dump', code[v], h(v))
          BY <1>0, <1>1, <5>1, <5>2, DumpClosedStep
        <5>4. v # cur'
          BY <1>4, <3>1, <4>3
        <5> QED BY <3>2, <4>3, <5>1, <5>3, <5>4
      <4> QED BY <4>1, <4>2, <4>3
    <3>5. DumpCopies(d)'
      BY <2>1, <3>4 DEF DumpCopies
    <3>6. code' = [v \in DOMAIN code' |-> code'[v]]
      BY <1>0, <3>1
    <3>7. cur' = 0 \/ (cur' \in DOMAIN code' /\ cur' \in H)
      BY <3>0, <3>1, <3>2
    <3> QED BY <3>3, <3>5, <3>6, <3>7
  <2> QED BY <2>2, <2>3
<1> QED BY <1>6, <1>7

(* What a line does to the uses.                                           *)
LEMMA DumpBoundStep ==
  ASSUME NEW S, NEW q \in Seq(S), NEW l \in S
  PROVE  /\ DumpBound(Append(q, l)) =
              IF l[1] = "binary" /\ DumpLastOf(q, "stage", Len(q)) # 0 THEN DumpBound(q) \cup {Len(q) + 1}
              ELSE DumpBound(q)
         /\ DumpBound(q) \subseteq 1 .. Len(q) /\ IsFiniteSet(DumpBound(q))
         /\ \A b \in DumpBound(q) : DumpUse(Append(q, l), b) = DumpUse(q, b)
         /\ \A b \in DumpBound(q) : DumpRank(q, b) \in 1 .. Cardinality(DumpBound(q))
<1> DEFINE n == Len(q)
           more == Append(q, l)
           last(k, kind) == DumpLastOf(q, kind, k)
<1>1. n \in Nat /\ Len(more) = n + 1 /\ more[n + 1] = l /\ \A k \in 1 .. n : more[k] = q[k]
  OBVIOUS
<1>2. \A kind : /\ DumpLastOf(more, kind, n + 1) = IF l[1] = kind THEN n + 1 ELSE last(n, kind)
                /\ \A k \in 1 .. n : DumpLastOf(more, kind, k) = last(k, kind)
                /\ \A k \in 0 .. n : last(k, kind) \in 0 .. k
  BY DumpLastStep
<1>3. DumpBound(q) \subseteq 1 .. n
  BY DEF DumpBound
<1>4. IsFiniteSet(DumpBound(q))
  <2>1. IsFiniteSet(1 .. n)
    BY <1>1, FS_Interval
  <2> QED BY <1>3, <2>1, FS_Subset
<1> HIDE DEF more, last
<1>5. \A k \in 1 .. n : k \in DumpBound(more) <=> k \in DumpBound(q)
  <2>1. \A k \in 1 .. n : k \in 1 .. n + 1 /\ more[k] = q[k] /\ DumpLastOf(more, "stage", k) = DumpLastOf(q, "stage", k)
    BY <1>1, <1>2 DEF last
  <2> QED BY <1>1, <2>1 DEF DumpBound
<1>6. n + 1 \in DumpBound(more) <=> l[1] = "binary" /\ DumpLastOf(q, "stage", n) # 0
  <2>1. n + 1 \in 1 .. n + 1
    BY <1>1
  <2>2. l[1] = "binary" => DumpLastOf(more, "stage", n + 1) = DumpLastOf(q, "stage", n)
    BY <1>2 DEF last
  <2> QED BY <1>1, <2>1, <2>2 DEF DumpBound
<1>7. \A k \in DumpBound(more) : k \in 1 .. n \/ k = n + 1
  BY <1>1 DEF DumpBound
<1>8. DumpBound(more) = IF l[1] = "binary" /\ DumpLastOf(q, "stage", n) # 0 THEN DumpBound(q) \cup {n + 1}
                        ELSE DumpBound(q)
  <2>1. CASE l[1] = "binary" /\ DumpLastOf(q, "stage", n) # 0
    <3>1. \A k : k \in DumpBound(more) <=> k \in DumpBound(q) \cup {n + 1}
      BY <1>3, <1>5, <1>6, <1>7, <2>1
    <3> QED BY <2>1, <3>1
  <2>2. CASE ~ (l[1] = "binary" /\ DumpLastOf(q, "stage", n) # 0)
    <3>1. \A k : k \in DumpBound(more) <=> k \in DumpBound(q)
      BY <1>3, <1>5, <1>6, <1>7, <2>2
    <3>2. DumpBound(more) = DumpBound(q)
      BY <3>1
    <3> QED BY <2>2, <3>2
  <2> QED BY <2>1, <2>2
<1>9. ASSUME NEW b \in DumpBound(q) PROVE DumpUse(more, b) = DumpUse(q, b)
  <2>1. b \in 1 .. n /\ more[b] = q[b] /\ last(b, "stage") # 0
    BY <1>1, <1>3 DEF DumpBound, last
  <2>2. DumpLastOf(more, "stage", b) = last(b, "stage") /\ DumpLastOf(more, "regs", b) = last(b, "regs")
    BY <1>2, <2>1
  <2>3. last(b, "stage") \in 0 .. b /\ last(b, "regs") \in 0 .. b
    BY <1>1, <1>2, <2>1
  <2>4. more[last(b, "stage")] = q[last(b, "stage")]
    BY <1>1, <2>1, <2>3
  <2>5. last(b, "regs") > last(b, "stage") => more[last(b, "regs")] = q[last(b, "regs")]
    BY <1>1, <2>1, <2>3
  <2>6. DumpRegs(more, b) = DumpRegs(q, b)
    BY <2>2, <2>5 DEF DumpRegs, last
  <2> QED BY <2>1, <2>2, <2>4, <2>6 DEF DumpUse, last
<1>10. ASSUME NEW b \in DumpBound(q) PROVE DumpRank(q, b) \in 1 .. Cardinality(DumpBound(q))
  <2> DEFINE T == {c \in DumpBound(q) : c <= b}
  <2>1. T \subseteq DumpBound(q) /\ b \in T
    BY <1>3
  <2> HIDE DEF T
  <2>2. IsFiniteSet(T) /\ Cardinality(T) <= Cardinality(DumpBound(q))
    BY <1>4, <2>1, FS_Subset
  <2>3. Cardinality(T) \in Nat /\ Cardinality(T) # 0 /\ Cardinality(DumpBound(q)) \in Nat
    BY <1>4, <2>1, <2>2, FS_CardinalityType, FS_EmptySet
  <2>4. Cardinality(T) \in 1 .. Cardinality(DumpBound(q))
    BY <2>2, <2>3
  <2> QED BY <2>4 DEF T, DumpRank
<1> QED BY <1>3, <1>4, <1>8, <1>9, <1>10 DEF more

LEMMA DumpUsesStep ==
  ASSUME NEW d \in Dumps, DumpTypes(d), DumpDescriptor, DumpUses, NEW l \in d.lines, Parser(d)!Reads(l)
  PROVE  /\ DumpDescriptor' /\ DumpUses'
         /\ stage' \in DumpValues(d) /\ regs' \in DumpValues(d)
         /\ uses' \in Seq(DumpValues(d) \X DumpValues(d) \X DumpValues(d))
         /\ \A k \in 1 .. Len(uses') : uses'[k][1] # "none"
<1> DEFINE n == Len(dump)
           V == DumpValues(d)
           s == DumpLastOf(dump, "stage", n)
           r == DumpLastOf(dump, "regs", n)
           use == <<stage, regs, l[2]>>
<1>0. /\ dump \in Seq(d.lines) /\ n \in Nat /\ stage \in V /\ regs \in V
      /\ uses \in Seq(V \X V \X V) /\ \A k \in 1 .. Len(uses) : uses[k][1] # "none"
  BY DEF DumpTypes
<1>1. dump' = Append(dump, l) /\ Len(dump') = n + 1 /\ dump'[n + 1] = l /\ \A k \in 1 .. n : dump'[k] = dump[k]
  BY <1>0 DEF Parser!Reads
<1>2. /\ stage' = IF l[1] = "stage" THEN l[2] ELSE stage
      /\ regs' = IF l[1] = "regs" THEN l[2] ELSE IF l[1] = "stage" THEN 0 ELSE regs
      /\ uses' = IF l[1] = "binary" /\ stage # "none" THEN Append(uses, use) ELSE uses
  BY DEF Parser!Reads, Parser!Descriptor, Parser!None, Parser!NoStage
<1>3. l[2] \in V /\ (l[1] = "stage" => l[2] # "none") /\ 0 \in V
  BY DumpLines DEF DumpValues
<1>4. /\ stage = IF s = 0 THEN "none" ELSE dump[s][2]
      /\ regs = IF r > s THEN dump[r][2] ELSE 0
  BY DEF DumpDescriptor, DumpRegs
<1>5. /\ DumpLastOf(dump', "stage", n + 1) = IF l[1] = "stage" THEN n + 1 ELSE s
      /\ DumpLastOf(dump', "regs", n + 1) = IF l[1] = "regs" THEN n + 1 ELSE r
      /\ s \in 0 .. n /\ r \in 0 .. n
  <2>1. \A kind : /\ DumpLastOf(Append(dump, l), kind, n + 1) = IF l[1] = kind THEN n + 1 ELSE DumpLastOf(dump, kind, n)
                  /\ \A k \in 0 .. n : DumpLastOf(dump, kind, k) \in 0 .. k
    BY <1>0, DumpLastStep
  <2>2. n \in 0 .. n /\ dump' = Append(dump, l)
    BY <1>0, <1>1
  <2>3. s \in 0 .. n /\ r \in 0 .. n
    BY <2>1, <2>2
  <2> QED BY <2>1, <2>2, <2>3
<1>6. s # 0 => dump[s] \in d.lines /\ dump[s][1] = "stage" /\ dump[s][2] # "none"
  <2> SUFFICES ASSUME s # 0 PROVE dump[s] \in d.lines /\ dump[s][1] = "stage" /\ dump[s][2] # "none"
    OBVIOUS
  <2>1. {k \in 1 .. n : dump[k][1] = "stage"} \subseteq 0 .. n
    BY <1>0
  <2>2. s \in {k \in 1 .. n : dump[k][1] = "stage"}
    BY <1>0, <2>1, Greatest DEF DumpLastOf
  <2>3. dump[s] \in d.lines /\ dump[s][1] = "stage"
    BY <1>0, <2>2
  <2> QED BY <2>3, DumpLines
<1>7. stage # "none" <=> s # 0
  BY <1>4, <1>6
<1> HIDE DEF s, r, V
<1>8. stage' \in V /\ regs' \in V /\ use \in V \X V \X V
  BY <1>0, <1>2, <1>3
<1>9. DumpDescriptor'
  <2>1. stage' = IF DumpLastOf(dump', "stage", n + 1) = 0 THEN "none" ELSE dump'[DumpLastOf(dump', "stage", n + 1)][2]
    <3>1. CASE l[1] = "stage"
      BY <1>0, <1>1, <1>2, <1>5, <3>1
    <3>2. CASE l[1] # "stage"
      <4>1. s # 0 => dump'[s] = dump[s]
        BY <1>0, <1>1, <1>5
      <4> QED BY <1>2, <1>4, <1>5, <3>2, <4>1
    <3> QED BY <3>1, <3>2
  <2>2. regs' = DumpRegs(dump', n + 1)
    <3>1. CASE l[1] = "regs"
      <4>1. n + 1 > s
        BY <1>0, <1>5
      <4> QED BY <1>1, <1>2, <1>5, <3>1, <4>1 DEF DumpRegs
    <3>2. CASE l[1] = "stage"
      <4>1. ~ (r > n + 1)
        BY <1>0, <1>5
      <4> QED BY <1>1, <1>2, <1>5, <3>2, <4>1 DEF DumpRegs
    <3>3. CASE l[1] # "regs" /\ l[1] # "stage"
      <4>1. r > s => dump'[r] = dump[r]
        BY <1>0, <1>1, <1>5
      <4> QED BY <1>2, <1>4, <1>5, <3>3, <4>1 DEF DumpRegs
    <3> QED BY <3>1, <3>2, <3>3
  <2> QED BY <1>1, <2>1, <2>2 DEF DumpDescriptor
<1>10. /\ DumpBound(dump') = IF l[1] = "binary" /\ s # 0 THEN DumpBound(dump) \cup {n + 1} ELSE DumpBound(dump)
       /\ DumpBound(dump) \subseteq 1 .. n /\ IsFiniteSet(DumpBound(dump))
       /\ \A b \in DumpBound(dump) : DumpUse(dump', b) = DumpUse(dump, b)
       /\ \A b \in DumpBound(dump) : DumpRank(dump, b) \in 1 .. Cardinality(DumpBound(dump))
  BY <1>0, <1>1, DumpBoundStep DEF s
<1>11. /\ Len(uses) = Cardinality(DumpBound(dump))
       /\ \A b \in DumpBound(dump) : uses[DumpRank(dump, b)] = DumpUse(dump, b)
  BY DEF DumpUses
<1>12. CASE l[1] = "binary" /\ s # 0
  <2>1. /\ uses' = Append(uses, use) /\ DumpBound(dump') = DumpBound(dump) \cup {n + 1}
    BY <1>2, <1>7, <1>10, <1>12
  <2>2. /\ Len(uses') = Len(uses) + 1 /\ uses'[Len(uses) + 1] = use
        /\ \A k \in 1 .. Len(uses) : uses'[k] = uses[k]
        /\ uses' \in Seq(V \X V \X V)
    <3>1. \A q \in Seq(V \X V \X V), e \in V \X V \X V :
            /\ Append(q, e) \in Seq(V \X V \X V)
            /\ Len(Append(q, e)) = Len(q) + 1 /\ Append(q, e)[Len(q) + 1] = e
            /\ \A k \in 1 .. Len(q) : Append(q, e)[k] = q[k]
      OBVIOUS
    <3> HIDE DEF use
    <3> QED BY <1>0, <1>8, <2>1, <3>1
  <2>3. n + 1 \notin DumpBound(dump) /\ Len(uses) \in Nat
    BY <1>0, <1>10
  <2>4. Cardinality(DumpBound(dump')) = Len(uses) + 1
    <3>1. IsFiniteSet(DumpBound(dump)) /\ n + 1 \notin DumpBound(dump)
      BY <1>10, <2>3
    <3>2. Cardinality(DumpBound(dump) \cup {n + 1}) = Cardinality(DumpBound(dump)) + 1
      BY <3>1, FS_AddElement
    <3> QED BY <1>11, <2>1, <3>2
  <2>5. ASSUME NEW b \in DumpBound(dump) PROVE uses'[DumpRank(dump', b)] = DumpUse(dump', b)
    <3>1. {c \in DumpBound(dump') : c <= b} = {c \in DumpBound(dump) : c <= b}
      <4>1. b \in 1 .. n /\ ~ (n + 1 <= b)
        BY <1>0, <1>10
      <4> QED BY <2>1, <4>1
    <3>2. DumpRank(dump', b) = DumpRank(dump, b)
      BY <3>1 DEF DumpRank
    <3> QED BY <1>10, <1>11, <2>2, <3>2
  <2>6. uses'[DumpRank(dump', n + 1)] = DumpUse(dump', n + 1)
    <3>1. {c \in DumpBound(dump') : c <= n + 1} = DumpBound(dump')
      <4>1. \A c \in DumpBound(dump') : c <= n + 1
        BY <1>0, <1>10, <2>1
      <4> QED BY <4>1
    <3>2. DumpRank(dump', n + 1) = Len(uses) + 1
      BY <2>4, <3>1 DEF DumpRank
    <3>3. /\ stage = dump'[s][2] /\ DumpLastOf(dump', "stage", n + 1) = s
      BY <1>0, <1>1, <1>4, <1>5, <1>12
    <3>4. regs = DumpRegs(dump', n + 1)
      <4>1. r > s => dump'[r] = dump[r]
        BY <1>0, <1>1, <1>5
      <4> QED BY <1>4, <1>5, <1>12, <4>1 DEF DumpRegs
    <3>5. DumpUse(dump', n + 1) = use
      BY <1>1, <3>3, <3>4 DEF DumpUse
    <3> QED BY <2>2, <3>2, <3>5
  <2>7. \A k \in 1 .. Len(uses') : uses'[k][1] # "none"
    <3> TAKE k \in 1 .. Len(uses')
    <3>1. CASE k = Len(uses) + 1
      BY <1>7, <1>12, <2>2, <3>1
    <3>2. CASE k \in 1 .. Len(uses)
      BY <1>0, <2>2, <3>2
    <3> QED BY <2>2, <2>3, <3>1, <3>2
  <2>8. DumpUses'
    BY <2>1, <2>2, <2>4, <2>5, <2>6 DEF DumpUses
  <2> QED BY <1>8, <1>9, <2>2, <2>7, <2>8 DEF V
<1>13. CASE ~ (l[1] = "binary" /\ s # 0)
  <2>1. uses' = uses /\ DumpBound(dump') = DumpBound(dump)
    BY <1>2, <1>7, <1>10, <1>13
  <2>2. \A b : DumpRank(dump', b) = DumpRank(dump, b)
    BY <2>1 DEF DumpRank
  <2>3. DumpUses'
    BY <1>10, <1>11, <2>1, <2>2 DEF DumpUses
  <2> QED BY <1>0, <1>8, <1>9, <2>1, <2>3 DEF V
<1> QED BY <1>12, <1>13

LEMMA DumpInit ==
  ASSUME NEW d \in Dumps, Parser(d)!Init
  PROVE  DumpInv(d)
<1>1. /\ dump = <<>> /\ code = <<>> /\ cur = 0 /\ stage = "none" /\ regs = 0 /\ uses = <<>>
  BY DEF Parser!Init, Parser!None, Parser!NoStage
<1>2. 1 .. 0 = {} /\ DOMAIN <<>> = {} /\ Len(<<>>) = 0
  OBVIOUS
<1>3. DumpTypes(d)
  <2>1. <<>> \in Seq(d.lines) /\ <<>> \in Seq(DumpValues(d) \X DumpValues(d) \X DumpValues(d))
    OBVIOUS
  <2>2. <<>> = [v \in DOMAIN <<>> |-> <<>>[v]]
    OBVIOUS
  <2> QED BY <1>1, <1>2, <2>1, <2>2 DEF DumpTypes, DumpValues
<1>4. \A v : DumpLastHeader(<<>>, v) = 0
  BY <1>2 DEF DumpLastHeader, GreatestOf
<1>5. \A kind : DumpLastOf(<<>>, kind, 0) = 0
  BY <1>2 DEF DumpLastOf, GreatestOf
<1>6. DumpCopies(d)
  BY <1>1, <1>2, <1>4 DEF DumpCopies
<1>7. DumpDescriptor
  BY <1>1, <1>2, <1>5 DEF DumpDescriptor, DumpRegs
<1>8. DumpBound(<<>>) = {}
  BY <1>2 DEF DumpBound
<1>9. DumpUses
  BY <1>1, <1>2, <1>8, FS_EmptySet DEF DumpUses
<1> QED BY <1>3, <1>6, <1>7, <1>9 DEF DumpInv

LEMMA DumpStep ==
  ASSUME NEW d \in Dumps, DumpInv(d), Parser(d)!Next
  PROVE  DumpInv(d)'
<1>0. DumpTypes(d) /\ DumpCopies(d) /\ DumpDescriptor /\ DumpUses
  BY DEF DumpInv
<1>1. PICK l \in d.lines : Parser(d)!Reads(l)
  BY DEF Parser!Next
<1>2. /\ DumpCopies(d)'
      /\ code' = [v \in DOMAIN code' |-> code'[v]] /\ \A v \in DOMAIN code' : code'[v] \in Seq(d.lines)
      /\ cur' = 0 \/ (cur' \in DOMAIN code' /\ cur' \in DumpHeaders(d))
      /\ \A v \in DOMAIN code' : \A k \in 1 .. Len(code'[v]) : IsBody(code'[v][k])
  BY <1>0, <1>1, DumpCopiesStep
<1>3. /\ DumpDescriptor' /\ DumpUses'
      /\ stage' \in DumpValues(d) /\ regs' \in DumpValues(d)
      /\ uses' \in Seq(DumpValues(d) \X DumpValues(d) \X DumpValues(d))
      /\ \A k \in 1 .. Len(uses') : uses'[k][1] # "none"
  BY <1>0, <1>1, DumpUsesStep
<1>4. dump' \in Seq(d.lines)
  <2>1. dump \in Seq(d.lines) /\ dump' = Append(dump, l)
    BY <1>0, <1>1 DEF DumpTypes, Parser!Reads
  <2> QED BY <2>1
<1>5. DumpTypes(d)'
  BY <1>2, <1>3, <1>4 DEF DumpTypes
<1> QED BY <1>2, <1>3, <1>5 DEF DumpInv

LEMMA DumpSame ==
  ASSUME NEW d, DumpInv(d), UNCHANGED parser
  PROVE  DumpInv(d)'
<1>1. UNCHANGED <<dump, code, cur, stage, regs, uses>>
  BY DEF parser
<1>2. DumpTypes(d)'
  BY <1>1 DEF DumpInv, DumpTypes
<1>3. DumpCopies(d)'
  BY <1>1 DEF DumpInv, DumpCopies
<1> QED BY <1>1, <1>2, <1>3 DEF DumpInv, DumpDescriptor, DumpUses

(* What is closed ends with the first line behind it that is no body line. *)
LEMMA DumpEnds ==
  ASSUME NEW d, dump \in Seq(d.lines), NEW h \in 0 .. Len(dump)
  PROVE  /\ (\A k \in h + 1 .. Len(dump) : IsBody(dump[k])) => Parser(d)!BodyEnd(h) = Len(dump)
         /\ \A e \in h .. Len(dump) - 1 :
              ~ IsBody(dump[e + 1]) /\ (\A k \in h + 1 .. e : IsBody(dump[k])) => Parser(d)!BodyEnd(h) = e
<1> DEFINE ends == {m \in (h + 1) .. Len(dump) : dump[m][1] \notin {"instr", "blank"}}
           least == CHOOSE m \in ends : \A o \in ends : m <= o
<1>0. Len(dump) \in Nat /\ h \in Nat
  OBVIOUS
<1>1. Parser(d)!BodyEnd(h) =
        IF ends = {} THEN Len(dump) ELSE least - 1
  BY DEF Parser!BodyEnd
<1>2. ASSUME \A k \in h + 1 .. Len(dump) : IsBody(dump[k]) PROVE ends = {}
  BY <1>2 DEF IsBody
<1>3. ASSUME NEW e \in h .. Len(dump) - 1, ~ IsBody(dump[e + 1]), \A k \in h + 1 .. e : IsBody(dump[k])
      PROVE  ends # {} /\ least = e + 1
  <2>1. e + 1 \in ends
    BY <1>0, <1>3 DEF IsBody
  <2>2. ASSUME NEW o \in ends PROVE o \in Nat /\ e + 1 <= o
    <3>1. o \in h + 1 .. Len(dump) /\ ~ IsBody(dump[o])
      BY DEF IsBody
    <3>2. ~ (o <= e)
      BY <1>0, <1>3, <3>1
    <3> QED BY <1>0, <1>3, <3>1, <3>2
  <2>3. \A m \in ends : (\A o \in ends : m <= o) => m = e + 1
    BY <1>0, <2>1, <2>2
  <2> HIDE DEF ends
  <2> QED BY <2>1, <2>2, <2>3
<1>4. \A e \in h .. Len(dump) - 1 : e + 1 - 1 = e
  BY <1>0
<1> HIDE DEF ends, least
<1> QED BY <1>1, <1>2, <1>3, <1>4

LEMMA DumpGoal ==
  ASSUME NEW d \in Dumps, DumpInv(d)
  PROVE  Parser(d)!TypeOK /\ Parser(d)!KeepsOneCopy /\ Parser(d)!UsesAreTheirDescriptors
<1>0. DumpTypes(d) /\ DumpCopies(d) /\ DumpUses /\ dump \in Seq(d.lines) /\ Len(dump) \in Nat
  BY DEF DumpInv, DumpTypes
<1>1. Parser(d)!TypeOK
  <2>1. ASSUME NEW v \in DOMAIN code, NEW k \in DOMAIN code[v] PROVE code[v][k][1] \in {"instr", "blank"}
    <3>1. code[v] \in Seq(d.lines)
      BY <1>0 DEF DumpTypes
    <3>2. k \in 1 .. Len(code[v])
      BY <3>1
    <3> QED BY <1>0, <3>2 DEF DumpTypes, IsBody
  <2>2. ASSUME NEW k \in DOMAIN uses PROVE uses[k][1] # "none"
    BY <1>0 DEF DumpTypes
  <2> QED BY <1>0, <2>1, <2>2 DEF DumpTypes, Parser!TypeOK, Parser!None, Parser!NoStage
<1>2. Parser(d)!KeepsOneCopy
  <2>1. ASSUME NEW v \in DumpHeaders(d)
        PROVE  IF DumpLastHeader(dump, v) = 0 THEN v \notin DOMAIN code
               ELSE /\ v \in DOMAIN code
                    /\ DumpLastHeader(dump, v) + Len(code[v]) <= Parser(d)!BodyEnd(DumpLastHeader(dump, v))
                    /\ \A k \in 1 .. Len(code[v]) : code[v][k] = dump[DumpLastHeader(dump, v) + k]
                    /\ \A k \in (DumpLastHeader(dump, v) + Len(code[v]) + 1)
                                  .. Parser(d)!BodyEnd(DumpLastHeader(dump, v)) : dump[k] = <<"blank">>
    <3> DEFINE h == DumpLastHeader(dump, v)
    <3>1. h \in 0 .. Len(dump)
      <4>1. {k \in 1 .. Len(dump) : dump[k] = <<"header", v>>} \subseteq 0 .. Len(dump)
        BY <1>0
      <4> QED BY <1>0, <4>1, Greatest DEF DumpLastHeader
    <3>2. CASE h = 0
      BY <1>0, <3>2 DEF DumpCopies
    <3>3. CASE h # 0 /\ v = cur
      <4>1. v \in DOMAIN code /\ DumpOpen(dump, code[v], h)
        BY <1>0, <3>3 DEF DumpCopies
      <4> HIDE DEF h
      <4>2. /\ Len(code[v]) = Len(dump) - h /\ \A k \in 1 .. Len(code[v]) : code[v][k] = dump[h + k]
            /\ \A k \in h + 1 .. Len(dump) : IsBody(dump[k])
        BY <4>1 DEF DumpOpen
      <4>3. Parser(d)!BodyEnd(h) = Len(dump)
        BY <1>0, <3>1, <4>2, DumpEnds
      <4>4. h + Len(code[v]) = Len(dump) /\ (h + Len(code[v]) + 1) .. Len(dump) = {}
        BY <1>0, <3>1, <4>2
      <4>5. h + Len(code[v]) <= Len(dump)
        BY <1>0, <4>4
      <4> QED BY <3>3, <4>1, <4>2, <4>3, <4>4, <4>5 DEF h
    <3>4. CASE h # 0 /\ v # cur
      <4>1. v \in DOMAIN code /\ DumpClosed(dump, code[v], h)
        BY <1>0, <3>4 DEF DumpCopies
      <4> HIDE DEF h
      <4>2. PICK e \in h .. Len(dump) - 1 :
              /\ ~ IsBody(dump[e + 1]) /\ \A k \in h + 1 .. e : IsBody(dump[k])
              /\ h + Len(code[v]) <= e
              /\ \A k \in 1 .. Len(code[v]) : code[v][k] = dump[h + k]
              /\ \A k \in h + Len(code[v]) + 1 .. e : dump[k] = <<"blank">>
        BY <4>1 DEF DumpClosed
      <4>3. Parser(d)!BodyEnd(h) = e
        BY <1>0, <3>1, <4>2, DumpEnds
      <4> QED BY <3>4, <4>1, <4>2, <4>3 DEF h
    <3> QED BY <3>2, <3>3, <3>4
  <2>2. \A v : Parser(d)!LastHeader(v) = DumpLastHeader(dump, v)
    <3>1. DOMAIN dump = 1 .. Len(dump)
      BY <1>0
    <3> QED BY <3>1 DEF Parser!LastHeader, Parser!Last, DumpLastHeader, GreatestOf
  <2> QED BY <2>1, <2>2 DEF Parser!KeepsOneCopy, Parser!Blank, DumpHeaders
<1>3. Parser(d)!UsesAreTheirDescriptors
  <2>1. \A kind, n : Parser(d)!LastOf(kind, n) = DumpLastOf(dump, kind, n)
    BY DEF Parser!LastOf, Parser!Last, DumpLastOf, GreatestOf
  <2>2. DOMAIN dump = 1 .. Len(dump)
    BY <1>0
  <2>3. Parser(d)!Bound = DumpBound(dump)
    BY <2>1, <2>2 DEF Parser!Bound, DumpBound
  <2>4. \A b : Parser(d)!Use(b) = DumpUse(dump, b)
    BY <2>1 DEF Parser!Use, Parser!None, DumpUse, DumpRegs
  <2>5. \A S : Parser(d)!Cardinality(S) = Cardinality(S)
    BY DEF Parser!Cardinality, Cardinality
  <2> QED BY <1>0, <2>3, <2>4, <2>5 DEF Parser!UsesAreTheirDescriptors, DumpUses, DumpRank
<1> QED BY <1>1, <1>2, <1>3

-----------------------------------------------------------------------------
(* The logger of atoms: AtomTrace                                          *)

LogKinds == {"vtc", "frag", "compute", "dep"}
LogIdle == [pc |-> "idle"]
LogCalled(l) == [n : l.numbers, k : LogKinds, deps : SUBSET l.numbers]
LogCalls(l) ==
  [pc : {"called", "timed", "accepted"}, t0 : Nat, ids : Seq(Nat), ok : BOOLEAN, atoms : Seq(LogCalled(l))]
LogKernel(l) == [n : l.numbers, k : LogKinds, waits : SUBSET Nat, silent : BOOLEAN, last : Nat]
LogAtomLine(l) ==
  [line : {"A"}, at : Nat, n : l.numbers, k : LogKinds, deps : SUBSET l.numbers, ok : BOOLEAN, id : Nat]
LogEventLine(l) == [line : {"E"}, at : Nat, n : l.numbers, id : Nat]
LogLines(l) == LogAtomLine(l) \cup LogEventLine(l)

LogTypes(l) ==
  /\ clock \in Nat /\ held \subseteq l.numbers /\ subs \in 0 .. l.subs
  /\ call \in [l.threads -> {LogIdle} \cup LogCalls(l)]
  /\ atoms \in Seq(LogKernel(l)) /\ ended \subseteq 1 .. Len(atoms)
  /\ events \in Seq(1 .. Len(atoms))
  /\ reader \in [batch : Seq(1 .. Len(atoms)), at : 0 .. clock]
  /\ log \in Seq(LogLines(l)) /\ \A i \in 1 .. Len(log) : log[i].at \in 1 .. clock
  /\ \A t \in l.threads :
       /\ call[t].pc \in {"timed", "accepted"} => call[t].t0 \in 1 .. clock
       /\ call[t].pc = "accepted" => Len(call[t].ids) = Len(call[t].atoms)
       /\ call[t].pc \in {"called", "timed"} => call[t].ok
       /\ call[t].pc # "idle" => \A i \in 2 .. Len(call[t].atoms) : call[t].atoms[i].deps = {call[t].atoms[i - 1].n}

LEMMA Joined ==
  ASSUME NEW S, NEW q \in Seq(S), NEW r \in Seq(S), NEW w, w = q \o r
  PROVE  /\ w \in Seq(S) /\ Len(q) \in Nat /\ Len(r) \in Nat /\ Len(w) = Len(q) + Len(r)
         /\ \A k \in 1 .. Len(q) : w[k] = q[k]
         /\ \A k \in 1 .. Len(r) : w[Len(q) + k] = r[k]
         /\ \A k \in 1 .. Len(w) : k \in 1 .. Len(q) \/ \E i \in 1 .. Len(r) : k = Len(q) + i
<1>1. q \o r \in Seq(S) /\ Len(q) \in Nat /\ Len(r) \in Nat /\ Len(q \o r) = Len(q) + Len(r)
  OBVIOUS
<1>2. \A k \in 1 .. Len(q) : (q \o r)[k] = q[k]
  OBVIOUS
<1>3. \A k \in 1 .. Len(r) : (q \o r)[Len(q) + k] = r[k]
  OBVIOUS
<1>4. ASSUME NEW k \in 1 .. Len(w), k \notin 1 .. Len(q) PROVE \E i \in 1 .. Len(r) : k = Len(q) + i
  <2>1. k - Len(q) \in 1 .. Len(r) /\ k = Len(q) + (k - Len(q))
    BY <1>1, <1>4
  <2> QED BY <2>1
<1> QED BY <1>1, <1>2, <1>3, <1>4

LEMMA JoinedLength ==
  ASSUME NEW S, NEW q \in Seq(S), NEW r \in Seq(S), NEW w, w = q \o r
  PROVE  Len(w) = Len(q) + Len(r)
BY Joined

LEMMA Listed ==
  ASSUME NEW S, NEW n \in Nat, NEW f, f = [k \in 1 .. n |-> f[k]], \A k \in 1 .. n : f[k] \in S
  PROVE  f \in Seq(S) /\ Len(f) = n
<1>1. f \in [1 .. n -> S]
  OBVIOUS
<1>2. f \in Seq(S)
  BY <1>1, SeqDef
<1> QED BY <1>2

LogSet(q) == {q[k] : k \in 1 .. Len(q)}
LogEv(s, a) == IF s[a].silent THEN s[a].last ELSE a

(* A call, and what the actions do to it                                   *)
LEMMA LogCallIs ==
  ASSUME NEW l \in Loggers, LogTypes(l), NEW t \in l.threads
  PROVE  /\ call[t] = LogIdle => call[t].pc = "idle"
         /\ call[t].pc # "idle" => call[t] \in LogCalls(l)
         /\ call[t] \in LogCalls(l) =>
              /\ call[t].pc \in {"called", "timed", "accepted"} /\ call[t].t0 \in Nat
              /\ call[t].ids \in Seq(Nat) /\ call[t].ok \in BOOLEAN /\ call[t].atoms \in Seq(LogCalled(l))
              /\ Len(call[t].atoms) \in Nat /\ DOMAIN call[t].atoms = 1 .. Len(call[t].atoms)
<1>1. call[t] \in {LogIdle} \cup LogCalls(l)
  BY DEF LogTypes
<1>2. call[t] = LogIdle => call[t].pc = "idle"
  BY DEF LogIdle
<1>3. ASSUME call[t] \in LogCalls(l)
      PROVE  /\ call[t].pc \in {"called", "timed", "accepted"} /\ call[t].t0 \in Nat
             /\ call[t].ids \in Seq(Nat) /\ call[t].ok \in BOOLEAN /\ call[t].atoms \in Seq(LogCalled(l))
  BY <1>3 DEF LogCalls
<1>4. ASSUME NEW q \in Seq(LogCalled(l)) PROVE Len(q) \in Nat /\ DOMAIN q = 1 .. Len(q)
  OBVIOUS
<1> QED BY <1>1, <1>2, <1>3, <1>4

LEMMA LogEntersDoes ==
  ASSUME NEW l \in Loggers, LogTypes(l), NEW t \in l.threads, Logger(l)!Enters(t)
  PROVE  /\ call[t] = LogIdle /\ (l.serialised => \A u \in l.threads : call[u] = LogIdle)
         /\ call'[t] \in LogCalls(l) /\ call'[t].pc = "called"
         /\ \A u \in l.threads : u # t => call'[u] = call[u]
         /\ call' \in [l.threads -> {LogIdle} \cup LogCalls(l)]
         /\ \A i \in 1 .. Len(call'[t].atoms) : call'[t].atoms[i].n \notin held
         /\ \A i, j \in 1 .. Len(call'[t].atoms) : i # j => call'[t].atoms[i].n # call'[t].atoms[j].n
         /\ held' = held \cup {call'[t].atoms[i].n : i \in 1 .. Len(call'[t].atoms)}
         /\ held' \subseteq l.numbers
         /\ \A i \in 1 .. Len(call'[t].atoms) :
              IF i = 1 THEN \A d \in call'[t].atoms[i].deps : d \in held /\ Logger(l)!Latest(d) # 0
              ELSE call'[t].atoms[i].deps = {call'[t].atoms[i - 1].n}
         /\ subs' \in 0 .. l.subs
         /\ UNCHANGED <<clock, atoms, ended, events, reader, log>>
<1>0. /\ call \in [l.threads -> {LogIdle} \cup LogCalls(l)] /\ held \subseteq l.numbers
      /\ subs \in 0 .. l.subs /\ l.subs \in Nat
      /\ l.groups \subseteq Seq(LogKinds)
  BY LoggersAssumption DEF LogTypes, LogKinds
<1>1. /\ call[t] = LogIdle /\ subs < l.subs /\ (l.serialised => \A u \in l.threads : call[u] = LogIdle)
      /\ subs' = subs + 1
      /\ UNCHANGED <<clock, atoms, ended, events, reader, log>>
  BY DEF Logger!Enters, Logger!Idle, LogIdle
<1>2. PICK g \in l.groups, deps \in SUBSET {n \in held : Logger(l)!Latest(n) # 0} :
        \E ns \in [DOMAIN g -> l.numbers \ held] :
         /\ \A i, j \in DOMAIN g : i # j => ns[i] # ns[j]
         /\ held' = held \cup {ns[i] : i \in DOMAIN g}
         /\ call' = [call EXCEPT ![t] =
              [pc |-> "called", t0 |-> 0, ids |-> <<>>, ok |-> TRUE,
               atoms |-> [i \in DOMAIN g |-> [n |-> ns[i], k |-> g[i],
                                              deps |-> IF i = 1 THEN deps ELSE {ns[i - 1]}]]]]
  BY ZenonT(120) DEF Logger!Enters
<1>3. PICK ns \in [DOMAIN g -> l.numbers \ held] :
         /\ \A i, j \in DOMAIN g : i # j => ns[i] # ns[j]
         /\ held' = held \cup {ns[i] : i \in DOMAIN g}
         /\ call' = [call EXCEPT ![t] =
              [pc |-> "called", t0 |-> 0, ids |-> <<>>, ok |-> TRUE,
               atoms |-> [i \in DOMAIN g |-> [n |-> ns[i], k |-> g[i],
                                              deps |-> IF i = 1 THEN deps ELSE {ns[i - 1]}]]]]
  BY <1>2
<1> DEFINE c == call'[t]
           as == c.atoms
<1>c. c = [pc |-> "called", t0 |-> 0, ids |-> <<>>, ok |-> TRUE,
           atoms |-> [i \in DOMAIN g |-> [n |-> ns[i], k |-> g[i], deps |-> IF i = 1 THEN deps ELSE {ns[i - 1]}]]]
  BY <1>0, <1>3
<1> HIDE DEF c
<1>a. as = [i \in DOMAIN g |-> [n |-> ns[i], k |-> g[i], deps |-> IF i = 1 THEN deps ELSE {ns[i - 1]}]]
  BY <1>c
<1>d. c = [pc |-> "called", t0 |-> 0, ids |-> <<>>, ok |-> TRUE, atoms |-> as]
  BY <1>a, <1>c
<1> HIDE DEF as
<1>4. g \in Seq(LogKinds) /\ Len(g) \in Nat /\ DOMAIN g = 1 .. Len(g)
  BY <1>0
<1>5. \A i \in 1 .. Len(g) : g[i] \in LogKinds
  BY <1>4
<1>6. \A i \in 1 .. Len(g) : ns[i] \in l.numbers /\ ns[i] \notin held
  BY <1>3, <1>4
<1>7. \A i \in 1 .. Len(g) : i # 1 => i - 1 \in 1 .. Len(g)
  BY <1>4
<1>8. \A i \in 1 .. Len(g) :
        /\ as[i].n = ns[i] /\ as[i].k = g[i]
        /\ as[i].deps = IF i = 1 THEN deps ELSE {ns[i - 1]}
        /\ as[i] \in LogCalled(l)
  <2> TAKE i \in 1 .. Len(g)
  <2>1. as[i] = [n |-> ns[i], k |-> g[i], deps |-> IF i = 1 THEN deps ELSE {ns[i - 1]}]
    BY <1>4, <1>a
  <2>2. (IF i = 1 THEN deps ELSE {ns[i - 1]}) \subseteq l.numbers
    BY <1>0, <1>6, <1>7
  <2>3. as[i].n = ns[i] /\ as[i].k = g[i] /\ as[i].deps = IF i = 1 THEN deps ELSE {ns[i - 1]}
    BY <2>1
  <2>4. as[i] \in LogCalled(l)
    BY <1>5, <1>6, <2>1, <2>2 DEF LogCalled
  <2> QED BY <2>3, <2>4
<1>9. as \in Seq(LogCalled(l)) /\ Len(as) = Len(g)
  <2>1. as = [k \in 1 .. Len(g) |-> as[k]]
    BY <1>4, <1>a
  <2>2. Len(g) \in Nat /\ \A k \in 1 .. Len(g) : as[k] \in LogCalled(l)
    BY <1>4, <1>8
  <2> QED BY <2>1, <2>2, Listed
<1>10. c.pc = "called" /\ c \in LogCalls(l)
  <2>1. <<>> \in Seq(Nat) /\ 0 \in Nat /\ TRUE \in BOOLEAN
    OBVIOUS
  <2> QED BY <1>9, <1>d, <2>1 DEF LogCalls
<1>13. (\A u \in l.threads : u # t => call'[u] = call[u]) /\ call' \in [l.threads -> {LogIdle} \cup LogCalls(l)]
  <2>1. call' = [call EXCEPT ![t] = c]
    BY <1>3, <1>c
  <2> QED BY <1>0, <1>10, <2>1
<1>14. \A i \in 1 .. Len(as) :
         /\ as[i].n = ns[i] /\ as[i].n \notin held /\ i \in DOMAIN g
         /\ as[i].deps = IF i = 1 THEN deps ELSE {ns[i - 1]}
         /\ i # 1 => i - 1 \in 1 .. Len(as)
  BY <1>4, <1>6, <1>7, <1>8, <1>9
<1>15. \A i, j \in 1 .. Len(as) : i # j => as[i].n # as[j].n
  <2>1. \A i, j \in DOMAIN g : i # j => ns[i] # ns[j]
    BY <1>3
  <2> TAKE i, j \in 1 .. Len(as)
  <2>2. i \in DOMAIN g /\ j \in DOMAIN g /\ as[i].n = ns[i] /\ as[j].n = ns[j]
    BY <1>14
  <2> QED BY <2>1, <2>2
<1>16. held' = held \cup {as[i].n : i \in 1 .. Len(as)}
  <2>1. DOMAIN g = 1 .. Len(as)
    BY <1>4, <1>9
  <2>2. {ns[i] : i \in DOMAIN g} = {as[i].n : i \in 1 .. Len(as)}
    <3>1. \A i \in 1 .. Len(as) : as[i].n = ns[i]
      BY <1>14
    <3> QED BY <2>1, <3>1
  <2> QED BY <1>3, <2>2
<1>17. held' \subseteq l.numbers
  BY <1>0, <1>3, <1>4, <1>6
<1>18. \A i \in 1 .. Len(as) : IF i = 1 THEN \A d \in as[i].deps : d \in held /\ Logger(l)!Latest(d) # 0
                               ELSE as[i].deps = {as[i - 1].n}
  <2> TAKE i \in 1 .. Len(as)
  <2>1. CASE i = 1
    BY <1>14, <2>1
  <2>2. CASE i # 1
    <3>1. as[i].deps = {ns[i - 1]} /\ as[i - 1].n = ns[i - 1]
      BY <1>14, <2>2
    <3> QED BY <2>2, <3>1
  <2> QED BY <2>1, <2>2
<1>19. subs' \in 0 .. l.subs
  <2>1. subs \in 0 .. l.subs /\ l.subs \in Nat /\ subs < l.subs /\ subs' = subs + 1
    BY <1>0, <1>1
  <2> QED BY <2>1
<1>20. UNCHANGED <<clock, atoms, ended, events, reader, log>>
  BY <1>1
<1>21. call[t] = LogIdle /\ (l.serialised => \A u \in l.threads : call[u] = LogIdle)
  BY <1>1
<1>22. \A i \in 1 .. Len(as) : as[i].n \notin held
  BY <1>14
<1> QED BY <1>10, <1>13, <1>15, <1>16, <1>17, <1>18, <1>19, <1>20, <1>21, <1>22 DEF as, c

(* What a call becomes, others staying as they are.                        *)
LEMMA LogCallSet ==
  ASSUME NEW l \in Loggers, LogTypes(l), NEW t \in l.threads, NEW c \in {LogIdle} \cup LogCalls(l),
         call' = [call EXCEPT ![t] = c]
  PROVE  /\ call'[t] = c /\ (\A u \in l.threads : u # t => call'[u] = call[u])
         /\ call' \in [l.threads -> {LogIdle} \cup LogCalls(l)]
BY DEF LogTypes

LEMMA LogStampsDoes ==
  ASSUME NEW l \in Loggers, LogTypes(l), NEW t \in l.threads, Logger(l)!Stamps(t)
  PROVE  /\ call[t].pc = "called" /\ call[t] \in LogCalls(l) /\ call'[t] \in LogCalls(l)
         /\ call'[t].pc = "timed" /\ call'[t].t0 = clock + 1 /\ call'[t].ok = call[t].ok
         /\ call'[t].atoms = call[t].atoms
         /\ \A u \in l.threads : u # t => call'[u] = call[u]
         /\ call' \in [l.threads -> {LogIdle} \cup LogCalls(l)]
         /\ clock' = clock + 1 /\ clock \in Nat
         /\ UNCHANGED <<held, atoms, ended, events, reader, log, subs>>
<1> DEFINE c == call[t]
<1>1. /\ c.pc = "called" /\ clock' = clock + 1
      /\ call' = [call EXCEPT ![t].pc = "timed", ![t].t0 = clock']
      /\ UNCHANGED <<held, atoms, ended, events, reader, log, subs>>
  BY DEF Logger!Stamps
<1>2. c \in LogCalls(l) /\ clock \in Nat /\ call \in [l.threads -> {LogIdle} \cup LogCalls(l)]
  BY <1>1, LogCallIs DEF LogTypes
<1> DEFINE c2 == [c EXCEPT !.pc = "timed", !.t0 = clock + 1]
<1>3. call' = [call EXCEPT ![t] = c2]
  BY <1>1, <1>2
<1>4. c2 \in LogCalls(l) /\ c2.pc = "timed" /\ c2.t0 = clock + 1 /\ c2.ok = c.ok /\ c2.atoms = c.atoms
  <2>1. PICK now \in Nat : now = clock + 1
    BY <1>2
  <2>2. c2 = [c EXCEPT !.pc = "timed", !.t0 = now]
    BY <2>1
  <2> HIDE DEF c, c2
  <2> QED BY <1>2, <2>1, <2>2 DEF LogCalls
<1> HIDE DEF c2, LogIdle, LogCalls
<1>5. /\ call'[t] = c2 /\ (\A u \in l.threads : u # t => call'[u] = call[u])
      /\ call' \in [l.threads -> {LogIdle} \cup LogCalls(l)]
  BY <1>3, <1>4, LogCallSet
<1> QED BY <1>1, <1>2, <1>4, <1>5

LEMMA LogLatest ==
  ASSUME NEW l, NEW S, atoms \in Seq(S), NEW n
  PROVE  /\ Logger(l)!Latest(n) = GreatestOf({i \in 1 .. Len(atoms) : atoms[i].n = n})
         /\ Logger(l)!Latest(n) \in 0 .. Len(atoms)
<1>1. DOMAIN atoms = 1 .. Len(atoms) /\ Len(atoms) \in Nat
  OBVIOUS
<1>2. Logger(l)!Latest(n) = GreatestOf({i \in 1 .. Len(atoms) : atoms[i].n = n})
  BY <1>1 DEF Logger!Latest, Logger!Last, GreatestOf
<1>3. {i \in 1 .. Len(atoms) : atoms[i].n = n} \subseteq 0 .. Len(atoms)
  BY <1>1
<1> QED BY <1>1, <1>2, <1>3, Greatest

LEMMA LogAcceptsDoes ==
  ASSUME NEW l \in Loggers, LogTypes(l), NEW t \in l.threads, Logger(l)!Accepts(t)
  PROVE  /\ call[t].pc = "timed" /\ call[t] \in LogCalls(l) /\ call'[t] \in LogCalls(l)
         /\ call'[t].pc = "accepted" /\ call'[t].t0 = call[t].t0 /\ call'[t].ok /\ call[t].ok
         /\ call'[t].atoms = call[t].atoms
         /\ Len(call'[t].ids) = Len(call[t].atoms)
         /\ \A i \in 1 .. Len(call[t].atoms) : call'[t].ids[i] = Len(atoms) + i
         /\ \A u \in l.threads : u # t => call'[u] = call[u]
         /\ call' \in [l.threads -> {LogIdle} \cup LogCalls(l)]
         /\ Len(atoms) \in Nat /\ Len(call[t].atoms) \in Nat
         /\ atoms' \in Seq(LogKernel(l)) /\ Len(atoms') = Len(atoms) + Len(call[t].atoms)
         /\ \A a \in 1 .. Len(atoms) : atoms'[a] = atoms[a]
         /\ \A i \in 1 .. Len(call[t].atoms) :
              /\ atoms'[Len(atoms) + i].n = call[t].atoms[i].n /\ atoms'[Len(atoms) + i].k = call[t].atoms[i].k
              /\ atoms'[Len(atoms) + i].last = Len(atoms) + Len(call[t].atoms)
         /\ \A i \in 1 .. Len(call[t].atoms) :
              atoms'[Len(atoms) + i].waits = IF i = 1 THEN {Logger(l)!Latest(d) : d \in call[t].atoms[i].deps}
                                             ELSE {Len(atoms) + i - 1}
         /\ \A i \in 1 .. Len(call[t].atoms) :
              atoms'[Len(atoms) + i].silent = (l.silent /\ i < Len(call[t].atoms))
         /\ \A a \in 1 .. Len(atoms') :
              a \in 1 .. Len(atoms) \/ \E i \in 1 .. Len(call[t].atoms) : a = Len(atoms) + i
         /\ UNCHANGED <<clock, held, ended, events, reader, log, subs>>
<1> DEFINE c == call[t]
           first == Len(atoms)
           id(d, i) == IF i > 1 THEN first + i - 1 ELSE Logger(l)!Latest(d)
           rec(i) == [n |-> c.atoms[i].n, k |-> c.atoms[i].k, waits |-> {id(d, i) : d \in c.atoms[i].deps},
                      silent |-> l.silent /\ i < Len(c.atoms), last |-> first + Len(c.atoms)]
           new == [i \in DOMAIN c.atoms |-> rec(i)]
           ids == [i \in DOMAIN c.atoms |-> first + i]
<1>1. /\ c.pc = "timed" /\ atoms' = atoms \o new
      /\ call' = [call EXCEPT ![t].pc = "accepted", ![t].ids = ids]
      /\ UNCHANGED <<clock, held, ended, events, reader, log, subs>>
  BY DEF Logger!Accepts
<1>2. c \in LogCalls(l) /\ call \in [l.threads -> {LogIdle} \cup LogCalls(l)] /\ c.ok
  BY <1>1, LogCallIs DEF LogTypes
<1>3. /\ c.atoms \in Seq(LogCalled(l)) /\ Len(c.atoms) \in Nat /\ DOMAIN c.atoms = 1 .. Len(c.atoms)
      /\ first \in Nat /\ atoms \in Seq(LogKernel(l)) /\ l.silent \in BOOLEAN
  <2>1. c.atoms \in Seq(LogCalled(l)) /\ Len(c.atoms) \in Nat /\ DOMAIN c.atoms = 1 .. Len(c.atoms)
    BY <1>2, LogCallIs
  <2>2. first \in Nat /\ atoms \in Seq(LogKernel(l))
    BY DEF LogTypes
  <2>3. l.silent \in BOOLEAN
    BY LoggersAssumption
  <2> QED BY <2>1, <2>2, <2>3
<1>4. ASSUME NEW i \in 1 .. Len(c.atoms)
      PROVE  /\ c.atoms[i].n \in l.numbers /\ c.atoms[i].k \in LogKinds
             /\ i # 1 => c.atoms[i].deps = {c.atoms[i - 1].n}
  <2>1. c.atoms[i] \in LogCalled(l)
    BY <1>3
  <2>2. i # 1 => i \in 2 .. Len(c.atoms)
    BY <1>3
  <2>3. i # 1 => c.atoms[i].deps = {c.atoms[i - 1].n}
    BY <1>1, <2>2 DEF LogTypes
  <2> HIDE DEF c
  <2> QED BY <2>1, <2>3 DEF LogCalled
<1>5. ASSUME NEW i \in 1 .. Len(c.atoms)
      PROVE  {id(d, i) : d \in c.atoms[i].deps}
               = IF i = 1 THEN {Logger(l)!Latest(d) : d \in c.atoms[i].deps} ELSE {first + i - 1}
  <2>1. CASE i = 1
    BY <2>1
  <2>2. CASE i # 1
    <3>1. i > 1
      BY <1>3, <2>2
    <3>2. {id(d, i) : d \in c.atoms[i].deps} = {first + i - 1 : d \in c.atoms[i].deps}
      BY <3>1
    <3>3. c.atoms[i].deps # {}
      BY <1>4, <2>2
    <3> HIDE DEF id, c, first
    <3> QED BY <2>2, <3>2, <3>3
  <2> QED BY <2>1, <2>2
<1>6. ASSUME NEW i \in 1 .. Len(c.atoms) PROVE {id(d, i) : d \in c.atoms[i].deps} \subseteq Nat
  <2>1. \A d : Logger(l)!Latest(d) \in Nat
    <3> TAKE d
    <3>1. Logger(l)!Latest(d) \in 0 .. first
      BY <1>3, LogLatest
    <3> QED BY <1>3, <3>1
  <2>2. \A d : id(d, i) \in Nat
    BY <1>3, <2>1
  <2> HIDE DEF id
  <2> QED BY <2>2
<1>7. ASSUME NEW i \in 1 .. Len(c.atoms)
      PROVE  /\ new[i] \in LogKernel(l)
             /\ new[i].n = c.atoms[i].n /\ new[i].k = c.atoms[i].k
             /\ new[i].waits = IF i = 1 THEN {Logger(l)!Latest(d) : d \in c.atoms[i].deps} ELSE {first + i - 1}
             /\ new[i].silent = (l.silent /\ i < Len(c.atoms)) /\ new[i].last = first + Len(c.atoms)
  <2>1. new[i] = rec(i)
    BY <1>3
  <2>2. PICK w \in SUBSET Nat : w = {id(d, i) : d \in c.atoms[i].deps}
    BY <1>6
  <2>3. PICK s \in BOOLEAN : s = (l.silent /\ i < Len(c.atoms))
    OBVIOUS
  <2>4. PICK m \in Nat : m = first + Len(c.atoms)
    BY <1>3
  <2>5. new[i] = [n |-> c.atoms[i].n, k |-> c.atoms[i].k, waits |-> w, silent |-> s, last |-> m]
    BY <2>1, <2>2, <2>3, <2>4
  <2> HIDE DEF id, c, first, new
  <2>6. new[i] \in LogKernel(l)
    BY <1>4, <2>5 DEF LogKernel
  <2>7. new[i].n = c.atoms[i].n /\ new[i].k = c.atoms[i].k /\ new[i].waits = w /\ new[i].silent = s /\ new[i].last = m
    BY <2>5
  <2>8. w = IF i = 1 THEN {Logger(l)!Latest(d) : d \in c.atoms[i].deps} ELSE {first + i - 1}
    BY <1>5, <2>2
  <2> QED BY <2>3, <2>4, <2>6, <2>7, <2>8
<1>8. new \in Seq(LogKernel(l)) /\ Len(new) = Len(c.atoms)
  <2>1. new = [k \in 1 .. Len(c.atoms) |-> new[k]]
    BY <1>3
  <2>2. \A k \in 1 .. Len(c.atoms) : new[k] \in LogKernel(l)
    BY <1>7
  <2> HIDE DEF new, rec, c
  <2> QED BY <1>3, <2>1, <2>2, Listed, ZenonT(120)
<1>9. /\ atoms' \in Seq(LogKernel(l)) /\ Len(atoms') = first + Len(c.atoms)
      /\ \A a \in 1 .. first : atoms'[a] = atoms[a]
      /\ \A i \in 1 .. Len(c.atoms) : atoms'[first + i] = new[i]
      /\ \A a \in 1 .. Len(atoms') : a \in 1 .. first \/ \E i \in 1 .. Len(c.atoms) : a = first + i
  <2>1. atoms' = atoms \o new
    BY <1>1
  <2> HIDE DEF new, rec, c
  <2>2. Len(atoms') = Len(atoms) + Len(new)
    BY <1>3, <1>8, <2>1, JoinedLength
  <2>6. atoms' \in Seq(LogKernel(l))
    BY <1>3, <1>8, <2>1, Joined
  <2>3. \A k \in 1 .. Len(atoms) : atoms'[k] = atoms[k]
    BY <1>3, <1>8, <2>1, Joined
  <2>4. \A k \in 1 .. Len(new) : atoms'[Len(atoms) + k] = new[k]
    BY <1>3, <1>8, <2>1, Joined
  <2>5. \A k \in 1 .. Len(atoms') : k \in 1 .. Len(atoms) \/ \E i \in 1 .. Len(new) : k = Len(atoms) + i
    <3> TAKE k \in 1 .. Len(atoms')
    <3>1. k \notin 1 .. Len(atoms) => k - Len(atoms) \in 1 .. Len(new) /\ k = Len(atoms) + (k - Len(atoms))
      BY <1>3, <1>8, <2>2
    <3> QED BY <3>1
  <2> QED BY <1>8, <2>2, <2>3, <2>4, <2>5, <2>6
<1>10. \A i \in 1 .. Len(c.atoms) :
         /\ atoms'[first + i].n = c.atoms[i].n /\ atoms'[first + i].k = c.atoms[i].k
         /\ atoms'[first + i].last = first + Len(c.atoms)
         /\ atoms'[first + i].waits = IF i = 1 THEN {Logger(l)!Latest(d) : d \in c.atoms[i].deps}
                                      ELSE {first + i - 1}
         /\ atoms'[first + i].silent = (l.silent /\ i < Len(c.atoms))
  <2> TAKE i \in 1 .. Len(c.atoms)
  <2>1. atoms'[first + i] = new[i]
    BY <1>9
  <2> DEFINE b == atoms'[first + i]
  <2>2. b = new[i]
    BY <2>1
  <2> HIDE DEF id, c, first, new, b
  <2>3. /\ b.n = c.atoms[i].n /\ b.k = c.atoms[i].k
        /\ b.waits = IF i = 1 THEN {Logger(l)!Latest(d) : d \in c.atoms[i].deps} ELSE {first + i - 1}
        /\ b.last = first + Len(c.atoms)
    BY <1>7, <2>2
  <2>4. b.silent = (l.silent /\ i < Len(c.atoms))
    BY <1>7, <2>2
  <2> QED BY <2>3, <2>4 DEF b
<1>11. ids \in Seq(Nat) /\ Len(ids) = Len(c.atoms) /\ \A i \in 1 .. Len(c.atoms) : ids[i] = first + i
  <2>1. ids = [k \in 1 .. Len(c.atoms) |-> ids[k]] /\ \A k \in 1 .. Len(c.atoms) : ids[k] = first + k /\ ids[k] \in Nat
    BY <1>3
  <2> HIDE DEF ids, c
  <2> QED BY <1>3, <2>1, Listed, ZenonT(120)
<1> DEFINE c2 == [c EXCEPT !.pc = "accepted", !.ids = ids]
<1>12. call' = [call EXCEPT ![t] = c2]
  <2> HIDE DEF ids
  <2> QED BY <1>1, <1>2
<1>13. /\ c2 \in LogCalls(l) /\ c2.pc = "accepted" /\ c2.t0 = c.t0 /\ c2.ok = c.ok /\ c2.atoms = c.atoms
       /\ c2.ids = ids
  <2> HIDE DEF c, ids
  <2> QED BY <1>2, <1>11 DEF LogCalls
<1> HIDE DEF c2, ids, rec, new, id
<1>14. /\ call'[t] = c2 /\ (\A u \in l.threads : u # t => call'[u] = call[u])
       /\ call' \in [l.threads -> {LogIdle} \cup LogCalls(l)]
  BY <1>12, <1>13, LogCallSet
<1>15. UNCHANGED <<clock, held, ended, events, reader, log, subs>> /\ c.pc = "timed"
  BY <1>1
<1>16. /\ call'[t] \in LogCalls(l) /\ call'[t].pc = "accepted" /\ call'[t].t0 = c.t0 /\ call'[t].ok /\ c.ok
       /\ call'[t].atoms = c.atoms /\ Len(call'[t].ids) = Len(c.atoms)
       /\ \A i \in 1 .. Len(c.atoms) : call'[t].ids[i] = first + i
  BY <1>2, <1>11, <1>13, <1>14
<1>17. c \in LogCalls(l) /\ first \in Nat /\ Len(c.atoms) \in Nat
  BY <1>2, <1>3
<1> HIDE DEF LogIdle, LogCalls, c, first
<1> QED BY <1>9, <1>10, <1>14, <1>15, <1>16, <1>17 DEF c, first

LEMMA LogAcceptsFields ==
  ASSUME NEW l \in Loggers, LogTypes(l), NEW t \in l.threads, Logger(l)!Accepts(t)
  PROVE  \A i \in 1 .. Len(call[t].atoms) :
           /\ atoms'[Len(atoms) + i].n = call[t].atoms[i].n /\ atoms'[Len(atoms) + i].k = call[t].atoms[i].k
           /\ atoms'[Len(atoms) + i].last = Len(atoms) + Len(call[t].atoms)
           /\ atoms'[Len(atoms) + i].silent = (l.silent /\ i < Len(call[t].atoms))
<1>1. \A i \in 1 .. Len(call[t].atoms) :
        /\ atoms'[Len(atoms) + i].n = call[t].atoms[i].n /\ atoms'[Len(atoms) + i].k = call[t].atoms[i].k
        /\ atoms'[Len(atoms) + i].last = Len(atoms) + Len(call[t].atoms)
  BY LogAcceptsDoes
<1>2. \A i \in 1 .. Len(call[t].atoms) :
        atoms'[Len(atoms) + i].silent = (l.silent /\ i < Len(call[t].atoms))
  BY LogAcceptsDoes
<1> QED BY <1>1, <1>2

LEMMA LogRefusesDoes ==
  ASSUME NEW l \in Loggers, LogTypes(l), NEW t \in l.threads, Logger(l)!Refuses(t)
  PROVE  /\ call[t].pc = "timed" /\ call[t] \in LogCalls(l) /\ call'[t] \in LogCalls(l)
         /\ call'[t].pc = "accepted" /\ call'[t].t0 = call[t].t0 /\ ~ call'[t].ok
         /\ call'[t].atoms = call[t].atoms /\ Len(call'[t].ids) = Len(call[t].atoms)
         /\ \A u \in l.threads : u # t => call'[u] = call[u]
         /\ call' \in [l.threads -> {LogIdle} \cup LogCalls(l)]
         /\ UNCHANGED <<clock, held, atoms, ended, events, reader, log, subs>>
<1> DEFINE c == call[t]
           ids == [i \in DOMAIN c.atoms |-> 0]
           c2 == [c EXCEPT !.pc = "accepted", !.ok = FALSE, !.ids = ids]
<1>1. /\ c.pc = "timed" /\ UNCHANGED <<clock, held, atoms, ended, events, reader, log, subs>>
      /\ call' = [call EXCEPT ![t].pc = "accepted", ![t].ok = FALSE, ![t].ids = ids]
  BY DEF Logger!Refuses
<1>2. c \in LogCalls(l) /\ call \in [l.threads -> {LogIdle} \cup LogCalls(l)]
  BY <1>1, LogCallIs DEF LogTypes
<1>3. ids \in Seq(Nat) /\ Len(ids) = Len(c.atoms)
  <2>1. DOMAIN c.atoms = 1 .. Len(c.atoms) /\ Len(c.atoms) \in Nat
    BY <1>2, LogCallIs
  <2>2. ids = [k \in 1 .. Len(c.atoms) |-> ids[k]] /\ \A k \in 1 .. Len(c.atoms) : ids[k] \in Nat
    BY <2>1
  <2> HIDE DEF ids, c
  <2> QED BY <2>1, <2>2, Listed
<1>4. call' = [call EXCEPT ![t] = c2]
  <2> HIDE DEF ids
  <2> QED BY <1>1, <1>2
<1>5. /\ c2 \in LogCalls(l) /\ c2.pc = "accepted" /\ c2.t0 = c.t0 /\ ~ c2.ok /\ c2.atoms = c.atoms
      /\ c2.ids = ids
  <2> HIDE DEF c, ids
  <2> QED BY <1>2, <1>3 DEF LogCalls
<1> HIDE DEF c2, ids
<1>6. /\ call'[t] = c2 /\ (\A u \in l.threads : u # t => call'[u] = call[u])
      /\ call' \in [l.threads -> {LogIdle} \cup LogCalls(l)]
  BY <1>4, <1>5, LogCallSet
<1> HIDE DEF LogIdle, LogCalls
<1> QED BY <1>1, <1>2, <1>3, <1>5, <1>6

LEMMA LogLogsDoes ==
  ASSUME NEW l \in Loggers, LogTypes(l), NEW t \in l.threads, Logger(l)!Logs(t)
  PROVE  /\ call[t].pc = "accepted" /\ call[t] \in LogCalls(l) /\ call'[t] = LogIdle
         /\ \A u \in l.threads : u # t => call'[u] = call[u]
         /\ call' \in [l.threads -> {LogIdle} \cup LogCalls(l)]
         /\ held' = IF call[t].ok THEN held ELSE held \ {call[t].atoms[i].n : i \in 1 .. Len(call[t].atoms)}
         /\ Len(log) \in Nat /\ Len(call[t].atoms) \in Nat
         /\ log' \in Seq(LogLines(l)) /\ Len(log') = Len(log) + Len(call[t].atoms)
         /\ \A i \in 1 .. Len(log) : log'[i] = log[i]
         /\ \A i \in 1 .. Len(call[t].atoms) : LET b == log'[Len(log) + i] IN
              /\ b.line = "A" /\ b.at = call[t].t0 /\ b.n = call[t].atoms[i].n /\ b.k = call[t].atoms[i].k
              /\ b.deps = call[t].atoms[i].deps /\ b.ok = call[t].ok /\ b.id = call[t].ids[i]
         /\ \A j \in 1 .. Len(log') :
              j \in 1 .. Len(log) \/ \E i \in 1 .. Len(call[t].atoms) : j = Len(log) + i
         /\ UNCHANGED <<clock, atoms, ended, events, reader, subs>>
<1> DEFINE c == call[t]
           rec(i) == [line |-> "A", at |-> c.t0, n |-> c.atoms[i].n, k |-> c.atoms[i].k,
                      deps |-> c.atoms[i].deps, ok |-> c.ok, id |-> c.ids[i]]
           new == [i \in DOMAIN c.atoms |-> rec(i)]
<1>0. c.pc = "accepted"
  BY DEF Logger!Logs
<1>1. /\ c \in LogCalls(l) /\ c.t0 \in Nat /\ c.ids \in Seq(Nat) /\ c.ok \in BOOLEAN
      /\ c.atoms \in Seq(LogCalled(l)) /\ Len(c.atoms) \in Nat /\ DOMAIN c.atoms = 1 .. Len(c.atoms)
  BY <1>0, LogCallIs
<1>2. c.t0 \in 1 .. clock /\ clock \in Nat /\ Len(c.ids) = Len(c.atoms)
  BY <1>0 DEF LogTypes
<1>3. c.t0 # 0
  BY <1>2
<1>4. /\ clock' = clock /\ log' = log \o new
      /\ held' = IF c.ok THEN held ELSE held \ {c.atoms[i].n : i \in DOMAIN c.atoms}
      /\ call' = [call EXCEPT ![t] = LogIdle]
      /\ UNCHANGED <<atoms, ended, events, reader, subs>>
  BY <1>3 DEF Logger!Logs, Logger!Idle, LogIdle
<1>5. ASSUME NEW i \in 1 .. Len(c.atoms)
      PROVE  new[i] = rec(i) /\ new[i] \in LogLines(l)
  <2>1. c.atoms[i] \in LogCalled(l) /\ c.ids[i] \in Nat
    BY <1>1, <1>2
  <2>2. new[i] = rec(i)
    BY <1>1
  <2> HIDE DEF c, new
  <2>3. c.atoms[i].n \in l.numbers /\ c.atoms[i].k \in LogKinds /\ c.atoms[i].deps \in SUBSET l.numbers
    BY <2>1 DEF LogCalled
  <2>4. new[i] \in LogAtomLine(l)
    BY <1>1, <2>1, <2>2, <2>3 DEF LogAtomLine
  <2> QED BY <2>2, <2>4 DEF LogLines
<1>6. new \in Seq(LogLines(l)) /\ Len(new) = Len(c.atoms)
  <2>1. new = [k \in 1 .. Len(c.atoms) |-> new[k]]
    BY <1>1
  <2>2. \A k \in 1 .. Len(c.atoms) : new[k] \in LogLines(l)
    BY <1>5
  <2> HIDE DEF new, rec, c
  <2> QED BY <1>1, <2>1, <2>2, Listed, ZenonT(120)
<1>7. log \in Seq(LogLines(l)) /\ Len(log) \in Nat
  BY DEF LogTypes
<1> HIDE DEF new
<1>8. Len(log') = Len(log) + Len(new)
  BY <1>4, <1>6, <1>7, JoinedLength
<1>9. log' \in Seq(LogLines(l))
  BY <1>4, <1>6, <1>7, Joined
<1>10. \A i \in 1 .. Len(log) : log'[i] = log[i]
  BY <1>4, <1>6, <1>7, Joined
<1>11. \A i \in 1 .. Len(new) : log'[Len(log) + i] = new[i]
  BY <1>4, <1>6, <1>7, Joined
<1>12. \A j \in 1 .. Len(log') : j \in 1 .. Len(log) \/ \E i \in 1 .. Len(new) : j = Len(log) + i
  <2> TAKE j \in 1 .. Len(log')
  <2>1. j \notin 1 .. Len(log) => j - Len(log) \in 1 .. Len(new) /\ j = Len(log) + (j - Len(log))
    BY <1>1, <1>6, <1>7, <1>8
  <2> QED BY <2>1
<1>13. \A i \in 1 .. Len(c.atoms) : LET b == log'[Len(log) + i] IN
         /\ b.line = "A" /\ b.at = c.t0 /\ b.n = c.atoms[i].n /\ b.k = c.atoms[i].k
         /\ b.deps = c.atoms[i].deps /\ b.ok = c.ok /\ b.id = c.ids[i]
  <2> TAKE i \in 1 .. Len(c.atoms)
  <2>1. log'[Len(log) + i] = rec(i)
    BY <1>5, <1>6, <1>11
  <2> HIDE DEF c
  <2> QED BY <2>1
<1>14. call'[t] = LogIdle /\ (\A u \in l.threads : u # t => call'[u] = call[u])
       /\ call' \in [l.threads -> {LogIdle} \cup LogCalls(l)]
  BY <1>4, LogCallSet
<1>15. held' = IF c.ok THEN held ELSE held \ {c.atoms[i].n : i \in 1 .. Len(c.atoms)}
  BY <1>1, <1>4
<1>16. UNCHANGED <<clock, atoms, ended, events, reader, subs>>
  BY <1>4
<1> HIDE DEF c, LogIdle, LogCalls
<1> QED BY <1>0, <1>1, <1>6, <1>7, <1>8, <1>9, <1>10, <1>12, <1>13, <1>14, <1>15, <1>16 DEF c

LEMMA LogLogsGrows ==
  ASSUME NEW l \in Loggers, LogTypes(l), NEW t \in l.threads, Logger(l)!Logs(t)
  PROVE  /\ Len(log) \in Nat /\ Len(call[t].atoms) \in Nat /\ Len(log') = Len(log) + Len(call[t].atoms)
         /\ \A i \in 1 .. Len(log) : log'[i] = log[i]
         /\ \A i \in 1 .. Len(call[t].atoms) : log'[Len(log) + i].line = "A"
         /\ \A j \in 1 .. Len(log') :
              j \in 1 .. Len(log) \/ \E i \in 1 .. Len(call[t].atoms) : j = Len(log) + i
<1>1. Len(log) \in Nat /\ Len(call[t].atoms) \in Nat /\ Len(log') = Len(log) + Len(call[t].atoms)
  BY LogLogsDoes
<1>2. \A i \in 1 .. Len(log) : log'[i] = log[i]
  BY LogLogsDoes
<1>3. \A i \in 1 .. Len(call[t].atoms) : log'[Len(log) + i].line = "A"
  BY LogLogsDoes
<1>4. \A j \in 1 .. Len(log') : j \in 1 .. Len(log) \/ \E i \in 1 .. Len(call[t].atoms) : j = Len(log) + i
  BY LogLogsDoes
<1> QED BY <1>1, <1>2, <1>3, <1>4

LEMMA LogReadLogsDoes ==
  ASSUME NEW l \in Loggers, LogTypes(l), Logger(l)!ReadLogs
  PROVE  /\ reader.at \in 1 .. clock /\ reader.batch \in Seq(1 .. Len(atoms))
         /\ reader' = [batch |-> <<>>, at |-> 0]
         /\ held' = held \ {atoms[a].n : a \in {b \in 1 .. Len(atoms) : LogEv(atoms, b) \in LogSet(reader.batch)}}
         /\ Len(log) \in Nat /\ Len(reader.batch) \in Nat
         /\ log' \in Seq(LogLines(l)) /\ Len(log') = Len(log) + Len(reader.batch)
         /\ \A i \in 1 .. Len(log) : log'[i] = log[i]
         /\ \A i \in 1 .. Len(reader.batch) : LET b == log'[Len(log) + i] IN
              b.line = "E" /\ b.at = reader.at /\ b.n = atoms[reader.batch[i]].n /\ b.id = reader.batch[i]
         /\ \A j \in 1 .. Len(log') :
              j \in 1 .. Len(log) \/ \E i \in 1 .. Len(reader.batch) : j = Len(log) + i
         /\ UNCHANGED <<clock, call, atoms, ended, events, subs>>
<1> DEFINE q == reader.batch
           rec(i) == [line |-> "E", at |-> reader.at, n |-> atoms[q[i]].n, id |-> q[i]]
           new == [i \in DOMAIN q |-> rec(i)]
<1>1. reader \in [batch : Seq(1 .. Len(atoms)), at : 0 .. clock] /\ clock \in Nat
      /\ atoms \in Seq(LogKernel(l)) /\ log \in Seq(LogLines(l))
  BY DEF LogTypes
<1>2. q \in Seq(1 .. Len(atoms)) /\ reader.at \in 0 .. clock
  BY <1>1
<1>3. Len(q) \in Nat /\ DOMAIN q = 1 .. Len(q) /\ DOMAIN atoms = 1 .. Len(atoms) /\ Len(log) \in Nat
      /\ Len(atoms) \in Nat
  BY <1>1, <1>2
<1>4. /\ reader.at # 0 /\ log' = log \o new
      /\ held' = held \ {atoms[a].n : a \in {b \in DOMAIN atoms :
                          (IF atoms[b].silent THEN atoms[b].last ELSE b) \in Logger(l)!InBatch}}
      /\ reader' = [batch |-> <<>>, at |-> 0]
      /\ UNCHANGED <<clock, call, atoms, ended, events, subs>>
  BY DEF Logger!ReadLogs, Logger!NoRead
<1>5. Logger(l)!InBatch = LogSet(q)
  BY <1>3 DEF Logger!InBatch, LogSet
<1>6. held' = held \ {atoms[a].n : a \in {b \in 1 .. Len(atoms) : LogEv(atoms, b) \in LogSet(q)}}
  BY <1>3, <1>4, <1>5 DEF LogEv
<1>7. ASSUME NEW i \in 1 .. Len(q) PROVE new[i] = rec(i) /\ new[i] \in LogLines(l)
  <2>1. q[i] \in 1 .. Len(atoms)
    BY <1>2
  <2>2. atoms[q[i]] \in LogKernel(l) /\ q[i] \in Nat /\ reader.at \in Nat
    BY <1>1, <1>2, <1>3, <2>1
  <2>3. new[i] = rec(i)
    BY <1>3
  <2> HIDE DEF q, new
  <2>4. atoms[q[i]].n \in l.numbers
    BY <2>2 DEF LogKernel
  <2>5. new[i] \in LogEventLine(l)
    BY <2>2, <2>3, <2>4 DEF LogEventLine
  <2> QED BY <2>3, <2>5 DEF LogLines
<1>8. new \in Seq(LogLines(l)) /\ Len(new) = Len(q)
  <2>1. new = [k \in 1 .. Len(q) |-> new[k]]
    BY <1>3
  <2>2. \A k \in 1 .. Len(q) : new[k] \in LogLines(l)
    BY <1>7
  <2> HIDE DEF new, rec, q
  <2> QED BY <1>3, <2>1, <2>2, Listed
<1> HIDE DEF new
<1>9. Len(log') = Len(log) + Len(new)
  BY <1>1, <1>4, <1>8, JoinedLength
<1>10. log' \in Seq(LogLines(l))
  BY <1>1, <1>4, <1>8, Joined
<1>11. \A i \in 1 .. Len(log) : log'[i] = log[i]
  BY <1>1, <1>4, <1>8, Joined
<1>12. \A i \in 1 .. Len(new) : log'[Len(log) + i] = new[i]
  BY <1>1, <1>4, <1>8, Joined
<1>13. \A j \in 1 .. Len(log') : j \in 1 .. Len(log) \/ \E i \in 1 .. Len(new) : j = Len(log) + i
  <2> TAKE j \in 1 .. Len(log')
  <2>1. j \notin 1 .. Len(log) => j - Len(log) \in 1 .. Len(new) /\ j = Len(log) + (j - Len(log))
    BY <1>3, <1>8, <1>9
  <2> QED BY <2>1
<1>14. \A i \in 1 .. Len(q) : LET b == log'[Len(log) + i] IN
         b.line = "E" /\ b.at = reader.at /\ b.n = atoms[q[i]].n /\ b.id = q[i]
  <2> TAKE i \in 1 .. Len(q)
  <2>1. log'[Len(log) + i] = rec(i)
    BY <1>7, <1>8, <1>12
  <2> HIDE DEF q
  <2> QED BY <2>1
<1>15. reader.at \in 1 .. clock
  BY <1>1, <1>2, <1>4
<1>16. reader' = [batch |-> <<>>, at |-> 0] /\ UNCHANGED <<clock, call, atoms, ended, events, subs>>
  BY <1>4
<1> HIDE DEF q
<1> QED BY <1>2, <1>3, <1>6, <1>8, <1>9, <1>10, <1>11, <1>13, <1>14, <1>15, <1>16 DEF q

LEMMA SeqGrows ==
  ASSUME NEW S, NEW T, S \subseteq T, NEW q \in Seq(S)
  PROVE  q \in Seq(T)
<1>1. q = [k \in 1 .. Len(q) |-> q[k]] /\ Len(q) \in Nat /\ \A k \in 1 .. Len(q) : q[k] \in S
  OBVIOUS
<1>2. \A k \in 1 .. Len(q) : q[k] \in T
  BY <1>1
<1> QED BY <1>1, <1>2, Listed

LEMMA LogEndsDoes ==
  ASSUME NEW l \in Loggers, LogTypes(l), NEW a \in DOMAIN atoms, Logger(l)!Ends(a)
  PROVE  /\ a \in 1 .. Len(atoms) /\ a \notin ended /\ atoms[a].waits \subseteq ended
         /\ ended' = ended \cup {a}
         /\ events' \in Seq(1 .. Len(atoms))
         /\ LogSet(events') = IF atoms[a].silent THEN LogSet(events) ELSE LogSet(events) \cup {a}
         /\ UNCHANGED <<clock, held, call, atoms, reader, log, subs>>
<1>1. /\ a \in DOMAIN atoms \ ended /\ atoms[a].waits \subseteq ended /\ ended' = ended \cup {a}
      /\ events' = IF atoms[a].silent THEN events ELSE Append(events, a)
      /\ UNCHANGED <<clock, held, call, atoms, reader, log, subs>>
  BY DEF Logger!Ends
<1>2. atoms \in Seq(LogKernel(l)) /\ events \in Seq(1 .. Len(atoms))
  BY DEF LogTypes
<1>3. a \in 1 .. Len(atoms)
  BY <1>2
<1>4. LogSet(Append(events, a)) = LogSet(events) \cup {a} /\ Append(events, a) \in Seq(1 .. Len(atoms))
  <2> DEFINE q == Append(events, a)
  <2>1. /\ Len(events) \in Nat /\ Len(q) = Len(events) + 1 /\ q[Len(events) + 1] = a
        /\ (\A k \in 1 .. Len(events) : q[k] = events[k]) /\ q \in Seq(1 .. Len(atoms))
    BY <1>2, <1>3
  <2>2. \A k \in 1 .. Len(events) + 1 : k \in 1 .. Len(events) \/ k = Len(events) + 1
    BY <2>1
  <2>3. \A k \in 1 .. Len(events) : k \in 1 .. Len(events) + 1
    BY <2>1
  <2>4. Len(events) + 1 \in 1 .. Len(events) + 1
    BY <2>1
  <2> HIDE DEF q
  <2>5. ASSUME NEW x \in LogSet(q) PROVE x \in LogSet(events) \cup {a}
    BY <2>1, <2>2 DEF LogSet
  <2>6. ASSUME NEW x \in LogSet(events) PROVE x \in LogSet(q)
    <3>1. PICK k \in 1 .. Len(events) : x = events[k]
      BY DEF LogSet
    <3>2. k \in 1 .. Len(q) /\ q[k] = x
      BY <2>1, <2>3, <3>1
    <3> QED BY <3>2 DEF LogSet
  <2>7. a \in LogSet(q)
    BY <2>1, <2>4 DEF LogSet
  <2>8. LogSet(q) = LogSet(events) \cup {a}
    BY <2>5, <2>6, <2>7
  <2> QED BY <2>1, <2>8 DEF q
<1> QED BY <1>1, <1>2, <1>3, <1>4

LEMMA LogReadsDoes ==
  ASSUME NEW l \in Loggers, LogTypes(l), Logger(l)!Reads
  PROVE  /\ reader.at = 0 /\ LogSet(reader.batch) = {}
         /\ reader' = [batch |-> events, at |-> 0] /\ events' = <<>>
         /\ UNCHANGED <<clock, held, call, atoms, ended, log, subs>>
<1>1. /\ reader = [batch |-> <<>>, at |-> 0] /\ reader' = [batch |-> events, at |-> 0] /\ events' = <<>>
      /\ UNCHANGED <<clock, held, call, atoms, ended, log, subs>>
  BY DEF Logger!Reads, Logger!NoRead
<1>2. reader.at = 0 /\ reader.batch = <<>>
  BY <1>1
<1>3. LogSet(<<>>) = {}
  BY DEF LogSet
<1> QED BY <1>1, <1>2, <1>3

LEMMA LogReadStampsDoes ==
  ASSUME NEW l \in Loggers, LogTypes(l), Logger(l)!ReadStamps
  PROVE  /\ clock' = clock + 1 /\ clock \in Nat
         /\ reader' \in [batch : Seq(1 .. Len(atoms)), at : 0 .. clock']
         /\ reader'.at = clock + 1 /\ reader'.batch = reader.batch
         /\ UNCHANGED <<held, call, atoms, ended, events, log, subs>>
<1>1. /\ clock' = clock + 1 /\ reader' = [reader EXCEPT !.at = clock']
      /\ UNCHANGED <<held, call, atoms, ended, events, log, subs>>
  BY DEF Logger!ReadStamps
<1>2. clock \in Nat /\ reader \in [batch : Seq(1 .. Len(atoms)), at : 0 .. clock]
  BY DEF LogTypes
<1>3. clock' \in 0 .. clock'
  BY <1>1, <1>2
<1>4. reader' \in [batch : Seq(1 .. Len(atoms)), at : 0 .. clock'] /\ reader'.at = clock' /\ reader'.batch = reader.batch
  BY <1>1, <1>2, <1>3
<1> QED BY <1>1, <1>2, <1>4

(* What the types say of the calls.                                        *)
LogCallTypes(c, now) ==
  /\ c.pc \in {"timed", "accepted"} => c.t0 \in 1 .. now
  /\ c.pc = "accepted" => Len(c.ids) = Len(c.atoms)
  /\ c.pc \in {"called", "timed"} => c.ok
  /\ c.pc # "idle" => \A i \in 2 .. Len(c.atoms) : c.atoms[i].deps = {c.atoms[i - 1].n}

LEMMA LogTypesAre ==
  ASSUME NEW l
  PROVE  LogTypes(l) <=>
           /\ clock \in Nat /\ held \subseteq l.numbers /\ subs \in 0 .. l.subs
           /\ call \in [l.threads -> {LogIdle} \cup LogCalls(l)]
           /\ atoms \in Seq(LogKernel(l)) /\ ended \subseteq 1 .. Len(atoms)
           /\ events \in Seq(1 .. Len(atoms))
           /\ reader \in [batch : Seq(1 .. Len(atoms)), at : 0 .. clock]
           /\ log \in Seq(LogLines(l)) /\ \A i \in 1 .. Len(log) : log[i].at \in 1 .. clock
           /\ \A t \in l.threads : LogCallTypes(call[t], clock)
BY DEF LogTypes, LogCallTypes

LEMMA LogTypesStep ==
  ASSUME NEW l \in Loggers, LogTypes(l), Logger(l)!Next
  PROVE  LogTypes(l)'
<1>0. /\ clock \in Nat /\ held \subseteq l.numbers /\ subs \in 0 .. l.subs
      /\ call \in [l.threads -> {LogIdle} \cup LogCalls(l)]
      /\ atoms \in Seq(LogKernel(l)) /\ ended \subseteq 1 .. Len(atoms)
      /\ events \in Seq(1 .. Len(atoms))
      /\ reader \in [batch : Seq(1 .. Len(atoms)), at : 0 .. clock]
      /\ log \in Seq(LogLines(l)) /\ \A i \in 1 .. Len(log) : log[i].at \in 1 .. clock
      /\ \A t \in l.threads : LogCallTypes(call[t], clock)
  BY LogTypesAre
<1> DEFINE Goal ==
      /\ clock' \in Nat /\ held' \subseteq l.numbers /\ subs' \in 0 .. l.subs
      /\ call' \in [l.threads -> {LogIdle} \cup LogCalls(l)]
      /\ atoms' \in Seq(LogKernel(l)) /\ ended' \subseteq 1 .. Len(atoms')
      /\ events' \in Seq(1 .. Len(atoms'))
      /\ reader' \in [batch : Seq(1 .. Len(atoms')), at : 0 .. clock']
      /\ log' \in Seq(LogLines(l)) /\ \A i \in 1 .. Len(log') : log'[i].at \in 1 .. clock'
      /\ \A t \in l.threads : LogCallTypes(call'[t], clock')
<1>1. ASSUME NEW t \in l.threads, Logger(l)!Enters(t) PROVE Goal
  <2>1. /\ call'[t].pc = "called" /\ call'[t] \in LogCalls(l)
        /\ \A u \in l.threads : u # t => call'[u] = call[u]
        /\ call' \in [l.threads -> {LogIdle} \cup LogCalls(l)]
        /\ \A i \in 1 .. Len(call'[t].atoms) : i # 1 => call'[t].atoms[i].deps = {call'[t].atoms[i - 1].n}
        /\ held' \subseteq l.numbers /\ subs' \in 0 .. l.subs
        /\ UNCHANGED <<clock, atoms, ended, events, reader, log>>
    BY <1>1, LogEntersDoes
  <2> HIDE DEF LogCalls, LogIdle, LogKernel, LogLines
  <2>2. call'[t].ok
    BY <1>1 DEF Logger!Enters, LogTypes
  <2>3. LogCallTypes(call'[t], clock)
    <3>1. \A i \in 2 .. Len(call'[t].atoms) : i \in 1 .. Len(call'[t].atoms) /\ i # 1
      OBVIOUS
    <3> QED BY <2>1, <2>2, <3>1 DEF LogCallTypes
  <2> QED BY <1>0, <2>1, <2>3
<1>2. ASSUME NEW t \in l.threads, Logger(l)!Stamps(t) PROVE Goal
  <2>1. /\ call[t].pc = "called" /\ call'[t].pc = "timed" /\ call'[t].t0 = clock + 1 /\ call'[t].ok = call[t].ok
        /\ call'[t].atoms = call[t].atoms
        /\ \A u \in l.threads : u # t => call'[u] = call[u]
        /\ call' \in [l.threads -> {LogIdle} \cup LogCalls(l)]
        /\ clock' = clock + 1
        /\ UNCHANGED <<held, atoms, ended, events, reader, log, subs>>
    BY <1>2, LogStampsDoes
  <2> HIDE DEF LogCalls, LogIdle, LogKernel, LogLines
  <2>2. \A k \in 1 .. clock : k \in 1 .. clock'
    BY <1>0, <2>1
  <2>3. LogCallTypes(call'[t], clock')
    <3>1. clock + 1 \in 1 .. clock'
      BY <1>0, <2>1
    <3> QED BY <1>0, <2>1, <3>1 DEF LogCallTypes
  <2>4. ASSUME NEW u \in l.threads, u # t PROVE LogCallTypes(call'[u], clock')
    BY <1>0, <2>1, <2>2, <2>4, SMTT(30) DEF LogCallTypes
  <2>5. reader \in [batch : Seq(1 .. Len(atoms)), at : 0 .. clock']
    <3>1. \A k \in 0 .. clock : k \in 0 .. clock'
      BY <1>0, <2>1
    <3> QED BY <1>0, <3>1
  <2>6. clock' \in Nat
    BY <1>0, <2>1
  <2> QED BY <1>0, <2>1, <2>2, <2>3, <2>4, <2>5, <2>6
<1>3. ASSUME NEW t \in l.threads, Logger(l)!Accepts(t) PROVE Goal
  <2>1. /\ call[t].pc = "timed" /\ call'[t].pc = "accepted" /\ call'[t].t0 = call[t].t0
        /\ call'[t].atoms = call[t].atoms /\ Len(call'[t].ids) = Len(call[t].atoms)
        /\ \A u \in l.threads : u # t => call'[u] = call[u]
        /\ call' \in [l.threads -> {LogIdle} \cup LogCalls(l)]
        /\ Len(atoms) \in Nat /\ Len(call[t].atoms) \in Nat
        /\ atoms' \in Seq(LogKernel(l)) /\ Len(atoms') = Len(atoms) + Len(call[t].atoms)
        /\ UNCHANGED <<clock, held, ended, events, reader, log, subs>>
    BY <1>3, LogAcceptsDoes
  <2> HIDE DEF LogCalls, LogIdle, LogKernel, LogLines
  <2>2. 1 .. Len(atoms) \subseteq 1 .. Len(atoms')
    BY <2>1
  <2>3. Seq(1 .. Len(atoms)) \subseteq Seq(1 .. Len(atoms'))
    BY <2>2, SeqGrows
  <2>4. LogCallTypes(call'[t], clock)
    BY <1>0, <2>1 DEF LogCallTypes
  <2>5. events' \in Seq(1 .. Len(atoms')) /\ reader' \in [batch : Seq(1 .. Len(atoms')), at : 0 .. clock']
    BY <1>0, <2>1, <2>3
  <2> QED BY <1>0, <2>1, <2>2, <2>4, <2>5
<1>4. ASSUME NEW t \in l.threads, Logger(l)!Refuses(t) PROVE Goal
  <2>1. /\ call[t].pc = "timed" /\ call'[t].pc = "accepted" /\ call'[t].t0 = call[t].t0
        /\ call'[t].atoms = call[t].atoms /\ Len(call'[t].ids) = Len(call[t].atoms)
        /\ \A u \in l.threads : u # t => call'[u] = call[u]
        /\ call' \in [l.threads -> {LogIdle} \cup LogCalls(l)]
        /\ UNCHANGED <<clock, held, atoms, ended, events, reader, log, subs>>
    BY <1>4, LogRefusesDoes
  <2> HIDE DEF LogCalls, LogIdle, LogKernel, LogLines
  <2>2. LogCallTypes(call'[t], clock)
    BY <1>0, <2>1 DEF LogCallTypes
  <2> QED BY <1>0, <2>1, <2>2
<1>5. ASSUME NEW t \in l.threads, Logger(l)!Logs(t) PROVE Goal
  <2>1. /\ call[t].pc = "accepted" /\ call'[t] = LogIdle
        /\ \A u \in l.threads : u # t => call'[u] = call[u]
        /\ call' \in [l.threads -> {LogIdle} \cup LogCalls(l)]
        /\ held' \subseteq held
        /\ log' \in Seq(LogLines(l))
        /\ \A i \in 1 .. Len(log) : log'[i] = log[i]
        /\ \A i \in 1 .. Len(call[t].atoms) : log'[Len(log) + i].at = call[t].t0
        /\ \A j \in 1 .. Len(log') : j \in 1 .. Len(log) \/ \E i \in 1 .. Len(call[t].atoms) : j = Len(log) + i
        /\ UNCHANGED <<clock, atoms, ended, events, reader, subs>>
    <3>1. /\ call[t].pc = "accepted" /\ call'[t] = LogIdle
          /\ \A u \in l.threads : u # t => call'[u] = call[u]
          /\ call' \in [l.threads -> {LogIdle} \cup LogCalls(l)]
          /\ log' \in Seq(LogLines(l))
          /\ UNCHANGED <<clock, atoms, ended, events, reader, subs>>
      BY <1>5, LogLogsDoes
    <3>2. held' \subseteq held
      BY <1>5, LogLogsDoes
    <3>3. \A i \in 1 .. Len(call[t].atoms) : log'[Len(log) + i].at = call[t].t0
      BY <1>5, LogLogsDoes
    <3> QED BY <1>5, <3>1, <3>2, <3>3, LogLogsGrows
  <2>2. LogCallTypes(LogIdle, clock)
    BY DEF LogCallTypes, LogIdle
  <2> HIDE DEF LogCalls, LogIdle, LogKernel, LogLines
  <2>3. call[t].t0 \in 1 .. clock
    BY <1>0, <2>1 DEF LogCallTypes
  <2>4. \A j \in 1 .. Len(log') : log'[j].at \in 1 .. clock
    BY <1>0, <2>1, <2>3, ZenonT(120)
  <2> QED BY <1>0, <2>1, <2>2, <2>4
<1>6. ASSUME NEW a \in DOMAIN atoms, Logger(l)!Ends(a) PROVE Goal
  <2>1. /\ a \in 1 .. Len(atoms) /\ ended' = ended \cup {a} /\ events' \in Seq(1 .. Len(atoms))
        /\ UNCHANGED <<clock, held, call, atoms, reader, log, subs>>
    BY <1>6, LogEndsDoes
  <2> QED BY <1>0, <2>1
<1>7. ASSUME Logger(l)!Reads PROVE Goal
  <2>1. /\ reader' = [batch |-> events, at |-> 0] /\ events' = <<>>
        /\ UNCHANGED <<clock, held, call, atoms, ended, log, subs>>
    BY <1>7, LogReadsDoes
  <2>2. <<>> \in Seq(1 .. Len(atoms)) /\ 0 \in 0 .. clock
    BY <1>0
  <2>3. reader' \in [batch : Seq(1 .. Len(atoms)), at : 0 .. clock]
    BY <1>0, <2>1, <2>2
  <2>4. events' \in Seq(1 .. Len(atoms'))
    BY <2>1, <2>2
  <2>5. UNCHANGED <<clock, held, call, atoms, ended, log, subs>>
    BY <2>1
  <2> HIDE DEF LogCalls, LogIdle, LogKernel, LogLines
  <2> QED BY <1>0, <2>3, <2>4, <2>5
<1>8. ASSUME Logger(l)!ReadStamps PROVE Goal
  <2>1. /\ clock' = clock + 1 /\ reader' \in [batch : Seq(1 .. Len(atoms)), at : 0 .. clock']
        /\ UNCHANGED <<held, call, atoms, ended, events, log, subs>>
    BY <1>8, LogReadStampsDoes
  <2>2. clock' \in Nat /\ \A k \in 1 .. clock : k \in 1 .. clock'
    BY <1>0, <2>1
  <2>3. ASSUME NEW u \in l.threads PROVE LogCallTypes(call'[u], clock')
    BY <1>0, <2>1, <2>2 DEF LogCallTypes
  <2>4. reader' \in [batch : Seq(1 .. Len(atoms')), at : 0 .. clock']
    BY <2>1
  <2>5. UNCHANGED <<held, call, atoms, ended, events, log, subs>>
    BY <2>1
  <2> HIDE DEF LogCalls, LogIdle, LogKernel, LogLines
  <2> QED BY <1>0, <2>2, <2>3, <2>4, <2>5
<1>9. ASSUME Logger(l)!ReadLogs PROVE Goal
  <2>1. /\ reader.at \in 1 .. clock
        /\ reader' = [batch |-> <<>>, at |-> 0]
        /\ held' \subseteq held
        /\ log' \in Seq(LogLines(l))
        /\ \A i \in 1 .. Len(log) : log'[i] = log[i]
        /\ \A i \in 1 .. Len(reader.batch) : log'[Len(log) + i].at = reader.at
        /\ \A j \in 1 .. Len(log') : j \in 1 .. Len(log) \/ \E i \in 1 .. Len(reader.batch) : j = Len(log) + i
        /\ UNCHANGED <<clock, call, atoms, ended, events, subs>>
    BY <1>9, LogReadLogsDoes
  <2> HIDE DEF LogCalls, LogIdle, LogKernel, LogLines
  <2>2. <<>> \in Seq(1 .. Len(atoms)) /\ 0 \in 0 .. clock
    BY <1>0
  <2>3. reader' \in [batch : Seq(1 .. Len(atoms)), at : 0 .. clock]
    BY <2>1, <2>2
  <2>4. \A j \in 1 .. Len(log') : log'[j].at \in 1 .. clock
    BY <1>0, <2>1
  <2>5. UNCHANGED <<clock, call, atoms, ended, events, subs>> /\ held' \subseteq held /\ log' \in Seq(LogLines(l))
    BY <2>1
  <2> QED BY <1>0, <2>3, <2>4, <2>5
<1>10. Goal => LogTypes(l)'
  BY DEF LogTypes, LogCallTypes
<1> HIDE DEF Goal
<1> QED BY <1>1, <1>2, <1>3, <1>4, <1>5, <1>6, <1>7, <1>8, <1>9, <1>10 DEF Logger!Next

(* There is an event line of atom a; the number of an atom is out until    *)
(* there is one of the atom whose event gives it back.                     *)
LogHas(q, a) == \E j \in 1 .. Len(q) : q[j].line = "E" /\ q[j].id = a
LogOut(s, q, a) == ~ LogHas(q, LogEv(s, a))

(* A call that holds its numbers itself, and one that has atoms.           *)
LogTaken(c) == c.pc \in {"called", "timed"} \/ (c.pc = "accepted" /\ ~ c.ok)
LogGiven(c) == c.pc = "accepted" /\ c.ok

LEMMA LogLogsHas ==
  ASSUME NEW l \in Loggers, LogTypes(l), NEW t \in l.threads, Logger(l)!Logs(t), NEW a
  PROVE  LogHas(log', a) <=> LogHas(log, a)
<1>1. /\ Len(log) \in Nat /\ Len(call[t].atoms) \in Nat /\ Len(log') = Len(log) + Len(call[t].atoms)
      /\ \A i \in 1 .. Len(log) : log'[i] = log[i]
      /\ \A i \in 1 .. Len(call[t].atoms) : log'[Len(log) + i].line = "A"
      /\ \A j \in 1 .. Len(log') : j \in 1 .. Len(log) \/ \E i \in 1 .. Len(call[t].atoms) : j = Len(log) + i
  BY LogLogsGrows
<1>2. \A j \in 1 .. Len(log) : j \in 1 .. Len(log')
  BY <1>1
<1>3. \A j \in 1 .. Len(log') : log'[j].line = "E" => j \in 1 .. Len(log)
  BY <1>1
<1> QED BY <1>1, <1>2, <1>3 DEF LogHas

LEMMA LogReadLogsHas ==
  ASSUME NEW l \in Loggers, LogTypes(l), Logger(l)!ReadLogs, NEW a
  PROVE  LogHas(log', a) <=> LogHas(log, a) \/ a \in LogSet(reader.batch)
<1>1. /\ Len(log) \in Nat /\ Len(reader.batch) \in Nat /\ Len(log') = Len(log) + Len(reader.batch)
      /\ \A i \in 1 .. Len(log) : log'[i] = log[i]
      /\ \A i \in 1 .. Len(reader.batch) : log'[Len(log) + i].line = "E" /\ log'[Len(log) + i].id = reader.batch[i]
      /\ \A j \in 1 .. Len(log') : j \in 1 .. Len(log) \/ \E i \in 1 .. Len(reader.batch) : j = Len(log) + i
  BY LogReadLogsDoes
<1>2. \A j \in 1 .. Len(log) : j \in 1 .. Len(log')
  BY <1>1
<1>3. \A i \in 1 .. Len(reader.batch) : Len(log) + i \in 1 .. Len(log')
  BY <1>1
<1>4. ASSUME LogHas(log', a) PROVE LogHas(log, a) \/ a \in LogSet(reader.batch)
  BY <1>1, <1>4, ZenonT(120) DEF LogHas, LogSet
<1>5. ASSUME LogHas(log, a) PROVE LogHas(log', a)
  BY <1>1, <1>2, <1>5 DEF LogHas
<1>6. ASSUME a \in LogSet(reader.batch) PROVE LogHas(log', a)
  <2>1. PICK i \in 1 .. Len(reader.batch) : a = reader.batch[i]
    BY <1>6 DEF LogSet
  <2>2. Len(log) + i \in 1 .. Len(log') /\ log'[Len(log) + i].line = "E" /\ log'[Len(log) + i].id = a
    BY <1>1, <1>3, <2>1
  <2> QED BY <2>2 DEF LogHas
<1> QED BY <1>4, <1>5, <1>6

-----------------------------------------------------------------------------
(* The atoms of a submission end one after the other                       *)

LogChain ==
  /\ \A a \in 1 .. Len(atoms) :
       atoms[a].last \in a .. Len(atoms) /\ atoms[atoms[a].last].last = atoms[a].last
  /\ \A a, c \in 1 .. Len(atoms) : a < c /\ atoms[a].last = atoms[c].last =>
       /\ c - 1 \in atoms[c].waits /\ atoms[c - 1].last = atoms[c].last
       /\ c \in ended => a \in ended

LEMMA LogChainStep ==
  ASSUME NEW l \in Loggers, LogTypes(l), LogChain, Logger(l)!Next
  PROVE  LogChain'
<1>0. /\ Len(atoms) \in Nat /\ ended \subseteq 1 .. Len(atoms)
      /\ \A a \in 1 .. Len(atoms) :
           atoms[a].last \in a .. Len(atoms) /\ atoms[atoms[a].last].last = atoms[a].last
      /\ \A a, c \in 1 .. Len(atoms) : a < c /\ atoms[a].last = atoms[c].last =>
           /\ c - 1 \in atoms[c].waits /\ atoms[c - 1].last = atoms[c].last
           /\ c \in ended => a \in ended
  <2>1. Len(atoms) \in Nat /\ ended \subseteq 1 .. Len(atoms)
    BY DEF LogTypes
  <2> QED BY <2>1 DEF LogChain
<1>1. ASSUME NEW t \in l.threads, Logger(l)!Accepts(t) PROVE LogChain'
  <2> DEFINE first == Len(atoms)
             m == Len(call[t].atoms)
  <2>1. /\ first \in Nat /\ m \in Nat /\ Len(atoms') = first + m /\ ended' = ended
        /\ \A a \in 1 .. first : atoms'[a] = atoms[a]
        /\ \A i \in 1 .. m : atoms'[first + i].last = first + m
        /\ \A i \in 1 .. m : i # 1 => atoms'[first + i].waits = {first + i - 1}
        /\ \A a \in 1 .. Len(atoms') : a \in 1 .. first \/ \E i \in 1 .. m : a = first + i
    <3>1. /\ first \in Nat /\ m \in Nat /\ Len(atoms') = first + m /\ ended' = ended
          /\ \A a \in 1 .. first : atoms'[a] = atoms[a]
      BY <1>1, LogAcceptsDoes
    <3>2. \A i \in 1 .. m : atoms'[first + i].last = first + m
      BY <1>1, LogAcceptsFields
    <3>3. \A i \in 1 .. m : i # 1 => atoms'[first + i].waits = {first + i - 1}
      BY <1>1, LogAcceptsDoes, ZenonT(120)
    <3>4. \A a \in 1 .. Len(atoms') : a \in 1 .. first \/ \E i \in 1 .. m : a = first + i
      BY <1>1, LogAcceptsDoes
    <3> QED BY <3>1, <3>2, <3>3, <3>4
  <2> HIDE DEF first, m
  <2>2. \A a \in 1 .. first : atoms'[a].last \in a .. first /\ atoms'[a].last \in 1 .. first
    BY <1>0, <2>1 DEF first
  <2>3. ASSUME NEW a \in 1 .. Len(atoms')
        PROVE  atoms'[a].last \in a .. Len(atoms') /\ atoms'[atoms'[a].last].last = atoms'[a].last
    <3>1. CASE a \in 1 .. first
      <4>1. atoms'[a].last \in a .. Len(atoms')
        BY <2>1, <2>2, <3>1
      <4>2. atoms'[a].last = atoms[a].last /\ atoms'[atoms[a].last] = atoms[atoms[a].last]
        BY <2>1, <2>2, <3>1
      <4> QED BY <1>0, <3>1, <4>1, <4>2 DEF first
    <3>2. ASSUME NEW i \in 1 .. m, a = first + i
          PROVE  atoms'[a].last \in a .. Len(atoms') /\ atoms'[atoms'[a].last].last = atoms'[a].last
      <4>0. m \in 1 .. m
        BY <2>1, <3>2
      <4>1. atoms'[first + i].last = first + m
        BY <2>1, <3>2
      <4>2. atoms'[first + m].last = first + m
        BY <2>1, <4>0
      <4>3. first + m \in a .. Len(atoms')
        BY <2>1, <3>2
      <4> QED BY <3>2, <4>1, <4>2, <4>3
    <3> QED BY <2>1, <3>1, <3>2
  <2>4. ASSUME NEW a \in 1 .. Len(atoms'), NEW c \in 1 .. Len(atoms'), a < c, atoms'[a].last = atoms'[c].last
        PROVE  /\ c - 1 \in atoms'[c].waits /\ atoms'[c - 1].last = atoms'[c].last
               /\ c \in ended' => a \in ended'
    <3>1. CASE c \in 1 .. first
      <4>1. a \in 1 .. first /\ c - 1 \in 1 .. first
        BY <2>1, <2>4, <3>1
      <4> QED BY <1>0, <2>1, <2>4, <3>1, <4>1 DEF first
    <3>2. ASSUME NEW i \in 1 .. m, c = first + i
          PROVE  /\ c - 1 \in atoms'[c].waits /\ atoms'[c - 1].last = atoms'[c].last
                 /\ c \in ended' => a \in ended'
      <4>1. atoms'[a].last = first + m /\ atoms'[c].last = first + m
        BY <2>1, <2>4, <3>2
      <4>2. ~ (a \in 1 .. first)
        BY <2>1, <2>2, <3>2, <4>1
      <4>3. PICK j \in 1 .. m : a = first + j
        BY <2>1, <4>2
      <4>4. i # 1 /\ i - 1 \in 1 .. m /\ c - 1 = first + (i - 1) /\ first + i - 1 = c - 1
        BY <2>1, <2>4, <3>2, <4>3
      <4>5. c - 1 \in atoms'[c].waits
        BY <2>1, <3>2, <4>4
      <4>6. atoms'[c - 1].last = first + m
        BY <2>1, <4>4
      <4>7. c \notin ended'
        BY <1>0, <2>1, <3>2 DEF first
      <4> QED BY <4>1, <4>5, <4>6, <4>7
    <3> QED BY <2>1, <3>1, <3>2
  <2> QED BY <2>3, <2>4 DEF LogChain
<1>2. ASSUME NEW e \in DOMAIN atoms, Logger(l)!Ends(e) PROVE LogChain'
  <2>1. e \in 1 .. Len(atoms) /\ atoms[e].waits \subseteq ended /\ ended' = ended \cup {e} /\ atoms' = atoms
    BY <1>2, LogEndsDoes
  <2>2. ASSUME NEW a \in 1 .. Len(atoms), a < e, atoms[a].last = atoms[e].last PROVE a \in ended
    <3>1. e - 1 \in ended /\ atoms[e - 1].last = atoms[e].last
      BY <1>0, <2>1, <2>2
    <3>2. e - 1 \in 1 .. Len(atoms) /\ (a = e - 1 \/ a < e - 1)
      BY <1>0, <2>1, <2>2
    <3> QED BY <1>0, <2>2, <3>1, <3>2
  <2> QED BY <1>0, <2>1, <2>2 DEF LogChain
<1>3. ASSUME UNCHANGED <<atoms, ended>> PROVE LogChain'
  BY <1>3 DEF LogChain
<1>4. ASSUME NEW t \in l.threads, Logger(l)!Enters(t) \/ Logger(l)!Stamps(t) \/ Logger(l)!Refuses(t) \/ Logger(l)!Logs(t)
      PROVE  UNCHANGED <<atoms, ended>>
  BY <1>4 DEF Logger!Enters, Logger!Stamps, Logger!Refuses, Logger!Logs
<1>5. ASSUME Logger(l)!Reads \/ Logger(l)!ReadStamps \/ Logger(l)!ReadLogs
      PROVE  UNCHANGED <<atoms, ended>>
  BY <1>5 DEF Logger!Reads, Logger!ReadStamps, Logger!ReadLogs
<1> QED BY <1>1, <1>2, <1>3, <1>4, <1>5 DEF Logger!Next

(* Who gives the number of an atom back has ended behind it.               *)
LEMMA LogEvEnds ==
  ASSUME LogChain, NEW a \in 1 .. Len(atoms), Len(atoms) \in Nat
  PROVE  LogEv(atoms, a) \in 1 .. Len(atoms) /\ (LogEv(atoms, a) \in ended => a \in ended)
<1>1. CASE atoms[a].silent
  <2>1. LogEv(atoms, a) = atoms[a].last
    BY <1>1 DEF LogEv
  <2>2. atoms[a].last \in a .. Len(atoms) /\ atoms[atoms[a].last].last = atoms[a].last
    BY DEF LogChain
  <2>3. atoms[a].last \in 1 .. Len(atoms) /\ (atoms[a].last = a \/ a < atoms[a].last)
    BY <2>2
  <2>4. CASE atoms[a].last = a
    BY <2>1, <2>3, <2>4
  <2>5. CASE a < atoms[a].last
    BY <2>1, <2>2, <2>3, <2>5 DEF LogChain
  <2> QED BY <2>3, <2>4, <2>5
<1>2. CASE ~ atoms[a].silent
  BY <1>2 DEF LogEv
<1> QED BY <1>1, <1>2

-----------------------------------------------------------------------------
(* Events that are still to be logged, and those that were                 *)

LogEvents ==
  /\ \A a \in LogSet(events) \cup LogSet(reader.batch) : a \in ended /\ ~ atoms[a].silent /\ ~ LogHas(log, a)
  /\ LogSet(events) \cap LogSet(reader.batch) = {}
  /\ \A j \in 1 .. Len(log) : log[j].line = "E" =>
       log[j].id \in ended /\ ~ atoms[log[j].id].silent /\ log[j].n = atoms[log[j].id].n

LEMMA LogEventsStep ==
  ASSUME NEW l \in Loggers, LogTypes(l), LogEvents, Logger(l)!Next
  PROVE  LogEvents'
<1>0. /\ ended \subseteq 1 .. Len(atoms) /\ Len(atoms) \in Nat
      /\ \A a \in LogSet(events) \cup LogSet(reader.batch) : a \in ended /\ ~ atoms[a].silent /\ ~ LogHas(log, a)
      /\ LogSet(events) \cap LogSet(reader.batch) = {}
      /\ \A j \in 1 .. Len(log) : log[j].line = "E" =>
           log[j].id \in ended /\ ~ atoms[log[j].id].silent /\ log[j].n = atoms[log[j].id].n
  BY DEF LogTypes, LogEvents
<1>1. ASSUME UNCHANGED <<events, ended, log>>, reader'.batch = reader.batch,
             \A a \in 1 .. Len(atoms) : atoms'[a] = atoms[a]
      PROVE  LogEvents'
  <2>1. \A a \in ended : atoms'[a] = atoms[a]
    BY <1>0, <1>1
  <2> QED BY <1>0, <1>1, <2>1 DEF LogEvents
<1>2. ASSUME NEW t \in l.threads, Logger(l)!Enters(t) \/ Logger(l)!Stamps(t) \/ Logger(l)!Refuses(t)
      PROVE  UNCHANGED <<events, ended, log, reader, atoms>>
  BY <1>2 DEF Logger!Enters, Logger!Stamps, Logger!Refuses
<1>3. ASSUME NEW t \in l.threads, Logger(l)!Accepts(t)
      PROVE  UNCHANGED <<events, ended, log, reader>> /\ \A a \in 1 .. Len(atoms) : atoms'[a] = atoms[a]
  BY <1>3, LogAcceptsDoes
<1>4. ASSUME NEW t \in l.threads, Logger(l)!Logs(t) PROVE LogEvents'
  <2>1. UNCHANGED <<events, ended, reader, atoms>> /\ \A a : LogHas(log', a) <=> LogHas(log, a)
    BY <1>4, LogLogsDoes, LogLogsHas
  <2>2. /\ \A i \in 1 .. Len(log) : log'[i] = log[i]
        /\ \A i \in 1 .. Len(call[t].atoms) : log'[Len(log) + i].line = "A"
        /\ \A j \in 1 .. Len(log') : j \in 1 .. Len(log) \/ \E i \in 1 .. Len(call[t].atoms) : j = Len(log) + i
    BY <1>4, LogLogsDoes
  <2>3. \A j \in 1 .. Len(log') : log'[j].line = "E" =>
          log'[j].id \in ended /\ ~ atoms[log'[j].id].silent /\ log'[j].n = atoms[log'[j].id].n
    BY <1>0, <2>2
  <2> QED BY <1>0, <2>1, <2>3 DEF LogEvents
<1>5. ASSUME NEW e \in DOMAIN atoms, Logger(l)!Ends(e) PROVE LogEvents'
  <2>1. /\ e \in 1 .. Len(atoms) /\ e \notin ended /\ ended' = ended \cup {e}
        /\ LogSet(events') = IF atoms[e].silent THEN LogSet(events) ELSE LogSet(events) \cup {e}
        /\ UNCHANGED <<atoms, reader, log>>
    BY <1>5, LogEndsDoes
  <2>2. ~ LogHas(log, e) /\ e \notin LogSet(reader.batch)
    BY <1>0, <2>1 DEF LogHas
  <2>3. \A a \in LogSet(events') \cup LogSet(reader.batch) : a \in ended' /\ ~ atoms[a].silent /\ ~ LogHas(log, a)
    BY <1>0, <2>1, <2>2
  <2>4. LogSet(events') \cap LogSet(reader.batch) = {}
    BY <1>0, <2>1, <2>2
  <2> QED BY <1>0, <2>1, <2>3, <2>4 DEF LogEvents
<1>6. ASSUME Logger(l)!Reads PROVE LogEvents'
  <2>1. /\ reader' = [batch |-> events, at |-> 0] /\ events' = <<>> /\ UNCHANGED <<atoms, ended, log>>
    BY <1>6, LogReadsDoes
  <2>2. reader'.batch = events /\ LogSet(events') = {}
    BY <2>1 DEF LogSet
  <2> QED BY <1>0, <2>1, <2>2 DEF LogEvents
<1>7. ASSUME Logger(l)!ReadStamps PROVE UNCHANGED <<events, ended, log, atoms>> /\ reader'.batch = reader.batch
  BY <1>7, LogReadStampsDoes
<1>8. ASSUME Logger(l)!ReadLogs PROVE LogEvents'
  <2>1. /\ reader' = [batch |-> <<>>, at |-> 0] /\ UNCHANGED <<atoms, ended, events>>
        /\ \A i \in 1 .. Len(log) : log'[i] = log[i]
        /\ \A i \in 1 .. Len(reader.batch) : LET b == log'[Len(log) + i] IN
             b.n = atoms[reader.batch[i]].n /\ b.id = reader.batch[i]
        /\ \A j \in 1 .. Len(log') : j \in 1 .. Len(log) \/ \E i \in 1 .. Len(reader.batch) : j = Len(log) + i
    BY <1>8, LogReadLogsDoes
  <2>2. \A a : LogHas(log', a) <=> LogHas(log, a) \/ a \in LogSet(reader.batch)
    BY <1>8, LogReadLogsHas
  <2>3. LogSet(reader'.batch) = {}
    BY <2>1 DEF LogSet
  <2>4. \A i \in 1 .. Len(reader.batch) : reader.batch[i] \in LogSet(reader.batch)
    BY DEF LogSet
  <2>5. \A j \in 1 .. Len(log') : log'[j].line = "E" =>
          log'[j].id \in ended /\ ~ atoms[log'[j].id].silent /\ log'[j].n = atoms[log'[j].id].n
    <3> TAKE j \in 1 .. Len(log')
    <3>1. CASE j \in 1 .. Len(log)
      BY <1>0, <2>1, <3>1
    <3>2. ASSUME NEW i \in 1 .. Len(reader.batch), j = Len(log) + i
          PROVE  log'[j].id \in ended /\ ~ atoms[log'[j].id].silent /\ log'[j].n = atoms[log'[j].id].n
      BY <1>0, <2>1, <2>4, <3>2, ZenonT(120)
    <3> QED BY <2>1, <3>1, <3>2
  <2>6. \A a \in LogSet(events') \cup LogSet(reader'.batch) : a \in ended /\ ~ atoms[a].silent /\ ~ LogHas(log', a)
    BY <1>0, <2>1, <2>2, <2>3
  <2>7. LogSet(events') \cap LogSet(reader'.batch) = {}
    BY <2>3
  <2> QED BY <2>1, <2>5, <2>6, <2>7 DEF LogEvents
<1> QED BY <1>1, <1>2, <1>3, <1>4, <1>5, <1>6, <1>7, <1>8 DEF Logger!Next

-----------------------------------------------------------------------------
(* A number is one atom's, or one call's                                   *)

LogNumbers(l) ==
  /\ \A a \in 1 .. Len(atoms) : LogOut(atoms, log, a) => atoms[a].n \in held
  /\ \A a, b \in 1 .. Len(atoms) : LogOut(atoms, log, a) /\ LogOut(atoms, log, b) /\ atoms[a].n = atoms[b].n => a = b
  /\ \A t \in l.threads : LogTaken(call[t]) => \A i \in 1 .. Len(call[t].atoms) :
       /\ call[t].atoms[i].n \in held
       /\ \A a \in 1 .. Len(atoms) : LogOut(atoms, log, a) => atoms[a].n # call[t].atoms[i].n
  /\ \A t, u \in l.threads : t # u /\ LogTaken(call[t]) /\ LogTaken(call[u]) =>
       \A i \in 1 .. Len(call[t].atoms), j \in 1 .. Len(call[u].atoms) : call[t].atoms[i].n # call[u].atoms[j].n
  /\ \A t \in l.threads : call[t].pc # "idle" =>
       \A i, j \in 1 .. Len(call[t].atoms) : i # j => call[t].atoms[i].n # call[t].atoms[j].n

(* Nothing happens to the numbers.                                         *)
LEMMA LogNumbersKeep ==
  ASSUME NEW l \in Loggers, LogNumbers(l), UNCHANGED <<atoms, held>>,
         \A a : LogHas(log', a) <=> LogHas(log, a),
         \A t \in l.threads :
           /\ LogTaken(call'[t]) => LogTaken(call[t]) /\ call'[t].atoms = call[t].atoms
           /\ call'[t].pc # "idle" => call[t].pc # "idle" /\ call'[t].atoms = call[t].atoms
  PROVE  LogNumbers(l)'
<1>1. \A a : LogOut(atoms', log', a) <=> LogOut(atoms, log, a)
  BY DEF LogOut, LogEv
<1>2. /\ \A a \in 1 .. Len(atoms) : LogOut(atoms, log, a) => atoms[a].n \in held
      /\ \A a, b \in 1 .. Len(atoms) : LogOut(atoms, log, a) /\ LogOut(atoms, log, b) /\ atoms[a].n = atoms[b].n => a = b
  BY DEF LogNumbers
<1>3. \A t \in l.threads : LogTaken(call[t]) => \A i \in 1 .. Len(call[t].atoms) :
        /\ call[t].atoms[i].n \in held
        /\ \A a \in 1 .. Len(atoms) : LogOut(atoms, log, a) => atoms[a].n # call[t].atoms[i].n
  BY DEF LogNumbers
<1>4. \A t, u \in l.threads : t # u /\ LogTaken(call[t]) /\ LogTaken(call[u]) =>
        \A i \in 1 .. Len(call[t].atoms), j \in 1 .. Len(call[u].atoms) : call[t].atoms[i].n # call[u].atoms[j].n
  BY DEF LogNumbers
<1>5. \A t \in l.threads : call[t].pc # "idle" =>
        \A i, j \in 1 .. Len(call[t].atoms) : i # j => call[t].atoms[i].n # call[t].atoms[j].n
  BY DEF LogNumbers
<1>6. \A t \in l.threads : LogTaken(call'[t]) => \A i \in 1 .. Len(call'[t].atoms) :
        /\ call'[t].atoms[i].n \in held
        /\ \A a \in 1 .. Len(atoms) : LogOut(atoms, log, a) => atoms[a].n # call'[t].atoms[i].n
  BY <1>3
<1>7. \A t, u \in l.threads : t # u /\ LogTaken(call'[t]) /\ LogTaken(call'[u]) =>
        \A i \in 1 .. Len(call'[t].atoms), j \in 1 .. Len(call'[u].atoms) : call'[t].atoms[i].n # call'[u].atoms[j].n
  <2> SUFFICES ASSUME NEW t \in l.threads, NEW u \in l.threads, t # u, LogTaken(call'[t]), LogTaken(call'[u]),
                      NEW i \in 1 .. Len(call'[t].atoms), NEW j \in 1 .. Len(call'[u].atoms)
               PROVE  call'[t].atoms[i].n # call'[u].atoms[j].n
    OBVIOUS
  <2>1. /\ LogTaken(call[t]) /\ call'[t].atoms = call[t].atoms
        /\ LogTaken(call[u]) /\ call'[u].atoms = call[u].atoms
    OBVIOUS
  <2> QED BY <1>4, <2>1
<1>8. \A t \in l.threads : call'[t].pc # "idle" =>
        \A i, j \in 1 .. Len(call'[t].atoms) : i # j => call'[t].atoms[i].n # call'[t].atoms[j].n
  BY <1>5
<1> QED BY <1>1, <1>2, <1>6, <1>7, <1>8 DEF LogNumbers

LEMMA LogNumbersEnters ==
  ASSUME NEW l \in Loggers, LogTypes(l), LogNumbers(l), NEW t \in l.threads, Logger(l)!Enters(t)
  PROVE  LogNumbers(l)'
<1> DEFINE as == call'[t].atoms
<1>1. /\ call'[t].pc = "called" /\ \A u \in l.threads : u # t => call'[u] = call[u]
      /\ \A i \in 1 .. Len(as) : as[i].n \notin held
      /\ \A i, j \in 1 .. Len(as) : i # j => as[i].n # as[j].n
      /\ held' = held \cup {as[i].n : i \in 1 .. Len(as)}
      /\ UNCHANGED <<atoms, log>>
  BY LogEntersDoes
<1>2. \A i \in 1 .. Len(as) : as[i].n \in held'
  BY <1>1
<1>3. \A a \in 1 .. Len(atoms) : LogOut(atoms, log, a) => atoms[a].n \in held
  BY DEF LogNumbers
<1>4. \A u \in l.threads : LogTaken(call[u]) => \A i \in 1 .. Len(call[u].atoms) :
        /\ call[u].atoms[i].n \in held
        /\ \A a \in 1 .. Len(atoms) : LogOut(atoms, log, a) => atoms[a].n # call[u].atoms[i].n
  BY DEF LogNumbers
<1> HIDE DEF as
<1>5. ASSUME NEW u \in l.threads, LogTaken(call'[u]), NEW i \in 1 .. Len(call'[u].atoms)
      PROVE  /\ call'[u].atoms[i].n \in held'
             /\ \A a \in 1 .. Len(atoms) : LogOut(atoms, log, a) => atoms[a].n # call'[u].atoms[i].n
  <2>1. CASE u = t
    BY <1>1, <1>2, <1>3, <1>5, <2>1 DEF as
  <2>2. CASE u # t
    <3>1. call'[u] = call[u]
      BY <1>1, <2>2
    <3>2. /\ call[u].atoms[i].n \in held
          /\ \A a \in 1 .. Len(atoms) : LogOut(atoms, log, a) => atoms[a].n # call[u].atoms[i].n
      BY <1>4, <1>5, <3>1
    <3> QED BY <1>1, <3>1, <3>2
  <2> QED BY <2>1, <2>2
<1>6. ASSUME NEW u \in l.threads, NEW v \in l.threads, u # v, LogTaken(call'[u]), LogTaken(call'[v]),
             NEW i \in 1 .. Len(call'[u].atoms), NEW j \in 1 .. Len(call'[v].atoms)
      PROVE  call'[u].atoms[i].n # call'[v].atoms[j].n
  <2>1. CASE u = t
    BY <1>1, <1>4, <1>6, <2>1 DEF as
  <2>2. CASE v = t
    BY <1>1, <1>4, <1>6, <2>2 DEF as
  <2>3. CASE u # t /\ v # t
    <3>1. call'[u] = call[u] /\ call'[v] = call[v]
      BY <1>1, <2>3
    <3> QED BY <1>6, <3>1 DEF LogNumbers
  <2> QED BY <2>1, <2>2, <2>3
<1>7. ASSUME NEW u \in l.threads, call'[u].pc # "idle", NEW i \in 1 .. Len(call'[u].atoms),
             NEW j \in 1 .. Len(call'[u].atoms), i # j
      PROVE  call'[u].atoms[i].n # call'[u].atoms[j].n
  <2>1. CASE u = t
    BY <1>1, <1>7, <2>1 DEF as
  <2>2. CASE u # t
    BY <1>1, <1>7, <2>2 DEF LogNumbers
  <2> QED BY <2>1, <2>2
<1>8. \A a, b \in 1 .. Len(atoms) : LogOut(atoms, log, a) /\ LogOut(atoms, log, b) /\ atoms[a].n = atoms[b].n => a = b
  BY DEF LogNumbers
<1>9. atoms' = atoms /\ log' = log /\ \A a \in 1 .. Len(atoms) : LogOut(atoms, log, a) => atoms[a].n \in held'
  BY <1>1, <1>3
<1> QED BY <1>5, <1>6, <1>7, <1>8, <1>9 DEF LogNumbers

LEMMA LogNumbersAccepts ==
  ASSUME NEW l \in Loggers, LogTypes(l), LogChain, LogEvents, LogNumbers(l), NEW t \in l.threads, Logger(l)!Accepts(t)
  PROVE  LogNumbers(l)'
<1> DEFINE as == call[t].atoms
           first == Len(atoms)
           m == Len(as)
<1>1. /\ call[t].pc = "timed" /\ call'[t].pc = "accepted" /\ call'[t].ok /\ call'[t].atoms = as
      /\ \A u \in l.threads : u # t => call'[u] = call[u]
      /\ first \in Nat /\ m \in Nat /\ Len(atoms') = first + m
      /\ \A a \in 1 .. first : atoms'[a] = atoms[a]
      /\ UNCHANGED <<held, log, ended>>
  BY LogAcceptsDoes
<1>2. \A i \in 1 .. m : atoms'[first + i].n = as[i].n /\ atoms'[first + i].last = first + m
  BY LogAcceptsDoes
<1>3. \A a \in 1 .. Len(atoms') : a \in 1 .. first \/ \E i \in 1 .. m : a = first + i
  BY LogAcceptsDoes
<1> HIDE DEF first, m, as
<1>4. \A a \in 1 .. first : LogOut(atoms', log, a) <=> LogOut(atoms, log, a)
  BY <1>1 DEF LogOut, LogEv
<1>5. \A i \in 1 .. m : as[i].n \in held /\ \A a \in 1 .. first : LogOut(atoms, log, a) => atoms[a].n # as[i].n
  BY <1>1 DEF LogNumbers, LogTaken, first, m, as
<1>6. \A i, j \in 1 .. m : i # j => as[i].n # as[j].n
  BY <1>1 DEF LogNumbers, m, as
<1>7. \A a, b \in 1 .. first : LogOut(atoms, log, a) /\ LogOut(atoms, log, b) /\ atoms[a].n = atoms[b].n => a = b
  BY DEF LogNumbers, first
<1>8. \A a \in 1 .. first : LogOut(atoms, log, a) => atoms[a].n \in held
  BY DEF LogNumbers, first
<1>9. \A a \in 1 .. Len(atoms') : LogOut(atoms', log, a) => atoms'[a].n \in held
  <2> SUFFICES ASSUME NEW a \in 1 .. Len(atoms'), LogOut(atoms', log, a) PROVE atoms'[a].n \in held
    OBVIOUS
  <2>1. CASE a \in 1 .. first
    BY <1>1, <1>4, <1>8, <2>1
  <2>2. ASSUME NEW i \in 1 .. m, a = first + i PROVE atoms'[a].n \in held
    BY <1>2, <1>5, <2>2
  <2> QED BY <1>3, <2>1, <2>2
<1>10. ASSUME NEW a \in 1 .. Len(atoms'), NEW b \in 1 .. Len(atoms'),
              LogOut(atoms', log, a), LogOut(atoms', log, b), atoms'[a].n = atoms'[b].n
       PROVE  a = b
  <2>1. CASE a \in 1 .. first /\ b \in 1 .. first
    BY <1>1, <1>4, <1>7, <1>10, <2>1
  <2>2. ASSUME a \in 1 .. first, NEW j \in 1 .. m, b = first + j PROVE FALSE
    <3>1. atoms'[b].n = as[j].n /\ atoms'[a] = atoms[a] /\ LogOut(atoms, log, a)
      BY <1>1, <1>2, <1>4, <1>10, <2>2
    <3> QED BY <1>5, <1>10, <2>2, <3>1
  <2>3. ASSUME b \in 1 .. first, NEW i \in 1 .. m, a = first + i PROVE FALSE
    <3>1. atoms'[a].n = as[i].n /\ atoms'[b] = atoms[b] /\ LogOut(atoms, log, b)
      BY <1>1, <1>2, <1>4, <1>10, <2>3
    <3> QED BY <1>5, <1>10, <2>3, <3>1
  <2>4. ASSUME NEW i \in 1 .. m, a = first + i, NEW j \in 1 .. m, b = first + j PROVE a = b
    <3>1. as[i].n = as[j].n
      BY <1>2, <1>10, <2>4
    <3> QED BY <1>6, <2>4, <3>1
  <2>5. /\ a \in 1 .. first \/ \E i \in 1 .. m : a = first + i
        /\ b \in 1 .. first \/ \E j \in 1 .. m : b = first + j
    BY <1>3
  <2> QED BY <2>1, <2>2, <2>3, <2>4, <2>5
<1>11. ASSUME NEW u \in l.threads, LogTaken(call'[u])
       PROVE  u # t /\ call'[u] = call[u] /\ LogTaken(call[u])
  BY <1>1, <1>11 DEF LogTaken
<1>12. ASSUME NEW u \in l.threads, LogTaken(call'[u]), NEW i \in 1 .. Len(call'[u].atoms)
       PROVE  /\ call'[u].atoms[i].n \in held
              /\ \A a \in 1 .. Len(atoms') : LogOut(atoms', log, a) => atoms'[a].n # call'[u].atoms[i].n
  <2>1. u # t /\ call'[u] = call[u] /\ LogTaken(call[u]) /\ i \in 1 .. Len(call[u].atoms)
    BY <1>11, <1>12
  <2>2. /\ call[u].atoms[i].n \in held
        /\ \A a \in 1 .. first : LogOut(atoms, log, a) => atoms[a].n # call[u].atoms[i].n
    BY <2>1 DEF LogNumbers, first
  <2>3. \A j \in 1 .. m : as[j].n # call[u].atoms[i].n
    <3>1. LogTaken(call[t])
      BY <1>1 DEF LogTaken
    <3>2. \A j \in 1 .. Len(call[t].atoms) : call[t].atoms[j].n # call[u].atoms[i].n
      BY <2>1, <3>1 DEF LogNumbers
    <3> QED BY <3>2 DEF as, m
  <2>4. \A a \in 1 .. Len(atoms') : LogOut(atoms', log, a) => atoms'[a].n # call[u].atoms[i].n
    <3> SUFFICES ASSUME NEW a \in 1 .. Len(atoms'), LogOut(atoms', log, a) PROVE atoms'[a].n # call[u].atoms[i].n
      OBVIOUS
    <3>1. CASE a \in 1 .. first
      BY <1>1, <1>4, <2>2, <3>1
    <3>2. ASSUME NEW j \in 1 .. m, a = first + j PROVE atoms'[a].n # call[u].atoms[i].n
      BY <1>2, <2>3, <3>2
    <3> QED BY <1>3, <3>1, <3>2
  <2> QED BY <2>1, <2>2, <2>4
<1>13. \A u, v \in l.threads : u # v /\ LogTaken(call'[u]) /\ LogTaken(call'[v]) =>
         \A i \in 1 .. Len(call'[u].atoms), j \in 1 .. Len(call'[v].atoms) : call'[u].atoms[i].n # call'[v].atoms[j].n
  BY <1>11, SMTT(30) DEF LogNumbers
<1>14. ASSUME NEW u \in l.threads, call'[u].pc # "idle", NEW i \in 1 .. Len(call'[u].atoms),
              NEW j \in 1 .. Len(call'[u].atoms), i # j
       PROVE  call'[u].atoms[i].n # call'[u].atoms[j].n
  <2>1. CASE u = t
    BY <1>1, <1>6, <1>14, <2>1 DEF m
  <2>2. CASE u # t
    BY <1>1, <1>14, <2>2 DEF LogNumbers
  <2> QED BY <2>1, <2>2
<1> QED BY <1>1, <1>9, <1>10, <1>12, <1>13, <1>14 DEF LogNumbers

LEMMA LogNumbersLogs ==
  ASSUME NEW l \in Loggers, LogTypes(l), LogNumbers(l), NEW t \in l.threads, Logger(l)!Logs(t)
  PROVE  LogNumbers(l)'
<1>1. /\ call[t].pc = "accepted" /\ call'[t] = LogIdle /\ \A u \in l.threads : u # t => call'[u] = call[u]
      /\ held' = IF call[t].ok THEN held ELSE held \ {call[t].atoms[i].n : i \in 1 .. Len(call[t].atoms)}
      /\ UNCHANGED atoms /\ \A a : LogHas(log', a) <=> LogHas(log, a)
  BY LogLogsDoes, LogLogsHas
<1>2. ~ LogTaken(LogIdle) /\ LogIdle.pc = "idle"
  BY DEF LogTaken, LogIdle
<1>3. \A u \in l.threads : (LogTaken(call'[u]) \/ call'[u].pc # "idle") => u # t /\ call'[u] = call[u]
  BY <1>1, <1>2
<1>4. CASE call[t].ok
  BY <1>1, <1>3, <1>4, LogNumbersKeep
<1>5. CASE ~ call[t].ok
  <2> DEFINE N == {call[t].atoms[i].n : i \in 1 .. Len(call[t].atoms)}
  <2>1. LogTaken(call[t]) /\ held' = held \ N
    BY <1>1, <1>5 DEF LogTaken
  <2>2. \A a : LogOut(atoms', log', a) <=> LogOut(atoms, log, a)
    BY <1>1 DEF LogOut, LogEv
  <2>3. \A a \in 1 .. Len(atoms) : LogOut(atoms, log, a) => atoms[a].n \in held /\ atoms[a].n \notin N
    BY <2>1 DEF LogNumbers
  <2>4. ASSUME NEW u \in l.threads, LogTaken(call'[u]), NEW i \in 1 .. Len(call'[u].atoms)
        PROVE  /\ call'[u].atoms[i].n \in held /\ call'[u].atoms[i].n \notin N
               /\ \A a \in 1 .. Len(atoms) : LogOut(atoms, log, a) => atoms[a].n # call'[u].atoms[i].n
    <3>1. u # t /\ call'[u] = call[u]
      BY <1>3, <2>4
    <3>2. \A j \in 1 .. Len(call[t].atoms) : call[t].atoms[j].n # call'[u].atoms[i].n
      BY <2>1, <2>4, <3>1 DEF LogNumbers
    <3>3. /\ call'[u].atoms[i].n \in held
          /\ \A a \in 1 .. Len(atoms) : LogOut(atoms, log, a) => atoms[a].n # call'[u].atoms[i].n
      BY <2>4, <3>1 DEF LogNumbers
    <3> QED BY <3>2, <3>3
  <2> HIDE DEF N
  <2>5. \A u, v \in l.threads : u # v /\ LogTaken(call'[u]) /\ LogTaken(call'[v]) =>
          \A i \in 1 .. Len(call'[u].atoms), j \in 1 .. Len(call'[v].atoms) : call'[u].atoms[i].n # call'[v].atoms[j].n
    <3> SUFFICES ASSUME NEW u \in l.threads, NEW v \in l.threads, u # v, LogTaken(call'[u]), LogTaken(call'[v])
                 PROVE  \A i \in 1 .. Len(call'[u].atoms), j \in 1 .. Len(call'[v].atoms) :
                          call'[u].atoms[i].n # call'[v].atoms[j].n
      OBVIOUS
    <3>1. call'[u] = call[u] /\ call'[v] = call[v]
      BY <1>3
    <3>2. \A i \in 1 .. Len(call[u].atoms), j \in 1 .. Len(call[v].atoms) : call[u].atoms[i].n # call[v].atoms[j].n
      BY <3>1 DEF LogNumbers
    <3> QED BY <3>1, <3>2
  <2>6. \A u \in l.threads : call'[u].pc # "idle" =>
          \A i, j \in 1 .. Len(call'[u].atoms) : i # j => call'[u].atoms[i].n # call'[u].atoms[j].n
    BY <1>3 DEF LogNumbers
  <2>7. \A a, b \in 1 .. Len(atoms) : LogOut(atoms, log, a) /\ LogOut(atoms, log, b) /\ atoms[a].n = atoms[b].n => a = b
    BY DEF LogNumbers
  <2> QED BY <1>1, <2>1, <2>2, <2>3, <2>4, <2>5, <2>6, <2>7 DEF LogNumbers
<1> QED BY <1>4, <1>5

LEMMA LogNumbersReadLogs ==
  ASSUME NEW l \in Loggers, LogTypes(l), LogEvents, LogNumbers(l), Logger(l)!ReadLogs
  PROVE  LogNumbers(l)'
<1> DEFINE B == LogSet(reader.batch)
           F == {b \in 1 .. Len(atoms) : LogEv(atoms, b) \in B}
<1>1. /\ held' = held \ {atoms[a].n : a \in F} /\ UNCHANGED <<call, atoms>>
      /\ \A a : LogHas(log', a) <=> LogHas(log, a) \/ a \in B
  BY LogReadLogsDoes, LogReadLogsHas
<1>2. \A a \in 1 .. Len(atoms) : LogOut(atoms', log', a) <=> LogOut(atoms, log, a) /\ a \notin F
  BY <1>1 DEF LogOut
<1>3. \A b \in F : b \in 1 .. Len(atoms) /\ LogOut(atoms, log, b)
  BY DEF LogOut, LogEvents
<1> HIDE DEF F, B
<1>4. /\ \A a \in 1 .. Len(atoms) : LogOut(atoms, log, a) => atoms[a].n \in held
      /\ \A a, b \in 1 .. Len(atoms) : LogOut(atoms, log, a) /\ LogOut(atoms, log, b) /\ atoms[a].n = atoms[b].n => a = b
  BY DEF LogNumbers
<1>5. ASSUME NEW a \in 1 .. Len(atoms), LogOut(atoms', log', a) PROVE atoms[a].n \in held'
  <2>1. LogOut(atoms, log, a) /\ a \notin F
    BY <1>2, <1>5
  <2>2. \A b \in F : atoms[b].n # atoms[a].n
    BY <1>3, <1>4, <2>1
  <2> QED BY <1>1, <1>4, <2>1, <2>2
<1>6. ASSUME NEW u \in l.threads, LogTaken(call[u]), NEW i \in 1 .. Len(call[u].atoms)
      PROVE  /\ call[u].atoms[i].n \in held'
             /\ \A a \in 1 .. Len(atoms) : LogOut(atoms', log', a) => atoms[a].n # call[u].atoms[i].n
  <2>1. /\ call[u].atoms[i].n \in held
        /\ \A a \in 1 .. Len(atoms) : LogOut(atoms, log, a) => atoms[a].n # call[u].atoms[i].n
    BY <1>6 DEF LogNumbers
  <2>2. \A b \in F : atoms[b].n # call[u].atoms[i].n
    BY <1>3, <2>1
  <2> QED BY <1>1, <1>2, <2>1, <2>2
<1>7. /\ \A t, u \in l.threads : t # u /\ LogTaken(call[t]) /\ LogTaken(call[u]) =>
           \A i \in 1 .. Len(call[t].atoms), j \in 1 .. Len(call[u].atoms) : call[t].atoms[i].n # call[u].atoms[j].n
      /\ \A t \in l.threads : call[t].pc # "idle" =>
           \A i, j \in 1 .. Len(call[t].atoms) : i # j => call[t].atoms[i].n # call[t].atoms[j].n
  BY DEF LogNumbers
<1> QED BY <1>1, <1>2, <1>4, <1>5, <1>6, <1>7 DEF LogNumbers

LEMMA LogNumbersStep ==
  ASSUME NEW l \in Loggers, LogTypes(l), LogChain, LogEvents, LogNumbers(l), Logger(l)!Next
  PROVE  LogNumbers(l)'
<1>1. ASSUME NEW t \in l.threads, Logger(l)!Stamps(t) PROVE LogNumbers(l)'
  <2>1. /\ call[t].pc = "called" /\ call'[t].pc = "timed" /\ call'[t].atoms = call[t].atoms
        /\ \A u \in l.threads : u # t => call'[u] = call[u]
        /\ UNCHANGED <<held, atoms, log>>
    BY <1>1, LogStampsDoes
  <2>2. \A u \in l.threads :
           /\ LogTaken(call'[u]) => LogTaken(call[u]) /\ call'[u].atoms = call[u].atoms
           /\ call'[u].pc # "idle" => call[u].pc # "idle" /\ call'[u].atoms = call[u].atoms
    BY <2>1 DEF LogTaken
  <2> QED BY <2>1, <2>2, LogNumbersKeep
<1>2. ASSUME NEW t \in l.threads, Logger(l)!Refuses(t) PROVE LogNumbers(l)'
  <2>1. /\ call[t].pc = "timed" /\ call'[t].pc = "accepted" /\ call'[t].atoms = call[t].atoms
        /\ \A u \in l.threads : u # t => call'[u] = call[u]
        /\ UNCHANGED <<held, atoms, log>>
    BY <1>2, LogRefusesDoes
  <2>2. \A u \in l.threads :
           /\ LogTaken(call'[u]) => LogTaken(call[u]) /\ call'[u].atoms = call[u].atoms
           /\ call'[u].pc # "idle" => call[u].pc # "idle" /\ call'[u].atoms = call[u].atoms
    BY <2>1 DEF LogTaken
  <2> QED BY <2>1, <2>2, LogNumbersKeep
<1>3. ASSUME UNCHANGED <<atoms, held, log, call>> PROVE LogNumbers(l)'
  BY <1>3, LogNumbersKeep
<1>4. ASSUME NEW a \in DOMAIN atoms, Logger(l)!Ends(a) PROVE UNCHANGED <<atoms, held, log, call>>
  BY <1>4 DEF Logger!Ends
<1>5. ASSUME Logger(l)!Reads \/ Logger(l)!ReadStamps PROVE UNCHANGED <<atoms, held, log, call>>
  BY <1>5 DEF Logger!Reads, Logger!ReadStamps
<1> QED BY <1>1, <1>2, <1>3, <1>4, <1>5, LogNumbersEnters, LogNumbersAccepts, LogNumbersLogs, LogNumbersReadLogs
        DEF Logger!Next

-----------------------------------------------------------------------------
(* Whose the lines are, and the atoms of a call that has some              *)

LogOwn(l) ==
  /\ ~ l.silent => \A a \in 1 .. Len(atoms) : ~ atoms[a].silent
  /\ \A i \in 1 .. Len(log) : log[i].line = "A" /\ log[i].ok =>
       /\ log[i].id \in 1 .. Len(atoms)
       /\ atoms[log[i].id].n = log[i].n /\ atoms[log[i].id].k = log[i].k
  /\ \A t \in l.threads : LogGiven(call[t]) => \A i \in 1 .. Len(call[t].atoms) :
       /\ call[t].ids[i] \in 1 .. Len(atoms)
       /\ atoms[call[t].ids[i]].n = call[t].atoms[i].n /\ atoms[call[t].ids[i]].k = call[t].atoms[i].k

LEMMA LogOwnStep ==
  ASSUME NEW l \in Loggers, LogTypes(l), LogOwn(l), Logger(l)!Next
  PROVE  LogOwn(l)'
<1>0. /\ ~ l.silent => \A a \in 1 .. Len(atoms) : ~ atoms[a].silent
      /\ \A i \in 1 .. Len(log) : log[i].line = "A" /\ log[i].ok =>
           /\ log[i].id \in 1 .. Len(atoms)
           /\ atoms[log[i].id].n = log[i].n /\ atoms[log[i].id].k = log[i].k
  BY DEF LogOwn
<1>1. \A t \in l.threads : LogGiven(call[t]) => \A i \in 1 .. Len(call[t].atoms) :
        /\ call[t].ids[i] \in 1 .. Len(atoms)
        /\ atoms[call[t].ids[i]].n = call[t].atoms[i].n /\ atoms[call[t].ids[i]].k = call[t].atoms[i].k
  BY DEF LogOwn
<1>2. ASSUME UNCHANGED <<atoms, log>>, \A t \in l.threads : LogGiven(call'[t]) => call'[t] = call[t]
      PROVE  LogOwn(l)'
  BY <1>0, <1>1, <1>2, SMTT(30) DEF LogOwn
<1>3. ASSUME NEW t \in l.threads, Logger(l)!Enters(t) PROVE LogOwn(l)'
  <2>1. /\ call'[t].pc = "called" /\ (\A u \in l.threads : u # t => call'[u] = call[u]) /\ UNCHANGED <<atoms, log>>
    BY <1>3, LogEntersDoes
  <2> QED BY <1>2, <2>1 DEF LogGiven
<1>4. ASSUME NEW t \in l.threads, Logger(l)!Stamps(t) PROVE LogOwn(l)'
  <2>1. /\ call'[t].pc = "timed" /\ (\A u \in l.threads : u # t => call'[u] = call[u]) /\ UNCHANGED <<atoms, log>>
    BY <1>4, LogStampsDoes
  <2> QED BY <1>2, <2>1 DEF LogGiven
<1>5. ASSUME NEW t \in l.threads, Logger(l)!Refuses(t) PROVE LogOwn(l)'
  <2>1. /\ ~ call'[t].ok /\ (\A u \in l.threads : u # t => call'[u] = call[u]) /\ UNCHANGED <<atoms, log>>
    BY <1>5, LogRefusesDoes
  <2> QED BY <1>2, <2>1 DEF LogGiven
<1>6. ASSUME NEW t \in l.threads, Logger(l)!Accepts(t) PROVE LogOwn(l)'
  <2> DEFINE first == Len(atoms)
             m == Len(call[t].atoms)
  <2>1. /\ first \in Nat /\ m \in Nat /\ Len(atoms') = first + m /\ UNCHANGED log
        /\ \A a \in 1 .. first : atoms'[a] = atoms[a]
        /\ call'[t].atoms = call[t].atoms /\ \A i \in 1 .. m : call'[t].ids[i] = first + i
        /\ \A u \in l.threads : u # t => call'[u] = call[u]
    BY <1>6, LogAcceptsDoes
  <2>2. \A i \in 1 .. m : atoms'[first + i].n = call[t].atoms[i].n /\ atoms'[first + i].k = call[t].atoms[i].k
    BY <1>6, LogAcceptsFields
  <2>3. \A i \in 1 .. m : atoms'[first + i].silent = (l.silent /\ i < m)
    BY <1>6, LogAcceptsFields
  <2>4. \A a \in 1 .. Len(atoms') : a \in 1 .. first \/ \E i \in 1 .. m : a = first + i
    BY <1>6, LogAcceptsDoes
  <2> HIDE DEF first, m
  <2>5. \A a \in 1 .. first : a \in 1 .. Len(atoms')
    BY <2>1
  <2>6. \A i \in 1 .. m : first + i \in 1 .. Len(atoms')
    BY <2>1
  <2>7. ASSUME ~ l.silent, NEW a \in 1 .. Len(atoms') PROVE ~ atoms'[a].silent
    <3>1. CASE a \in 1 .. first
      BY <1>0, <2>1, <2>7, <3>1 DEF first
    <3>2. ASSUME NEW i \in 1 .. m, a = first + i PROVE ~ atoms'[a].silent
      BY <2>3, <2>7, <3>2
    <3> QED BY <2>4, <3>1, <3>2
  <2>8. \A i \in 1 .. Len(log) : log[i].line = "A" /\ log[i].ok =>
          /\ log[i].id \in 1 .. Len(atoms')
          /\ atoms'[log[i].id].n = log[i].n /\ atoms'[log[i].id].k = log[i].k
    BY <1>0, <2>1, <2>5 DEF first
  <2>9. ASSUME NEW u \in l.threads, LogGiven(call'[u]), NEW i \in 1 .. Len(call'[u].atoms)
        PROVE  /\ call'[u].ids[i] \in 1 .. Len(atoms')
               /\ atoms'[call'[u].ids[i]].n = call'[u].atoms[i].n /\ atoms'[call'[u].ids[i]].k = call'[u].atoms[i].k
    <3>1. CASE u = t
      <4>1. i \in 1 .. m /\ call'[u].ids[i] = first + i /\ call'[u].atoms[i] = call[t].atoms[i]
        BY <2>1, <2>9, <3>1 DEF m
      <4> QED BY <2>2, <2>6, <4>1
    <3>2. CASE u # t
      <4>1. /\ call'[u] = call[u] /\ call[u].ids[i] \in 1 .. first
            /\ atoms[call[u].ids[i]].n = call[u].atoms[i].n /\ atoms[call[u].ids[i]].k = call[u].atoms[i].k
        <5>1. call'[u] = call[u]
          BY <2>1, <3>2
        <5>2. LogGiven(call[u]) /\ i \in 1 .. Len(call[u].atoms)
          BY <2>9, <5>1
        <5> QED BY <1>1, <5>1, <5>2 DEF first
      <4> QED BY <2>1, <2>5, <4>1
    <3> QED BY <3>1, <3>2
  <2> QED BY <2>1, <2>7, <2>8, <2>9 DEF LogOwn
<1>7. ASSUME NEW t \in l.threads, Logger(l)!Logs(t) PROVE LogOwn(l)'
  <2> DEFINE c == call[t]
  <2>1. /\ c.pc = "accepted" /\ call'[t] = LogIdle /\ (\A u \in l.threads : u # t => call'[u] = call[u])
        /\ UNCHANGED atoms /\ \A i \in 1 .. Len(log) : log'[i] = log[i]
    BY <1>7, LogLogsDoes
  <2>2. \A i \in 1 .. Len(c.atoms) : LET b == log'[Len(log) + i] IN
          b.n = c.atoms[i].n /\ b.k = c.atoms[i].k /\ b.ok = c.ok /\ b.id = c.ids[i]
    BY <1>7, LogLogsDoes
  <2>3. \A j \in 1 .. Len(log') : j \in 1 .. Len(log) \/ \E i \in 1 .. Len(c.atoms) : j = Len(log) + i
    BY <1>7, LogLogsDoes
  <2> HIDE DEF c
  <2>4. \A u \in l.threads : LogGiven(call'[u]) => call'[u] = call[u]
    BY <2>1 DEF LogGiven, LogIdle
  <2>5. ASSUME NEW j \in 1 .. Len(log'), log'[j].line = "A", log'[j].ok
        PROVE  /\ log'[j].id \in 1 .. Len(atoms)
               /\ atoms[log'[j].id].n = log'[j].n /\ atoms[log'[j].id].k = log'[j].k
    <3>1. CASE j \in 1 .. Len(log)
      BY <1>0, <2>1, <2>5, <3>1
    <3>2. ASSUME NEW i \in 1 .. Len(c.atoms), j = Len(log) + i
          PROVE  /\ log'[j].id \in 1 .. Len(atoms)
                 /\ atoms[log'[j].id].n = log'[j].n /\ atoms[log'[j].id].k = log'[j].k
      <4>1. log'[j].n = c.atoms[i].n /\ log'[j].k = c.atoms[i].k /\ log'[j].ok = c.ok /\ log'[j].id = c.ids[i]
        BY <2>2, <3>2
      <4>2. LogGiven(c)
        BY <2>1, <2>5, <4>1 DEF LogGiven
      <4>3. c.ids[i] \in 1 .. Len(atoms) /\ atoms[c.ids[i]].n = c.atoms[i].n /\ atoms[c.ids[i]].k = c.atoms[i].k
        BY <1>1, <3>2, <4>2 DEF c
      <4> QED BY <4>1, <4>3
    <3> QED BY <2>3, <3>1, <3>2
  <2>6. \A u \in l.threads : LogGiven(call'[u]) => \A i \in 1 .. Len(call'[u].atoms) :
        /\ call'[u].ids[i] \in 1 .. Len(atoms)
        /\ atoms[call'[u].ids[i]].n = call'[u].atoms[i].n /\ atoms[call'[u].ids[i]].k = call'[u].atoms[i].k
    <3> SUFFICES ASSUME NEW u \in l.threads, LogGiven(call'[u])
                 PROVE  \A i \in 1 .. Len(call'[u].atoms) :
                          /\ call'[u].ids[i] \in 1 .. Len(atoms)
                          /\ atoms[call'[u].ids[i]].n = call'[u].atoms[i].n
                          /\ atoms[call'[u].ids[i]].k = call'[u].atoms[i].k
      OBVIOUS
    <3>1. call'[u] = call[u] /\ LogGiven(call[u])
      BY <2>4
    <3> QED BY <1>1, <3>1
  <2> QED BY <1>0, <2>1, <2>5, <2>6 DEF LogOwn
<1>8. ASSUME NEW a \in DOMAIN atoms, Logger(l)!Ends(a) PROVE LogOwn(l)'
  <2>1. UNCHANGED <<atoms, log, call>>
    BY <1>8 DEF Logger!Ends
  <2> QED BY <1>2, <2>1
<1>9. ASSUME Logger(l)!Reads \/ Logger(l)!ReadStamps PROVE LogOwn(l)'
  <2>1. UNCHANGED <<atoms, log, call>>
    BY <1>9 DEF Logger!Reads, Logger!ReadStamps
  <2> QED BY <1>2, <2>1
<1>10. ASSUME Logger(l)!ReadLogs PROVE LogOwn(l)'
  <2>1. /\ UNCHANGED <<atoms, call>> /\ \A i \in 1 .. Len(log) : log'[i] = log[i]
    BY <1>10, LogReadLogsDoes
  <2>2. \A i \in 1 .. Len(reader.batch) : log'[Len(log) + i].line = "E"
    BY <1>10, LogReadLogsDoes
  <2>3. \A j \in 1 .. Len(log') : j \in 1 .. Len(log) \/ \E i \in 1 .. Len(reader.batch) : j = Len(log) + i
    BY <1>10, LogReadLogsDoes
  <2>4. \A j \in 1 .. Len(log') : log'[j].line = "A" => j \in 1 .. Len(log)
    BY <2>2, <2>3
  <2> QED BY <1>0, <1>1, <2>1, <2>4 DEF LogOwn
<1> QED BY <1>3, <1>4, <1>5, <1>6, <1>7, <1>8, <1>9, <1>10 DEF Logger!Next

-----------------------------------------------------------------------------
(* Times                                                                   *)

(* The events that were logged: <<atom, number, time>>.                    *)
LogTold(q) == {<<q[j].id, q[j].n, q[j].at>> : j \in {i \in 1 .. Len(q) : q[i].line = "E"}}

(* The time that was taken for atom a, in the log or on the way there.     *)
LogStamped(l, cl, q, a, s) ==
  \/ \E i \in 1 .. Len(q) : q[i].line = "A" /\ q[i].ok /\ q[i].id = a /\ q[i].at = s
  \/ \E t \in l.threads : LogGiven(cl[t]) /\ cl[t].t0 = s /\ \E i \in 1 .. Len(cl[t].atoms) : cl[t].ids[i] = a

LogBefore(l) ==
  \A t \in l.threads : LogTaken(call[t]) /\ call[t].pc # "called" =>
    \A i \in 1 .. Len(call[t].atoms) : \A x \in LogTold(log) :
      x[2] = call[t].atoms[i].n => x[3] < call[t].t0

LogAfter(l) ==
  reader.at # 0 => \A a \in LogSet(reader.batch), s \in Nat :
    LogStamped(l, call, log, a, s) => s <= reader.at

LogTimes(l) ==
  /\ \A a \in 1 .. Len(atoms) : \E s \in Nat : LogStamped(l, call, log, a, s)
  /\ \A x \in LogTold(log), s \in Nat : LogStamped(l, call, log, x[1], s) => s <= x[3]
  /\ \A a, b \in 1 .. Len(atoms), s \in Nat :
       a < b /\ atoms[a].n = atoms[b].n /\ ~ atoms[a].silent /\ LogStamped(l, call, log, b, s) =>
         LogHas(log, a) /\ \A x \in LogTold(log) : x[1] = a => x[3] < s

(* The log grows by lines of atoms, by those of events.                    *)
LEMMA LogLogsTold ==
  ASSUME NEW l \in Loggers, LogTypes(l), NEW t \in l.threads, Logger(l)!Logs(t)
  PROVE  LogTold(log') = LogTold(log)
<1>1. /\ Len(log) \in Nat /\ Len(call[t].atoms) \in Nat /\ Len(log') = Len(log) + Len(call[t].atoms)
      /\ \A i \in 1 .. Len(log) : log'[i] = log[i]
      /\ \A i \in 1 .. Len(call[t].atoms) : log'[Len(log) + i].line = "A"
      /\ \A j \in 1 .. Len(log') : j \in 1 .. Len(log) \/ \E i \in 1 .. Len(call[t].atoms) : j = Len(log) + i
  BY LogLogsGrows
<1>2. \A j \in 1 .. Len(log) : j \in 1 .. Len(log')
  BY <1>1
<1>3. \A j \in 1 .. Len(log') : log'[j].line = "E" => j \in 1 .. Len(log)
  BY <1>1
<1>4. {i \in 1 .. Len(log') : log'[i].line = "E"} = {i \in 1 .. Len(log) : log[i].line = "E"}
  BY <1>1, <1>2, <1>3
<1>5. \A j \in {i \in 1 .. Len(log) : log[i].line = "E"} : log'[j] = log[j]
  BY <1>1
<1> QED BY <1>4, <1>5 DEF LogTold

LEMMA LogReadLogsTold ==
  ASSUME NEW l \in Loggers, LogTypes(l), Logger(l)!ReadLogs
  PROVE  \A x : x \in LogTold(log') =>
           x \in LogTold(log) \/ \E a \in LogSet(reader.batch) : x = <<a, atoms[a].n, reader.at>>
<1>1. \A i \in 1 .. Len(log) : log'[i] = log[i]
  BY LogReadLogsDoes
<1>2. \A i \in 1 .. Len(reader.batch) : LET b == log'[Len(log) + i] IN
        b.at = reader.at /\ b.n = atoms[reader.batch[i]].n /\ b.id = reader.batch[i]
  BY LogReadLogsDoes
<1>3. \A j \in 1 .. Len(log') : j \in 1 .. Len(log) \/ \E i \in 1 .. Len(reader.batch) : j = Len(log) + i
  BY LogReadLogsDoes
<1> TAKE x
<1> SUFFICES ASSUME x \in LogTold(log')
             PROVE  x \in LogTold(log) \/ \E a \in LogSet(reader.batch) : x = <<a, atoms[a].n, reader.at>>
  OBVIOUS
<1>4. PICK j \in 1 .. Len(log') : log'[j].line = "E" /\ x = <<log'[j].id, log'[j].n, log'[j].at>>
  BY DEF LogTold
<1>5. CASE j \in 1 .. Len(log)
  BY <1>1, <1>4, <1>5 DEF LogTold
<1>6. ASSUME NEW i \in 1 .. Len(reader.batch), j = Len(log) + i
      PROVE  \E a \in LogSet(reader.batch) : x = <<a, atoms[a].n, reader.at>>
  <2>1. x = <<reader.batch[i], atoms[reader.batch[i]].n, reader.at>>
    BY <1>2, <1>4, <1>6
  <2>2. reader.batch[i] \in LogSet(reader.batch)
    BY DEF LogSet
  <2> QED BY <2>1, <2>2
<1> QED BY <1>3, <1>5, <1>6

LEMMA LogToldIs ==
  ASSUME NEW l \in Loggers, LogTypes(l), LogEvents, NEW x \in LogTold(log)
  PROVE  /\ x[1] \in ended /\ x[1] \in 1 .. Len(atoms) /\ ~ atoms[x[1]].silent /\ x[2] = atoms[x[1]].n
         /\ x[3] \in 1 .. clock /\ LogHas(log, x[1])
<1>1. PICK j \in 1 .. Len(log) : log[j].line = "E" /\ x = <<log[j].id, log[j].n, log[j].at>>
  BY DEF LogTold
<1>2. x[1] = log[j].id /\ x[2] = log[j].n /\ x[3] = log[j].at
  BY <1>1
<1>3. log[j].at \in 1 .. clock /\ ended \subseteq 1 .. Len(atoms)
  BY DEF LogTypes
<1>4. log[j].id \in ended /\ ~ atoms[log[j].id].silent /\ log[j].n = atoms[log[j].id].n
  BY <1>1 DEF LogEvents
<1>5. LogHas(log, x[1])
  BY <1>1, <1>2 DEF LogHas
<1> QED BY <1>2, <1>3, <1>4, <1>5

LEMMA LogStampedIs ==
  ASSUME NEW l \in Loggers, LogTypes(l), LogOwn(l), NEW a, NEW s, LogStamped(l, call, log, a, s)
  PROVE  a \in 1 .. Len(atoms) /\ s \in 1 .. clock
<1>1. ASSUME NEW i \in 1 .. Len(log), log[i].line = "A", log[i].ok, log[i].id = a, log[i].at = s
      PROVE  a \in 1 .. Len(atoms) /\ s \in 1 .. clock
  BY <1>1 DEF LogTypes, LogOwn
<1>2. ASSUME NEW t \in l.threads, LogGiven(call[t]), call[t].t0 = s,
             NEW i \in 1 .. Len(call[t].atoms), call[t].ids[i] = a
      PROVE  a \in 1 .. Len(atoms) /\ s \in 1 .. clock
  <2>1. a \in 1 .. Len(atoms)
    BY <1>2 DEF LogOwn
  <2>2. s \in 1 .. clock
    BY <1>2 DEF LogTypes, LogGiven
  <2> QED BY <2>1, <2>2
<1> QED BY <1>1, <1>2 DEF LogStamped

(* What the actions do to the times that were taken.                       *)
LEMMA LogStampedKeep ==
  ASSUME NEW l \in Loggers, UNCHANGED log,
         \A t \in l.threads : LogGiven(call'[t]) \/ LogGiven(call[t]) => call'[t] = call[t],
         NEW a, NEW s
  PROVE  LogStamped(l, call', log', a, s) <=> LogStamped(l, call, log, a, s)
BY DEF LogStamped

LEMMA LogAcceptsStamped ==
  ASSUME NEW l \in Loggers, LogTypes(l), NEW t \in l.threads, Logger(l)!Accepts(t), NEW a, NEW s
  PROVE  LogStamped(l, call', log', a, s) <=>
           \/ LogStamped(l, call, log, a, s)
           \/ s = call[t].t0 /\ \E i \in 1 .. Len(call[t].atoms) : a = Len(atoms) + i
<1>1. /\ call[t].pc = "timed" /\ call'[t].pc = "accepted" /\ call'[t].ok /\ call'[t].t0 = call[t].t0
      /\ call'[t].atoms = call[t].atoms /\ \A u \in l.threads : u # t => call'[u] = call[u]
      /\ UNCHANGED log
  BY LogAcceptsDoes
<1>2. \A i \in 1 .. Len(call[t].atoms) : call'[t].ids[i] = Len(atoms) + i
  BY LogAcceptsDoes
<1>3. LogGiven(call'[t]) /\ ~ LogGiven(call[t])
  BY <1>1 DEF LogGiven
<1>4. (\E i \in 1 .. Len(call'[t].atoms) : call'[t].ids[i] = a) <=>
      (\E i \in 1 .. Len(call[t].atoms) : a = Len(atoms) + i)
  BY <1>1, <1>2
<1>5. (\E u \in l.threads : LogGiven(call'[u]) /\ call'[u].t0 = s /\ \E i \in 1 .. Len(call'[u].atoms) : call'[u].ids[i] = a)
      <=> \/ \E u \in l.threads : LogGiven(call[u]) /\ call[u].t0 = s /\ \E i \in 1 .. Len(call[u].atoms) : call[u].ids[i] = a
          \/ s = call[t].t0 /\ \E i \in 1 .. Len(call[t].atoms) : a = Len(atoms) + i
  BY <1>1, <1>3, <1>4
<1> QED BY <1>1, <1>5 DEF LogStamped

LEMMA LogLogsStamped ==
  ASSUME NEW l \in Loggers, LogTypes(l), NEW t \in l.threads, Logger(l)!Logs(t), NEW a, NEW s
  PROVE  LogStamped(l, call', log', a, s) <=> LogStamped(l, call, log, a, s)
<1> DEFINE c == call[t]
           Line(q, i) == q[i].line = "A" /\ q[i].ok /\ q[i].id = a /\ q[i].at = s
           Way(d) == LogGiven(d) /\ d.t0 = s /\ \E i \in 1 .. Len(d.atoms) : d.ids[i] = a
<1>1. /\ c.pc = "accepted" /\ call'[t] = LogIdle /\ (\A u \in l.threads : u # t => call'[u] = call[u])
      /\ Len(log) \in Nat /\ Len(c.atoms) \in Nat /\ Len(log') = Len(log) + Len(c.atoms)
      /\ \A i \in 1 .. Len(log) : log'[i] = log[i]
  BY LogLogsDoes
<1>2. \A i \in 1 .. Len(c.atoms) : LET b == log'[Len(log) + i] IN
        b.line = "A" /\ b.at = c.t0 /\ b.ok = c.ok /\ b.id = c.ids[i]
  BY LogLogsDoes
<1>3. \A j \in 1 .. Len(log') : j \in 1 .. Len(log) \/ \E i \in 1 .. Len(c.atoms) : j = Len(log) + i
  BY LogLogsDoes
<1>4. (\E u \in l.threads : Way(call'[u])) <=> \E u \in l.threads : u # t /\ Way(call[u])
  BY <1>1 DEF LogGiven, LogIdle
<1> HIDE DEF c
<1>5. \A i \in 1 .. Len(c.atoms) : Line(log', Len(log) + i) <=> (c.ok /\ c.ids[i] = a /\ c.t0 = s)
  BY <1>2
<1>6. Way(c) <=> \E i \in 1 .. Len(c.atoms) : c.ok /\ c.ids[i] = a /\ c.t0 = s
  BY <1>1 DEF LogGiven
<1>7. /\ \A j \in 1 .. Len(log) : j \in 1 .. Len(log')
      /\ \A i \in 1 .. Len(c.atoms) : Len(log) + i \in 1 .. Len(log')
  BY <1>1
<1>8. \A j \in 1 .. Len(log) : Line(log', j) <=> Line(log, j)
  BY <1>1
<1> HIDE DEF Line, Way
<1>9. (\E j \in 1 .. Len(log') : Line(log', j)) <=> (\E j \in 1 .. Len(log) : Line(log, j)) \/ Way(c)
  BY <1>3, <1>5, <1>6, <1>7, <1>8
<1>10. (\E j \in 1 .. Len(log') : Line(log', j)) \/ (\E u \in l.threads : Way(call'[u])) <=>
       (\E j \in 1 .. Len(log) : Line(log, j)) \/ (\E u \in l.threads : Way(call[u]))
  BY <1>4, <1>9 DEF c
<1> QED BY <1>10 DEF LogStamped, Line, Way

LEMMA LogReadLogsStamped ==
  ASSUME NEW l \in Loggers, LogTypes(l), Logger(l)!ReadLogs, NEW a, NEW s
  PROVE  LogStamped(l, call', log', a, s) <=> LogStamped(l, call, log, a, s)
<1>1. /\ UNCHANGED call /\ Len(log) \in Nat /\ Len(reader.batch) \in Nat /\ Len(log') = Len(log) + Len(reader.batch)
      /\ \A i \in 1 .. Len(log) : log'[i] = log[i]
  BY LogReadLogsDoes
<1>2. \A i \in 1 .. Len(reader.batch) : log'[Len(log) + i].line = "E"
  BY LogReadLogsDoes
<1>3. \A j \in 1 .. Len(log') : j \in 1 .. Len(log) \/ \E i \in 1 .. Len(reader.batch) : j = Len(log) + i
  BY LogReadLogsDoes
<1>4. \A j \in 1 .. Len(log') : log'[j].line = "A" => j \in 1 .. Len(log)
  BY <1>2, <1>3
<1>5. \A j \in 1 .. Len(log) : j \in 1 .. Len(log')
  BY <1>1
<1> QED BY <1>1, <1>4, <1>5 DEF LogStamped

-----------------------------------------------------------------------------

LEMMA LogBeforeStep ==
  ASSUME NEW l \in Loggers, LogTypes(l), LogEvents, LogNumbers(l), LogBefore(l), Logger(l)!Next
  PROVE  LogBefore(l)'
<1>1. ASSUME LogTold(log') = LogTold(log),
             \A t \in l.threads : LogTaken(call'[t]) /\ call'[t].pc # "called" =>
               LogTaken(call[t]) /\ call[t].pc # "called" /\ call'[t].atoms = call[t].atoms /\ call'[t].t0 = call[t].t0
      PROVE  LogBefore(l)'
  BY <1>1 DEF LogBefore
<1>2. ASSUME NEW t \in l.threads, Logger(l)!Enters(t) PROVE LogBefore(l)'
  <2>1. call'[t].pc = "called" /\ (\A u \in l.threads : u # t => call'[u] = call[u]) /\ UNCHANGED log
    BY <1>2, LogEntersDoes
  <2> QED BY <1>1, <2>1
<1>3. ASSUME NEW t \in l.threads, Logger(l)!Stamps(t) PROVE LogBefore(l)'
  <2>1. /\ call'[t].t0 = clock + 1 /\ clock \in Nat
        /\ (\A u \in l.threads : u # t => call'[u] = call[u]) /\ UNCHANGED log
    BY <1>3, LogStampsDoes
  <2>2. \A x \in LogTold(log) : x[3] < clock + 1
    <3> TAKE x \in LogTold(log)
    <3>1. x[3] \in 1 .. clock
      BY LogToldIs
    <3> QED BY <2>1, <3>1
  <2>3. ASSUME NEW u \in l.threads, LogTaken(call'[u]), call'[u].pc # "called",
               NEW i \in 1 .. Len(call'[u].atoms), NEW x \in LogTold(log), x[2] = call'[u].atoms[i].n
        PROVE  x[3] < call'[u].t0
    <3>1. CASE u = t
      BY <2>1, <2>2, <3>1
    <3>2. CASE u # t
      BY <2>1, <2>3, <3>2 DEF LogBefore
    <3> QED BY <3>1, <3>2
  <2> QED BY <2>1, <2>3 DEF LogBefore
<1>4. ASSUME NEW t \in l.threads, Logger(l)!Accepts(t) PROVE LogBefore(l)'
  <2>1. call'[t].pc = "accepted" /\ call'[t].ok /\ (\A u \in l.threads : u # t => call'[u] = call[u]) /\ UNCHANGED log
    BY <1>4, LogAcceptsDoes
  <2> QED BY <1>1, <2>1 DEF LogTaken
<1>5. ASSUME NEW t \in l.threads, Logger(l)!Refuses(t) PROVE LogBefore(l)'
  <2>1. /\ call[t].pc = "timed" /\ call'[t].t0 = call[t].t0 /\ call'[t].atoms = call[t].atoms
        /\ (\A u \in l.threads : u # t => call'[u] = call[u]) /\ UNCHANGED log
    BY <1>5, LogRefusesDoes
  <2> QED BY <1>1, <2>1 DEF LogTaken
<1>6. ASSUME NEW t \in l.threads, Logger(l)!Logs(t) PROVE LogBefore(l)'
  <2>1. call'[t] = LogIdle /\ \A u \in l.threads : u # t => call'[u] = call[u]
    BY <1>6, LogLogsDoes
  <2>2. LogTold(log') = LogTold(log)
    BY <1>6, LogLogsTold
  <2>3. ~ LogTaken(LogIdle)
    BY DEF LogTaken, LogIdle
  <2> QED BY <1>1, <2>1, <2>2, <2>3
<1>7. ASSUME UNCHANGED <<log, call>> PROVE LogBefore(l)'
  BY <1>1, <1>7
<1>8. ASSUME NEW a \in DOMAIN atoms, Logger(l)!Ends(a) PROVE UNCHANGED <<log, call>>
  BY <1>8 DEF Logger!Ends
<1>9. ASSUME Logger(l)!Reads \/ Logger(l)!ReadStamps PROVE UNCHANGED <<log, call>>
  BY <1>9 DEF Logger!Reads, Logger!ReadStamps
<1>10. ASSUME Logger(l)!ReadLogs PROVE LogBefore(l)'
  <2>1. UNCHANGED call /\ reader.batch \in Seq(1 .. Len(atoms))
    BY <1>10, LogReadLogsDoes
  <2>2. \A x : x \in LogTold(log') =>
          x \in LogTold(log) \/ \E a \in LogSet(reader.batch) : x = <<a, atoms[a].n, reader.at>>
    BY <1>10, LogReadLogsTold
  <2>3. \A a \in LogSet(reader.batch) : a \in 1 .. Len(atoms) /\ LogOut(atoms, log, a)
    BY <2>1 DEF LogEvents, LogOut, LogEv, LogSet
  <2>4. ASSUME NEW u \in l.threads, LogTaken(call[u]), call[u].pc # "called",
               NEW i \in 1 .. Len(call[u].atoms), NEW x \in LogTold(log'), x[2] = call[u].atoms[i].n
        PROVE  x[3] < call[u].t0
    <3>1. CASE x \in LogTold(log)
      BY <2>4, <3>1 DEF LogBefore
    <3>2. ASSUME NEW a \in LogSet(reader.batch), x = <<a, atoms[a].n, reader.at>> PROVE FALSE
      <4>1. atoms[a].n # call[u].atoms[i].n
        BY <2>3, <2>4 DEF LogNumbers
      <4> QED BY <2>4, <3>2, <4>1
    <3> QED BY <2>2, <3>1, <3>2
  <2> QED BY <2>1, <2>4 DEF LogBefore
<1> QED BY <1>2, <1>3, <1>4, <1>5, <1>6, <1>7, <1>8, <1>9, <1>10 DEF Logger!Next

LEMMA LogAfterStep ==
  ASSUME NEW l \in Loggers, LogTypes(l), LogOwn(l), LogAfter(l), Logger(l)!Next
  PROVE  LogAfter(l)'
<1>1. ASSUME UNCHANGED reader, \A a, s : LogStamped(l, call', log', a, s) <=> LogStamped(l, call, log, a, s)
      PROVE  LogAfter(l)'
  BY <1>1 DEF LogAfter
<1>2. ASSUME UNCHANGED <<reader, log>>,
             \A t \in l.threads : LogGiven(call'[t]) \/ LogGiven(call[t]) => call'[t] = call[t]
      PROVE  LogAfter(l)'
  BY <1>1, <1>2, LogStampedKeep
<1>3. ASSUME NEW t \in l.threads, Logger(l)!Enters(t) PROVE LogAfter(l)'
  <2>1. /\ call[t] = LogIdle /\ call'[t].pc = "called" /\ (\A u \in l.threads : u # t => call'[u] = call[u])
        /\ UNCHANGED <<reader, log>>
    BY <1>3, LogEntersDoes
  <2>2. ~ LogGiven(call[t]) /\ ~ LogGiven(call'[t])
    BY <2>1 DEF LogGiven, LogIdle
  <2> QED BY <1>2, <2>1, <2>2
<1>4. ASSUME NEW t \in l.threads, Logger(l)!Stamps(t) PROVE LogAfter(l)'
  <2>1. /\ call[t].pc = "called" /\ call'[t].pc = "timed" /\ (\A u \in l.threads : u # t => call'[u] = call[u])
        /\ UNCHANGED <<reader, log>>
    BY <1>4, LogStampsDoes
  <2> QED BY <1>2, <2>1 DEF LogGiven
<1>5. ASSUME NEW t \in l.threads, Logger(l)!Refuses(t) PROVE LogAfter(l)'
  <2>1. /\ call[t].pc = "timed" /\ ~ call'[t].ok /\ (\A u \in l.threads : u # t => call'[u] = call[u])
        /\ UNCHANGED <<reader, log>>
    BY <1>5, LogRefusesDoes
  <2> QED BY <1>2, <2>1 DEF LogGiven
<1>6. ASSUME NEW t \in l.threads, Logger(l)!Accepts(t) PROVE LogAfter(l)'
  <2>1. UNCHANGED reader /\ Len(atoms) \in Nat
    BY <1>6, LogAcceptsDoes
  <2>2. LogSet(reader.batch) \subseteq 1 .. Len(atoms)
    BY DEF LogTypes, LogSet
  <2>3. ASSUME NEW a \in LogSet(reader.batch), NEW s, LogStamped(l, call', log', a, s)
        PROVE  LogStamped(l, call, log, a, s)
    <3>1. \A i \in 1 .. Len(call[t].atoms) : a # Len(atoms) + i
      BY <2>1, <2>2
    <3> QED BY <1>6, <2>3, <3>1, LogAcceptsStamped
  <2> QED BY <2>1, <2>3 DEF LogAfter
<1>7. ASSUME NEW t \in l.threads, Logger(l)!Logs(t) PROVE LogAfter(l)'
  <2>1. UNCHANGED reader
    BY <1>7, LogLogsDoes
  <2>2. \A a, s : LogStamped(l, call', log', a, s) <=> LogStamped(l, call, log, a, s)
    BY <1>7, LogLogsStamped
  <2> QED BY <1>1, <2>1, <2>2
<1>8. ASSUME NEW a \in DOMAIN atoms, Logger(l)!Ends(a) PROVE LogAfter(l)'
  <2>1. UNCHANGED <<reader, log, call>>
    BY <1>8 DEF Logger!Ends
  <2> QED BY <1>2, <2>1
<1>9. ASSUME Logger(l)!Reads \/ Logger(l)!ReadLogs PROVE LogAfter(l)'
  <2>1. reader'.at = 0
    BY <1>9, LogReadsDoes, LogReadLogsDoes
  <2> QED BY <2>1 DEF LogAfter
<1>10. ASSUME Logger(l)!ReadStamps PROVE LogAfter(l)'
  <2>1. clock \in Nat /\ reader'.at = clock + 1 /\ UNCHANGED <<call, log>>
    BY <1>10, LogReadStampsDoes
  <2>2. ASSUME NEW a, NEW s \in Nat, LogStamped(l, call, log, a, s) PROVE s <= clock + 1
    <3>1. s \in 1 .. clock
      BY <2>2, LogStampedIs
    <3> QED BY <2>1, <3>1
  <2> QED BY <2>1, <2>2 DEF LogAfter
<1> QED BY <1>3, <1>4, <1>5, <1>6, <1>7, <1>8, <1>9, <1>10 DEF Logger!Next

-----------------------------------------------------------------------------

LEMMA LogTimesAccepts ==
  ASSUME NEW l \in Loggers, LogTypes(l), LogEvents, LogNumbers(l), LogOwn(l), LogBefore(l), LogTimes(l),
         NEW t \in l.threads, Logger(l)!Accepts(t)
  PROVE  LogTimes(l)'
<1> DEFINE as == call[t].atoms
           first == Len(atoms)
           m == Len(as)
           New(a, s) == s = call[t].t0 /\ \E i \in 1 .. m : a = first + i
<1>1. /\ call[t].pc = "timed" /\ call[t].ok /\ first \in Nat /\ m \in Nat /\ Len(atoms') = first + m
      /\ \A a \in 1 .. first : atoms'[a] = atoms[a]
      /\ UNCHANGED log
  BY LogAcceptsDoes
<1>2. \A i \in 1 .. m : atoms'[first + i].n = as[i].n
  BY LogAcceptsDoes
<1>3. \A a \in 1 .. Len(atoms') : a \in 1 .. first \/ \E i \in 1 .. m : a = first + i
  BY LogAcceptsDoes
<1>4. \A a, s : LogStamped(l, call', log', a, s) <=> LogStamped(l, call, log, a, s) \/ New(a, s)
  BY LogAcceptsStamped
<1>5. call[t].t0 \in Nat
  BY <1>1 DEF LogTypes
<1>6. /\ \A a \in 1 .. first : \E s \in Nat : LogStamped(l, call, log, a, s)
      /\ \A x \in LogTold(log), s \in Nat : LogStamped(l, call, log, x[1], s) => s <= x[3]
      /\ \A a, b \in 1 .. first, s \in Nat :
           a < b /\ atoms[a].n = atoms[b].n /\ ~ atoms[a].silent /\ LogStamped(l, call, log, b, s) =>
             LogHas(log, a) /\ \A x \in LogTold(log) : x[1] = a => x[3] < s
  BY DEF LogTimes
<1>7. \A i \in 1 .. m : /\ \A a \in 1 .. first : LogOut(atoms, log, a) => atoms[a].n # as[i].n
                        /\ \A x \in LogTold(log) : x[2] = as[i].n => x[3] < call[t].t0
                        /\ \A j \in 1 .. m : i # j => as[i].n # as[j].n
  <2>1. LogTaken(call[t]) /\ call[t].pc # "called" /\ call[t].pc # "idle"
    BY <1>1 DEF LogTaken
  <2> TAKE i \in 1 .. m
  <2>2. \A a \in 1 .. first : LogOut(atoms, log, a) => atoms[a].n # as[i].n
    BY <2>1 DEF LogNumbers
  <2>3. \A x \in LogTold(log) : x[2] = as[i].n => x[3] < call[t].t0
    BY <2>1 DEF LogBefore
  <2>4. \A j \in 1 .. m : i # j => as[i].n # as[j].n
    BY <2>1 DEF LogNumbers
  <2> QED BY <2>2, <2>3, <2>4
<1>8. \A a, s : LogStamped(l, call, log, a, s) => a \in 1 .. first
  BY LogStampedIs
<1>9. \A x \in LogTold(log) : x[1] \in 1 .. first /\ x[2] = atoms[x[1]].n
  BY LogToldIs
<1> HIDE DEF as, first, m
<1>10. \A a \in 1 .. Len(atoms') : \E s \in Nat : LogStamped(l, call', log', a, s)
  <2> TAKE a \in 1 .. Len(atoms')
  <2>1. CASE a \in 1 .. first
    BY <1>4, <1>6, <2>1
  <2>2. CASE \E i \in 1 .. m : a = first + i
    BY <1>4, <1>5, <2>2
  <2> QED BY <1>3, <2>1, <2>2
<1>11. \A a \in 1 .. first : \A i \in 1 .. m : a # first + i
  BY <1>1
<1>12. \A a \in 1 .. first : \A s : LogStamped(l, call', log', a, s) <=> LogStamped(l, call, log, a, s)
  BY <1>4, <1>11
<1>13. \A x \in LogTold(log), s \in Nat : LogStamped(l, call', log', x[1], s) => s <= x[3]
  BY <1>6, <1>9, <1>12
<1>14. ASSUME NEW a \in 1 .. Len(atoms'), NEW b \in 1 .. Len(atoms'), NEW s \in Nat,
              a < b, atoms'[a].n = atoms'[b].n, ~ atoms'[a].silent, LogStamped(l, call', log', b, s)
       PROVE  LogHas(log, a) /\ \A x \in LogTold(log) : x[1] = a => x[3] < s
  <2>1. CASE b \in 1 .. first
    <3>1. a \in 1 .. first
      BY <1>1, <1>14, <2>1
    <3>2. LogStamped(l, call, log, b, s) /\ atoms[a].n = atoms[b].n /\ ~ atoms[a].silent
      BY <1>1, <1>12, <1>14, <2>1, <3>1
    <3> QED BY <1>6, <1>14, <2>1, <3>1, <3>2
  <2>2. ASSUME NEW j \in 1 .. m, b = first + j
        PROVE  LogHas(log, a) /\ \A x \in LogTold(log) : x[1] = a => x[3] < s
    <3>1. b \notin 1 .. first
      BY <1>1, <2>2
    <3>2. s = call[t].t0
      BY <1>4, <1>8, <1>14, <3>1
    <3>3. ASSUME NEW i \in 1 .. m, a = first + i PROVE FALSE
      <4>1. i # j
        BY <1>14, <2>2, <3>3
      <4>2. as[i].n = as[j].n
        BY <1>2, <1>14, <2>2, <3>3
      <4> QED BY <1>7, <4>1, <4>2
    <3>4. a \in 1 .. first
      BY <1>3, <3>3
    <3>5. atoms[a].n = as[j].n /\ ~ atoms[a].silent
      BY <1>1, <1>2, <1>14, <2>2, <3>4
    <3>6. LogHas(log, a)
      BY <1>7, <3>4, <3>5 DEF LogOut, LogEv
    <3>7. ASSUME NEW x \in LogTold(log), x[1] = a PROVE x[3] < s
      BY <1>7, <1>9, <3>2, <3>5, <3>7
    <3> QED BY <3>6, <3>7
  <2> QED BY <1>3, <2>1, <2>2
<1> QED BY <1>1, <1>10, <1>13, <1>14 DEF LogTimes

LEMMA LogTimesReadLogs ==
  ASSUME NEW l \in Loggers, LogTypes(l), LogEvents, LogAfter(l), LogTimes(l), Logger(l)!ReadLogs
  PROVE  LogTimes(l)'
<1>1. UNCHANGED <<atoms, call>> /\ reader.at \in 1 .. clock /\ reader.batch \in Seq(1 .. Len(atoms))
  BY LogReadLogsDoes
<1>2. \A x : x \in LogTold(log') =>
        x \in LogTold(log) \/ \E a \in LogSet(reader.batch) : x = <<a, atoms[a].n, reader.at>>
  BY LogReadLogsTold
<1>3. \A a, s : LogStamped(l, call', log', a, s) <=> LogStamped(l, call, log, a, s)
  BY LogReadLogsStamped
<1>4. \A a : LogHas(log', a) <=> LogHas(log, a) \/ a \in LogSet(reader.batch)
  BY LogReadLogsHas
<1>5. /\ \A a \in 1 .. Len(atoms) : \E s \in Nat : LogStamped(l, call, log, a, s)
      /\ \A x \in LogTold(log), s \in Nat : LogStamped(l, call, log, x[1], s) => s <= x[3]
      /\ \A a, b \in 1 .. Len(atoms), s \in Nat :
           a < b /\ atoms[a].n = atoms[b].n /\ ~ atoms[a].silent /\ LogStamped(l, call, log, b, s) =>
             LogHas(log, a) /\ \A x \in LogTold(log) : x[1] = a => x[3] < s
  BY DEF LogTimes
<1>6. /\ \A a \in LogSet(reader.batch), s \in Nat : LogStamped(l, call, log, a, s) => s <= reader.at
      /\ \A a \in LogSet(reader.batch) : ~ LogHas(log, a)
  BY <1>1 DEF LogAfter, LogEvents
<1>7. ASSUME NEW x \in LogTold(log'), NEW s \in Nat, LogStamped(l, call, log, x[1], s) PROVE s <= x[3]
  BY <1>2, <1>5, <1>6, <1>7
<1>8. ASSUME NEW a \in 1 .. Len(atoms), NEW b \in 1 .. Len(atoms), NEW s \in Nat,
             a < b, atoms[a].n = atoms[b].n, ~ atoms[a].silent, LogStamped(l, call, log, b, s)
      PROVE  LogHas(log', a) /\ \A x \in LogTold(log') : x[1] = a => x[3] < s
  <2>1. LogHas(log, a) /\ \A x \in LogTold(log) : x[1] = a => x[3] < s
    BY <1>5, <1>8
  <2>2. a \notin LogSet(reader.batch)
    BY <1>6, <2>1
  <2>3. \A x \in LogTold(log') : x[1] = a => x \in LogTold(log)
    BY <1>2, <2>2
  <2> QED BY <1>4, <2>1, <2>3
<1> QED BY <1>1, <1>3, <1>5, <1>7, <1>8 DEF LogTimes

LEMMA LogTimesStep ==
  ASSUME NEW l \in Loggers, LogTypes(l), LogEvents, LogNumbers(l), LogOwn(l), LogBefore(l), LogAfter(l), LogTimes(l),
         Logger(l)!Next
  PROVE  LogTimes(l)'
<1>1. ASSUME UNCHANGED atoms, LogTold(log') = LogTold(log), \A a : LogHas(log', a) <=> LogHas(log, a),
             \A a, s : LogStamped(l, call', log', a, s) <=> LogStamped(l, call, log, a, s)
      PROVE  LogTimes(l)'
  BY <1>1 DEF LogTimes
<1>2. ASSUME UNCHANGED <<atoms, log>>,
             \A t \in l.threads : LogGiven(call'[t]) \/ LogGiven(call[t]) => call'[t] = call[t]
      PROVE  LogTimes(l)'
  BY <1>1, <1>2, LogStampedKeep
<1>3. ASSUME NEW t \in l.threads, Logger(l)!Enters(t) PROVE LogTimes(l)'
  <2>1. /\ call[t] = LogIdle /\ call'[t].pc = "called" /\ (\A u \in l.threads : u # t => call'[u] = call[u])
        /\ UNCHANGED <<atoms, log>>
    BY <1>3, LogEntersDoes
  <2>2. ~ LogGiven(call[t]) /\ ~ LogGiven(call'[t])
    BY <2>1 DEF LogGiven, LogIdle
  <2> QED BY <1>2, <2>1, <2>2
<1>4. ASSUME NEW t \in l.threads, Logger(l)!Stamps(t) PROVE LogTimes(l)'
  <2>1. /\ call[t].pc = "called" /\ call'[t].pc = "timed" /\ (\A u \in l.threads : u # t => call'[u] = call[u])
        /\ UNCHANGED <<atoms, log>>
    BY <1>4, LogStampsDoes
  <2> QED BY <1>2, <2>1 DEF LogGiven
<1>5. ASSUME NEW t \in l.threads, Logger(l)!Refuses(t) PROVE LogTimes(l)'
  <2>1. /\ call[t].pc = "timed" /\ ~ call'[t].ok /\ (\A u \in l.threads : u # t => call'[u] = call[u])
        /\ UNCHANGED <<atoms, log>>
    BY <1>5, LogRefusesDoes
  <2> QED BY <1>2, <2>1 DEF LogGiven
<1>6. ASSUME NEW t \in l.threads, Logger(l)!Logs(t) PROVE LogTimes(l)'
  <2>1. UNCHANGED atoms
    BY <1>6, LogLogsDoes
  <2>2. LogTold(log') = LogTold(log) /\ \A a : LogHas(log', a) <=> LogHas(log, a)
    BY <1>6, LogLogsTold, LogLogsHas
  <2>3. \A a, s : LogStamped(l, call', log', a, s) <=> LogStamped(l, call, log, a, s)
    BY <1>6, LogLogsStamped
  <2> QED BY <1>1, <2>1, <2>2, <2>3
<1>7. ASSUME UNCHANGED <<atoms, log, call>> PROVE LogTimes(l)'
  BY <1>2, <1>7
<1>8. ASSUME NEW a \in DOMAIN atoms, Logger(l)!Ends(a) PROVE UNCHANGED <<atoms, log, call>>
  BY <1>8 DEF Logger!Ends
<1>9. ASSUME Logger(l)!Reads \/ Logger(l)!ReadStamps PROVE UNCHANGED <<atoms, log, call>>
  BY <1>9 DEF Logger!Reads, Logger!ReadStamps
<1> QED BY <1>3, <1>4, <1>5, <1>6, <1>7, <1>8, <1>9, LogTimesAccepts, LogTimesReadLogs DEF Logger!Next

-----------------------------------------------------------------------------
(* Dependencies, if the driver submits under a lock                        *)

(* The last line before the i-th, and the last atom, with number n.        *)
LogLastA(q, n, i) == GreatestOf({j \in 1 .. i : q[j].line = "A" /\ q[j].n = n})
LogLatestOf(s, n) == GreatestOf({i \in 1 .. Len(s) : s[i].n = n})

(* The last line about number n is that of atom a.                         *)
LogKnown(q, n, a) ==
  LogLastA(q, n, Len(q)) # 0 /\ q[LogLastA(q, n, Len(q))].ok /\ q[LogLastA(q, n, Len(q))].id = a

(* The lines that stand for the dependencies of the i-th line are those of *)
(* the atoms the kernel waits for.                                         *)
LogLinked(q, s, i) ==
  /\ \A d \in q[i].deps : LogLastA(q, d, i - 1) # 0 /\ q[LogLastA(q, d, i - 1)].ok
  /\ s[q[i].id].waits = {q[LogLastA(q, d, i - 1)].id : d \in q[i].deps}

LogOne(l) == \A t, u \in l.threads : call[t].pc # "idle" /\ call[u].pc # "idle" => t = u

LogDeps(l) ==
  /\ LogOne(l)
  /\ \A n \in held :
       (\A t \in l.threads : call[t].pc # "idle" => \A i \in 1 .. Len(call[t].atoms) : call[t].atoms[i].n # n)
         => LogKnown(log, n, LogLatestOf(atoms, n))
  /\ \A t \in l.threads : call[t].pc # "idle" /\ 1 \in 1 .. Len(call[t].atoms) =>
       \A d \in call[t].atoms[1].deps :
         /\ LogKnown(log, d, LogLatestOf(atoms, d))
         /\ \A i \in 1 .. Len(call[t].atoms) : call[t].atoms[i].n # d
  /\ \A t \in l.threads : LogGiven(call[t]) => \A i \in 1 .. Len(call[t].atoms) :
       /\ LogLatestOf(atoms, call[t].atoms[i].n) = call[t].ids[i]
       /\ atoms[call[t].ids[i]].waits =
            IF i = 1 THEN {LogLatestOf(atoms, d) : d \in call[t].atoms[1].deps} ELSE {call[t].ids[i - 1]}
  /\ \A i \in 1 .. Len(log) : log[i].line = "A" /\ log[i].ok => LogLinked(log, atoms, i)

LEMMA LogLastAIn ==
  ASSUME NEW q, NEW n, NEW i \in Nat
  PROVE  /\ LogLastA(q, n, i) \in 0 .. i
         /\ LogLastA(q, n, i) # 0 => LogLastA(q, n, i) \in 1 .. i /\ q[LogLastA(q, n, i)].line = "A"
                                     /\ q[LogLastA(q, n, i)].n = n
         /\ \A j \in 1 .. i : q[j].line = "A" /\ q[j].n = n => LogLastA(q, n, i) # 0
<1> DEFINE S == {j \in 1 .. i : q[j].line = "A" /\ q[j].n = n}
<1>1. S \subseteq 0 .. i
  OBVIOUS
<1>2. /\ GreatestOf(S) \in 0 .. i /\ (S = {} => GreatestOf(S) = 0)
      /\ S # {} => GreatestOf(S) \in S
  BY <1>1, Greatest
<1>3. \A j \in 1 .. i : j \in S => GreatestOf(S) # 0
  BY <1>2
<1>4. GreatestOf(S) # 0 => GreatestOf(S) \in S
  BY <1>2
<1> QED BY <1>2, <1>3, <1>4 DEF LogLastA

LEMMA LogLastAKeep ==
  ASSUME NEW q, NEW w, NEW n, NEW i \in Nat, NEW k \in Nat, i <= k, \A j \in 1 .. i : w[j] = q[j],
         \A j \in i + 1 .. k : ~ (w[j].line = "A" /\ w[j].n = n)
  PROVE  LogLastA(w, n, k) = LogLastA(q, n, i)
<1>1. {j \in 1 .. k : w[j].line = "A" /\ w[j].n = n} = {j \in 1 .. i : q[j].line = "A" /\ q[j].n = n}
  OBVIOUS
<1> QED BY <1>1 DEF LogLastA

LEMMA LogLastAHits ==
  ASSUME NEW w, NEW n, NEW k \in Nat, NEW i \in 1 .. k, w[i].line = "A", w[i].n = n,
         \A j \in i + 1 .. k : ~ (w[j].line = "A" /\ w[j].n = n)
  PROVE  LogLastA(w, n, k) = i
<1> DEFINE S == {j \in 1 .. k : w[j].line = "A" /\ w[j].n = n}
<1>1. S \subseteq Nat /\ i \in S
  OBVIOUS
<1>2. \A j \in S : j <= i
  OBVIOUS
<1> HIDE DEF S
<1>3. GreatestOf(S) = i
  BY <1>1, <1>2, GreatestIs
<1> QED BY <1>3 DEF LogLastA, S

LEMMA LogKnownKeep ==
  ASSUME Len(log) \in Nat, Len(log') \in Nat, Len(log) <= Len(log'), \A j \in 1 .. Len(log) : log'[j] = log[j],
         NEW n, NEW a, LogKnown(log, n, a),
         \A j \in Len(log) + 1 .. Len(log') : ~ (log'[j].line = "A" /\ log'[j].n = n)
  PROVE  LogKnown(log', n, a)
<1> DEFINE w == log'
           i == Len(log)
           k == Len(w)
<1>1. LogLastA(w, n, k) = LogLastA(log, n, i)
  <2>1. i \in Nat /\ k \in Nat /\ i <= k /\ \A j \in 1 .. i : w[j] = log[j]
    OBVIOUS
  <2>2. \A j \in i + 1 .. k : ~ (w[j].line = "A" /\ w[j].n = n)
    OBVIOUS
  <2> HIDE DEF w, i, k
  <2> QED BY <2>1, <2>2, LogLastAKeep
<1>2. LogLastA(log, n, Len(log)) \in 1 .. Len(log)
  BY LogLastAIn DEF LogKnown
<1> QED BY <1>1, <1>2 DEF LogKnown

LEMMA LogLinkedKeep ==
  ASSUME Len(log) \in Nat, NEW i \in 1 .. Len(log), \A j \in 1 .. Len(log) : log'[j] = log[j],
         atoms'[log[i].id] = atoms[log[i].id], LogLinked(log, atoms, i)
  PROVE  LogLinked(log', atoms', i)
<1>1. i - 1 \in Nat /\ i - 1 <= Len(log) /\ log'[i] = log[i] /\ \A j \in 1 .. i - 1 : log'[j] = log[j]
  OBVIOUS
<1>2. \A d : LogLastA(log', d, i - 1) = LogLastA(log, d, i - 1)
  <2> TAKE d
  <2>1. \A j \in (i - 1) + 1 .. i - 1 : ~ (log'[j].line = "A" /\ log'[j].n = d)
    OBVIOUS
  <2> QED BY <1>1, <2>1, LogLastAKeep
<1>3. \A d \in log[i].deps : LogLastA(log, d, i - 1) # 0 /\ log[LogLastA(log, d, i - 1)].ok
  BY DEF LogLinked
<1>4. \A d \in log[i].deps : log'[LogLastA(log, d, i - 1)] = log[LogLastA(log, d, i - 1)]
  <2> TAKE d \in log[i].deps
  <2>1. LogLastA(log, d, i - 1) \in 1 .. i - 1
    BY <1>1, <1>3, LogLastAIn
  <2> QED BY <1>1, <2>1
<1>5. {log'[LogLastA(log, d, i - 1)].id : d \in log[i].deps} = {log[LogLastA(log, d, i - 1)].id : d \in log[i].deps}
  BY <1>4
<1>6. \A d \in log[i].deps : LogLastA(log', d, i - 1) # 0 /\ log'[LogLastA(log', d, i - 1)].ok
  BY <1>2, <1>3, <1>4
<1>7. {log'[LogLastA(log', d, i - 1)].id : d \in log[i].deps} = {log'[LogLastA(log, d, i - 1)].id : d \in log[i].deps}
  BY <1>2
<1> QED BY <1>1, <1>5, <1>6, <1>7 DEF LogLinked

LEMMA LogDepsKeep ==
  ASSUME NEW l \in Loggers, LogDeps(l), UNCHANGED atoms, held' \subseteq held,
         Len(log) \in Nat, Len(log') \in Nat, Len(log) <= Len(log'), \A j \in 1 .. Len(log) : log'[j] = log[j],
         \A j \in 1 .. Len(log') : log'[j].line = "A" => j \in 1 .. Len(log),
         \A t \in l.threads :
           /\ call'[t].pc = "idle" <=> call[t].pc = "idle"
           /\ call'[t].atoms = call[t].atoms
           /\ LogGiven(call'[t]) => call'[t] = call[t]
  PROVE  LogDeps(l)'
<1>1. \A n, a : LogKnown(log, n, a) => LogKnown(log', n, a)
  <2> SUFFICES ASSUME NEW n, NEW a, LogKnown(log, n, a) PROVE LogKnown(log', n, a)
    OBVIOUS
  <2>1. \A j \in Len(log) + 1 .. Len(log') : ~ (log'[j].line = "A" /\ log'[j].n = n)
    OBVIOUS
  <2> QED BY <2>1, LogKnownKeep
<1>2. LogOne(l)'
  BY DEF LogDeps, LogOne
<1>3. \A n \in held' :
        (\A t \in l.threads : call'[t].pc # "idle" => \A i \in 1 .. Len(call'[t].atoms) : call'[t].atoms[i].n # n)
          => LogKnown(log', n, LogLatestOf(atoms', n))
  BY <1>1 DEF LogDeps
<1>4. \A t \in l.threads : call'[t].pc # "idle" /\ 1 \in 1 .. Len(call'[t].atoms) =>
        \A d \in call'[t].atoms[1].deps :
          /\ LogKnown(log', d, LogLatestOf(atoms', d))
          /\ \A i \in 1 .. Len(call'[t].atoms) : call'[t].atoms[i].n # d
  <2> SUFFICES ASSUME NEW t \in l.threads, call'[t].pc # "idle", 1 \in 1 .. Len(call'[t].atoms),
                      NEW d \in call'[t].atoms[1].deps
               PROVE  /\ LogKnown(log', d, LogLatestOf(atoms', d))
                      /\ \A i \in 1 .. Len(call'[t].atoms) : call'[t].atoms[i].n # d
    OBVIOUS
  <2>1. call'[t].atoms = call[t].atoms /\ call[t].pc # "idle"
    OBVIOUS
  <2>2. LogKnown(log, d, LogLatestOf(atoms, d)) /\ \A i \in 1 .. Len(call[t].atoms) : call[t].atoms[i].n # d
    BY <2>1 DEF LogDeps
  <2>3. LogKnown(log', d, LogLatestOf(atoms, d))
    BY <1>1, <2>2
  <2> QED BY <2>1, <2>2, <2>3
<1>5. ASSUME NEW t \in l.threads, LogGiven(call'[t]), NEW i \in 1 .. Len(call'[t].atoms)
      PROVE  /\ LogLatestOf(atoms', call'[t].atoms[i].n) = call'[t].ids[i]
             /\ atoms'[call'[t].ids[i]].waits =
                  IF i = 1 THEN {LogLatestOf(atoms', d) : d \in call'[t].atoms[1].deps} ELSE {call'[t].ids[i - 1]}
  <2>1. call'[t] = call[t]
    BY <1>5
  <2>2. LogGiven(call[t]) /\ i \in 1 .. Len(call[t].atoms)
    BY <1>5, <2>1
  <2>3. /\ LogLatestOf(atoms, call[t].atoms[i].n) = call[t].ids[i]
        /\ atoms[call[t].ids[i]].waits =
             IF i = 1 THEN {LogLatestOf(atoms, d) : d \in call[t].atoms[1].deps} ELSE {call[t].ids[i - 1]}
    BY <2>2 DEF LogDeps
  <2> QED BY <2>1, <2>3
<1>6. ASSUME NEW i \in 1 .. Len(log'), log'[i].line = "A", log'[i].ok PROVE LogLinked(log', atoms', i)
  <2>1. i \in 1 .. Len(log) /\ log'[i] = log[i]
    BY <1>6
  <2>2. LogLinked(log, atoms, i)
    BY <1>6, <2>1 DEF LogDeps
  <2>3. atoms'[log[i].id] = atoms[log[i].id]
    OBVIOUS
  <2> QED BY <2>1, <2>2, <2>3, LogLinkedKeep
<1>7. \A t \in l.threads : LogGiven(call'[t]) => \A i \in 1 .. Len(call'[t].atoms) :
        /\ LogLatestOf(atoms', call'[t].atoms[i].n) = call'[t].ids[i]
        /\ atoms'[call'[t].ids[i]].waits =
             IF i = 1 THEN {LogLatestOf(atoms', d) : d \in call'[t].atoms[1].deps} ELSE {call'[t].ids[i - 1]}
  BY <1>5
<1>8. \A i \in 1 .. Len(log') : log'[i].line = "A" /\ log'[i].ok => LogLinked(log', atoms', i)
  BY <1>6
<1> QED BY <1>2, <1>3, <1>4, <1>7, <1>8 DEF LogDeps

LEMMA LogDepsEnters ==
  ASSUME NEW l \in Loggers, l.serialised, LogTypes(l), LogDeps(l), NEW t \in l.threads, Logger(l)!Enters(t)
  PROVE  LogDeps(l)'
<1> DEFINE c == call'[t]
<1>1. /\ \A u \in l.threads : call[u] = LogIdle
      /\ c.pc = "called" /\ \A u \in l.threads : u # t => call'[u] = call[u]
      /\ UNCHANGED <<atoms, log>>
  BY LogEntersDoes
<1>2. /\ \A i \in 1 .. Len(c.atoms) : c.atoms[i].n \notin held
      /\ held' = held \cup {c.atoms[i].n : i \in 1 .. Len(c.atoms)}
  BY LogEntersDoes
<1>3. 1 \in 1 .. Len(c.atoms) => \A d \in c.atoms[1].deps : d \in held
  BY LogEntersDoes
<1> HIDE DEF c
<1>4. \A u \in l.threads : call[u].pc = "idle"
  BY <1>1 DEF LogIdle
<1>5. \A u \in l.threads : call'[u].pc # "idle" => u = t
  BY <1>1, <1>4
<1>6. \A n \in held : LogKnown(log, n, LogLatestOf(atoms, n))
  BY <1>4 DEF LogDeps
<1>7. LogOne(l)'
  BY <1>5 DEF LogOne
<1>8. ASSUME NEW n \in held',
             \A u \in l.threads : call'[u].pc # "idle" => \A i \in 1 .. Len(call'[u].atoms) : call'[u].atoms[i].n # n
      PROVE  LogKnown(log', n, LogLatestOf(atoms', n))
  <2>1. \A i \in 1 .. Len(c.atoms) : c.atoms[i].n # n
    BY <1>1, <1>8 DEF c
  <2>2. n \in held
    BY <1>2, <2>1
  <2> QED BY <1>1, <1>6, <2>2
<1>9. ASSUME NEW u \in l.threads, call'[u].pc # "idle", 1 \in 1 .. Len(call'[u].atoms), NEW d \in call'[u].atoms[1].deps
      PROVE  LogKnown(log', d, LogLatestOf(atoms', d)) /\ \A i \in 1 .. Len(call'[u].atoms) : call'[u].atoms[i].n # d
  <2>1. u = t
    BY <1>5, <1>9
  <2>2. d \in held
    BY <1>3, <1>9, <2>1 DEF c
  <2>3. \A i \in 1 .. Len(c.atoms) : c.atoms[i].n # d
    BY <1>2, <2>2
  <2> QED BY <1>1, <1>6, <2>1, <2>2, <2>3 DEF c
<1>10. \A u \in l.threads : ~ LogGiven(call'[u])
  BY <1>1, <1>5 DEF LogGiven, c
<1>11. \A i \in 1 .. Len(log') : log'[i].line = "A" /\ log'[i].ok => LogLinked(log', atoms', i)
  BY <1>1 DEF LogDeps
<1> QED BY <1>7, <1>8, <1>9, <1>10, <1>11 DEF LogDeps

(* The latest atom with a number, when more come.                          *)
LEMMA LogLatestKeep ==
  ASSUME NEW s, NEW w, NEW n, Len(s) \in Nat, Len(w) \in Nat, Len(s) <= Len(w),
         \A a \in 1 .. Len(s) : w[a] = s[a], \A a \in Len(s) + 1 .. Len(w) : w[a].n # n
  PROVE  LogLatestOf(w, n) = LogLatestOf(s, n)
<1>1. {i \in 1 .. Len(w) : w[i].n = n} = {i \in 1 .. Len(s) : s[i].n = n}
  OBVIOUS
<1> QED BY <1>1 DEF LogLatestOf

LEMMA LogLatestHits ==
  ASSUME NEW w, NEW n, Len(w) \in Nat, NEW i \in 1 .. Len(w), w[i].n = n,
         \A a \in i + 1 .. Len(w) : w[a].n # n
  PROVE  LogLatestOf(w, n) = i
<1> DEFINE S == {a \in 1 .. Len(w) : w[a].n = n}
<1>1. S \subseteq Nat /\ i \in S
  OBVIOUS
<1>2. \A j \in S : j <= i
  OBVIOUS
<1> HIDE DEF S
<1>3. GreatestOf(S) = i
  BY <1>1, <1>2, GreatestIs
<1> QED BY <1>3 DEF LogLatestOf, S

LEMMA LogDepsAccepts ==
  ASSUME NEW l \in Loggers, l.serialised, LogTypes(l), LogNumbers(l), LogOwn(l), LogDeps(l),
         NEW t \in l.threads, Logger(l)!Accepts(t)
  PROVE  LogDeps(l)'
<1> DEFINE as == call[t].atoms
           first == Len(atoms)
           m == Len(as)
           new == atoms'
           c == call'[t]
<1>1. /\ call[t].pc = "timed" /\ c.pc = "accepted" /\ c.atoms = as
      /\ \A u \in l.threads : u # t => call'[u] = call[u]
      /\ first \in Nat /\ m \in Nat /\ Len(new) = first + m
      /\ \A a \in 1 .. first : new[a] = atoms[a]
      /\ UNCHANGED <<held, log>>
  BY LogAcceptsDoes
<1>2. \A i \in 1 .. m : new[first + i].n = as[i].n
  BY LogAcceptsDoes
<1>3. \A i \in 1 .. m : c.ids[i] = first + i
  BY LogAcceptsDoes
<1>4. \A i \in 1 .. m : new[first + i].waits = IF i = 1 THEN {Logger(l)!Latest(d) : d \in as[i].deps} ELSE {first + i - 1}
  BY LogAcceptsDoes
<1>5. \A a \in 1 .. Len(new) : a \in 1 .. first \/ \E i \in 1 .. m : a = first + i
  BY LogAcceptsDoes
<1>6. \A d : Logger(l)!Latest(d) = LogLatestOf(atoms, d)
  <2>1. atoms \in Seq(LogKernel(l))
    BY DEF LogTypes
  <2> QED BY <2>1, LogLatest DEF LogLatestOf
<1>7. \A i, j \in 1 .. m : i # j => as[i].n # as[j].n
  BY <1>1 DEF LogNumbers
<1>8. /\ \A n \in held :
           (\A u \in l.threads : call[u].pc # "idle" => \A i \in 1 .. Len(call[u].atoms) : call[u].atoms[i].n # n)
             => LogKnown(log, n, LogLatestOf(atoms, n))
      /\ 1 \in 1 .. m => \A d \in as[1].deps :
           LogKnown(log, d, LogLatestOf(atoms, d)) /\ \A i \in 1 .. m : as[i].n # d
  BY <1>1 DEF LogDeps
<1>9. \A u \in l.threads : u # t => call[u].pc = "idle" /\ call'[u].pc = "idle"
  BY <1>1 DEF LogDeps, LogOne
<1>10. \A i \in 1 .. Len(log) : log[i].line = "A" /\ log[i].ok =>
         LogLinked(log, atoms, i) /\ log[i].id \in 1 .. first
  BY DEF LogDeps, LogOwn
<1>11. Len(log) \in Nat
  BY DEF LogTypes
<1> HIDE DEF as, first, m, new, c
<1>12. \A n : (\A i \in 1 .. m : as[i].n # n) => LogLatestOf(new, n) = LogLatestOf(atoms, n)
  <2> SUFFICES ASSUME NEW n, \A i \in 1 .. m : as[i].n # n PROVE LogLatestOf(new, n) = LogLatestOf(atoms, n)
    OBVIOUS
  <2>1. \A a \in first + 1 .. Len(new) : new[a].n # n
    <3> TAKE a \in first + 1 .. Len(new)
    <3>1. a \in 1 .. Len(new) /\ a \notin 1 .. first
      BY <1>1
    <3>2. PICK i \in 1 .. m : a = first + i
      BY <1>5, <3>1
    <3> QED BY <1>2, <3>2
  <2>2. Len(atoms) \in Nat /\ Len(new) \in Nat /\ Len(atoms) <= Len(new) /\ \A a \in 1 .. Len(atoms) : new[a] = atoms[a]
    BY <1>1 DEF first
  <2> QED BY <2>1, <2>2, LogLatestKeep DEF first
<1>13. \A i \in 1 .. m : LogLatestOf(new, as[i].n) = first + i
  <2> TAKE i \in 1 .. m
  <2>1. first + i \in 1 .. Len(new) /\ Len(new) \in Nat
    BY <1>1
  <2>0. new[first + i].n = as[i].n
    BY <1>2
  <2>2. \A a \in (first + i) + 1 .. Len(new) : new[a].n # as[i].n
    <3> TAKE a \in (first + i) + 1 .. Len(new)
    <3>1. a \in 1 .. Len(new) /\ a \notin 1 .. first
      BY <1>1
    <3>2. PICK j \in 1 .. m : a = first + j
      BY <1>5, <3>1
    <3>3. i # j
      BY <1>1, <3>2
    <3> QED BY <1>2, <1>7, <3>2, <3>3
  <2> QED BY <2>0, <2>1, <2>2, LogLatestHits
<1>14. LogOne(l)'
  BY <1>9 DEF LogOne
<1>15. ASSUME NEW n \in held,
              \A u \in l.threads : call'[u].pc # "idle" => \A i \in 1 .. Len(call'[u].atoms) : call'[u].atoms[i].n # n
       PROVE  LogKnown(log, n, LogLatestOf(new, n))
  <2>1. \A i \in 1 .. m : as[i].n # n
    BY <1>1, <1>15 DEF c, m
  <2>2. \A u \in l.threads : call[u].pc # "idle" => \A i \in 1 .. Len(call[u].atoms) : call[u].atoms[i].n # n
    BY <1>9, <2>1 DEF as, m
  <2>3. LogKnown(log, n, LogLatestOf(atoms, n))
    BY <1>8, <2>2
  <2> QED BY <1>12, <2>1, <2>3
<1>16. 1 \in 1 .. m => \A d \in as[1].deps :
         LogKnown(log, d, LogLatestOf(new, d)) /\ \A i \in 1 .. m : as[i].n # d
  BY <1>8, <1>12
<1>17. \A u \in l.threads : call'[u].pc # "idle" => u = t
  BY <1>9
<1>18. \A u \in l.threads : call'[u].pc # "idle" /\ 1 \in 1 .. Len(call'[u].atoms) =>
         \A d \in call'[u].atoms[1].deps :
           LogKnown(log, d, LogLatestOf(new, d)) /\ \A i \in 1 .. Len(call'[u].atoms) : call'[u].atoms[i].n # d
  BY <1>1, <1>16, <1>17 DEF c, m
<1>19. \A i \in 1 .. m : new[c.ids[i]].waits =
         IF i = 1 THEN {LogLatestOf(new, d) : d \in as[1].deps} ELSE {c.ids[i - 1]}
  <2> TAKE i \in 1 .. m
  <2>1. new[c.ids[i]].waits = IF i = 1 THEN {Logger(l)!Latest(d) : d \in as[i].deps} ELSE {first + i - 1}
    BY <1>3, <1>4
  <2>2. CASE i = 1
    <3>1. \A d \in as[1].deps : Logger(l)!Latest(d) = LogLatestOf(new, d)
      BY <1>6, <1>8, <1>12, <2>2
    <3>2. {Logger(l)!Latest(d) : d \in as[1].deps} = {LogLatestOf(new, d) : d \in as[1].deps}
      BY <3>1
    <3> QED BY <2>1, <2>2, <3>2
  <2>3. CASE i # 1
    <3>1. i - 1 \in 1 .. m /\ first + (i - 1) = first + i - 1
      BY <1>1, <2>3
    <3> QED BY <1>3, <2>1, <2>3, <3>1
  <2> QED BY <2>2, <2>3
<1>20. ASSUME NEW u \in l.threads, LogGiven(call'[u]), NEW i \in 1 .. Len(call'[u].atoms)
       PROVE  /\ LogLatestOf(new, call'[u].atoms[i].n) = call'[u].ids[i]
              /\ new[call'[u].ids[i]].waits =
                   IF i = 1 THEN {LogLatestOf(new, d) : d \in call'[u].atoms[1].deps} ELSE {call'[u].ids[i - 1]}
  <2>1. u = t
    BY <1>17, <1>20 DEF LogGiven
  <2>2. i \in 1 .. m /\ call'[u] = c /\ c.atoms = as
    BY <1>1, <1>20, <2>1 DEF c, m
  <2>3. LogLatestOf(new, as[i].n) = c.ids[i]
    BY <1>3, <1>13, <2>2
  <2>4. new[c.ids[i]].waits = IF i = 1 THEN {LogLatestOf(new, d) : d \in as[1].deps} ELSE {c.ids[i - 1]}
    BY <1>19, <2>2
  <2> QED BY <2>2, <2>3, <2>4
<1>21. ASSUME NEW i \in 1 .. Len(log), log[i].line = "A", log[i].ok PROVE LogLinked(log', new, i)
  <2>1. LogLinked(log, atoms, i) /\ new[log[i].id] = atoms[log[i].id]
    BY <1>1, <1>10, <1>21
  <2> QED BY <1>1, <1>11, <2>1, LogLinkedKeep DEF new
<1>22. LogGiven(c) <=> LogGiven(call'[t])
  BY DEF c
<1>23. \A u \in l.threads : LogGiven(call'[u]) => \A i \in 1 .. Len(call'[u].atoms) :
         /\ LogLatestOf(new, call'[u].atoms[i].n) = call'[u].ids[i]
         /\ new[call'[u].ids[i]].waits =
              IF i = 1 THEN {LogLatestOf(new, d) : d \in call'[u].atoms[1].deps} ELSE {call'[u].ids[i - 1]}
  BY <1>20
<1>24. \A i \in 1 .. Len(log') : log'[i].line = "A" /\ log'[i].ok => LogLinked(log', new, i)
  BY <1>1, <1>21
<1>25. /\ \A n \in held' :
            (\A u \in l.threads : call'[u].pc # "idle" => \A i \in 1 .. Len(call'[u].atoms) : call'[u].atoms[i].n # n)
              => LogKnown(log', n, LogLatestOf(new, n))
       /\ \A u \in l.threads : call'[u].pc # "idle" /\ 1 \in 1 .. Len(call'[u].atoms) =>
            \A d \in call'[u].atoms[1].deps :
              LogKnown(log', d, LogLatestOf(new, d)) /\ \A i \in 1 .. Len(call'[u].atoms) : call'[u].atoms[i].n # d
  BY <1>1, <1>15, <1>18
<1> QED BY <1>14, <1>23, <1>24, <1>25 DEF LogDeps, new

LEMMA LogDepsLogs ==
  ASSUME NEW l \in Loggers, l.serialised, LogTypes(l), LogNumbers(l), LogOwn(l), LogDeps(l),
         NEW t \in l.threads, Logger(l)!Logs(t)
  PROVE  LogDeps(l)'
<1> DEFINE c == call[t]
           as == c.atoms
           m == Len(as)
           size == Len(log)
           new == log'
<1>1. /\ c.pc = "accepted" /\ call'[t] = LogIdle
      /\ \A u \in l.threads : u # t => call'[u] = call[u]
      /\ held' = IF c.ok THEN held ELSE held \ {as[i].n : i \in 1 .. m}
      /\ size \in Nat /\ m \in Nat /\ Len(new) = size + m
      /\ \A i \in 1 .. size : new[i] = log[i]
      /\ UNCHANGED atoms
  BY LogLogsDoes
<1>2. \A i \in 1 .. m : new[size + i].line = "A" /\ new[size + i].n = as[i].n
  BY LogLogsDoes
<1>3. \A i \in 1 .. m : new[size + i].deps = as[i].deps /\ new[size + i].ok = c.ok /\ new[size + i].id = c.ids[i]
  BY LogLogsDoes
<1>4. \A j \in 1 .. Len(new) : j \in 1 .. size \/ \E i \in 1 .. m : j = size + i
  BY LogLogsDoes
<1>5. \A u \in l.threads : u # t => call[u].pc = "idle"
  BY <1>1 DEF LogDeps, LogOne
<1>6. \A u \in l.threads : call'[u].pc = "idle"
  BY <1>1, <1>5 DEF LogIdle
<1>7. \A i, j \in 1 .. m : i # j => as[i].n # as[j].n
  BY <1>1 DEF LogNumbers
<1>8. \A n \in held :
        (\A u \in l.threads : call[u].pc # "idle" => \A i \in 1 .. Len(call[u].atoms) : call[u].atoms[i].n # n)
          => LogKnown(log, n, LogLatestOf(atoms, n))
  BY DEF LogDeps
<1>9. 1 \in 1 .. m => \A d \in as[1].deps :
        LogKnown(log, d, LogLatestOf(atoms, d)) /\ \A i \in 1 .. m : as[i].n # d
  BY <1>1 DEF LogDeps
<1>10. c.ok => LogGiven(call[t])
  BY <1>1 DEF LogGiven
<1>11. ASSUME c.ok, NEW i \in 1 .. m
       PROVE  /\ LogLatestOf(atoms, as[i].n) = c.ids[i]
              /\ atoms[c.ids[i]].waits =
                   IF i = 1 THEN {LogLatestOf(atoms, d) : d \in as[1].deps} ELSE {c.ids[i - 1]}
  BY <1>10, <1>11, ZenonT(120) DEF LogDeps
<1>12. \A i \in 1 .. size : log[i].line = "A" /\ log[i].ok => LogLinked(log, atoms, i)
  BY DEF LogDeps
<1>13. \A i \in 1 .. m : i # 1 => as[i].deps = {as[i - 1].n}
  <2>1. \A i \in 2 .. m : as[i].deps = {as[i - 1].n}
    BY <1>1 DEF LogTypes
  <2>2. \A i \in 1 .. m : i # 1 => i \in 2 .. m
    BY <1>1
  <2> QED BY <2>1, <2>2
<1>14. \A u \in l.threads : call[u].pc # "idle" => u = t
  BY <1>5
<1>15. \A n : (\A i \in 1 .. m : as[i].n # n) =>
         \A u \in l.threads : call[u].pc # "idle" => \A i \in 1 .. Len(call[u].atoms) : call[u].atoms[i].n # n
  BY <1>14
<1> HIDE DEF c, as, m, size, new
<1>16. \A j \in size + 1 .. Len(new) : \E i \in 1 .. m : j = size + i
  <2> TAKE j \in size + 1 .. Len(new)
  <2>1. j \in 1 .. Len(new) /\ j \notin 1 .. size
    BY <1>1
  <2> QED BY <1>4, <2>1
<1>17. \A n, a : LogKnown(log, n, a) /\ (\A i \in 1 .. m : as[i].n # n) => LogKnown(new, n, a)
  <2> SUFFICES ASSUME NEW n, NEW a, LogKnown(log, n, a), \A i \in 1 .. m : as[i].n # n PROVE LogKnown(new, n, a)
    OBVIOUS
  <2>1. \A j \in size + 1 .. Len(new) : ~ (new[j].line = "A" /\ new[j].n = n)
    <3> TAKE j \in size + 1 .. Len(new)
    <3>1. PICK i \in 1 .. m : j = size + i
      BY <1>16
    <3> QED BY <1>2, <3>1
  <2>2. /\ Len(log) \in Nat /\ Len(new) \in Nat /\ Len(log) <= Len(new) /\ \A j \in 1 .. Len(log) : new[j] = log[j]
        /\ \A j \in Len(log) + 1 .. Len(new) : ~ (new[j].line = "A" /\ new[j].n = n)
    BY <1>1, <2>1 DEF size
  <2> QED BY <2>2, LogKnownKeep DEF new
<1>18. ASSUME NEW i \in 1 .. m, NEW k \in i .. m PROVE LogLastA(new, as[i].n, size + k) = size + i
  <2>1. size + k \in Nat /\ size + i \in 1 .. size + k
    BY <1>1
  <2>2. \A j \in (size + i) + 1 .. size + k : ~ (new[j].line = "A" /\ new[j].n = as[i].n)
    <3> TAKE j \in (size + i) + 1 .. size + k
    <3>1. j \in size + 1 .. Len(new)
      BY <1>1
    <3>2. PICK e \in 1 .. m : j = size + e
      BY <1>16, <3>1
    <3>3. e # i
      BY <1>1, <3>2
    <3> QED BY <1>2, <1>7, <3>2, <3>3
  <2>3. new[size + i].line = "A" /\ new[size + i].n = as[i].n
    BY <1>2
  <2> DEFINE p == size + i
             q == size + k
             n == as[i].n
  <2>4. q \in Nat /\ p \in 1 .. q /\ new[p].line = "A" /\ new[p].n = n
    BY <2>1, <2>3
  <2>5. \A j \in p + 1 .. q : ~ (new[j].line = "A" /\ new[j].n = n)
    BY <2>2
  <2> HIDE DEF p, q, n
  <2>6. LogLastA(new, n, q) = p
    BY <2>4, <2>5, LogLastAHits
  <2> QED BY <2>6 DEF p, q, n
<1>19. ASSUME NEW n \in held' PROVE LogKnown(new, n, LogLatestOf(atoms, n))
  <2>1. CASE \A i \in 1 .. m : as[i].n # n
    <3>1. n \in held
      BY <1>1, <1>19
    <3> QED BY <1>8, <1>15, <1>17, <2>1, <3>1
  <2>2. ASSUME NEW i \in 1 .. m, as[i].n = n PROVE LogKnown(new, n, LogLatestOf(atoms, n))
    <3>1. c.ok
      BY <1>1, <1>19, <2>2
    <3>2. LogLastA(new, n, Len(new)) = size + i
      <4>1. m \in i .. m
        BY <1>1
      <4> QED BY <1>1, <1>18, <2>2, <4>1
    <3>3. size + i # 0
      BY <1>1
    <3>5. new[size + i].ok /\ new[size + i].id = c.ids[i]
      BY <1>3, <3>1
    <3>4. LogLatestOf(atoms, n) = c.ids[i]
      BY <1>11, <2>2, <3>1
    <3> QED BY <3>2, <3>3, <3>4, <3>5 DEF LogKnown
  <2> QED BY <2>1, <2>2
<1>20. ASSUME NEW j \in 1 .. Len(new), new[j].line = "A", new[j].ok PROVE LogLinked(new, atoms, j)
  <2>1. CASE j \in 1 .. size
    <3>1. LogLinked(log, atoms, j)
      BY <1>1, <1>12, <1>20, <2>1
    <3>2. /\ Len(log) \in Nat /\ j \in 1 .. Len(log) /\ \A k \in 1 .. Len(log) : new[k] = log[k]
          /\ atoms'[log[j].id] = atoms[log[j].id]
      BY <1>1, <2>1 DEF size
    <3>3. LogLinked(new, atoms', j)
      BY <3>1, <3>2, LogLinkedKeep DEF new
    <3> QED BY <1>1, <3>3
  <2>2. ASSUME NEW i \in 1 .. m, j = size + i PROVE LogLinked(new, atoms, j)
    <3>1. c.ok /\ new[j].deps = as[i].deps /\ new[j].id = c.ids[i]
      BY <1>3, <1>20, <2>2
    <3>2. /\ atoms[c.ids[i]].waits = IF i = 1 THEN {LogLatestOf(atoms, d) : d \in as[1].deps} ELSE {c.ids[i - 1]}
      BY <1>11, <3>1
    <3>3. CASE i = 1
      <4>1. j - 1 = size /\ 1 \in 1 .. m
        BY <1>1, <2>2, <3>3
      <4>2. ASSUME NEW d \in as[1].deps
            PROVE  /\ LogLastA(new, d, size) # 0 /\ new[LogLastA(new, d, size)].ok
                   /\ new[LogLastA(new, d, size)].id = LogLatestOf(atoms, d)
        <5>1. LogKnown(log, d, LogLatestOf(atoms, d))
          BY <1>9, <4>1, <4>2
        <5>2. \A k \in size + 1 .. size : ~ (new[k].line = "A" /\ new[k].n = d)
          BY <1>1
        <5>3. LogLastA(new, d, size) = LogLastA(log, d, size)
          BY <1>1, <5>2, LogLastAKeep
        <5>4. LogLastA(log, d, size) \in 1 .. size
          BY <1>1, <5>1, LogLastAIn DEF LogKnown, size
        <5> QED BY <1>1, <5>1, <5>3, <5>4 DEF LogKnown, size
      <4>3. {new[LogLastA(new, d, size)].id : d \in as[1].deps} = {LogLatestOf(atoms, d) : d \in as[1].deps}
        BY <4>2
      <4>4. atoms[new[j].id].waits = {new[LogLastA(new, d, j - 1)].id : d \in new[j].deps}
        BY <3>1, <3>2, <3>3, <4>1, <4>3
      <4>5. \A d \in new[j].deps : LogLastA(new, d, j - 1) # 0 /\ new[LogLastA(new, d, j - 1)].ok
        BY <3>1, <3>3, <4>1, <4>2
      <4> QED BY <4>4, <4>5 DEF LogLinked
    <3>4. CASE i # 1
      <4> DEFINE p == i - 1
      <4>1. p \in 1 .. m /\ p \in p .. m /\ j - 1 = size + p /\ size + p # 0
        BY <1>1, <2>2, <3>4
      <4>2. new[j].deps = {as[p].n} /\ atoms[new[j].id].waits = {c.ids[p]}
        BY <1>13, <3>1, <3>2, <3>4
      <4> HIDE DEF p
      <4>3. LogLastA(new, as[p].n, j - 1) = size + p
        BY <1>18, <4>1
      <4>4. new[size + p].ok /\ new[size + p].id = c.ids[p]
        BY <1>3, <3>1, <4>1
      <4> QED BY <4>1, <4>2, <4>3, <4>4 DEF LogLinked
    <3> QED BY <3>3, <3>4
  <2> QED BY <1>4, <2>1, <2>2
<1>21. LogOne(l)' /\ \A u \in l.threads : ~ LogGiven(call'[u])
  BY <1>6 DEF LogOne, LogGiven
<1>22. /\ \A n \in held' : LogKnown(log', n, LogLatestOf(atoms', n))
       /\ \A i \in 1 .. Len(log') : log'[i].line = "A" /\ log'[i].ok => LogLinked(log', atoms', i)
  BY <1>1, <1>19, <1>20 DEF new
<1> QED BY <1>6, <1>21, <1>22 DEF LogDeps

LEMMA LogDepsStep ==
  ASSUME NEW l \in Loggers, l.serialised, LogTypes(l), LogNumbers(l), LogOwn(l), LogDeps(l), Logger(l)!Next
  PROVE  LogDeps(l)'
<1>0. Len(log) \in Nat
  BY DEF LogTypes
<1>1. ASSUME UNCHANGED <<atoms, log, held>>,
             \A t \in l.threads :
               /\ call'[t].pc = "idle" <=> call[t].pc = "idle"
               /\ call'[t].atoms = call[t].atoms
               /\ LogGiven(call'[t]) => call'[t] = call[t]
      PROVE  LogDeps(l)'
  <2>1. Len(log') = Len(log) /\ (\A j \in 1 .. Len(log) : log'[j] = log[j]) /\ held' \subseteq held
    BY <1>1
  <2>2. \A j \in 1 .. Len(log') : log'[j].line = "A" => j \in 1 .. Len(log)
    BY <1>1
  <2> QED BY <1>0, <1>1, <2>1, <2>2, LogDepsKeep
<1>2. ASSUME NEW t \in l.threads, Logger(l)!Stamps(t) PROVE LogDeps(l)'
  <2>1. /\ call[t].pc = "called" /\ call'[t].pc = "timed" /\ call'[t].atoms = call[t].atoms
        /\ (\A u \in l.threads : u # t => call'[u] = call[u]) /\ UNCHANGED <<atoms, log, held>>
    BY <1>2, LogStampsDoes
  <2> QED BY <1>1, <2>1 DEF LogGiven
<1>3. ASSUME NEW t \in l.threads, Logger(l)!Refuses(t) PROVE LogDeps(l)'
  <2>1. /\ call[t].pc = "timed" /\ call'[t].pc = "accepted" /\ ~ call'[t].ok /\ call'[t].atoms = call[t].atoms
        /\ (\A u \in l.threads : u # t => call'[u] = call[u]) /\ UNCHANGED <<atoms, log, held>>
    BY <1>3, LogRefusesDoes
  <2> QED BY <1>1, <2>1 DEF LogGiven
<1>4. ASSUME UNCHANGED <<atoms, log, held, call>> PROVE LogDeps(l)'
  BY <1>1, <1>4
<1>5. ASSUME NEW a \in DOMAIN atoms, Logger(l)!Ends(a) PROVE UNCHANGED <<atoms, log, held, call>>
  BY <1>5 DEF Logger!Ends
<1>6. ASSUME Logger(l)!Reads \/ Logger(l)!ReadStamps PROVE UNCHANGED <<atoms, log, held, call>>
  BY <1>6 DEF Logger!Reads, Logger!ReadStamps
<1>7. ASSUME Logger(l)!ReadLogs PROVE LogDeps(l)'
  <2>1. /\ UNCHANGED <<atoms, call>> /\ held' \subseteq held /\ Len(reader.batch) \in Nat
        /\ Len(log') = Len(log) + Len(reader.batch) /\ \A i \in 1 .. Len(log) : log'[i] = log[i]
    BY <1>7, LogReadLogsDoes
  <2>2. \A i \in 1 .. Len(reader.batch) : log'[Len(log) + i].line = "E"
    BY <1>7, LogReadLogsDoes
  <2>3. \A j \in 1 .. Len(log') : j \in 1 .. Len(log) \/ \E i \in 1 .. Len(reader.batch) : j = Len(log) + i
    BY <1>7, LogReadLogsDoes
  <2>4. \A j \in 1 .. Len(log') : log'[j].line = "A" => j \in 1 .. Len(log)
    BY <2>2, <2>3
  <2>5. Len(log') \in Nat /\ Len(log) <= Len(log')
    BY <1>0, <2>1
  <2>6. \A t \in l.threads :
          /\ call'[t].pc = "idle" <=> call[t].pc = "idle"
          /\ call'[t].atoms = call[t].atoms
          /\ LogGiven(call'[t]) => call'[t] = call[t]
    BY <2>1
  <2> QED BY <1>0, <2>1, <2>4, <2>5, <2>6, LogDepsKeep
<1> QED BY <1>2, <1>3, <1>4, <1>5, <1>6, <1>7, LogDepsEnters, LogDepsAccepts, LogDepsLogs DEF Logger!Next

-----------------------------------------------------------------------------
(* All of it                                                               *)

LogInv(l) ==
  /\ LogTypes(l) /\ LogChain /\ LogEvents /\ LogNumbers(l) /\ LogOwn(l)
  /\ LogBefore(l) /\ LogAfter(l) /\ LogTimes(l)
  /\ l.serialised => LogDeps(l)

LEMMA LogInit ==
  ASSUME NEW l \in Loggers, Logger(l)!Init
  PROVE  LogInv(l)
<1>1. /\ clock = 0 /\ held = {} /\ call = [t \in l.threads |-> LogIdle]
      /\ atoms = <<>> /\ ended = {} /\ events = <<>> /\ reader = [batch |-> <<>>, at |-> 0] /\ log = <<>> /\ subs = 0
  BY DEF Logger!Init, Logger!Idle, Logger!NoRead, LogIdle
<1>2. l.subs \in Nat
  BY LoggersAssumption
<1>3. /\ \A t \in l.threads : call[t].pc = "idle"
      /\ Len(atoms) = 0 /\ Len(events) = 0 /\ Len(reader.batch) = 0 /\ reader.at = 0 /\ Len(log) = 0
  BY <1>1 DEF LogIdle
<1>4. LogTypes(l)
  BY <1>1, <1>2, <1>3 DEF LogTypes
<1>5. LogChain /\ LogEvents /\ LogSet(events) = {}
  BY <1>1, <1>3 DEF LogChain, LogEvents, LogSet
<1>6. \A t \in l.threads : ~ LogTaken(call[t]) /\ ~ LogGiven(call[t])
  BY <1>3 DEF LogTaken, LogGiven
<1>7. LogNumbers(l) /\ LogOwn(l) /\ LogBefore(l) /\ LogAfter(l)
  BY <1>3, <1>6 DEF LogNumbers, LogOwn, LogBefore, LogAfter
<1>8. LogTold(log) = {}
  BY <1>3 DEF LogTold
<1>9. LogTimes(l)
  BY <1>3, <1>8 DEF LogTimes
<1>10. LogDeps(l)
  BY <1>1, <1>3, <1>6 DEF LogDeps, LogOne
<1> QED BY <1>4, <1>5, <1>7, <1>9, <1>10 DEF LogInv

LEMMA LogStep ==
  ASSUME NEW l \in Loggers, LogInv(l), Logger(l)!Next
  PROVE  LogInv(l)'
<1>1. /\ LogTypes(l) /\ LogChain /\ LogEvents /\ LogNumbers(l) /\ LogOwn(l)
      /\ LogBefore(l) /\ LogAfter(l) /\ LogTimes(l)
      /\ l.serialised => LogDeps(l)
  BY DEF LogInv
<1>2. LogTypes(l)' /\ LogChain' /\ LogEvents'
  BY <1>1, LogTypesStep, LogChainStep, LogEventsStep
<1>3. LogNumbers(l)' /\ LogOwn(l)'
  BY <1>1, LogNumbersStep, LogOwnStep
<1>4. LogBefore(l)' /\ LogAfter(l)' /\ LogTimes(l)'
  BY <1>1, LogBeforeStep, LogAfterStep, LogTimesStep
<1>5. l.serialised => LogDeps(l)'
  BY <1>1, LogDepsStep
<1> QED BY <1>2, <1>3, <1>4, <1>5 DEF LogInv

LEMMA LogSame ==
  ASSUME NEW l \in Loggers, LogInv(l), UNCHANGED logger
  PROVE  LogInv(l)'
<1>1. UNCHANGED <<clock, held, call, atoms, ended, events, reader, log, subs>>
  BY DEF logger
<1>2. LogTypes(l)' /\ LogChain' /\ LogEvents'
  BY <1>1 DEF LogInv, LogTypes, LogChain, LogEvents
<1>3. LogNumbers(l)' /\ LogOwn(l)'
  BY <1>1 DEF LogInv, LogNumbers, LogOwn
<1>4. LogBefore(l)' /\ LogAfter(l)' /\ LogTimes(l)'
  BY <1>1 DEF LogInv, LogBefore, LogAfter, LogTimes
<1>5. l.serialised => LogDeps(l)'
  <2>1. Len(log) \in Nat
    BY DEF LogInv, LogTypes
  <2>2. held' \subseteq held /\ Len(log') = Len(log) /\ \A j \in 1 .. Len(log) : log'[j] = log[j]
    BY <1>1
  <2>3. \A j \in 1 .. Len(log') : log'[j].line = "A" => j \in 1 .. Len(log)
    BY <1>1
  <2>4. \A t \in l.threads :
          /\ call'[t].pc = "idle" <=> call[t].pc = "idle"
          /\ call'[t].atoms = call[t].atoms
          /\ LogGiven(call'[t]) => call'[t] = call[t]
    BY <1>1
  <2> QED BY <1>1, <2>1, <2>2, <2>3, <2>4, LogDepsKeep DEF LogInv
<1> QED BY <1>2, <1>3, <1>4, <1>5 DEF LogInv

-----------------------------------------------------------------------------
(* What it says of the scripts                                             *)

LEMMA LogLineIs ==
  ASSUME NEW l \in Loggers, LogTypes(l), NEW i \in 1 .. Len(log)
  PROVE  /\ log[i].at \in 1 .. clock
         /\ log[i].line = "A" => log[i].k \in LogKinds
<1>1. log[i].at \in 1 .. clock /\ log[i] \in LogLines(l)
  BY DEF LogTypes
<1>2. log[i] \in LogEventLine(l) => log[i].line = "E"
  BY DEF LogEventLine
<1>3. log[i] \in LogAtomLine(l) => log[i].k \in LogKinds
  BY DEF LogAtomLine
<1> QED BY <1>1, <1>2, <1>3 DEF LogLines

LEMMA LogCompletion ==
  ASSUME NEW l \in Loggers, LogTypes(l), NEW i, Logger(l)!Completion(i) # 0
  PROVE  LET c == Logger(l)!Completion(i) IN
           /\ c \in 1 .. Len(log) /\ log[c].line = "E" /\ log[c].n = log[i].n /\ log[c].at >= log[i].at
           /\ \A j \in 1 .. Len(log) : log[j].line = "E" /\ log[j].n = log[i].n /\ log[j].at >= log[i].at =>
                log[c].at <= log[j].at
<1> DEFINE ts == {j \in DOMAIN log : log[j].line = "E" /\ log[j].n = log[i].n /\ log[j].at >= log[i].at}
           First(j) == \A m \in ts : log[j].at < log[m].at \/ (log[j].at = log[m].at /\ j <= m)
           c == CHOOSE j \in ts : First(j)
<1>1. DOMAIN log = 1 .. Len(log) /\ Len(log) \in Nat /\ clock \in Nat /\ \A j \in 1 .. Len(log) : log[j].at \in Nat
  <2>1. log \in Seq(LogLines(l)) /\ clock \in Nat
    BY DEF LogTypes
  <2>2. \A j \in 1 .. Len(log) : log[j].at \in 1 .. clock
    BY LogLineIs
  <2> QED BY <2>1, <2>2
<1>2. ts # {} /\ Logger(l)!Completion(i) = c
  BY DEF Logger!Completion
<1>3. ts \subseteq 1 .. Len(log)
  BY <1>1
<1> HIDE DEF ts
<1>4. \E j \in ts : First(j)
  <2>1. {log[j].at : j \in ts} \subseteq Nat /\ {log[j].at : j \in ts} # {}
    BY <1>1, <1>2, <1>3
  <2>2. PICK e \in {log[j].at : j \in ts} : \A f \in {log[j].at : j \in ts} : e <= f
    BY <2>1, LeastNumber
  <2> DEFINE at == {j \in ts : log[j].at = e}
  <2>3. at \subseteq Nat /\ at # {}
    BY <1>3, <2>2
  <2>4. PICK j \in at : \A m \in at : j <= m
    BY <2>3, LeastNumber
  <2>5. \A m \in ts : e <= log[m].at /\ log[m].at \in Nat /\ e \in Nat
    BY <1>1, <1>3, <2>1, <2>2
  <2>6. First(j)
    BY <2>4, <2>5
  <2> QED BY <2>4, <2>6
<1>5. c \in ts /\ First(c)
  BY <1>4
<1> HIDE DEF c
<1>6. \A m \in ts : log[c].at <= log[m].at
  BY <1>1, <1>3, <1>5
<1>7. /\ c \in 1 .. Len(log) /\ log[c].line = "E" /\ log[c].n = log[i].n /\ log[c].at >= log[i].at
      /\ \A j \in 1 .. Len(log) : log[j].line = "E" /\ log[j].n = log[i].n /\ log[j].at >= log[i].at =>
           log[c].at <= log[j].at
  BY <1>1, <1>5, <1>6 DEF ts
<1> QED BY <1>2, <1>7

LEMMA LogGoalTypes ==
  ASSUME NEW l \in Loggers, LogInv(l)
  PROVE  Logger(l)!TypeOK
<1>1. LogTypes(l) /\ LogChain /\ LogEvents /\ LogNumbers(l)
  BY DEF LogInv
<1>2. DOMAIN atoms = 1 .. Len(atoms) /\ Len(atoms) \in Nat /\ DOMAIN log = 1 .. Len(log)
  BY <1>1 DEF LogTypes
<1>3. ASSUME NEW a \in 1 .. Len(atoms), a \notin ended PROVE atoms[a].n \in held
  <2>1. LogEv(atoms, a) \notin ended
    BY <1>1, <1>2, <1>3, LogEvEnds
  <2>2. LogOut(atoms, log, a)
    BY <1>1, <2>1 DEF LogOut, LogHas, LogEvents
  <2> QED BY <1>1, <2>2 DEF LogNumbers
<1>4. /\ held \subseteq l.numbers /\ subs \in 0 .. l.subs /\ ended \subseteq 1 .. Len(atoms)
      /\ \A i \in 1 .. Len(log) : log[i].at \in 1 .. clock
  BY <1>1 DEF LogTypes
<1> QED BY <1>2, <1>3, <1>4 DEF Logger!TypeOK

LEMMA LogGoalOwn ==
  ASSUME NEW l \in Loggers, LogInv(l), ~ l.silent
  PROVE  Logger(l)!CompletionIsItsOwn
<1>1. LogTypes(l) /\ LogEvents /\ LogOwn(l) /\ LogTimes(l)
  BY DEF LogInv
<1>2. /\ \A a \in 1 .. Len(atoms) : \E s \in Nat : LogStamped(l, call, log, a, s)
      /\ \A x \in LogTold(log), s \in Nat : LogStamped(l, call, log, x[1], s) => s <= x[3]
      /\ \A a, b \in 1 .. Len(atoms), s \in Nat :
           a < b /\ atoms[a].n = atoms[b].n /\ ~ atoms[a].silent /\ LogStamped(l, call, log, b, s) =>
             LogHas(log, a) /\ \A x \in LogTold(log) : x[1] = a => x[3] < s
  BY <1>1 DEF LogTimes
<1>3. \A a \in 1 .. Len(atoms) : ~ atoms[a].silent
  BY <1>1 DEF LogOwn
<1> SUFFICES ASSUME NEW i \in 1 .. Len(log), log[i].line = "A", log[i].ok, Logger(l)!Completion(i) # 0
             PROVE  log[Logger(l)!Completion(i)].id = log[i].id
  <2>1. DOMAIN log = 1 .. Len(log)
    BY <1>1 DEF LogTypes
  <2> QED BY <2>1 DEF Logger!CompletionIsItsOwn, Logger!AtomLines
<1> DEFINE c == Logger(l)!Completion(i)
           a == log[i].id
           b == log[c].id
           s == log[i].at
           x == <<log[c].id, log[c].n, log[c].at>>
<1>4. /\ c \in 1 .. Len(log) /\ log[c].line = "E" /\ log[c].n = log[i].n /\ log[c].at >= s
      /\ \A j \in 1 .. Len(log) : log[j].line = "E" /\ log[j].n = log[i].n /\ log[j].at >= s => log[c].at <= log[j].at
  BY <1>1, LogCompletion
<1> HIDE DEF c
<1>5. s \in Nat /\ log[c].at \in Nat
  <2>1. s \in 1 .. clock /\ log[c].at \in 1 .. clock /\ clock \in Nat
    BY <1>1, <1>4, LogLineIs DEF LogTypes
  <2> QED BY <2>1
<1>6. a \in 1 .. Len(atoms) /\ atoms[a].n = log[i].n /\ LogStamped(l, call, log, a, s)
  BY <1>1 DEF LogOwn, LogStamped
<1>7. x \in LogTold(log) /\ x[1] = b /\ x[3] = log[c].at
  BY <1>4 DEF LogTold
<1>8. b \in 1 .. Len(atoms) /\ atoms[b].n = log[i].n
  <2>1. log[c].id \in ended /\ log[c].n = atoms[log[c].id].n
    BY <1>1, <1>4 DEF LogEvents
  <2>2. ended \subseteq 1 .. Len(atoms)
    BY <1>1 DEF LogTypes
  <2> QED BY <1>4, <2>1, <2>2
<1> HIDE DEF a, b, s, x
<1>9. ASSUME b < a PROVE FALSE
  <2>1. x[3] < s
    BY <1>2, <1>3, <1>5, <1>6, <1>7, <1>8, <1>9
  <2> QED BY <1>4, <1>5, <1>7, <2>1
<1>10. ASSUME a < b PROVE FALSE
  <2>1. PICK r \in Nat : LogStamped(l, call, log, b, r)
    BY <1>2, <1>8
  <2>2. r <= log[c].at
    BY <1>2, <1>7, <2>1
  <2>3. LogHas(log, a) /\ \A y \in LogTold(log) : y[1] = a => y[3] < r
    BY <1>2, <1>3, <1>6, <1>8, <1>10, <2>1
  <2>4. PICK j \in 1 .. Len(log) : log[j].line = "E" /\ log[j].id = a
    BY <2>3 DEF LogHas
  <2> DEFINE y == <<log[j].id, log[j].n, log[j].at>>
  <2>5. y \in LogTold(log) /\ y[1] = a /\ y[3] = log[j].at
    BY <2>4 DEF LogTold
  <2> HIDE DEF y
  <2>6. log[j].at < r
    BY <2>3, <2>5
  <2>7. s <= log[j].at
    BY <1>2, <1>5, <1>6, <2>5
  <2>8. log[j].n = log[i].n
    BY <1>1, <1>6, <2>4 DEF LogEvents
  <2>9. log[j].at \in Nat
    <3>1. log[j].at \in 1 .. clock /\ clock \in Nat
      BY <1>1, LogLineIs DEF LogTypes
    <3> QED BY <3>1
  <2>10. log[j].at >= s
    BY <1>5, <2>7, <2>9
  <2>11. log[c].at <= log[j].at
    BY <1>4, <2>4, <2>8, <2>10
  <2> QED BY <1>5, <2>2, <2>6, <2>9, <2>11
<1>11. a \in Nat /\ b \in Nat
  <2>1. Len(atoms) \in Nat
    BY <1>1 DEF LogTypes
  <2> QED BY <1>6, <1>8, <2>1
<1>12. a = b
  BY <1>9, <1>10, <1>11
<1> QED BY <1>12 DEF a, b, c

LEMMA LogGoalDeps ==
  ASSUME NEW l \in Loggers, LogInv(l), l.serialised
  PROVE  Logger(l)!DependenciesAreTheKernels
<1>1. LogTypes(l) /\ LogOwn(l) /\ LogDeps(l)
  BY DEF LogInv
<1>2. DOMAIN log = 1 .. Len(log) /\ Len(log) \in Nat
  BY <1>1 DEF LogTypes
<1>3. \A i \in 1 .. Len(log) : \A d : Logger(l)!LastBefore(d, i) = LogLastA(log, d, i - 1)
  <2> TAKE i \in 1 .. Len(log)
  <2> TAKE d
  <2> DEFINE S == {j \in {m \in DOMAIN log : log[m].line = "A"} : j < i /\ log[j].n = d}
             T == {j \in 1 .. i - 1 : log[j].line = "A" /\ log[j].n = d}
  <2>1. S = T
    BY <1>2
  <2>2. Logger(l)!LastBefore(d, i) = GreatestOf(S)
    BY DEF Logger!LastBefore, Logger!Last, Logger!AtomLines, GreatestOf
  <2>3. LogLastA(log, d, i - 1) = GreatestOf(T)
    BY DEF LogLastA
  <2> QED BY <2>1, <2>2, <2>3
<1>4. \A i \in 1 .. Len(log) : log[i].line = "A" /\ log[i].ok => log[i].id \in 1 .. Len(atoms) /\ atoms[log[i].id].k = log[i].k
  BY <1>1 DEF LogOwn
<1>5. ASSUME NEW i \in 1 .. Len(log), log[i].line = "A", log[i].ok, NEW d \in log[i].deps
      PROVE  LET j == LogLastA(log, d, i - 1) IN j # 0 /\ j \in 1 .. Len(log) /\ log[j].line = "A" /\ log[j].ok
  <2>1. LogLastA(log, d, i - 1) # 0 /\ log[LogLastA(log, d, i - 1)].ok
    BY <1>1, <1>5 DEF LogDeps, LogLinked
  <2>2. i - 1 \in Nat /\ 1 .. i - 1 \subseteq 1 .. Len(log)
    BY <1>2
  <2>3. LogLastA(log, d, i - 1) \in 1 .. i - 1 /\ log[LogLastA(log, d, i - 1)].line = "A"
    BY <2>1, <2>2, LogLastAIn
  <2> QED BY <2>1, <2>2, <2>3
<1>6. ASSUME NEW i \in 1 .. Len(log), log[i].line = "A", log[i].ok
      PROVE  atoms[log[i].id].waits = {log[LogLastA(log, d, i - 1)].id : d \in log[i].deps}
  BY <1>1, <1>6 DEF LogDeps, LogLinked
<1> DEFINE At(d, i) == LogLastA(log, d, i - 1)
           Frag(a) == atoms[a].k = "frag"
<1>7. ASSUME NEW i \in 1 .. Len(log), log[i].line = "A", log[i].ok
      PROVE  (\E d \in log[i].deps : log[At(d, i)].k = "frag") <=> \E b \in atoms[log[i].id].waits : Frag(b)
  <2>1. \A d \in log[i].deps : log[At(d, i)].k = atoms[log[At(d, i)].id].k
    BY <1>4, <1>5, <1>7
  <2>2. atoms[log[i].id].waits = {log[At(d, i)].id : d \in log[i].deps}
    BY <1>6, <1>7
  <2> HIDE DEF At
  <2> QED BY <2>1, <2>2
<1>8. ASSUME NEW i \in 1 .. Len(log), log[i].line = "A", log[i].ok
      PROVE  (\E d \in log[i].deps : \/ log[At(d, i)].k = "frag"
                                     \/ log[At(d, i)].k = "dep" /\ \E e \in log[At(d, i)].deps : log[At(e, At(d, i))].k = "frag")
             <=> \E b \in atoms[log[i].id].waits : Frag(b) \/ (atoms[b].k = "dep" /\ \E c \in atoms[b].waits : Frag(c))
  <2>1. \A d \in log[i].deps : log[At(d, i)].k = atoms[log[At(d, i)].id].k
    BY <1>4, <1>5, <1>8
  <2>2. \A d \in log[i].deps : (\E e \in log[At(d, i)].deps : log[At(e, At(d, i))].k = "frag") <=>
                               \E c \in atoms[log[At(d, i)].id].waits : Frag(c)
    BY <1>5, <1>7, <1>8
  <2> HIDE DEF At, Frag
  <2>3. atoms[log[i].id].waits = {log[At(d, i)].id : d \in log[i].deps}
    BY <1>6, <1>8 DEF At
  <2>4. \A d \in log[i].deps : Frag(log[At(d, i)].id) <=> log[At(d, i)].k = "frag"
    BY <2>1 DEF Frag
  <2> QED BY <2>1, <2>2, <2>3, <2>4
<1>9. ASSUME NEW i \in 1 .. Len(log), log[i].line = "A", log[i].ok
      PROVE  /\ \A d \in log[i].deps : Logger(l)!LastBefore(d, i) # 0
                                       /\ log[Logger(l)!LastBefore(d, i)].id \in atoms[log[i].id].waits
             /\ Logger(l)!WaitsForFragment(i) <=> Logger(l)!ReallyWaits(log[i].id)
  <2>1. \A d \in log[i].deps : Logger(l)!LastBefore(d, i) = At(d, i) /\ At(d, i) # 0 /\ At(d, i) \in 1 .. Len(log)
                               /\ log[At(d, i)].line = "A" /\ log[At(d, i)].ok
    BY <1>3, <1>5, <1>9
  <2>2. \A d \in log[i].deps : \A e \in log[At(d, i)].deps :
          Logger(l)!LastBefore(e, At(d, i)) = At(e, At(d, i)) /\ At(e, At(d, i)) # 0
    BY <1>3, <1>5, <2>1
  <2>3. \A d \in log[i].deps : log[At(d, i)].id \in atoms[log[i].id].waits
    BY <1>6, <1>9
  <2> HIDE DEF At
  <2>4. Logger(l)!WaitsForFragment(i) <=>
          \E d \in log[i].deps : \/ log[At(d, i)].k = "frag"
                                 \/ log[At(d, i)].k = "dep" /\ \E e \in log[At(d, i)].deps : log[At(e, At(d, i))].k = "frag"
    BY <2>1, <2>2 DEF Logger!WaitsForFragment
  <2>5. Logger(l)!ReallyWaits(log[i].id) <=>
          \E b \in atoms[log[i].id].waits : Frag(b) \/ (atoms[b].k = "dep" /\ \E c \in atoms[b].waits : Frag(c))
    BY DEF Logger!ReallyWaits
  <2> QED BY <1>8, <1>9, <2>1, <2>3, <2>4, <2>5
<1> HIDE DEF At, Frag
<1> QED BY <1>2, <1>9 DEF Logger!DependenciesAreTheKernels, Logger!AtomLines

LEMMA LogGoalBusy ==
  ASSUME NEW l \in Loggers, LogInv(l)
  PROVE  Logger(l)!BusyTimeIsNotCountedTwice
<1> DEFINE D == Logger(l)!Done
           End(i) == Logger(l)!End(i)
           Sooner(i, j) == Logger(l)!Sooner(i, j)
           Since(i) == Logger(l)!BusySince(i)
           at(i) == log[i].at
           k(i) == log[i].k
           r(i) == Logger(l)!Rank[log[i].k]
<1>1. LogTypes(l)
  BY DEF LogInv
<1>2. clock \in Nat /\ DOMAIN log = 1 .. Len(log) /\ Len(log) \in Nat
  BY <1>1 DEF LogTypes
<1>3. \A i \in D : /\ i \in 1 .. Len(log) /\ at(i) \in 1 .. clock /\ k(i) \in {"vtc", "frag", "compute"}
                   /\ Logger(l)!Completion(i) # 0
  <2> TAKE i \in D
  <2>1. i \in 1 .. Len(log) /\ log[i].line = "A" /\ log[i].k # "dep" /\ Logger(l)!Completion(i) # 0
    BY <1>2 DEF Logger!Done, Logger!AtomLines
  <2>2. log[i].at \in 1 .. clock /\ log[i].k \in LogKinds
    BY <1>1, <2>1, LogLineIs
  <2> QED BY <2>1, <2>2 DEF LogKinds
<1>4. \A i \in D : End(i) \in 1 .. clock /\ at(i) <= End(i)
  <2> TAKE i \in D
  <2> DEFINE c == Logger(l)!Completion(i)
  <2>1. c \in 1 .. Len(log) /\ log[c].at >= log[i].at
    BY <1>1, <1>3, LogCompletion
  <2>2. log[c].at \in 1 .. clock
    BY <1>1, <2>1, LogLineIs
  <2>3. End(i) = log[c].at
    BY DEF Logger!End
  <2>4. at(i) \in 1 .. clock
    BY <1>3
  <2> HIDE DEF c, End
  <2> QED BY <1>2, <2>1, <2>2, <2>3, <2>4
<1>5. \A i, j : Sooner(i, j) <=>
        \/ End(i) < End(j)
        \/ End(i) = End(j) /\ r(i) < r(j)
        \/ End(i) = End(j) /\ k(i) = k(j) /\ (at(i) < at(j) \/ (at(i) = at(j) /\ i < j))
  BY DEF Logger!Sooner
<1>6. \A i \in D : r(i) \in {1, 2, 3}
  BY <1>3 DEF Logger!Rank
<1>7. \A i, j \in D : r(i) = r(j) => k(i) = k(j)
  BY <1>3 DEF Logger!Rank
<1>8. \A i : Since(i) = GreatestOf({at(i)} \cup {End(j) : j \in {m \in D : Sooner(m, i)}})
  BY DEF Logger!BusySince, Logger!Last, GreatestOf
<1> HIDE DEF D, End, Sooner, Since, at, k, r
<1>9. \A i \in D : /\ Since(i) = at(i) \/ \E j \in D : Sooner(j, i) /\ Since(i) = End(j)
                   /\ at(i) <= Since(i) /\ \A j \in D : Sooner(j, i) => End(j) <= Since(i)
  <2> TAKE i \in D
  <2> DEFINE S == {at(i)} \cup {End(j) : j \in {m \in D : Sooner(m, i)}}
  <2>1. S \subseteq 0 .. clock /\ S # {}
    BY <1>2, <1>3, <1>4
  <2>2. GreatestOf(S) \in S /\ \A e \in S : e <= GreatestOf(S)
    BY <1>2, <2>1, Greatest
  <2> QED BY <1>8, <2>2
<1>10. \A i \in D : Since(i) <= End(i)
  <2> TAKE i \in D
  <2>1. \A j \in D : Sooner(j, i) => End(j) <= End(i)
    BY <1>2, <1>4, <1>5
  <2> QED BY <1>4, <1>9, <2>1
<1>11. \A i, j \in D : i # j => Sooner(i, j) \/ Sooner(j, i)
  <2> SUFFICES ASSUME NEW i \in D, NEW j \in D, i # j PROVE Sooner(i, j) \/ Sooner(j, i)
    OBVIOUS
  <2>1. End(i) \in Nat /\ End(j) \in Nat /\ at(i) \in Nat /\ at(j) \in Nat /\ i \in Nat /\ j \in Nat
    BY <1>2, <1>3, <1>4
  <2>2. r(i) = r(j) \/ r(i) < r(j) \/ r(j) < r(i)
    BY <1>6
  <2>3. r(i) = r(j) => k(i) = k(j)
    BY <1>7
  <2> QED BY <1>5, <2>1, <2>2, <2>3
<1>12. \A i, j \in D : i # j => End(j) <= Since(i) \/ End(i) <= Since(j)
  BY <1>9, <1>11
<1> DEFINE Busy == {[of |-> i, from |-> Since(i), to |-> End(i)] : i \in D}
<1>13. ASSUME NEW b \in Busy PROVE b.of \in D /\ b.from = Since(b.of) /\ b.to = End(b.of)
  OBVIOUS
<1> HIDE DEF Busy
<1>14. \A b \in Busy : /\ at(b.of) <= b.from /\ b.from <= b.to
                       /\ \A c \in Busy : c.of = b.of \/ c.to <= b.from \/ b.to <= c.from
  BY <1>9, <1>10, <1>12, <1>13
<1> QED BY <1>14 DEF Logger!BusyTimeIsNotCountedTwice, Busy, D, End, Since, at

LEMMA LogGoal ==
  ASSUME NEW l \in Loggers, LogInv(l)
  PROVE  /\ Logger(l)!TypeOK /\ Logger(l)!BusyTimeIsNotCountedTwice
         /\ ~ l.silent => Logger(l)!CompletionIsItsOwn
         /\ l.serialised => Logger(l)!DependenciesAreTheKernels
BY LogGoalTypes, LogGoalBusy, LogGoalOwn, LogGoalDeps

-----------------------------------------------------------------------------
(* The trace of a program: QueryTrace                                      *)

QueryCmds == {"render", "endrender", "query", "barrier", "execute", "draw"}

QueryUnknown == [known |-> FALSE]
QueryRecords ==
  {r \in [known : {TRUE}, begun : BOOLEAN, ended : BOOLEAN, cmds : Nat, render : BOOLEAN,
          barriers : Nat, queries : Nat, secondary : BOOLEAN] : r.barriers + r.queries <= r.cmds}

QueryInRender(q) ==
  \E i \in 1 .. Len(q) : q[i] = "render" /\ \A j \in (i + 1) .. Len(q) : q[j] # "endrender"
QueryPass(q, k) == {i \in 1 .. Len(q) : q[i] = k /\ QueryInRender(SubSeq(q, 1, i - 1))}

(* What the script has of a recording is that recording.                   *)
QueryMatches(r, q) ==
  /\ r.cmds = Len(q) /\ r.render = QueryInRender(q)
  /\ r.barriers = Cardinality(QueryPass(q, "barrier"))
  /\ r.queries = Cardinality(QueryPass(q, "query"))
  /\ ~ r.secondary => \A i \in 1 .. Len(q) : q[i] # "execute"

QueryGood(r, b) ==
  r.known =>
    /\ b.state = "recording" => r.begun /\ ~ r.ended /\ QueryMatches(r, b.cmds)
    /\ b.state = "executable" => r.begun /\ r.ended /\ QueryMatches(r, b.cmds)
    /\ b.state = "invalid" => ~ r.begun \/ ~ r.ended

QueryBuffers == [state : {"initial", "recording", "executable", "invalid"}, cmds : Seq(QueryCmds)]

QueryTypes(p) ==
  /\ frame \in 1 .. p.frames /\ previous \in 0 .. frame /\ submits \in Nat
  /\ previous = 0 \/ previous \in p.traced
  /\ real \in [p.buffers -> QueryBuffers]
  /\ seen \in [p.buffers -> QueryRecords \cup {QueryUnknown}]
  /\ row \in [complete : Nat, incomplete : Nat, unsupported : Nat, cmds : Nat, barriers : Nat, queries : Nat]
  /\ truth \in [cmds : Nat, barriers : Nat, queries : Nat]

(* What the script has is of the buffers as they are, unless there is a    *)
(* frame it did not see; before the first call it has nothing.             *)
QueryCurrent(p) ==
  /\ previous = 0 => \A b \in p.buffers : seen[b] = QueryUnknown
  /\ \/ \E f \in 1 .. frame : f \notin p.traced /\ previous < f
     \/ \A b \in p.buffers : QueryGood(seen[b], real[b])

QuerySums ==
  /\ row.complete + row.incomplete + row.unsupported <= submits
  /\ row.cmds = truth.cmds /\ row.barriers = truth.barriers /\ row.queries = truth.queries

QueryInv(p) == QueryTypes(p) /\ QueryCurrent(p) /\ QuerySums

LEMMA QueryNames ==
  ASSUME NEW p, NEW q \in Seq(QueryCmds), NEW k
  PROVE  /\ Program(p)!InRender(q) = QueryInRender(q)
         /\ Program(p)!InPass(q, k) = Cardinality(QueryPass(q, k))
<1>1. ASSUME NEW s \in Seq(QueryCmds) PROVE Program(p)!InRender(s) = QueryInRender(s)
  BY DEF Program!InRender, QueryInRender
<1>2. \A i \in 1 .. Len(q) : SubSeq(q, 1, i - 1) \in Seq(QueryCmds)
  OBVIOUS
<1>3. {i \in DOMAIN q : q[i] = k /\ Program(p)!InRender(SubSeq(q, 1, i - 1))} = QueryPass(q, k)
  <2>1. DOMAIN q = 1 .. Len(q)
    OBVIOUS
  <2>2. \A i \in 1 .. Len(q) : Program(p)!InRender(SubSeq(q, 1, i - 1)) = QueryInRender(SubSeq(q, 1, i - 1))
    BY <1>1, <1>2
  <2> QED BY <2>1, <2>2 DEF QueryPass
<1>4. Program(p)!InPass(q, k) = Cardinality(QueryPass(q, k))
  BY <1>3 DEF Program!InPass, Program!Cardinality, Cardinality
<1> QED BY <1>1, <1>4

LEMMA QueryPassIsFinite ==
  ASSUME NEW q \in Seq(QueryCmds), NEW k
  PROVE  IsFiniteSet(QueryPass(q, k)) /\ Cardinality(QueryPass(q, k)) \in Nat
<1>1. IsFiniteSet(1 .. Len(q))
  BY FS_Interval
<1>2. QueryPass(q, k) \subseteq 1 .. Len(q)
  BY DEF QueryPass
<1>3. IsFiniteSet(QueryPass(q, k))
  BY <1>1, <1>2, FS_Subset
<1> QED BY <1>3, FS_CardinalityType

(* What one more command changes.                                          *)
LEMMA QueryOneMore ==
  ASSUME NEW q \in Seq(QueryCmds), NEW c \in QueryCmds
  PROVE  /\ Append(q, c) \in Seq(QueryCmds)
         /\ QueryInRender(Append(q, c)) <=> (c = "render" \/ (QueryInRender(q) /\ c # "endrender"))
         /\ \A k : Cardinality(QueryPass(Append(q, c), k)) =
              Cardinality(QueryPass(q, k)) + (IF c = k /\ QueryInRender(q) THEN 1 ELSE 0)
<1> DEFINE n == Len(q)
           more == Append(q, c)
<1>1. /\ more \in Seq(QueryCmds) /\ Len(more) = n + 1 /\ n \in Nat
      /\ more[n + 1] = c /\ \A i \in 1 .. n : more[i] = q[i]
  OBVIOUS
<1>2. QueryInRender(more) <=> (c = "render" \/ (QueryInRender(q) /\ c # "endrender"))
  <2>1. ASSUME QueryInRender(more) PROVE c = "render" \/ (QueryInRender(q) /\ c # "endrender")
    <3>1. PICK i \in 1 .. n + 1 : more[i] = "render" /\ \A j \in (i + 1) .. n + 1 : more[j] # "endrender"
      BY <1>1, <2>1 DEF QueryInRender
    <3>2. CASE i = n + 1
      BY <1>1, <3>1, <3>2
    <3>3. CASE i \in 1 .. n
      <4>1. q[i] = "render" /\ c # "endrender"
        BY <1>1, <3>1, <3>3
      <4>2. \A j \in (i + 1) .. n : q[j] # "endrender"
        BY <1>1, <3>1, <3>3
      <4> QED BY <3>3, <4>1, <4>2 DEF QueryInRender
    <3> QED BY <1>1, <3>2, <3>3
  <2>2. ASSUME c = "render" PROVE QueryInRender(more)
    <3>1. n + 1 \in 1 .. Len(more) /\ more[n + 1] = "render" /\ (n + 1 + 1) .. Len(more) = {}
      BY <1>1, <2>2
    <3> QED BY <3>1 DEF QueryInRender
  <2>3. ASSUME QueryInRender(q), c # "endrender" PROVE QueryInRender(more)
    <3>1. PICK i \in 1 .. n : q[i] = "render" /\ \A j \in (i + 1) .. n : q[j] # "endrender"
      BY <2>3 DEF QueryInRender
    <3>2. i \in 1 .. Len(more) /\ more[i] = "render"
      BY <1>1, <3>1
    <3>3. \A j \in (i + 1) .. Len(more) : more[j] # "endrender"
      BY <1>1, <2>3, <3>1
    <3> QED BY <3>2, <3>3 DEF QueryInRender
  <2> QED BY <2>1, <2>2, <2>3
<1>3. ASSUME NEW k
      PROVE Cardinality(QueryPass(more, k)) =
              Cardinality(QueryPass(q, k)) + (IF c = k /\ QueryInRender(q) THEN 1 ELSE 0)
  <2>1. \A i \in 1 .. n + 1 : SubSeq(more, 1, i - 1) = SubSeq(q, 1, i - 1)
    <3> TAKE i \in 1 .. n + 1
    <3>1. /\ SubSeq(more, 1, i - 1) = [j \in 1 .. i - 1 |-> more[j]]
          /\ SubSeq(q, 1, i - 1) = [j \in 1 .. i - 1 |-> q[j]]
      BY <1>1
    <3> QED BY <1>1, <3>1
  <2>2. SubSeq(q, 1, n + 1 - 1) = q
    BY <1>1
  <2>3. n + 1 \notin QueryPass(q, k) /\ IsFiniteSet(QueryPass(q, k)) /\ Cardinality(QueryPass(q, k)) \in Nat
    <3>1. n + 1 \notin 1 .. n
      BY <1>1
    <3> QED BY <3>1, QueryPassIsFinite DEF QueryPass
  <2>4. /\ \A i \in 1 .. n : i \in QueryPass(more, k) <=> i \in QueryPass(q, k)
        /\ n + 1 \in QueryPass(more, k) <=> (c = k /\ QueryInRender(q))
    <3> HIDE DEF more
    <3>1. n + 1 \in 1 .. n + 1 /\ \A i \in 1 .. n : i \in 1 .. n + 1
      BY <1>1
    <3>2. \A i \in 1 .. n : i \in QueryPass(more, k) <=> i \in QueryPass(q, k)
      BY <1>1, <2>1, <3>1 DEF QueryPass
    <3>3. SubSeq(more, 1, n + 1 - 1) = q
      BY <2>1, <2>2, <3>1
    <3>4. n + 1 \in QueryPass(more, k) <=> (c = k /\ QueryInRender(q))
      <4>1. \A i \in 1 .. n + 1 :
              i \in QueryPass(more, k) <=> (more[i] = k /\ QueryInRender(SubSeq(more, 1, i - 1)))
        BY <1>1 DEF QueryPass
      <4>2. n + 1 \in QueryPass(more, k) <=> (more[n + 1] = k /\ QueryInRender(SubSeq(more, 1, n + 1 - 1)))
        BY <3>1, <4>1
      <4> QED BY <1>1, <3>3, <4>2
    <3> QED BY <3>2, <3>4
  <2>5. /\ \A i \in QueryPass(more, k) : i \in 1 .. n \/ i = n + 1
        /\ \A i \in QueryPass(q, k) : i \in 1 .. n
    <3> HIDE DEF more
    <3>1. \A i \in 1 .. n + 1 : i \in 1 .. n \/ i = n + 1
      BY <1>1
    <3> QED BY <1>1, <3>1 DEF QueryPass
  <2>6. CASE c = k /\ QueryInRender(q)
    <3>1. QueryPass(more, k) = QueryPass(q, k) \cup {n + 1}
      BY <2>4, <2>5, <2>6
    <3>2. Cardinality(QueryPass(q, k) \cup {n + 1}) = Cardinality(QueryPass(q, k)) + 1
      BY <2>3, FS_AddElement
    <3> QED BY <2>6, <3>1, <3>2
  <2>7. CASE ~ (c = k /\ QueryInRender(q))
    <3>1. QueryPass(more, k) = QueryPass(q, k)
      BY <2>4, <2>5, <2>7
    <3> QED BY <2>3, <2>7, <3>1
  <2> QED BY <2>6, <2>7
<1> QED BY <1>1, <1>2, <1>3

LEMMA QueryNone ==
  /\ ~ QueryInRender(<<>>) /\ \A k : QueryPass(<<>>, k) = {} /\ Cardinality(QueryPass(<<>>, k)) = 0
<1>1. ~ QueryInRender(<<>>) /\ \A k : QueryPass(<<>>, k) = {}
  BY DEF QueryInRender, QueryPass
<1> QED BY <1>1, FS_EmptySet

-----------------------------------------------------------------------------

(* In a traced frame, whatever the script still has is current.            *)
LEMMA QueryContiguous ==
  ASSUME NEW p, QueryTypes(p), QueryCurrent(p), frame \in p.traced
  PROVE  /\ Program(p)!Contiguous \in [p.buffers -> QueryRecords \cup {QueryUnknown}]
         /\ \A b \in p.buffers : QueryGood(Program(p)!Contiguous[b], real[b])
<1>0. frame \in Nat /\ previous \in Nat /\ seen \in [p.buffers -> QueryRecords \cup {QueryUnknown}]
  BY DEF QueryTypes
<1>1. CASE previous # 0 /\ (frame < previous \/ frame > previous + 1)
  <2>1. Program(p)!Contiguous = [b \in p.buffers |-> QueryUnknown]
    BY <1>1 DEF Program!Contiguous, Program!Unknown, QueryUnknown
  <2> QED BY <2>1 DEF QueryGood, QueryUnknown
<1>2. CASE ~ (previous # 0 /\ (frame < previous \/ frame > previous + 1))
  <2>1. Program(p)!Contiguous = seen
    BY <1>2 DEF Program!Contiguous
  <2>2. CASE previous = 0
    <3>1. \A b \in p.buffers : seen[b] = QueryUnknown
      BY <2>2 DEF QueryCurrent
    <3> QED BY <1>0, <2>1, <3>1 DEF QueryGood, QueryUnknown
  <2>3. CASE previous # 0
    <3>1. ~ \E f \in 1 .. frame : f \notin p.traced /\ previous < f
      BY <1>0, <1>2, <2>3
    <3> QED BY <1>0, <2>1, <3>1 DEF QueryCurrent
  <2> QED BY <2>2, <2>3
<1> QED BY <1>1, <1>2

(* A call about a buffer, which becomes b1 and of which the script has r1. *)
LEMMA QueryTakes ==
  ASSUME NEW p, QueryTypes(p), QueryCurrent(p), NEW b \in p.buffers, NEW b1 \in QueryBuffers, NEW r1,
         Program(p)!Takes(b, r1), real' = [real EXCEPT ![b] = b1], frame' = frame,
         frame \in p.traced => r1 \in QueryRecords \cup {QueryUnknown} /\ QueryGood(r1, b1)
  PROVE  /\ QueryCurrent(p)'
         /\ real' \in [p.buffers -> QueryBuffers]
         /\ seen' \in [p.buffers -> QueryRecords \cup {QueryUnknown}]
         /\ previous' \in 0 .. frame' /\ (previous' = 0 \/ previous' \in p.traced)
<1> DEFINE cont == Program(p)!Contiguous
<1>0. /\ frame \in Nat \ {0} /\ previous \in 0 .. frame /\ (previous = 0 \/ previous \in p.traced)
      /\ real \in [p.buffers -> QueryBuffers]
      /\ seen \in [p.buffers -> QueryRecords \cup {QueryUnknown}]
  BY DEF QueryTypes
<1>1. CASE frame \in p.traced
  <2>1. previous' = frame /\ seen' = [cont EXCEPT ![b] = r1]
    BY <1>1 DEF Program!Takes, Program!IsTraced
  <2>2. /\ cont \in [p.buffers -> QueryRecords \cup {QueryUnknown}]
        /\ \A x \in p.buffers : QueryGood(cont[x], real[x])
    BY <1>1, QueryContiguous
  <2> HIDE DEF cont
  <2>3. \A x \in p.buffers : QueryGood(seen'[x], real'[x])
    <3> TAKE x \in p.buffers
    <3>1. CASE x = b
      BY <1>0, <1>1, <2>1, <2>2, <3>1
    <3>2. CASE x # b
      <4>1. seen'[x] = cont[x] /\ real'[x] = real[x]
        BY <1>0, <2>1, <2>2, <3>2
      <4> QED BY <2>2, <4>1
    <3> QED BY <3>1, <3>2
  <2>4. seen' \in [p.buffers -> QueryRecords \cup {QueryUnknown}]
    BY <1>1, <2>1, <2>2
  <2>5. real' \in [p.buffers -> QueryBuffers]
    BY <1>0
  <2>6. QueryCurrent(p)'
    BY <1>0, <2>1, <2>3 DEF QueryCurrent
  <2> QED BY <1>0, <1>1, <2>1, <2>4, <2>5, <2>6
<1>2. CASE frame \notin p.traced
  <2>1. previous' = previous /\ seen' = seen
    BY <1>2 DEF Program!Takes, Program!IsTraced
  <2>2. previous < frame
    BY <1>0, <1>2
  <2>3. frame \in 1 .. frame' /\ previous' < frame
    BY <1>0, <2>1, <2>2
  <2>4. QueryCurrent(p)'
    BY <1>2, <2>1, <2>3 DEF QueryCurrent
  <2> QED BY <1>0, <2>1, <2>4
<1> QED BY <1>1, <1>2

(* What the script makes of a command, and of an end.                      *)
LEMMA QuerySees ==
  ASSUME NEW p, NEW r \in QueryRecords \cup {QueryUnknown}, NEW b \in QueryBuffers,
         b.state = "recording", QueryGood(r, b)
  PROVE  /\ \A c \in QueryCmds :
              /\ Program(p)!SeesCmd(r, c) \in QueryRecords \cup {QueryUnknown}
              /\ QueryGood(Program(p)!SeesCmd(r, c), [b EXCEPT !.cmds = Append(@, c)])
         /\ \A ok \in BOOLEAN :
              /\ Program(p)!SeesEnd(r, ok) \in QueryRecords \cup {QueryUnknown}
              /\ QueryGood(Program(p)!SeesEnd(r, ok), [b EXCEPT !.state = IF ok THEN "executable" ELSE "invalid"])
<1>0. CASE r = QueryUnknown
  <2>1. \A c \in QueryCmds : Program(p)!SeesCmd(r, c) = QueryUnknown
    BY <1>0 DEF Program!SeesCmd, QueryUnknown
  <2>2. \A ok \in BOOLEAN : Program(p)!SeesEnd(r, ok) = QueryUnknown
    BY <1>0 DEF Program!SeesEnd, QueryUnknown
  <2> QED BY <2>1, <2>2 DEF QueryGood, QueryUnknown
<1>1. CASE r \in QueryRecords
  <2>0. /\ r.known /\ r \in [known : {TRUE}, begun : BOOLEAN, ended : BOOLEAN, cmds : Nat, render : BOOLEAN,
                             barriers : Nat, queries : Nat, secondary : BOOLEAN]
        /\ r.barriers + r.queries <= r.cmds
    BY <1>1 DEF QueryRecords
  <2>1. r.begun /\ ~ r.ended /\ QueryMatches(r, b.cmds) /\ b.cmds \in Seq(QueryCmds)
    BY <2>0 DEF QueryGood, QueryBuffers
  <2>2. ASSUME NEW c \in QueryCmds
        PROVE /\ Program(p)!SeesCmd(r, c) \in QueryRecords
              /\ QueryGood(Program(p)!SeesCmd(r, c), [b EXCEPT !.cmds = Append(@, c)])
    <3> DEFINE s == Program(p)!SeesCmd(r, c)
               q == b.cmds
               more == Append(q, c)
    <3>1. s = [known |-> TRUE, begun |-> r.begun, ended |-> r.ended, cmds |-> r.cmds + 1,
               render |-> c = "render" \/ (r.render /\ c # "endrender"),
               barriers |-> r.barriers + (IF c = "barrier" /\ r.render THEN 1 ELSE 0),
               queries |-> r.queries + (IF c = "query" /\ r.render THEN 1 ELSE 0),
               secondary |-> r.secondary \/ c = "execute"]
      BY <2>0 DEF Program!SeesCmd
    <3> HIDE DEF s
    <3>2. s \in QueryRecords
      BY <2>0, <3>1 DEF QueryRecords
    <3>3. /\ more \in Seq(QueryCmds)
          /\ QueryInRender(more) <=> (c = "render" \/ (QueryInRender(q) /\ c # "endrender"))
          /\ \A k : Cardinality(QueryPass(more, k)) =
               Cardinality(QueryPass(q, k)) + (IF c = k /\ QueryInRender(q) THEN 1 ELSE 0)
      BY <2>1, QueryOneMore
    <3>4. /\ r.cmds = Len(q) /\ r.render = QueryInRender(q)
          /\ r.barriers = Cardinality(QueryPass(q, "barrier"))
          /\ r.queries = Cardinality(QueryPass(q, "query"))
          /\ ~ r.secondary => \A i \in 1 .. Len(q) : q[i] # "execute"
      BY <2>1 DEF QueryMatches
    <3>5. Len(more) = Len(q) + 1 /\ \A i \in 1 .. Len(more) : more[i] = IF i = Len(q) + 1 THEN c ELSE q[i]
      BY <2>1
    <3>6. QueryInRender(more) \in BOOLEAN /\ QueryInRender(q) \in BOOLEAN
      BY DEF QueryInRender
    <3>7. s.render = QueryInRender(more)
      BY <3>1, <3>3, <3>4, <3>6
    <3>8. s.barriers = Cardinality(QueryPass(more, "barrier")) /\ s.queries = Cardinality(QueryPass(more, "query"))
      BY <3>1, <3>3, <3>4
    <3>9. ~ s.secondary => \A i \in 1 .. Len(more) : more[i] # "execute"
      <4> SUFFICES ASSUME ~ s.secondary, NEW i \in 1 .. Len(more) PROVE more[i] # "execute"
        OBVIOUS
      <4>1. ~ r.secondary /\ c # "execute"
        BY <2>0, <3>1
      <4> QED BY <2>1, <3>4, <3>5, <4>1
    <3>10. QueryMatches(s, more)
      BY <2>1, <3>1, <3>4, <3>5, <3>7, <3>8, <3>9 DEF QueryMatches
    <3>11. [b EXCEPT !.cmds = Append(@, c)].state = "recording" /\ [b EXCEPT !.cmds = Append(@, c)].cmds = more
      BY DEF QueryBuffers
    <3> HIDE DEF more
    <3>12. s.begun /\ ~ s.ended
      BY <2>1, <3>1
    <3>13. QueryGood(s, [b EXCEPT !.cmds = Append(@, c)])
      BY <3>10, <3>11, <3>12 DEF QueryGood
    <3> QED BY <3>2, <3>13 DEF s
  <2>3. ASSUME NEW ok \in BOOLEAN
        PROVE /\ Program(p)!SeesEnd(r, ok) \in QueryRecords
              /\ QueryGood(Program(p)!SeesEnd(r, ok), [b EXCEPT !.state = IF ok THEN "executable" ELSE "invalid"])
    <3> DEFINE s == Program(p)!SeesEnd(r, ok)
    <3>1. s = [r EXCEPT !.ended = ok]
      BY <2>0 DEF Program!SeesEnd
    <3> HIDE DEF s
    <3>2. s \in QueryRecords
      BY <2>0, <3>1 DEF QueryRecords
    <3>3. /\ s.begun = r.begun /\ s.ended = ok /\ s.cmds = r.cmds /\ s.render = r.render
          /\ s.barriers = r.barriers /\ s.queries = r.queries /\ s.secondary = r.secondary
      BY <2>0, <3>1
    <3>4. QueryMatches(s, b.cmds)
      BY <2>1, <3>3 DEF QueryMatches
    <3>5. /\ [b EXCEPT !.state = IF ok THEN "executable" ELSE "invalid"].state = (IF ok THEN "executable" ELSE "invalid")
          /\ [b EXCEPT !.state = IF ok THEN "executable" ELSE "invalid"].cmds = b.cmds
      BY DEF QueryBuffers
    <3>6. QueryGood(s, [b EXCEPT !.state = IF ok THEN "executable" ELSE "invalid"])
      BY <2>1, <3>3, <3>4, <3>5 DEF QueryGood
    <3> QED BY <3>2, <3>6 DEF s
  <2> QED BY <2>2, <2>3
<1> QED BY <1>0, <1>1

LEMMA QueryInit ==
  ASSUME NEW p \in Programs, Program(p)!Init
  PROVE  QueryInv(p)
<1>1. p.frames \in Nat \ {0}
  BY ProgramsAssumption
<1>2. /\ frame = 1 /\ previous = 0 /\ submits = 0
      /\ real = [b \in p.buffers |-> [state |-> "initial", cmds |-> <<>>]]
      /\ seen = [b \in p.buffers |-> QueryUnknown]
      /\ row = [complete |-> 0, incomplete |-> 0, unsupported |-> 0, cmds |-> 0, barriers |-> 0, queries |-> 0]
      /\ truth = [cmds |-> 0, barriers |-> 0, queries |-> 0]
  BY DEF Program!Init, Program!Unknown, Program!Counted, QueryUnknown
<1>3. [state |-> "initial", cmds |-> <<>>] \in QueryBuffers
  BY DEF QueryBuffers
<1>4. QueryTypes(p)
  BY <1>1, <1>2, <1>3 DEF QueryTypes
<1>5. QueryCurrent(p)
  BY <1>2 DEF QueryCurrent, QueryGood, QueryUnknown
<1> QED BY <1>2, <1>4, <1>5 DEF QueryInv, QuerySums

(* A step of the program that is no submission.                            *)
LEMMA QueryQuiet ==
  ASSUME NEW p, QueryInv(p), NEW b \in p.buffers, NEW b1 \in QueryBuffers, NEW r1,
         Program(p)!Takes(b, r1), real' = [real EXCEPT ![b] = b1],
         UNCHANGED <<frame, row, truth, submits>>,
         frame \in p.traced => r1 \in QueryRecords \cup {QueryUnknown} /\ QueryGood(r1, b1)
  PROVE  QueryInv(p)'
<1>0. QueryTypes(p) /\ QueryCurrent(p) /\ QuerySums
  BY DEF QueryInv
<1>1. /\ QueryCurrent(p)'
      /\ real' \in [p.buffers -> QueryBuffers]
      /\ seen' \in [p.buffers -> QueryRecords \cup {QueryUnknown}]
      /\ previous' \in 0 .. frame' /\ (previous' = 0 \/ previous' \in p.traced)
  BY <1>0, QueryTakes
<1>2. QueryTypes(p)'
  BY <1>0, <1>1 DEF QueryTypes
<1> QED BY <1>0, <1>1, <1>2 DEF QueryInv, QuerySums

LEMMA QueryBegins ==
  ASSUME NEW p, QueryInv(p), NEW b \in p.buffers, Program(p)!Begin(b)
  PROVE  QueryInv(p)'
<1>1. PICK ok \in BOOLEAN :
        /\ real' = [real EXCEPT ![b] = [state |-> IF ok THEN "recording" ELSE "invalid", cmds |-> <<>>]]
        /\ Program(p)!Takes(b, Program(p)!SeesBegin(ok))
        /\ UNCHANGED <<frame, row, truth, submits>>
  BY DEF Program!Begin
<1> DEFINE b1 == [state |-> IF ok THEN "recording" ELSE "invalid", cmds |-> <<>>]
           r1 == [known |-> TRUE, begun |-> ok, ended |-> FALSE, cmds |-> 0, render |-> FALSE,
                  barriers |-> 0, queries |-> 0, secondary |-> FALSE]
<1>2. Program(p)!SeesBegin(ok) = r1
  BY DEF Program!SeesBegin
<1>3. b1 \in QueryBuffers
  BY DEF QueryBuffers
<1>4. r1 \in QueryRecords
  BY DEF QueryRecords
<1>5. QueryMatches(r1, <<>>)
  <2>1. QueryInRender(<<>>) = FALSE
    BY QueryNone DEF QueryInRender
  <2>2. Len(<<>>) = 0 /\ 1 .. 0 = {}
    OBVIOUS
  <2> QED BY <2>1, <2>2, QueryNone DEF QueryMatches
<1>6. QueryGood(r1, b1)
  BY <1>5 DEF QueryGood
<1> HIDE DEF b1, r1
<1>7. real' = [real EXCEPT ![b] = b1] /\ Program(p)!Takes(b, r1)
  BY <1>1, <1>2 DEF b1
<1> QED BY <1>1, <1>3, <1>4, <1>6, <1>7, QueryQuiet

LEMMA QueryCommands ==
  ASSUME NEW p, QueryInv(p), NEW b \in p.buffers, NEW c \in QueryCmds, Program(p)!Cmd(b, c)
  PROVE  QueryInv(p)'
<1> DEFINE b1 == [real[b] EXCEPT !.cmds = Append(@, c)]
           r1 == Program(p)!SeesCmd(Program(p)!Contiguous[b], c)
<1>0. QueryTypes(p) /\ QueryCurrent(p) /\ real[b] \in QueryBuffers
  BY DEF QueryInv, QueryTypes
<1>1. /\ real[b].state = "recording" /\ real' = [real EXCEPT ![b].cmds = Append(@, c)]
      /\ Program(p)!Takes(b, r1) /\ UNCHANGED <<frame, row, truth, submits>>
  BY DEF Program!Cmd
<1>2. b1 \in QueryBuffers
  BY <1>0 DEF QueryBuffers
<1>3. ASSUME frame \in p.traced PROVE r1 \in QueryRecords \cup {QueryUnknown} /\ QueryGood(r1, b1)
  <2>1. Program(p)!Contiguous[b] \in QueryRecords \cup {QueryUnknown} /\ QueryGood(Program(p)!Contiguous[b], real[b])
    BY <1>0, <1>3, QueryContiguous
  <2> QED BY <1>0, <1>1, <2>1, QuerySees
<1>4. real' = [real EXCEPT ![b] = b1]
  BY <1>1
<1> HIDE DEF b1, r1
<1> QED BY <1>1, <1>2, <1>3, <1>4, QueryQuiet

LEMMA QueryEnds ==
  ASSUME NEW p, QueryInv(p), NEW b \in p.buffers, Program(p)!End(b)
  PROVE  QueryInv(p)'
<1>1. PICK ok \in BOOLEAN :
        /\ real' = [real EXCEPT ![b].state = IF ok THEN "executable" ELSE "invalid"]
        /\ Program(p)!Takes(b, Program(p)!SeesEnd(Program(p)!Contiguous[b], ok))
  BY DEF Program!End
<1>2. real[b].state = "recording" /\ UNCHANGED <<frame, row, truth, submits>>
  BY DEF Program!End
<1> DEFINE b1 == [real[b] EXCEPT !.state = IF ok THEN "executable" ELSE "invalid"]
           r1 == Program(p)!SeesEnd(Program(p)!Contiguous[b], ok)
<1>0. QueryTypes(p) /\ QueryCurrent(p) /\ real[b] \in QueryBuffers
  BY DEF QueryInv, QueryTypes
<1>3. b1 \in QueryBuffers
  BY <1>0 DEF QueryBuffers
<1>4. ASSUME frame \in p.traced PROVE r1 \in QueryRecords \cup {QueryUnknown} /\ QueryGood(r1, b1)
  <2>1. Program(p)!Contiguous[b] \in QueryRecords \cup {QueryUnknown} /\ QueryGood(Program(p)!Contiguous[b], real[b])
    BY <1>0, <1>4, QueryContiguous
  <2> QED BY <1>0, <1>2, <2>1, QuerySees
<1>5. real' = [real EXCEPT ![b] = b1]
  BY <1>1
<1> HIDE DEF b1, r1
<1> QED BY <1>1, <1>2, <1>3, <1>4, <1>5, QueryQuiet DEF r1

LEMMA QueryResets ==
  ASSUME NEW p, QueryInv(p), NEW b \in p.buffers, Program(p)!Reset(b)
  PROVE  QueryInv(p)'
<1> DEFINE b1 == [state |-> "initial", cmds |-> <<>>]
           r1 == Program(p)!Contiguous[b]
<1>0. QueryTypes(p) /\ QueryCurrent(p)
  BY DEF QueryInv
<1>1. /\ real' = [real EXCEPT ![b] = b1]
      /\ Program(p)!Takes(b, r1) /\ UNCHANGED <<frame, row, truth, submits>>
  BY DEF Program!Reset
<1>2. b1 \in QueryBuffers
  BY DEF QueryBuffers
<1>3. ASSUME frame \in p.traced PROVE r1 \in QueryRecords \cup {QueryUnknown} /\ QueryGood(r1, b1)
  BY <1>0, <1>3, QueryContiguous DEF QueryGood
<1> HIDE DEF b1, r1
<1> QED BY <1>1, <1>2, <1>3, QueryQuiet

(* A submission leaves the recordings alone.                               *)
LEMMA QuerySubmits ==
  ASSUME NEW p, QueryInv(p), NEW b \in p.buffers,
         Program(p)!Takes(b, Program(p)!Contiguous[b]), UNCHANGED <<frame, real>>
  PROVE  /\ QueryCurrent(p)'
         /\ real' \in [p.buffers -> QueryBuffers]
         /\ seen' \in [p.buffers -> QueryRecords \cup {QueryUnknown}]
         /\ previous' \in 0 .. frame' /\ (previous' = 0 \/ previous' \in p.traced)
<1> DEFINE r1 == Program(p)!Contiguous[b]
<1>0. QueryTypes(p) /\ QueryCurrent(p) /\ real \in [p.buffers -> QueryBuffers]
  BY DEF QueryInv, QueryTypes
<1>1. ASSUME frame \in p.traced PROVE r1 \in QueryRecords \cup {QueryUnknown} /\ QueryGood(r1, real[b])
  BY <1>0, <1>1, QueryContiguous
<1>2. real' = [real EXCEPT ![b] = real[b]] /\ real[b] \in QueryBuffers
  BY <1>0
<1> HIDE DEF r1
<1> QED BY <1>0, <1>1, <1>2, QueryTakes DEF r1

(* What is counted of a submission is what was submitted.                  *)
LEMMA QueryCounts ==
  ASSUME NEW p, QueryInv(p), NEW b \in p.buffers, Program(p)!Submit(b)
  PROVE  /\ QueryInv(p)' /\ UNCHANGED real
         /\ row'.complete > row.complete =>
              real[b].state = "executable" /\ \A i \in 1 .. Len(real[b].cmds) : real[b].cmds[i] # "execute"
<1>0. QueryTypes(p) /\ QueryCurrent(p) /\ QuerySums
  BY DEF QueryInv
<1>1. /\ submits' = submits + 1 /\ real[b].state = "executable"
      /\ Program(p)!Takes(b, Program(p)!Contiguous[b]) /\ UNCHANGED <<frame, real>>
  BY DEF Program!Submit
<1>2. /\ QueryCurrent(p)'
      /\ real' \in [p.buffers -> QueryBuffers]
      /\ seen' \in [p.buffers -> QueryRecords \cup {QueryUnknown}]
      /\ previous' \in 0 .. frame' /\ (previous' = 0 \/ previous' \in p.traced)
  BY <1>1, QuerySubmits
<1>3. /\ submits \in Nat /\ real[b] \in QueryBuffers /\ real[b].cmds \in Seq(QueryCmds)
      /\ row \in [complete : Nat, incomplete : Nat, unsupported : Nat, cmds : Nat, barriers : Nat, queries : Nat]
      /\ truth \in [cmds : Nat, barriers : Nat, queries : Nat]
  BY <1>0 DEF QueryTypes, QueryBuffers
<1> DEFINE record == Program(p)!Contiguous[b]
           q == real[b].cmds
<1>4. /\ row' \in [complete : Nat, incomplete : Nat, unsupported : Nat, cmds : Nat, barriers : Nat, queries : Nat]
      /\ truth' \in [cmds : Nat, barriers : Nat, queries : Nat]
      /\ QuerySums'
      /\ row'.complete > row.complete => \A i \in 1 .. Len(q) : q[i] # "execute"
  <2>1. CASE frame \notin p.traced
    <3>1. row' = row /\ truth' = truth
      BY <2>1 DEF Program!Submit, Program!IsTraced
    <3> QED BY <1>0, <1>1, <1>3, <3>1 DEF QuerySums
  <2>2. CASE frame \in p.traced
    <3>1. record \in QueryRecords \cup {QueryUnknown} /\ QueryGood(record, real[b])
      BY <1>0, <2>2, QueryContiguous
    <3>2. seen'[b] = record
      <4>1. Program(p)!Contiguous \in [p.buffers -> QueryRecords \cup {QueryUnknown}]
        BY <1>0, <2>2, QueryContiguous
      <4>2. seen' = [Program(p)!Contiguous EXCEPT ![b] = Program(p)!Contiguous[b]]
        BY <1>1, <2>2 DEF Program!Takes, Program!IsTraced
      <4> QED BY <4>1, <4>2
    <3>3. CASE Program(p)!Vouches(record)
      <4>1. /\ row' = [row EXCEPT !.complete = @ + 1, !.cmds = @ + record.cmds,
                          !.barriers = @ + record.barriers, !.queries = @ + record.queries]
            /\ truth' = [cmds |-> truth.cmds + Len(q), barriers |-> truth.barriers + Program(p)!InPass(q, "barrier"),
                          queries |-> truth.queries + Program(p)!InPass(q, "query")]
        BY <2>2, <3>2, <3>3 DEF Program!Submit, Program!IsTraced
      <4>2. record.known /\ ~ record.secondary
        BY <3>3 DEF Program!Vouches
      <4>3. QueryMatches(record, q)
        BY <1>1, <3>1, <4>2 DEF QueryGood
      <4>4. /\ record.cmds = Len(q) /\ record.barriers = Program(p)!InPass(q, "barrier")
            /\ record.queries = Program(p)!InPass(q, "query")
        <5>1. /\ Program(p)!InPass(q, "barrier") = Cardinality(QueryPass(q, "barrier"))
              /\ Program(p)!InPass(q, "query") = Cardinality(QueryPass(q, "query"))
          BY <1>3, QueryNames
        <5> QED BY <4>3, <5>1 DEF QueryMatches
      <4>5. record.cmds \in Nat /\ record.barriers \in Nat /\ record.queries \in Nat
        <5>1. record \in QueryRecords
          BY <3>1, <4>2 DEF QueryUnknown
        <5> HIDE DEF record
        <5> QED BY <5>1 DEF QueryRecords
      <4>6. \A i \in 1 .. Len(q) : q[i] # "execute"
        BY <4>2, <4>3 DEF QueryMatches
      <4> HIDE DEF record, q
      <4>7. /\ row.cmds = truth.cmds /\ row.barriers = truth.barriers /\ row.queries = truth.queries
            /\ row.complete + row.incomplete + row.unsupported <= submits
        BY <1>0 DEF QuerySums
      <4>8. row' = [complete |-> row.complete + 1, incomplete |-> row.incomplete,
                    unsupported |-> row.unsupported, cmds |-> row.cmds + record.cmds,
                    barriers |-> row.barriers + record.barriers, queries |-> row.queries + record.queries]
        BY <1>3, <4>1
      <4>9. truth' = [cmds |-> truth.cmds + record.cmds, barriers |-> truth.barriers + record.barriers,
                      queries |-> truth.queries + record.queries]
        BY <1>3, <4>1, <4>4
      <4>11. /\ row.complete \in Nat /\ row.incomplete \in Nat /\ row.unsupported \in Nat
             /\ row.cmds \in Nat /\ row.barriers \in Nat /\ row.queries \in Nat
        BY <1>3
      <4>12. truth.cmds \in Nat /\ truth.barriers \in Nat /\ truth.queries \in Nat
        BY <1>3
      <4>13. /\ row' \in [complete : Nat, incomplete : Nat, unsupported : Nat, cmds : Nat, barriers : Nat, queries : Nat]
             /\ truth' \in [cmds : Nat, barriers : Nat, queries : Nat]
        BY <4>5, <4>8, <4>9, <4>11, <4>12
      <4>10. QuerySums'
        BY <1>1, <1>3, <4>7, <4>8, <4>9, <4>11 DEF QuerySums
      <4> QED BY <4>6, <4>10, <4>13 DEF q
    <3>4. CASE ~ Program(p)!Vouches(record)
      <4>1. row' = [row EXCEPT !.incomplete = @ + 1] /\ truth' = truth
        BY <2>2, <3>2, <3>4 DEF Program!Submit, Program!IsTraced
      <4>2. row' = [complete |-> row.complete, incomplete |-> row.incomplete + 1,
                    unsupported |-> row.unsupported, cmds |-> row.cmds,
                    barriers |-> row.barriers, queries |-> row.queries]
        BY <1>3, <4>1
      <4>3. /\ row.complete \in Nat /\ row.incomplete \in Nat /\ row.unsupported \in Nat
            /\ row.cmds \in Nat /\ row.barriers \in Nat /\ row.queries \in Nat
        BY <1>3
      <4>4. /\ row.cmds = truth.cmds /\ row.barriers = truth.barriers /\ row.queries = truth.queries
            /\ row.complete + row.incomplete + row.unsupported <= submits
        BY <1>0 DEF QuerySums
      <4>5. QuerySums'
        BY <1>1, <1>3, <4>1, <4>2, <4>3, <4>4 DEF QuerySums
      <4>6. row'.complete = row.complete
        BY <4>2
      <4>7. row' \in [complete : Nat, incomplete : Nat, unsupported : Nat, cmds : Nat, barriers : Nat, queries : Nat]
        BY <4>2, <4>3
      <4>8. ~ (row'.complete > row.complete)
        BY <4>3, <4>6
      <4> QED BY <1>3, <4>1, <4>5, <4>7, <4>8
    <3> QED BY <3>3, <3>4
  <2> QED BY <2>1, <2>2
<1>5. QueryTypes(p)'
  <2>1. frame' \in 1 .. p.frames /\ submits' \in Nat
    BY <1>0, <1>1, <1>3 DEF QueryTypes
  <2> QED BY <1>2, <1>4, <2>1 DEF QueryTypes
<1> QED BY <1>1, <1>2, <1>4, <1>5 DEF QueryInv

LEMMA QueryRefuses ==
  ASSUME NEW p, QueryInv(p), NEW b \in p.buffers, Program(p)!SubmitUnsupported(b)
  PROVE  QueryInv(p)'
<1>0. QueryTypes(p) /\ QueryCurrent(p) /\ QuerySums
  BY DEF QueryInv
<1>1. /\ submits' = submits + 1 /\ Program(p)!Takes(b, Program(p)!Contiguous[b]) /\ UNCHANGED <<frame, real, truth>>
      /\ row' = IF frame \in p.traced THEN [row EXCEPT !.unsupported = @ + 1] ELSE row
  BY DEF Program!SubmitUnsupported, Program!IsTraced
<1>2. /\ QueryCurrent(p)'
      /\ real' \in [p.buffers -> QueryBuffers]
      /\ seen' \in [p.buffers -> QueryRecords \cup {QueryUnknown}]
      /\ previous' \in 0 .. frame' /\ (previous' = 0 \/ previous' \in p.traced)
  BY <1>1, QuerySubmits
<1>3. /\ submits \in Nat
      /\ row \in [complete : Nat, incomplete : Nat, unsupported : Nat, cmds : Nat, barriers : Nat, queries : Nat]
  BY <1>0 DEF QueryTypes
<1>4. QuerySums'
  BY <1>0, <1>1, <1>3 DEF QuerySums
<1>5. row' \in [complete : Nat, incomplete : Nat, unsupported : Nat, cmds : Nat, barriers : Nat, queries : Nat]
  BY <1>1, <1>3
<1>6. QueryTypes(p)'
  BY <1>0, <1>1, <1>2, <1>3, <1>5 DEF QueryTypes
<1> QED BY <1>2, <1>4, <1>6 DEF QueryInv

LEMMA QueryFrames ==
  ASSUME NEW p \in Programs, QueryInv(p), Program(p)!NextFrame
  PROVE  QueryInv(p)'
<1>0. QueryTypes(p) /\ QueryCurrent(p) /\ QuerySums /\ p.frames \in Nat
  BY ProgramsAssumption DEF QueryInv
<1>1. /\ frame < p.frames /\ frame' = frame + 1
      /\ UNCHANGED <<real, seen, previous, row, truth, submits>>
  BY DEF Program!NextFrame
<1>2. QueryTypes(p)'
  BY <1>0, <1>1 DEF QueryTypes
<1>3. frame \in Nat /\ \A f \in 1 .. frame : f \in 1 .. frame'
  BY <1>0, <1>1 DEF QueryTypes
<1>4. QueryCurrent(p)'
  BY <1>0, <1>1, <1>3 DEF QueryCurrent
<1> QED BY <1>0, <1>1, <1>2, <1>4 DEF QueryInv, QuerySums

LEMMA QueryCompletes ==
  ASSUME NEW p, QueryInv(p)
  PROVE  Program(p)!NoSecondaryCompletes
<1> SUFFICES ASSUME NEW b \in p.buffers, Program(p)!Submit(b), row'.complete > row.complete
             PROVE  \A i \in DOMAIN real[b].cmds : real[b].cmds[i] # "execute"
  BY DEF Program!NoSecondaryCompletes
<1>1. \A i \in 1 .. Len(real[b].cmds) : real[b].cmds[i] # "execute"
  BY QueryCounts
<1>2. real[b].cmds \in Seq(QueryCmds)
  BY DEF QueryInv, QueryTypes, QueryBuffers
<1> QED BY <1>1, <1>2

LEMMA QueryStep ==
  ASSUME NEW p \in Programs, QueryInv(p), Program(p)!Next
  PROVE  QueryInv(p)'
<1>1. CASE \E b \in p.buffers : Program(p)!Begin(b) \/ Program(p)!End(b) \/ Program(p)!Reset(b)
  BY <1>1, QueryBegins, QueryEnds, QueryResets
<1>2. CASE \E b \in p.buffers, c \in QueryCmds : Program(p)!Cmd(b, c)
  BY <1>2, QueryCommands
<1>3. CASE \E b \in p.buffers : Program(p)!Submit(b)
  BY <1>3, QueryCounts
<1>4. CASE \E b \in p.buffers : Program(p)!SubmitUnsupported(b)
  BY <1>4, QueryRefuses
<1>5. CASE Program(p)!NextFrame
  BY <1>5, QueryFrames
<1> QED BY <1>1, <1>2, <1>3, <1>4, <1>5 DEF Program!Next, Program!Cmds, QueryCmds

LEMMA QuerySame ==
  ASSUME NEW p, QueryInv(p), UNCHANGED program
  PROVE  QueryInv(p)'
BY DEF QueryInv, QueryTypes, QueryCurrent, QuerySums, program

LEMMA QueryGoal ==
  ASSUME NEW p \in Programs, QueryInv(p)
  PROVE  Program(p)!TypeOK /\ Program(p)!CompleteIsTheTruth /\ Program(p)!VouchedIsCurrent
<1>0. QueryTypes(p) /\ QueryCurrent(p) /\ QuerySums
  BY DEF QueryInv
<1>1. ASSUME NEW b \in p.buffers, seen[b].known PROVE seen[b].barriers + seen[b].queries <= seen[b].cmds
  <2>1. seen[b] \in QueryRecords
    BY <1>0, <1>1 DEF QueryTypes, QueryUnknown
  <2> QED BY <2>1 DEF QueryRecords
<1>2. Program(p)!TypeOK
  BY <1>0, <1>1 DEF Program!TypeOK, QueryTypes, QuerySums
<1>3. Program(p)!CompleteIsTheTruth
  BY <1>0 DEF Program!CompleteIsTheTruth, QuerySums
<1>4. ASSUME frame \in p.traced, NEW b \in p.buffers, Program(p)!Vouches(Program(p)!Contiguous[b])
      PROVE  \/ real[b].state = "executable" /\ Len(real[b].cmds) = Program(p)!Contiguous[b].cmds
             \/ real[b].state = "initial"
  <2>1. QueryGood(Program(p)!Contiguous[b], real[b])
    BY <1>0, <1>4, QueryContiguous
  <2>2. real[b].state \in {"initial", "recording", "executable", "invalid"}
    BY <1>0 DEF QueryTypes, QueryBuffers
  <2> QED BY <1>4, <2>1, <2>2 DEF Program!Vouches, QueryGood, QueryMatches
<1>5. Program(p)!VouchedIsCurrent
  BY <1>4 DEF Program!VouchedIsCurrent, Program!IsTraced
<1> QED BY <1>2, <1>3, <1>5

-----------------------------------------------------------------------------
(* Pairs of shaders: IsaPairs                                              *)

(* Sizes are the same on both sides of an instance.                        *)
LEMMA PairSize ==
  ASSUME NEW x, NEW S
  PROVE  Pairing(x)!Cardinality(S) = Cardinality(S)
BY DEF Pairing!Cardinality, Cardinality

LEMMA UpTo ==
  ASSUME NEW n \in Nat
  PROVE  /\ IsFiniteSet(1 .. n) /\ Cardinality(1 .. n) = n
         /\ IsFiniteSet(0 .. n - 1) /\ Cardinality(0 .. n - 1) = n
<1>1. 0 \in Int /\ 1 \in Int /\ n \in Int /\ n - 1 \in Int
  OBVIOUS
<1>2. IsFiniteSet(1 .. n) /\ Cardinality(1 .. n) = IF 1 > n THEN 0 ELSE n - 1 + 1
  BY <1>1, FS_Interval
<1>3. IsFiniteSet(0 .. n - 1) /\ Cardinality(0 .. n - 1) = IF 0 > n - 1 THEN 0 ELSE n - 1 - 0 + 1
  BY <1>1, FS_Interval
<1> QED BY <1>2, <1>3

(* What a function makes of a finite set.                                  *)
LEMMA ImageOf ==
  ASSUME NEW S, IsFiniteSet(S), NEW f, NEW T, \A i \in S : f[i] \in T, \A t \in T : \E i \in S : f[i] = t
  PROVE  /\ IsFiniteSet(T) /\ Cardinality(T) \in Nat /\ Cardinality(T) <= Cardinality(S)
         /\ (\A i, j \in S : f[i] = f[j] => i = j) => Cardinality(T) = Cardinality(S)
<1> DEFINE g == [i \in S |-> f[i]]
<1>1. g \in Surjection(S, T)
  BY DEF Surjection
<1>2. (\A i, j \in S : f[i] = f[j] => i = j) => g \in Injection(S, T)
  BY <1>1 DEF Surjection, Injection, IsInjective
<1> QED BY <1>1, <1>2, FS_Surjection, FS_CardinalityType

(* No more of the one than of the other.                                   *)
LEMMA NoMoreThan ==
  ASSUME NEW S, NEW T, IsFiniteSet(T), NEW f, \A i \in S : f[i] \in T,
         \A i, j \in S : f[i] = f[j] => i = j
  PROVE  IsFiniteSet(S) /\ Cardinality(S) \in Nat /\ Cardinality(S) <= Cardinality(T)
<1> DEFINE g == [i \in S |-> f[i]]
<1>1. g \in Injection(S, T)
  BY DEF Injection, IsInjective
<1> QED BY <1>1, FS_Injection, FS_CardinalityType

(* One of any two is before the other, and there are no circles.           *)
OrdersAll(S, before) ==
  /\ \A a \in S : <<a, a>> \notin before
  /\ \A a, b \in S : a = b \/ <<a, b>> \in before \/ <<b, a>> \in before
  /\ \A a, b, c \in S : <<a, b>> \in before /\ <<b, c>> \in before => <<a, c>> \in before

RankIn(S, before, a) == Cardinality({y \in S : <<y, a>> \in before})

LEMMA Ranks ==
  ASSUME NEW S, IsFiniteSet(S), NEW B, OrdersAll(S, B)
  PROVE  /\ Cardinality(S) \in Nat
         /\ \A a \in S : RankIn(S, B, a) \in 0 .. Cardinality(S) - 1
         /\ \A a, b \in S : <<a, b>> \in B => RankIn(S, B, a) < RankIn(S, B, b)
         /\ \A a, b \in S : RankIn(S, B, a) = RankIn(S, B, b) => a = b
         /\ \A k \in 0 .. Cardinality(S) - 1 : \E a \in S : RankIn(S, B, a) = k
<1> DEFINE Ahead(a) == {y \in S : <<y, a>> \in B}
<1>1. Cardinality(S) \in Nat
  BY FS_CardinalityType
<1>2. ASSUME NEW a \in S PROVE RankIn(S, B, a) \in 0 .. Cardinality(S) - 1
  <2>1. Ahead(a) \in SUBSET S /\ a \notin Ahead(a)
    BY DEF OrdersAll
  <2>2. IsFiniteSet(Ahead(a)) /\ Cardinality(Ahead(a)) \in Nat
    BY <2>1, FS_Subset, FS_CardinalityType
  <2>3. Cardinality(Ahead(a)) <= Cardinality(S) /\ Cardinality(Ahead(a)) # Cardinality(S)
    BY <2>1, FS_Subset
  <2> QED BY <1>1, <2>2, <2>3 DEF RankIn
<1>3. ASSUME NEW a \in S, NEW b \in S, <<a, b>> \in B PROVE RankIn(S, B, a) < RankIn(S, B, b)
  <2>1. Ahead(a) \in SUBSET Ahead(b) /\ a \in Ahead(b) /\ a \notin Ahead(a) /\ Ahead(b) \in SUBSET S
    BY <1>3 DEF OrdersAll
  <2>2. IsFiniteSet(Ahead(b))
    BY <2>1, FS_Subset
  <2>3. Cardinality(Ahead(a)) <= Cardinality(Ahead(b)) /\ Cardinality(Ahead(a)) # Cardinality(Ahead(b))
    BY <2>1, <2>2, FS_Subset
  <2> QED BY <1>2, <2>3 DEF RankIn
<1>4. ASSUME NEW a \in S, NEW b \in S, RankIn(S, B, a) = RankIn(S, B, b) PROVE a = b
  <2>1. a = b \/ <<a, b>> \in B \/ <<b, a>> \in B
    BY DEF OrdersAll
  <2> QED BY <1>2, <1>3, <1>4, <2>1
<1>5. ASSUME NEW k \in 0 .. Cardinality(S) - 1 PROVE \E a \in S : RankIn(S, B, a) = k
  <2> DEFINE f == [a \in S |-> RankIn(S, B, a)]
             N == 0 .. Cardinality(S) - 1
  <2>1. IsFiniteSet(N) /\ Cardinality(N) = Cardinality(S)
    BY <1>1, UpTo
  <2>2. f \in Injection(S, N)
    BY <1>2, <1>4 DEF Injection, IsInjective
  <2>3. f \in Surjection(S, N)
    BY <2>1, <2>2, FS_Injection
  <2> QED BY <2>3 DEF Surjection
<1> QED BY <1>1, <1>2, <1>3, <1>4, <1>5

LEMMA RanksReach ==
  ASSUME NEW S, IsFiniteSet(S), NEW B, OrdersAll(S, B)
  PROVE  \A k \in 0 .. Cardinality(S) - 1 : \E a \in S : RankIn(S, B, a) = k
BY Ranks

(* One is before all others.                                               *)
LEMMA FirstOf ==
  ASSUME NEW S, IsFiniteSet(S), S # {}, NEW B, OrdersAll(S, B)
  PROVE  \E a \in S : \A b \in S \ {a} : <<a, b>> \in B
<1>1. Cardinality(S) \in Nat /\ Cardinality(S) # 0
  BY FS_CardinalityType, FS_EmptySet
<1>2. 0 \in 0 .. Cardinality(S) - 1
  BY <1>1
<1>3. PICK a \in S : RankIn(S, B, a) = 0
  BY <1>2, Ranks
<1>4. {y \in S : <<y, a>> \in B} = {}
  <2> DEFINE A == {y \in S : <<y, a>> \in B}
  <2>1. IsFiniteSet(A)
    BY FS_Subset
  <2> QED BY <1>3, <2>1, FS_EmptySet DEF RankIn
<1> QED BY <1>3, <1>4 DEF OrdersAll

(* A list of all, in their order.                                          *)
ListsAll(q, n, S, before) ==
  /\ n \in Nat /\ q \in [1 .. n -> S]
  /\ \A i, j \in 1 .. n : i < j => <<q[i], q[j]>> \in before
  /\ \A i, j \in 1 .. n : q[i] = q[j] => i = j
  /\ \A a \in S : \E i \in 1 .. n : q[i] = a
  /\ \A i \in 1 .. n : RankIn(S, before, q[i]) = i - 1

LEMMA ListIs ==
  ASSUME NEW S, IsFiniteSet(S), NEW B, OrdersAll(S, B), NEW q,
         q = [k \in 1 .. Cardinality(S) |-> CHOOSE a \in S : RankIn(S, B, a) = k - 1]
  PROVE  ListsAll(q, Cardinality(S), S, B)
<1> DEFINE n == Cardinality(S)
<1>1. /\ n \in Nat
      /\ \A a \in S : RankIn(S, B, a) \in 0 .. n - 1
      /\ \A a, b \in S : <<a, b>> \in B => RankIn(S, B, a) < RankIn(S, B, b)
      /\ \A a, b \in S : RankIn(S, B, a) = RankIn(S, B, b) => a = b
      /\ \A k \in 0 .. n - 1 : \E a \in S : RankIn(S, B, a) = k
  BY Ranks
<1> HIDE DEF n
<1>2. q = [k \in 1 .. n |-> CHOOSE a \in S : RankIn(S, B, a) = k - 1]
  BY DEF n
<1>3. ASSUME NEW i \in 1 .. n PROVE q[i] \in S /\ RankIn(S, B, q[i]) = i - 1
  <2>1. i - 1 \in 0 .. n - 1
    BY <1>1
  <2>2. \E a \in S : RankIn(S, B, a) = i - 1
    BY <1>1, <2>1
  <2>3. q[i] = CHOOSE a \in S : RankIn(S, B, a) = i - 1
    BY <1>2
  <2> QED BY <2>2, <2>3
<1>4. q \in [1 .. n -> S]
  BY <1>2, <1>3
<1>5. ASSUME NEW i \in 1 .. n, NEW j \in 1 .. n, q[i] = q[j] PROVE i = j
  BY <1>1, <1>3, <1>5
<1>6. ASSUME NEW i \in 1 .. n, NEW j \in 1 .. n, i < j PROVE <<q[i], q[j]>> \in B
  <2>0. i \in Int /\ j \in Int /\ i # j
    BY <1>1, <1>6
  <2>1. q[i] # q[j] /\ q[i] \in S /\ q[j] \in S
    BY <1>3, <1>5, <2>0
  <2>2. <<q[j], q[i]>> \in B => RankIn(S, B, q[j]) < RankIn(S, B, q[i])
    BY <1>1, <2>1
  <2>3. RankIn(S, B, q[j]) = j - 1 /\ RankIn(S, B, q[i]) = i - 1
    BY <1>3
  <2>4. i \in Int /\ j \in Int
    OBVIOUS
  <2>5. ~ (<<q[j], q[i]>> \in B)
    BY <1>6, <2>2, <2>3, <2>4
  <2> QED BY <2>1, <2>5 DEF OrdersAll
<1>7. ASSUME NEW a \in S PROVE \E i \in 1 .. n : q[i] = a
  <2>1. RankIn(S, B, a) \in 0 .. n - 1
    BY <1>1
  <2> DEFINE i == RankIn(S, B, a) + 1
  <2>2. i \in 1 .. n /\ i - 1 = RankIn(S, B, a)
    BY <1>1, <2>1
  <2>3. q[i] = a
    BY <1>1, <1>3, <2>2
  <2> QED BY <2>2, <2>3
<1> QED BY <1>1, <1>3, <1>4, <1>5, <1>6, <1>7 DEF ListsAll, n

LEMMA InOrderIs ==
  ASSUME NEW x, NEW S, IsFiniteSet(S), NEW B, OrdersAll(S, B)
  PROVE  ListsAll(Pairing(x)!InOrder(S, B), Cardinality(S), S, B)
<1>1. Pairing(x)!InOrder(S, B) = [k \in 1 .. Cardinality(S) |-> CHOOSE a \in S : RankIn(S, B, a) = k - 1]
  BY DEF Pairing!InOrder, RankIn, Pairing!Cardinality, Cardinality
<1> QED BY <1>1, ListIs

(* Indices in a list, those of a set of numbers, ranked by where they are. *)
LEMMA AscendingOrders ==
  ASSUME NEW S, S \subseteq Nat, NEW B, \A i, j \in S : <<i, j>> \in B <=> i < j
  PROVE  OrdersAll(S, B)
BY DEF OrdersAll

LEMMA LeastIs ==
  ASSUME NEW x, NEW T, T \subseteq Nat, T # {}
  PROVE  Pairing(x)!Least(T) \in T /\ \A m \in T : Pairing(x)!Least(T) <= m
<1>1. \E k \in T : \A m \in T : k <= m
  BY LeastNumber
<1> QED BY <1>1 DEF Pairing!Least

LEMMA ItemsOf ==
  ASSUME NEW x, NEW n \in Nat, NEW S, NEW q \in [1 .. n -> S]
  PROVE  /\ Pairing(x)!Items(q) = {q[k] : k \in 1 .. n} /\ DOMAIN q = 1 .. n
         /\ q \in Seq(S) /\ Len(q) = n
<1>1. q \in Seq(S)
  BY DEF Seq
<1> QED BY <1>1 DEF Pairing!Items
-----------------------------------------------------------------------------
(* A score is a number                                                     *)

LEMMA CountIs ==
  ASSUME NEW x, NEW text, IsFiniteSet(DOMAIN text), NEW op, NEW w
  PROVE  /\ Pairing(x)!Cls(text, op) \in Nat /\ Pairing(x)!Imm(text, op) \in Nat
         /\ Pairing(x)!Widths(text, op, w) \in Nat
<1>1. \A T \in SUBSET DOMAIN text : Cardinality(T) \in Nat
  BY FS_Subset, FS_CardinalityType
<1> QED BY <1>1, PairSize DEF Pairing!Cls, Pairing!Imm, Pairing!Widths

LEMMA Quotient ==
  ASSUME NEW a \in Int, NEW b \in Nat, b # 0
  PROVE  a \div b \in Int
OBVIOUS

LEMMA ClosenessIs ==
  ASSUME NEW x, NEW a \in Nat, NEW b \in Nat
  PROVE  Pairing(x)!Closeness(a, b) \in Int
<1> DEFINE least == Pairing(x)!Lesser(a, b)
<1>1. Pairing(x)!Unit \in Int /\ least \in Int
  BY DEF Pairing!Unit, Pairing!Lesser
<1>2. 2 * Pairing(x)!Unit * least \in Int
  BY <1>1
<1>3. CASE a = 0 /\ b = 0
  BY <1>1, <1>3 DEF Pairing!Closeness
<1>4. CASE ~ (a = 0 /\ b = 0)
  <2>1. a + b \in Nat /\ a + b # 0
    BY <1>4
  <2>2. (2 * Pairing(x)!Unit * least) \div (a + b) \in Int
    BY <1>2, <2>1, Quotient
  <2> QED BY <1>4, <2>2 DEF Pairing!Closeness
<1> QED BY <1>3, <1>4

LEMMA CopiesFinite ==
  ASSUME NEW x, NEW values, IsFiniteSet(values), NEW count, \A v \in values : count[v] \in Nat
  PROVE  IsFiniteSet(Pairing(x)!Copies(values, count))
<1> DEFINE S == {{v} \X (1 .. count[v]) : v \in values}
           f == [v \in values |-> {v} \X (1 .. count[v])]
<1>1. IsFiniteSet(S)
  <2>1. (\A v \in values : f[v] \in S) /\ (\A T \in S : \E v \in values : f[v] = T)
    OBVIOUS
  <2> HIDE DEF S, f
  <2> QED BY <2>1, ImageOf
<1>2. ASSUME NEW v \in values PROVE IsFiniteSet({v} \X (1 .. count[v]))
  <2>1. IsFiniteSet({v}) /\ IsFiniteSet(1 .. count[v])
    BY FS_Singleton, UpTo
  <2> QED BY <2>1, FS_Product
<1>3. \A T \in S : IsFiniteSet(T)
  BY <1>2
<1>4. IsFiniteSet(UNION S)
  BY <1>1, <1>3, FS_UNION
<1> QED BY <1>4 DEF Pairing!Copies

LEMMA MsSimIs ==
  ASSUME NEW x, NEW values, IsFiniteSet(values), NEW f, NEW g,
         \A v \in values : f[v] \in Nat /\ g[v] \in Nat
  PROVE  Pairing(x)!MsSim(values, f, g) \in Int
<1> DEFINE F == Pairing(x)!Copies(values, f)
           G == Pairing(x)!Copies(values, g)
           inter == Cardinality(F \cap G)
           union == Cardinality(F \cup G)
<1>1. IsFiniteSet(F) /\ IsFiniteSet(G)
  BY CopiesFinite
<1> HIDE DEF F, G
<1>2. inter \in Nat /\ union \in Nat
  BY <1>1, FS_Union, FS_Intersection, FS_CardinalityType
<1>3. Pairing(x)!MsSim(values, f, g) = IF union = 0 THEN Pairing(x)!Unit ELSE (Pairing(x)!Unit * inter) \div union
  BY PairSize DEF Pairing!MsSim, F, G
<1>4. Pairing(x)!Unit \in Int
  BY DEF Pairing!Unit
<1> HIDE DEF inter, union
<1>5. Pairing(x)!Unit * inter \in Int
  BY <1>2, <1>4
<1>6. union # 0 => (Pairing(x)!Unit * inter) \div union \in Int
  BY <1>2, <1>5, Quotient
<1> QED BY <1>3, <1>4, <1>6

IsText(text) == IsFiniteSet(DOMAIN text) /\ Len(text) \in Nat

LEMMA ItemsFinite ==
  ASSUME NEW x, NEW list, IsFiniteSet(DOMAIN list)
  PROVE  IsFiniteSet(Pairing(x)!Items(list))
<1> DEFINE T == {list[k] : k \in DOMAIN list}
<1>1. IsFiniteSet(T)
  <2>1. (\A k \in DOMAIN list : list[k] \in T) /\ (\A t \in T : \E k \in DOMAIN list : list[k] = t)
    OBVIOUS
  <2> QED BY <2>1, ImageOf
<1> QED BY <1>1 DEF Pairing!Items

LEMMA ImmSimIs ==
  ASSUME NEW x, NEW a, NEW b, IsText(a.text), IsText(b.text)
  PROVE  Pairing(x)!ImmSim(a, b) \in Int
<1> DEFINE I == Pairing(x)!Items(a.text) \cup Pairing(x)!Items(b.text)
           H == {i.hex : i \in I}
           hexes == H \ {0}
           h == [i \in I |-> i.hex]
           p == [e \in hexes |-> Pairing(x)!Imm(a.text, e)]
           q == [e \in hexes |-> Pairing(x)!Imm(b.text, e)]
<1>1. IsFiniteSet(I)
  BY ItemsFinite, FS_Union DEF IsText
<1>2. IsFiniteSet(H)
  <2>1. (\A i \in I : h[i] \in H) /\ (\A e \in H : \E i \in I : h[i] = e)
    OBVIOUS
  <2> HIDE DEF I, H, h
  <2> QED BY <1>1, <2>1, ImageOf
<1>3. IsFiniteSet(hexes)
  BY <1>2, FS_Subset
<1>4. Pairing(x)!ImmSim(a, b) = Pairing(x)!MsSim(hexes, p, q)
  BY DEF Pairing!ImmSim
<1>5. \A e \in hexes : p[e] \in Nat /\ q[e] \in Nat
  BY CountIs DEF IsText
<1> HIDE DEF hexes, p, q
<1> QED BY <1>3, <1>4, <1>5, MsSimIs

LEMMA WidthSimIs ==
  ASSUME NEW x, NEW a, NEW b, IsText(a.text), IsText(b.text), NEW op
  PROVE  Pairing(x)!WidthSim(a, b, op) \in Int
<1> DEFINE p == [w \in 1 .. 4 |-> Pairing(x)!Widths(a.text, op, w)]
           q == [w \in 1 .. 4 |-> Pairing(x)!Widths(b.text, op, w)]
<1>1. IsFiniteSet(1 .. 4)
  BY UpTo
<1>2. \A w \in 1 .. 4 : p[w] \in Nat /\ q[w] \in Nat
  BY CountIs DEF IsText
<1>3. Pairing(x)!WidthSim(a, b, op) = Pairing(x)!MsSim(1 .. 4, p, q)
  BY DEF Pairing!WidthSim
<1> HIDE DEF p, q
<1> QED BY <1>1, <1>2, <1>3, MsSimIs

LEMMA ScoreIs ==
  ASSUME NEW x, NEW a, NEW b, IsText(a.text), IsText(b.text)
  PROVE  Pairing(x)!Final(a, b) \in Int
<1> DEFINE close(op) == Pairing(x)!Closeness(Pairing(x)!Cls(a.text, op), Pairing(x)!Cls(b.text, op))
           instr == Pairing(x)!Closeness(Len(a.text), Len(b.text))
<1>1. \A op : close(op) \in Int
  BY CountIs, ClosenessIs DEF IsText
<1>2. instr \in Int
  BY ClosenessIs DEF IsText
<1>3. \A op : Pairing(x)!WidthSim(a, b, op) \in Int
  BY WidthSimIs
<1>4. Pairing(x)!Base(a, b) =
        IF a.stage = "Fragment"
          THEN 17 * (6 * close("TEX") + 4 * close("LD_VAR") + 4 * Pairing(x)!WidthSim(a, b, "LD_VAR")
                     + 3 * close("FMA") + instr)
          ELSE 18 * (6 * Pairing(x)!WidthSim(a, b, "LD_ATTR") + 4 * close("LD_ATTR") + 4 * close("FMA")
                     + 2 * close("STORE") + instr)
  BY DEF Pairing!Base
<1> HIDE DEF close, instr
<1>5. Pairing(x)!Base(a, b) \in Int
  <2>1. /\ close("TEX") \in Int /\ close("LD_VAR") \in Int /\ close("FMA") \in Int
        /\ close("LD_ATTR") \in Int /\ close("STORE") \in Int
        /\ Pairing(x)!WidthSim(a, b, "LD_VAR") \in Int /\ Pairing(x)!WidthSim(a, b, "LD_ATTR") \in Int
    BY <1>1, <1>3
  <2> QED BY <1>2, <1>4, <2>1
<1>6. Pairing(x)!ImmSim(a, b) \in Int
  BY ImmSimIs
<1> QED BY <1>5, <1>6 DEF Pairing!Final
-----------------------------------------------------------------------------
(* The rows of a table                                                     *)

DumpOk(d) ==
  /\ d.uses \in Seq({d.uses[k] : k \in DOMAIN d.uses})
  /\ \A v \in DOMAIN d.code : d.code[v] \in Seq({d.code[v][k] : k \in DOMAIN d.code[v]})

IsRow(r) ==
  /\ r = [va |-> r.va, vas |-> r.vas, draws |-> r.draws, text |-> r.text, stage |-> r.stage,
          regs |-> r.regs, mixed |-> r.mixed, at |-> r.at]
  /\ r.draws \in Nat /\ IsText(r.text) /\ r.at \in Nat

LEMMA MoreDrawsOrders ==
  ASSUME NEW x, NEW S, \A r \in S : IsRow(r), \A r, s \in S : r.at = s.at => r = s
  PROVE  OrdersAll(S, Pairing(x)!ByDraws(S))
<1> DEFINE B == Pairing(x)!ByDraws(S)
           draws(r) == r.draws
           len(r) == Len(r.text)
           at(r) == r.at
           More(r, s) == \/ draws(r) > draws(s)
                         \/ draws(r) = draws(s) /\ len(r) > len(s)
                         \/ draws(r) = draws(s) /\ len(r) = len(s) /\ at(r) < at(s)
<1>1. \A r, s \in S : <<r, s>> \in B <=> More(r, s)
  BY DEF Pairing!ByDraws, Pairing!MoreDraws
<1>2. \A r \in S : draws(r) \in Nat /\ len(r) \in Nat /\ at(r) \in Nat
  BY DEF IsRow, IsText
<1>3. \A r, s \in S : at(r) = at(s) => r = s
  OBVIOUS
<1> HIDE DEF B, draws, len, at
<1>4. \A r \in S : <<r, r>> \notin B
  BY <1>1, <1>2
<1>5. ASSUME NEW r \in S, NEW s \in S PROVE r = s \/ <<r, s>> \in B \/ <<s, r>> \in B
  <2>1. /\ draws(r) \in Nat /\ len(r) \in Nat /\ at(r) \in Nat
        /\ draws(s) \in Nat /\ len(s) \in Nat /\ at(s) \in Nat
    BY <1>2
  <2>2. More(r, s) \/ More(s, r) \/ at(r) = at(s)
    BY <2>1
  <2> QED BY <1>1, <1>3, <2>2
<1>6. \A r, s, t \in S : <<r, s>> \in B /\ <<s, t>> \in B => <<r, t>> \in B
  BY <1>1, <1>2
<1> QED BY <1>4, <1>5, <1>6 DEF OrdersAll, B

Drawn(d) == {d.uses[k][3] : k \in DOMAIN d.uses} \cap DOMAIN d.code

LEMMA RowIs ==
  ASSUME NEW x, NEW d, DumpOk(d), NEW v \in Drawn(d)
  PROVE  LET r == Pairing(x)!Row(d, v)   T == Pairing(x)!UsesOf(d, v) IN
         /\ IsRow(r) /\ r.va = v /\ r.vas = {v} /\ r.draws = Cardinality(T)
         /\ r.at \in T /\ IsFiniteSet(T)
<1> DEFINE r == Pairing(x)!Row(d, v)
           T == Pairing(x)!UsesOf(d, v)
           text == d.code[v]
<1>1. r = [va |-> v, vas |-> {v}, draws |-> Cardinality(T), text |-> text,
           stage |-> Pairing(x)!MostOf(d, v, 1), regs |-> Pairing(x)!MostOf(d, v, 2),
           mixed |-> Cardinality({d.uses[k][2] : k \in T}) > 1, at |-> Pairing(x)!Least(T)]
  BY DEF Pairing!Row, Pairing!Cardinality, Cardinality
<1>2. DOMAIN d.uses = 1 .. Len(d.uses) /\ Len(d.uses) \in Nat
  BY DEF DumpOk
<1>3. T \subseteq DOMAIN d.uses /\ T # {}
  BY DEF Pairing!UsesOf, Drawn
<1>4. T \subseteq Nat /\ IsFiniteSet(T) /\ Cardinality(T) \in Nat
  <2>1. IsFiniteSet(1 .. Len(d.uses)) /\ 1 .. Len(d.uses) \subseteq Nat
    BY <1>2, UpTo
  <2>2. T \in SUBSET (1 .. Len(d.uses))
    BY <1>2, <1>3
  <2> HIDE DEF T
  <2> QED BY <2>1, <2>2, FS_Subset, FS_CardinalityType
<1>5. Pairing(x)!Least(T) \in T
  BY <1>3, <1>4, LeastIs
<1>6. IsText(text)
  <2>1. text \in Seq({text[k] : k \in DOMAIN text})
    BY DEF DumpOk, Drawn
  <2>2. DOMAIN text = 1 .. Len(text) /\ Len(text) \in Nat
    BY <2>1
  <2> QED BY <2>2, UpTo DEF IsText
<1> HIDE DEF T, r, text
<1>7. /\ r.va = v /\ r.vas = {v} /\ r.draws = Cardinality(T) /\ r.text = text
      /\ r.at = Pairing(x)!Least(T)
      /\ r = [va |-> r.va, vas |-> r.vas, draws |-> r.draws, text |-> r.text, stage |-> r.stage,
              regs |-> r.regs, mixed |-> r.mixed, at |-> r.at]
  BY <1>1
<1>8. IsRow(r)
  BY <1>4, <1>5, <1>6, <1>7 DEF IsRow
<1> QED BY <1>4, <1>5, <1>7, <1>8 DEF r, T

(* A table lists the rows, one for each address, most draws first.         *)
TableOf(x, d, list, n) ==
  LET R == Pairing(x)!Rows(d) IN
  /\ ListsAll(list, n, R, Pairing(x)!ByDraws(R))
  /\ DOMAIN list = 1 .. n /\ Len(list) = n /\ Pairing(x)!Items(list) = R
  /\ \A r \in R : r.va \in Drawn(d) /\ r = Pairing(x)!Row(d, r.va)
  /\ \A i, j \in 1 .. n : list[i].va = list[j].va => i = j
  /\ \A v \in Drawn(d) : \E i \in 1 .. n : list[i].va = v

LEMMA TableIs ==
  ASSUME NEW x, NEW d, DumpOk(d)
  PROVE  \E n \in Nat : TableOf(x, d, Pairing(x)!Build(d), n)
<1> DEFINE R == Pairing(x)!Rows(d)
           list == Pairing(x)!Build(d)
           n == Cardinality(R)
           V == Drawn(d)
           rows == [v \in V |-> Pairing(x)!Row(d, v)]
<1>1. R = {Pairing(x)!Row(d, v) : v \in V}
  BY DEF Pairing!Rows, Drawn
<1>2. \A r \in R : r.va \in V /\ r = Pairing(x)!Row(d, r.va)
  BY <1>1, RowIs
<1>3. IsFiniteSet(V)
  <2> DEFINE U == DOMAIN d.uses
             A == {d.uses[k][3] : k \in U}
             f == [k \in U |-> d.uses[k][3]]
  <2>1. IsFiniteSet(U)
    BY UpTo DEF DumpOk
  <2>2. (\A k \in U : f[k] \in A) /\ (\A t \in A : \E k \in U : f[k] = t)
    OBVIOUS
  <2>3. V \in SUBSET A
    BY DEF Drawn
  <2> HIDE DEF U, A, f
  <2>4. IsFiniteSet(A)
    BY <2>1, <2>2, ImageOf
  <2> QED BY <2>3, <2>4, FS_Subset
<1>4. IsFiniteSet(R)
  <2>1. (\A v \in V : rows[v] \in R) /\ (\A t \in R : \E v \in V : rows[v] = t)
    BY <1>1
  <2> QED BY <1>3, <2>1, ImageOf
<1>5. \A r \in R : IsRow(r)
  BY <1>1, RowIs
<1>6. ASSUME NEW r \in R, NEW s \in R, r.at = s.at PROVE r = s
  <2>1. r.at \in Pairing(x)!UsesOf(d, r.va) /\ s.at \in Pairing(x)!UsesOf(d, s.va)
    BY <1>2, RowIs
  <2>2. r.va = s.va
    BY <1>6, <2>1 DEF Pairing!UsesOf
  <2> QED BY <1>2, <2>2
<1>7. OrdersAll(R, Pairing(x)!ByDraws(R))
  BY <1>5, <1>6, MoreDrawsOrders
<1>8. ListsAll(list, n, R, Pairing(x)!ByDraws(R))
  BY <1>4, <1>7, InOrderIs DEF Pairing!Build
<1> HIDE DEF R, list, n, V
<1>9. n \in Nat /\ list \in [1 .. n -> R]
  BY <1>8 DEF ListsAll
<1>10. DOMAIN list = 1 .. n /\ Len(list) = n /\ Pairing(x)!Items(list) = R
  <2>0. list \in Seq(R)
    BY <1>9 DEF Seq
  <2>1. Pairing(x)!Items(list) = {list[k] : k \in 1 .. n} /\ DOMAIN list = 1 .. n /\ Len(list) = n
    BY <1>9, <2>0 DEF Pairing!Items
  <2>2. \A k \in 1 .. n : list[k] \in R
    BY <1>9
  <2>3. \A r \in R : \E k \in 1 .. n : list[k] = r
    BY <1>8 DEF ListsAll
  <2> QED BY <2>1, <2>2, <2>3
<1>11. ASSUME NEW i \in 1 .. n, NEW j \in 1 .. n, list[i].va = list[j].va PROVE i = j
  <2>1. list[i] \in R /\ list[j] \in R
    BY <1>9
  <2>2. list[i] = list[j]
    BY <1>2, <1>11, <2>1
  <2> QED BY <1>8, <2>2 DEF ListsAll
<1>12. ASSUME NEW v \in V PROVE \E i \in 1 .. n : list[i].va = v
  <2>1. Pairing(x)!Row(d, v) \in R /\ Pairing(x)!Row(d, v).va = v
    BY <1>1, RowIs DEF V
  <2> QED BY <1>8, <2>1 DEF ListsAll
<1>13. TableOf(x, d, list, n)
  BY <1>2, <1>8, <1>10, <1>11, <1>12 DEF TableOf, R, V
<1> QED BY <1>9, <1>13 DEF list

-----------------------------------------------------------------------------
(* The archetypes                                                          *)

(* Draws added up are those of all the sets that were counted.             *)
AllOf(W, some, n) == UNION {W[i] : i \in some \cap (1 .. n)}

LEMMA DrawsAdd ==
  ASSUME NEW x, NEW list, NEW n \in Nat, Len(list) = n, NEW some,
         NEW W, \A i \in 1 .. n : IsFiniteSet(W[i]) /\ list[i].draws = Cardinality(W[i]),
         \A i, j \in 1 .. n : i # j => W[i] \cap W[j] = {}
  PROVE  Pairing(x)!DrawsOf(list, some) = Cardinality(AllOf(W, some, n))
<1> DEFINE First(k) == UNION {W[i] : i \in some \cap (1 .. k)}
           g == [k \in 0 .. n |-> Cardinality(First(k))]
           Adds(k) == IF k \in some THEN list[k].draws ELSE 0
           Sums(f) == f = [k \in 0 .. n |-> IF k = 0 THEN 0 ELSE f[k - 1] + Adds(k)]
           sum == CHOOSE f : Sums(f)
<1>1. Pairing(x)!DrawsOf(list, some) = sum[n]
  BY DEF Pairing!DrawsOf
<1>2. ASSUME NEW k \in 0 .. n PROVE IsFiniteSet(First(k)) /\ g[k] = Cardinality(First(k)) /\ g[k] \in Nat
  <2> DEFINE I == some \cap (1 .. k)
             S == {W[i] : i \in I}
             f == [i \in I |-> W[i]]
  <2>0. k \in Nat
    OBVIOUS
  <2>1. IsFiniteSet(I)
    BY <2>0, UpTo, FS_Intersection
  <2>2. (\A i \in I : f[i] \in S) /\ (\A t \in S : \E i \in I : f[i] = t)
    OBVIOUS
  <2>3. \A t \in S : IsFiniteSet(t)
    OBVIOUS
  <2> HIDE DEF I, S, f
  <2>4. IsFiniteSet(S)
    BY <2>1, <2>2, ImageOf
  <2>5. IsFiniteSet(UNION S)
    BY <2>3, <2>4, FS_UNION
  <2> QED BY <2>5, FS_CardinalityType DEF S, I
<1>3. g[0] = 0
  BY FS_EmptySet
<1>4. ASSUME NEW k \in 1 .. n PROVE g[k] = g[k - 1] + Adds(k)
  <2>0. k \in 0 .. n /\ k - 1 \in 0 .. n
    OBVIOUS
  <2>1. CASE k \in some
    <3>1. First(k) = First(k - 1) \cup W[k]
      BY <2>1
    <3>2. First(k - 1) \cap W[k] = {}
      OBVIOUS
    <3>3. IsFiniteSet(W[k]) /\ Cardinality(W[k]) = Adds(k) /\ Cardinality(W[k]) \in Nat
      BY <2>1, FS_CardinalityType
    <3>4. /\ IsFiniteSet(First(k - 1)) /\ g[k] = Cardinality(First(k))
          /\ g[k - 1] = Cardinality(First(k - 1)) /\ g[k - 1] \in Nat
      BY <1>2, <2>0
    <3> HIDE DEF First, Adds, g
    <3>5. Cardinality(First(k)) = Cardinality(First(k - 1)) + Cardinality(W[k]) - Cardinality(First(k - 1) \cap W[k])
      BY <3>1, <3>3, <3>4, FS_Union
    <3>6. Cardinality(First(k - 1) \cap W[k]) = 0
      BY <3>2, FS_EmptySet
    <3>7. g[k] = g[k - 1] + Cardinality(W[k]) - 0
      BY <3>4, <3>5, <3>6
    <3>8. g[k] = g[k - 1] + Cardinality(W[k])
      BY <3>3, <3>4, <3>7
    <3> QED BY <3>3, <3>8
  <2>2. CASE k \notin some
    <3>1. First(k) = First(k - 1)
      BY <2>2
    <3>2. g[k] = g[k - 1] /\ g[k - 1] \in Nat
      BY <1>2, <2>0, <3>1
    <3>3. Adds(k) = 0
      BY <2>2
    <3> HIDE DEF g, Adds
    <3> QED BY <3>2, <3>3
  <2> QED BY <2>1, <2>2
<1> HIDE DEF First
<1>5. Sums(g)
  <2>1. g = [k \in 0 .. n |-> g[k]]
    OBVIOUS
  <2> HIDE DEF g
  <2>2. ASSUME NEW k \in 0 .. n PROVE g[k] = IF k = 0 THEN 0 ELSE g[k - 1] + Adds(k)
    <3>1. k = 0 \/ (k # 0 /\ k \in 1 .. n)
      OBVIOUS
    <3> QED BY <1>3, <1>4, <3>1
  <2> HIDE DEF Adds
  <2> QED BY <2>1, <2>2
<1>6. Sums(sum)
  <2> HIDE DEF Sums, g
  <2> QED BY <1>5
<1> HIDE DEF sum
<1>7. \A k \in 0 .. n : sum[k] = IF k = 0 THEN 0 ELSE sum[k - 1] + Adds(k)
  BY <1>6
<1> HIDE DEF Sums, g
<1>8. \A k \in 0 .. n : sum[k] = g[k]
  <2> DEFINE T == {k \in 0 .. n : sum[k] # g[k]}
  <2> SUFFICES ASSUME T # {} PROVE FALSE
    OBVIOUS
  <2>1. PICK k \in T : \A m \in T : k <= m
    <3>1. T \subseteq Nat
      OBVIOUS
    <3> QED BY <3>1, LeastNumber
  <2>2. k # 0
    BY <1>3, <1>7, <2>1
  <2>3. k \in 1 .. n /\ k - 1 \in 0 .. n /\ k - 1 \notin T
    BY <2>1, <2>2
  <2>4. sum[k - 1] = g[k - 1]
    BY <2>3
  <2>5. sum[k] = sum[k - 1] + Adds(k)
    BY <1>7, <2>2, <2>3
  <2> QED BY <1>4, <2>1, <2>3, <2>4, <2>5
<1>9. sum[n] = g[n] /\ g[n] = Cardinality(First(n))
  BY <1>2, <1>8
<1>10. First(n) = AllOf(W, some, n)
  BY DEF First, AllOf
<1> QED BY <1>1, <1>9, <1>10
(* The addresses of some rows, and what is drawn with those.               *)
VasOf(list, some) == {list[m].va : m \in some}
UsesIn(d, vas) == {k \in DOMAIN d.uses : d.uses[k][3] \in vas}

(* The shaders that have the same sequence of mnemonics, and the           *)
(* archetype they become.                                                  *)
GroupOf(x, list, some, k) == {m \in some : Pairing(x)!Key(list[m]) = Pairing(x)!Key(list[k])}
Heads(x, list, some) == {m \in some : m = Pairing(x)!Least(GroupOf(x, list, some, m))}
ArchOf(x, list, some, k) ==
  [list[k] EXCEPT !.vas = VasOf(list, GroupOf(x, list, some, k)), !.at = k,
                  !.draws = Pairing(x)!DrawsOf(list, GroupOf(x, list, some, k))]
Archs(x, list, some) == {ArchOf(x, list, some, k) : k \in Heads(x, list, some)}

LEMMA GroupIs ==
  ASSUME NEW x, NEW list, NEW some, some \subseteq Nat, NEW k \in some
  PROVE  LET G == GroupOf(x, list, some, k) IN
         /\ k \in G /\ G \subseteq some /\ Pairing(x)!Least(G) \in G
         /\ \A m \in G : Pairing(x)!Least(G) <= m /\ GroupOf(x, list, some, m) = G
<1> DEFINE G == GroupOf(x, list, some, k)
<1>1. k \in G /\ G \subseteq some
  BY DEF GroupOf
<1>2. Pairing(x)!Least(G) \in G /\ \A m \in G : Pairing(x)!Least(G) <= m
  BY <1>1, LeastIs
<1>3. \A m \in G : GroupOf(x, list, some, m) = G
  BY DEF GroupOf
<1> QED BY <1>1, <1>2, <1>3

LEMMA ArchIs ==
  ASSUME NEW x, NEW d, DumpOk(d), NEW list, NEW n \in Nat, TableOf(x, d, list, n),
         NEW some, some \subseteq 1 .. n, NEW k \in some
  PROVE  LET a == ArchOf(x, list, some, k)   G == GroupOf(x, list, some, k) IN
         /\ IsRow(a) /\ a.va = list[k].va /\ a.stage = list[k].stage /\ a.at = k
         /\ a.vas = VasOf(list, G)
         /\ a.draws = Cardinality(UsesIn(d, a.vas))
<1> DEFINE a == ArchOf(x, list, some, k)
           G == GroupOf(x, list, some, k)
           r == list[k]
           vas == VasOf(list, G)
           D == Pairing(x)!DrawsOf(list, G)
           W == [i \in 1 .. n |-> Pairing(x)!UsesOf(d, list[i].va)]
           R == Pairing(x)!Rows(d)
<1>1. G \subseteq 1 .. n /\ k \in 1 .. n
  BY DEF GroupOf
<1>2. list \in [1 .. n -> R] /\ Len(list) = n
  BY DEF TableOf, ListsAll
<1>3. \A i \in 1 .. n : /\ IsRow(list[i]) /\ IsFiniteSet(W[i]) /\ list[i].draws = Cardinality(W[i])
                        /\ list[i].va \in Drawn(d)
  <2> SUFFICES ASSUME NEW i \in 1 .. n
               PROVE  /\ IsRow(list[i]) /\ IsFiniteSet(W[i]) /\ list[i].draws = Cardinality(W[i])
                      /\ list[i].va \in Drawn(d)
    OBVIOUS
  <2>1. list[i] \in R
    BY <1>2
  <2>2. list[i].va \in Drawn(d) /\ list[i] = Pairing(x)!Row(d, list[i].va)
    BY <2>1 DEF TableOf
  <2> QED BY <2>2, RowIs
<1>4. \A i, j \in 1 .. n : i # j => W[i] \cap W[j] = {}
  BY DEF TableOf, Pairing!UsesOf
<1>5. \A i \in 1 .. n : IsFiniteSet(W[i]) /\ list[i].draws = Cardinality(W[i])
  BY <1>3
<1>6. D = Cardinality(UsesIn(d, vas))
  <2>1. \A i \in 1 .. n : W[i] = {m \in DOMAIN d.uses : d.uses[m][3] = list[i].va}
    BY DEF Pairing!UsesOf
  <2>2. AllOf(W, G, n) = UsesIn(d, vas)
    <3> HIDE DEF W, G
    <3> QED BY <1>1, <2>1 DEF UsesIn, VasOf, AllOf
  <2> HIDE DEF W, G, vas
  <2> QED BY <1>2, <1>4, <1>5, <2>2, DrawsAdd
<1>7. D = Cardinality(UsesIn(d, vas)) /\ D \in Nat
  <2>1. IsFiniteSet(DOMAIN d.uses)
    BY UpTo DEF DumpOk
  <2>2. UsesIn(d, vas) \in SUBSET DOMAIN d.uses
    BY DEF UsesIn
  <2> QED BY <1>6, <2>1, <2>2, FS_Subset, FS_CardinalityType
<1>8. IsRow(r)
  BY <1>1, <1>3
<1>9. a = [r EXCEPT !.vas = vas, !.at = k, !.draws = D]
  BY DEF ArchOf
<1> HIDE DEF a, vas, D, G, r
<1>10. a = [va |-> r.va, vas |-> vas, draws |-> D, text |-> r.text, stage |-> r.stage,
            regs |-> r.regs, mixed |-> r.mixed, at |-> k]
  BY <1>8, <1>9 DEF IsRow
<1>11. /\ a.va = r.va /\ a.stage = r.stage /\ a.at = k /\ a.vas = vas /\ a.draws = D
       /\ a.text = r.text
  BY <1>10
<1>12. IsRow(a)
  <2>1. k \in Nat
    BY <1>1
  <2>2. a = [va |-> a.va, vas |-> a.vas, draws |-> a.draws, text |-> a.text, stage |-> a.stage,
             regs |-> a.regs, mixed |-> a.mixed, at |-> a.at]
    BY <1>10
  <2>3. IsText(a.text)
    BY <1>8, <1>11 DEF IsRow
  <2> QED BY <1>7, <1>11, <2>1, <2>2, <2>3 DEF IsRow
<1> QED BY <1>7, <1>11, <1>12 DEF a, vas, G, r

(* The archetypes of a table, listed.                                      *)
CansOf(x, list, some, cs, c) ==
  LET A == Archs(x, list, some) IN
  /\ ListsAll(cs, c, A, Pairing(x)!ByDraws(A))
  /\ DOMAIN cs = 1 .. c /\ Pairing(x)!Items(cs) = A
  /\ \A i \in 1 .. c : cs[i] \in A

LEMMA CansAre ==
  ASSUME NEW x, NEW d, DumpOk(d), NEW list, NEW n \in Nat, TableOf(x, d, list, n),
         NEW some, some \subseteq 1 .. n
  PROVE  \E c \in Nat : CansOf(x, list, some, Pairing(x)!Canonicalize(list, some), c)
<1> DEFINE A == Archs(x, list, some)
           H == Heads(x, list, some)
           cs == Pairing(x)!Canonicalize(list, some)
           c == Cardinality(A)
           f == [k \in H |-> ArchOf(x, list, some, k)]
<1>1. cs = Pairing(x)!InOrder(A, Pairing(x)!ByDraws(A))
  BY DEF Pairing!Canonicalize, Archs, Heads, ArchOf, GroupOf, VasOf
<1>2. H \in SUBSET (1 .. n) /\ H \subseteq some
  BY DEF Heads
<1>3. IsFiniteSet(H)
  BY <1>2, UpTo, FS_Subset
<1>4. IsFiniteSet(A)
  <2>1. (\A k \in H : f[k] \in A) /\ (\A t \in A : \E k \in H : f[k] = t)
    BY DEF Archs
  <2> HIDE DEF A, H, f
  <2> QED BY <1>3, <2>1, ImageOf
<1>5. \A a \in A : IsRow(a) /\ a.at \in H /\ a = ArchOf(x, list, some, a.at)
  BY <1>2, ArchIs DEF Archs
<1> HIDE DEF A, cs, c, f
<1>6. OrdersAll(A, Pairing(x)!ByDraws(A))
  BY <1>5, MoreDrawsOrders
<1>7. ListsAll(cs, c, A, Pairing(x)!ByDraws(A))
  BY <1>1, <1>4, <1>6, InOrderIs DEF c
<1>8. c \in Nat /\ cs \in [1 .. c -> A]
  BY <1>7 DEF ListsAll
<1>9. DOMAIN cs = 1 .. c /\ Pairing(x)!Items(cs) = {cs[k] : k \in 1 .. c}
  BY <1>8, ItemsOf
<1>10. Pairing(x)!Items(cs) = A
  BY <1>7, <1>8, <1>9 DEF ListsAll
<1>11. CansOf(x, list, some, cs, c)
  BY <1>7, <1>8, <1>9, <1>10 DEF CansOf, A
<1> QED BY <1>8, <1>11 DEF cs

(* NoDrawIsLost and ShownByTheMostDrawn, of a dump, its table and its      *)
(* archetypes.                                                             *)
DrawsOk(x, d, list, cs) ==
  LET drawn == {k \in DOMAIN d.uses : d.uses[k][3] \in DOMAIN d.code}
      compute == {r.va : r \in {q \in Pairing(x)!Items(list) : q.stage = "Compute"}}
      left == {k \in drawn : d.uses[k][3] \notin compute}
  IN /\ \A a, b \in Pairing(x)!Items(cs) : a # b => a.vas \cap b.vas = {}
     /\ UNION {a.vas : a \in Pairing(x)!Items(cs)} = {d.uses[k][3] : k \in left}
     /\ \A a \in Pairing(x)!Items(cs) :
          a.draws = Cardinality({k \in left : d.uses[k][3] \in a.vas})
     /\ \A a \in Pairing(x)!Items(cs), r \in Pairing(x)!Items(list) :
          r.va \in a.vas => \E q \in Pairing(x)!Items(list) : q.va = a.va /\ q.draws >= r.draws
     /\ \A a \in Pairing(x)!Items(cs) :
          IsText(a.text) /\ \E r \in Pairing(x)!Items(list) : r.va = a.va
     /\ \E c \in Nat : DOMAIN cs = 1 .. c /\ \A i \in 1 .. c : cs[i] \in Pairing(x)!Items(cs)
LEMMA DrawsKept ==
  ASSUME NEW x, NEW d, DumpOk(d), NEW list, list = Pairing(x)!Build(d),
         NEW some, some = {k \in DOMAIN list : list[k].stage # "Compute"},
         NEW cs, cs = Pairing(x)!Canonicalize(list, some)
  PROVE  DrawsOk(x, d, list, cs)
<1> DEFINE drawn == {k \in DOMAIN d.uses : d.uses[k][3] \in DOMAIN d.code}
           compute == {r.va : r \in {q \in Pairing(x)!Items(list) : q.stage = "Compute"}}
           left == {k \in drawn : d.uses[k][3] \notin compute}
           A == Pairing(x)!Items(cs)
           Group(k) == GroupOf(x, list, some, k)
<1>1. PICK n \in Nat : TableOf(x, d, list, n)
  BY TableIs
<1>2. /\ DOMAIN list = 1 .. n /\ list \in [1 .. n -> Pairing(x)!Items(list)]
      /\ Pairing(x)!Items(list) = {list[i] : i \in 1 .. n}
  BY <1>1 DEF TableOf, ListsAll, Pairing!Items
<1>3. some \subseteq 1 .. n /\ some \subseteq Nat
  BY <1>2
<1>4. PICK c \in Nat : CansOf(x, list, some, cs, c)
  BY <1>1, <1>3, CansAre
<1>5. A = Archs(x, list, some) /\ DOMAIN cs = 1 .. c /\ \A i \in 1 .. c : cs[i] \in A
  BY <1>4 DEF CansOf
<1>6. \A i, j \in 1 .. n : list[i].va = list[j].va => i = j
  BY <1>1 DEF TableOf
<1>7. ASSUME NEW k \in some
       PROVE  /\ IsRow(ArchOf(x, list, some, k)) /\ ArchOf(x, list, some, k).va = list[k].va
              /\ ArchOf(x, list, some, k).at = k
              /\ ArchOf(x, list, some, k).vas = VasOf(list, Group(k))
              /\ ArchOf(x, list, some, k).draws = Cardinality(UsesIn(d, ArchOf(x, list, some, k).vas))
  BY <1>1, <1>3, ArchIs
<1>8. ASSUME NEW k \in some
       PROVE  LET h == Pairing(x)!Least(Group(k)) IN
              /\ k \in Group(k) /\ Group(k) \subseteq some /\ h \in Group(k)
              /\ \A m \in Group(k) : h <= m /\ Group(m) = Group(k)
  BY <1>3, GroupIs
<1>9. ASSUME NEW a \in A
      PROVE  /\ a.at \in some /\ a.at = Pairing(x)!Least(Group(a.at))
             /\ a = ArchOf(x, list, some, a.at)
             /\ IsRow(a) /\ a.va = list[a.at].va /\ a.vas = VasOf(list, Group(a.at))
             /\ a.draws = Cardinality(UsesIn(d, a.vas))
  <2>1. PICK k \in some : k = Pairing(x)!Least(Group(k)) /\ a = ArchOf(x, list, some, k)
    BY <1>5 DEF Archs, Heads
  <2>2. /\ IsRow(a) /\ a.va = list[k].va /\ a.at = k /\ a.vas = VasOf(list, Group(k))
        /\ a.draws = Cardinality(UsesIn(d, a.vas))
    BY <1>7, <2>1
  <2> QED BY <2>1, <2>2
<1>10. ASSUME NEW k \in some PROVE \E a \in A : list[k].va \in a.vas
  <2> DEFINE h == Pairing(x)!Least(Group(k))
  <2>1. h \in some /\ k \in Group(k) /\ h \in Group(k) /\ Group(h) = Group(k)
    BY <1>8
  <2>2. h \in Heads(x, list, some)
    BY <2>1 DEF Heads
  <2>3. ArchOf(x, list, some, h) \in A
    BY <1>5, <2>2 DEF Archs
  <2>4. ArchOf(x, list, some, h).vas = VasOf(list, Group(h))
    BY <1>7, <2>1
  <2> QED BY <2>1, <2>3, <2>4 DEF VasOf
<1>11. \A k \in some : Group(k) \subseteq some
  BY <1>8
<1>12. ASSUME NEW a \in A, NEW b \in A, a # b PROVE a.vas \cap b.vas = {}
  <2> SUFFICES ASSUME NEW v \in a.vas, v \in b.vas PROVE FALSE
    OBVIOUS
  <2>0. a.vas = VasOf(list, Group(a.at)) /\ b.vas = VasOf(list, Group(b.at))
    BY <1>9
  <2>1. PICK i \in Group(a.at) : v = list[i].va
    BY <2>0 DEF VasOf
  <2>2. PICK j \in Group(b.at) : v = list[j].va
    BY <2>0 DEF VasOf
  <2>3. i = j
    <3>1. i \in 1 .. n /\ j \in 1 .. n
      BY <1>3, <1>9, <1>11
    <3>2. list[i].va = list[j].va
      BY <2>1, <2>2
    <3> QED BY <1>6, <3>1, <3>2
  <2>4. Group(i) = Group(a.at) /\ Group(i) = Group(b.at)
    BY <1>9, <1>8, <2>3
  <2> QED BY <1>9, <1>12, <2>4
<1>13. {list[k].va : k \in some} = {d.uses[k][3] : k \in left}
  <2>1. ASSUME NEW k \in some PROVE list[k].va \in {d.uses[m][3] : m \in left}
    <3>1. list[k] \in Pairing(x)!Items(list) /\ list[k].va \in Drawn(d)
      BY <1>1, <1>2, <1>3 DEF TableOf
    <3>2. PICK m \in DOMAIN d.uses : d.uses[m][3] = list[k].va
      BY <3>1 DEF Drawn
    <3>3. list[k].va \notin compute
      <4>1. ASSUME NEW q \in Pairing(x)!Items(list), q.stage = "Compute", q.va = list[k].va PROVE FALSE
        <5>1. PICK i \in 1 .. n : q = list[i]
          BY <1>2
        <5>2. i = k
          BY <1>3, <1>6, <4>1, <5>1
        <5> QED BY <4>1, <5>1, <5>2
      <4> QED BY <4>1
    <3>4. m \in left
      BY <3>1, <3>2, <3>3 DEF Drawn
    <3> QED BY <3>2, <3>4
  <2>2. ASSUME NEW m \in left PROVE d.uses[m][3] \in {list[k].va : k \in some}
    <3>1. d.uses[m][3] \in Drawn(d)
      BY DEF Drawn
    <3>2. PICK i \in 1 .. n : list[i].va = d.uses[m][3]
      BY <1>1, <3>1 DEF TableOf
    <3>3. list[i] \in Pairing(x)!Items(list)
      BY <1>2
    <3>4. list[i].stage # "Compute"
      BY <3>2, <3>3
    <3> QED BY <1>2, <3>2, <3>4
  <2> QED BY <2>1, <2>2
<1>14. UNION {a.vas : a \in A} = {list[k].va : k \in some}
  <2>1. \A a \in A : a.vas \subseteq {list[k].va : k \in some}
    BY <1>9, <1>11 DEF VasOf
  <2> HIDE DEF A, Group
  <2> QED BY <1>10, <2>1
<1>15. ASSUME NEW a \in A PROVE a.draws = Cardinality({k \in left : d.uses[k][3] \in a.vas})
  <2>1. a.vas \subseteq {d.uses[k][3] : k \in left}
    BY <1>13, <1>14
  <2>2. UsesIn(d, a.vas) = {k \in left : d.uses[k][3] \in a.vas}
    BY <2>1 DEF UsesIn
  <2> QED BY <1>9, <2>2
<1>16. ASSUME NEW a \in A, NEW r \in Pairing(x)!Items(list), r.va \in a.vas
       PROVE  \E q \in Pairing(x)!Items(list) : q.va = a.va /\ q.draws >= r.draws
  <2>0. r.va \in VasOf(list, Group(a.at))
    BY <1>9, <1>16
  <2>1. PICK m \in Group(a.at) : r.va = list[m].va
    BY <2>0 DEF VasOf
  <2>2. PICK i \in 1 .. n : r = list[i]
    BY <1>2
  <2>3. m \in 1 .. n /\ r = list[m] /\ a.at \in 1 .. n
    BY <1>3, <1>6, <1>9, <1>11, <2>1, <2>2
  <2>4. a.at <= m
    BY <1>9, <1>8
  <2>5. list[a.at].draws \in Nat /\ r.draws \in Nat
    <3>1. \A j \in 1 .. n : list[j].va \in Drawn(d) /\ list[j] = Pairing(x)!Row(d, list[j].va)
      <4> SUFFICES ASSUME NEW j \in 1 .. n
                   PROVE  list[j].va \in Drawn(d) /\ list[j] = Pairing(x)!Row(d, list[j].va)
        OBVIOUS
      <4>1. list[j] \in Pairing(x)!Rows(d)
        BY <1>1 DEF TableOf, ListsAll
      <4> QED BY <1>1, <4>1 DEF TableOf
    <3>2. \A j \in 1 .. n : IsRow(list[j])
      BY <3>1, RowIs
    <3> QED BY <2>3, <3>2 DEF IsRow
  <2>6. a.at < m => list[a.at].draws >= list[m].draws
    <3> SUFFICES ASSUME a.at < m PROVE list[a.at].draws >= list[m].draws
      OBVIOUS
    <3>1. <<list[a.at], list[m]>> \in Pairing(x)!ByDraws(Pairing(x)!Rows(d))
      BY <1>1, <2>3 DEF TableOf, ListsAll
    <3>2. Pairing(x)!MoreDraws(list[a.at], list[m])
      BY <3>1 DEF Pairing!ByDraws
    <3> QED BY <2>3, <2>5, <3>2 DEF Pairing!MoreDraws
  <2>7. list[a.at].draws >= r.draws
    BY <2>3, <2>4, <2>5, <2>6
  <2> QED BY <1>2, <1>9, <2>3, <2>7
<1>17. ASSUME NEW a \in A PROVE IsText(a.text) /\ \E r \in Pairing(x)!Items(list) : r.va = a.va
  BY <1>2, <1>3, <1>9 DEF IsRow
<1> HIDE DEF drawn, compute, left, A
<1> QED BY <1>5, <1>12, <1>13, <1>14, <1>15, <1>16, <1>17 DEF DrawsOk, drawn, compute, left, A
-----------------------------------------------------------------------------
(* The pairs, of some archetypes                                           *)

PairsFrom(cs) == {c \in (DOMAIN cs.sys) \X (DOMAIN cs.pvk) : cs.sys[c[1]].stage = cs.pvk[c[2]].stage}
ScoreIn(x, cs, c) == Pairing(x)!Final(cs.sys[c[1]], cs.pvk[c[2]])
FreeIn(cs, list) ==
  {c \in PairsFrom(cs) : \A k \in DOMAIN list : list[k][1] # c[1] /\ list[k][2] # c[2]}

CansOk(cs) ==
  /\ \E m \in Nat : DOMAIN cs.sys = 1 .. m /\ \A i \in 1 .. m : IsText(cs.sys[i].text)
  /\ \E n \in Nat : DOMAIN cs.pvk = 1 .. n /\ \A i \in 1 .. n : IsText(cs.pvk[i].text)

(* One to one, the best first, and what is not free is in the way of       *)
(* nothing better.                                                         *)
PicksOk(x, cs, list) ==
  /\ list \in Seq(PairsFrom(cs))
  /\ \A i, j \in DOMAIN list : i # j => list[i][1] # list[j][1] /\ list[i][2] # list[j][2]
  /\ \A i, j \in DOMAIN list : i <= j => ScoreIn(x, cs, list[i]) >= ScoreIn(x, cs, list[j])
  /\ \A i \in DOMAIN list, c \in FreeIn(cs, list) : ScoreIn(x, cs, list[i]) >= ScoreIn(x, cs, c)
  /\ \A c \in PairsFrom(cs) \ FreeIn(cs, list) : \E i \in DOMAIN list :
       (list[i][1] = c[1] \/ list[i][2] = c[2]) /\ ScoreIn(x, cs, list[i]) >= ScoreIn(x, cs, c)

LEMMA PairsAre ==
  ASSUME NEW x, NEW cs, CansOk(cs)
  PROVE  /\ IsFiniteSet(PairsFrom(cs))
         /\ \A c \in PairsFrom(cs) : /\ c[1] \in Nat /\ c[2] \in Nat /\ c = <<c[1], c[2]>>
                                     /\ ScoreIn(x, cs, c) \in Int
<1>1. PICK m \in Nat : DOMAIN cs.sys = 1 .. m /\ \A i \in 1 .. m : IsText(cs.sys[i].text)
  BY DEF CansOk
<1>2. PICK n \in Nat : DOMAIN cs.pvk = 1 .. n /\ \A i \in 1 .. n : IsText(cs.pvk[i].text)
  BY DEF CansOk
<1>3. PairsFrom(cs) \in SUBSET ((1 .. m) \X (1 .. n))
  BY <1>1, <1>2 DEF PairsFrom
<1>4. IsFiniteSet((1 .. m) \X (1 .. n))
  BY UpTo, FS_Product
<1>5. IsFiniteSet(PairsFrom(cs))
  BY <1>3, <1>4, FS_Subset
<1>6. ASSUME NEW c \in PairsFrom(cs)
      PROVE  /\ c[1] \in Nat /\ c[2] \in Nat /\ c = <<c[1], c[2]>> /\ ScoreIn(x, cs, c) \in Int
  <2>1. c[1] \in 1 .. m /\ c[2] \in 1 .. n /\ c = <<c[1], c[2]>>
    BY <1>3
  <2>2. IsText(cs.sys[c[1]].text) /\ IsText(cs.pvk[c[2]].text)
    BY <1>1, <1>2, <2>1
  <2> QED BY <2>1, <2>2, ScoreIs DEF ScoreIn
<1> QED BY <1>5, <1>6

SoonerIn(x, cs, c, d) ==
  \/ ScoreIn(x, cs, c) > ScoreIn(x, cs, d)
  \/ ScoreIn(x, cs, c) = ScoreIn(x, cs, d) /\ (c[1] < d[1] \/ (c[1] = d[1] /\ c[2] < d[2]))

(* The first of the free ones, in the sorted list, is as good as any.      *)
LEMMA FirstFree ==
  ASSUME NEW x, NEW cs, CansOk(cs), NEW list, FreeIn(cs, list) # {}, NEW c,
         c = CHOOSE a \in FreeIn(cs, list) : \A b \in FreeIn(cs, list) \ {a} : SoonerIn(x, cs, a, b)
  PROVE  c \in FreeIn(cs, list) /\ \A b \in FreeIn(cs, list) : ScoreIn(x, cs, c) >= ScoreIn(x, cs, b)
<1> DEFINE F == FreeIn(cs, list)
           B == {p \in F \X F : SoonerIn(x, cs, p[1], p[2])}
           score(a) == ScoreIn(x, cs, a)
           one(a) == a[1]
           two(a) == a[2]
<1>1. F \in SUBSET PairsFrom(cs)
  BY DEF FreeIn
<1>2. IsFiniteSet(F)
  BY <1>1, PairsAre, FS_Subset
<1>3. \A a \in F : one(a) \in Nat /\ two(a) \in Nat /\ score(a) \in Int /\ a = <<one(a), two(a)>>
  BY <1>1, PairsAre
<1>4. \A a, b \in F : SoonerIn(x, cs, a, b) <=>
        \/ score(a) > score(b)
        \/ score(a) = score(b) /\ (one(a) < one(b) \/ (one(a) = one(b) /\ two(a) < two(b)))
  BY DEF SoonerIn
<1>5. \A a, b \in F : <<a, b>> \in B <=> SoonerIn(x, cs, a, b)
  OBVIOUS
<1> HIDE DEF F, B, score, one, two
<1>6. OrdersAll(F, B)
  <2>1. \A a \in F : <<a, a>> \notin B
    BY <1>3, <1>4, <1>5
  <2>2. ASSUME NEW a \in F, NEW b \in F PROVE a = b \/ <<a, b>> \in B \/ <<b, a>> \in B
    <3>1. one(a) = one(b) /\ two(a) = two(b) => a = b
      BY <1>3
    <3> QED BY <1>3, <1>4, <1>5, <3>1
  <2>3. \A a, b, d \in F : <<a, b>> \in B /\ <<b, d>> \in B => <<a, d>> \in B
    BY <1>3, <1>4, <1>5
  <2> QED BY <2>1, <2>2, <2>3 DEF OrdersAll
<1>7. \E a \in F : \A b \in F \ {a} : SoonerIn(x, cs, a, b)
  <2>1. F # {}
    BY DEF F
  <2>2. PICK a \in F : \A b \in F \ {a} : <<a, b>> \in B
    BY <1>2, <1>6, <2>1, FirstOf
  <2> QED BY <1>5, <2>2
<1>8. c = CHOOSE a \in F : \A b \in F \ {a} : SoonerIn(x, cs, a, b)
  BY DEF F
<1>9. c \in F /\ \A b \in F \ {c} : SoonerIn(x, cs, c, b)
  BY <1>7, <1>8
<1>10. ASSUME NEW b \in F PROVE score(c) >= score(b)
  <2>1. score(c) \in Int /\ score(b) \in Int
    BY <1>3, <1>9
  <2>2. b = c \/ SoonerIn(x, cs, c, b)
    BY <1>9
  <2>3. b # c => score(c) > score(b) \/ score(c) = score(b)
    BY <1>4, <1>9, <2>2
  <2>4. CASE b = c
    BY <2>1, <2>4
  <2>5. CASE b # c
    BY <2>1, <2>3, <2>5
  <2> QED BY <2>4, <2>5
<1> QED BY <1>9, <1>10 DEF F, score

LEMMA PicksMore ==
  ASSUME NEW x, NEW cs, CansOk(cs), NEW list, PicksOk(x, cs, list), NEW c \in FreeIn(cs, list),
         \A b \in FreeIn(cs, list) : ScoreIn(x, cs, c) >= ScoreIn(x, cs, b)
  PROVE  PicksOk(x, cs, Append(list, c))
<1> DEFINE more == Append(list, c)
           n == Len(list)
           score(a) == ScoreIn(x, cs, a)
           C == PairsFrom(cs)
           F == FreeIn(cs, list)
           G == FreeIn(cs, more)
<1>1. list \in Seq(C) /\ c \in C /\ c \in F
  BY DEF PicksOk, FreeIn
<1>2. /\ more \in Seq(C) /\ n \in Nat /\ DOMAIN list = 1 .. n /\ DOMAIN more = 1 .. n + 1
      /\ more[n + 1] = c /\ \A k \in 1 .. n : more[k] = list[k]
  <2> HIDE DEF C
  <2> QED BY <1>1
<1>3. \A a \in C : score(a) \in Int
  BY PairsAre
<1>4. \A k \in 1 .. n : list[k] \in C
  BY <1>1, <1>2
<1>5. \A k \in 1 .. n : list[k][1] # c[1] /\ list[k][2] # c[2]
  BY <1>1, <1>2 DEF FreeIn
<1>6. G \subseteq F /\ F \subseteq C
  BY <1>2 DEF FreeIn
<1> HIDE DEF more, n, score, C, F, G
<1>7. ASSUME NEW i \in 1 .. n + 1, NEW j \in 1 .. n + 1, i # j
      PROVE  more[i][1] # more[j][1] /\ more[i][2] # more[j][2]
  <2>1. CASE i \in 1 .. n /\ j \in 1 .. n
    <3>1. \A k, m \in DOMAIN list : k # m => list[k][1] # list[m][1] /\ list[k][2] # list[m][2]
      BY DEF PicksOk
    <3>2. list[i][1] # list[j][1] /\ list[i][2] # list[j][2]
      BY <1>2, <1>7, <2>1, <3>1
    <3> QED BY <1>2, <2>1, <3>2
  <2>2. CASE i = n + 1
    <3>1. j \in 1 .. n
      BY <1>2, <1>7, <2>2
    <3> QED BY <1>2, <1>5, <2>2, <3>1
  <2>3. CASE j = n + 1
    <3>1. i \in 1 .. n
      BY <1>2, <1>7, <2>3
    <3> QED BY <1>2, <1>5, <2>3, <3>1
  <2> QED BY <1>2, <2>1, <2>2, <2>3
<1>8. \A i \in 1 .. n : score(list[i]) >= score(c)
  BY <1>1, <1>2 DEF PicksOk, F, score
<1>9. ASSUME NEW i \in 1 .. n + 1, NEW j \in 1 .. n + 1, i <= j PROVE score(more[i]) >= score(more[j])
  <2>1. CASE i \in 1 .. n /\ j \in 1 .. n
    <3>1. \A k, m \in DOMAIN list : k <= m => score(list[k]) >= score(list[m])
      BY DEF PicksOk, score
    <3> QED BY <1>2, <1>9, <2>1, <3>1
  <2>2. CASE j = n + 1 /\ i \in 1 .. n
    BY <1>2, <1>8, <2>2
  <2>3. CASE i = n + 1
    <3>1. j = n + 1
      BY <1>2, <1>9, <2>3
    <3> QED BY <1>1, <1>2, <1>3, <2>3, <3>1
  <2> QED BY <1>2, <2>1, <2>2, <2>3
<1>10. ASSUME NEW i \in 1 .. n + 1, NEW a \in G PROVE score(more[i]) >= score(a)
  <2>1. a \in F
    BY <1>6
  <2>2. CASE i \in 1 .. n
    BY <1>2, <2>1, <2>2 DEF PicksOk, F, score
  <2>3. CASE i = n + 1
    BY <1>2, <2>1, <2>3 DEF F, score
  <2> QED BY <1>2, <2>2, <2>3
<1>11. ASSUME NEW a \in C \ G
       PROVE  \E i \in 1 .. n + 1 : (more[i][1] = a[1] \/ more[i][2] = a[2]) /\ score(more[i]) >= score(a)
  <2>1. CASE a \notin F
    <3>1. PICK i \in 1 .. n : (list[i][1] = a[1] \/ list[i][2] = a[2]) /\ score(list[i]) >= score(a)
      BY <1>2, <2>1 DEF PicksOk, F, C, score
    <3> QED BY <1>2, <3>1
  <2>2. CASE a \in F
    <3>1. \A k \in 1 .. n : list[k][1] # a[1] /\ list[k][2] # a[2]
      BY <1>2, <2>2 DEF F, FreeIn
    <3>2. c[1] = a[1] \/ c[2] = a[2]
      <4> SUFFICES ASSUME c[1] # a[1], c[2] # a[2] PROVE FALSE
        OBVIOUS
      <4>1. \A k \in 1 .. n + 1 : more[k][1] # a[1] /\ more[k][2] # a[2]
        <5> SUFFICES ASSUME NEW k \in 1 .. n + 1 PROVE more[k][1] # a[1] /\ more[k][2] # a[2]
          OBVIOUS
        <5>1. k \in 1 .. n \/ k = n + 1
          BY <1>2
        <5> QED BY <1>2, <3>1, <5>1
      <4> QED BY <1>2, <4>1 DEF G, C, FreeIn
    <3>3. score(c) >= score(a)
      BY <2>2 DEF F, score
    <3>4. n + 1 \in 1 .. n + 1
      BY <1>2
    <3> QED BY <1>2, <3>2, <3>3, <3>4
  <2> QED BY <2>1, <2>2
<1>12. DOMAIN more = 1 .. n + 1 /\ more \in Seq(C)
  BY <1>2
<1>13. PicksOk(x, cs, more)
  BY <1>7, <1>9, <1>10, <1>11, <1>12 DEF PicksOk, score, C, G
<1> QED BY <1>13 DEF more

LEMMA PicksNone ==
  ASSUME NEW x, NEW cs
  PROVE  PicksOk(x, cs, <<>>)
<1>1. DOMAIN <<>> = {} /\ <<>> \in Seq(PairsFrom(cs))
  OBVIOUS
<1>2. FreeIn(cs, <<>>) = PairsFrom(cs)
  BY <1>1 DEF FreeIn
<1> QED BY <1>1, <1>2 DEF PicksOk
-----------------------------------------------------------------------------
(* The pairs that are chosen                                               *)

Written2 == {"Fragment", "Vertex"}
Score(x, k) == ScoreIn(x, cans, picked[k])

LEMMA PickedAre ==
  ASSUME NEW x, CansOk(cans), PicksOk(x, cans, picked)
  PROVE  /\ Len(picked) \in Nat /\ DOMAIN picked = 1 .. Len(picked)
         /\ \A k \in 1 .. Len(picked) : picked[k] \in PairsFrom(cans) /\ Score(x, k) \in Int
         /\ \A k, m \in 1 .. Len(picked) : picked[k] = picked[m] => k = m
         /\ \A k, m \in 1 .. Len(picked) : k <= m => Score(x, k) >= Score(x, m)
<1>1. picked \in Seq(PairsFrom(cans))
  BY DEF PicksOk
<1>2. /\ Len(picked) \in Nat /\ DOMAIN picked = 1 .. Len(picked)
      /\ \A k \in 1 .. Len(picked) : picked[k] \in PairsFrom(cans)
  BY <1>1
<1>3. \A k \in 1 .. Len(picked) : Score(x, k) \in Int
  BY <1>2, PairsAre DEF Score
<1> QED BY <1>2, <1>3 DEF PicksOk, Score

(* Places count up from 1, in every stage.                                 *)
LEMMA PlaceIs ==
  ASSUME NEW x, NEW N \in Nat, DOMAIN picked = 1 .. N, NEW k \in 1 .. N
  PROVE  /\ Pairing(x)!Place(k) \in Nat \ {0}
         /\ \A m \in 1 .. N : Pairing(x)!StageAt(m) = Pairing(x)!StageAt(k) =>
              /\ m < k <=> Pairing(x)!Place(m) < Pairing(x)!Place(k)
              /\ Pairing(x)!Place(m) = Pairing(x)!Place(k) => m = k
         /\ \A v \in 1 .. Pairing(x)!Place(k) : \E m \in 1 .. k :
              Pairing(x)!StageAt(m) = Pairing(x)!StageAt(k) /\ Pairing(x)!Place(m) = v
<1> DEFINE st == Pairing(x)!StageAt(k)
           T == {m \in 1 .. N : Pairing(x)!StageAt(m) = st}
           B == {p \in T \X T : p[1] < p[2]}
           rank(m) == RankIn(T, B, m)
           place(m) == Pairing(x)!Place(m)
<1>1. IsFiniteSet(T) /\ T \subseteq 1 .. N /\ k \in T /\ T \subseteq Nat
  BY UpTo, FS_Subset
<1>2. \A i, j \in T : <<i, j>> \in B <=> i < j
  OBVIOUS
<1>3. OrdersAll(T, B)
  <2> HIDE DEF T, B
  <2> QED BY <1>1, <1>2, AscendingOrders
<1>4. ASSUME NEW m \in T PROVE place(m) = rank(m) + 1 /\ rank(m) \in Nat
  <2> DEFINE A == {y \in T : <<y, m>> \in B}
             P == {y \in 1 .. m : Pairing(x)!StageAt(y) = Pairing(x)!StageAt(m)}
  <2>1. P = A \cup {m} /\ m \notin A
    OBVIOUS
  <2>2. IsFiniteSet(A)
    BY <1>1, FS_Subset
  <2>3. place(m) = Cardinality(P)
    BY DEF Pairing!Place, Pairing!Cardinality, Cardinality
  <2>4. rank(m) = Cardinality(A)
    BY DEF RankIn
  <2> HIDE DEF A, P, place, rank
  <2>5. Cardinality(A) \in Nat
    BY <2>2, FS_CardinalityType
  <2>6. Cardinality(A \cup {m}) = Cardinality(A) + 1
    BY <2>1, <2>2, FS_AddElement
  <2> QED BY <2>1, <2>3, <2>4, <2>5, <2>6
<1>5. /\ Cardinality(T) \in Nat
      /\ \A a \in T : rank(a) \in 0 .. Cardinality(T) - 1
      /\ \A a, b \in T : <<a, b>> \in B => rank(a) < rank(b)
      /\ \A a, b \in T : rank(a) = rank(b) => a = b
      /\ \A v \in 0 .. Cardinality(T) - 1 : \E a \in T : rank(a) = v
  <2> HIDE DEF T, B
  <2>1. Cardinality(T) \in Nat /\ \A a \in T : rank(a) \in 0 .. Cardinality(T) - 1
    BY <1>1, <1>3, Ranks
  <2>2. \A a, b \in T : <<a, b>> \in B => rank(a) < rank(b)
    BY <1>1, <1>3, Ranks
  <2>3. \A a, b \in T : rank(a) = rank(b) => a = b
    BY <1>1, <1>3, Ranks
  <2>4. \A v \in 0 .. Cardinality(T) - 1 : \E a \in T : rank(a) = v
    BY <1>1, <1>3, RanksReach
  <2> QED BY <2>1, <2>2, <2>3, <2>4
<1>6. \A m \in 1 .. N : Pairing(x)!StageAt(m) = st => m \in T
  OBVIOUS
<1>7. \A m \in T : Pairing(x)!StageAt(m) = st
  OBVIOUS
<1> HIDE DEF T, B, rank, place, st
<1>8. ASSUME NEW a \in T, NEW b \in T PROVE a < b <=> place(a) < place(b)
  <2>1. a \in Int /\ b \in Int
    BY <1>1
  <2>2. a < b => rank(a) < rank(b)
    BY <1>2, <1>5
  <2>3. b < a => rank(b) < rank(a)
    BY <1>2, <1>5
  <2>4. a < b \/ a = b \/ b < a
    BY <2>1
  <2> QED BY <1>4, <2>1, <2>2, <2>3, <2>4
<1>9. ASSUME NEW a \in T, NEW b \in T, place(a) = place(b) PROVE a = b
  BY <1>4, <1>5, <1>9
<1>10. ASSUME NEW v \in 1 .. place(k) PROVE \E m \in 1 .. k : m \in T /\ place(m) = v
  <2>1. place(k) = rank(k) + 1 /\ rank(k) \in 0 .. Cardinality(T) - 1
    BY <1>1, <1>4, <1>5
  <2>2. v - 1 \in 0 .. Cardinality(T) - 1 /\ v \in Int
    BY <1>5, <2>1
  <2>3. PICK m \in T : rank(m) = v - 1
    BY <1>5, <2>2
  <2>4. place(m) = v
    BY <1>4, <2>2, <2>3
  <2>5. ~ (k < m)
    <3> SUFFICES ASSUME k < m PROVE FALSE
      OBVIOUS
    <3>1. place(k) < place(m)
      BY <1>1, <1>8
    <3> QED BY <2>1, <2>4, <3>1
  <2>6. m \in 1 .. k
    BY <1>1, <2>5
  <2> QED BY <2>4, <2>6
<1>11. place(k) \in Nat \ {0}
  BY <1>1, <1>4
<1> QED BY <1>1, <1>6, <1>7, <1>8, <1>9, <1>10, <1>11 DEF place, st

LEMMA ByStageOrders ==
  ASSUME NEW x, NEW S, S \subseteq Nat, \A k \in S : Pairing(x)!StageAt(k) \in Written2
  PROVE  OrdersAll(S, Pairing(x)!ByStage(S))
<1> DEFINE st(k) == Pairing(x)!StageAt(k)
           B == Pairing(x)!ByStage(S)
<1>1. \A i, j \in S : <<i, j>> \in B <=> (st(i) = "Fragment" /\ st(j) = "Vertex") \/ (st(i) = st(j) /\ i < j)
  BY DEF Pairing!ByStage
<1>2. \A i \in S : st(i) = "Fragment" \/ st(i) = "Vertex"
  BY DEF Written2
<1> HIDE DEF st, B
<1>3. \A i \in S : <<i, i>> \notin B
  BY <1>1
<1>4. ASSUME NEW i \in S, NEW j \in S PROVE i = j \/ <<i, j>> \in B \/ <<j, i>> \in B
  <2>1. i \in Int /\ j \in Int /\ (i < j \/ i = j \/ j < i)
    OBVIOUS
  <2>2. st(i) = st(j) \/ (st(i) = "Fragment" /\ st(j) = "Vertex") \/ (st(j) = "Fragment" /\ st(i) = "Vertex")
    BY <1>2
  <2> QED BY <1>1, <2>1, <2>2
<1>5. \A i, j, k \in S : <<i, j>> \in B /\ <<j, k>> \in B => <<i, k>> \in B
  BY <1>1, <1>2
<1> QED BY <1>3, <1>4, <1>5 DEF OrdersAll, B

(* All of some pairs are taken if that is not too many, and of a stage     *)
(* those that were found first.                                            *)
TakenFrom(x, S, ch) ==
  /\ IsFiniteSet(S) /\ Cardinality(S) \in Nat
  /\ Len(ch) = (IF want <= Cardinality(S) THEN want ELSE Cardinality(S))
  /\ DOMAIN ch = 1 .. Len(ch)
  /\ \A i \in DOMAIN ch : \E k \in S : ch[i] = picked[k]
  /\ Cardinality(S) <= want => \A k \in S : \E i \in DOMAIN ch : ch[i] = picked[k]
  /\ \A i \in DOMAIN ch, j, k \in S :
       ch[i] = picked[k] /\ j < k /\ Pairing(x)!StageAt(j) = Pairing(x)!StageAt(k) =>
         \E e \in DOMAIN ch : ch[e] = picked[j]

LEMMA TakeIs ==
  ASSUME NEW x, CansOk(cans), PicksOk(x, cans, picked), want \in Nat,
         NEW S, S \subseteq 1 .. Len(picked), \A k \in S : Pairing(x)!StageAt(k) \in Written2,
         NEW ch, ch = Pairing(x)!Take(S)
  PROVE  TakenFrom(x, S, ch)
<1> DEFINE n == Cardinality(S)
           B == Pairing(x)!ByStage(S)
           order == Pairing(x)!InOrder(S, B)
           len == Pairing(x)!Lesser(want, n)
<1>1. IsFiniteSet(S) /\ n \in Nat
  BY PickedAre, UpTo, FS_Subset, FS_CardinalityType
<1>2. S \subseteq Nat
  BY PickedAre
<1>3. ListsAll(order, n, S, B)
  BY <1>1, <1>2, ByStageOrders, InOrderIs
<1>4. ch = [i \in 1 .. len |-> picked[order[i]]]
  BY DEF Pairing!Take, Pairing!Cardinality, Cardinality
<1>5. len = (IF want <= n THEN want ELSE n)
  BY DEF Pairing!Lesser
<1>6. \A i, j \in S : <<i, j>> \in B => ~ (Pairing(x)!StageAt(i) = Pairing(x)!StageAt(j) /\ j < i)
  BY <1>2 DEF Pairing!ByStage
<1> HIDE DEF n, B, order, len
<1>7. len \in Nat /\ 1 .. len \subseteq 1 .. n
  BY <1>1, <1>5
<1>8. /\ DOMAIN ch = 1 .. len /\ Len(ch) = len
      /\ \A i \in 1 .. len : ch[i] = picked[order[i]]
  <2>1. DOMAIN ch = 1 .. len /\ \A i \in 1 .. len : ch[i] = picked[order[i]]
    BY <1>4
  <2>2. ch \in [1 .. len -> {picked[order[i]] : i \in 1 .. len}]
    BY <1>4
  <2> QED BY <1>7, <2>1, <2>2, ItemsOf
<1>9. \A i \in 1 .. len : order[i] \in S
  BY <1>3, <1>7 DEF ListsAll
<1>10. ASSUME n <= want, NEW k \in S PROVE \E i \in 1 .. len : ch[i] = picked[k]
  <2>1. len = n
    BY <1>1, <1>5, <1>10
  <2>2. PICK i \in 1 .. n : order[i] = k
    BY <1>3 DEF ListsAll
  <2> QED BY <1>8, <2>1, <2>2
<1>11. ASSUME NEW i \in 1 .. len, NEW j \in S, NEW k \in S, ch[i] = picked[k], j < k,
              Pairing(x)!StageAt(j) = Pairing(x)!StageAt(k)
       PROVE  \E e \in 1 .. len : ch[e] = picked[j]
  <2>1. picked[order[i]] = picked[k] /\ order[i] \in S
    BY <1>8, <1>9, <1>11
  <2>2. order[i] = k
    BY <2>1, PickedAre
  <2>3. PICK e \in 1 .. n : order[e] = j
    BY <1>3 DEF ListsAll
  <2>4. ~ (<<k, j>> \in B)
    BY <1>6, <1>11
  <2>5. ~ (i < e)
    BY <1>3, <1>7, <2>2, <2>3, <2>4 DEF ListsAll
  <2>6. e \in 1 .. len
    BY <1>1, <1>7, <2>5
  <2> QED BY <1>8, <2>3, <2>6
<1>12. IsFiniteSet(S) /\ Cardinality(S) \in Nat
  BY <1>1 DEF n
<1>13. Len(ch) = (IF want <= Cardinality(S) THEN want ELSE Cardinality(S)) /\ DOMAIN ch = 1 .. Len(ch)
  BY <1>5, <1>8 DEF n
<1>14. \A i \in DOMAIN ch : \E k \in S : ch[i] = picked[k]
  BY <1>8, <1>9
<1>15. Cardinality(S) <= want => \A k \in S : \E i \in DOMAIN ch : ch[i] = picked[k]
  BY <1>8, <1>10 DEF n
<1>16. \A i \in DOMAIN ch, j, k \in S :
         ch[i] = picked[k] /\ j < k /\ Pairing(x)!StageAt(j) = Pairing(x)!StageAt(k) =>
           \E e \in DOMAIN ch : ch[e] = picked[j]
  BY <1>8, <1>11
<1> QED BY <1>12, <1>13, <1>14, <1>15, <1>16 DEF TakenFrom

LEMMA BetterOrders ==
  ASSUME NEW x, CansOk(cans), PicksOk(x, cans, picked),
         NEW S, S \subseteq 1 .. Len(picked), \A k \in S : Pairing(x)!StageAt(k) \in Written2
  PROVE  OrdersAll(S, {p \in S \X S : Pairing(x)!Better(p[1], p[2])})
<1> DEFINE B == {p \in S \X S : Pairing(x)!Better(p[1], p[2])}
           st(k) == Pairing(x)!StageAt(k)
           score(k) == Score(x, k)
<1>1. \A i, j \in S : <<i, j>> \in B <=>
        \/ score(i) > score(j)
        \/ score(i) = score(j) /\ st(i) = "Fragment" /\ st(j) = "Vertex"
        \/ score(i) = score(j) /\ st(i) = st(j) /\ i < j
  BY DEF Pairing!Better, Pairing!FinalOf, Score, ScoreIn
<1>2. \A i \in S : (st(i) = "Fragment" \/ st(i) = "Vertex") /\ score(i) \in Int /\ i \in Int
  BY PickedAre DEF Written2
<1> HIDE DEF B, st, score
<1>3. \A i \in S : <<i, i>> \notin B
  BY <1>1, <1>2
<1>4. ASSUME NEW i \in S, NEW j \in S PROVE i = j \/ <<i, j>> \in B \/ <<j, i>> \in B
  <2>1. i \in Int /\ j \in Int /\ (i < j \/ i = j \/ j < i)
    BY <1>2
  <2>2. st(i) = st(j) \/ (st(i) = "Fragment" /\ st(j) = "Vertex") \/ (st(j) = "Fragment" /\ st(i) = "Vertex")
    BY <1>2
  <2> QED BY <1>1, <1>2, <2>1, <2>2
<1>5. \A i, j, k \in S : <<i, j>> \in B /\ <<j, k>> \in B => <<i, k>> \in B
  BY <1>1, <1>2
<1> QED BY <1>3, <1>4, <1>5 DEF OrdersAll, B

(* Of a set in an order those with few before them: as many as that, or    *)
(* all.                                                                    *)
LEMMA FirstFew ==
  ASSUME NEW S, IsFiniteSet(S), NEW B, OrdersAll(S, B), NEW t \in Nat,
         NEW E, E = {a \in S : RankIn(S, B, a) < t}
  PROVE  /\ IsFiniteSet(E) /\ Cardinality(E) \in Nat /\ Cardinality(E) <= t
         /\ E # S => Cardinality(E) = t
<1>1. /\ Cardinality(S) \in Nat
      /\ \A a \in S : RankIn(S, B, a) \in 0 .. Cardinality(S) - 1
      /\ \A a, b \in S : RankIn(S, B, a) = RankIn(S, B, b) => a = b
      /\ \A k \in 0 .. Cardinality(S) - 1 : \E a \in S : RankIn(S, B, a) = k
  BY Ranks
<1> DEFINE N == 0 .. t - 1
           f == [a \in E |-> RankIn(S, B, a)]
           g == [v \in N |-> CHOOSE a \in S : RankIn(S, B, a) = v]
<1>2. IsFiniteSet(N) /\ Cardinality(N) = t
  <2>1. IsFiniteSet(N) /\ Cardinality(N) = IF 0 > t - 1 THEN 0 ELSE t - 1 - 0 + 1
    BY UpTo
  <2> QED BY <2>1
<1>3. \A a \in E : f[a] \in N
  BY <1>1
<1>4. \A a, b \in E : f[a] = f[b] => a = b
  BY <1>1
<1>5. IsFiniteSet(E) /\ Cardinality(E) \in Nat /\ Cardinality(E) <= t
  <2> HIDE DEF N, f
  <2> QED BY <1>2, <1>3, <1>4, NoMoreThan
<1>6. ASSUME E # S PROVE t <= Cardinality(E)
  <2>1. PICK k \in S : ~ (RankIn(S, B, k) < t)
    BY <1>6
  <2>2. RankIn(S, B, k) \in 0 .. Cardinality(S) - 1
    BY <1>1
  <2>3. ASSUME NEW v \in N PROVE g[v] \in E /\ RankIn(S, B, g[v]) = v
    <3>1. v \in 0 .. Cardinality(S) - 1 /\ v < t
      BY <1>1, <2>1, <2>2
    <3>2. \E a \in S : RankIn(S, B, a) = v
      BY <1>1, <3>1
    <3>3. g[v] \in S /\ RankIn(S, B, g[v]) = v
      BY <3>2
    <3> QED BY <3>1, <3>3
  <2>4. \A v, w \in N : g[v] = g[w] => v = w
    BY <2>3
  <2>5. \A v \in N : g[v] \in E
    BY <2>3
  <2> HIDE DEF N, g
  <2>6. Cardinality(N) <= Cardinality(E)
    BY <1>5, <2>4, <2>5, NoMoreThan
  <2> QED BY <1>2, <2>6
<1> QED BY <1>5, <1>6

(* What is chosen, of what: half of each stage, and the best of more.      *)
ChosenIn(x, S) ==
  /\ S \subseteq {k \in 1 .. Len(picked) : Pairing(x)!StageAt(k) \in Written2}
  /\ \A j, k \in 1 .. Len(picked) :
       k \in S /\ j <= k /\ Pairing(x)!StageAt(j) = Pairing(x)!StageAt(k) => j \in S
  /\ \A k \in 1 .. Len(picked) :
       Pairing(x)!StageAt(k) \in Written2 /\ Pairing(x)!Place(k) <= Pairing(x)!Half => k \in S
  /\ Cardinality(S) < want =>
       \A k \in 1 .. Len(picked) :
         Pairing(x)!StageAt(k) \in Written2 /\ Pairing(x)!Place(k) <= Pairing(x)!Half + 2 => k \in S
  /\ want >= 2 => Cardinality(S) <= want

LEMMA HalfIs ==
  ASSUME NEW x, want \in Nat
  PROVE  /\ Pairing(x)!Half \in Nat \ {0}
         /\ want >= 2 => 2 * Pairing(x)!Half <= want
<1>1. CASE want < 2
  BY <1>1 DEF Pairing!Half
<1>2. CASE want >= 2
  <2>1. want \div 2 \in Nat \ {0} /\ 2 * (want \div 2) <= want
    BY <1>2
  <2> QED BY <1>2, <2>1 DEF Pairing!Half
<1> QED BY <1>1, <1>2

LEMMA ChosenAre ==
  ASSUME NEW x, CansOk(cans), PicksOk(x, cans, picked), want \in Nat
  PROVE  \E S : Pairing(x)!Chosen = Pairing(x)!Take(S) /\ ChosenIn(x, S)
<1> DEFINE N == Len(picked)
           h == Pairing(x)!Half
           st(k) == Pairing(x)!StageAt(k)
           place(k) == Pairing(x)!Place(k)
           best == Pairing(x)!Among(1, h)
           more == Pairing(x)!Among(h + 1, h + 2)
           ahead(k) == {m \in more : Pairing(x)!Better(m, k)}
           b == Cardinality(best)
           extra == {k \in more : b + Cardinality(ahead(k)) < want}
           S == best \cup extra
           B == {p \in more \X more : Pairing(x)!Better(p[1], p[2])}
<1>1. Pairing(x)!Chosen = Pairing(x)!Take(S)
  BY DEF Pairing!Chosen, Pairing!Cardinality, Cardinality
<1>2. N \in Nat /\ DOMAIN picked = 1 .. N
  BY PickedAre
<1>3. h \in Nat \ {0} /\ (want >= 2 => 2 * h <= want)
  BY HalfIs
<1>4. /\ best = {k \in 1 .. N : st(k) \in Written2 /\ 1 <= place(k) /\ place(k) <= h}
      /\ more = {k \in 1 .. N : st(k) \in Written2 /\ h + 1 <= place(k) /\ place(k) <= h + 2}
  BY <1>2 DEF Pairing!Among, Written2
<1>5. \A k \in 1 .. N : /\ place(k) \in Nat \ {0}
                        /\ \A m \in 1 .. N : st(m) = st(k) =>
                             /\ m < k <=> place(m) < place(k)
                             /\ place(m) = place(k) => m = k
  BY <1>2, PlaceIs
<1>6. ASSUME NEW k \in more PROVE ahead(k) = {y \in more : <<y, k>> \in B}
  OBVIOUS
<1>7. ASSUME NEW j \in more, NEW k \in more, j < k, st(j) = st(k) PROVE <<j, k>> \in B
  <2>1. j \in 1 .. N /\ k \in 1 .. N
    BY <1>4
  <2>2. Score(x, j) \in Int /\ Score(x, k) \in Int /\ Score(x, j) >= Score(x, k)
    BY <1>7, <2>1, PickedAre
  <2>3. Pairing(x)!Better(j, k)
    BY <1>7, <2>2 DEF Pairing!Better, Pairing!FinalOf, Score, ScoreIn
  <2> QED BY <2>3
<1>8. OrdersAll(more, B)
  <2>1. more \subseteq 1 .. Len(picked) /\ \A k \in more : Pairing(x)!StageAt(k) \in Written2
    BY <1>4
  <2> HIDE DEF more
  <2> QED BY <2>1, BetterOrders
<1>9. IsFiniteSet(best) /\ b \in Nat /\ IsFiniteSet(more)
  <2>1. IsFiniteSet(1 .. N) /\ best \in SUBSET (1 .. N) /\ more \in SUBSET (1 .. N)
    BY <1>2, <1>4, UpTo
  <2> HIDE DEF best, more
  <2> QED BY <2>1, FS_Subset, FS_CardinalityType
<1>10. \A k \in more : Cardinality(ahead(k)) = RankIn(more, B, k)
  BY <1>6 DEF RankIn
<1> HIDE DEF N, h, st, place, best, more, ahead, b, B
<1>11. /\ \A k \in more : RankIn(more, B, k) \in Nat
       /\ \A j, k \in more : <<j, k>> \in B => RankIn(more, B, j) < RankIn(more, B, k)
  <2>1. /\ Cardinality(more) \in Nat
        /\ \A k \in more : RankIn(more, B, k) \in 0 .. Cardinality(more) - 1
        /\ \A j, k \in more : <<j, k>> \in B => RankIn(more, B, j) < RankIn(more, B, k)
    BY <1>8, <1>9, Ranks
  <2> QED BY <2>1
<1>12. extra = {k \in more : b + RankIn(more, B, k) < want}
  BY <1>10
<1> HIDE DEF extra
<1>14. IsFiniteSet(S) /\ Cardinality(S) \in Nat /\ b <= Cardinality(S)
  <2>1. extra \in SUBSET more
    BY <1>12
  <2>2. IsFiniteSet(extra)
    BY <1>9, <2>1, FS_Subset
  <2>3. IsFiniteSet(S) /\ best \in SUBSET S
    BY <1>9, <2>2, FS_Union
  <2> QED BY <2>3, FS_Subset, FS_CardinalityType DEF b
<1>13. ASSUME b <= want
       PROVE  Cardinality(S) <= want /\ (extra # more => Cardinality(S) = want)
  <2> DEFINE t == want - b
  <2>1. t \in Nat
    BY <1>9, <1>13
  <2>2. extra = {k \in more : RankIn(more, B, k) < t}
    BY <1>9, <1>11, <1>12
  <2> HIDE DEF t
  <2>3. /\ IsFiniteSet(extra) /\ Cardinality(extra) \in Nat /\ Cardinality(extra) <= t
        /\ extra # more => Cardinality(extra) = t
    BY <1>8, <1>9, <2>1, <2>2, FirstFew
  <2>4. best \cap extra = {}
    <3>1. \A k \in 1 .. N : place(k) \in Nat
      BY <1>5
    <3>2. extra \subseteq more
      BY <1>12
    <3> QED BY <1>3, <1>4, <3>1, <3>2
  <2>5. Cardinality(S) = b + Cardinality(extra) - Cardinality({})
    BY <1>9, <2>3, <2>4, FS_Union DEF b
  <2>6. Cardinality(S) = b + Cardinality(extra)
    BY <1>9, <2>3, <2>5, FS_EmptySet
  <2> QED BY <1>9, <2>3, <2>6 DEF t
<1>16. Cardinality(S) < want => extra = more
  BY <1>9, <1>13, <1>14
<1>17. want >= 2 => b <= want
  <2> DEFINE f == [k \in best |-> IF st(k) = "Fragment" THEN place(k) ELSE h + place(k)]
             D == 1 .. 2 * h
  <2>1. \A k \in best : /\ k \in 1 .. N /\ place(k) \in Nat /\ 1 <= place(k) /\ place(k) <= h
                        /\ (st(k) = "Fragment" \/ st(k) = "Vertex")
    BY <1>4, <1>5 DEF Written2
  <2>2. \A k \in best : f[k] \in D
    BY <1>3, <2>1
  <2>3. ASSUME NEW j \in best, NEW k \in best, f[j] = f[k] PROVE j = k
    <3>1. st(j) = st(k) /\ place(j) = place(k)
      BY <1>3, <2>1, <2>3
    <3> QED BY <1>5, <2>1, <3>1
  <2>4. IsFiniteSet(D) /\ Cardinality(D) = 2 * h
    <3>1. IsFiniteSet(D) /\ Cardinality(D) = IF 1 > 2 * h THEN 0 ELSE 2 * h - 1 + 1
      BY <1>3, UpTo
    <3> QED BY <1>3, <3>1
  <2> HIDE DEF f, D
  <2>5. b <= 2 * h
    BY <2>2, <2>3, <2>4, NoMoreThan DEF b
  <2> QED BY <1>3, <1>9, <2>5
<1>18. ASSUME NEW j \in 1 .. N, NEW k \in S, j <= k, st(j) = st(k) PROVE j \in S
  <2>1. k \in 1 .. N /\ st(k) \in Written2
    BY <1>4, <1>12
  <2>2. place(j) \in Nat \ {0} /\ place(k) \in Nat /\ place(j) <= place(k)
    <3>1. place(j) \in Nat \ {0} /\ place(k) \in Nat
      BY <1>5, <2>1
    <3>2. j = k \/ j < k
      BY <1>18, <2>1
    <3>3. j < k => place(j) < place(k)
      BY <1>5, <1>18, <2>1
    <3> QED BY <3>1, <3>2, <3>3
  <2>3. CASE place(j) <= h
    BY <1>4, <1>18, <2>1, <2>2, <2>3
  <2>4. CASE place(j) > h
    <3>1. k \notin best
      BY <1>3, <1>4, <2>2, <2>4
    <3>2. k \in extra /\ k \in more
      BY <1>12, <3>1
    <3>3. j \in more
      <4>1. place(k) <= h + 2
        BY <1>4, <3>2
      <4>2. h + 1 <= place(j) /\ place(j) <= h + 2
        BY <1>3, <2>2, <2>4, <4>1
      <4> QED BY <1>4, <1>18, <2>1, <4>2
    <3>4. CASE j = k
      BY <3>4
    <3>5. CASE j # k
      <4>1. j < k
        BY <1>18, <2>1, <3>5
      <4>2. RankIn(more, B, j) < RankIn(more, B, k)
        BY <1>7, <1>11, <1>18, <3>2, <3>3, <4>1
      <4>3. b + RankIn(more, B, k) < want
        BY <1>12, <3>2
      <4>4. b + RankIn(more, B, j) < want
        BY <1>9, <1>11, <3>2, <3>3, <4>2, <4>3
      <4> QED BY <1>12, <3>3, <4>4
    <3> QED BY <3>4, <3>5
  <2> QED BY <1>3, <2>2, <2>3, <2>4
<1>19. S \subseteq {k \in 1 .. N : st(k) \in Written2}
  BY <1>4, <1>12
<1>20. \A k \in 1 .. N : st(k) \in Written2 /\ place(k) <= h => k \in S
  BY <1>4, <1>5
<1>21. ASSUME Cardinality(S) < want, NEW k \in 1 .. N, st(k) \in Written2, place(k) <= h + 2 PROVE k \in S
  <2>1. place(k) \in Nat \ {0}
    BY <1>5
  <2>2. k \in best \/ k \in more
    BY <1>3, <1>4, <1>21, <2>1
  <2> QED BY <1>16, <1>21, <2>2
<1>22. want >= 2 => Cardinality(S) <= want
  BY <1>13, <1>17
<1> HIDE DEF S
<1>23. ChosenIn(x, S)
  BY <1>18, <1>19, <1>20, <1>21, <1>22 DEF ChosenIn, N, st, place, h
<1> QED BY <1>1, <1>23
(* TheBestAreChosen, of what was chosen.                                   *)
HalfOf(w) == IF w < 2 THEN 1 ELSE w \div 2
BestOf(x, cs, list, w, ch) ==
  \A p \in {q \in Pairing(x)!Items(list) \ Pairing(x)!Items(ch) :
              cs.sys[q[1]].stage \in {"Fragment", "Vertex"}} :
    LET same == {c \in Pairing(x)!Items(ch) : cs.sys[c[1]].stage = cs.sys[p[1]].stage} IN
    /\ \A c \in same : ScoreIn(x, cs, c) >= ScoreIn(x, cs, p)
    /\ Len(ch) = w \/ Cardinality(same) >= HalfOf(w) + 2
    /\ w >= 2 => \E c \in Pairing(x)!Items(ch) : ScoreIn(x, cs, c) >= ScoreIn(x, cs, p)

LEMMA TakenIsBest ==
  ASSUME NEW x, CansOk(cans), PicksOk(x, cans, picked), want \in Nat,
         NEW S, ChosenIn(x, S), NEW ch, ch = Pairing(x)!Take(S)
  PROVE  /\ Pairing(x)!Items(ch) \subseteq Pairing(x)!Items(picked) /\ Len(ch) <= want
         /\ DOMAIN ch = 1 .. Len(ch) /\ Len(ch) \in Nat
         /\ BestOf(x, cans, picked, want, ch)
<1> DEFINE N == Len(picked)
           st(k) == Pairing(x)!StageAt(k)
           place(k) == Pairing(x)!Place(k)
           h == Pairing(x)!Half
           score(k) == Score(x, k)
<1>1. ch = Pairing(x)!Take(S) /\ ChosenIn(x, S)
  OBVIOUS
<1>2. S \subseteq 1 .. N /\ \A k \in S : st(k) \in Written2
  BY <1>1 DEF ChosenIn
<1>3. /\ IsFiniteSet(S) /\ Cardinality(S) \in Nat
      /\ Len(ch) = (IF want <= Cardinality(S) THEN want ELSE Cardinality(S))
      /\ DOMAIN ch = 1 .. Len(ch)
      /\ \A i \in DOMAIN ch : \E k \in S : ch[i] = picked[k]
      /\ Cardinality(S) <= want => \A k \in S : \E i \in DOMAIN ch : ch[i] = picked[k]
      /\ \A i \in DOMAIN ch, j, k \in S :
           ch[i] = picked[k] /\ j < k /\ st(j) = st(k) => \E e \in DOMAIN ch : ch[e] = picked[j]
  <2>1. S \subseteq 1 .. Len(picked) /\ \A k \in S : Pairing(x)!StageAt(k) \in Written2
    BY <1>2
  <2>2. TakenFrom(x, S, ch)
    BY <2>1, TakeIs
  <2> QED BY <2>2 DEF TakenFrom
<1>4. /\ N \in Nat /\ DOMAIN picked = 1 .. N /\ \A k \in 1 .. N : score(k) \in Int
      /\ \A k, m \in 1 .. N : k <= m => score(k) >= score(m)
      /\ \A k, m \in 1 .. N : picked[k] = picked[m] => k = m
  BY PickedAre
<1>5. /\ Pairing(x)!Items(ch) = {ch[i] : i \in DOMAIN ch}
      /\ Pairing(x)!Items(picked) = {picked[k] : k \in 1 .. N}
  BY <1>4 DEF Pairing!Items
<1>6. Pairing(x)!Items(ch) \subseteq Pairing(x)!Items(picked)
  BY <1>2, <1>3, <1>5
<1>7. Len(ch) <= want /\ DOMAIN ch = 1 .. Len(ch) /\ Len(ch) \in Nat
  BY <1>3
<1>8. /\ \A k \in 1 .. N : Pairing(x)!StageOf(picked[k]) = st(k) /\ Pairing(x)!FinalOf(picked[k]) = score(k)
  BY DEF Pairing!StageAt, Pairing!FinalOf, Score, ScoreIn
<1>9. h \in Nat \ {0} /\ (want >= 2 => 2 * h <= want)
  BY HalfIs
<1>10. \A k \in 1 .. N :
         /\ place(k) \in Nat \ {0}
         /\ \A m \in 1 .. N : st(m) = st(k) =>
              (m < k <=> place(m) < place(k)) /\ (place(m) = place(k) => m = k)
         /\ \A v \in 1 .. place(k) : \E m \in 1 .. k : st(m) = st(k) /\ place(m) = v
  BY <1>4, PlaceIs
<1>11. /\ \A j, k \in 1 .. N : k \in S /\ j <= k /\ st(j) = st(k) => j \in S
       /\ \A k \in 1 .. N : st(k) \in Written2 /\ place(k) <= h => k \in S
       /\ Cardinality(S) < want =>
            \A k \in 1 .. N : st(k) \in Written2 /\ place(k) <= h + 2 => k \in S
       /\ want >= 2 => Cardinality(S) <= want
  BY <1>1 DEF ChosenIn
<1> HIDE DEF N, st, place, h, score
<1>12. ASSUME NEW k \in 1 .. N, picked[k] \notin Pairing(x)!Items(ch), st(k) \in Written2,
              NEW same, same = {c \in Pairing(x)!Items(ch) : Pairing(x)!StageOf(c) = st(k)}
       PROVE  /\ \A c \in same : Pairing(x)!FinalOf(c) >= score(k)
              /\ Len(ch) = want \/ Cardinality(same) >= h + 2
              /\ want >= 2 => \E c \in Pairing(x)!Items(ch) : Pairing(x)!FinalOf(c) >= score(k)
  <2>1. ASSUME NEW c \in same PROVE Pairing(x)!FinalOf(c) >= score(k)
    <3>1. PICK i \in DOMAIN ch : c = ch[i]
      BY <1>5, <1>12
    <3>2. PICK m \in S : ch[i] = picked[m]
      BY <1>3
    <3>3. m \in 1 .. N /\ st(m) = st(k)
      BY <1>2, <1>8, <1>12, <3>1, <3>2
    <3>4. ~ (k < m)
      <4> SUFFICES ASSUME k < m PROVE FALSE
        OBVIOUS
      <4>1. k \in S
        BY <1>4, <1>11, <3>3
      <4>2. \E e \in DOMAIN ch : ch[e] = picked[k]
        BY <1>3, <3>2, <3>3, <4>1
      <4> QED BY <1>5, <1>12, <4>2
    <3>5. m <= k
      BY <1>4, <3>3, <3>4
    <3> QED BY <1>4, <1>8, <3>1, <3>2, <3>3, <3>5
  <2>2. ASSUME Len(ch) # want PROVE Cardinality(same) >= h + 2
    <3>1. Cardinality(S) < want /\ Cardinality(S) <= want
      BY <1>3, <2>2
    <3>2. \A m \in S : picked[m] \in Pairing(x)!Items(ch)
      BY <1>3, <1>5, <3>1
    <3>3. ~ (place(k) <= h + 2) /\ place(k) \in Nat
      BY <1>10, <1>11, <1>12, <3>1, <3>2
    <3> DEFINE D == 1 .. h + 2
               f == [v \in D |-> CHOOSE m \in 1 .. k : st(m) = st(k) /\ place(m) = v]
               g == [v \in D |-> picked[f[v]]]
    <3>4. ASSUME NEW v \in D PROVE /\ f[v] \in 1 .. N /\ st(f[v]) = st(k) /\ place(f[v]) = v
                                   /\ g[v] \in same
      <4>1. v \in 1 .. place(k)
        BY <1>9, <3>3
      <4>2. \E m \in 1 .. k : st(m) = st(k) /\ place(m) = v
        BY <1>10, <4>1
      <4>3. f[v] \in 1 .. k /\ st(f[v]) = st(k) /\ place(f[v]) = v
        BY <4>2
      <4>4. f[v] \in 1 .. N
        BY <1>4, <4>3
      <4>5. f[v] \in S
        <5>1. place(f[v]) <= h + 2
          BY <4>3
        <5> HIDE DEF f
        <5> QED BY <1>11, <1>12, <3>1, <4>3, <4>4, <5>1
      <4>6. g[v] = picked[f[v]]
        OBVIOUS
      <4> HIDE DEF f, g
      <4> QED BY <1>8, <1>12, <3>2, <4>3, <4>4, <4>5, <4>6
    <3>5. \A v, w \in D : g[v] = g[w] => v = w
      <4> SUFFICES ASSUME NEW v \in D, NEW w \in D, g[v] = g[w] PROVE v = w
        OBVIOUS
      <4>1. picked[f[v]] = picked[f[w]]
        OBVIOUS
      <4> HIDE DEF f, g, D
      <4>2. f[v] = f[w]
        BY <1>4, <3>4, <4>1
      <4> QED BY <3>4, <4>2
    <3>6. IsFiniteSet(same)
      <4>1. DOMAIN ch = 1 .. Len(ch) /\ Len(ch) \in Int
        BY <1>3
      <4>2. IsFiniteSet(DOMAIN ch)
        BY <4>1, UpTo
      <4>3. IsFiniteSet(Pairing(x)!Items(ch))
        BY <4>2, ItemsFinite
      <4> QED BY <1>12, <4>3, FS_Subset
    <3>7. Cardinality(D) = h + 2
      <4>1. Cardinality(D) = IF 1 > h + 2 THEN 0 ELSE h + 2 - 1 + 1
        BY <1>9, UpTo
      <4> QED BY <1>9, <4>1
    <3> HIDE DEF D, f, g
    <3>8. Cardinality(D) <= Cardinality(same)
      BY <3>4, <3>5, <3>6, NoMoreThan
    <3>9. Cardinality(same) \in Nat
      BY <3>6, FS_CardinalityType
    <3> QED BY <1>9, <3>7, <3>8, <3>9
  <2>3. ASSUME want >= 2 PROVE \E c \in Pairing(x)!Items(ch) : Pairing(x)!FinalOf(c) >= score(k)
    <3>1. 1 \in 1 .. place(k)
      BY <1>10
    <3>2. PICK m \in 1 .. k : st(m) = st(k) /\ place(m) = 1
      BY <1>10, <3>1
    <3>3. m \in 1 .. N /\ m <= k
      BY <1>4
    <3>4. m \in S
      BY <1>9, <1>11, <1>12, <3>2, <3>3
    <3>5. PICK i \in DOMAIN ch : ch[i] = picked[m]
      BY <1>3, <1>11, <2>3, <3>4
    <3> QED BY <1>4, <1>5, <1>8, <3>3, <3>5
  <2> QED BY <2>1, <2>2, <2>3
<1>13. BestOf(x, cans, picked, want, ch)
  <2> SUFFICES ASSUME NEW p \in Pairing(x)!Items(picked) \ Pairing(x)!Items(ch),
                      Pairing(x)!StageOf(p) \in {"Fragment", "Vertex"}
               PROVE  LET same == {c \in Pairing(x)!Items(ch) : Pairing(x)!StageOf(c) = Pairing(x)!StageOf(p)} IN
                      /\ \A c \in same : Pairing(x)!FinalOf(c) >= Pairing(x)!FinalOf(p)
                      /\ Len(ch) = want \/ Cardinality(same) >= Pairing(x)!Half + 2
                      /\ want >= 2 => \E c \in Pairing(x)!Items(ch) :
                                        Pairing(x)!FinalOf(c) >= Pairing(x)!FinalOf(p)
    BY DEF BestOf, ScoreIn, HalfOf, Pairing!StageOf, Pairing!FinalOf, Pairing!Half
  <2>1. PICK k \in 1 .. N : p = picked[k]
    BY <1>5
  <2>2. Pairing(x)!StageOf(p) = st(k) /\ Pairing(x)!FinalOf(p) = score(k)
    BY <1>8, <2>1
  <2>3. st(k) \in Written2 /\ picked[k] \notin Pairing(x)!Items(ch)
    BY <2>1, <2>2 DEF Written2
  <2> DEFINE same == {c \in Pairing(x)!Items(ch) : Pairing(x)!StageOf(c) = st(k)}
  <2>4. /\ \A c \in same : Pairing(x)!FinalOf(c) >= score(k)
        /\ Len(ch) = want \/ Cardinality(same) >= h + 2
        /\ want >= 2 => \E c \in Pairing(x)!Items(ch) : Pairing(x)!FinalOf(c) >= score(k)
    <3> HIDE DEF same
    <3>1. same = {c \in Pairing(x)!Items(ch) : Pairing(x)!StageOf(c) = st(k)}
      BY DEF same
    <3> QED BY <1>12, <2>3, <3>1
  <2> QED BY <2>2, <2>4 DEF h
<1> QED BY <1>6, <1>7, <1>13

LEMMA ChosenIsBest ==
  ASSUME NEW x, CansOk(cans), PicksOk(x, cans, picked), want \in Nat, NEW ch, ch = Pairing(x)!Chosen
  PROVE  /\ Pairing(x)!Items(ch) \subseteq Pairing(x)!Items(picked) /\ Len(ch) <= want
         /\ DOMAIN ch = 1 .. Len(ch) /\ Len(ch) \in Nat
         /\ BestOf(x, cans, picked, want, ch)
<1>1. PICK S : ch = Pairing(x)!Take(S) /\ ChosenIn(x, S)
  BY ChosenAre
<1> QED BY <1>1, TakenIsBest
-----------------------------------------------------------------------------
(* The script                                                              *)

PairEnds == {"idle", "clean", "build"}
PairRead == {"tables", "archetypes", "match", "choose", "pairs", "readme", "done"}
PairKept == {"match", "choose", "pairs", "readme", "done"}
PairPcs == PairEnds \cup PairRead \cup {"failed"}

NotCompute(list) == {k \in DOMAIN list : list[k].stage # "Compute"}

AboutIn(x, cs, ch, n) ==
  LET a == cs.sys[ch[n][1]]   b == cs.pvk[ch[n][2]]
  IN [n |-> n, stage |-> a.stage, sys |-> a, pvk |-> b, confidence |-> Pairing(x)!Confidence(a, b)]
AboutsOf(x, cs, ch) == {AboutIn(x, cs, ch, n) : n \in DOMAIN ch}

PairTypes(x) ==
  /\ runs \in 0 .. x.runs /\ pc \in PairPcs /\ want \in Nat
  /\ pc # "idle" => DumpOk(dumps["sys"]) /\ DumpOk(dumps["pvk"])
  /\ dir = [tables |-> dir.tables, pairs |-> dir.pairs, readme |-> dir.readme]

(* Tables and archetypes are those of the dumps of this run.               *)
PairMade(x) ==
  /\ pc \in PairRead =>
       recs = [sys |-> Pairing(x)!Build(dumps["sys"]), pvk |-> Pairing(x)!Build(dumps["pvk"])]
  /\ pc \in PairKept =>
       cans = [sys |-> Pairing(x)!Canonicalize(recs.sys, NotCompute(recs.sys)),
               pvk |-> Pairing(x)!Canonicalize(recs.pvk, NotCompute(recs.pvk))]
  /\ pc \notin PairKept \cup {"failed"} => picked = <<>> /\ chosen = <<>>

PairPicks(x) ==
  /\ PicksOk(x, cans, picked)
  /\ pc = "choose" => FreeIn(cans, picked) = {}
  /\ Pairing(x)!Items(chosen) \subseteq Pairing(x)!Items(picked)
  /\ Len(chosen) \in Nat /\ Len(chosen) <= want /\ DOMAIN chosen = 1 .. Len(chosen)
  /\ pc \in {"match", "choose"} => chosen = <<>>
  /\ pc = "pairs" => BestOf(x, cans, picked, want, chosen)

(* What a run that has come this far finds in the directory is its own.    *)
PairDir(x) ==
  /\ pc \in {"build", "tables", "archetypes", "match", "choose"} => dir.pairs = {}
  /\ pc = "pairs" => dir.pairs \subseteq AboutsOf(x, cans, chosen)
  /\ pc \in {"readme", "done"} => dir.pairs = AboutsOf(x, cans, chosen)
  /\ pc \in {"archetypes", "match", "choose", "pairs", "readme", "done"} => dir.tables = recs
  /\ pc = "done" => dir.readme = [n \in DOMAIN chosen |-> AboutIn(x, cans, chosen, n)]

PairInv(x) == PairTypes(x) /\ PairMade(x) /\ PairPicks(x) /\ PairDir(x)

LEMMA PairsState ==
  ASSUME NEW x
  PROVE  /\ Pairing(x)!Candidates = PairsFrom(cans)
         /\ Pairing(x)!Free = FreeIn(cans, picked)
         /\ \A c : Pairing(x)!FinalOf(c) = ScoreIn(x, cans, c)
         /\ \A n : Pairing(x)!About(n) = AboutIn(x, cans, chosen, n)
         /\ \A n : Pairing(x)!Written(n) <=> AboutIn(x, cans, chosen, n) \in dir.pairs
<1>1. Pairing(x)!Candidates = PairsFrom(cans)
  BY DEF Pairing!Candidates, PairsFrom
<1>2. \A k : (\A p \in Pairing(x)!Items(picked) : p[1] # k[1] /\ p[2] # k[2])
             <=> \A i \in DOMAIN picked : picked[i][1] # k[1] /\ picked[i][2] # k[2]
  BY DEF Pairing!Items
<1>3. Pairing(x)!Free = FreeIn(cans, picked)
  BY <1>1, <1>2 DEF Pairing!Free, FreeIn
<1>4. \A c : Pairing(x)!FinalOf(c) = ScoreIn(x, cans, c)
  BY DEF Pairing!FinalOf, ScoreIn
<1>5. \A n : Pairing(x)!About(n) = AboutIn(x, cans, chosen, n)
  BY DEF Pairing!About, AboutIn
<1>6. \A n : Pairing(x)!Written(n) <=> AboutIn(x, cans, chosen, n) \in dir.pairs
  BY <1>5 DEF Pairing!Written
<1> QED BY <1>1, <1>3, <1>4, <1>5, <1>6

(* What the archetypes of a run are.                                       *)
LEMMA KeptAre ==
  ASSUME NEW x, PairTypes(x), PairMade(x), pc \in PairKept
  PROVE  CansOk(cans)
<1>1. ASSUME NEW d, DumpOk(d), NEW list, list = Pairing(x)!Build(d),
             NEW cs, cs = Pairing(x)!Canonicalize(list, NotCompute(list))
      PROVE  \E m \in Nat : DOMAIN cs = 1 .. m /\ \A i \in 1 .. m : IsText(cs[i].text)
  <2>1. NotCompute(list) = {k \in DOMAIN list : list[k].stage # "Compute"}
    BY DEF NotCompute
  <2>2. /\ \A a \in Pairing(x)!Items(cs) : IsText(a.text)
        /\ \E c \in Nat : DOMAIN cs = 1 .. c /\ \A i \in 1 .. c : cs[i] \in Pairing(x)!Items(cs)
    <3>1. DrawsOk(x, d, list, cs)
      BY <1>1, <2>1, DrawsKept
    <3> QED BY <3>1 DEF DrawsOk
  <2> QED BY <2>2
<1>2. DumpOk(dumps["sys"]) /\ DumpOk(dumps["pvk"]) /\ pc \in PairRead
  BY DEF PairTypes, PairKept, PairRead
<1>3. /\ recs.sys = Pairing(x)!Build(dumps["sys"]) /\ recs.pvk = Pairing(x)!Build(dumps["pvk"])
      /\ cans.sys = Pairing(x)!Canonicalize(recs.sys, NotCompute(recs.sys))
      /\ cans.pvk = Pairing(x)!Canonicalize(recs.pvk, NotCompute(recs.pvk))
  BY <1>2 DEF PairMade
<1>4. \E m \in Nat : DOMAIN cans.sys = 1 .. m /\ \A i \in 1 .. m : IsText(cans.sys[i].text)
  BY <1>1, <1>2, <1>3
<1>5. \E m \in Nat : DOMAIN cans.pvk = 1 .. m /\ \A i \in 1 .. m : IsText(cans.pvk[i].text)
  BY <1>1, <1>2, <1>3
<1> QED BY <1>4, <1>5 DEF CansOk

LEMMA PairInit ==
  ASSUME NEW x \in Pairings, Pairing(x)!Init
  PROVE  PairInv(x)
<1> USE DEF Pairing!Init, Pairing!Empty, Pairing!NoFiles, PairEnds, PairRead, PairKept, PairPcs
<1>1. PairTypes(x)
  <2>1. x.runs \in Nat
    BY PairingsAssumption
  <2> QED BY <2>1 DEF PairTypes
<1>2. PairMade(x)
  BY DEF PairMade
<1>3. PairPicks(x)
  <2>1. PicksOk(x, cans, picked)
    BY PicksNone
  <2>2. Pairing(x)!Items(chosen) \subseteq Pairing(x)!Items(picked)
    BY DEF Pairing!Items
  <2> QED BY <2>1, <2>2 DEF PairPicks
<1>4. PairDir(x)
  BY DEF PairDir
<1> QED BY <1>1, <1>2, <1>3, <1>4 DEF PairInv

LEMMA PairSame ==
  ASSUME NEW x, PairInv(x), UNCHANGED pairs
  PROVE  PairInv(x)'
<1>1. UNCHANGED <<runs, dumps, want, recs, cans, picked, chosen, dir, pc>>
  BY DEF pairs
<1>2. PairTypes(x)' /\ PairMade(x)' /\ PairDir(x)'
  BY <1>1 DEF PairInv, PairTypes, PairMade, PairDir
<1>3. PairPicks(x)'
  BY <1>1 DEF PairInv, PairPicks, Pairing!Items
<1> QED BY <1>2, <1>3 DEF PairInv
LEMMA PairTypesStep ==
  ASSUME NEW x \in Pairings, PairInv(x), Pairing(x)!Next
  PROVE  PairTypes(x)'
<1> USE DEF PairEnds, PairRead, PairKept, PairPcs
<1>0. PairTypes(x) /\ x.runs \in Nat
  BY PairingsAssumption DEF PairInv
<1>1. CASE Pairing(x)!Begins
  <2>1. runs' \in 0 .. x.runs /\ pc' \in PairPcs /\ UNCHANGED dir
    BY <1>0, <1>1 DEF Pairing!Begins, PairTypes
  <2>2. PICK s \in x.sys, p \in x.pvk, w \in x.wants : dumps' = [sys |-> s, pvk |-> p] /\ want' = w
    BY <1>1 DEF Pairing!Begins
  <2>3. w \in Nat /\ DumpOk(s) /\ DumpOk(p)
    <3>1. x.wants \subseteq Nat /\ \A d \in x.sys \cup x.pvk : DumpOk(d)
      BY PairingsAssumption DEF DumpOk
    <3> QED BY <3>1
  <2>4. dumps'["sys"] = s /\ dumps'["pvk"] = p
    BY <2>2
  <2> QED BY <1>0, <2>1, <2>2, <2>3, <2>4 DEF PairTypes
<1>2. CASE Pairing(x)!DropsStale
  BY <1>0, <1>2 DEF Pairing!DropsStale, PairTypes
<1>3. CASE Pairing(x)!Builds
  BY <1>0, <1>3 DEF Pairing!Builds, PairTypes
<1>4. CASE Pairing(x)!WritesTables
  BY <1>0, <1>4 DEF Pairing!WritesTables, PairTypes
<1>5. CASE Pairing(x)!Archetypes
  BY <1>0, <1>5 DEF Pairing!Archetypes, PairTypes
<1>6. CASE Pairing(x)!PicksPair
  BY <1>0, <1>6 DEF Pairing!PicksPair, PairTypes
<1>7. CASE Pairing(x)!Chooses
  BY <1>0, <1>7 DEF Pairing!Chooses, PairTypes
<1>8. CASE Pairing(x)!WritesPair
  BY <1>0, <1>8 DEF Pairing!WritesPair, PairTypes
<1>9. CASE Pairing(x)!WritesReadme
  BY <1>0, <1>9 DEF Pairing!WritesReadme, PairTypes
<1>10. CASE Pairing(x)!Stopped
  BY <1>0, <1>10 DEF Pairing!Stopped, PairTypes
<1> QED
  BY <1>1, <1>2, <1>3, <1>4, <1>5, <1>6, <1>7, <1>8, <1>9, <1>10 DEF Pairing!Next

LEMMA PairMadeStep ==
  ASSUME NEW x \in Pairings, PairInv(x), Pairing(x)!Next
  PROVE  PairMade(x)'
<1> USE DEF PairEnds, PairRead, PairKept, PairPcs
<1>0. PairMade(x)
  BY DEF PairInv
<1>1. CASE Pairing(x)!Begins
  BY <1>1 DEF Pairing!Begins, PairMade
<1>2. CASE Pairing(x)!DropsStale
  BY <1>0, <1>2 DEF Pairing!DropsStale, PairMade
<1>3. CASE Pairing(x)!Builds
  <2>1. recs' = [s \in {"sys", "pvk"} |-> Pairing(x)!Build(dumps[s])]
    BY <1>3 DEF Pairing!Builds, Pairing!Sides
  <2>2. recs' = [sys |-> Pairing(x)!Build(dumps["sys"]), pvk |-> Pairing(x)!Build(dumps["pvk"])]
    BY <2>1
  <2>3. /\ pc = "build" /\ pc' = "tables" /\ UNCHANGED <<dumps, cans, picked, chosen>>
    BY <1>3 DEF Pairing!Builds
  <2> QED BY <1>0, <2>2, <2>3 DEF PairMade
<1>4. CASE Pairing(x)!WritesTables
  BY <1>0, <1>4 DEF Pairing!WritesTables, PairMade
<1>5. CASE Pairing(x)!Archetypes
  <2>1. cans' = [s \in {"sys", "pvk"} |-> Pairing(x)!Canonicalize(recs[s], NotCompute(recs[s]))]
    BY <1>5 DEF Pairing!Archetypes, Pairing!Sides, NotCompute
  <2>2. cans' = [sys |-> Pairing(x)!Canonicalize(recs.sys, NotCompute(recs.sys)),
                 pvk |-> Pairing(x)!Canonicalize(recs.pvk, NotCompute(recs.pvk))]
    BY <2>1
  <2>3. /\ pc = "archetypes" /\ pc' = "match" /\ UNCHANGED <<dumps, recs, picked, chosen>>
    BY <1>5 DEF Pairing!Archetypes
  <2> QED BY <1>0, <2>2, <2>3 DEF PairMade
<1>6. CASE Pairing(x)!PicksPair
  BY <1>0, <1>6 DEF Pairing!PicksPair, PairMade
<1>7. CASE Pairing(x)!Chooses
  BY <1>0, <1>7 DEF Pairing!Chooses, PairMade
<1>8. CASE Pairing(x)!WritesPair
  BY <1>0, <1>8 DEF Pairing!WritesPair, PairMade
<1>9. CASE Pairing(x)!WritesReadme
  BY <1>0, <1>9 DEF Pairing!WritesReadme, PairMade
<1>10. CASE Pairing(x)!Stopped
  BY <1>0, <1>10 DEF Pairing!Stopped, PairMade
<1> QED
  BY <1>1, <1>2, <1>3, <1>4, <1>5, <1>6, <1>7, <1>8, <1>9, <1>10 DEF Pairing!Next

LEMMA PairPicksStep ==
  ASSUME NEW x \in Pairings, PairInv(x), Pairing(x)!Next
  PROVE  PairPicks(x)'
<1> USE DEF PairEnds, PairRead, PairKept, PairPcs
<1>0. PairTypes(x) /\ PairMade(x) /\ PairPicks(x)
  BY DEF PairInv
<1> DEFINE Nothing == picked = <<>> /\ chosen = <<>>
<1>1. ASSUME Nothing', pc' # "choose", pc' # "pairs", want' \in Nat PROVE PairPicks(x)'
  <2>1. PicksOk(x, cans', <<>>)
    BY PicksNone
  <2>2. Len(<<>>) = 0 /\ DOMAIN <<>> = 1 .. 0
    OBVIOUS
  <2>3. Pairing(x)!Items(chosen') \subseteq Pairing(x)!Items(picked')
    BY <1>1
  <2> QED BY <1>1, <2>1, <2>2, <2>3 DEF PairPicks, Pairing!Items
<1>2. ASSUME UNCHANGED <<want, cans, picked, chosen>>, pc' # "choose", pc' # "pairs",
             pc' = "match" => chosen = <<>>
      PROVE  PairPicks(x)'
  BY <1>0, <1>2 DEF PairPicks, Pairing!Items
<1>3. want' \in Nat
  BY PairTypesStep DEF PairTypes
<1>4. CASE Pairing(x)!Begins
  BY <1>4, <1>1, <1>3 DEF Pairing!Begins
<1>5. CASE Pairing(x)!DropsStale
  BY <1>5, <1>2 DEF Pairing!DropsStale
<1>6. CASE Pairing(x)!Builds
  BY <1>6, <1>2 DEF Pairing!Builds
<1>7. CASE Pairing(x)!WritesTables
  BY <1>7, <1>2 DEF Pairing!WritesTables
<1>8. CASE Pairing(x)!Archetypes
  BY <1>0, <1>8, <1>1, <1>3 DEF Pairing!Archetypes, PairMade
<1>9. CASE Pairing(x)!PicksPair
  <2>0. /\ pc = "match" /\ UNCHANGED <<want, cans, chosen>> /\ PicksOk(x, cans, picked) /\ chosen = <<>>
        /\ Len(chosen) \in Nat /\ Len(chosen) <= want /\ DOMAIN chosen = 1 .. Len(chosen)
    BY <1>0, <1>9 DEF Pairing!PicksPair, PairPicks
  <2>1. CansOk(cans)
    BY <1>0, <2>0, KeptAre
  <2>2. CASE FreeIn(cans, picked) = {}
    <3>1. pc' = "choose" /\ UNCHANGED picked
      BY <1>9, <2>2, PairsState DEF Pairing!PicksPair
    <3> QED BY <1>0, <2>0, <2>2, <3>1 DEF PairPicks, Pairing!Items
  <2>3. CASE FreeIn(cans, picked) # {}
    <3> DEFINE F == FreeIn(cans, picked)
               c == CHOOSE a \in F : \A b \in F \ {a} : SoonerIn(x, cans, a, b)
    <3>1. picked' = Append(picked, c) /\ pc' = "match"
      <4>1. picked' = Append(picked, CHOOSE a \in Pairing(x)!Free :
                                       \A b \in Pairing(x)!Free \ {a} : Pairing(x)!Sooner(a, b))
            /\ pc' = "match"
        BY <1>9, <2>3, PairsState DEF Pairing!PicksPair
      <4> DEFINE G == Pairing(x)!Free
      <4>2. (CHOOSE a \in G : \A b \in G \ {a} : Pairing(x)!Sooner(a, b))
              = CHOOSE a \in G : \A b \in G \ {a} : SoonerIn(x, cans, a, b)
        <5> HIDE DEF G
        <5> QED BY DEF Pairing!Sooner, SoonerIn, Pairing!FinalOf, ScoreIn
      <4>3. G = F
        BY PairsState
      <4> HIDE DEF G, F
      <4>4. (CHOOSE a \in G : \A b \in G \ {a} : SoonerIn(x, cans, a, b)) = c
        BY <4>3
      <4> QED BY <4>1, <4>2, <4>4 DEF G
    <3> HIDE DEF c
    <3>2. c \in F /\ \A b \in F : ScoreIn(x, cans, c) >= ScoreIn(x, cans, b)
      BY <2>1, <2>3, FirstFree DEF c
    <3>3. PicksOk(x, cans, Append(picked, c))
      BY <2>0, <2>1, <3>2, PicksMore
    <3>4. Pairing(x)!Items(chosen) \subseteq Pairing(x)!Items(picked')
      BY <2>0 DEF Pairing!Items
    <3> QED BY <2>0, <3>1, <3>3, <3>4 DEF PairPicks, Pairing!Items
  <2> QED BY <2>2, <2>3
<1>10. CASE Pairing(x)!Chooses
  <2>0. /\ pc = "choose" /\ pc' = "pairs" /\ UNCHANGED <<want, cans, picked>> /\ PicksOk(x, cans, picked)
        /\ chosen' = Pairing(x)!Chosen /\ want \in Nat
    BY <1>0, <1>10 DEF Pairing!Chooses, PairPicks, PairTypes
  <2>1. CansOk(cans)
    BY <1>0, <2>0, KeptAre
  <2>2. /\ Pairing(x)!Items(chosen') \subseteq Pairing(x)!Items(picked) /\ Len(chosen') <= want
        /\ DOMAIN chosen' = 1 .. Len(chosen') /\ Len(chosen') \in Nat
        /\ BestOf(x, cans, picked, want, chosen')
    BY <2>0, <2>1, ChosenIsBest
  <2> QED BY <2>0, <2>2 DEF PairPicks, Pairing!Items
<1>11. CASE Pairing(x)!WritesPair
  <2>1. UNCHANGED <<want, cans, picked, chosen>> /\ pc = "pairs" /\ (pc' = "readme" \/ pc' = "pairs")
    BY <1>11 DEF Pairing!WritesPair
  <2> QED BY <1>0, <2>1 DEF PairPicks, Pairing!Items
<1>12. CASE Pairing(x)!WritesReadme
  BY <1>12, <1>2 DEF Pairing!WritesReadme
<1>13. CASE Pairing(x)!Stopped
  BY <1>13, <1>2 DEF Pairing!Stopped
<1> QED
  BY <1>4, <1>5, <1>6, <1>7, <1>8, <1>9, <1>10, <1>11, <1>12, <1>13 DEF Pairing!Next
LEMMA PairDirStep ==
  ASSUME NEW x \in Pairings, PairInv(x), Pairing(x)!Next
  PROVE  PairDir(x)'
<1> DEFINE A == AboutsOf(x, cans, chosen)
           about(n) == AboutIn(x, cans, chosen, n)
<1>0. PairDir(x) /\ PairMade(x) /\ dir = [tables |-> dir.tables, pairs |-> dir.pairs, readme |-> dir.readme]
  BY DEF PairInv, PairTypes
<1>1. CASE Pairing(x)!Begins
  BY <1>1 DEF Pairing!Begins, PairDir
<1>2. CASE Pairing(x)!DropsStale
  <2>1. pc' = "build" /\ dir'.pairs = {}
    BY <1>0, <1>2 DEF Pairing!DropsStale
  <2> QED BY <2>1 DEF PairDir
<1>3. CASE Pairing(x)!Builds
  <2>1. pc = "build" /\ pc' = "tables" /\ UNCHANGED dir
    BY <1>3 DEF Pairing!Builds
  <2> QED BY <1>0, <2>1 DEF PairDir
<1>4. CASE Pairing(x)!WritesTables
  <2>1. pc = "tables" /\ UNCHANGED <<recs, cans, chosen>>
    BY <1>4 DEF Pairing!WritesTables
  <2>2. CASE pc' = "failed"
    BY <2>2 DEF PairDir
  <2>3. CASE pc' # "failed"
    <3>1. pc' = "archetypes" /\ dir' = [dir EXCEPT !.tables = recs]
      BY <1>4, <2>3 DEF Pairing!WritesTables
    <3>2. dir'.tables = recs /\ dir'.pairs = dir.pairs
      BY <1>0, <3>1
    <3> QED BY <1>0, <2>1, <3>1, <3>2 DEF PairDir
  <2> QED BY <2>2, <2>3
<1>5. CASE Pairing(x)!Archetypes
  <2>1. pc = "archetypes" /\ pc' = "match" /\ UNCHANGED <<dir, recs>>
    BY <1>5 DEF Pairing!Archetypes
  <2> QED BY <1>0, <2>1 DEF PairDir
<1>6. CASE Pairing(x)!PicksPair
  <2>1. pc = "match" /\ pc' \in {"match", "choose"} /\ UNCHANGED <<dir, recs>>
    BY <1>6 DEF Pairing!PicksPair
  <2> QED BY <1>0, <2>1 DEF PairDir
<1>7. CASE Pairing(x)!Chooses
  <2>1. pc = "choose" /\ pc' = "pairs" /\ UNCHANGED <<dir, recs>>
    BY <1>7 DEF Pairing!Chooses
  <2> QED BY <1>0, <2>1 DEF PairDir
<1>8. CASE Pairing(x)!WritesPair
  <2>0. pc = "pairs" /\ UNCHANGED <<recs, cans, chosen>> /\ dir.pairs \subseteq A /\ dir.tables = recs
    BY <1>0, <1>8 DEF Pairing!WritesPair, PairDir
  <2>1. CASE \A n \in DOMAIN chosen : Pairing(x)!Written(n)
    <3>1. pc' = "readme" /\ UNCHANGED dir
      BY <1>8, <2>1 DEF Pairing!WritesPair
    <3>2. \A n \in DOMAIN chosen : about(n) \in dir.pairs
      BY <2>1, PairsState
    <3>3. dir.pairs = A
      BY <2>0, <3>2 DEF AboutsOf
    <3> QED BY <2>0, <3>1, <3>3 DEF PairDir
  <2>2. CASE ~ \A n \in DOMAIN chosen : Pairing(x)!Written(n)
    <3> DEFINE todo == {m \in DOMAIN chosen : ~ Pairing(x)!Written(m)}
               n == Pairing(x)!Least(todo)
               stays == {f \in dir.pairs : <<f.n, f.stage>> # <<n, Pairing(x)!About(n).stage>>}
    <3>1. pc' = "pairs" /\ dir' = [dir EXCEPT !.pairs = stays \cup {Pairing(x)!About(n)}]
      BY <1>8, <2>0, <2>2 DEF Pairing!WritesPair
    <3>2. n \in DOMAIN chosen
      <4>1. todo # {} /\ todo \subseteq DOMAIN chosen
        BY <2>2
      <4>2. DOMAIN chosen \subseteq Nat
        BY DEF PairInv, PairPicks
      <4> HIDE DEF todo
      <4> QED BY <4>1, <4>2, LeastIs
    <3>3. Pairing(x)!About(n) = about(n)
      BY PairsState
    <3> HIDE DEF n
    <3>4. dir'.pairs = stays \cup {about(n)} /\ dir'.tables = dir.tables
      BY <1>0, <3>1, <3>3
    <3>5. stays \subseteq A /\ about(n) \in A
      BY <2>0, <3>2 DEF AboutsOf
    <3> QED BY <2>0, <3>1, <3>4, <3>5 DEF PairDir
  <2> QED BY <2>1, <2>2
<1>9. CASE Pairing(x)!WritesReadme
  <2>1. /\ pc = "readme" /\ pc' = "done" /\ UNCHANGED <<recs, cans, chosen>>
        /\ dir' = [dir EXCEPT !.readme = [n \in DOMAIN chosen |-> Pairing(x)!About(n)]]
    BY <1>9 DEF Pairing!WritesReadme
  <2>2. /\ dir'.readme = [n \in DOMAIN chosen |-> Pairing(x)!About(n)]
        /\ dir'.pairs = dir.pairs /\ dir'.tables = dir.tables
    BY <1>0, <2>1
  <2>3. [n \in DOMAIN chosen |-> Pairing(x)!About(n)] = [n \in DOMAIN chosen |-> about(n)]
    BY PairsState
  <2> QED BY <1>0, <2>1, <2>2, <2>3 DEF PairDir
<1>10. CASE Pairing(x)!Stopped
  <2>1. pc' = "failed"
    BY <1>10 DEF Pairing!Stopped
  <2> QED BY <2>1 DEF PairDir
<1> QED
  BY <1>1, <1>2, <1>3, <1>4, <1>5, <1>6, <1>7, <1>8, <1>9, <1>10 DEF Pairing!Next

LEMMA PairStep ==
  ASSUME NEW x \in Pairings, PairInv(x), Pairing(x)!Next
  PROVE  PairInv(x)'
BY PairTypesStep, PairMadeStep, PairPicksStep, PairDirStep DEF PairInv

LEMMA PairGoal ==
  ASSUME NEW x \in Pairings, PairInv(x)
  PROVE  /\ Pairing(x)!TypeOK /\ Pairing(x)!NoDrawIsLost /\ Pairing(x)!ShownByTheMostDrawn
         /\ Pairing(x)!PairsAreStable /\ Pairing(x)!TheBestAreChosen
         /\ Pairing(x)!DirectoryIsOfOneRun
<1>0. PairTypes(x) /\ PairMade(x) /\ PairPicks(x) /\ PairDir(x)
  BY DEF PairInv
<1>1. /\ picked \in Seq(PairsFrom(cans)) /\ Pairing(x)!Items(picked) = {picked[k] : k \in DOMAIN picked}
      /\ \A k \in DOMAIN picked : picked[k] \in PairsFrom(cans)
  <2>1. picked \in Seq(PairsFrom(cans))
    BY <1>0 DEF PairPicks, PicksOk
  <2> HIDE DEF PairsFrom
  <2> QED BY <2>1 DEF Pairing!Items
<1>2. Pairing(x)!TypeOK
  <2>1. \A c \in Pairing(x)!Items(picked) : c \in Pairing(x)!Candidates
    BY <1>1, PairsState
  <2>2. runs \in 0 .. x.runs /\ pc \in PairPcs
    BY <1>0 DEF PairTypes
  <2>3. Pairing(x)!Items(chosen) \subseteq Pairing(x)!Items(picked) /\ Len(chosen) <= want
    BY <1>0 DEF PairPicks
  <2> QED BY <2>1, <2>2, <2>3 DEF Pairing!TypeOK, PairPcs, PairEnds, PairRead
<1>3. ASSUME pc \in PairKept, NEW s \in {"sys", "pvk"}
      PROVE  DrawsOk(x, dumps[s], recs[s], cans[s])
  <2>1. pc # "idle" /\ pc \in PairRead
    BY <1>3 DEF PairKept, PairRead
  <2>2. DumpOk(dumps[s])
    BY <1>0, <2>1 DEF PairTypes
  <2>3. recs[s] = Pairing(x)!Build(dumps[s]) /\ cans[s] = Pairing(x)!Canonicalize(recs[s], NotCompute(recs[s]))
    BY <1>0, <1>3, <2>1 DEF PairMade
  <2>4. NotCompute(recs[s]) = {k \in DOMAIN recs[s] : recs[s][k].stage # "Compute"}
    BY DEF NotCompute
  <2> QED BY <2>2, <2>3, <2>4, DrawsKept
<1>4. Pairing(x)!NoDrawIsLost
  <2> SUFFICES ASSUME pc = "match", NEW s \in {"sys", "pvk"}
               PROVE  LET drawn == {k \in DOMAIN dumps[s].uses : dumps[s].uses[k][3] \in DOMAIN dumps[s].code}
                          compute == {r.va : r \in {q \in Pairing(x)!Items(recs[s]) : q.stage = "Compute"}}
                          left == {k \in drawn : dumps[s].uses[k][3] \notin compute}
                      IN /\ \A a, b \in Pairing(x)!Items(cans[s]) : a # b => a.vas \cap b.vas = {}
                         /\ UNION {a.vas : a \in Pairing(x)!Items(cans[s])} = {dumps[s].uses[k][3] : k \in left}
                         /\ \A a \in Pairing(x)!Items(cans[s]) :
                              a.draws = Cardinality({k \in left : dumps[s].uses[k][3] \in a.vas})
    BY DEF Pairing!NoDrawIsLost, Pairing!Sides, Pairing!Cardinality, Cardinality
  <2>1. DrawsOk(x, dumps[s], recs[s], cans[s])
    BY <1>3 DEF PairKept
  <2> QED BY <2>1 DEF DrawsOk
<1>5. Pairing(x)!ShownByTheMostDrawn
  <2> SUFFICES ASSUME pc = "match", NEW s \in {"sys", "pvk"}
               PROVE  \A a \in Pairing(x)!Items(cans[s]), r \in Pairing(x)!Items(recs[s]) :
                        r.va \in a.vas =>
                          \E q \in Pairing(x)!Items(recs[s]) : q.va = a.va /\ q.draws >= r.draws
    BY DEF Pairing!ShownByTheMostDrawn, Pairing!Sides
  <2>1. DrawsOk(x, dumps[s], recs[s], cans[s])
    BY <1>3 DEF PairKept
  <2> QED BY <2>1 DEF DrawsOk
<1>6. Pairing(x)!PairsAreStable
  <2> SUFFICES ASSUME pc = "choose"
               PROVE  /\ \A p, q \in Pairing(x)!Items(picked) : p # q => p[1] # q[1] /\ p[2] # q[2]
                      /\ \A c \in Pairing(x)!Candidates : \E p \in Pairing(x)!Items(picked) :
                           (p[1] = c[1] \/ p[2] = c[2]) /\ Pairing(x)!FinalOf(p) >= Pairing(x)!FinalOf(c)
    BY DEF Pairing!PairsAreStable
  <2>1. PicksOk(x, cans, picked) /\ FreeIn(cans, picked) = {}
    BY <1>0 DEF PairPicks
  <2>2. \A i, j \in DOMAIN picked : i # j => picked[i][1] # picked[j][1] /\ picked[i][2] # picked[j][2]
    BY <2>1 DEF PicksOk
  <2>3. \A p, q \in Pairing(x)!Items(picked) : p # q => p[1] # q[1] /\ p[2] # q[2]
    BY <1>1, <2>2
  <2>4. \A c \in PairsFrom(cans) : \E i \in DOMAIN picked :
          (picked[i][1] = c[1] \/ picked[i][2] = c[2]) /\ ScoreIn(x, cans, picked[i]) >= ScoreIn(x, cans, c)
    BY <2>1 DEF PicksOk
  <2> QED BY <1>1, <2>3, <2>4, PairsState
<1>7. Pairing(x)!TheBestAreChosen
  <2> SUFFICES ASSUME pc = "pairs" PROVE Pairing(x)!TheBestAreChosen
    BY DEF Pairing!TheBestAreChosen
  <2>1. BestOf(x, cans, picked, want, chosen)
    BY <1>0 DEF PairPicks
  <2> QED
    BY <2>1 DEF BestOf, ScoreIn, HalfOf, Pairing!TheBestAreChosen, Pairing!StageOf, Pairing!FinalOf,
                Pairing!Half, Pairing!Cardinality, Cardinality
<1>8. Pairing(x)!DirectoryIsOfOneRun
  <2> SUFFICES ASSUME pc = "done" PROVE Pairing(x)!DirectoryIsOfOneRun
    BY DEF Pairing!DirectoryIsOfOneRun
  <2>1. /\ dir.pairs = AboutsOf(x, cans, chosen) /\ dir.tables = recs
        /\ dir.readme = [n \in DOMAIN chosen |-> AboutIn(x, cans, chosen, n)]
    BY <1>0 DEF PairDir
  <2>2. dir.pairs = Pairing(x)!Items(dir.readme)
    BY <2>1 DEF AboutsOf, Pairing!Items
  <2>3. ASSUME NEW f \in dir.pairs, NEW s \in {"sys", "pvk"}
        PROVE  f[s].va \in {r.va : r \in Pairing(x)!Items(dir.tables[s])}
    <3>1. PICK n \in DOMAIN chosen : f = AboutIn(x, cans, chosen, n)
      BY <2>1 DEF AboutsOf
    <3>2. chosen[n] \in PairsFrom(cans)
      <4>1. chosen[n] \in Pairing(x)!Items(picked)
        BY <1>0 DEF PairPicks, Pairing!Items
      <4> QED BY <1>1, <4>1
    <3>3. chosen[n][1] \in DOMAIN cans.sys /\ chosen[n][2] \in DOMAIN cans.pvk
      BY <3>2 DEF PairsFrom
    <3>4. f["sys"] = cans.sys[chosen[n][1]] /\ f["pvk"] = cans.pvk[chosen[n][2]]
      BY <3>1 DEF AboutIn
    <3>5. f[s] \in Pairing(x)!Items(cans[s])
      BY <3>3, <3>4 DEF Pairing!Items
    <3>6. DrawsOk(x, dumps[s], recs[s], cans[s])
      BY <1>3 DEF PairKept
    <3>7. \E r \in Pairing(x)!Items(recs[s]) : r.va = f[s].va
      BY <3>5, <3>6 DEF DrawsOk
    <3> QED BY <2>1, <3>7
  <2> QED BY <2>1, <2>2, <2>3 DEF Pairing!DirectoryIsOfOneRun, Pairing!Sides
<1> QED BY <1>2, <1>4, <1>5, <1>6, <1>7, <1>8

-----------------------------------------------------------------------------
(* The tools together                                                      *)

ReadersInv ==
  /\ \A d \in Dumps : script = <<"dump", d>> => DumpInv(d)
  /\ \A x \in Pairings : script = <<"pairs", x>> => PairInv(x)
  /\ \A l \in Loggers : script = <<"log", l>> => LogInv(l)
  /\ \A p \in Programs : script = <<"trace", p>> => QueryInv(p)

(* A behaviour is of one tool, with one setting.                           *)
LEMMA OneTool ==
  ASSUME NEW k1, NEW k2, NEW s1, NEW s2, script = <<k1, s1>>, script = <<k2, s2>>
  PROVE  k1 = k2 /\ s1 = s2
OBVIOUS

LEMMA WhichInit ==
  ASSUME Init
  PROVE  /\ \A d : script = <<"dump", d>> => Parser(d)!Init
         /\ \A x : script = <<"pairs", x>> => Pairing(x)!Init
         /\ \A l : script = <<"log", l>> => Logger(l)!Init
         /\ \A p : script = <<"trace", p>> => Program(p)!Init
<1>1. CASE \E d \in Dumps : script = <<"dump", d>> /\ Parser(d)!Init
  BY <1>1, OneTool
<1>2. CASE \E l \in Loggers : script = <<"log", l>> /\ Logger(l)!Init
  BY <1>2, OneTool
<1>3. CASE \E p \in Programs : script = <<"trace", p>> /\ Program(p)!Init
  BY <1>3, OneTool
<1>4. CASE \E x \in Pairings : script = <<"pairs", x>> /\ Pairing(x)!Init
  BY <1>4, OneTool
<1> QED BY <1>1, <1>2, <1>3, <1>4 DEF Init

LEMMA WhichStep ==
  ASSUME [Next]_vars
  PROVE  /\ script' = script
         /\ \A d : script = <<"dump", d>> => Parser(d)!Next \/ UNCHANGED parser
         /\ \A x : script = <<"pairs", x>> => Pairing(x)!Next \/ UNCHANGED pairs
         /\ \A l : script = <<"log", l>> => Logger(l)!Next \/ UNCHANGED logger
         /\ \A p : script = <<"trace", p>> => Program(p)!Next \/ UNCHANGED program
<1>1. CASE \E d \in Dumps : script = <<"dump", d>> /\ Parser(d)!Next
  BY <1>1, OneTool DEF Next, vars
<1>2. CASE \E l \in Loggers : script = <<"log", l>> /\ Logger(l)!Next
  BY <1>2, OneTool DEF Next, vars
<1>3. CASE \E p \in Programs : script = <<"trace", p>> /\ Program(p)!Next
  BY <1>3, OneTool DEF Next, vars
<1>4. CASE UNCHANGED vars
  BY <1>4 DEF vars
<1>5. CASE \E x \in Pairings : script = <<"pairs", x>> /\ Pairing(x)!Next
  BY <1>5, OneTool DEF Next, vars
<1> QED BY <1>1, <1>2, <1>3, <1>4, <1>5 DEF Next

LEMMA InitReaders == Init => ReadersInv
<1> SUFFICES ASSUME Init PROVE ReadersInv
  OBVIOUS
<1>1. \A d \in Dumps : script = <<"dump", d>> => DumpInv(d)
  BY WhichInit, DumpInit
<1>2. \A l \in Loggers : script = <<"log", l>> => LogInv(l)
  BY WhichInit, LogInit
<1>3. \A p \in Programs : script = <<"trace", p>> => QueryInv(p)
  BY WhichInit, QueryInit
<1>4. \A x \in Pairings : script = <<"pairs", x>> => PairInv(x)
  BY WhichInit, PairInit
<1> QED BY <1>1, <1>2, <1>3, <1>4 DEF ReadersInv

LEMMA StepReaders == ReadersInv /\ [Next]_vars => ReadersInv'
<1> SUFFICES ASSUME ReadersInv, [Next]_vars PROVE ReadersInv'
  OBVIOUS
<1>1. ASSUME NEW d \in Dumps, script = <<"dump", d>> PROVE DumpInv(d)'
  BY <1>1, WhichStep, DumpStep, DumpSame DEF ReadersInv
<1>2. ASSUME NEW l \in Loggers, script = <<"log", l>> PROVE LogInv(l)'
  BY <1>2, WhichStep, LogStep, LogSame DEF ReadersInv
<1>3. ASSUME NEW p \in Programs, script = <<"trace", p>> PROVE QueryInv(p)'
  BY <1>3, WhichStep, QueryStep, QuerySame DEF ReadersInv
<1>4. ASSUME NEW x \in Pairings, script = <<"pairs", x>> PROVE PairInv(x)'
  BY <1>4, WhichStep, PairStep, PairSame DEF ReadersInv
<1> QED BY <1>1, <1>2, <1>3, <1>4, WhichStep DEF ReadersInv

(* Whatever is read, what is invariant of the tool a behaviour is of holds *)
(* throughout.                                                             *)
THEOREM ReadersHold == Spec => []ReadersInv
BY InitReaders, StepReaders, PTL DEF Spec

(* For dumps of any lines and any length, what isapairs.py keeps of an     *)
(* address is the last copy of it, whole, and every use has the stage and  *)
(* the registers of its own descriptor.                                    *)
THEOREM DumpsAreRead == Spec => []UsesAreTheirDescriptors
<1>1. ReadersInv => UsesAreTheirDescriptors
  BY DumpGoal DEF ReadersInv, UsesAreTheirDescriptors
<1> QED BY <1>1, ReadersHold, PTL

(* For dumps of any shaders and any size, any --pairs and any number of    *)
(* runs, stopped wherever they are: isapairs.py loses no draw and counts   *)
(* none twice, shows an archetype by the address most drawn with, pairs    *)
(* one to one and so that no two would rather have each other, leaves a    *)
(* pair out only behind ones as good, and ends with a directory that is    *)
(* of that run alone.                                                      *)
THEOREM PairsAreRead == Spec => []PairsAreTheBest
<1>1. ReadersInv => PairsAreTheBest
  BY PairGoal DEF ReadersInv, PairsAreTheBest
<1> QED BY <1>1, ReadersHold, PTL

(* However many threads submit whatever atoms, wherever the log is cut and *)
(* however numbers are used again: the time passtime.py gives an atom is   *)
(* that of its own end if every atom has an event, no time is busy twice,  *)
(* and under a lock the dependencies blobdeps.py counts are the kernel's.  *)
THEOREM TimesAreRead == Spec => []TimesAreTrue
<1>1. ReadersInv => TimesAreTrue
  BY LogGoal DEF ReadersInv, TimesAreTrue
<1> QED BY <1>1, ReadersHold, PTL

(* For any program and any frames traced, what analyze_query_trace.py      *)
(* counts of complete submissions is what was submitted, a buffer it       *)
(* vouches for is as it says, and no submission with secondary buffers is  *)
(* called complete.                                                        *)
THEOREM TracesAreRead == Spec => CompleteIsTheTruth
<1> DEFINE Good == \A p \in Programs : script = <<"trace", p>> =>
                     Program(p)!TypeOK /\ Program(p)!CompleteIsTheTruth /\ Program(p)!VouchedIsCurrent
           Step == \A p \in Programs : script = <<"trace", p>> => Program(p)!NoSecondaryCompletes
<1>1. ReadersInv => Good
  BY QueryGoal DEF ReadersInv
<1>2. ReadersInv /\ [Next]_vars => [Step]_program
  <2> SUFFICES ASSUME ReadersInv, [Next]_vars, program' # program, NEW p \in Programs, script = <<"trace", p>>
               PROVE  Program(p)!NoSecondaryCompletes
    OBVIOUS
  <2>1. QueryInv(p)
    BY DEF ReadersInv
  <2> QED BY <2>1, QueryCompletes
<1> HIDE DEF Good, Step
<1>3. Spec => []Good /\ [][Step]_program
  BY <1>1, <1>2, ReadersHold, PTL DEF Spec
<1> QED BY <1>3 DEF Good, Step, CompleteIsTheTruth
===============================================================================
