------------------------------- MODULE IsaPairs -------------------------------
(***************************************************************************)
(* isapairs.py, behind its parser (IsaDump): two dumps, of the system's    *)
(* driver and of panvk, become a table of shaders each; shaders with the   *)
(* same sequence of mnemonics become one archetype; archetypes of the two  *)
(* are paired by likeness; the best pairs are written, each to a file, and *)
(* listed in README.txt.  The directory outlives a run of the script, and  *)
(* a run may be stopped, or fail, in the middle.                           *)
(*                                                                         *)
(* A dump is [code, uses]: va -> sequence of [op, width, hex], where op is *)
(* the class the mnemonic counts in, width that of a vector load and hex   *)
(* the constant it holds (0: none); and <<stage, regs, va>> for each       *)
(* binding.  Scores are the script's, times a common denominator.          *)
(* Classes that are only printed, sizes and texts are left out.            *)
(*                                                                         *)
(* Right before some definitions stands a variant of them with a mistake   *)
(* in it; nothing uses it.                                                 *)
(***************************************************************************)
EXTENDS Integers, Sequences, FiniteSets

CONSTANTS
  SysDumps, PvkDumps,    \* dumps the script may be given
  Wants,                 \* --pairs
  MaxRuns                \* bound on runs of the script

VARIABLES
  runs,                  \* runs begun
  dumps, want,           \* [sys, pvk] and --pairs of this run
  recs,                  \* [sys, pvk]: the rows of the tables
  cans,                  \* [sys, pvk]: the archetypes
  picked,                \* pairs <<i, j>> in the order they were found
  chosen,                \* pairs that are written
  dir,                   \* [tables, pairs, readme] of the output directory
  pc                     \* "idle", "clean", "build", "tables", "archetypes", "match", "choose",
                         \* "pairs", "readme", "done", "failed"

vars == <<runs, dumps, want, recs, cans, picked, chosen, dir, pc>>

Sides == {"sys", "pvk"}
Empty == [s \in Sides |-> <<>>]

Items(list) == {list[k] : k \in DOMAIN list}
Least(some) == CHOOSE k \in some : \A m \in some : k <= m
Lesser(a, b) == IF a <= b THEN a ELSE b

(* A set as a list: the k-th has k - 1 others before it.                   *)
InOrder(S, before) ==
  [k \in 1 .. Cardinality(S) |-> CHOOSE x \in S : Cardinality({y \in S : <<y, x>> \in before}) = k - 1]

-----------------------------------------------------------------------------
(* What is known of a shader                                               *)

Cls(text, op) == Cardinality({k \in DOMAIN text : text[k].op = op})
Widths(text, op, w) == Cardinality({k \in DOMAIN text : text[k].op = op /\ text[k].width = w})
Imm(text, h) == Cardinality({k \in DOMAIN text : text[k].hex = h})

(* The uses of an address; what most of them have in a column, and of what *)
(* is as frequent, what came first.                                        *)
UsesOf(d, v) == {k \in DOMAIN d.uses : d.uses[k][3] = v}
MostOf(d, v, column) ==
  LET same(k) == Cardinality({m \in UsesOf(d, v) : d.uses[m][column] = d.uses[k][column]})
      most == CHOOSE k \in UsesOf(d, v) :
                \A m \in UsesOf(d, v) : same(m) < same(k) \/ (same(m) = same(k) /\ k <= m)
  IN d.uses[most][column]

Row(d, v) ==
  [va |-> v, vas |-> {v}, draws |-> Cardinality(UsesOf(d, v)), text |-> d.code[v],
   stage |-> MostOf(d, v, 1), regs |-> MostOf(d, v, 2),
   mixed |-> Cardinality({d.uses[k][2] : k \in UsesOf(d, v)}) > 1, at |-> Least(UsesOf(d, v))]
Rows(d) == {Row(d, v) : v \in {d.uses[k][3] : k \in DOMAIN d.uses} \cap DOMAIN d.code}

(* Most draws first, then the most instructions; otherwise as it was.      *)
MoreDraws(r, s) ==
  \/ r.draws > s.draws
  \/ r.draws = s.draws /\ Len(r.text) > Len(s.text)
  \/ r.draws = s.draws /\ Len(r.text) = Len(s.text) /\ r.at < s.at
ByDraws(some) == {p \in some \X some : MoreDraws(p[1], p[2])}

BuildUnsorted(d) == InOrder(Rows(d), {p \in Rows(d) \X Rows(d) : p[1].at < p[2].at})

(* One record for each address that some draw uses and whose code is known.*)
Build(d) == InOrder(Rows(d), ByDraws(Rows(d)))

Key(r) == <<r.stage, [k \in DOMAIN r.text |-> <<r.text[k].op, r.text[k].width>>]>>

(* The draws of some rows, added one after the other.                      *)
DrawsOf(list, some) ==
  LET sum[n \in 0 .. Len(list)] ==
        IF n = 0 THEN 0 ELSE sum[n - 1] + (IF n \in some THEN list[n].draws ELSE 0)
  IN sum[Len(list)]

CanonicalizeFirst(list, some) ==
  LET group(k) == {m \in some : Key(list[m]) = Key(list[k])}
      arch(k) == [list[k] EXCEPT !.vas = {list[m].va : m \in group(k)}, !.at = k]
      archs == {arch(k) : k \in {m \in some : m = Least(group(m))}}
  IN InOrder(archs, ByDraws(archs))

(* One archetype for each key: the first record, with the draws of all.    *)
Canonicalize(list, some) ==
  LET group(k) == {m \in some : Key(list[m]) = Key(list[k])}
      arch(k) == [list[k] EXCEPT !.vas = {list[m].va : m \in group(k)}, !.at = k,
                                 !.draws = DrawsOf(list, group(k))]
      archs == {arch(k) : k \in {m \in some : m = Least(group(m))}}
  IN InOrder(archs, ByDraws(archs))

-----------------------------------------------------------------------------
(* Likeness                                                                *)

(* Counts up to three of each kind make fractions of 1 to 6, which are     *)
(* exact; others are rounded.                                              *)
Unit == 60

Closeness(a, b) == IF a = 0 /\ b = 0 THEN Unit ELSE (2 * Unit * Lesser(a, b)) \div (a + b)

(* A bag, as a set of numbered copies.                                     *)
Copies(values, count) == UNION {{v} \X (1 .. count[v]) : v \in values}

MsSim(values, f, g) ==
  LET inter == Cardinality(Copies(values, f) \cap Copies(values, g))
      union == Cardinality(Copies(values, f) \cup Copies(values, g))
  IN IF union = 0 THEN Unit ELSE (Unit * inter) \div union

WidthSim(a, b, op) ==
  MsSim(1 .. 4, [w \in 1 .. 4 |-> Widths(a.text, op, w)], [w \in 1 .. 4 |-> Widths(b.text, op, w)])
ImmSim(a, b) ==
  LET hexes == {i.hex : i \in Items(a.text) \cup Items(b.text)} \ {0}
  IN MsSim(hexes, [h \in hexes |-> Imm(a.text, h)], [h \in hexes |-> Imm(b.text, h)])

(* The features that are stable across the two compilers, with twice their *)
(* weights; the weights sum to 9 and to 8.5.                               *)
Base(a, b) ==
  LET close(op) == Closeness(Cls(a.text, op), Cls(b.text, op))
      instr == Closeness(Len(a.text), Len(b.text))
  IN IF a.stage = "Fragment"
       THEN 17 * (6 * close("TEX") + 4 * close("LD_VAR") + 4 * WidthSim(a, b, "LD_VAR")
                  + 3 * close("FMA") + instr)
       ELSE 18 * (6 * WidthSim(a, b, "LD_ATTR") + 4 * close("LD_ATTR") + 4 * close("FMA")
                  + 2 * close("STORE") + instr)

Full == 17 * 18 * Unit         \* of features that all agree

Final(a, b) == 17 * Base(a, b) + 3 * 17 * 18 * ImmSim(a, b)

Confidence(a, b) ==
  LET prim == IF a.stage = "Fragment" THEN Cls(a.text, "TEX") = Cls(b.text, "TEX")
              ELSE \A w \in 1 .. 4 : Widths(a.text, "LD_ATTR", w) = Widths(b.text, "LD_ATTR", w)
  IN CASE Base(a, b) * 100 >= 90 * Full /\ prim -> "high"
       [] Base(a, b) * 100 >= 80 * Full /\ Base(a, b) * 100 < 90 * Full /\ prim -> "medium"
       [] Base(a, b) * 100 >= 75 * Full /\ ~(Base(a, b) * 100 >= 80 * Full /\ prim) -> "low"
       [] OTHER -> "uncertain"

-----------------------------------------------------------------------------
(* The script                                                              *)

NoFiles == [tables |-> Empty, pairs |-> {}, readme |-> <<>>]

Init ==
  /\ runs = 0 /\ dumps = Empty /\ want = 0 /\ recs = Empty /\ cans = Empty
  /\ picked = <<>> /\ chosen = <<>> /\ dir = NoFiles /\ pc = "idle"

Begins ==
  /\ pc \in {"idle", "done", "failed"} /\ runs < MaxRuns
  /\ runs' = runs + 1
  /\ \E s \in SysDumps, p \in PvkDumps, w \in Wants : dumps' = [sys |-> s, pvk |-> p] /\ want' = w
  /\ recs' = Empty /\ cans' = Empty /\ picked' = <<>> /\ chosen' = <<>>
  /\ pc' = "clean"
  /\ UNCHANGED dir

KeepsStale == pc = "clean" /\ pc' = "build" /\ UNCHANGED <<runs, dumps, want, recs, cans, picked, chosen, dir>>

(* The files of pairs of an earlier run.                                   *)
DropsStale ==
  /\ pc = "clean"
  /\ dir' = [dir EXCEPT !.pairs = {}]
  /\ pc' = "build"
  /\ UNCHANGED <<runs, dumps, want, recs, cans, picked, chosen>>

Builds ==
  /\ pc = "build"
  /\ recs' = [s \in Sides |-> Build(dumps[s])]
  /\ pc' = "tables"
  /\ UNCHANGED <<runs, dumps, want, cans, picked, chosen, dir>>

(* A row whose registers vary and are mostly unknown cannot be formatted:  *)
(* the script ends, with the tables up to that row.                        *)
Formats(list) == \A r \in Items(list) : ~(r.mixed /\ r.regs = 0)

WritesTables ==
  /\ pc = "tables"
  /\ IF Formats(recs.sys) /\ Formats(recs.pvk)
       THEN dir' = [dir EXCEPT !.tables = recs] /\ pc' = "archetypes"
       ELSE /\ dir' = [dir EXCEPT !.tables =
                         [sys |-> IF Formats(recs.sys) THEN recs.sys ELSE <<>>,
                          pvk |-> IF Formats(recs.sys) THEN <<>> ELSE @.pvk]]
            /\ pc' = "failed"
  /\ UNCHANGED <<runs, dumps, want, recs, cans, picked, chosen>>

Archetypes ==
  /\ pc = "archetypes"
  /\ cans' = [s \in Sides |-> Canonicalize(recs[s], {k \in DOMAIN recs[s] : recs[s][k].stage # "Compute"})]
  /\ pc' = "match"
  /\ UNCHANGED <<runs, dumps, want, recs, picked, chosen, dir>>

Candidates == {c \in (DOMAIN cans.sys) \X (DOMAIN cans.pvk) : cans.sys[c[1]].stage = cans.pvk[c[2]].stage}
FinalOf(c) == Final(cans.sys[c[1]], cans.pvk[c[2]])
StageOf(c) == cans.sys[c[1]].stage

FreeOnce == {c \in Candidates : \A p \in Items(picked) : p[1] # c[1]}

(* Neither of the two is in a pair yet.                                    *)
Free == {c \in Candidates : \A p \in Items(picked) : p[1] # c[1] /\ p[2] # c[2]}

(* Before another in the sorted list of candidates.                        *)
Sooner(c, d) ==
  \/ FinalOf(c) > FinalOf(d)
  \/ FinalOf(c) = FinalOf(d) /\ (c[1] < d[1] \/ (c[1] = d[1] /\ c[2] < d[2]))

PicksPair ==
  /\ pc = "match"
  /\ IF Free = {} THEN pc' = "choose" /\ UNCHANGED picked
     ELSE /\ picked' = Append(picked, CHOOSE c \in Free : \A d \in Free \ {c} : Sooner(c, d))
          /\ UNCHANGED pc
  /\ UNCHANGED <<runs, dumps, want, recs, cans, chosen, dir>>

Half == IF want < 2 THEN 1 ELSE want \div 2

(* Where the k-th pair stands among those of its stage; the pairs of the   *)
(* two stages that stand from one place to another.                        *)
StageAt(k) == StageOf(picked[k])
Place(k) == Cardinality({m \in 1 .. k : StageAt(m) = StageAt(k)})
Among(from, to) ==
  {k \in DOMAIN picked : StageAt(k) \in {"Fragment", "Vertex"} /\ from <= Place(k) /\ Place(k) <= to}

(* The order they are taken from, and the one they are put in.             *)
Better(k, m) ==
  LET e == FinalOf(picked[k])   f == FinalOf(picked[m]) IN
  \/ e > f
  \/ e = f /\ StageAt(k) = "Fragment" /\ StageAt(m) = "Vertex"
  \/ e = f /\ StageAt(k) = StageAt(m) /\ k < m
ByStage(some) ==
  {p \in some \X some :
     \/ StageAt(p[1]) = "Fragment" /\ StageAt(p[2]) = "Vertex"
     \/ StageAt(p[1]) = StageAt(p[2]) /\ p[1] < p[2]}

(* The list of some pairs, as far as is wanted.                            *)
Take(some) ==
  LET order == InOrder(some, ByStage(some))
  IN [n \in 1 .. Lesser(want, Cardinality(some)) |-> picked[order[n]]]

ChosenHalves == Take(Among(1, Half))

(* Half of them from each stage, then the best of two more of each.        *)
Chosen ==
  LET best == Among(1, Half)
      more == Among(Half + 1, Half + 2)
      ahead(k) == {m \in more : Better(m, k)}
  IN Take(best \cup {k \in more : Cardinality(best) + Cardinality(ahead(k)) < want})

Chooses ==
  /\ pc = "choose"
  /\ chosen' = Chosen /\ pc' = "pairs"
  /\ UNCHANGED <<runs, dumps, want, recs, cans, picked, dir>>

(* What stands in a file, or in the list, about the n-th pair.             *)
About(n) ==
  LET a == cans.sys[chosen[n][1]]   b == cans.pvk[chosen[n][2]]
  IN [n |-> n, stage |-> a.stage, sys |-> a, pvk |-> b, confidence |-> Confidence(a, b)]

Written(n) == \E f \in dir.pairs : f = About(n)

(* A file is replaced if it has the same number and the same stage.        *)
WritesPair ==
  /\ pc = "pairs"
  /\ IF \A n \in DOMAIN chosen : Written(n) THEN pc' = "readme" /\ UNCHANGED dir
     ELSE LET n == Least({m \in DOMAIN chosen : ~Written(m)})
              stays == {f \in dir.pairs : <<f.n, f.stage>> # <<n, About(n).stage>>}
          IN dir' = [dir EXCEPT !.pairs = stays \cup {About(n)}] /\ UNCHANGED pc
  /\ UNCHANGED <<runs, dumps, want, recs, cans, picked, chosen>>

WritesReadme ==
  /\ pc = "readme"
  /\ dir' = [dir EXCEPT !.readme = [n \in DOMAIN chosen |-> About(n)]]
  /\ pc' = "done"
  /\ UNCHANGED <<runs, dumps, want, recs, cans, picked, chosen>>

(* Somebody stops it.                                                      *)
Stopped ==
  /\ pc \notin {"idle", "done", "failed"} /\ pc' = "failed"
  /\ UNCHANGED <<runs, dumps, want, recs, cans, picked, chosen, dir>>

Next ==
  \/ Begins \/ DropsStale \/ Builds \/ WritesTables \/ Archetypes \/ PicksPair \/ Chooses
  \/ WritesPair \/ WritesReadme \/ Stopped

Spec == Init /\ [][Next]_vars

-----------------------------------------------------------------------------
(* Properties                                                              *)

(* Types. *)
TypeOK ==
  /\ runs \in 0 .. MaxRuns
  /\ \A c \in Items(picked) : c \in Candidates
  /\ Items(chosen) \subseteq Items(picked) /\ Len(chosen) <= want
  /\ pc \in {"idle", "clean", "build", "tables", "archetypes", "match", "choose", "pairs", "readme",
             "done", "failed"}

(* The archetypes of a dump divide the addresses that are drawn with, and  *)
(* no draw is lost or counted twice on the way from the descriptors        *)
(* through the rows to the archetypes.                                     *)
NoDrawIsLost ==
  pc = "match" => \A s \in Sides :
    LET drawn == {k \in DOMAIN dumps[s].uses : dumps[s].uses[k][3] \in DOMAIN dumps[s].code}
        compute == {r.va : r \in {q \in Items(recs[s]) : q.stage = "Compute"}}
        left == {k \in drawn : dumps[s].uses[k][3] \notin compute}
    IN /\ \A a, b \in Items(cans[s]) : a # b => a.vas \cap b.vas = {}
       /\ UNION {a.vas : a \in Items(cans[s])} = {dumps[s].uses[k][3] : k \in left}
       /\ \A a \in Items(cans[s]) :
            a.draws = Cardinality({k \in left : dumps[s].uses[k][3] \in a.vas})

(* An archetype is shown by the address of it that is drawn with most: its *)
(* constants stand for the others' (isapairs.py:194-195).                  *)
ShownByTheMostDrawn ==
  pc = "match" => \A s \in Sides : \A a \in Items(cans[s]), r \in Items(recs[s]) :
    r.va \in a.vas => \E q \in Items(recs[s]) : q.va = a.va /\ q.draws >= r.draws

(* One to one, and stable: no two archetypes of one stage would both       *)
(* rather be with each other than where they are, or alone.                *)
PairsAreStable ==
  pc = "choose" =>
    /\ \A p, q \in Items(picked) : p # q => p[1] # q[1] /\ p[2] # q[2]
    /\ \A c \in Candidates : \E p \in Items(picked) :
         (p[1] = c[1] \/ p[2] = c[2]) /\ FinalOf(p) >= FinalOf(c)

(* A pair is only left out behind pairs of its stage that are as good, and *)
(* if there are enough: as many as were asked for, or two above the half   *)
(* of its stage.  Nothing is cut off at the end, with its sort by stage,   *)
(* when two or more are wanted: the best of all pairs is among them.       *)
TheBestAreChosen ==
  pc = "pairs" => \A p \in {q \in Items(picked) \ Items(chosen) : StageOf(q) \in {"Fragment", "Vertex"}} :
    LET same == {c \in Items(chosen) : StageOf(c) = StageOf(p)} IN
    /\ \A c \in same : FinalOf(c) >= FinalOf(p)
    /\ Len(chosen) = want \/ Cardinality(same) >= Half + 2
    /\ want >= 2 => \E c \in Items(chosen) : FinalOf(c) >= FinalOf(p)

(* A run that gets to its end leaves a directory that is its own: the      *)
(* files of pairs are those the list names, with the same words about      *)
(* them, and their shaders are in the tables, whatever runs before it left *)
(* behind or where they were stopped.                                      *)
DirectoryIsOfOneRun ==
  pc = "done" =>
    /\ dir.pairs = Items(dir.readme)
    /\ dir.tables = recs
    /\ \A f \in dir.pairs : \A s \in Sides : f[s].va \in {r.va : r \in Items(dir.tables[s])}
=============================================================================
