----------------------------- MODULE Scripts_proofs ----------------------------
(***************************************************************************)
(* Proofs about the scripts that decide whether a change is accepted, for  *)
(* any of the settings they may be run with: however many runs, rows,      *)
(* comparisons, drivers, repetitions, files or patches there are.          *)
(*                                                                         *)
(* Some of what they compute is a recursive function over a list.  Its     *)
(* value is got at in two steps, each by an induction over numbers: there  *)
(* is a function as the recursion says, and what it says of a function     *)
(* determines it.                                                          *)
(***************************************************************************)
EXTENDS Scripts, FiniteSetTheorems, SequenceTheorems, TLAPS

-----------------------------------------------------------------------------
(* Induction over numbers: a non-empty set of them has a least element     *)

LEMMA LeastNumber ==
  ASSUME NEW T, T \subseteq Nat, T # {}
  PROVE  \E x \in T : \A y \in T : x <= y
<1> DEFINE R == {ss \in Nat \X Nat : ss[1] < ss[2]}
<1>1. IsWellFoundedOn(R, Nat)
  BY NatLessThanWellFounded DEF OpToRel
<1>2. ASSUME NEW x \in Nat, NEW y \in Nat, x < y PROVE <<x, y>> \in R
  BY <1>2
<1> HIDE DEF R
<1>3. PICK x \in T : \A y \in T : ~ (<<y, x>> \in R)
  BY <1>1, WFMin
<1>4. \A y \in T : ~ (y < x)
  BY <1>2, <1>3
<1> QED BY <1>3, <1>4

LEMMA Numbers ==
  ASSUME NEW S, 0 \in S, \A n \in Nat : n \in S => n + 1 \in S
  PROVE  Nat \subseteq S
<1> SUFFICES ASSUME Nat \ S # {} PROVE FALSE
  OBVIOUS
<1>1. PICK x \in Nat \ S : \A y \in Nat \ S : x <= y
  BY LeastNumber
<1>2. x # 0 /\ x - 1 \in Nat /\ x - 1 + 1 = x
  BY <1>1
<1>3. x - 1 \in S
  BY <1>1, <1>2
<1> QED BY <1>2, <1>3

LEMMA ListOf ==
  ASSUME NEW S, NEW n \in Nat, NEW f, f = [i \in 1 .. n |-> f[i]], \A i \in 1 .. n : f[i] \in S
  PROVE  f \in Seq(S) /\ Len(f) = n
<1>1. f \in [1 .. n -> S]
  OBVIOUS
<1> QED BY <1>1, SeqDef

-----------------------------------------------------------------------------
(* The gate: GameplayGate                                                  *)

GateRows == [us : Nat \ {0}, at : Nat, frame : Nat \ {0}]

(* The time of a row; the start of the run is that of row 0.               *)
GateAt(rows, i) == IF i = 0 THEN 0 ELSE rows[i].at

GateTypes(g) ==
  /\ installed \in g.stacks /\ stack \in [g.runs -> g.stacks]
  /\ stage \in [g.runs -> {"none", "menu", "benchmark", "ended", "rejected"}]
  /\ log \in [g.runs -> Seq(GateRows)] /\ half \in [g.runs -> BOOLEAN]
  /\ action \in [g.runs -> Nat] /\ counts \in [g.runs -> Seq(Nat)]
  /\ clock \in [g.runs -> 0 .. g.rows + 1] /\ presents \in [g.runs -> SUBSET (1 .. g.rows + 1)]
  /\ anchored \in [g.runs -> Nat] /\ restarted \in [g.runs -> BOOLEAN]

(* A row is an interval that ends with a present, and one that says so is  *)
(* of no other present.  The line that was begun is of the last present.   *)
GateLog(r) ==
  /\ \A t \in presents[r] : t <= clock[r]
  /\ \A i \in 1 .. Len(log[r]) :
       /\ log[r][i].at = GateAt(log[r], i - 1) + log[r][i].us
       /\ log[r][i].at <= clock[r] /\ log[r][i].at \in presents[r]
       /\ log[r][i].frame = 1 =>
            \A t \in presents[r] : GateAt(log[r], i - 1) < t /\ t <= log[r][i].at => t = log[r][i].at
  /\ half[r] => clock[r] \in presents[r] /\ GateAt(log[r], Len(log[r])) < clock[r]

(* Before the action nothing was counted, and after it what there was.     *)
GateCount(r) ==
  /\ stage[r] \in {"none", "menu"} => action[r] = 0 /\ anchored[r] = 0
  /\ \/ action[r] <= Len(log[r])
     \/ half[r] /\ action[r] = Len(log[r]) + 1
     \/ restarted[r]

(* The row that is counted at the action is that of the last present.      *)
GateAnchor(r) ==
  /\ ~ half[r] => GateAt(log[r], Len(log[r])) = clock[r]
  /\ action[r] <= Len(log[r]) => GateAt(log[r], action[r]) = anchored[r]
  /\ action[r] > Len(log[r]) => clock[r] = anchored[r]
  /\ ~ restarted[r]

GateRun(g, r) == GateLog(r) /\ GateCount(r) /\ ("reset" \notin g.may => GateAnchor(r))

(* An answer is about runs that were over.                                 *)
GateReports(g) ==
  /\ report.of \subseteq g.runs
  /\ report.ok => /\ \A r \in report.of : Gate(g)!Accepts(r)
                  /\ \A r, s \in report.of : stack[r] = stack[s]

GateInv(g) == GateTypes(g) /\ (\A r \in g.runs : GateRun(g, r)) /\ GateReports(g)

-----------------------------------------------------------------------------
(* What the gate computes, of the two things it computes it from.          *)

GateClock(a, rows) ==
  LET c[i \in a .. Len(rows)] == IF i = a THEN 0 ELSE c[i - 1] + rows[i].us
  IN c

GateWindow(g, a, rows) ==
  {i \in a + 1 .. Len(rows) : /\ GateClock(a, rows)[i - 1] >= g.start
                              /\ GateClock(a, rows)[i] <= g.start + g.duration}

GateFirst(W) == CHOOSE i \in W : \A j \in W : i <= j
GateLast(W) == CHOOSE i \in W : \A j \in W : j <= i

GateMeasured(g, a, rows) ==
  IF GateWindow(g, a, rows) = {} THEN 0
  ELSE GateClock(a, rows)[GateLast(GateWindow(g, a, rows))]
         - GateClock(a, rows)[GateFirst(GateWindow(g, a, rows)) - 1]

LEMMA GateComputes ==
  ASSUME NEW g, NEW r
  PROVE  /\ Gate(g)!Window(r) = GateWindow(g, action[r], log[r])
         /\ Gate(g)!Measured(r) = GateMeasured(g, action[r], log[r])
         /\ Gate(g)!Window(r)' = GateWindow(g, action[r], log[r])'
         /\ Gate(g)!Measured(r)' = GateMeasured(g, action[r], log[r])'
<1>1. /\ Gate(g)!ClockOf(r) = GateClock(action[r], log[r])
      /\ Gate(g)!ClockOf(r)' = GateClock(action[r], log[r])'
  BY DEF Gate!ClockOf, GateClock
<1>2. /\ Gate(g)!Window(r) = GateWindow(g, action[r], log[r])
      /\ Gate(g)!Window(r)' = GateWindow(g, action[r], log[r])'
  BY <1>1 DEF Gate!Window, GateWindow
<1> DEFINE W == Gate(g)!Window(r)
           c == Gate(g)!ClockOf(r)
<1>3. /\ Gate(g)!Measured(r) = IF W = {} THEN 0 ELSE c[GateLast(W)] - c[GateFirst(W) - 1]
      /\ Gate(g)!Measured(r)' = (IF W = {} THEN 0 ELSE c[GateLast(W)] - c[GateFirst(W) - 1])'
  BY DEF Gate!Measured, GateFirst, GateLast
<1> HIDE DEF W, c
<1>4. /\ W = GateWindow(g, action[r], log[r]) /\ c = GateClock(action[r], log[r])
      /\ W' = GateWindow(g, action[r], log[r])' /\ c' = GateClock(action[r], log[r])'
  BY <1>1, <1>2 DEF W, c
<1> QED BY <1>2, <1>3, <1>4 DEF GateMeasured

GateSameRun(r) ==
  /\ stage'[r] = stage[r] /\ log'[r] = log[r] /\ half'[r] = half[r]
  /\ action'[r] = action[r] /\ counts'[r] = counts[r] /\ clock'[r] = clock[r]
  /\ presents'[r] = presents[r] /\ anchored'[r] = anchored[r] /\ restarted'[r] = restarted[r]

(* A run nothing happens to.                                               *)
LEMMA GateRunStays ==
  ASSUME NEW g, NEW r, GateSameRun(r)
  PROVE  (GateRun(g, r) => GateRun(g, r)') /\ (Gate(g)!Accepts(r) => Gate(g)!Accepts(r)')
<1>2. GateLog(r) => GateLog(r)'
  BY DEF GateLog, GateSameRun
<1>3. GateCount(r) => GateCount(r)'
  BY DEF GateCount, GateSameRun
<1>4. GateAnchor(r) => GateAnchor(r)'
  BY DEF GateAnchor, GateSameRun
<1>5. Gate(g)!Accepts(r) => Gate(g)!Accepts(r)'
  <2>1. Gate(g)!Window(r)' = Gate(g)!Window(r) /\ Gate(g)!Measured(r)' = Gate(g)!Measured(r)
    <3>1. action'[r] = action[r] /\ log'[r] = log[r]
      BY DEF GateSameRun
    <3> QED BY <3>1, GateComputes
  <2> QED BY <2>1 DEF Gate!Accepts, Gate!Anchored, Gate!Ungrouped, Gate!LongEnough, GateSameRun
<1> QED BY <1>2, <1>3, <1>4, <1>5 DEF GateRun

(* The rest of the invariant, when something happens to a run that is made.*)
LEMMA GateOthers ==
  ASSUME NEW g \in Games, GateInv(g), NEW r \in g.runs, Gate(g)!Playing(r) \/ stage[r] = "none",
         GateTypes(g)', report' = report, \A s \in g.runs \ {r} : GateSameRun(s) /\ stack'[s] = stack[s],
         GateRun(g, r)'
  PROVE  GateInv(g)'
<1>1. \A s \in g.runs : GateRun(g, s)'
  BY GateRunStays DEF GateInv
<1>2. stage[r] # "ended"
  BY DEF Gate!Playing
<1>3. ASSUME report.ok PROVE r \notin report.of
  BY <1>2, <1>3 DEF GateInv, GateReports, Gate!Accepts
<1>4. GateReports(g)'
  <2>1. report.of \subseteq g.runs
    BY DEF GateInv, GateReports
  <2>2. ASSUME report.ok
        PROVE  /\ \A s \in report.of : Gate(g)!Accepts(s)'
               /\ \A s, u \in report.of : stack'[s] = stack'[u]
    BY <1>3, <2>1, <2>2, GateRunStays DEF GateInv, GateReports
  <2> QED BY <2>1, <2>2 DEF GateReports
<1> QED BY <1>1, <1>4 DEF GateInv

LEMMA GateInit ==
  ASSUME NEW g \in Games, Gate(g)!Init
  PROVE  GateInv(g)
<1>1. /\ installed \in g.stacks
      /\ stage = [r \in g.runs |-> "none"] /\ stack = [r \in g.runs |-> installed]
      /\ log = [r \in g.runs |-> <<>>] /\ half = [r \in g.runs |-> FALSE]
      /\ action = [r \in g.runs |-> 0] /\ counts = [r \in g.runs |-> <<>>]
      /\ report = [of |-> {}, ok |-> FALSE]
      /\ clock = [r \in g.runs |-> 0] /\ presents = [r \in g.runs |-> {}]
      /\ anchored = [r \in g.runs |-> 0] /\ restarted = [r \in g.runs |-> FALSE]
  BY DEF Gate!Init, Gate!NoReport
<1>2. GateTypes(g)
  <2>1. g.rows \in Nat
    BY GamesAssumption
  <2>2. <<>> \in Seq(GateRows) /\ <<>> \in Seq(Nat)
    OBVIOUS
  <2>3. log \in [g.runs -> Seq(GateRows)] /\ counts \in [g.runs -> Seq(Nat)]
    BY <1>1, <2>2
  <2> QED BY <1>1, <2>1, <2>3 DEF GateTypes
<1>3. ASSUME NEW r \in g.runs PROVE GateRun(g, r)
  <2>1. /\ log[r] = <<>> /\ half[r] = FALSE /\ action[r] = 0 /\ clock[r] = 0 /\ presents[r] = {}
        /\ anchored[r] = 0 /\ restarted[r] = FALSE
    BY <1>1
  <2>2. Len(log[r]) = 0 /\ GateAt(log[r], 0) = 0
    BY <2>1 DEF GateAt
  <2> QED BY <2>1, <2>2 DEF GateRun, GateLog, GateCount, GateAnchor
<1>4. GateReports(g)
  BY <1>1 DEF GateReports
<1> QED BY <1>2, <1>3, <1>4 DEF GateInv

(* What is known of a run.                                                 *)
LEMMA GateOfRun ==
  ASSUME NEW g \in Games, GateInv(g), NEW r \in g.runs
  PROVE  /\ g.rows \in Nat /\ stage[r] \in {"none", "menu", "benchmark", "ended", "rejected"}
         /\ log[r] \in Seq(GateRows) /\ Len(log[r]) \in Nat
         /\ half[r] \in BOOLEAN /\ action[r] \in Nat /\ counts[r] \in Seq(Nat)
         /\ clock[r] \in 0 .. g.rows + 1 /\ clock[r] \in Nat
         /\ presents[r] \subseteq 1 .. g.rows + 1 /\ anchored[r] \in Nat /\ restarted[r] \in BOOLEAN
         /\ \A i \in 0 .. Len(log[r]) : GateAt(log[r], i) \in Nat /\ GateAt(log[r], i) <= clock[r]
         /\ GateRun(g, r)
<1>1. g.rows \in Nat
  BY GamesAssumption
<1>2. /\ stage[r] \in {"none", "menu", "benchmark", "ended", "rejected"}
      /\ log[r] \in Seq(GateRows)
      /\ half[r] \in BOOLEAN /\ action[r] \in Nat /\ counts[r] \in Seq(Nat)
      /\ clock[r] \in 0 .. g.rows + 1 /\ presents[r] \in SUBSET (1 .. g.rows + 1)
      /\ anchored[r] \in Nat /\ restarted[r] \in BOOLEAN
  BY DEF GateInv, GateTypes
<1>3. Len(log[r]) \in Nat /\ \A i \in 1 .. Len(log[r]) : log[r][i] \in GateRows
  BY <1>2
<1>4. GateRun(g, r)
  BY DEF GateInv
<1>5. \A i \in 1 .. Len(log[r]) : log[r][i].at \in Nat /\ log[r][i].at <= clock[r]
  BY <1>3, <1>4 DEF GateRun, GateLog, GateRows
<1>6. \A i \in 0 .. Len(log[r]) : GateAt(log[r], i) \in Nat /\ GateAt(log[r], i) <= clock[r]
  BY <1>1, <1>2, <1>3, <1>5 DEF GateAt
<1> QED BY <1>1, <1>2, <1>3, <1>4, <1>6

LEMMA GateBegins ==
  ASSUME NEW g \in Games, GateInv(g), NEW r \in g.runs, Gate(g)!Begins(r)
  PROVE  GateInv(g)'
<1>1. /\ stage[r] = "none"
      /\ stage' = [stage EXCEPT ![r] = "menu"] /\ stack' = [stack EXCEPT ![r] = installed]
      /\ UNCHANGED <<installed, log, half, action, counts, report, clock, presents, anchored, restarted>>
  BY DEF Gate!Begins, Gate!history
<1>2. GateTypes(g)'
  BY <1>1 DEF GateInv, GateTypes
<1>3. \A s \in g.runs \ {r} : GateSameRun(s) /\ stack'[s] = stack[s]
  BY <1>1 DEF GateSameRun, GateInv, GateTypes
<1>4. stage'[r] = "menu"
  BY <1>1 DEF GateInv, GateTypes
<1>5. GateRun(g, r)'
  <2> QED BY <1>1, <1>4, GateOfRun DEF GateRun, GateLog, GateCount, GateAnchor
<1> QED BY <1>1, <1>2, <1>3, <1>5, GateOthers

LEMMA GatePresents ==
  ASSUME NEW g \in Games, GateInv(g), NEW r \in g.runs, Gate(g)!Presents(r)
  PROVE  GateInv(g)'
<1>1. PICK us \in 1 .. 2, more \in SUBSET Nat :
        /\ more \subseteq clock[r] + 1 .. clock[r] + us /\ clock[r] + us \in more
        /\ clock' = [clock EXCEPT ![r] = @ + us] /\ presents' = [presents EXCEPT ![r] = @ \cup more]
  <2>1. CASE \E us \in 1 .. 2 : /\ clock' = [clock EXCEPT ![r] = @ + us]
                                /\ presents' = [presents EXCEPT ![r] = @ \cup {clock'[r]}]
    <3>1. PICK us \in 1 .. 2 : /\ clock' = [clock EXCEPT ![r] = @ + us]
                               /\ presents' = [presents EXCEPT ![r] = @ \cup {clock'[r]}]
      BY <2>1
    <3>2. clock'[r] = clock[r] + us
      BY <3>1 DEF GateInv, GateTypes
    <3> DEFINE more == {clock[r] + us}
    <3>3. more \in SUBSET Nat /\ more \subseteq clock[r] + 1 .. clock[r] + us /\ clock[r] + us \in more
      BY GateOfRun
    <3>4. presents' = [presents EXCEPT ![r] = @ \cup more]
      BY <3>1, <3>2
    <3> HIDE DEF more
    <3> QED BY <3>1, <3>3, <3>4
  <2>2. CASE /\ clock' = [clock EXCEPT ![r] = @ + 2]
             /\ presents' = [presents EXCEPT ![r] = @ \cup {clock[r] + 1, clock[r] + 2}]
    <3> DEFINE more == {clock[r] + 1, clock[r] + 2}
    <3>1. /\ more \in SUBSET Nat /\ more \subseteq clock[r] + 1 .. clock[r] + 2
          /\ clock[r] + 2 \in more /\ 2 \in 1 .. 2
      BY GateOfRun
    <3>2. presents' = [presents EXCEPT ![r] = @ \cup more]
      BY <2>2
    <3> HIDE DEF more
    <3> QED BY <2>2, <3>1, <3>2
  <2> QED BY <2>1, <2>2 DEF Gate!Presents
<1>2. /\ Gate(g)!Playing(r) /\ ~ half[r] /\ clock[r] < g.rows
      /\ half' = [half EXCEPT ![r] = TRUE]
      /\ UNCHANGED <<installed, stage, stack, log, action, counts, report, anchored, restarted>>
  BY DEF Gate!Presents
<1>3. /\ clock'[r] = clock[r] + us /\ presents'[r] = presents[r] \cup more /\ half'[r] = TRUE
      /\ log'[r] = log[r]
  BY <1>1, <1>2 DEF GateInv, GateTypes
<1>4. GateTypes(g)'
  <2>1. clock[r] + us \in 0 .. g.rows + 1 /\ presents[r] \cup more \in SUBSET (1 .. g.rows + 1)
    <3>1. clock[r] \in Nat /\ g.rows \in Nat /\ presents[r] \subseteq 1 .. g.rows + 1
      BY GateOfRun
    <3>2. clock[r] + us \in 0 .. g.rows + 1
      BY <1>1, <1>2, <3>1
    <3>3. \A t \in more : t \in 1 .. g.rows + 1
      BY <1>1, <1>2, <3>1
    <3> QED BY <3>1, <3>2, <3>3
  <2>2. clock' \in [g.runs -> 0 .. g.rows + 1] /\ presents' \in [g.runs -> SUBSET (1 .. g.rows + 1)]
    BY <1>1, <2>1 DEF GateInv, GateTypes
  <2>3. half' \in [g.runs -> BOOLEAN]
    BY <1>2 DEF GateInv, GateTypes
  <2> QED BY <1>2, <2>2, <2>3 DEF GateInv, GateTypes
<1>5. \A s \in g.runs \ {r} : GateSameRun(s) /\ stack'[s] = stack[s]
  BY <1>1, <1>2 DEF GateSameRun, GateInv, GateTypes
<1>6. GateRun(g, r)'
  <2>2. /\ clock[r] \in Nat /\ Len(log[r]) \in Nat /\ GateAt(log[r], Len(log[r])) \in Nat
        /\ GateAt(log[r], Len(log[r])) <= clock[r] /\ action[r] \in Nat
        /\ \A i \in 1 .. Len(log[r]) : log[r][i].at \in Nat
    <3>1. clock[r] \in Nat /\ Len(log[r]) \in Nat /\ action[r] \in Nat
      BY GateOfRun
    <3>2. \A i \in 0 .. Len(log[r]) : GateAt(log[r], i) \in Nat /\ GateAt(log[r], i) <= clock[r]
      BY GateOfRun
    <3>3. \A i \in 1 .. Len(log[r]) : i \in 0 .. Len(log[r]) /\ i # 0
      BY <3>1
    <3>4. \A i \in 1 .. Len(log[r]) : log[r][i].at \in Nat
      BY <3>2, <3>3 DEF GateAt
    <3> QED BY <3>1, <3>2, <3>4
  <2>1. GateLog(r) /\ GateCount(r) /\ ("reset" \notin g.may => GateAnchor(r))
    BY GateOfRun DEF GateRun
  <2>3. GateLog(r)'
    <3>1. \A t \in presents'[r] : t \in Nat /\ t <= clock'[r]
      <4>1. \A t \in presents[r] : t \in Nat /\ t <= clock[r]
        BY <2>1, GateOfRun DEF GateLog
      <4>2. \A t \in more : t \in Nat /\ t <= clock[r] + us
        <5> SUFFICES ASSUME NEW t \in more PROVE t \in Nat /\ t <= clock[r] + us
          OBVIOUS
        <5>1. t \in clock[r] + 1 .. clock[r] + us
          BY <1>1
        <5> QED BY <2>2, <5>1
      <4>3. ASSUME NEW t \in presents'[r] PROVE t \in Nat /\ t <= clock[r] + us
        BY <1>3, <2>2, <4>1, <4>2
      <4> QED BY <1>3, <4>3
    <3>2. \A t \in more : t > clock[r]
      <4> SUFFICES ASSUME NEW t \in more PROVE t > clock[r]
        OBVIOUS
      <4>1. t \in clock[r] + 1 .. clock[r] + us
        BY <1>1
      <4> QED BY <2>2, <4>1
    <3>3. ASSUME NEW i \in 1 .. Len(log[r])
          PROVE  /\ log[r][i].at = GateAt(log[r], i - 1) + log[r][i].us
                 /\ log[r][i].at <= clock'[r] /\ log[r][i].at \in presents'[r]
                 /\ log[r][i].frame = 1 =>
                      \A t \in presents'[r] :
                         GateAt(log[r], i - 1) < t /\ t <= log[r][i].at => t = log[r][i].at
      <4>1. /\ log[r][i].at = GateAt(log[r], i - 1) + log[r][i].us
            /\ log[r][i].at <= clock[r] /\ log[r][i].at \in presents[r]
            /\ log[r][i].frame = 1 =>
                 \A t \in presents[r] :
                    GateAt(log[r], i - 1) < t /\ t <= log[r][i].at => t = log[r][i].at
        BY <2>1 DEF GateLog
      <4>2. \A t \in presents'[r] : t <= log[r][i].at => t \in presents[r]
        <5> SUFFICES ASSUME NEW t \in more, t <= log[r][i].at PROVE FALSE
          BY <1>3
        <5>1. log[r][i].at \in Nat /\ log[r][i].at <= clock[r] /\ clock[r] < t /\ t \in Nat
          BY <2>2, <3>2, <4>1
        <5> QED BY <2>2, <5>1
      <4>3. log[r][i].at <= clock'[r]
        BY <1>1, <1>3, <2>2, <4>1
      <4> QED BY <1>3, <4>1, <4>2, <4>3
    <3>4. clock'[r] \in presents'[r] /\ GateAt(log[r], Len(log[r])) < clock'[r]
      BY <1>1, <1>3, <2>2
    <3> QED BY <1>3, <3>1, <3>3, <3>4 DEF GateLog
  <2>4. GateCount(r)'
    BY <1>2, <1>3, <2>1, <2>2 DEF GateCount
  <2>5. "reset" \notin g.may => GateAnchor(r)'
    BY <1>2, <1>3, <2>1, <2>2 DEF GateCount, GateAnchor
  <2> QED BY <2>3, <2>4, <2>5 DEF GateRun
<1> QED BY <1>2, <1>4, <1>5, <1>6, GateOthers

LEMMA GateLogs ==
  ASSUME NEW g \in Games, GateInv(g), NEW r \in g.runs, Gate(g)!Logs(r)
  PROVE  GateInv(g)'
<1> DEFINE before == GateAt(log[r], Len(log[r]))
           since == {t \in presents[r] : t > before}
           row == [us |-> clock[r] - before, at |-> clock[r], frame |-> Cardinality(since)]
<1>1. Gate(g)!Before(r) = before
  BY GateOfRun DEF Gate!Before, GateAt
<1>2. /\ Gate(g)!Playing(r) /\ half[r] /\ log' = [log EXCEPT ![r] = Append(@, row)]
      /\ half' = [half EXCEPT ![r] = FALSE]
      /\ UNCHANGED <<installed, stage, stack, action, counts, report, clock, presents, anchored, restarted>>
  BY <1>1 DEF Gate!Logs, Gate!history, Gate!Cardinality, Cardinality
<1>3. /\ GateLog(r) /\ GateCount(r) /\ ("reset" \notin g.may => GateAnchor(r))
      /\ log[r] \in Seq(GateRows) /\ Len(log[r]) \in Nat /\ action[r] \in Nat /\ clock[r] \in Nat
      /\ g.rows \in Nat /\ presents[r] \subseteq 1 .. g.rows + 1
      /\ before \in Nat /\ before < clock[r] /\ clock[r] \in presents[r]
  BY <1>2, GateOfRun DEF GateRun, GateLog
<1> HIDE DEF before
<1>4. IsFiniteSet(since) /\ clock[r] \in since
  <2>1. IsFiniteSet(1 .. g.rows + 1) /\ since \subseteq 1 .. g.rows + 1
    <3>1. 1 \in Int /\ g.rows + 1 \in Int
      BY <1>3
    <3> QED BY <1>3, <3>1, FS_Interval
  <2> QED BY <1>3, <2>1, FS_Subset
<1>5. Cardinality(since) \in Nat \ {0}
  BY <1>4, FS_CardinalityType, FS_EmptySet
<1>6. Cardinality(since) = 1 => since = {clock[r]}
  BY <1>4, FS_Singleton
<1>7. row \in GateRows /\ row.us = clock[r] - before /\ row.at = clock[r] /\ row.frame = Cardinality(since)
  <2>1. clock[r] - before \in Nat \ {0}
    BY <1>3
  <2> QED BY <1>3, <1>5, <2>1 DEF GateRows
<1>8. \A t \in presents[r] : before < t => t \in since
  BY <1>3
<1> HIDE DEF since, row
<1>9. /\ Append(log[r], row) \in Seq(GateRows) /\ Len(Append(log[r], row)) = Len(log[r]) + 1
      /\ Append(log[r], row)[Len(log[r]) + 1] = row
      /\ \A i \in 1 .. Len(log[r]) : Append(log[r], row)[i] = log[r][i]
  BY <1>3, <1>7
<1>10. log'[r] = Append(log[r], row) /\ half'[r] = FALSE
  BY <1>2 DEF GateInv, GateTypes
<1>11. GateTypes(g)'
  <2>1. log' \in [g.runs -> Seq(GateRows)]
    BY <1>2, <1>9 DEF GateInv, GateTypes
  <2>2. half' \in [g.runs -> BOOLEAN]
    BY <1>2 DEF GateInv, GateTypes
  <2> QED BY <1>2, <2>1, <2>2 DEF GateInv, GateTypes
<1>12. \A s \in g.runs \ {r} : GateSameRun(s) /\ stack'[s] = stack[s]
  BY <1>2 DEF GateSameRun, GateInv, GateTypes
<1>13. /\ \A i \in 0 .. Len(log[r]) : GateAt(log'[r], i) = GateAt(log[r], i)
       /\ GateAt(log'[r], Len(log[r]) + 1) = clock[r]
  BY <1>3, <1>7, <1>9, <1>10 DEF GateAt
<1>14. GateRun(g, r)'
  <2>1. GateLog(r)'
    <3>1. ASSUME NEW i \in 1 .. Len(log[r]) + 1
          PROVE  /\ log'[r][i].at = GateAt(log'[r], i - 1) + log'[r][i].us
                 /\ log'[r][i].at <= clock[r] /\ log'[r][i].at \in presents[r]
                 /\ log'[r][i].frame = 1 =>
                      \A t \in presents[r] :
                         GateAt(log'[r], i - 1) < t /\ t <= log'[r][i].at => t = log'[r][i].at
      <4>1. CASE i \in 1 .. Len(log[r])
        <5>1. log'[r][i] = log[r][i] /\ GateAt(log'[r], i - 1) = GateAt(log[r], i - 1)
          BY <1>3, <1>9, <1>10, <1>13, <4>1
        <5> QED BY <1>3, <4>1, <5>1 DEF GateLog
      <4>2. CASE i = Len(log[r]) + 1
        <5>1. log'[r][i] = row /\ GateAt(log'[r], i - 1) = before
          BY <1>3, <1>9, <1>10, <1>13, <4>2 DEF before
        <5>2. row.frame = 1 => \A t \in presents[r] : before < t => t = clock[r]
          BY <1>6, <1>7, <1>8
        <5>3. row.at = before + row.us
          BY <1>3, <1>7
        <5> QED BY <1>3, <1>7, <5>1, <5>2, <5>3
      <4> QED BY <1>3, <4>1, <4>2
    <3>2. Len(log'[r]) = Len(log[r]) + 1
      BY <1>9, <1>10
    <3> QED BY <1>2, <1>3, <1>10, <3>1, <3>2 DEF GateLog
  <2>2. GateCount(r)'
    BY <1>2, <1>3, <1>9, <1>10 DEF GateCount
  <2>3. ASSUME "reset" \notin g.may PROVE GateAnchor(r)'
    <3>1. GateAnchor(r) /\ (action[r] <= Len(log[r]) \/ action[r] = Len(log[r]) + 1)
      BY <1>3, <2>3 DEF GateCount, GateAnchor
    <3>2. Len(log'[r]) = Len(log[r]) + 1
      BY <1>9, <1>10
    <3>3. action[r] <= Len(log'[r]) => GateAt(log'[r], action[r]) = anchored[r]
      BY <1>3, <1>13, <3>1, <3>2 DEF GateAnchor
    <3>4. ~ (action[r] > Len(log'[r]))
      BY <1>3, <3>1, <3>2
    <3> QED BY <1>2, <1>13, <3>1, <3>2, <3>3, <3>4 DEF GateAnchor
  <2> QED BY <2>1, <2>2, <2>3 DEF GateRun
<1> QED BY <1>2, <1>11, <1>12, <1>14, GateOthers

LEMMA GateResets ==
  ASSUME NEW g \in Games, GateInv(g), NEW r \in g.runs, Gate(g)!Resets(r)
  PROVE  GateInv(g)'
<1>1. /\ Gate(g)!Playing(r) /\ "reset" \in g.may /\ ~ half[r]
      /\ log' = [log EXCEPT ![r] = <<>>]
      /\ restarted' = [restarted EXCEPT ![r] = (stage[r] = "benchmark")]
      /\ UNCHANGED <<installed, stage, stack, half, action, counts, report, clock, presents, anchored>>
  BY DEF Gate!Resets, Gate!Can
<1>2. log'[r] = <<>> /\ Len(log'[r]) = 0
  BY <1>1 DEF GateInv, GateTypes
<1>3. restarted'[r] = (stage[r] = "benchmark")
  BY <1>1 DEF GateInv, GateTypes
<1>4. GateTypes(g)'
  <2>1. log' \in [g.runs -> Seq(GateRows)]
    <3>1. <<>> \in Seq(GateRows)
      OBVIOUS
    <3> QED BY <1>1, <3>1 DEF GateInv, GateTypes
  <2>2. restarted' \in [g.runs -> BOOLEAN]
    <3>1. (stage[r] = "benchmark") \in BOOLEAN
      OBVIOUS
    <3> QED BY <1>1, <3>1 DEF GateInv, GateTypes
  <2> QED BY <1>1, <2>1, <2>2 DEF GateInv, GateTypes
<1>5. \A s \in g.runs \ {r} : GateSameRun(s) /\ stack'[s] = stack[s]
  BY <1>1 DEF GateSameRun, GateInv, GateTypes
<1>6. GateRun(g, r)'
  <2>1. GateLog(r) /\ GateCount(r) /\ half[r] \in BOOLEAN /\ action[r] \in Nat
    BY GateOfRun DEF GateRun
  <2>2. GateLog(r)'
    BY <1>1, <1>2, <2>1 DEF GateLog
  <2>3. GateCount(r)'
    <3>1. CASE stage[r] = "menu"
      BY <1>1, <1>2, <2>1, <3>1 DEF GateCount
    <3>2. CASE stage[r] = "benchmark"
      BY <1>1, <1>3, <3>2 DEF GateCount
    <3> QED BY <1>1, <3>1, <3>2 DEF Gate!Playing
  <2> QED BY <1>1, <2>2, <2>3 DEF GateRun
<1> QED BY <1>1, <1>4, <1>5, <1>6, GateOthers

LEMMA GateActs ==
  ASSUME NEW g \in Games, GateInv(g), NEW r \in g.runs, Gate(g)!Acts(r)
  PROVE  GateInv(g)'
<1> DEFINE lines == Len(log[r]) + (IF half[r] THEN 1 ELSE 0)
<1>1. /\ stage[r] = "menu" /\ stage' = [stage EXCEPT ![r] = "benchmark"]
      /\ action' = [action EXCEPT ![r] = lines] /\ anchored' = [anchored EXCEPT ![r] = clock[r]]
      /\ UNCHANGED <<installed, stack, log, half, counts, report, clock, presents, restarted>>
  BY DEF Gate!Acts, Gate!Lines
<1>2. /\ GateLog(r) /\ ("reset" \notin g.may => GateAnchor(r)) /\ clock[r] \in Nat /\ Len(log[r]) \in Nat
      /\ half[r] \in BOOLEAN
  BY GateOfRun DEF GateRun
<1>3. lines \in Nat /\ (half[r] => lines = Len(log[r]) + 1) /\ (~ half[r] => lines = Len(log[r]))
  <2>1. CASE half[r]
    BY <1>2, <2>1
  <2>2. CASE ~ half[r]
    BY <1>2, <2>2
  <2> QED BY <2>1, <2>2
<1> HIDE DEF lines
<1>4. stage'[r] = "benchmark" /\ action'[r] = lines /\ anchored'[r] = clock[r]
  BY <1>1 DEF GateInv, GateTypes
<1>5. GateTypes(g)'
  BY <1>1, <1>2, <1>3 DEF GateInv, GateTypes
<1>6. \A s \in g.runs \ {r} : GateSameRun(s) /\ stack'[s] = stack[s]
  BY <1>1 DEF GateSameRun, GateInv, GateTypes
<1>7. GateLog(r)'
  BY <1>1, <1>2 DEF GateLog
<1>8. GateCount(r)'
  BY <1>1, <1>2, <1>3, <1>4 DEF GateCount
<1>9. "reset" \notin g.may => GateAnchor(r)'
  BY <1>1, <1>2, <1>3, <1>4 DEF GateAnchor
<1>10. GateRun(g, r)'
  BY <1>7, <1>8, <1>9 DEF GateRun
<1> QED BY <1>1, <1>5, <1>6, <1>10, GateOthers DEF Gate!Playing

LEMMA GateShoots ==
  ASSUME NEW g \in Games, GateInv(g), NEW r \in g.runs, Gate(g)!Shoots(r)
  PROVE  GateInv(g)'
<1> DEFINE lines == Len(log[r]) + (IF half[r] THEN 1 ELSE 0)
<1>1. /\ stage[r] = "benchmark" /\ counts' = [counts EXCEPT ![r] = Append(@, lines)]
      /\ UNCHANGED <<installed, stage, stack, log, half, action, report, clock, presents, anchored, restarted>>
  BY DEF Gate!Shoots, Gate!Lines, Gate!history
<1>2. GateRun(g, r) /\ Len(log[r]) \in Nat /\ half[r] \in BOOLEAN /\ counts[r] \in Seq(Nat)
  BY GateOfRun
<1>3. lines \in Nat
  <2>1. CASE half[r]
    BY <1>2, <2>1
  <2>2. CASE ~ half[r]
    BY <1>2, <2>2
  <2> QED BY <2>1, <2>2
<1> HIDE DEF lines
<1>4. Append(counts[r], lines) \in Seq(Nat)
  BY <1>2, <1>3
<1>5. counts' \in [g.runs -> Seq(Nat)]
  BY <1>1, <1>4 DEF GateInv, GateTypes
<1>6. GateTypes(g)'
  BY <1>1, <1>5 DEF GateInv, GateTypes
<1>7. \A s \in g.runs \ {r} : GateSameRun(s) /\ stack'[s] = stack[s]
  BY <1>1 DEF GateSameRun, GateInv, GateTypes
<1>8. GateRun(g, r)'
  BY <1>1, <1>2 DEF GateRun, GateLog, GateCount, GateAnchor
<1> QED BY <1>1, <1>6, <1>7, <1>8, GateOthers DEF Gate!Playing

LEMMA GateEnds ==
  ASSUME NEW g \in Games, GateInv(g), NEW r \in g.runs, Gate(g)!Ends(r)
  PROVE  GateInv(g)'
<1>1. PICK to \in {"ended", "rejected"} : stage' = [stage EXCEPT ![r] = to]
  BY DEF Gate!Ends
<1>2. /\ Gate(g)!Playing(r)
      /\ UNCHANGED <<installed, stack, log, half, action, counts, report, clock, presents, anchored, restarted>>
  BY <1>1 DEF Gate!Ends, Gate!history
<1>3. GateTypes(g)'
  BY <1>1, <1>2 DEF GateInv, GateTypes
<1>4. \A s \in g.runs \ {r} : GateSameRun(s) /\ stack'[s] = stack[s]
  BY <1>1, <1>2 DEF GateSameRun, GateInv, GateTypes
<1>5. GateRun(g, r) /\ stage'[r] = to
  BY <1>1, GateOfRun DEF GateInv, GateTypes
<1>6. GateRun(g, r)'
  BY <1>2, <1>5 DEF GateRun, GateLog, GateCount, GateAnchor
<1> QED BY <1>2, <1>3, <1>4, <1>6, GateOthers

(* What is not about a run that is made.                                   *)
LEMMA GateChanges ==
  ASSUME NEW g \in Games, GateInv(g), Gate(g)!Changes
  PROVE  GateInv(g)'
<1>1. installed' \in g.stacks
  BY DEF Gate!Changes
<1>2. UNCHANGED <<stage, stack, log, half, action, counts, report, clock, presents, anchored, restarted>>
  BY DEF Gate!Changes, Gate!recorded, Gate!history
<1>3. GateTypes(g)'
  BY <1>1, <1>2 DEF GateInv, GateTypes
<1>4. \A r \in g.runs : GateSameRun(r)
  BY <1>2 DEF GateSameRun
<1>5. GateReports(g)'
  BY <1>2, <1>4, GateRunStays DEF GateInv, GateReports
<1> QED BY <1>3, <1>4, <1>5, GateRunStays DEF GateInv

LEMMA GateAnalyzes ==
  ASSUME NEW g \in Games, GateInv(g), Gate(g)!Analyzes
  PROVE  GateInv(g)'
<1>1. PICK of \in SUBSET {r \in g.runs : stage[r] # "none"} : report' = [of |-> of, ok |-> Gate(g)!Ok(of)]
  BY DEF Gate!Analyzes
<1>2. UNCHANGED <<installed, stage, stack, log, half, action, counts, clock, presents, anchored, restarted>>
  BY DEF Gate!Analyzes, Gate!recorded, Gate!history
<1>3. GateTypes(g)'
  BY <1>2 DEF GateInv, GateTypes
<1>4. \A r \in g.runs : GateSameRun(r)
  BY <1>2 DEF GateSameRun
<1>5. GateReports(g)'
  <2>1. report'.of = of /\ of \subseteq g.runs
    BY <1>1
  <2>2. report'.ok = Gate(g)!Ok(of)
    BY <1>1
  <2>3. ASSUME Gate(g)!Ok(of)
        PROVE  (\A r \in of : Gate(g)!Accepts(r)') /\ \A r, s \in of : stack'[r] = stack'[s]
    BY <1>2, <1>4, <2>1, <2>3, GateRunStays DEF Gate!Ok
  <2> QED BY <2>1, <2>2, <2>3 DEF GateReports
<1> QED BY <1>3, <1>4, <1>5, GateRunStays DEF GateInv

LEMMA GateStep ==
  ASSUME NEW g \in Games, GateInv(g), Gate(g)!Next
  PROVE  GateInv(g)'
BY GateBegins, GatePresents, GateLogs, GateResets, GateActs, GateShoots, GateEnds, GateChanges,
   GateAnalyzes DEF Gate!Next

LEMMA GateSame ==
  ASSUME NEW g \in Games, GateInv(g), UNCHANGED <<gate, report>>
  PROVE  GateInv(g)'
<1>1. UNCHANGED <<installed, stage, stack, log, half, action, counts, report, clock, presents, anchored, restarted>>
  BY DEF gate
<1>2. GateTypes(g)'
  BY <1>1 DEF GateInv, GateTypes
<1>3. \A r \in g.runs : GateSameRun(r)
  BY <1>1 DEF GateSameRun
<1>4. GateReports(g)'
  BY <1>1, <1>3, GateRunStays DEF GateInv, GateReports
<1> QED BY <1>2, <1>3, <1>4, GateRunStays DEF GateInv

(* The gate's clock is that of the presents, counted from the last one at  *)
(* the action.                                                             *)
LEMMA GateClockIs ==
  ASSUME NEW g \in Games, GateInv(g), "reset" \notin g.may, NEW r \in g.runs, action[r] \in 1 .. Len(log[r])
  PROVE  \A i \in action[r] .. Len(log[r]) :
           GateClock(action[r], log[r])[i] = GateAt(log[r], i) - anchored[r]
<1> DEFINE a == action[r]
           rows == log[r]
           n == Len(rows)
           Solves(c) == c = [i \in a .. n |-> IF i = a THEN 0 ELSE c[i - 1] + rows[i].us]
           f == [i \in a .. n |-> GateAt(rows, i) - anchored[r]]
<1>1. /\ a \in Nat /\ n \in Nat /\ 1 <= a /\ a <= n /\ anchored[r] \in Nat
      /\ GateAt(rows, a) = anchored[r]
      /\ \A i \in 0 .. n : GateAt(rows, i) \in Nat
  BY GateOfRun DEF GateRun, GateAnchor
<1>2. \A i \in a + 1 .. n : /\ GateAt(rows, i) = GateAt(rows, i - 1) + rows[i].us
                           /\ rows[i].us \in Nat
  <2> SUFFICES ASSUME NEW i \in a + 1 .. n
               PROVE  GateAt(rows, i) = GateAt(rows, i - 1) + rows[i].us /\ rows[i].us \in Nat
    OBVIOUS
  <2>1. i \in 1 .. n /\ i # 0
    BY <1>1
  <2>2. rows[i] \in GateRows /\ rows[i].at = GateAt(rows, i - 1) + rows[i].us
    BY <2>1, GateOfRun DEF GateRun, GateLog
  <2> QED BY <2>1, <2>2 DEF GateAt, GateRows
<1>3. GateClock(a, rows) = CHOOSE c : Solves(c)
  BY DEF GateClock
<1> HIDE DEF a, n, rows
<1>4. Solves(f)
  <2>1. \A i \in a .. n : f[i] = IF i = a THEN 0 ELSE f[i - 1] + rows[i].us
    <3> SUFFICES ASSUME NEW i \in a .. n PROVE f[i] = IF i = a THEN 0 ELSE f[i - 1] + rows[i].us
      OBVIOUS
    <3>1. CASE i = a
      BY <1>1, <3>1
    <3>2. CASE i \in a + 1 .. n
      <4>1. /\ i - 1 \in a .. n /\ i # a
            /\ GateAt(rows, i - 1) \in Nat /\ rows[i].us \in Nat
            /\ GateAt(rows, i) = GateAt(rows, i - 1) + rows[i].us
        <5>1. i - 1 \in a .. n /\ i # a /\ i - 1 \in 0 .. n
          BY <1>1, <3>2
        <5>2. GateAt(rows, i - 1) \in Nat
          BY <1>1, <5>1
        <5> QED BY <1>2, <3>2, <5>1, <5>2
      <4>2. f[i] = GateAt(rows, i) - anchored[r] /\ f[i - 1] = GateAt(rows, i - 1) - anchored[r]
        BY <4>1
      <4> HIDE DEF f
      <4> QED BY <1>1, <4>1, <4>2
    <3> QED BY <1>1, <3>1, <3>2
  <2> QED BY <2>1
<1> HIDE DEF Solves
<1>5. PICK c : c = GateClock(a, rows) /\ Solves(c)
  BY <1>3, <1>4
<1>6. \A i \in a .. n : c[i] = IF i = a THEN 0 ELSE c[i - 1] + rows[i].us
  BY <1>5 DEF Solves
<1>7. \A i \in a .. n : f[i] = IF i = a THEN 0 ELSE f[i - 1] + rows[i].us
  BY <1>4 DEF Solves
<1> DEFINE Same == {k \in Nat : a + k <= n => c[a + k] = f[a + k]}
<1>8. 0 \in Same
  <2>1. c[a] = 0 /\ f[a] = 0
    BY <1>1, <1>6, <1>7
  <2> QED BY <1>1, <2>1
<1> HIDE DEF f
<1>9. ASSUME NEW k \in Nat, k \in Same PROVE k + 1 \in Same
  <2> SUFFICES ASSUME a + (k + 1) <= n PROVE c[a + (k + 1)] = f[a + (k + 1)]
    OBVIOUS
  <2> DEFINE j == a + (k + 1)
  <2>1. j \in a .. n /\ j # a /\ j - 1 = a + k /\ a + k <= n
    BY <1>1
  <2>2. c[a + k] = f[a + k]
    BY <1>9, <2>1
  <2> HIDE DEF j
  <2>3. c[j] = c[j - 1] + rows[j].us /\ f[j] = f[j - 1] + rows[j].us
    BY <1>6, <1>7, <2>1
  <2>4. c[j] = f[j]
    BY <2>1, <2>2, <2>3
  <2> QED BY <2>4 DEF j
<1>10. \A k \in Nat : k \in Same
  <2> HIDE DEF Same
  <2> QED BY <1>8, <1>9, Numbers
<1>11. ASSUME NEW i \in a .. n PROVE c[i] = GateAt(rows, i) - anchored[r]
  <2>1. i - a \in Nat /\ a + (i - a) = i /\ i <= n
    BY <1>1
  <2>2. c[i] = f[i]
    BY <1>10, <2>1
  <2> QED BY <2>2 DEF f
<1> QED BY <1>5, <1>11 DEF a, rows, n

(* An accepted run, as the gate sees it.                                   *)
LEMMA GateAccepted ==
  ASSUME NEW g \in Games, GateInv(g), "reset" \notin g.may, NEW r \in g.runs, Gate(g)!Accepts(r)
  PROVE  /\ stage[r] = "ended" /\ action[r] \in 1 .. Len(log[r])
         /\ \A i \in Gate(g)!Window(r) :
              /\ i \in 1 .. Len(log[r]) /\ log[r][i].frame = 1
              /\ GateAt(log[r], i - 1) \in Nat /\ GateAt(log[r], i - 1) >= anchored[r] + g.start
              /\ log[r][i].at \in Nat /\ log[r][i].at <= anchored[r] + g.start + g.duration
<1>1. /\ stage[r] = "ended" /\ 0 < action[r] /\ action[r] < Len(log[r])
      /\ \A i \in Gate(g)!Window(r) : log[r][i].frame = 1
  BY DEF Gate!Accepts, Gate!Anchored, Gate!Ungrouped
<1>2. action[r] \in 1 .. Len(log[r]) /\ action[r] \in Nat /\ Len(log[r]) \in Nat /\ anchored[r] \in Nat
  BY <1>1, GateOfRun
<1>3. ASSUME NEW i \in GateWindow(g, action[r], log[r])
      PROVE  /\ i \in 1 .. Len(log[r])
             /\ GateAt(log[r], i - 1) \in Nat /\ GateAt(log[r], i - 1) >= anchored[r] + g.start
             /\ log[r][i].at \in Nat /\ log[r][i].at <= anchored[r] + g.start + g.duration
  <2> DEFINE c == GateClock(action[r], log[r])
  <2>1. i \in action[r] + 1 .. Len(log[r]) /\ c[i - 1] >= g.start /\ c[i] <= g.start + g.duration
    BY DEF GateWindow
  <2> HIDE DEF c
  <2>2. /\ i \in action[r] .. Len(log[r]) /\ i - 1 \in action[r] .. Len(log[r]) /\ i \in 1 .. Len(log[r])
        /\ i \in 0 .. Len(log[r]) /\ i - 1 \in 0 .. Len(log[r]) /\ i # 0
    BY <1>2, <2>1
  <2>3. c[i] = GateAt(log[r], i) - anchored[r] /\ c[i - 1] = GateAt(log[r], i - 1) - anchored[r]
    BY <1>2, <2>2, GateClockIs DEF c
  <2>4. GateAt(log[r], i) \in Nat /\ GateAt(log[r], i - 1) \in Nat /\ GateAt(log[r], i) = log[r][i].at
    BY <2>2, GateOfRun DEF GateAt
  <2>5. g.start \in Nat /\ g.duration \in Nat
    BY GamesAssumption
  <2>6. GateAt(log[r], i - 1) >= anchored[r] + g.start
    BY <1>2, <2>1, <2>3, <2>4, <2>5
  <2>7. log[r][i].at <= anchored[r] + g.start + g.duration
    <3>1. GateAt(log[r], i) - anchored[r] <= g.start + g.duration
      BY <2>1, <2>3
    <3>2. GateAt(log[r], i) <= anchored[r] + g.start + g.duration
      BY <1>2, <2>4, <2>5, <3>1
    <3> QED BY <2>4, <3>2
  <2> QED BY <2>2, <2>4, <2>6, <2>7
<1> QED BY <1>1, <1>2, <1>3, GateComputes

LEMMA GateRunsThrough ==
  ASSUME NEW g \in Games, GateInv(g), "reset" \notin g.may, NEW r \in g.runs, Gate(g)!Accepts(r)
  PROVE  100 * (clock[r] - anchored[r] - g.start) >= 95 * g.duration
<1> DEFINE W == GateWindow(g, action[r], log[r])
           c == GateClock(action[r], log[r])
           n == Len(log[r])
<1>1. W = Gate(g)!Window(r)
  BY GateComputes
<1>2. /\ g.intervals \in Nat \ {0} /\ g.start \in Nat /\ g.duration \in Nat
      /\ n \in Nat /\ action[r] \in Nat /\ anchored[r] \in Nat /\ clock[r] \in Nat
      /\ action[r] \in 1 .. n
  BY GamesAssumption, GateOfRun, GateAccepted
<1>3. Cardinality(W) >= g.intervals /\ 100 * Gate(g)!Measured(r) >= 95 * g.duration
  BY <1>1 DEF Gate!Accepts, Gate!LongEnough, Gate!Cardinality, Cardinality
<1>4. W # {}
  <2>1. Cardinality({}) = 0
    BY FS_EmptySet
  <2>2. Cardinality(W) # 0
    <3> HIDE DEF W
    <3> QED BY <1>2, <1>3
  <2> HIDE DEF W
  <2> QED BY <2>1, <2>2
<1>5. W \subseteq action[r] + 1 .. n /\ W \subseteq Nat
  BY <1>2 DEF GateWindow
<1>6. Gate(g)!Measured(r) = c[GateLast(W)] - c[GateFirst(W) - 1]
  BY <1>4, GateComputes DEF GateMeasured
<1> HIDE DEF W, c, n
<1>7. GateFirst(W) \in W
  BY <1>4, <1>5, LeastNumber DEF GateFirst
<1>8. GateLast(W) \in W
  <2> DEFINE B == {n - i : i \in W}
  <2>1. B \subseteq Nat /\ B # {}
    <3>1. \A i \in W : n - i \in Nat
      BY <1>2, <1>5
    <3> QED BY <1>4, <3>1
  <2>2. PICK x \in B : \A y \in B : x <= y
    <3> HIDE DEF B
    <3> QED BY <2>1, LeastNumber
  <2>3. PICK i \in W : x = n - i
    BY <2>2
  <2>4. \A j \in W : j <= i
    <3> SUFFICES ASSUME NEW j \in W PROVE j <= i
      OBVIOUS
    <3>1. n - i <= n - j
      BY <2>2, <2>3
    <3>2. i \in Nat /\ j \in Nat
      BY <1>5
    <3> QED BY <1>2, <3>1, <3>2
  <2> QED BY <2>4 DEF GateLast
<1> DEFINE first == GateFirst(W)
           last == GateLast(W)
<1>9. /\ first - 1 \in action[r] .. n /\ last \in action[r] .. n /\ last \in 0 .. n /\ first - 1 \in 0 .. n
  <2>1. first \in action[r] + 1 .. n /\ last \in action[r] + 1 .. n
    BY <1>5, <1>7, <1>8
  <2> HIDE DEF first, last
  <2> QED BY <1>2, <2>1
<1>10. /\ c[last] = GateAt(log[r], last) - anchored[r]
       /\ c[first - 1] = GateAt(log[r], first - 1) - anchored[r]
  BY <1>2, <1>9, GateClockIs DEF c, n
<1>11. GateAt(log[r], last) \in Nat /\ GateAt(log[r], last) <= clock[r]
  BY <1>9, GateOfRun DEF n
<1>12. GateAt(log[r], first - 1) \in Nat /\ GateAt(log[r], first - 1) >= anchored[r] + g.start
  BY <1>1, <1>7, GateAccepted
<1>13. 100 * (c[last] - c[first - 1]) >= 95 * g.duration
  BY <1>3, <1>6
<1> HIDE DEF first, last
<1> QED BY <1>2, <1>10, <1>11, <1>12, <1>13

LEMMA GateGoal ==
  ASSUME NEW g \in Games, GateInv(g)
  PROVE  /\ Gate(g)!TypeOK /\ Gate(g)!AnswersCompare
         /\ "reset" \notin g.may =>
              Gate(g)!WindowIsInTime /\ Gate(g)!IntervalsAreReal /\ Gate(g)!RanThroughTheWindow
<1>1. Gate(g)!TypeOK
  <2>1. ASSUME NEW r \in g.runs
        PROVE  /\ action[r] \in 0 .. Gate(g)!Lines(r) \/ restarted[r]
               /\ \A i \in DOMAIN log[r] : log[r][i].us > 0 /\ log[r][i].frame > 0
    <3>1. /\ log[r] \in Seq(GateRows) /\ Len(log[r]) \in Nat /\ action[r] \in Nat /\ half[r] \in BOOLEAN
          /\ GateCount(r)
      BY GateOfRun DEF GateRun
    <3>2. \A i \in DOMAIN log[r] : log[r][i] \in GateRows
      BY <3>1
    <3>3. \A i \in DOMAIN log[r] : log[r][i].us > 0 /\ log[r][i].frame > 0
      BY <3>2 DEF GateRows
    <3>4. CASE half[r]
      BY <3>1, <3>3, <3>4 DEF GateCount, Gate!Lines
    <3>5. CASE ~ half[r]
      BY <3>1, <3>3, <3>5 DEF GateCount, Gate!Lines
    <3> QED BY <3>4, <3>5
  <2> QED BY <2>1 DEF GateInv, GateTypes, Gate!TypeOK
<1>2. Gate(g)!AnswersCompare
  <2> SUFFICES ASSUME NEW r \in Gate(g)!Good, NEW s \in Gate(g)!Good
               PROVE  stage[r] = "ended" /\ stack[r] = stack[s]
    BY DEF Gate!AnswersCompare
  <2>1. report.ok /\ r \in report.of /\ s \in report.of
    BY DEF Gate!Good
  <2> QED BY <2>1 DEF GateInv, GateReports, Gate!Accepts
<1>3. ASSUME NEW r \in Gate(g)!Good PROVE r \in g.runs /\ Gate(g)!Accepts(r)
  BY <1>3 DEF Gate!Good, GateInv, GateReports
<1>4. ASSUME "reset" \notin g.may, NEW r \in Gate(g)!Good, NEW i \in Gate(g)!Window(r)
      PROVE  /\ log[r][i].at - log[r][i].us >= anchored[r] + g.start
             /\ log[r][i].at <= anchored[r] + g.start + g.duration
             /\ presents[r] \cap (log[r][i].at - log[r][i].us + 1 .. log[r][i].at) = {log[r][i].at}
  <2>1. r \in g.runs /\ Gate(g)!Accepts(r)
    BY <1>3
  <2>2. /\ i \in 1 .. Len(log[r]) /\ log[r][i].frame = 1
        /\ GateAt(log[r], i - 1) \in Nat /\ GateAt(log[r], i - 1) >= anchored[r] + g.start
        /\ log[r][i].at \in Nat /\ log[r][i].at <= anchored[r] + g.start + g.duration
    BY <1>4, <2>1, GateAccepted
  <2>3. log[r][i].us \in Nat \ {0} /\ presents[r] \subseteq 1 .. g.rows + 1 /\ g.rows \in Nat
    <3>1. log[r] \in Seq(GateRows) /\ presents[r] \subseteq 1 .. g.rows + 1 /\ g.rows \in Nat
      BY <2>1, GateOfRun
    <3>2. log[r][i] \in GateRows
      BY <2>2, <3>1
    <3> QED BY <3>1, <3>2 DEF GateRows
  <2>4. /\ log[r][i].at = GateAt(log[r], i - 1) + log[r][i].us /\ log[r][i].at \in presents[r]
        /\ \A t \in presents[r] : GateAt(log[r], i - 1) < t /\ t <= log[r][i].at => t = log[r][i].at
    BY <2>1, <2>2, GateOfRun DEF GateRun, GateLog
  <2>5. log[r][i].at - log[r][i].us = GateAt(log[r], i - 1)
    BY <2>2, <2>3, <2>4
  <2> DEFINE before == GateAt(log[r], i - 1)
             at == log[r][i].at
  <2>6. presents[r] \cap (before + 1 .. at) = {at}
    <3> HIDE DEF before, at
    <3>1. before \in Nat /\ at \in Nat /\ at > before /\ at \in presents[r]
      BY <2>2, <2>3, <2>4 DEF before, at
    <3>2. \A t \in presents[r] : t \in Nat
      BY <2>3
    <3>3. \A t \in presents[r] : before < t /\ t <= at => t = at
      BY <2>4 DEF before, at
    <3>4. at \in presents[r] \cap (before + 1 .. at)
      BY <3>1
    <3>5. \A t \in presents[r] \cap (before + 1 .. at) : t = at
      BY <3>1, <3>2, <3>3
    <3> QED BY <3>4, <3>5
  <2> QED BY <2>2, <2>5, <2>6
<1>5. "reset" \notin g.may => Gate(g)!WindowIsInTime
  BY <1>4 DEF Gate!WindowIsInTime
<1>6. "reset" \notin g.may => Gate(g)!IntervalsAreReal
  BY <1>4 DEF Gate!IntervalsAreReal
<1>7. "reset" \notin g.may => Gate(g)!RanThroughTheWindow
  BY <1>3, GateRunsThrough DEF Gate!RanThroughTheWindow
<1> QED BY <1>1, <1>2, <1>5, <1>6, <1>7

-----------------------------------------------------------------------------
(* The checks behind a comparison: CtsGate                                 *)

CtsResults == {"same", "gain", "change"}

(* What the maker has in its list, in the directories and in the file.     *)
CtsTypes(f) ==
  /\ maker \in {"idle", "next", "running", "truncated", "done", "failed"}
  /\ waiter \in {"idle", "waiting", "checking", "passed", "refused", "died"}
  /\ report \in Seq(CtsResults) /\ Len(report) <= f.total
  /\ outputs \subseteq 0 .. f.total
  /\ file.state \in {"absent", "partial", "written"}
  /\ file.runs \in Seq(CtsResults) /\ Len(file.runs) <= f.total
  /\ outcome \in [1 .. f.total -> CtsResults \cup {"none"}]

(* A list is that of the first directories.                                *)
CtsIsOfOutputs(list) == \A n \in 1 .. Len(list) : n \in outputs /\ list[n] = outcome[n]

(* A directory stands for one run, whose outcome is settled once.          *)
CtsRunsOnce(f) ==
  /\ CtsIsOfOutputs(report)
  /\ \A n \in 1 .. f.total : n \notin outputs => outcome[n] = "none"
  /\ maker = "running" =>
       /\ Len(report) + 1 \in 1 .. f.total /\ Len(report) + 1 \in outputs
       /\ outcome[Len(report) + 1] = "none"
  /\ maker = "truncated" => Len(report) > 0

CtsEarned(f) ==
  waiter \in {"checking", "passed"} =>
    \A n \in 1 .. f.total : outcome[n] \in (IF f.exact THEN {"same"} ELSE {"same", "gain"})

CtsFileTrue == file.state = "written" => Len(file.runs) > 0 /\ CtsIsOfOutputs(file.runs)

CtsInv(f) == CtsTypes(f) /\ CtsRunsOnce(f) /\ CtsFileTrue /\ CtsEarned(f)

LEMMA CtsListTypes ==
  ASSUME NEW n \in Nat, NEW q \in Seq(CtsResults), Len(q) <= n
  PROVE  q \in UNION {[1 .. m -> CtsResults] : m \in 0 .. n}
<1>1. q \in [1 .. Len(q) -> CtsResults] /\ Len(q) \in 0 .. n
  OBVIOUS
<1> QED BY <1>1

LEMMA CtsInit ==
  ASSUME NEW f \in Forms, Cts(f)!Init
  PROVE  CtsInv(f)
<1>1. f.total \in Nat \ {0}
  BY FormsAssumption
<1>2. /\ maker = "idle" /\ report = <<>> /\ outputs = {} /\ waiter = "idle"
      /\ file = [state |-> "absent", runs |-> <<>>]
      /\ outcome = [n \in 1 .. f.total |-> "none"]
  BY DEF Cts!Init, Cts!Absent
<1>3. CtsTypes(f)
  BY <1>1, <1>2 DEF CtsTypes, CtsResults
<1>4. CtsRunsOnce(f) /\ CtsFileTrue /\ CtsEarned(f)
  BY <1>1, <1>2 DEF CtsRunsOnce, CtsIsOfOutputs, CtsFileTrue, CtsEarned
<1> QED BY <1>3, <1>4 DEF CtsInv

(* The maker's list is cut back to nothing, or it stays.                   *)
LEMMA CtsStarts ==
  ASSUME NEW f \in Forms, CtsInv(f), Cts(f)!Starts
  PROVE  CtsInv(f)'
<1>1. f.total \in Nat \ {0}
  BY FormsAssumption
<1>2. /\ report' = <<>> /\ maker' \in {"next", "failed"}
      /\ outputs' \in {outputs, outputs \cup {0}}
      /\ UNCHANGED <<file, waiter, outcome>>
  BY DEF Cts!Starts
<1>3. CtsTypes(f)'
  BY <1>1, <1>2 DEF CtsInv, CtsTypes
<1>4. CtsRunsOnce(f)' /\ CtsFileTrue' /\ CtsEarned(f)'
  BY <1>1, <1>2 DEF CtsInv, CtsTypes, CtsRunsOnce, CtsIsOfOutputs, CtsFileTrue, CtsEarned
<1> QED BY <1>3, <1>4 DEF CtsInv

LEMMA CtsRuns ==
  ASSUME NEW f \in Forms, CtsInv(f), Cts(f)!RunsCts
  PROVE  CtsInv(f)'
<1>1. f.total \in Nat \ {0}
  BY FormsAssumption
<1>2. /\ Len(report) \in Nat /\ Len(report) + 1 \in 1 .. f.total
      /\ \/ maker' = "failed" /\ outputs' = outputs
         \/ /\ Len(report) + 1 \notin outputs
            /\ outputs' = outputs \cup {Len(report) + 1} /\ maker' = "running"
      /\ UNCHANGED <<report, file, waiter, outcome>>
  BY <1>1 DEF Cts!RunsCts, Cts!Number, CtsInv, CtsTypes
<1>3. CtsTypes(f)'
  <2>1. maker' \in {"running", "failed"} /\ UNCHANGED <<report, file, waiter, outcome>>
    BY <1>2
  <2>2. outputs' \subseteq 0 .. f.total
    <3>1. outputs \subseteq 0 .. f.total /\ Len(report) + 1 \in 0 .. f.total
      BY <1>1, <1>2 DEF CtsInv, CtsTypes
    <3>2. outputs' \subseteq outputs \cup {Len(report) + 1}
      BY <1>2
    <3> QED BY <3>1, <3>2
  <2>3. maker' \in {"idle", "next", "running", "truncated", "done", "failed"}
    BY <2>1
  <2>4. CtsTypes(f)
    BY DEF CtsInv
  <2> QED BY <2>1, <2>2, <2>3, <2>4 DEF CtsTypes
<1>4. CtsRunsOnce(f)' /\ CtsFileTrue' /\ CtsEarned(f)'
  BY <1>1, <1>2 DEF CtsInv, CtsRunsOnce, CtsIsOfOutputs, CtsFileTrue, CtsEarned
<1> QED BY <1>3, <1>4 DEF CtsInv

(* The outcome of a run is settled while it has none; nobody checks then.  *)
LEMMA CtsSettles ==
  ASSUME NEW f \in Forms, CtsInv(f), Cts(f)!Compares
  PROVE  /\ Len(report) \in Nat /\ Len(report) + 1 \in 1 .. f.total
         /\ Len(report) + 1 \in outputs /\ outcome[Len(report) + 1] = "none"
         /\ \E o \in CtsResults : /\ report' = Append(report, o)
                                  /\ outcome' = [outcome EXCEPT ![Len(report) + 1] = o]
         /\ file' = [state |-> "partial", runs |-> <<>>] /\ maker' = "truncated"
         /\ waiter \notin {"checking", "passed"}
         /\ UNCHANGED <<outputs, waiter>>
<1>1. /\ Len(report) \in Nat /\ Len(report) + 1 \in 1 .. f.total
      /\ Len(report) + 1 \in outputs /\ outcome[Len(report) + 1] = "none"
      /\ maker' = "truncated" /\ UNCHANGED <<outputs, waiter>>
      /\ file' = [state |-> "partial", runs |-> <<>>]
  BY DEF Cts!Compares, Cts!Partial, CtsInv, CtsTypes, CtsRunsOnce
<1>2. \E o \in CtsResults : /\ report' = Append(report, o)
                            /\ outcome' = [outcome EXCEPT ![Len(report) + 1] = o]
  BY DEF Cts!Compares, Cts!Number, Cts!Outcomes, CtsResults
<1>3. waiter \notin {"checking", "passed"}
  BY <1>1 DEF CtsInv, CtsEarned
<1> QED BY <1>1, <1>2, <1>3

LEMMA CtsCompares ==
  ASSUME NEW f \in Forms, CtsInv(f), Cts(f)!Compares
  PROVE  CtsInv(f)'
<1>1. f.total \in Nat \ {0}
  BY FormsAssumption
<1>2. /\ Len(report) \in Nat /\ Len(report) + 1 \in 1 .. f.total
      /\ Len(report) + 1 \in outputs /\ outcome[Len(report) + 1] = "none"
      /\ file' = [state |-> "partial", runs |-> <<>>] /\ maker' = "truncated"
      /\ waiter \notin {"checking", "passed"}
      /\ UNCHANGED <<outputs, waiter>>
  BY CtsSettles
<1>3. PICK o \in CtsResults : /\ report' = Append(report, o)
                              /\ outcome' = [outcome EXCEPT ![Len(report) + 1] = o]
  BY CtsSettles
<1>4. /\ report' \in Seq(CtsResults) /\ Len(report') = Len(report) + 1
      /\ report'[Len(report) + 1] = o
      /\ \A n \in 1 .. Len(report) : report'[n] = report[n]
  BY <1>3 DEF CtsInv, CtsTypes
<1>5. /\ outcome' \in [1 .. f.total -> CtsResults \cup {"none"}]
      /\ outcome'[Len(report) + 1] = o
      /\ \A n \in 1 .. f.total : n # Len(report) + 1 => outcome'[n] = outcome[n]
  BY <1>2, <1>3 DEF CtsInv, CtsTypes
<1>6. CtsTypes(f)'
  BY <1>1, <1>2, <1>4, <1>5 DEF CtsInv, CtsTypes
<1>7. \A n \in 1 .. Len(report') : n \in outputs' /\ report'[n] = outcome'[n]
  BY <1>2, <1>4, <1>5 DEF CtsInv, CtsTypes, CtsRunsOnce, CtsIsOfOutputs
<1>8. CtsRunsOnce(f)'
  BY <1>2, <1>4, <1>5, <1>7 DEF CtsInv, CtsRunsOnce, CtsIsOfOutputs
<1>9. CtsFileTrue' /\ CtsEarned(f)'
  BY <1>2 DEF CtsFileTrue, CtsEarned
<1> QED BY <1>6, <1>8, <1>9 DEF CtsInv

(* The file becomes the list.                                              *)
LEMMA CtsWrites ==
  ASSUME NEW f \in Forms, CtsInv(f), Cts(f)!Writes
  PROVE  CtsInv(f)'
<1>1. /\ Len(report) > 0 /\ file' = [state |-> "written", runs |-> report]
      /\ maker' \in {"failed", "done", "next"}
      /\ UNCHANGED <<report, outputs, waiter, outcome>>
  BY DEF Cts!Writes, Cts!Written, CtsInv, CtsRunsOnce
<1>2. CtsTypes(f)'
  BY <1>1 DEF CtsInv, CtsTypes
<1>3. CtsRunsOnce(f)' /\ CtsEarned(f)'
  BY <1>1 DEF CtsInv, CtsRunsOnce, CtsIsOfOutputs, CtsEarned
<1>4. CtsFileTrue'
  BY <1>1 DEF CtsInv, CtsRunsOnce, CtsIsOfOutputs, CtsFileTrue
<1> QED BY <1>2, <1>3, <1>4 DEF CtsInv

LEMMA CtsFails ==
  ASSUME NEW f \in Forms, CtsInv(f), Cts(f)!CtsFails \/ Cts(f)!MakerDies
  PROVE  CtsInv(f)'
<1>1. maker' = "failed" /\ UNCHANGED <<report, outputs, file, waiter, outcome>>
  BY DEF Cts!CtsFails, Cts!MakerDies
<1>2. CtsTypes(f)'
  BY <1>1 DEF CtsInv, CtsTypes
<1>3. CtsRunsOnce(f)' /\ CtsFileTrue' /\ CtsEarned(f)'
  BY <1>1 DEF CtsInv, CtsRunsOnce, CtsIsOfOutputs, CtsFileTrue, CtsEarned
<1> QED BY <1>2, <1>3 DEF CtsInv

(* What a readable file allows.                                            *)
LEMMA CtsVerdict ==
  ASSUME NEW f \in Forms, CtsInv(f), file.state = "written"
  PROVE  /\ Cts(f)!Verdict(file.runs) \in {"waiting", "checking", "refused"}
         /\ Cts(f)!Verdict(file.runs) = "checking" =>
              \A n \in 1 .. f.total :
                outcome[n] \in (IF f.exact THEN {"same"} ELSE {"same", "gain"})
<1>1. /\ file.runs \in Seq(CtsResults)
      /\ \A n \in 1 .. Len(file.runs) : file.runs[n] = outcome[n]
  BY DEF CtsInv, CtsTypes, CtsFileTrue, CtsIsOfOutputs
<1>2. Cts(f)!Verdict(file.runs) \in {"waiting", "checking", "refused"}
  BY DEF Cts!Verdict
<1>3. ASSUME Cts(f)!Verdict(file.runs) = "checking", NEW n \in 1 .. f.total
      PROVE  outcome[n] \in (IF f.exact THEN {"same"} ELSE {"same", "gain"})
  <2>1. Len(file.runs) = f.total /\ DOMAIN file.runs = 1 .. f.total
    BY <1>1, <1>3 DEF Cts!Verdict
  <2>2. file.runs[n] = outcome[n] /\ file.runs[n] \in CtsResults
    BY <1>1, <2>1
  <2>3. CASE f.exact
    BY <1>3, <2>1, <2>2, <2>3 DEF Cts!Verdict, Cts!Changed
  <2>4. CASE ~ f.exact
    BY <1>3, <2>1, <2>2, <2>4 DEF Cts!Verdict, Cts!Regressed, CtsResults
  <2> QED BY <2>3, <2>4
<1> QED BY <1>2, <1>3

LEMMA CtsWaiter ==
  ASSUME NEW f \in Forms, CtsInv(f), Cts(f)!Waiter
  PROVE  CtsInv(f)'
<1>1. UNCHANGED <<maker, report, outputs, file, outcome>>
  BY DEF Cts!Waiter, Cts!WaiterStarts, Cts!Polls, Cts!GivesUp, Cts!ChecksEnd, Cts!WaiterDies, Cts!made
<1>2. /\ waiter' \in {"waiting", "checking", "passed", "refused", "died"}
      /\ CtsEarned(f)'
  <2>1. CASE Cts(f)!Polls
    <3>1. CASE file.state = "written"
      BY <1>1, <2>1, <3>1, CtsVerdict DEF Cts!Polls, CtsEarned
    <3>2. CASE file.state # "written"
      BY <2>1, <3>2 DEF Cts!Polls, Cts!Unreadable, CtsEarned
    <3> QED BY <3>1, <3>2
  <2>2. CASE Cts(f)!ChecksEnd
    BY <1>1, <2>2 DEF Cts!ChecksEnd, CtsInv, CtsEarned
  <2>3. CASE Cts(f)!WaiterStarts \/ Cts(f)!GivesUp \/ Cts(f)!WaiterDies
    BY <2>3 DEF Cts!WaiterStarts, Cts!GivesUp, Cts!WaiterDies, CtsEarned
  <2> QED BY <2>1, <2>2, <2>3 DEF Cts!Waiter
<1>3. CtsTypes(f)'
  BY <1>1, <1>2 DEF CtsInv, CtsTypes
<1>4. CtsRunsOnce(f)' /\ CtsFileTrue'
  BY <1>1 DEF CtsInv, CtsRunsOnce, CtsIsOfOutputs, CtsFileTrue
<1> QED BY <1>2, <1>3, <1>4 DEF CtsInv

LEMMA CtsStep ==
  ASSUME NEW f \in Forms, CtsInv(f), Cts(f)!Next
  PROVE  CtsInv(f)'
BY CtsStarts, CtsRuns, CtsCompares, CtsWrites, CtsFails, CtsWaiter DEF Cts!Next, Cts!Maker

LEMMA CtsSame ==
  ASSUME NEW f \in Forms, CtsInv(f), UNCHANGED <<cts, report, file>>
  PROVE  CtsInv(f)'
<1>1. UNCHANGED <<maker, report, outputs, file, waiter, outcome>>
  BY DEF cts
<1>2. CtsTypes(f)'
  BY <1>1 DEF CtsInv, CtsTypes
<1>3. CtsRunsOnce(f)' /\ CtsFileTrue' /\ CtsEarned(f)'
  BY <1>1 DEF CtsInv, CtsRunsOnce, CtsIsOfOutputs, CtsFileTrue, CtsEarned
<1> QED BY <1>2, <1>3 DEF CtsInv

LEMMA CtsGoal ==
  ASSUME NEW f \in Forms, CtsInv(f)
  PROVE  Cts(f)!TypeOK /\ Cts(f)!ChecksAreEarned /\ Cts(f)!FileIsTheOutcome
<1>1. f.total \in Nat \ {0}
  BY FormsAssumption
<1>2. Cts(f)!TypeOK
  BY <1>1, CtsListTypes DEF CtsInv, CtsTypes, CtsResults, Cts!TypeOK, Cts!Outcomes
<1>3. Cts(f)!ChecksAreEarned
  BY DEF CtsInv, CtsEarned, Cts!ChecksAreEarned
<1>4. Cts(f)!FileIsTheOutcome
  BY DEF CtsInv, CtsTypes, CtsFileTrue, CtsIsOfOutputs, Cts!FileIsTheOutcome
<1> QED BY <1>2, <1>3, <1>4

(* The only step that settles an outcome settles one that was open.        *)
LEMMA CtsNeverAgain ==
  ASSUME NEW f \in Forms, CtsInv(f), Cts(f)!Next
  PROVE  Cts(f)!RegressionStays /\ (f.tolerant => Cts(f)!PollSurvives)
<1>1. Cts(f)!RegressionStays
  <2>1. CASE Cts(f)!Compares
    <3>1. PICK o \in CtsResults : outcome' = [outcome EXCEPT ![Len(report) + 1] = o]
      BY <2>1, CtsSettles
    <3>2. outcome[Len(report) + 1] = "none"
      BY <2>1, CtsSettles
    <3> QED BY <3>1, <3>2 DEF CtsInv, CtsTypes, Cts!RegressionStays
  <2>2. CASE ~ Cts(f)!Compares
    <3>1. outcome' = outcome
      BY <2>2 DEF Cts!Next, Cts!Maker, Cts!Waiter, Cts!Starts, Cts!RunsCts, Cts!CtsFails, Cts!Writes,
         Cts!MakerDies, Cts!WaiterStarts, Cts!Polls, Cts!GivesUp, Cts!ChecksEnd, Cts!WaiterDies
    <3> QED BY <3>1 DEF Cts!RegressionStays
  <2> QED BY <2>1, <2>2
<1>2. ASSUME f.tolerant PROVE Cts(f)!PollSurvives
  <2>1. CASE file.state = "written"
    BY <2>1, CtsVerdict DEF Cts!PollSurvives, Cts!Polls
  <2>2. CASE file.state # "written"
    BY <1>2, <2>2 DEF Cts!PollSurvives, Cts!Polls, Cts!Unreadable
  <2> QED BY <2>1, <2>2
<1> QED BY <1>1, <1>2

-----------------------------------------------------------------------------
(* The plan of a series: OracleSeries                                      *)

PlanModes ==
  {"positive", "lifetime", "simultaneous", "poll-availability", "early-copy-control",
   "allocation-failure", "premature-control", "empty-outside"}

PlanRuns(s) ==
  [on : {s.labels[l].name : l \in 1 .. Len(s.labels)}, secondary : BOOLEAN, mode : PlanModes,
   control : BOOLEAN]

(* A run of a label.                                                       *)
LEMMA PlanRun ==
  ASSUME NEW s \in Series, NEW l \in 1 .. Len(s.labels), NEW b \in BOOLEAN, NEW m \in PlanModes
  PROVE  /\ Oracle(s)!Run(s.labels[l], b, m) \in PlanRuns(s)
         /\ Oracle(s)!Run(s.labels[l], b, m).on = s.labels[l].name
         /\ Oracle(s)!Run(s.labels[l], b, m).control <=> m \in {"early-copy-control", "premature-control"}
<1>1. Oracle(s)!Run(s.labels[l], b, m) =
        [on |-> s.labels[l].name, secondary |-> b, mode |-> m,
         control |-> m \in {"early-copy-control", "premature-control"}]
  BY DEF Oracle!Run
<1>2. s.labels[l].name \in {s.labels[k].name : k \in 1 .. Len(s.labels)}
  OBVIOUS
<1>3. (m \in {"early-copy-control", "premature-control"}) \in BOOLEAN
  OBVIOUS
<1> DEFINE c == m \in {"early-copy-control", "premature-control"}
           r == [on |-> s.labels[l].name, secondary |-> b, mode |-> m, control |-> c]
<1>4. r \in PlanRuns(s)
  <2>1. \A d \in BOOLEAN :
          [on |-> s.labels[l].name, secondary |-> b, mode |-> m, control |-> d] \in PlanRuns(s)
    BY <1>2 DEF PlanRuns
  <2> HIDE DEF PlanRuns
  <2> QED BY <1>3, <2>1, Zenon
<1>5. r.on = s.labels[l].name /\ r.control = c
  BY Zenon
<1> HIDE DEF r
<1> QED BY <1>1, <1>4, <1>5, Zenon DEF r

(* The loop over the five modes.                                           *)
PlanNext(label, i, kept) ==
  LET m == <<"positive", "lifetime", "simultaneous", "poll-availability", "early-copy-control">>[i]
  IN IF m \in label.skips THEN kept ELSE Append(kept, m)

LEMMA PlanKeeps ==
  ASSUME NEW s, NEW label
  PROVE  Oracle(s)!Kept(label) =
           PlanNext(label, 5, PlanNext(label, 4, PlanNext(label, 3,
             PlanNext(label, 2, PlanNext(label, 1, <<>>)))))
<1> DEFINE K(g) == g = [i \in 0 .. 5 |-> IF i = 0 THEN <<>> ELSE PlanNext(label, i, g[i - 1])]
           k1 == PlanNext(label, 1, <<>>)
           k2 == PlanNext(label, 2, k1)
           k3 == PlanNext(label, 3, k2)
           k4 == PlanNext(label, 4, k3)
           k5 == PlanNext(label, 5, k4)
           f == [i \in 0 .. 5 |-> IF i = 0 THEN <<>> ELSE IF i = 1 THEN k1 ELSE IF i = 2 THEN k2
                                  ELSE IF i = 3 THEN k3 ELSE IF i = 4 THEN k4 ELSE k5]
<1>1. Oracle(s)!Kept(label) = (CHOOSE g : K(g))[5]
  BY DEF Oracle!Kept, Oracle!Modes, PlanNext
<1> HIDE DEF k1, k2, k3, k4, k5
<1>2. K(f)
  <2>1. \A i \in 0 .. 5 : f[i] = IF i = 0 THEN <<>> ELSE PlanNext(label, i, f[i - 1])
    BY DEF k1, k2, k3, k4, k5
  <2> QED BY <2>1
<1> HIDE DEF f, K
<1>3. PICK g : g = (CHOOSE h : K(h)) /\ K(g)
  BY <1>2
<1>4. \A i \in 0 .. 5 : g[i] = IF i = 0 THEN <<>> ELSE PlanNext(label, i, g[i - 1])
  BY <1>3 DEF K
<1>5. g[0] = <<>> /\ g[1] = PlanNext(label, 1, g[0]) /\ g[2] = PlanNext(label, 2, g[1])
  BY <1>4
<1>6. g[3] = PlanNext(label, 3, g[2]) /\ g[4] = PlanNext(label, 4, g[3]) /\ g[5] = PlanNext(label, 5, g[4])
  BY <1>4
<1> QED BY <1>1, <1>3, <1>5, <1>6

LEMMA PlanKept ==
  ASSUME NEW s, NEW label
  PROVE  /\ Oracle(s)!Kept(label) \in Seq(PlanModes)
         /\ label.skips \cap {"positive", "early-copy-control"} = {} =>
              /\ Len(Oracle(s)!Kept(label)) > 1
              /\ Oracle(s)!Kept(label)[1] = "positive"
              /\ Oracle(s)!Kept(label)[Len(Oracle(s)!Kept(label))] = "early-copy-control"
<1>1. ASSUME NEW i \in 1 .. 5, NEW k \in Seq(PlanModes)
      PROVE  /\ PlanNext(label, i, k) \in Seq(PlanModes)
             /\ Len(PlanNext(label, i, k)) >= Len(k)
             /\ \A j \in 1 .. Len(k) : PlanNext(label, i, k)[j] = k[j]
  <2> DEFINE m == <<"positive", "lifetime", "simultaneous", "poll-availability", "early-copy-control">>[i]
  <2>1. m \in PlanModes
    BY DEF PlanModes
  <2>2. PlanNext(label, i, k) = IF m \in label.skips THEN k ELSE Append(k, m)
    BY DEF PlanNext
  <2> HIDE DEF m
  <2>3. /\ Append(k, m) \in Seq(PlanModes) /\ Len(Append(k, m)) = Len(k) + 1 /\ Len(k) \in Nat
        /\ \A j \in 1 .. Len(k) : Append(k, m)[j] = k[j]
    BY <2>1
  <2>4. CASE m \in label.skips
    BY <2>2, <2>3, <2>4
  <2>5. CASE m \notin label.skips
    BY <2>2, <2>3, <2>5
  <2> QED BY <2>4, <2>5
<1> DEFINE k1 == PlanNext(label, 1, <<>>)
           k2 == PlanNext(label, 2, k1)
           k3 == PlanNext(label, 3, k2)
           k4 == PlanNext(label, 4, k3)
           k5 == PlanNext(label, 5, k4)
<1>2. <<>> \in Seq(PlanModes)
  OBVIOUS
<1>3. k1 \in Seq(PlanModes)
  <2> DEFINE k0 == <<>>
  <2>1. k1 = PlanNext(label, 1, k0) /\ k0 \in Seq(PlanModes)
    OBVIOUS
  <2> HIDE DEF k0, k1
  <2> QED BY <1>1, <2>1
<1> HIDE DEF k1
<1>4. k2 \in Seq(PlanModes) /\ Len(k2) >= Len(k1) /\ \A j \in 1 .. Len(k1) : k2[j] = k1[j]
  BY <1>1, <1>3
<1> HIDE DEF k2
<1>5. k3 \in Seq(PlanModes) /\ Len(k3) >= Len(k2) /\ \A j \in 1 .. Len(k2) : k3[j] = k2[j]
  BY <1>1, <1>4
<1> HIDE DEF k3
<1>6. k4 \in Seq(PlanModes) /\ Len(k4) >= Len(k3) /\ \A j \in 1 .. Len(k3) : k4[j] = k3[j]
  BY <1>1, <1>5
<1> HIDE DEF k4
<1>7. k5 \in Seq(PlanModes) /\ Len(k5) >= Len(k4) /\ \A j \in 1 .. Len(k4) : k5[j] = k4[j]
  BY <1>1, <1>6
<1>8. ASSUME label.skips \cap {"positive", "early-copy-control"} = {}
      PROVE  /\ k1 = <<"positive">>
             /\ k5 = Append(k4, "early-copy-control")
  BY <1>2, <1>8 DEF k1, PlanNext
<1>9. ASSUME label.skips \cap {"positive", "early-copy-control"} = {}
      PROVE  Len(k5) > 1 /\ k5[1] = "positive" /\ k5[Len(k5)] = "early-copy-control"
  <2>1. Len(k1) = 1 /\ k1[1] = "positive"
    BY <1>8, <1>9
  <2>2. Len(k4) \in Nat /\ Len(k4) >= 1 /\ k4[1] = "positive"
    BY <2>1, <1>3, <1>4, <1>5, <1>6
  <2>3. /\ Len(k5) = Len(k4) + 1 /\ k5[Len(k5)] = "early-copy-control"
        /\ k5[1] = k4[1]
    BY <1>6, <1>8, <1>9, <2>2
  <2> QED BY <2>2, <2>3
<1> QED BY <1>7, <1>9, PlanKeeps DEF k1, k2, k3, k4

(* A sweep: twice the modes that are kept.                                 *)
LEMMA PlanSweep ==
  ASSUME NEW s \in Series, NEW l \in 1 .. Len(s.labels)
  PROVE  /\ Oracle(s)!Sweep(s.labels[l]) \in Seq(PlanRuns(s))
         /\ \A i \in 1 .. Len(Oracle(s)!Sweep(s.labels[l])) :
              Oracle(s)!Sweep(s.labels[l])[i].on = s.labels[l].name
         /\ s.labels[l].skips \cap {"positive", "early-copy-control"} = {} =>
              \E i \in 1 .. Len(Oracle(s)!Sweep(s.labels[l])) :
                /\ i > 1 /\ Oracle(s)!Sweep(s.labels[l])[i].control
                /\ ~ Oracle(s)!Sweep(s.labels[l])[1].control
<1> DEFINE label == s.labels[l]
           some == Oracle(s)!Kept(label)
           first == [i \in 1 .. Len(some) |-> Oracle(s)!Run(label, FALSE, some[i])]
           second == [i \in 1 .. Len(some) |-> Oracle(s)!Run(label, TRUE, some[i])]
<1>1. Oracle(s)!Sweep(label) = first \o second
  BY DEF Oracle!Sweep
<1>2. some \in Seq(PlanModes)
  BY PlanKept
<1>3. Len(some) \in Nat /\ \A i \in 1 .. Len(some) : some[i] \in PlanModes
  BY <1>2
<1>4. \A i \in 1 .. Len(some) : first[i] \in PlanRuns(s) /\ second[i] \in PlanRuns(s)
  BY <1>3, PlanRun
<1>5. \A i \in 1 .. Len(some) : first[i].on = label.name /\ second[i].on = label.name
  BY <1>3, PlanRun
<1>6. first \in Seq(PlanRuns(s)) /\ second \in Seq(PlanRuns(s))
  <2>1. first = [i \in 1 .. Len(some) |-> first[i]] /\ second = [i \in 1 .. Len(some) |-> second[i]]
    OBVIOUS
  <2> HIDE DEF first, second
  <2> QED BY <1>3, <1>4, <2>1, ListOf
<1>7. Len(first) = Len(some) /\ Len(second) = Len(some)
  BY <1>3
<1>8. label.skips \cap {"positive", "early-copy-control"} = {} =>
        Len(some) > 1 /\ first[Len(some)].control /\ ~ first[1].control
  <2> SUFFICES ASSUME label.skips \cap {"positive", "early-copy-control"} = {}
               PROVE  Len(some) > 1 /\ first[Len(some)].control /\ ~ first[1].control
    OBVIOUS
  <2>1. Len(some) > 1 /\ some[1] = "positive" /\ some[Len(some)] = "early-copy-control"
    BY PlanKept
  <2>2. /\ first[1] = Oracle(s)!Run(label, FALSE, "positive")
        /\ first[Len(some)] = Oracle(s)!Run(label, FALSE, "early-copy-control")
    <3>1. 1 \in 1 .. Len(some) /\ Len(some) \in 1 .. Len(some)
      BY <1>3, <2>1
    <3>2. first[1] = Oracle(s)!Run(label, FALSE, some[1]) /\ first[Len(some)] = Oracle(s)!Run(label, FALSE, some[Len(some)])
      BY <3>1
    <3> QED BY <2>1, <3>2
  <2>3. "positive" \in PlanModes /\ "early-copy-control" \in PlanModes
    BY DEF PlanModes
  <2>4. /\ ~ Oracle(s)!Run(label, FALSE, "positive").control
        /\ Oracle(s)!Run(label, FALSE, "early-copy-control").control
    BY <2>3, PlanRun
  <2> HIDE DEF first
  <2> QED BY <2>1, <2>2, <2>4
<1> HIDE DEF first, second, some, label
<1>9. /\ first \o second \in Seq(PlanRuns(s)) /\ Len(first \o second) = Len(some) + Len(some)
      /\ \A i \in 1 .. Len(some) : (first \o second)[i] = first[i]
      /\ \A i \in Len(some) + 1 .. Len(some) + Len(some) : (first \o second)[i] = second[i - Len(some)]
  BY <1>3, <1>6, <1>7
<1>10. \A i \in 1 .. Len(first \o second) : (first \o second)[i].on = label.name
  <2> SUFFICES ASSUME NEW i \in 1 .. Len(some) + Len(some) PROVE (first \o second)[i].on = label.name
    BY <1>9
  <2>1. CASE i \in 1 .. Len(some)
    BY <1>5, <1>9, <2>1
  <2>2. CASE i \in Len(some) + 1 .. Len(some) + Len(some)
    <3>1. i - Len(some) \in 1 .. Len(some)
      BY <1>3, <2>2
    <3> QED BY <1>5, <1>9, <2>2, <3>1
  <2>3. i \in 1 .. Len(some) \/ i \in Len(some) + 1 .. Len(some) + Len(some)
    BY <1>3
  <2> QED BY <2>1, <2>2, <2>3
<1>11. label.skips \cap {"positive", "early-copy-control"} = {} =>
         \E i \in 1 .. Len(first \o second) :
            i > 1 /\ (first \o second)[i].control /\ ~ (first \o second)[1].control
  <2> SUFFICES ASSUME Len(some) > 1, first[Len(some)].control, ~ first[1].control
               PROVE  \E i \in 1 .. Len(first \o second) :
                         i > 1 /\ (first \o second)[i].control /\ ~ (first \o second)[1].control
    BY <1>8
  <2>1. 1 \in 1 .. Len(some) /\ Len(some) \in 1 .. Len(some) /\ Len(some) \in 1 .. Len(first \o second)
    BY <1>3, <1>9
  <2>2. (first \o second)[1] = first[1] /\ (first \o second)[Len(some)] = first[Len(some)]
    BY <1>9, <2>1
  <2> QED BY <2>1, <2>2
<1> QED BY <1>1, <1>9, <1>10, <1>11 DEF label

LEMMA PlanRounds ==
  ASSUME NEW s \in Series, NEW l \in 1 .. Len(s.labels)
  PROVE  /\ Oracle(s)!Rounds(s.labels[l]) \in Seq(PlanRuns(s))
         /\ \A i \in 1 .. Len(Oracle(s)!Rounds(s.labels[l])) :
              Oracle(s)!Rounds(s.labels[l])[i].on = s.labels[l].name
<1> DEFINE label == s.labels[l]
           n == IF label.enabled THEN 4 * s.repeats ELSE 0
           some == Oracle(s)!Rounds(label)
           round == Oracle(s)!Round(label)
<1>1. n \in Nat
  BY SeriesAssumption
<1>2. \A i \in 1 .. 4 : round[i] \in PlanRuns(s) /\ round[i].on = label.name
  <2>1. /\ round[1] = Oracle(s)!Run(label, FALSE, "allocation-failure")
        /\ round[2] = Oracle(s)!Run(label, FALSE, "premature-control")
        /\ round[3] = Oracle(s)!Run(label, TRUE, "allocation-failure")
        /\ round[4] = Oracle(s)!Run(label, TRUE, "premature-control")
    BY DEF Oracle!Round
  <2>2. "allocation-failure" \in PlanModes /\ "premature-control" \in PlanModes
    BY DEF PlanModes
  <2>3. \A i \in 1 .. 4 : i = 1 \/ i = 2 \/ i = 3 \/ i = 4
    OBVIOUS
  <2> HIDE DEF round, label
  <2>4. \A b \in BOOLEAN, m \in PlanModes :
          /\ Oracle(s)!Run(label, b, m) \in PlanRuns(s) /\ Oracle(s)!Run(label, b, m).on = label.name
    BY PlanRun DEF label
  <2> QED BY <2>1, <2>2, <2>3, <2>4
<1>3. some = [i \in 1 .. n |-> round[((i - 1) % 4) + 1]]
  BY DEF Oracle!Rounds
<1> HIDE DEF round, n, some
<1>4. \A i \in 1 .. n : ((i - 1) % 4) + 1 \in 1 .. 4
  BY <1>1
<1>5. \A i \in 1 .. n : some[i] \in PlanRuns(s) /\ some[i].on = label.name
  BY <1>2, <1>3, <1>4
<1>6. some \in Seq(PlanRuns(s)) /\ Len(some) = n
  BY <1>1, <1>3, <1>5, SeqDef
<1> QED BY <1>1, <1>5, <1>6 DEF some, label

LEMMA PlanSteps ==
  ASSUME NEW s \in Series, NEW l \in 1 .. Len(s.labels)
  PROVE  /\ Oracle(s)!StepsOf(s.labels[l]) \in Seq(PlanRuns(s))
         /\ \A i \in 1 .. Len(Oracle(s)!StepsOf(s.labels[l])) :
              Oracle(s)!StepsOf(s.labels[l])[i].on = s.labels[l].name
         /\ l = 1 =>
              /\ 1 \in 1 .. Len(Oracle(s)!StepsOf(s.labels[l]))
              /\ ~ Oracle(s)!StepsOf(s.labels[l])[1].control
              /\ s.final => \E i \in 1 .. Len(Oracle(s)!StepsOf(s.labels[l])) :
                              Oracle(s)!StepsOf(s.labels[l])[i].control
<1> DEFINE label == s.labels[l]
           sweep == Oracle(s)!Sweep(label)
           rounds == Oracle(s)!Rounds(label)
           one == Oracle(s)!Run(label, FALSE, "empty-outside")
<1>1. Oracle(s)!StepsOf(label) = IF s.final THEN sweep \o rounds ELSE <<one>>
  BY DEF Oracle!StepsOf
<1>2. /\ sweep \in Seq(PlanRuns(s))
      /\ \A i \in 1 .. Len(sweep) : sweep[i].on = label.name
      /\ l = 1 => \E i \in 1 .. Len(sweep) : i > 1 /\ sweep[i].control /\ ~ sweep[1].control
  BY PlanSweep, SeriesAssumption
<1>3. rounds \in Seq(PlanRuns(s)) /\ \A i \in 1 .. Len(rounds) : rounds[i].on = label.name
  BY PlanRounds
<1>4. one \in PlanRuns(s) /\ one.on = label.name /\ ~ one.control
  <2>1. "empty-outside" \in PlanModes
    BY DEF PlanModes
  <2>2. "empty-outside" \notin {"early-copy-control", "premature-control"}
    OBVIOUS
  <2> QED BY <2>1, <2>2, PlanRun
<1> HIDE DEF sweep, rounds, one
<1>5. CASE ~ s.final
  <2>1. Len(<<one>>) = 1 /\ <<one>>[1] = one /\ <<one>> \in Seq(PlanRuns(s))
    BY <1>4
  <2> QED BY <1>1, <1>4, <1>5, <2>1
<1>6. CASE s.final
  <2>1. /\ sweep \o rounds \in Seq(PlanRuns(s))
        /\ Len(sweep \o rounds) = Len(sweep) + Len(rounds) /\ Len(sweep) \in Nat /\ Len(rounds) \in Nat
        /\ \A i \in 1 .. Len(sweep) : (sweep \o rounds)[i] = sweep[i]
        /\ \A i \in Len(sweep) + 1 .. Len(sweep) + Len(rounds) :
             (sweep \o rounds)[i] = rounds[i - Len(sweep)]
    BY <1>2, <1>3
  <2>2. \A i \in 1 .. Len(sweep \o rounds) : (sweep \o rounds)[i].on = label.name
    BY <1>2, <1>3, <2>1
  <2>3. l = 1 => \E i \in 1 .. Len(sweep \o rounds) :
                   i > 1 /\ (sweep \o rounds)[i].control /\ ~ (sweep \o rounds)[1].control
    BY <1>2, <2>1
  <2> QED BY <1>1, <1>6, <2>1, <2>2, <2>3
<1> QED BY <1>5, <1>6

(* The labels, one after the other.                                        *)
Joined(p, q) == p \o q

LEMMA PlanUpto ==
  ASSUME NEW s \in Series
  PROVE  \E upto : /\ Oracle(s)!Upto = upto
                   /\ upto[0] = <<>>
                   /\ \A l \in 1 .. Len(s.labels) :
                        upto[l] = Joined(upto[l - 1], Oracle(s)!StepsOf(s.labels[l]))
<1> DEFINE N == Len(s.labels)
           St(l) == Oracle(s)!StepsOf(s.labels[l])
           empty == <<>>
           Solves(f, n) == f = [l \in 0 .. n |-> IF l = 0 THEN empty ELSE Joined(f[l - 1], St(l))]
           Can == {n \in Nat : \E f : Solves(f, n)}
<1>1. N \in Nat
  BY SeriesAssumption
<1>2. Oracle(s)!Upto = CHOOSE f : Solves(f, N)
  BY DEF Oracle!Upto, Joined
<1> HIDE DEF N, St, empty
<1>3. 0 \in Can
  <2> DEFINE f == [l \in 0 .. 0 |-> empty]
  <2>1. Solves(f, 0)
    OBVIOUS
  <2> QED BY <2>1
<1>4. ASSUME NEW n \in Nat, n \in Can PROVE n + 1 \in Can
  <2>1. PICK f : Solves(f, n)
    BY <1>4
  <2> DEFINE g == [l \in 0 .. n + 1 |-> IF l = n + 1 THEN Joined(f[n], St(n + 1)) ELSE f[l]]
  <2>2. \A l \in 0 .. n : f[l] = IF l = 0 THEN empty ELSE Joined(f[l - 1], St(l))
    BY <2>1
  <2>3. \A l \in 0 .. n + 1 : g[l] = IF l = 0 THEN empty ELSE Joined(g[l - 1], St(l))
    <3> SUFFICES ASSUME NEW l \in 0 .. n + 1
                 PROVE  g[l] = IF l = 0 THEN empty ELSE Joined(g[l - 1], St(l))
      OBVIOUS
    <3>1. CASE l = n + 1
      <4>1. g[n + 1] = Joined(f[n], St(n + 1)) /\ g[n] = f[n]
        OBVIOUS
      <4> QED BY <3>1, <4>1
    <3>2. CASE l \in 1 .. n
      <4>1. g[l] = f[l] /\ g[l - 1] = f[l - 1]
        BY <3>2
      <4>2. f[l] = Joined(f[l - 1], St(l))
        BY <2>2, <3>2
      <4> QED BY <3>2, <4>1, <4>2
    <3>3. CASE l = 0
      BY <2>2, <3>3
    <3> QED BY <3>1, <3>2, <3>3
  <2>4. Solves(g, n + 1)
    BY <2>3
  <2> HIDE DEF g, Solves
  <2> QED BY <2>4
<1>5. PICK f : Solves(f, N)
  <2> HIDE DEF Solves
  <2> QED BY <1>1, <1>3, <1>4, Numbers
<1>6. PICK upto : upto = Oracle(s)!Upto /\ Solves(upto, N)
  <2> HIDE DEF Solves
  <2> QED BY <1>2, <1>5
<1>7. \A l \in 0 .. N : upto[l] = IF l = 0 THEN empty ELSE Joined(upto[l - 1], St(l))
  BY <1>6
<1>8. upto[0] = empty
  BY <1>1, <1>7
<1>9. \A l \in 1 .. N : upto[l] = Joined(upto[l - 1], St(l))
  BY <1>1, <1>7
<1> QED BY <1>6, <1>8, <1>9 DEF N, St, empty

PlanFacts(s) ==
  /\ Len(Oracle(s)!Plan) \in Nat /\ DOMAIN Oracle(s)!Plan = 1 .. Len(Oracle(s)!Plan)
  /\ \A i \in 1 .. Len(Oracle(s)!Plan) : Oracle(s)!Plan[i].control \in BOOLEAN
  /\ \E i \in 1 .. Len(Oracle(s)!Plan) : ~ Oracle(s)!Plan[i].control
  /\ s.final => \E i \in 1 .. Len(Oracle(s)!Plan) :
       /\ Oracle(s)!Plan[i].control
       /\ \A j \in 1 .. i : Oracle(s)!Plan[j].on = s.labels[1].name

LEMMA PlanHasFacts ==
  ASSUME NEW s \in Series
  PROVE  PlanFacts(s)
<1> DEFINE N == Len(s.labels)
           first == Oracle(s)!StepsOf(s.labels[1])
           RunsOf == PlanRuns(s)
           Good(p) == /\ p \in Seq(RunsOf) /\ Len(p) >= Len(first)
                      /\ \A i \in 1 .. Len(first) : p[i] = first[i]
<1>1. N \in Nat \ {0} /\ 1 \in 1 .. N
  BY SeriesAssumption
<1>2. \A l \in 1 .. N : Oracle(s)!StepsOf(s.labels[l]) \in Seq(RunsOf)
  BY PlanSteps
<1>3. PICK upto : /\ Oracle(s)!Upto = upto
                  /\ upto[0] = <<>>
                  /\ \A l \in 1 .. N : upto[l] = Joined(upto[l - 1], Oracle(s)!StepsOf(s.labels[l]))
  BY PlanUpto
<1> DEFINE Done == {n \in Nat : n + 1 \in 1 .. N => Good(upto[n + 1])}
<1>4. 0 \in Done
  <2>1. upto[1] = Joined(upto[0], first)
    BY <1>1, <1>3
  <2>2. first \in Seq(RunsOf)
    BY <1>1, <1>2
  <2> HIDE DEF first, RunsOf
  <2>3. upto[1] = first /\ Len(first) \in Nat
    BY <1>3, <2>1, <2>2 DEF Joined
  <2> QED BY <2>2, <2>3
<1>5. ASSUME NEW n \in Nat, n \in Done PROVE n + 1 \in Done
  <2> SUFFICES ASSUME n + 2 \in 1 .. N PROVE Good(upto[n + 2])
    OBVIOUS
  <2> DEFINE more == Oracle(s)!StepsOf(s.labels[n + 2])
  <2>1. Good(upto[n + 1])
    BY <1>1, <1>5
  <2>2. upto[n + 2] = Joined(upto[n + 1], more)
    BY <1>1, <1>3
  <2>3. more \in Seq(RunsOf) /\ first \in Seq(RunsOf)
    BY <1>1, <1>2
  <2> HIDE DEF more, first, RunsOf
  <2> QED BY <2>1, <2>2, <2>3 DEF Joined
<1>6. N - 1 \in Done
  <2> HIDE DEF Done
  <2> QED BY <1>1, <1>4, <1>5, Numbers
<1>7. Good(upto[N])
  <2>1. N - 1 + 1 = N /\ N \in 1 .. N
    BY <1>1
  <2> QED BY <1>6, <2>1
<1>8. Oracle(s)!Plan = upto[N]
  BY <1>3 DEF Oracle!Plan
<1> DEFINE plan == Oracle(s)!Plan
<1>9. plan \in Seq(RunsOf) /\ Len(plan) >= Len(first) /\ \A i \in 1 .. Len(first) : plan[i] = first[i]
  BY <1>7, <1>8
<1>10. /\ first \in Seq(RunsOf)
       /\ \A i \in 1 .. Len(first) : first[i].on = s.labels[1].name
       /\ 1 \in 1 .. Len(first) /\ ~ first[1].control
       /\ s.final => \E i \in 1 .. Len(first) : first[i].control
  BY <1>1, PlanSteps
<1>11. \A r \in RunsOf : r.control \in BOOLEAN
  BY DEF PlanRuns
<1> HIDE DEF plan, first, RunsOf
<1>12. /\ Len(plan) \in Nat /\ DOMAIN plan = 1 .. Len(plan)
       /\ \A i \in 1 .. Len(plan) : plan[i] \in RunsOf
       /\ Len(first) \in Nat /\ \A i \in 1 .. Len(first) : i \in 1 .. Len(plan)
  BY <1>9, <1>10
<1>13. \E i \in 1 .. Len(plan) : ~ plan[i].control
  BY <1>9, <1>10, <1>12
<1>14. ASSUME s.final
       PROVE \E i \in 1 .. Len(plan) : plan[i].control /\ \A j \in 1 .. i : plan[j].on = s.labels[1].name
  <2>1. PICK i \in 1 .. Len(first) : first[i].control
    BY <1>10, <1>14
  <2>2. \A j \in 1 .. i : j \in 1 .. Len(first)
    BY <1>12, <2>1
  <2>3. plan[i].control /\ i \in 1 .. Len(plan)
    BY <1>9, <1>12, <2>1
  <2>4. \A j \in 1 .. i : plan[j].on = s.labels[1].name
    BY <1>9, <1>10, <2>2
  <2> QED BY <2>3, <2>4
<1> QED BY <1>11, <1>12, <1>13, <1>14 DEF PlanFacts, plan

-----------------------------------------------------------------------------
(* The series: OracleSeries                                                *)

OracleResult(s, i) == [run |-> Oracle(s)!Plan[i], ok |-> Oracle(s)!Ok(Oracle(s)!Plan[i])]

OracleTypes(s) ==
  /\ program \in {"works", "blind", "alarmist"}
  /\ wrong \in Oracle(s)!Tested \cup {<<"none", "none">>}
  /\ pc \in {"run", "truncated", "ended"}
  /\ step \in 0 .. Len(Oracle(s)!Plan)
  /\ report \in Seq({OracleResult(s, i) : i \in 1 .. Len(Oracle(s)!Plan)})
  /\ file = <<>> \/ file = report

(* The list is what came of the plan so far, and a surprise is its last.   *)
OracleLists(s) ==
  /\ Len(report) = step /\ \A i \in 1 .. step : report[i] = OracleResult(s, i)
  /\ \A i \in 1 .. step : i < step \/ pc = "run" => report[i].ok

OracleInv(s) == OracleTypes(s) /\ OracleLists(s)

LEMMA OracleInit ==
  ASSUME NEW s \in Series, Oracle(s)!Init
  PROVE  OracleInv(s)
<1>1. Len(Oracle(s)!Plan) \in Nat
  BY PlanHasFacts DEF PlanFacts
<1>2. /\ program \in {"works", "blind", "alarmist"}
      /\ wrong \in Oracle(s)!Tested \cup {<<"none", "none">>}
      /\ step = 0 /\ pc = "run" /\ report = <<>> /\ file = <<>>
  BY DEF Oracle!Init
<1>3. report \in Seq({OracleResult(s, i) : i \in 1 .. Len(Oracle(s)!Plan)}) /\ Len(report) = 0
  BY <1>2
<1>4. OracleTypes(s)
  BY <1>1, <1>2, <1>3 DEF OracleTypes
<1>5. OracleLists(s)
  BY <1>2, <1>3 DEF OracleLists
<1> QED BY <1>4, <1>5 DEF OracleInv

(* What a run comes to depends on the program and the driver only.         *)
LEMMA OracleResultStays ==
  ASSUME NEW s \in Series, UNCHANGED <<program, wrong>>
  PROVE  \A i : OracleResult(s, i)' = OracleResult(s, i)
BY DEF OracleResult, Oracle!Ok, Oracle!FindsFault

LEMMA OracleRuns ==
  ASSUME NEW s \in Series, OracleInv(s), Oracle(s)!Runs
  PROVE  OracleInv(s)'
<1> DEFINE n == Len(Oracle(s)!Plan)
           Results == {OracleResult(s, i) : i \in 1 .. n}
<1>1. n \in Nat /\ n' = n
  BY PlanHasFacts DEF PlanFacts
<1>2. /\ pc = "run" /\ step < n /\ step' = step + 1 /\ file' = <<>> /\ pc' = "truncated"
      /\ report' = Append(report, OracleResult(s, step + 1))
      /\ UNCHANGED <<program, wrong>>
  BY DEF Oracle!Runs, OracleResult
<1>3. step \in 0 .. n /\ report \in Seq(Results) /\ Len(report) = step
  BY DEF OracleInv, OracleTypes, OracleLists
<1>4. step + 1 \in 1 .. n /\ OracleResult(s, step + 1) \in Results
  BY <1>1, <1>2, <1>3
<1> HIDE DEF n, Results
<1>5. /\ report' \in Seq(Results) /\ Len(report') = step + 1
      /\ report'[step + 1] = OracleResult(s, step + 1)
      /\ \A i \in 1 .. step : report'[i] = report[i]
  BY <1>2, <1>3, <1>4
<1>6. \A i : OracleResult(s, i)' = OracleResult(s, i)
  BY <1>2, OracleResultStays
<1>7. Results' = Results
  BY <1>1, <1>6 DEF Results
<1>8. OracleTypes(s)'
  <2>1. wrong' \in Oracle(s)!Tested' \cup {<<"none", "none">>} /\ program' \in {"works", "blind", "alarmist"}
    BY <1>2 DEF OracleInv, OracleTypes
  <2>2. step' \in 0 .. n' /\ report' \in Seq(Results')
    BY <1>1, <1>2, <1>4, <1>5, <1>7
  <2> QED BY <1>2, <2>1, <2>2 DEF OracleTypes, n, Results
<1>9. OracleLists(s)'
  <2>1. \A i \in 1 .. step : report[i] = OracleResult(s, i) /\ report[i].ok
    BY <1>2 DEF OracleInv, OracleLists
  <2> QED BY <1>2, <1>3, <1>5, <1>6, <2>1 DEF OracleLists
<1> QED BY <1>8, <1>9 DEF OracleInv

LEMMA OracleOthers ==
  ASSUME NEW s \in Series, OracleInv(s),
         \/ Oracle(s)!RunHangs \/ Oracle(s)!Writes \/ Oracle(s)!Dies
         \/ UNCHANGED <<oracle, step, pc, report, file>>
  PROVE  OracleInv(s)'
<1>1. /\ UNCHANGED <<program, wrong, step, report>>
      /\ file' = file \/ file' = report
      /\ pc' \in {"run", "ended", pc}
      /\ pc' = "run" => pc = "run" \/ step = Len(Oracle(s)!Plan) \/ report[step].ok
  BY DEF Oracle!RunHangs, Oracle!Writes, Oracle!Dies, oracle
<1>2. pc' = "run" => pc = "run" \/ report[step].ok
  BY DEF Oracle!RunHangs, Oracle!Writes, Oracle!Dies, oracle
<1>3. \A i : OracleResult(s, i)' = OracleResult(s, i)
  BY <1>1, OracleResultStays
<1>4. OracleTypes(s)'
  <2>1. wrong' \in Oracle(s)!Tested' \cup {<<"none", "none">>} /\ program' \in {"works", "blind", "alarmist"}
    BY <1>1 DEF OracleInv, OracleTypes
  <2>2. step' \in 0 .. Len(Oracle(s)!Plan)' /\ pc' \in {"run", "truncated", "ended"}
    BY <1>1 DEF OracleInv, OracleTypes
  <2>3. report' \in Seq({OracleResult(s, i) : i \in 1 .. Len(Oracle(s)!Plan)}')
    BY <1>1, <1>3 DEF OracleInv, OracleTypes
  <2>4. file' = <<>> \/ file' = report'
    BY <1>1 DEF OracleInv, OracleTypes
  <2> QED BY <2>1, <2>2, <2>3, <2>4 DEF OracleTypes
<1>5. OracleLists(s)'
  <2>1. step \in Nat
    BY PlanHasFacts DEF PlanFacts, OracleInv, OracleTypes
  <2> QED BY <1>1, <1>2, <1>3, <2>1 DEF OracleInv, OracleLists
<1> QED BY <1>4, <1>5 DEF OracleInv

LEMMA OracleStep ==
  ASSUME NEW s \in Series, OracleInv(s), Oracle(s)!Next
  PROVE  OracleInv(s)'
BY OracleRuns, OracleOthers DEF Oracle!Next

LEMMA OracleSame ==
  ASSUME NEW s \in Series, OracleInv(s), UNCHANGED <<oracle, step, pc, report, file>>
  PROVE  OracleInv(s)'
BY OracleOthers

(* What is in the file is what came of the plan.                           *)
LEMMA OracleFile ==
  ASSUME NEW s \in Series, OracleInv(s)
  PROVE  /\ Len(file) \in 0 .. step /\ DOMAIN file = 1 .. Len(file)
         /\ \A i \in 1 .. Len(file) : file[i] = report[i] /\ file[i] = OracleResult(s, i)
         /\ DOMAIN report = 1 .. step /\ step \in 0 .. Len(Oracle(s)!Plan)
<1>1. step \in 0 .. Len(Oracle(s)!Plan) /\ Len(Oracle(s)!Plan) \in Nat
  BY PlanHasFacts DEF OracleInv, OracleTypes, PlanFacts
<1>2. DOMAIN report = 1 .. step /\ Len(report) = step
  BY DEF OracleInv, OracleTypes, OracleLists
<1>3. CASE file = report
  BY <1>1, <1>2, <1>3 DEF OracleInv, OracleLists
<1>4. CASE file = <<>>
  BY <1>1, <1>2, <1>4
<1> QED BY <1>1, <1>2, <1>3, <1>4 DEF OracleInv, OracleTypes

(* A run as the plan has it: ok unless the program or the driver is wrong. *)
LEMMA OracleOk ==
  ASSUME NEW s \in Series, OracleInv(s), NEW i \in 1 .. Len(Oracle(s)!Plan), OracleResult(s, i).ok
  PROVE  /\ program = "blind" => ~ Oracle(s)!Plan[i].control
         /\ program = "alarmist" => Oracle(s)!Plan[i].control
         /\ program = "works" => wrong # <<Oracle(s)!Plan[i].on, Oracle(s)!Plan[i].mode>>
<1>1. Oracle(s)!Plan[i].control \in BOOLEAN
  BY PlanHasFacts DEF PlanFacts
<1>2. Oracle(s)!FindsFault(Oracle(s)!Plan[i]) = Oracle(s)!Plan[i].control
  BY DEF OracleResult, Oracle!Ok
<1> QED BY <1>1, <1>2 DEF Oracle!FindsFault

LEMMA OracleGoal ==
  ASSUME NEW s \in Series, OracleInv(s)
  PROVE  /\ Oracle(s)!TypeOK /\ Oracle(s)!SurpriseIsLast /\ Oracle(s)!CompleteMeansNoFault
         /\ s.final => Oracle(s)!CompleteMeansRight /\ Oracle(s)!BlindIsCaughtFirst
<1> DEFINE n == Len(Oracle(s)!Plan)
<1>1. Oracle(s)!TypeOK
  BY OracleFile DEF OracleInv, OracleTypes, OracleLists, Oracle!TypeOK
<1>2. Oracle(s)!SurpriseIsLast
  BY OracleFile DEF OracleInv, OracleLists, Oracle!SurpriseIsLast
<1>3. ASSUME Oracle(s)!CompleteFile
      PROVE  /\ program # "alarmist"
             /\ program = "works" => wrong = <<"none", "none">>
             /\ s.final => program # "blind"
  <2>1. \A i \in 1 .. n : OracleResult(s, i).ok
    BY <1>3, OracleFile DEF Oracle!CompleteFile
  <2>2. program # "alarmist"
    BY <2>1, OracleOk, PlanHasFacts DEF PlanFacts
  <2>3. s.final => program # "blind"
    BY <2>1, OracleOk, PlanHasFacts DEF PlanFacts
  <2>4. ASSUME program = "works" PROVE wrong = <<"none", "none">>
    <3>1. \A i \in 1 .. n : wrong # <<Oracle(s)!Plan[i].on, Oracle(s)!Plan[i].mode>>
      BY <2>1, <2>4, OracleOk
    <3>2. wrong \notin Oracle(s)!Tested
      BY <3>1, PlanHasFacts DEF Oracle!Tested, PlanFacts
    <3> QED BY <3>2 DEF OracleInv, OracleTypes
  <2> QED BY <2>2, <2>3, <2>4
<1>4. Oracle(s)!CompleteMeansNoFault
  BY <1>3 DEF Oracle!CompleteMeansNoFault
<1>5. ASSUME s.final PROVE Oracle(s)!CompleteMeansRight
  BY <1>3, <1>5 DEF Oracle!CompleteMeansRight, OracleInv, OracleTypes
<1>6. ASSUME s.final PROVE Oracle(s)!BlindIsCaughtFirst
  <2> SUFFICES ASSUME program = "blind", NEW i \in 1 .. Len(file)
               PROVE  file[i].run.on = s.labels[1].name
    BY OracleFile DEF Oracle!BlindIsCaughtFirst
  <2>1. PICK k \in 1 .. n : /\ Oracle(s)!Plan[k].control
                            /\ \A j \in 1 .. k : Oracle(s)!Plan[j].on = s.labels[1].name
    BY <1>6, PlanHasFacts DEF PlanFacts
  <2>2. file[i].run = Oracle(s)!Plan[i]
    <3>1. file[i] = OracleResult(s, i)
      BY OracleFile
    <3> QED BY <3>1 DEF OracleResult
  <2>3. i <= k
    <3> SUFFICES ASSUME k < i PROVE FALSE
      BY <2>1, OracleFile
    <3>1. k \in 1 .. step /\ k < step
      BY <2>1, OracleFile
    <3>2. OracleResult(s, k).ok
      BY <3>1 DEF OracleInv, OracleLists
    <3> QED BY <2>1, <3>2, OracleOk
  <2>4. i \in 1 .. k
    BY <2>3, OracleFile
  <2> QED BY <2>1, <2>2, <2>4
<1> QED BY <1>1, <1>2, <1>4, <1>5, <1>6

-----------------------------------------------------------------------------
(* The cache: ShaderCache                                                  *)

CacheTypes(c) ==
  /\ driver \in Cache(c)!Drivers
  /\ repetition \in 1 .. c.repeats + 1 /\ step \in 1 .. 6
  /\ failures \subseteq (1 .. c.repeats) \X {Cache(c)!Steps[i].label : i \in 1 .. 6}
  /\ answer \in {"none", "ok", "failed"}

(* What the directory holds after the steps of this repetition so far.     *)
CacheHolds(c) ==
  cache = IF step = 1 \/ ~ driver.stores THEN {}
          ELSE IF step \in {2, 3} THEN Cache(c)!Keys("0")
          ELSE IF step \in {4, 5} THEN Cache(c)!Keys("0") \cup Cache(c)!Keys("1")
          ELSE Cache(c)!Keys("0") \cup Cache(c)!Keys("1") \cup Cache(c)!Keys("false")

(* What each step that passed says of the driver.                          *)
CacheSays(c) ==
  /\ repetition > 1 \/ step > 2 => driver.stores
  /\ repetition > 1 \/ step > 3 => (driver.keyed <=> c.expect = "separated")
  /\ repetition > 1 \/ step > 5 => (driver.keyed => ~ driver.spelled)
  /\ repetition > 1 => driver.obeys

CacheInv(c) ==
  /\ CacheTypes(c)
  /\ answer = "none" => CacheHolds(c)
  /\ failures = {} => CacheSays(c)
  /\ answer = "ok" => failures = {} /\ repetition > 1

LEMMA CacheSteps ==
  ASSUME NEW c
  PROVE  /\ Len(Cache(c)!Steps) = 6
         /\ Cache(c)!Steps[1] = [label |-> "default-cold", knob |-> "0"]
         /\ Cache(c)!Steps[2] = [label |-> "default-warm", knob |-> "0"]
         /\ Cache(c)!Steps[3] = [label |-> "control-after-default", knob |-> "1"]
         /\ Cache(c)!Steps[4] = [label |-> "control-warm", knob |-> "1"]
         /\ Cache(c)!Steps[5] = [label |-> "default-return", knob |-> "false"]
         /\ Cache(c)!Steps[6] = [label |-> "cache-disabled", knob |-> "0"]
BY DEF Cache!Steps

LEMMA CacheCounts ==
  ASSUME NEW c, NEW S
  PROVE  Cache(c)!Cardinality(S) = Cardinality(S)
BY DEF Cache!Cardinality, Cardinality

LEMMA CacheKeys ==
  ASSUME NEW c \in Caches, NEW knob
  PROVE  /\ Cache(c)!Keys(knob) # {} /\ IsFiniteSet(Cache(c)!Keys(knob))
         /\ Cardinality(Cache(c)!Keys(knob)) \in Nat \ {0}
<1>1. c.shaders # {} /\ IsFiniteSet(c.shaders)
  BY CachesAssumption
<1> DEFINE K == Cache(c)!Keys(knob)
           key == [s \in c.shaders |-> Cache(c)!Key(s, knob)]
<1>2. key \in Surjection(c.shaders, K)
  BY DEF Cache!Keys, Surjection
<1>3. K # {}
  BY <1>1 DEF Cache!Keys
<1> HIDE DEF K, key
<1>4. IsFiniteSet(K)
  BY <1>1, <1>2, FS_Surjection
<1>5. Cardinality(K) \in Nat \ {0}
  BY <1>3, <1>4, FS_CardinalityType, FS_EmptySet
<1> QED BY <1>3, <1>4, <1>5 DEF K

(* Settings with different values have different keys, if they are in the  *)
(* key at all.                                                             *)
LEMMA CacheDisjoint ==
  ASSUME NEW c \in Caches, driver.keyed
  PROVE  /\ Cache(c)!Keys("0") \cap Cache(c)!Keys("1") = {}
         /\ driver.spelled =>
              (Cache(c)!Keys("0") \cup Cache(c)!Keys("1")) \cap Cache(c)!Keys("false") = {}
BY DEF Cache!Keys, Cache!Key, Cache!Value

LEMMA CacheShared ==
  ASSUME NEW c \in Caches, ~ driver.keyed
  PROVE  Cache(c)!Keys("0") = Cache(c)!Keys("1") /\ Cache(c)!Keys("false") = Cache(c)!Keys("0")
BY DEF Cache!Keys, Cache!Key

(* Hits need something in the directory.                                   *)
LEMMA CacheHits ==
  ASSUME NEW c, NEW s, Cache(c)!Hits(s) > 0
  PROVE  s.label # "cache-disabled" /\ cache \cap Cache(c)!Keys(s.knob) # {}
<1>1. Cache(c)!Found(s) # {}
  BY FS_EmptySet, CacheCounts DEF Cache!Hits
<1> QED BY <1>1 DEF Cache!Found, Cache!Disabled

LEMMA CacheInit ==
  ASSUME NEW c \in Caches, Cache(c)!Init
  PROVE  CacheInv(c)
<1>1. c.repeats \in Nat \ {0}
  BY CachesAssumption
<1>2. /\ driver \in Cache(c)!Drivers
      /\ repetition = 1 /\ step = 1 /\ cache = {} /\ failures = {} /\ answer = "none"
  BY DEF Cache!Init
<1> QED BY <1>1, <1>2 DEF CacheInv, CacheTypes, CacheHolds, CacheSays

(* A step that passes says something of the driver.                        *)
LEMMA CachePasses ==
  ASSUME NEW c \in Caches, CacheTypes(c), CacheHolds(c), Cache(c)!Passes(Cache(c)!Steps[step])
  PROVE  /\ step = 2 => driver.stores
         /\ step = 3 /\ driver.stores => (driver.keyed <=> c.expect = "separated")
         /\ step = 5 => (driver.keyed => ~ driver.spelled)
         /\ step = 6 => driver.obeys
<1> DEFINE s == Cache(c)!Steps[step]
<1>1. CASE step = 2
  <2>1. s = [label |-> "default-warm", knob |-> "0"]
    BY <1>1, CacheSteps
  <2>2. Cache(c)!Hits(s) > 0
    BY <2>1 DEF Cache!Passes
  <2>3. cache # {}
    BY <2>2, CacheHits
  <2> QED BY <1>1, <2>3 DEF CacheHolds
<1>2. CASE step = 3
  <2> SUFFICES ASSUME driver.stores PROVE driver.keyed <=> c.expect = "separated"
    BY <1>2
  <2>1. s = [label |-> "control-after-default", knob |-> "1"]
    BY <1>2, CacheSteps
  <2>2. cache = Cache(c)!Keys("0")
    BY <1>2 DEF CacheHolds
  <2>3. CASE c.expect = "separated"
    <3>1. Cache(c)!Misses(s) > 0
      BY <2>1, <2>3 DEF Cache!Passes
    <3> SUFFICES ASSUME ~ driver.keyed PROVE FALSE
      BY <2>3, CacheKeys DEF CacheTypes, Cache!Drivers
    <3>2. Cache(c)!Found(s) = Cache(c)!Keys("1")
      BY <2>1, <2>2, CacheShared DEF Cache!Found, Cache!Disabled
    <3>3. Cache(c)!Misses(s) = Cardinality(Cache(c)!Keys("1")) - Cardinality(Cache(c)!Keys("1"))
      BY <2>1, <3>2, CacheCounts DEF Cache!Misses, Cache!Hits, Cache!Uses, Cache!Disabled
    <3> QED BY <3>1, <3>3, CacheKeys
  <2>4. CASE c.expect # "separated"
    <3>1. Cache(c)!Hits(s) > 0
      BY <2>1, <2>4 DEF Cache!Passes
    <3>2. cache \cap Cache(c)!Keys("1") # {}
      BY <2>1, <3>1, CacheHits
    <3> QED BY <2>2, <2>4, <3>2, CacheDisjoint
  <2> QED BY <2>3, <2>4
<1>3. CASE step = 5
  <2>1. s = [label |-> "default-return", knob |-> "false"]
    BY <1>3, CacheSteps
  <2>2. Cache(c)!Hits(s) > 0
    BY <2>1 DEF Cache!Passes
  <2>3. cache \cap Cache(c)!Keys("false") # {}
    BY <2>1, <2>2, CacheHits
  <2>4. cache \subseteq Cache(c)!Keys("0") \cup Cache(c)!Keys("1")
    BY <1>3 DEF CacheHolds
  <2> QED BY <1>3, <2>3, <2>4, CacheDisjoint
<1>4. CASE step = 6
  <2>1. s = [label |-> "cache-disabled", knob |-> "0"]
    BY <1>4, CacheSteps
  <2>2. Cache(c)!Hits(s) + Cache(c)!Misses(s) = 0
    BY <2>1 DEF Cache!Passes
  <2> SUFFICES ASSUME ~ driver.obeys PROVE FALSE
    BY <1>4
  <2>3. Cache(c)!Hits(s) = 0
    BY <2>1, FS_EmptySet, CacheCounts DEF Cache!Hits, Cache!Found, Cache!Disabled
  <2>4. Cache(c)!Misses(s) = Cardinality(Cache(c)!Keys("0")) - 0
    BY <2>1, <2>3, CacheCounts DEF Cache!Misses, Cache!Uses
  <2> QED BY <2>2, <2>3, <2>4, CacheKeys
<1> QED BY <1>1, <1>2, <1>3, <1>4

(* What the step leaves in the directory.                                  *)
LEMMA CacheFills ==
  ASSUME NEW c \in Caches, CacheTypes(c), CacheHolds(c), Cache(c)!Step
  PROVE  CacheHolds(c)'
<1>1. /\ step' = (step % 6) + 1 /\ driver' = driver
      /\ cache' = IF step = 6 THEN {} ELSE Cache(c)!NextCache(Cache(c)!Steps[step])
  BY CacheSteps DEF Cache!Step
<1>0. driver' = driver
  BY <1>1
<1>2. \A knob : Cache(c)!Keys(knob)' = Cache(c)!Keys(knob)
  BY <1>1 DEF Cache!Keys, Cache!Key, Cache!Value
<1>3. step \in 1 .. 6
  BY DEF CacheTypes
<1>4. CASE step = 6
  BY <1>1, <1>4 DEF CacheHolds
<1>5. CASE ~ driver.stores
  BY <1>1, <1>5 DEF CacheHolds, Cache!NextCache
<1>6. ASSUME driver.stores, step # 6
      PROVE  step' = step + 1 /\ cache' = cache \cup Cache(c)!Keys(Cache(c)!Steps[step].knob)
  <2>1. Cache(c)!Steps[step].label # "cache-disabled"
    BY <1>3, <1>6, CacheSteps
  <2> QED BY <1>1, <1>3, <1>6, <2>1 DEF Cache!NextCache, Cache!Disabled
<1>7. CASE driver.stores /\ step \in {1, 2}
  <2>1. CASE step = 1
    <3>1. step' = 2 /\ cache' = cache \cup Cache(c)!Keys("0")
      BY <1>6, <1>7, <2>1, CacheSteps
    <3> QED BY <1>0, <1>2, <1>7, <2>1, <3>1 DEF CacheHolds
  <2>2. CASE step = 2
    <3>1. step' = 3 /\ cache' = cache \cup Cache(c)!Keys("0")
      BY <1>6, <1>7, <2>2, CacheSteps
    <3> QED BY <1>0, <1>2, <1>7, <2>2, <3>1 DEF CacheHolds
  <2> QED BY <1>7, <2>1, <2>2
<1>8. CASE driver.stores /\ step \in {3, 4}
  <2>1. CASE step = 3
    <3>1. step' = 4 /\ cache' = cache \cup Cache(c)!Keys("1")
      BY <1>6, <1>8, <2>1, CacheSteps
    <3> QED BY <1>0, <1>2, <1>8, <2>1, <3>1 DEF CacheHolds
  <2>2. CASE step = 4
    <3>1. step' = 5 /\ cache' = cache \cup Cache(c)!Keys("1")
      BY <1>6, <1>8, <2>2, CacheSteps
    <3> QED BY <1>0, <1>2, <1>8, <2>2, <3>1 DEF CacheHolds
  <2> QED BY <1>8, <2>1, <2>2
<1>9. CASE driver.stores /\ step = 5
  <2>1. step' = 6 /\ cache' = cache \cup Cache(c)!Keys("false")
    BY <1>6, <1>9, CacheSteps
  <2> QED BY <1>0, <1>2, <1>9, <2>1 DEF CacheHolds
<1> QED BY <1>3, <1>4, <1>5, <1>7, <1>8, <1>9

LEMMA CacheStepKeeps ==
  ASSUME NEW c \in Caches, CacheInv(c), Cache(c)!Step
  PROVE  CacheInv(c)'
<1>1. c.repeats \in Nat \ {0}
  BY CachesAssumption
<1>2. /\ answer = "none" /\ repetition <= c.repeats
      /\ step' = (step % 6) + 1 /\ repetition' = repetition + (step \div 6)
      /\ driver' = driver /\ answer' = answer
      /\ \/ failures' = failures /\ Cache(c)!Passes(Cache(c)!Steps[step])
         \/ failures' = failures \cup {<<repetition, Cache(c)!Steps[step].label>>}
  BY CacheSteps DEF Cache!Step
<1>3. CacheTypes(c) /\ CacheHolds(c) /\ step \in 1 .. 6 /\ repetition \in 1 .. c.repeats
  BY <1>1, <1>2 DEF CacheInv, CacheTypes
<1>4. IF step = 6 THEN step' = 1 /\ repetition' = repetition + 1
      ELSE step' = step + 1 /\ repetition' = repetition
  BY <1>2, <1>3
<1>5. Cache(c)!Steps' = Cache(c)!Steps /\ Cache(c)!Drivers' = Cache(c)!Drivers
  BY DEF Cache!Steps, Cache!Drivers
<1>6. CacheTypes(c)'
  <2>1. driver' \in Cache(c)!Drivers /\ answer' \in {"none", "ok", "failed"}
    BY <1>2, <1>3 DEF CacheTypes
  <2>2. repetition' \in 1 .. c.repeats + 1 /\ step' \in 1 .. 6
    BY <1>1, <1>3, <1>4
  <2>3. failures' \subseteq (1 .. c.repeats) \X {Cache(c)!Steps[i].label : i \in 1 .. 6}
    <3>1. <<repetition, Cache(c)!Steps[step].label>>
            \in (1 .. c.repeats) \X {Cache(c)!Steps[i].label : i \in 1 .. 6}
      BY <1>3
    <3> QED BY <1>2, <1>3, <3>1 DEF CacheTypes
  <2> QED BY <1>5, <2>1, <2>2, <2>3 DEF CacheTypes
<1>7. CacheHolds(c)'
  BY <1>3, CacheFills
<1>8. ASSUME failures' = {} PROVE CacheSays(c)'
  <2>1. failures = {} /\ Cache(c)!Passes(Cache(c)!Steps[step])
    BY <1>2, <1>8
  <2>2. CacheSays(c)
    BY <2>1 DEF CacheInv
  <2>3. /\ step = 2 => driver.stores
        /\ step = 3 /\ driver.stores => (driver.keyed <=> c.expect = "separated")
        /\ step = 5 => (driver.keyed => ~ driver.spelled)
        /\ step = 6 => driver.obeys
    BY <1>3, <2>1, CachePasses
  <2> QED BY <1>2, <1>3, <1>4, <2>2, <2>3 DEF CacheSays
<1> QED BY <1>2, <1>6, <1>7, <1>8 DEF CacheInv

LEMMA CacheEnds ==
  ASSUME NEW c \in Caches, CacheInv(c), Cache(c)!Hangs \/ Cache(c)!Answers
  PROVE  CacheInv(c)'
<1>1. c.repeats \in Nat \ {0}
  BY CachesAssumption
<1>2. /\ UNCHANGED <<driver, repetition, step, cache, failures>> /\ answer' \in {"ok", "failed"}
      /\ answer' = "ok" => failures = {} /\ repetition > c.repeats
  BY DEF Cache!Hangs, Cache!Answers
<1>3. Cache(c)!Steps' = Cache(c)!Steps /\ Cache(c)!Drivers' = Cache(c)!Drivers
  BY DEF Cache!Steps, Cache!Drivers
<1>4. CacheTypes(c)'
  BY <1>2, <1>3 DEF CacheInv, CacheTypes
<1>5. CacheSays(c)' <=> CacheSays(c)
  BY <1>2 DEF CacheSays
<1>6. repetition \in 1 .. c.repeats + 1
  BY DEF CacheInv, CacheTypes
<1> QED BY <1>1, <1>2, <1>4, <1>5, <1>6 DEF CacheInv

LEMMA CacheStep ==
  ASSUME NEW c \in Caches, CacheInv(c), Cache(c)!Next
  PROVE  CacheInv(c)'
BY CacheStepKeeps, CacheEnds DEF Cache!Next

LEMMA CacheSame ==
  ASSUME NEW c \in Caches, CacheInv(c), UNCHANGED <<shader, step>>
  PROVE  CacheInv(c)'
<1>1. UNCHANGED <<driver, repetition, cache, failures, answer, step>>
  BY DEF shader
<1>2. Cache(c)!Steps' = Cache(c)!Steps /\ Cache(c)!Drivers' = Cache(c)!Drivers
  BY DEF Cache!Steps, Cache!Drivers
<1>3. \A knob : Cache(c)!Keys(knob)' = Cache(c)!Keys(knob)
  BY <1>1 DEF Cache!Keys, Cache!Key, Cache!Value
<1>4. CacheTypes(c)'
  BY <1>1, <1>2 DEF CacheInv, CacheTypes
<1>5. CacheSays(c)' <=> CacheSays(c)
  BY <1>1 DEF CacheSays
<1>6. CacheHolds(c)' <=> CacheHolds(c)
  BY <1>1, <1>3 DEF CacheHolds
<1> QED BY <1>1, <1>4, <1>5, <1>6 DEF CacheInv

LEMMA CacheGoal ==
  ASSUME NEW c \in Caches, CacheInv(c)
  PROVE  Cache(c)!TypeOK /\ Cache(c)!OkMeansSound
<1>1. Len(Cache(c)!Steps) = 6 /\ DOMAIN Cache(c)!Steps = 1 .. 6
  BY DEF Cache!Steps
<1>2. Cache(c)!TypeOK
  BY <1>1 DEF CacheInv, CacheTypes, Cache!TypeOK
<1>3. Cache(c)!OkMeansSound
  BY DEF CacheInv, CacheSays, Cache!OkMeansSound, Cache!Separates, Cache!Shares
<1> QED BY <1>2, <1>3

-----------------------------------------------------------------------------
(* The chain: PatchChain                                                   *)

ChainTypes(t) ==
  /\ tracked \subseteq t.names /\ ignored \subseteq t.names \ tracked
  /\ todo \subseteq listed /\ listed \subseteq t.names
  /\ pc \in {"reconstruct", "list", "read", "ok", "different", "error"}
  /\ quiet \in BOOLEAN
  /\ pc \in {"read", "ok", "different"} => DOMAIN got = listed

(* The tree that is compared is that of the whole stack.                   *)
ChainStacked(t) ==
  pc \in {"list", "read", "ok", "different"} =>
    Chain(t)!Stack(patches).fits /\ expected = Chain(t)!Stack(patches).tree

(* While nobody edits, the list is that of the two trees, and what was     *)
(* read is what there is.                                                  *)
ChainReads(t) ==
  pc \in {"read", "ok", "different"} /\ quiet =>
    /\ listed = Chain(t)!In(expected) \cup Chain(t)!Visible
    /\ \A n \in listed \ t.excluded : n \notin todo => got[n] = worktree[n]

ChainAnswers(t) ==
  /\ pc \in {"ok", "different"} => todo = {}
  /\ pc = "ok" => Chain(t)!Differences = {}
  /\ pc = "different" => Chain(t)!Differences # {}

ChainInv(t) == ChainTypes(t) /\ ChainStacked(t) /\ ChainReads(t) /\ ChainAnswers(t)

LEMMA ChainInit ==
  ASSUME NEW t \in Trees, Chain(t)!Init
  PROVE  ChainInv(t)
<1>1. /\ tracked \in SUBSET t.names /\ ignored \in SUBSET (t.names \ tracked)
      /\ listed = {} /\ todo = {} /\ pc = "reconstruct" /\ quiet = TRUE
  BY DEF Chain!Init
<1> QED BY <1>1 DEF ChainInv, ChainTypes, ChainStacked, ChainReads, ChainAnswers

LEMMA ChainStackStays ==
  ASSUME NEW t \in Trees, UNCHANGED <<base, patches>>
  PROVE  Chain(t)!Stack(patches)' = Chain(t)!Stack(patches)
BY DEF Chain!Stack, Chain!Applied, Chain!Fits

LEMMA ChainReconstructs ==
  ASSUME NEW t \in Trees, ChainInv(t), Chain(t)!Reconstructs
  PROVE  ChainInv(t)'
<1>1. /\ UNCHANGED <<base, patches, worktree, tracked, ignored, listed, todo, got, quiet>>
      /\ pc' \in {"list", "error"}
      /\ pc' = "list" =>
           Chain(t)!Stack(patches).fits /\ expected' = Chain(t)!Stack(patches).tree
  BY DEF Chain!Reconstructs
<1>2. Chain(t)!Stack(patches)' = Chain(t)!Stack(patches)
  BY <1>1, ChainStackStays
<1>3. ChainTypes(t)'
  BY <1>1 DEF ChainInv, ChainTypes
<1>4. ChainStacked(t)'
  BY <1>1, <1>2 DEF ChainStacked
<1>5. ChainReads(t)' /\ ChainAnswers(t)'
  BY <1>1 DEF ChainReads, ChainAnswers
<1> QED BY <1>3, <1>4, <1>5 DEF ChainInv

LEMMA ChainLists ==
  ASSUME NEW t \in Trees, ChainInv(t), Chain(t)!ListsPaths
  PROVE  ChainInv(t)'
<1>1. /\ UNCHANGED <<base, patches, worktree, tracked, ignored, expected, quiet>>
      /\ pc = "list" /\ pc' = "read"
      /\ listed' = Chain(t)!In(expected) \cup Chain(t)!Visible
      /\ todo' = listed' \ t.excluded
      /\ DOMAIN got' = listed'
  BY DEF Chain!ListsPaths
<1>2. Chain(t)!Stack(patches)' = Chain(t)!Stack(patches)
  BY <1>1, ChainStackStays
<1>3. listed' \subseteq t.names
  BY <1>1 DEF Chain!In, Chain!Visible, ChainInv, ChainTypes
<1>4. ChainTypes(t)'
  BY <1>1, <1>3 DEF ChainInv, ChainTypes
<1>5. ChainStacked(t)'
  BY <1>1, <1>2 DEF ChainInv, ChainStacked
<1>6. ChainReads(t)'
  BY <1>1 DEF ChainReads, Chain!In, Chain!Visible
<1>7. ChainAnswers(t)'
  BY <1>1 DEF ChainAnswers
<1> QED BY <1>4, <1>5, <1>6, <1>7 DEF ChainInv

LEMMA ChainReadsFile ==
  ASSUME NEW t \in Trees, ChainInv(t), Chain(t)!ReadsFile
  PROVE  ChainInv(t)'
<1>1. /\ UNCHANGED <<base, patches, worktree, tracked, ignored, expected, listed, pc, quiet>>
      /\ pc = "read" /\ todo # {}
  BY DEF Chain!ReadsFile
<1>2. PICK n \in todo : got' = [got EXCEPT ![n] = worktree[n]] /\ todo' = todo \ {n}
  BY DEF Chain!ReadsFile
<1>3. Chain(t)!Stack(patches)' = Chain(t)!Stack(patches)
  BY <1>1, ChainStackStays
<1>4. DOMAIN got = listed /\ n \in listed
  BY <1>1 DEF ChainInv, ChainTypes
<1>5. /\ DOMAIN got' = listed /\ got'[n] = worktree[n]
      /\ \A m \in listed : m # n => got'[m] = got[m]
  BY <1>2, <1>4
<1>6. ChainTypes(t)'
  BY <1>1, <1>2, <1>5 DEF ChainInv, ChainTypes
<1>7. ChainStacked(t)'
  BY <1>1, <1>3 DEF ChainInv, ChainStacked
<1>8. ChainReads(t)'
  <2>1. (Chain(t)!In(expected) \cup Chain(t)!Visible)' = Chain(t)!In(expected) \cup Chain(t)!Visible
    BY <1>1 DEF Chain!In, Chain!Visible
  <2> QED BY <1>1, <1>2, <1>5, <2>1 DEF ChainInv, ChainReads
<1>9. ChainAnswers(t)'
  BY <1>1 DEF ChainAnswers
<1> QED BY <1>6, <1>7, <1>8, <1>9 DEF ChainInv

(* What does not touch what was read leaves the comparison alone.          *)
LEMMA ChainAnswersStep ==
  ASSUME NEW t \in Trees, ChainInv(t), Chain(t)!Answers
  PROVE  ChainInv(t)'
<1>1. /\ UNCHANGED <<base, patches, worktree, tracked, ignored, expected, listed, todo, got, quiet>>
      /\ pc = "read" /\ todo = {}
      /\ pc' = IF Chain(t)!Differences = {} THEN "ok" ELSE "different"
  BY DEF Chain!Answers
<1>2. Chain(t)!Stack(patches)' = Chain(t)!Stack(patches)
  BY <1>1, ChainStackStays
<1>3. Chain(t)!Differences' = Chain(t)!Differences
  BY <1>1 DEF Chain!Differences, Chain!IsPointer
<1>4. ChainTypes(t)'
  BY <1>1 DEF ChainInv, ChainTypes
<1>5. ChainStacked(t)'
  BY <1>1, <1>2 DEF ChainInv, ChainStacked
<1>6. ChainReads(t)'
  BY <1>1 DEF ChainInv, ChainReads, Chain!In, Chain!Visible
<1>7. ChainAnswers(t)'
  BY <1>1, <1>3 DEF ChainAnswers
<1> QED BY <1>4, <1>5, <1>6, <1>7 DEF ChainInv

LEMMA ChainEdit ==
  ASSUME NEW t \in Trees, ChainInv(t), Chain(t)!Edit
  PROVE  ChainInv(t)'
<1>1. /\ UNCHANGED <<base, patches, tracked, ignored, expected, listed, todo, got, pc>>
      /\ pc \in {"list", "read"} /\ quiet' = FALSE
  BY DEF Chain!Edit
<1>2. Chain(t)!Stack(patches)' = Chain(t)!Stack(patches)
  BY <1>1, ChainStackStays
<1>3. ChainTypes(t)'
  BY <1>1 DEF ChainInv, ChainTypes
<1>4. ChainStacked(t)'
  BY <1>1, <1>2 DEF ChainInv, ChainStacked
<1>5. ChainReads(t)' /\ ChainAnswers(t)'
  BY <1>1 DEF ChainReads, ChainAnswers
<1> QED BY <1>3, <1>4, <1>5 DEF ChainInv

LEMMA ChainStep ==
  ASSUME NEW t \in Trees, ChainInv(t), Chain(t)!Next
  PROVE  ChainInv(t)'
BY ChainReconstructs, ChainLists, ChainReadsFile, ChainAnswersStep, ChainEdit DEF Chain!Next

LEMMA ChainSame ==
  ASSUME NEW t \in Trees, ChainInv(t), UNCHANGED <<chain, pc>>
  PROVE  ChainInv(t)'
<1>1. UNCHANGED <<base, patches, worktree, tracked, ignored, expected, listed, todo, got, quiet, pc>>
  BY DEF chain
<1>2. Chain(t)!Stack(patches)' = Chain(t)!Stack(patches)
  BY <1>1, ChainStackStays
<1>3. Chain(t)!Differences' = Chain(t)!Differences
  BY <1>1 DEF Chain!Differences, Chain!IsPointer
<1>4. ChainTypes(t)'
  BY <1>1 DEF ChainInv, ChainTypes
<1>5. ChainStacked(t)'
  BY <1>1, <1>2 DEF ChainInv, ChainStacked
<1>6. ChainReads(t)'
  BY <1>1 DEF ChainInv, ChainReads, Chain!In, Chain!Visible
<1>7. ChainAnswers(t)'
  BY <1>1, <1>3 DEF ChainInv, ChainAnswers
<1> QED BY <1>4, <1>5, <1>6, <1>7 DEF ChainInv

(* A path is compared if it is in either tree, but for what Git ignores;   *)
(* and one that is compared is not both ignored and absent from the stack. *)
LEMMA ChainListed ==
  ASSUME NEW t \in Trees, ChainInv(t), pc \in {"ok", "different"}, quiet
  PROVE  /\ \A n \in t.names \ t.excluded :
              IF n \in listed THEN got[n] = worktree[n]
              ELSE /\ expected[n] = Chain(t)!Absent
                   /\ n \in ignored \/ worktree[n] = Chain(t)!Absent
         /\ \A n \in listed : ~ (n \in ignored /\ expected[n] = Chain(t)!Absent)
<1>1. /\ listed = Chain(t)!In(expected) \cup Chain(t)!Visible /\ todo = {}
      /\ \A n \in listed \ t.excluded : got[n] = worktree[n]
  BY DEF ChainInv, ChainReads, ChainAnswers
<1>2. /\ \A n \in t.names : n \in listed <=>
           expected[n] # Chain(t)!Absent \/ n \in tracked
             \/ (worktree[n] # Chain(t)!Absent /\ n \notin ignored)
      /\ listed \subseteq t.names /\ ignored \subseteq t.names \ tracked
  BY <1>1 DEF Chain!In, Chain!Visible, ChainInv, ChainTypes
<1> QED BY <1>1, <1>2

LEMMA ChainGoal ==
  ASSUME NEW t \in Trees, ChainInv(t)
  PROVE  Chain(t)!TypeOK /\ Chain(t)!OkMeansSame /\ Chain(t)!SameMeansOk /\ Chain(t)!OkMeansStacked
<1>1. Chain(t)!TypeOK
  BY DEF ChainInv, ChainTypes, Chain!TypeOK
<1>2. Chain(t)!OkMeansStacked
  BY DEF ChainInv, ChainStacked, Chain!OkMeansStacked
<1>3. Chain(t)!OkMeansSame
  <2> SUFFICES ASSUME pc = "ok", quiet, NEW n \in t.names \ t.excluded
               PROVE  \/ worktree[n] = expected[n]
                      \/ /\ t.pointers /\ n \in t.docs /\ worktree[n][2] = expected[n][2]
                         /\ {worktree[n][1], expected[n][1]} = {"file", "link"}
                      \/ n \in ignored /\ expected[n] = Chain(t)!Absent
    BY DEF Chain!OkMeansSame, Chain!Same
  <2>1. CASE n \in listed
    <3>1. got[n] = worktree[n]
      BY <2>1, ChainListed
    <3>2. Chain(t)!IsPointer(n) \/ expected[n] = got[n]
      BY <2>1 DEF ChainInv, ChainAnswers, Chain!Differences
    <3>3. Chain(t)!IsPointer(n) =>
            /\ t.pointers /\ n \in t.docs /\ expected[n][2] = got[n][2]
            /\ {got[n][1], expected[n][1]} = {"file", "link"}
      BY DEF Chain!IsPointer
    <3> QED BY <3>1, <3>2, <3>3
  <2>2. CASE n \notin listed
    BY <2>2, ChainListed
  <2> QED BY <2>1, <2>2
<1>4. Chain(t)!SameMeansOk
  <2> SUFFICES ASSUME pc = "different", quiet, Chain(t)!Same(worktree) PROVE FALSE
    BY DEF Chain!SameMeansOk
  <2>1. PICK n \in listed \ t.excluded : ~ Chain(t)!IsPointer(n) /\ expected[n] # got[n]
    BY DEF ChainInv, ChainAnswers, Chain!Differences
  <2>2. n \in t.names \ t.excluded /\ got[n] = worktree[n]
    BY <2>1, ChainListed DEF ChainInv, ChainTypes
  <2>3. ~ (n \in ignored /\ expected[n] = Chain(t)!Absent)
    BY <2>1, ChainListed
  <2>4. /\ t.pointers /\ n \in t.docs /\ worktree[n][2] = expected[n][2]
        /\ {worktree[n][1], expected[n][1]} = {"file", "link"}
    BY <2>1, <2>2, <2>3 DEF Chain!Same
  <2>5. Chain(t)!IsPointer(n)
    BY <2>2, <2>4 DEF Chain!IsPointer
  <2> QED BY <2>1, <2>5
<1> QED BY <1>1, <1>2, <1>3, <1>4

-----------------------------------------------------------------------------
(* The stages: StagePatches                                                *)

StageOf(cs, f) == {c \in cs : c.file = f}
StageFirst(some) == CHOOSE c \in some : \A d \in some : c.at <= d.at
StageLater(cs, c) == {d \in StageOf(cs, c.file) : c.at < d.at}
StageBefore(w, cs, c) ==
  IF c = StageFirst(StageOf(cs, c.file)) /\ c.file \notin w.repo
    THEN [f \in w.files |-> 1][c.file] ELSE c.content
StageAfter(cs, lv, c) ==
  IF StageLater(cs, c) = {} THEN lv[c.file] ELSE StageFirst(StageLater(cs, c)).content
StagePatch(w, cs, lv, c) ==
  [stage |-> c.stage, file |-> c.file, from |-> StageBefore(w, cs, c), to |-> StageAfter(cs, lv, c)]
StageSet(w, cs, lv) == {p \in {StagePatch(w, cs, lv, c) : c \in cs} : p.from # p.to}
StageStamped(cs) == {c.stage : c \in cs}
StageOldest(cs, s) == StageFirst({c \in cs : c.stage = s}).at
StageRank(cs, s) == Cardinality({t \in StageStamped(cs) : StageOldest(cs, t) < StageOldest(cs, s)})
StageOrder(cs) ==
  [i \in 1 .. Cardinality(StageStamped(cs)) |-> CHOOSE s \in StageStamped(cs) : StageRank(cs, s) = i - 1]
StageCommit(w, cs, lv) ==
  [f \in w.files |-> IF StageOf(cs, f) = {} THEN lv[f] ELSE StageBefore(w, cs, StageFirst(StageOf(cs, f)))]
StageUnbacked(w, cs, lv) == {f \in w.files : StageOf(cs, f) = {} /\ lv[f] # [g \in w.files |-> 1][f]}
StageMade(w, cs, lv) ==
  [stages |-> StageOrder(cs), patches |-> StageSet(w, cs, lv),
   at_commit |-> StageCommit(w, cs, lv), unbacked |-> StageUnbacked(w, cs, lv)]

StageCopies(w, tm) == [file : w.files, stage : w.stages, at : 1 .. tm, content : Nat \ {0}]

StageTypes(w, cs, lv, tm) ==
  /\ lv \in [w.files -> 1 .. w.edits + 1] /\ tm \in Nat
  /\ cs \subseteq StageCopies(w, tm) /\ IsFiniteSet(cs)

(* Copies have a time of their own, hold what the file had become by then, *)
(* and a stage takes one of a file.                                        *)
StageTimes(cs, lv) ==
  /\ \A c \in cs : c.content <= lv[c.file]
  /\ \A c, d \in cs : c.at = d.at => c = d
  /\ \A c, d \in cs : c.file = d.file /\ c.at < d.at => c.content <= d.content
  /\ \A c, d \in cs : c.file = d.file /\ c.stage = d.stage => c = d

StageFacts(w, cs, lv, tm) == StageTypes(w, cs, lv, tm) /\ StageTimes(cs, lv)

StageInv(w) ==
  /\ StageFacts(w, copies, live, time)
  /\ Work(w)!Working \/ made = StageMade(w, copies, live)

(* A list of the stages there are copies of, by their oldest ones.         *)
StageRuns(cs, bg) ==
  /\ Len(bg) \in Nat /\ bg = [i \in 1 .. Len(bg) |-> bg[i]]
  /\ \A i, j \in 1 .. Len(bg) : bg[i] = bg[j] => i = j
  /\ \A c \in cs : \E i \in 1 .. Len(bg) : c.stage = bg[i]
  /\ \A i, j \in 1 .. Len(bg) : StageOldest(cs, bg[i]) < StageOldest(cs, bg[j]) => i < j

(* Stages come to a file in their order.                                   *)
StageInOrder(cs, f) ==
  \A c, d \in StageOf(cs, f) :
    c.at < d.at => StageOldest(cs, c.stage) < StageOldest(cs, d.stage)

StageTurns(cs, bg, f) ==
  /\ StageRuns(cs, bg)
  /\ \A c, d \in StageOf(cs, f) : \A i, j \in 1 .. Len(bg) :
       c.stage = bg[i] /\ d.stage = bg[j] /\ i < j => c.at < d.at

LEMMA StageFirstIs ==
  ASSUME NEW some, some # {}, \A c \in some : c.at \in Nat
  PROVE  StageFirst(some) \in some /\ \A d \in some : StageFirst(some).at <= d.at
<1>1. PICK n \in {c.at : c \in some} : \A m \in {c.at : c \in some} : n <= m
  BY LeastNumber
<1>2. \E c \in some : \A d \in some : c.at <= d.at
  BY <1>1
<1> QED BY <1>2 DEF StageFirst

LEMMA StageTypesOf ==
  ASSUME NEW w, NEW cs, NEW lv, NEW tm, StageTypes(w, cs, lv, tm), NEW c \in cs
  PROVE  /\ c.file \in w.files /\ c.stage \in w.stages /\ c.at \in 1 .. tm /\ c.at \in Nat
         /\ c.content \in Nat \ {0}
BY DEF StageTypes, StageCopies

LEMMA StageOldestIs ==
  ASSUME NEW w, NEW cs, NEW lv, NEW tm, StageFacts(w, cs, lv, tm), NEW s \in StageStamped(cs)
  PROVE  /\ StageOldest(cs, s) \in Nat
         /\ \E c \in cs : c.stage = s /\ c.at = StageOldest(cs, s)
<1> DEFINE S == {c \in cs : c.stage = s}
<1>1. S # {}
  BY DEF StageStamped
<1>2. \A c \in S : c.at \in Nat
  BY StageTypesOf DEF StageFacts
<1>3. StageFirst(S) \in S
  BY <1>1, <1>2, StageFirstIs
<1> QED BY <1>2, <1>3 DEF StageOldest

(* The oldest copies of two stages are not of the same time.               *)
LEMMA StageOldestDiffer ==
  ASSUME NEW w, NEW cs, NEW lv, NEW tm, StageFacts(w, cs, lv, tm),
         NEW s \in StageStamped(cs), NEW t \in StageStamped(cs),
         StageOldest(cs, s) = StageOldest(cs, t)
  PROVE  s = t
<1>1. PICK c \in cs : c.stage = s /\ c.at = StageOldest(cs, s)
  BY StageOldestIs
<1>2. PICK d \in cs : d.stage = t /\ d.at = StageOldest(cs, t)
  BY StageOldestIs
<1>3. c = d
  BY <1>1, <1>2 DEF StageFacts, StageTimes
<1> QED BY <1>1, <1>2, <1>3

(* Older stages have a lower rank, and every rank is taken.                *)
LEMMA StageRanks ==
  ASSUME NEW w, NEW cs, NEW lv, NEW tm, StageFacts(w, cs, lv, tm),
         NEW T, T = StageStamped(cs)
  PROVE  /\ Cardinality(T) \in Nat
         /\ \A s \in T : StageRank(cs, s) \in 0 .. Cardinality(T) - 1
         /\ \A s, t \in T : StageOldest(cs, s) < StageOldest(cs, t) => StageRank(cs, s) < StageRank(cs, t)
         /\ \A k \in 0 .. Cardinality(T) - 1 : \E s \in T : StageRank(cs, s) = k
<1> DEFINE less(s) == {t \in T : StageOldest(cs, t) < StageOldest(cs, s)}
           g == [c \in cs |-> c.stage]
<1>1. IsFiniteSet(T) /\ Cardinality(T) \in Nat
  <2>1. g \in Surjection(cs, T)
    BY DEF Surjection, StageStamped
  <2> QED BY <2>1, FS_Surjection, FS_CardinalityType DEF StageFacts, StageTypes
<1> HIDE DEF g
<1>2. \A s \in T : StageOldest(cs, s) \in Nat
  BY StageOldestIs
<1>3. \A s \in T : StageRank(cs, s) = Cardinality(less(s))
  BY DEF StageRank
<1>4. ASSUME NEW s \in T PROVE StageRank(cs, s) \in 0 .. Cardinality(T) - 1
  <2>1. less(s) \in SUBSET T /\ s \notin less(s)
    BY <1>2
  <2> HIDE DEF less
  <2>2. IsFiniteSet(less(s)) /\ Cardinality(less(s)) \in Nat
    BY <1>1, <2>1, FS_Subset, FS_CardinalityType
  <2>3. Cardinality(less(s)) <= Cardinality(T) /\ Cardinality(less(s)) # Cardinality(T)
    BY <1>1, <2>1, FS_Subset
  <2> QED BY <1>1, <1>3, <2>2, <2>3
<1>5. ASSUME NEW s \in T, NEW t \in T, StageOldest(cs, s) < StageOldest(cs, t)
      PROVE  StageRank(cs, s) < StageRank(cs, t)
  <2>1. less(s) \in SUBSET less(t) /\ s \in less(t) /\ s \notin less(s) /\ less(t) \in SUBSET T
    BY <1>2, <1>5
  <2> HIDE DEF less
  <2>2. IsFiniteSet(less(t))
    BY <1>1, <2>1, FS_Subset
  <2>3. Cardinality(less(s)) <= Cardinality(less(t)) /\ Cardinality(less(s)) # Cardinality(less(t))
    BY <2>1, <2>2, FS_Subset
  <2> QED BY <1>1, <1>3, <1>4, <2>3
<1>6. \A s, t \in T : StageRank(cs, s) = StageRank(cs, t) => s = t
  <2> SUFFICES ASSUME NEW s \in T, NEW t \in T, StageRank(cs, s) = StageRank(cs, t) PROVE s = t
    OBVIOUS
  <2>1. ~ (StageOldest(cs, s) < StageOldest(cs, t)) /\ ~ (StageOldest(cs, t) < StageOldest(cs, s))
    BY <1>1, <1>4, <1>5
  <2>2. StageOldest(cs, s) = StageOldest(cs, t)
    BY <1>2, <2>1
  <2> QED BY <2>2, StageOldestDiffer
<1>7. \A k \in 0 .. Cardinality(T) - 1 : \E s \in T : StageRank(cs, s) = k
  <2> DEFINE f == [s \in T |-> StageRank(cs, s)]
             N == 0 .. Cardinality(T) - 1
  <2>1. IsFiniteSet(N) /\ Cardinality(N) = Cardinality(T)
    BY <1>1, FS_Interval
  <2>2. f \in Injection(T, N)
    BY <1>4, <1>6 DEF Injection, IsInjective
  <2>3. f \in Surjection(T, N)
    BY <1>1, <2>1, <2>2, FS_Injection
  <2> QED BY <2>3 DEF Surjection
<1> QED BY <1>1, <1>4, <1>5, <1>7

(* The script names the stages by their oldest copies.                     *)
LEMMA StageOrderIs ==
  ASSUME NEW w, NEW cs, NEW lv, NEW tm, StageFacts(w, cs, lv, tm),
         NEW bg, bg = StageOrder(cs)
  PROVE  StageRuns(cs, bg)
<1> DEFINE T == StageStamped(cs)
           n == Cardinality(T)
<1>1. /\ n \in Nat
      /\ \A s \in T : StageRank(cs, s) \in 0 .. n - 1
      /\ \A s, t \in T : StageOldest(cs, s) < StageOldest(cs, t) => StageRank(cs, s) < StageRank(cs, t)
      /\ \A k \in 0 .. n - 1 : \E s \in T : StageRank(cs, s) = k
  BY StageRanks
<1>2. bg = [i \in 1 .. n |-> CHOOSE s \in T : StageRank(cs, s) = i - 1]
  BY DEF StageOrder
<1>3. \A c \in cs : c.stage \in T
  BY DEF StageStamped
<1> HIDE DEF T, n
<1>4. ASSUME NEW i \in 1 .. n PROVE bg[i] \in T /\ StageRank(cs, bg[i]) = i - 1
  <2>1. i - 1 \in 0 .. n - 1
    BY <1>1
  <2>2. \E s \in T : StageRank(cs, s) = i - 1
    BY <1>1, <2>1
  <2> QED BY <1>2, <2>2
<1>5. bg \in [1 .. n -> T]
  BY <1>2, <1>4
<1>6. Len(bg) = n
  BY <1>1, <1>5, SeqDef, LenProperties
<1>7. \A i, j \in 1 .. n : bg[i] = bg[j] => i = j
  <2> SUFFICES ASSUME NEW i \in 1 .. n, NEW j \in 1 .. n, bg[i] = bg[j] PROVE i = j
    OBVIOUS
  <2>1. i - 1 = j - 1
    BY <1>4
  <2> QED BY <1>1, <2>1
<1>8. ASSUME NEW i \in 1 .. n, NEW j \in 1 .. n, StageOldest(cs, bg[i]) < StageOldest(cs, bg[j])
      PROVE  i < j
  <2>1. i - 1 < j - 1
    BY <1>1, <1>4, <1>8
  <2> QED BY <1>1, <2>1
<1>9. \A s \in T : \E i \in 1 .. n : s = bg[i]
  <2> SUFFICES ASSUME NEW s \in T PROVE \E i \in 1 .. n : s = bg[i]
    OBVIOUS
  <2> DEFINE i == StageRank(cs, s) + 1
  <2>1. i \in 1 .. n /\ i - 1 = StageRank(cs, s)
    BY <1>1
  <2> HIDE DEF i
  <2>2. bg[i] \in T /\ StageRank(cs, bg[i]) = StageRank(cs, s)
    BY <1>4, <2>1
  <2>3. StageRank(cs, s) \in Nat /\ ~ (StageRank(cs, s) < StageRank(cs, s))
    BY <1>1
  <2>4. ~ (StageOldest(cs, s) < StageOldest(cs, bg[i])) /\ ~ (StageOldest(cs, bg[i]) < StageOldest(cs, s))
    BY <1>1, <2>2, <2>3
  <2>5. StageOldest(cs, s) \in Nat /\ StageOldest(cs, bg[i]) \in Nat
    BY <2>2, StageOldestIs DEF T
  <2>6. StageOldest(cs, s) = StageOldest(cs, bg[i])
    BY <2>4, <2>5
  <2>7. s = bg[i]
    BY <2>2, <2>6, StageOldestDiffer DEF T
  <2> QED BY <2>1, <2>7
<1> QED BY <1>1, <1>3, <1>5, <1>6, <1>7, <1>8, <1>9 DEF StageRuns

LEMMA StageTurnsAre ==
  ASSUME NEW w, NEW cs, NEW lv, NEW tm, StageFacts(w, cs, lv, tm),
         NEW f, StageInOrder(cs, f)
  PROVE  StageTurns(cs, StageOrder(cs), f)
<1> DEFINE bg == StageOrder(cs)
<1>1. StageRuns(cs, bg)
  BY StageOrderIs
<1> HIDE DEF bg
<1>2. ASSUME NEW c \in StageOf(cs, f), NEW d \in StageOf(cs, f),
             NEW i \in 1 .. Len(bg), NEW j \in 1 .. Len(bg), c.stage = bg[i], d.stage = bg[j], i < j
      PROVE  c.at < d.at
  <2>1. c \in cs /\ d \in cs /\ c.at \in Nat /\ d.at \in Nat
    BY StageTypesOf DEF StageFacts, StageOf
  <2>2. i \in Nat /\ j \in Nat
    OBVIOUS
  <2>3. CASE c.at = d.at
    <3>1. c = d
      BY <2>1, <2>3 DEF StageFacts, StageTimes
    <3>2. i = j
      BY <1>1, <1>2, <3>1 DEF StageRuns
    <3> QED BY <1>2, <2>2, <3>2
  <2>4. CASE d.at < c.at
    <3>1. StageOldest(cs, bg[j]) < StageOldest(cs, bg[i])
      BY <1>2, <2>4 DEF StageInOrder
    <3>2. j < i
      BY <1>1, <3>1 DEF StageRuns
    <3> QED BY <1>2, <2>2, <3>2
  <2> QED BY <2>1, <2>3, <2>4
<1> QED BY <1>1, <1>2 DEF StageTurns, bg

(* A file after the first n stages: what the next copy of it holds.        *)
StageBehind(cs, bg, f, n) == {c \in StageOf(cs, f) : \E i \in n + 1 .. Len(bg) : c.stage = bg[i]}
StageValue(w, cs, lv, bg, f, n) ==
  IF StageBehind(cs, bg, f, n) = {} THEN lv[f]
  ELSE StageBefore(w, cs, StageFirst(StageBehind(cs, bg, f, n)))

LEMMA StageUnique ==
  ASSUME NEW some, \A d \in some : d.at \in Nat, \A d, e \in some : d.at = e.at => d = e,
         NEW c, c \in some, \A d \in some : c.at <= d.at
  PROVE  StageFirst(some) = c
<1>1. StageFirst(some) \in some /\ StageFirst(some).at <= c.at
  BY StageFirstIs
<1>2. StageFirst(some).at = c.at
  BY <1>1
<1> QED BY <1>1, <1>2

(* Before all stages it is as at the commit, behind them as it is now.     *)
LEMMA StageEnds ==
  ASSUME NEW w, NEW cs, NEW lv, NEW tm, StageFacts(w, cs, lv, tm), NEW f \in w.files,
         NEW bg, StageTurns(cs, bg, f)
  PROVE  /\ StageValue(w, cs, lv, bg, f, 0) = StageCommit(w, cs, lv)[f]
         /\ StageValue(w, cs, lv, bg, f, Len(bg)) = lv[f]
<1>0. Len(bg) \in Nat
  BY DEF StageTurns, StageRuns
<1>1. StageBehind(cs, bg, f, 0) = StageOf(cs, f)
  BY DEF StageBehind, StageOf, StageTurns, StageRuns
<1>2. StageBehind(cs, bg, f, Len(bg)) = {}
  <2>1. Len(bg) + 1 .. Len(bg) = {}
    BY <1>0
  <2> QED BY <2>1 DEF StageBehind
<1> QED BY <1>1, <1>2 DEF StageValue, StageCommit

(* A stage that did not copy the file leaves it.                           *)
LEMMA StageLeaves ==
  ASSUME NEW w, NEW cs, NEW lv, NEW tm, StageFacts(w, cs, lv, tm), NEW f,
         NEW bg, StageTurns(cs, bg, f),
         NEW n \in 1 .. Len(bg), \A c \in StageOf(cs, f) : c.stage # bg[n]
  PROVE  StageValue(w, cs, lv, bg, f, n) = StageValue(w, cs, lv, bg, f, n - 1)
<1>0. Len(bg) \in Nat
  BY DEF StageTurns, StageRuns
<1>1. \A i : i \in (n - 1) + 1 .. Len(bg) <=> i = n \/ i \in n + 1 .. Len(bg)
  BY <1>0
<1>2. StageBehind(cs, bg, f, n) = StageBehind(cs, bg, f, n - 1)
  BY <1>1 DEF StageBehind
<1> QED BY <1>2 DEF StageValue

(* One that did finds it as its copy says, and leaves it as the next says. *)
LEMMA StageTakes ==
  ASSUME NEW w, NEW cs, NEW lv, NEW tm, StageFacts(w, cs, lv, tm), NEW f,
         NEW bg, StageTurns(cs, bg, f),
         NEW n \in 1 .. Len(bg), NEW c \in StageOf(cs, f), c.stage = bg[n]
  PROVE  /\ StageValue(w, cs, lv, bg, f, n - 1) = StageBefore(w, cs, c)
         /\ StageValue(w, cs, lv, bg, f, n) = StageAfter(cs, lv, c)
<1>0. Len(bg) \in Nat /\ c \in cs /\ c.file = f /\ c.at \in Nat
  <2>1. Len(bg) \in Nat
    BY DEF StageTurns, StageRuns
  <2>2. c \in cs /\ c.file = f
    BY DEF StageOf
  <2> QED BY <2>1, <2>2, StageTypesOf DEF StageFacts
<1>1. \A i : i \in (n - 1) + 1 .. Len(bg) <=> i = n \/ i \in n + 1 .. Len(bg)
  BY <1>0
<1>2. \A d \in StageOf(cs, f) : d \in cs /\ d.file = f /\ d.at \in Nat
  BY StageTypesOf DEF StageFacts, StageOf
<1>3. StageFirst(StageBehind(cs, bg, f, n - 1)) = c
  <2> DEFINE S == StageBehind(cs, bg, f, n - 1)
  <2>1. c \in S /\ \A d \in S : d \in cs
    BY <1>0, <1>1, <1>2 DEF StageBehind
  <2>2. ASSUME NEW d \in S PROVE c.at <= d.at
    <3>1. d \in StageOf(cs, f) /\ \E i \in (n - 1) + 1 .. Len(bg) : d.stage = bg[i]
      BY DEF StageBehind
    <3>2. PICK i \in (n - 1) + 1 .. Len(bg) : d.stage = bg[i]
      BY <3>1
    <3>3. d \in cs /\ d.file = f /\ d.at \in Nat
      BY <1>2, <3>1
    <3>4. CASE i = n
      <4>1. d = c
        BY <1>0, <3>2, <3>3, <3>4 DEF StageFacts, StageTimes
      <4> QED BY <1>0, <4>1
    <3>5. CASE i \in n + 1 .. Len(bg)
      <4>1. n < i /\ i \in 1 .. Len(bg)
        BY <1>0, <3>5
      <4>2. c.at < d.at
        BY <3>1, <3>2, <4>1 DEF StageTurns
      <4> QED BY <1>0, <3>3, <4>2
    <3> QED BY <1>1, <3>2, <3>4, <3>5
  <2>3. (\A d \in S : d.at \in Nat) /\ \A d, e \in S : d.at = e.at => d = e
    BY <1>2, <2>1 DEF StageBehind, StageFacts, StageTimes
  <2>4. \A d \in S : c.at <= d.at
    BY <2>2
  <2>5. c \in S
    BY <2>1
  <2> HIDE DEF S
  <2>6. StageFirst(S) = c
    BY <2>3, <2>4, <2>5, StageUnique
  <2> QED BY <2>6 DEF S
<1>4. StageBehind(cs, bg, f, n - 1) # {}
  BY <1>0, <1>1 DEF StageBehind
<1>5. StageBehind(cs, bg, f, n) = StageLater(cs, c)
  <2>1. ASSUME NEW d \in StageOf(cs, f)
        PROVE  (\E i \in n + 1 .. Len(bg) : d.stage = bg[i]) <=> c.at < d.at
    <3>1. d \in cs /\ d.file = f /\ d.at \in Nat
      BY <1>2
    <3>2. PICK j \in 1 .. Len(bg) : d.stage = bg[j]
      BY <3>1 DEF StageTurns, StageRuns
    <3>3. \A i \in 1 .. Len(bg) : d.stage = bg[i] => i = j
      BY <3>2 DEF StageTurns, StageRuns
    <3>4. CASE j > n
      <4>1. j \in n + 1 .. Len(bg)
        BY <1>0, <3>4
      <4>2. c.at < d.at
        BY <3>2, <3>4 DEF StageTurns
      <4> QED BY <3>2, <4>1, <4>2
    <3>5. CASE j = n
      <4>1. d = c
        BY <1>0, <3>1, <3>2, <3>5 DEF StageFacts, StageTimes
      <4>2. \A i \in n + 1 .. Len(bg) : i \in 1 .. Len(bg) /\ i # j
        BY <1>0, <3>5
      <4> QED BY <1>0, <3>3, <4>1, <4>2
    <3>6. CASE j < n
      <4>1. d.at < c.at
        BY <3>2, <3>6 DEF StageTurns
      <4>2. ~ (c.at < d.at)
        BY <1>0, <3>1, <4>1
      <4>3. \A i \in n + 1 .. Len(bg) : i \in 1 .. Len(bg) /\ i # j
        BY <1>0, <3>6
      <4> QED BY <3>3, <4>2, <4>3
    <3> QED BY <1>0, <3>4, <3>5, <3>6
  <2> QED BY <1>0, <2>1 DEF StageBehind, StageLater
<1>6. ASSUME StageLater(cs, c) # {}
      PROVE  StageBefore(w, cs, StageFirst(StageLater(cs, c))) = StageFirst(StageLater(cs, c)).content
  <2> DEFINE d == StageFirst(StageLater(cs, c))
  <2>1. \A e \in StageLater(cs, c) : e \in StageOf(cs, f) /\ c.at < e.at /\ e.at \in Nat
    BY <1>0, <1>2 DEF StageLater
  <2>2. d \in StageLater(cs, c)
    BY <1>6, <2>1, StageFirstIs
  <2>3. d \in StageOf(cs, f) /\ c.at < d.at /\ d.file = f /\ d.at \in Nat
    BY <1>2, <2>1, <2>2
  <2>4. StageFirst(StageOf(cs, f)).at <= c.at /\ StageFirst(StageOf(cs, f)) \in StageOf(cs, f)
    BY <1>2, StageFirstIs
  <2>5. StageFirst(StageOf(cs, f)).at \in Nat
    BY <1>2, <2>4
  <2> HIDE DEF d
  <2>6. d # StageFirst(StageOf(cs, f))
    BY <1>0, <2>3, <2>4, <2>5
  <2>7. StageBefore(w, cs, d) = d.content
    BY <2>3, <2>6 DEF StageBefore
  <2> QED BY <2>7 DEF d
<1> QED BY <1>0, <1>3, <1>4, <1>5, <1>6 DEF StageValue, StageAfter

(* The recursion of applying the patches, as one step.                     *)
StageHere(m, f, n) == {p \in m.patches : p.file = f /\ p.stage = m.stages[n]}
StageApply(m, f, n, v) ==
  IF StageHere(m, f, n) = {} THEN v
  ELSE IF \A p \in StageHere(m, f, n) : p.from = v THEN (CHOOSE p \in StageHere(m, f, n) : TRUE).to
  ELSE 0

LEMMA StageApplied ==
  ASSUME NEW w, NEW cs, NEW lv, NEW tm, StageFacts(w, cs, lv, tm), NEW f,
         NEW bg, StageTurns(cs, bg, f), bg = StageOrder(cs),
         NEW n \in 1 .. Len(bg)
  PROVE  StageValue(w, cs, lv, bg, f, n) =
           StageApply(StageMade(w, cs, lv), f, n, StageValue(w, cs, lv, bg, f, n - 1))
<1> DEFINE m == StageMade(w, cs, lv)
           H == StageHere(m, f, n)
<1>1. /\ m.patches = {p \in {StagePatch(w, cs, lv, c) : c \in cs} : p.from # p.to}
      /\ m.stages[n] = bg[n]
  BY DEF StageMade, StageSet
<1>2. \A c \in cs : /\ StagePatch(w, cs, lv, c).file = c.file /\ StagePatch(w, cs, lv, c).stage = c.stage
                    /\ StagePatch(w, cs, lv, c).from = StageBefore(w, cs, c)
                    /\ StagePatch(w, cs, lv, c).to = StageAfter(cs, lv, c)
  BY DEF StagePatch
<1> HIDE DEF m
<1> DEFINE C == {d \in cs : d.file = f /\ d.stage = bg[n]}
<1>3. /\ \A p \in H : p.from # p.to /\ \E c \in C : p = StagePatch(w, cs, lv, c)
      /\ \A c \in C : LET p == StagePatch(w, cs, lv, c) IN p.from # p.to => p \in H
  BY <1>1, <1>2 DEF StageHere
<1>4. CASE \A c \in StageOf(cs, f) : c.stage # bg[n]
  <2>1. H = {}
    BY <1>3, <1>4 DEF StageOf
  <2> HIDE DEF H
  <2>2. StageApply(m, f, n, StageValue(w, cs, lv, bg, f, n - 1)) = StageValue(w, cs, lv, bg, f, n - 1)
    BY <2>1 DEF StageApply, H
  <2> QED BY <1>4, <2>2, StageLeaves DEF m
<1>5. ASSUME NEW c \in StageOf(cs, f), c.stage = bg[n]
      PROVE  StageValue(w, cs, lv, bg, f, n) = StageApply(m, f, n, StageValue(w, cs, lv, bg, f, n - 1))
  <2> DEFINE p == StagePatch(w, cs, lv, c)
  <2>0. c \in cs /\ c.file = f
    BY DEF StageOf
  <2>1. C = {c}
    BY <1>5, <2>0 DEF StageFacts, StageTimes
  <2> HIDE DEF C, H
  <2>2. H = IF p.from # p.to THEN {p} ELSE {}
    BY <1>3, <2>1
  <2>3. StageValue(w, cs, lv, bg, f, n - 1) = p.from /\ StageValue(w, cs, lv, bg, f, n) = p.to
    BY <1>2, <1>5, <2>0, StageTakes
  <2> HIDE DEF p
  <2>4. ASSUME p.from # p.to
        PROVE  H # {} /\ (\A q \in H : q.from = p.from) /\ (CHOOSE q \in H : TRUE) = p
    BY <2>2, <2>4
  <2>5. p.from = p.to => H = {}
    BY <2>2
  <2>6. StageApply(m, f, n, p.from) = p.to
    BY <2>4, <2>5 DEF StageApply, H
  <2> QED BY <2>3, <2>6
<1> QED BY <1>4, <1>5 DEF m

(* Applying the patches of a file the stages came to in their order to its *)
(* state at the commit gives the live file.                                *)
LEMMA StageStacks ==
  ASSUME NEW w \in Works, NEW tm, StageFacts(w, copies, live, tm),
         made = StageMade(w, copies, live), NEW f \in w.files, StageInOrder(copies, f),
         NEW bg, bg = StageOrder(copies)
  PROVE  Work(w)!Stacked(f) = live[f]
<1> DEFINE N == Len(bg)
           F(g) == g = [n \in 0 .. N |-> IF n = 0 THEN made.at_commit[f] ELSE StageApply(made, f, n, g[n - 1])]
           v == [n \in 0 .. N |-> StageValue(w, copies, live, bg, f, n)]
<1>t. StageTurns(copies, bg, f)
  BY StageTurnsAre
<1>0. N \in Nat
  BY <1>t DEF StageTurns, StageRuns
<1>1. made.stages = bg /\ Len(made.stages) = N /\ made.at_commit[f] = StageCommit(w, copies, live)[f]
  BY DEF StageMade
<1>2. Work(w)!Stacked(f) = (CHOOSE g : F(g))[N]
  <2>1. Work(w)!Stacked(f) =
          (CHOOSE g : g = [n \in 0 .. Len(made.stages) |->
                             IF n = 0 THEN made.at_commit[f]
                             ELSE StageApply(made, f, n, g[n - 1])])[Len(made.stages)]
    BY DEF Work!Stacked, StageApply, StageHere
  <2> QED BY <1>1, <2>1
<1>3. \A n \in 1 .. N : StageApply(made, f, n, v[n - 1]) = v[n]
  <2> SUFFICES ASSUME NEW n \in 1 .. N PROVE StageApply(made, f, n, v[n - 1]) = v[n]
    OBVIOUS
  <2>1. n - 1 \in 0 .. N /\ n \in 0 .. N
    BY <1>0
  <2>2. v[n - 1] = StageValue(w, copies, live, bg, f, n - 1) /\ v[n] = StageValue(w, copies, live, bg, f, n)
    BY <2>1
  <2> HIDE DEF v
  <2> QED BY <1>t, <2>2, StageApplied
<1>4. v[0] = made.at_commit[f] /\ v[N] = live[f]
  <2>1. 0 \in 0 .. N /\ N \in 0 .. N
    BY <1>0
  <2> HIDE DEF N
  <2>2. v[0] = StageValue(w, copies, live, bg, f, 0) /\ v[N] = StageValue(w, copies, live, bg, f, N)
    BY <2>1
  <2> HIDE DEF v
  <2> QED BY <1>1, <1>t, <2>2, StageEnds DEF N
<1>5. F(v)
  <2>1. v = [n \in 0 .. N |-> v[n]]
    OBVIOUS
  <2> HIDE DEF v, N
  <2>2. \A n \in 0 .. N : v[n] = IF n = 0 THEN made.at_commit[f] ELSE StageApply(made, f, n, v[n - 1])
    BY <1>0, <1>3, <1>4
  <2> QED BY <2>1, <2>2
<1> HIDE DEF F, v, N
<1>6. PICK g : g = (CHOOSE h : F(h)) /\ F(g)
  BY <1>5
<1>7. /\ g[0] = made.at_commit[f]
      /\ \A n \in 1 .. N : g[n] = StageApply(made, f, n, g[n - 1])
  <2>1. \A n \in 0 .. N : g[n] = IF n = 0 THEN made.at_commit[f] ELSE StageApply(made, f, n, g[n - 1])
    BY <1>6 DEF F
  <2>2. 0 \in 0 .. N /\ \A n \in 1 .. N : n \in 0 .. N /\ n # 0
    BY <1>0
  <2> QED BY <2>1, <2>2
<1>8. \A n \in Nat : n \in 0 .. N => g[n] = v[n]
  <2> DEFINE S == {n \in Nat : n \in 0 .. N => g[n] = v[n]}
  <2>1. 0 \in S
    BY <1>4, <1>7
  <2>2. ASSUME NEW n \in Nat, n \in S PROVE n + 1 \in S
    <3> SUFFICES ASSUME n + 1 \in 0 .. N PROVE g[n + 1] = v[n + 1]
      BY <2>2
    <3>1. n \in 0 .. N /\ n + 1 \in 1 .. N /\ (n + 1) - 1 = n
      BY <1>0, <2>2
    <3>2. g[n] = v[n]
      BY <2>2, <3>1
    <3> QED BY <1>3, <1>7, <3>1, <3>2
  <2>3. Nat \subseteq S
    <3> HIDE DEF S
    <3> QED BY <2>1, <2>2, Numbers
  <2> QED BY <2>3
<1>9. g[N] = v[N]
  BY <1>0, <1>8
<1> QED BY <1>2, <1>4, <1>6, <1>9

(* A file that is not as its oldest copy has it is in a patch: of the      *)
(* copies it is not as, take the youngest.                                 *)
LEMMA StageInPatch ==
  ASSUME NEW w, NEW cs, NEW lv, NEW tm, StageFacts(w, cs, lv, tm), NEW f,
         NEW c \in StageOf(cs, f), StageBefore(w, cs, c) # lv[f]
  PROVE  \E p \in StageSet(w, cs, lv) : p.file = f
<1> DEFINE T == {d \in StageOf(cs, f) : StageBefore(w, cs, d) # lv[f]}
           K == {tm - d.at : d \in T}
<1>1. /\ tm \in Nat
      /\ \A d \in StageOf(cs, f) : d \in cs /\ d.file = f /\ d.at \in 1 .. tm /\ d.at \in Nat
  BY StageTypesOf DEF StageFacts, StageTypes, StageOf
<1>2. K \subseteq Nat /\ K # {}
  BY <1>1
<1>3. PICK k \in K : \A l \in K : k <= l
  <2> HIDE DEF K
  <2> QED BY <1>2, LeastNumber
<1>4. PICK d \in T : k = tm - d.at
  OBVIOUS
<1>5. d \in cs /\ d.file = f /\ d \in StageOf(cs, f) /\ StageBefore(w, cs, d) # lv[f]
  BY <1>1, <1>4
<1>6. ASSUME NEW e \in T PROVE e.at <= d.at
  <2>1. tm - e.at \in K
    OBVIOUS
  <2> HIDE DEF K
  <2>2. k <= tm - e.at
    BY <1>3, <2>1
  <2>3. e \in StageOf(cs, f)
    OBVIOUS
  <2>4. e.at \in Nat /\ d.at \in Nat
    BY <1>1, <1>5, <2>3
  <2> QED BY <1>1, <1>4, <2>2, <2>4
<1>7. StageAfter(cs, lv, d) = lv[f]
  <2>1. CASE StageLater(cs, d) = {}
    BY <1>5, <2>1 DEF StageAfter
  <2>2. CASE StageLater(cs, d) # {}
    <3> DEFINE e == StageFirst(StageLater(cs, d))
    <3>1. \A x \in StageLater(cs, d) : x \in StageOf(cs, f) /\ d.at < x.at /\ x.at \in Nat
      BY <1>1, <1>5 DEF StageLater
    <3>2. e \in StageLater(cs, d)
      BY <2>2, <3>1, StageFirstIs
    <3>3. StageAfter(cs, lv, d) = e.content
      BY <2>2 DEF StageAfter
    <3> HIDE DEF e
    <3>4. e \in StageOf(cs, f) /\ e.file = f /\ d.at < e.at /\ e.at \in Nat /\ d.at \in Nat
      BY <1>1, <1>5, <3>1, <3>2
    <3>5. StageFirst(StageOf(cs, f)).at <= d.at /\ StageFirst(StageOf(cs, f)).at \in Nat
      BY <1>1, <1>5, StageFirstIs
    <3>6. e # StageFirst(StageOf(cs, f))
      BY <3>4, <3>5
    <3>7. StageBefore(w, cs, e) = e.content
      BY <3>4, <3>6 DEF StageBefore
    <3>8. StageBefore(w, cs, e) = lv[f]
      BY <1>6, <3>4
    <3> QED BY <3>3, <3>7, <3>8
  <2> QED BY <2>1, <2>2
<1> HIDE DEF T
<1> DEFINE p == StagePatch(w, cs, lv, d)
<1>8. p.file = f /\ p.from # p.to
  BY <1>5, <1>7 DEF StagePatch
<1>9. p \in StageSet(w, cs, lv)
  BY <1>5, <1>8 DEF StageSet
<1> QED BY <1>8, <1>9

(* A file of the repository, copied only after it had changed.             *)
StageLate(w, cs, f) ==
  f \in w.repo /\ StageOf(cs, f) # {} /\ \A c \in StageOf(cs, f) : c.content # 1

(* The rest of what is promised.                                           *)
LEMMA StageStarts ==
  ASSUME NEW w \in Works, NEW tm, StageFacts(w, copies, live, tm),
         made = StageMade(w, copies, live)
  PROVE  Work(w)!StartsAtTheCommit /\ Work(w)!ChangesAreAccountedFor
<1>1. \A c \in copies : /\ c.file \in w.files /\ c.at \in Nat /\ c.content \in Nat \ {0}
  BY StageTypesOf DEF StageFacts
<1>2. \A f \in w.files : [g \in w.files |-> 1][f] = 1
  OBVIOUS
<1>3. /\ made.at_commit = StageCommit(w, copies, live) /\ made.patches = StageSet(w, copies, live)
      /\ made.unbacked = StageUnbacked(w, copies, live)
  BY DEF StageMade
<1>4. ASSUME NEW f \in w.files, f \notin made.unbacked
      PROVE  made.at_commit[f] = 1 \/ StageLate(w, copies, f)
  <2>1. CASE StageOf(copies, f) = {}
    <3>1. live[f] = 1
      BY <1>2, <1>3, <1>4, <2>1 DEF StageUnbacked
    <3>2. made.at_commit[f] = live[f]
      BY <1>3, <1>4, <2>1 DEF StageCommit
    <3> QED BY <3>1, <3>2
  <2>2. CASE StageOf(copies, f) # {}
    <3> DEFINE d == StageFirst(StageOf(copies, f))
    <3>0. \A c \in StageOf(copies, f) : c \in copies /\ c.file = f /\ c.at \in Nat
      BY <1>1 DEF StageOf
    <3>1. d \in StageOf(copies, f) /\ \A c \in StageOf(copies, f) : d.at <= c.at
      BY <2>2, <3>0, StageFirstIs
    <3>2. made.at_commit[f] = StageBefore(w, copies, d)
      BY <1>3, <2>2 DEF StageCommit
    <3>3. d \in copies /\ d.file = f
      BY <3>0, <3>1
    <3>4. d = StageFirst(StageOf(copies, d.file))
      BY <3>3
    <3> HIDE DEF d
    <3>5. CASE f \notin w.repo
      <4>1. StageBefore(w, copies, d) = [g \in w.files |-> 1][d.file]
        BY <1>4, <3>3, <3>4, <3>5 DEF StageBefore
      <4> QED BY <1>2, <3>2, <3>3, <4>1
    <3>6. CASE f \in w.repo /\ d.content # 1
      <4>1. ASSUME NEW c \in StageOf(copies, f) PROVE c.content # 1
        <5>1. c \in copies /\ c.file = f /\ d.at <= c.at
          BY <3>0, <3>1
        <5>2. c = d \/ d.at < c.at
          BY <1>1, <3>3, <5>1 DEF StageFacts, StageTimes
        <5>3. c = d \/ d.content <= c.content
          BY <3>3, <5>1, <5>2 DEF StageFacts, StageTimes
        <5> QED BY <1>1, <3>3, <3>6, <5>1, <5>3
      <4> QED BY <2>2, <3>6, <4>1 DEF StageLate
    <3>7. CASE f \in w.repo /\ d.content = 1
      <4>1. StageBefore(w, copies, d) = d.content
        BY <1>4, <3>3, <3>7 DEF StageBefore
      <4> QED BY <3>2, <3>7, <4>1
    <3> QED BY <3>5, <3>6, <3>7
  <2> QED BY <2>1, <2>2
<1>5. ASSUME NEW f \in w.files, live[f] # 1, f \notin made.unbacked, ~ StageLate(w, copies, f)
      PROVE  \E p \in made.patches : p.file = f
  <2>1. CASE StageOf(copies, f) = {}
    BY <1>2, <1>3, <1>5, <2>1 DEF StageUnbacked
  <2>2. CASE StageOf(copies, f) # {}
    <3> DEFINE d == StageFirst(StageOf(copies, f))
    <3>1. \A c \in StageOf(copies, f) : c.at \in Nat
      BY <1>1 DEF StageOf
    <3>2. d \in StageOf(copies, f)
      BY <2>2, <3>1, StageFirstIs
    <3>3. StageBefore(w, copies, d) = made.at_commit[f]
      BY <1>3, <2>2 DEF StageCommit
    <3> HIDE DEF d
    <3>4. StageBefore(w, copies, d) # live[f]
      BY <1>4, <1>5, <3>3
    <3> QED BY <1>3, <3>2, <3>4, StageInPatch
  <2> QED BY <2>1, <2>2
<1>6. \A f \in w.files : Work(w)!CopiedLate(f) <=> StageLate(w, copies, f)
  BY <1>2 DEF Work!CopiedLate, Work!OfFile, Work!Committed, StageLate, StageOf
<1>7. Work(w)!StartsAtTheCommit
  BY <1>2, <1>4, <1>6 DEF Work!StartsAtTheCommit, Work!Committed
<1>8. Work(w)!ChangesAreAccountedFor
  BY <1>2, <1>5, <1>6 DEF Work!ChangesAreAccountedFor, Work!Committed
<1> QED BY <1>7, <1>8

(* No patch goes back: a file is at least what its copies were.            *)
LEMMA StageForward ==
  ASSUME NEW w, NEW cs, NEW lv, NEW tm, StageFacts(w, cs, lv, tm),
         NEW c \in cs
  PROVE  StagePatch(w, cs, lv, c).from <= StagePatch(w, cs, lv, c).to
<1>1. \A d \in cs : /\ d.file \in w.files /\ d.at \in Nat /\ d.content \in Nat \ {0}
                    /\ d.content <= lv[d.file]
  BY StageTypesOf DEF StageFacts, StageTimes
<1>2. lv[c.file] \in Nat
  BY <1>1 DEF StageFacts, StageTypes
<1>3. StageBefore(w, cs, c) \in Nat /\ StageBefore(w, cs, c) <= c.content
  <2>1. [f \in w.files |-> 1][c.file] = 1 /\ c.content >= 1
    BY <1>1
  <2> QED BY <1>1, <2>1 DEF StageBefore
<1>4. c.content <= StageAfter(cs, lv, c) /\ StageAfter(cs, lv, c) \in Nat
  <2>1. CASE StageLater(cs, c) = {}
    BY <1>1, <1>2, <2>1 DEF StageAfter
  <2>2. CASE StageLater(cs, c) # {}
    <3> DEFINE d == StageFirst(StageLater(cs, c))
    <3>1. \A e \in StageLater(cs, c) : e \in cs /\ e.file = c.file /\ c.at < e.at /\ e.at \in Nat
      BY <1>1 DEF StageLater, StageOf
    <3>2. d \in StageLater(cs, c)
      BY <2>2, <3>1, StageFirstIs
    <3>3. StageAfter(cs, lv, c) = d.content
      BY <2>2 DEF StageAfter
    <3> HIDE DEF d
    <3>4. d \in cs /\ d.file = c.file /\ c.at < d.at
      BY <3>1, <3>2
    <3>5. c.content <= d.content
      BY <3>4 DEF StageFacts, StageTimes
    <3> QED BY <1>1, <3>3, <3>4, <3>5
  <2> QED BY <2>1, <2>2
<1>5. /\ StagePatch(w, cs, lv, c).from = StageBefore(w, cs, c)
      /\ StagePatch(w, cs, lv, c).to = StageAfter(cs, lv, c)
  BY DEF StagePatch
<1> QED BY <1>1, <1>3, <1>4, <1>5

LEMMA StageInit ==
  ASSUME NEW w \in Works, Work(w)!Init
  PROVE  StageInv(w)
<1>1. /\ live = [f \in w.files |-> 1] /\ time = 0 /\ copies = {}
      /\ Work(w)!Working
  BY DEF Work!Init, Work!Committed, Work!Working
<1>2. StageTypes(w, copies, live, time)
  BY <1>1, WorksAssumption, FS_EmptySet DEF StageTypes
<1>3. StageTimes(copies, live)
  BY <1>1 DEF StageTimes
<1> QED BY <1>1, <1>2, <1>3 DEF StageInv, StageFacts

(* A new copy is the youngest, and the stage's first of the file.          *)
LEMMA StageCopiesStep ==
  ASSUME NEW w \in Works, StageInv(w), NEW f \in w.files, NEW s \in w.stages, Work(w)!Copies(f, s)
  PROVE  StageInv(w)'
<1> DEFINE new == [file |-> f, stage |-> s, at |-> time + 1, content |-> live[f]]
<1>1. /\ Work(w)!Working /\ live' = live /\ made' = made /\ time' = time + 1
      /\ copies' = copies \cup {new}
      /\ ~ \E c \in copies : c.file = f /\ c.stage = s
  BY DEF Work!Copies, Work!Copied
<1>3. /\ live \in [w.files -> 1 .. w.edits + 1] /\ time \in Nat
      /\ IsFiniteSet(copies)
  BY DEF StageInv, StageFacts, StageTypes
<1>4. \A c \in copies : /\ c \in StageCopies(w, time) /\ c.file \in w.files /\ c.stage \in w.stages
                        /\ c.at \in 1 .. time /\ c.content \in Nat \ {0}
  BY StageTypesOf DEF StageInv, StageFacts, StageTypes
<1>5. live[f] \in Nat \ {0}
  BY <1>3, WorksAssumption
<1>6. /\ new.file = f /\ new.stage = s /\ new.at = time + 1 /\ new.content = live[f]
      /\ new \in StageCopies(w, time + 1)
  BY <1>3, <1>5 DEF StageCopies
<1>7. \A c \in copies : c \in StageCopies(w, time + 1) /\ c.at < new.at /\ c.at \in Nat
  <2> SUFFICES ASSUME NEW c \in copies PROVE c \in StageCopies(w, time + 1) /\ c.at < new.at /\ c.at \in Nat
    OBVIOUS
  <2>1. c.at \in 1 .. time + 1 /\ c.at < time + 1 /\ c.at \in Nat
    BY <1>3, <1>4
  <2>2. c \in StageCopies(w, time + 1)
    BY <1>4, <2>1 DEF StageCopies
  <2> QED BY <1>6, <2>1, <2>2
<1> HIDE DEF new
<1>8. IsFiniteSet(copies')
  BY <1>1, <1>3, FS_AddElement
<1>9. StageTypes(w, copies, live, time)'
  BY <1>1, <1>3, <1>6, <1>7, <1>8 DEF StageTypes
<1>10. StageTimes(copies, live)'
  <2>1. \A c \in copies' : c.content <= live'[c.file]
    BY <1>1, <1>5, <1>6 DEF StageInv, StageFacts, StageTimes
  <2>2. \A c, d \in copies' : c.at = d.at => c = d
    BY <1>1, <1>6, <1>7 DEF StageInv, StageFacts, StageTimes
  <2>3. \A c, d \in copies' : c.file = d.file /\ c.at < d.at => c.content <= d.content
    <3> SUFFICES ASSUME NEW c \in copies', NEW d \in copies', c.file = d.file, c.at < d.at
                 PROVE  c.content <= d.content
      OBVIOUS
    <3>1. CASE c \in copies /\ d \in copies
      BY <3>1 DEF StageInv, StageFacts, StageTimes
    <3>2. CASE c \in copies /\ d = new
      BY <1>6, <3>2 DEF StageInv, StageFacts, StageTimes
    <3>3. CASE c = new
      BY <1>1, <1>3, <1>6, <1>7, <3>3
    <3> QED BY <1>1, <3>1, <3>2, <3>3
  <2>4. \A c, d \in copies' : c.file = d.file /\ c.stage = d.stage => c = d
    BY <1>1, <1>6 DEF StageInv, StageFacts, StageTimes
  <2> QED BY <2>1, <2>2, <2>3, <2>4 DEF StageTimes
<1>12. Work(w)!Working'
  BY <1>1 DEF Work!Working, Work!Nothing, Work!Committed
<1> QED BY <1>9, <1>10, <1>12 DEF StageInv, StageFacts

LEMMA StageEditsStep ==
  ASSUME NEW w \in Works, StageInv(w), NEW f \in w.files, Work(w)!Edits(f)
  PROVE  StageInv(w)'
<1>1. /\ Work(w)!Working /\ live[f] <= w.edits /\ live' = [live EXCEPT ![f] = live[f] + 1]
      /\ UNCHANGED <<time, copies, made>>
  BY DEF Work!Edits
<1>2. live \in [w.files -> 1 .. w.edits + 1] /\ w.edits \in Nat
  BY WorksAssumption DEF StageInv, StageFacts, StageTypes
<1>3. live' \in [w.files -> 1 .. w.edits + 1]
  BY <1>1, <1>2
<1>4. \A g \in w.files : live[g] \in Nat /\ live[g] <= live'[g] /\ live'[g] \in Nat
  BY <1>1, <1>2
<1>5. StageTypes(w, copies, live, time)'
  BY <1>1, <1>3 DEF StageInv, StageFacts, StageTypes
<1>6. \A c \in copies : c.content <= live'[c.file]
  <2> SUFFICES ASSUME NEW c \in copies PROVE c.content <= live'[c.file]
    OBVIOUS
  <2>1. c.file \in w.files /\ c.content \in Nat
    BY StageTypesOf DEF StageInv, StageFacts
  <2>2. c.content <= live[c.file]
    BY DEF StageInv, StageFacts, StageTimes
  <2> QED BY <1>4, <2>1, <2>2
<1>7. StageTimes(copies, live)'
  BY <1>1, <1>6 DEF StageInv, StageFacts, StageTimes
<1>8. Work(w)!Working'
  BY <1>1 DEF Work!Working, Work!Nothing, Work!Committed
<1> QED BY <1>5, <1>7, <1>8 DEF StageInv, StageFacts

LEMMA StageMakesStep ==
  ASSUME NEW w \in Works, StageInv(w), Work(w)!Makes
  PROVE  StageInv(w)'
<1>1. UNCHANGED <<live, time, copies>>
  BY DEF Work!Makes
<1>2. Work(w)!Patches = StageSet(w, copies, live)
  BY DEF Work!Patches, Work!Before, Work!After, Work!First, Work!Later, Work!OfFile, Work!Committed,
         StageSet, StagePatch, StageBefore, StageAfter, StageFirst, StageLater, StageOf
<1>3. Work(w)!Order = StageOrder(copies)
  BY DEF Work!Order, Work!Stamped, Work!Oldest, Work!First, Work!Cardinality, Cardinality,
         StageOrder, StageRank, StageStamped, StageOldest, StageFirst
<1>4. Work(w)!AtCommit = StageCommit(w, copies, live)
  BY DEF Work!AtCommit, Work!OfFile, Work!Before, Work!First, Work!Committed,
         StageCommit, StageBefore, StageFirst, StageOf
<1>5. Work(w)!Unbacked = StageUnbacked(w, copies, live)
  BY DEF Work!Unbacked, Work!OfFile, Work!Committed, StageUnbacked, StageOf
<1>6. made' = StageMade(w, copies, live)
  BY <1>2, <1>3, <1>4, <1>5 DEF Work!Makes, StageMade
<1>7. made' = StageMade(w, copies', live')
  BY <1>1, <1>6
<1>8. StageFacts(w, copies, live, time)'
  BY <1>1 DEF StageInv
<1> QED BY <1>7, <1>8 DEF StageInv

LEMMA StageStep ==
  ASSUME NEW w \in Works, StageInv(w), Work(w)!Next
  PROVE  StageInv(w)'
BY StageCopiesStep, StageEditsStep, StageMakesStep DEF Work!Next

LEMMA StageSame ==
  ASSUME NEW w \in Works, StageInv(w), UNCHANGED stages
  PROVE  StageInv(w)'
BY DEF StageInv, stages, Work!Working, Work!Nothing, Work!Committed

LEMMA StageGoal ==
  ASSUME NEW w \in Works, StageInv(w)
  PROVE  /\ Work(w)!TypeOK /\ Work(w)!StackInStageOrder
         /\ Work(w)!StartsAtTheCommit /\ Work(w)!ChangesAreAccountedFor
<1>0. StageFacts(w, copies, live, time)
  BY DEF StageInv
<1>1. /\ live \in [w.files -> 1 .. w.edits + 1]
      /\ \A c \in copies : c.file \in w.files /\ c.stage \in w.stages /\ c.at \in 1 .. time
  BY <1>0, StageTypesOf DEF StageFacts, StageTypes
<1>2. CASE Work(w)!Working
  <2>1. made.patches = {}
    BY <1>2 DEF Work!Working, Work!Nothing
  <2> QED BY <1>1, <1>2, <2>1 DEF Work!TypeOK, Work!StackInStageOrder, Work!StartsAtTheCommit, Work!ChangesAreAccountedFor
<1>3. CASE made = StageMade(w, copies, live)
  <2>0. \A f \in w.files : Work(w)!InStageOrder(f) => StageInOrder(copies, f)
    BY DEF Work!InStageOrder, Work!OfFile, Work!Oldest, Work!First,
           StageInOrder, StageOf, StageOldest, StageFirst
  <2>1. \A f \in w.files : Work(w)!InStageOrder(f) => Work(w)!Stacked(f) = live[f]
    BY <1>0, <1>3, <2>0, StageStacks
  <2>2. \A p \in made.patches : p.from <= p.to
    BY <1>0, <1>3, StageForward DEF StageMade, StageSet
  <2>3. Work(w)!TypeOK
    BY <1>1, <2>2 DEF Work!TypeOK
  <2>4. Work(w)!StackInStageOrder
    BY <2>1 DEF Work!StackInStageOrder
  <2> QED BY <1>0, <1>3, <2>3, <2>4, StageStarts
<1> QED BY <1>2, <1>3 DEF StageInv

-----------------------------------------------------------------------------
(* The scripts together                                                    *)

ScriptsInv ==
  /\ \A g \in Games : script = <<"gate", g>> => GateInv(g)
  /\ \A f \in Forms : script = <<"cts", f>> => CtsInv(f)
  /\ \A s \in Series : script = <<"oracle", s>> => OracleInv(s)
  /\ \A c \in Caches : script = <<"cache", c>> => CacheInv(c)
  /\ \A w \in Works : script = <<"work", w>> => StageInv(w)
  /\ \A t \in Trees : script = <<"chain", t>> => ChainInv(t)

(* A behaviour is of one script, with one setting.                         *)
LEMMA OneScript ==
  ASSUME NEW k1, NEW k2, NEW s1, NEW s2, script = <<k1, s1>>, script = <<k2, s2>>
  PROVE  k1 = k2 /\ s1 = s2
OBVIOUS

LEMMA WhichInit ==
  ASSUME Init
  PROVE  /\ \A g : script = <<"gate", g>> => Gate(g)!Init
         /\ \A f : script = <<"cts", f>> => Cts(f)!Init
         /\ \A s : script = <<"oracle", s>> => Oracle(s)!Init
         /\ \A c : script = <<"cache", c>> => Cache(c)!Init
         /\ \A w : script = <<"work", w>> => Work(w)!Init
         /\ \A t : script = <<"chain", t>> => Chain(t)!Init
<1>1. CASE \E g \in Games : script = <<"gate", g>> /\ Gate(g)!Init
  BY <1>1, OneScript
<1>2. CASE \E f \in Forms : script = <<"cts", f>> /\ Cts(f)!Init
  BY <1>2, OneScript
<1>3. CASE \E s \in Series : script = <<"oracle", s>> /\ Oracle(s)!Init
  BY <1>3, OneScript
<1>4. CASE \E c \in Caches : script = <<"cache", c>> /\ Cache(c)!Init
  BY <1>4, OneScript
<1>5. CASE \E w \in Works : script = <<"work", w>> /\ Work(w)!Init
  BY <1>5, OneScript
<1>6. CASE \E t \in Trees : script = <<"chain", t>> /\ Chain(t)!Init
  BY <1>6, OneScript
<1> QED BY <1>1, <1>2, <1>3, <1>4, <1>5, <1>6 DEF Init

LEMMA WhichStep ==
  ASSUME [Next]_vars
  PROVE  /\ script' = script
         /\ \A g : script = <<"gate", g>> => Gate(g)!Next \/ UNCHANGED <<gate, report>>
         /\ \A f : script = <<"cts", f>> => Cts(f)!Next \/ UNCHANGED <<cts, report, file>>
         /\ \A s : script = <<"oracle", s>> => Oracle(s)!Next \/ UNCHANGED <<oracle, step, pc, report, file>>
         /\ \A c : script = <<"cache", c>> => Cache(c)!Next \/ UNCHANGED <<shader, step>>
         /\ \A w : script = <<"work", w>> => Work(w)!Next \/ UNCHANGED stages
         /\ \A t : script = <<"chain", t>> => Chain(t)!Next \/ UNCHANGED <<chain, pc>>
<1>1. CASE \E g \in Games : script = <<"gate", g>> /\ Gate(g)!Next
  BY <1>1, OneScript DEF Next, vars
<1>2. CASE \E f \in Forms : script = <<"cts", f>> /\ Cts(f)!Next
  BY <1>2, OneScript DEF Next, vars
<1>3. CASE \E s \in Series : script = <<"oracle", s>> /\ Oracle(s)!Next
  BY <1>3, OneScript DEF Next, vars
<1>4. CASE \E c \in Caches : script = <<"cache", c>> /\ Cache(c)!Next
  BY <1>4, OneScript DEF Next, vars
<1>5. CASE \E w \in Works : script = <<"work", w>> /\ Work(w)!Next
  BY <1>5, OneScript DEF Next, vars
<1>6. CASE \E t \in Trees : script = <<"chain", t>> /\ Chain(t)!Next
  BY <1>6, OneScript DEF Next, vars
<1>7. CASE UNCHANGED vars
  BY <1>7 DEF vars
<1> QED BY <1>1, <1>2, <1>3, <1>4, <1>5, <1>6, <1>7 DEF Next

LEMMA InitScripts == Init => ScriptsInv
<1> SUFFICES ASSUME Init PROVE ScriptsInv
  OBVIOUS
<1>1. \A g \in Games : script = <<"gate", g>> => GateInv(g)
  BY WhichInit, GateInit
<1>2. \A f \in Forms : script = <<"cts", f>> => CtsInv(f)
  BY WhichInit, CtsInit
<1>3. \A s \in Series : script = <<"oracle", s>> => OracleInv(s)
  BY WhichInit, OracleInit
<1>4. \A c \in Caches : script = <<"cache", c>> => CacheInv(c)
  BY WhichInit, CacheInit
<1>5. \A w \in Works : script = <<"work", w>> => StageInv(w)
  BY WhichInit, StageInit
<1>6. \A t \in Trees : script = <<"chain", t>> => ChainInv(t)
  BY WhichInit, ChainInit
<1> QED BY <1>1, <1>2, <1>3, <1>4, <1>5, <1>6 DEF ScriptsInv

LEMMA StepScripts == ScriptsInv /\ [Next]_vars => ScriptsInv'
<1> SUFFICES ASSUME ScriptsInv, [Next]_vars PROVE ScriptsInv'
  OBVIOUS
<1>1. ASSUME NEW g \in Games, script = <<"gate", g>> PROVE GateInv(g)'
  BY <1>1, WhichStep, GateStep, GateSame DEF ScriptsInv
<1>2. ASSUME NEW f \in Forms, script = <<"cts", f>> PROVE CtsInv(f)'
  BY <1>2, WhichStep, CtsStep, CtsSame DEF ScriptsInv
<1>3. ASSUME NEW s \in Series, script = <<"oracle", s>> PROVE OracleInv(s)'
  BY <1>3, WhichStep, OracleStep, OracleSame DEF ScriptsInv
<1>4. ASSUME NEW c \in Caches, script = <<"cache", c>> PROVE CacheInv(c)'
  BY <1>4, WhichStep, CacheStep, CacheSame DEF ScriptsInv
<1>5. ASSUME NEW w \in Works, script = <<"work", w>> PROVE StageInv(w)'
  BY <1>5, WhichStep, StageStep, StageSame DEF ScriptsInv
<1>6. ASSUME NEW t \in Trees, script = <<"chain", t>> PROVE ChainInv(t)'
  BY <1>6, WhichStep, ChainStep, ChainSame DEF ScriptsInv
<1> QED BY <1>1, <1>2, <1>3, <1>4, <1>5, <1>6, WhichStep DEF ScriptsInv

(* However many runs, comparisons, drivers or patches: what is invariant   *)
(* of the script a behaviour is of holds throughout.                       *)
THEOREM ScriptsHold == Spec => []ScriptsInv
BY InitScripts, StepScripts, PTL DEF Spec

(* What a gate accepts was measured where it says, for any runs, windows,  *)
(* bounds and stacks: the presents it counts are of the window after the   *)
(* action, the game presented until its end, and runs compared ran on the  *)
(* same stack (analyze_gameplay.py).                                       *)
THEOREM GateIsReal == Spec => []AcceptedRunsAreReal
<1>1. ScriptsInv => AcceptedRunsAreReal
  BY GateGoal DEF ScriptsInv, AcceptedRunsAreReal
<1> QED BY <1>1, ScriptsHold, PTL

(* A check is only started behind a complete comparison without regression *)
(* and the list written is the outcome of the run directories, for any     *)
(* number of runs and in both forms of the wait.                           *)
THEOREM ChecksAreBehindComparisons == Spec => []ChecksAreEarned
<1>1. ScriptsInv => ChecksAreEarned
  BY CtsGoal DEF ScriptsInv, ChecksAreEarned
<1> QED BY <1>1, ScriptsHold, PTL

(* No step takes a regression back, and no step of the patient wait is its *)
(* death at a file that is half written.                                   *)
THEOREM RegressionsStay == Spec => RegressionIsFinal
<1>1. ScriptsInv /\ [Next]_vars =>
        [ \A f \in Forms : script = <<"cts", f>> =>
            Cts(f)!RegressionStays /\ (f.tolerant => Cts(f)!PollSurvives) ]_ctsvars
  <2> SUFFICES ASSUME ScriptsInv, [Next]_vars, ctsvars' # ctsvars, NEW f \in Forms, script = <<"cts", f>>
               PROVE  Cts(f)!RegressionStays /\ (f.tolerant => Cts(f)!PollSurvives)
    OBVIOUS
  <2>1. CtsInv(f)
    BY DEF ScriptsInv
  <2>2. Cts(f)!Next
    BY WhichStep DEF ctsvars
  <2> QED BY <2>1, <2>2, CtsNeverAgain
<1> QED BY <1>1, ScriptsHold, PTL DEF Spec, RegressionIsFinal

(* A complete oracle file means a program that tells faults and drivers    *)
(* that are right, for any labels with any exemptions and any number of    *)
(* repetitions (run_final_oracle.py and the series before it).             *)
THEOREM SeriesAreRight == Spec => []CompleteMeansRight
<1>1. ScriptsInv => CompleteMeansRight
  BY OracleGoal DEF ScriptsInv, CompleteMeansRight
<1> QED BY <1>1, ScriptsHold, PTL

(* An ok of the cache verification means a driver that keeps its binaries  *)
(* as expected, for any shaders and any number of repetitions, and         *)
(* whichever of its runs fail.                                             *)
THEOREM CachesAreSound == Spec => []OkMeansSound
<1>1. ScriptsInv => OkMeansSound
  BY CacheGoal DEF ScriptsInv, OkMeansSound
<1> QED BY <1>1, ScriptsHold, PTL

(* The patches of a file the stages came to in the order in which they     *)
(* began stack: applied stage by stage they fit and give the live file, for*)
(* any files, stages, copies and edits, with stages taking turns and also  *)
(* of careless work; and no change is left out unreported, but for files   *)
(* that were copied too late (mkstagepatches.py).  Without that order they *)
(* need not: StackExactly fails.                                           *)
THEOREM PatchesStack == Spec => []StackInStageOrder
<1>1. ScriptsInv => StackInStageOrder
  BY StageGoal DEF ScriptsInv, StackInStageOrder
<1> QED BY <1>1, ScriptsHold, PTL

(* The answer about a worktree is right in both directions, for any files, *)
(* patches, pointers and exclusions, as long as nobody edits the tree.     *)
THEOREM ChainsAreSame == Spec => []OkMeansSame
<1>1. ScriptsInv => OkMeansSame
  BY ChainGoal DEF ScriptsInv, OkMeansSame
<1> QED BY <1>1, ScriptsHold, PTL
===============================================================================
