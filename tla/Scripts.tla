------------------------------- MODULE Scripts --------------------------------
(***************************************************************************)
(* The scripts that decide whether a change is accepted, each with the     *)
(* settings it may be run with.  They share nothing: script says which one *)
(* a behaviour is of, <<kind, setting>>, and the variables of the others   *)
(* stay 0.  (Where two scripts name a variable alike, they take turns in   *)
(* using it.)                                                              *)
(***************************************************************************)
EXTENDS Naturals, Sequences, FiniteSets

CONSTANTS
  Games,      \* GameplayGate: [runs, stacks, start, duration, intervals, rows, shots, may]
  Forms,      \* CtsGate: [total, tolerant, exact, starts]
  Series,     \* OracleSeries: [labels, repeats, final]
  Caches,     \* ShaderCache: [shaders, repeats, expect, faulty]
  Works,      \* StagePatches: [files, stages, repo, edits, careless]
  Trees       \* PatchChain: [names, docs, excluded, pointers, bases, patches, edits]

(* A window of the log, and what may at least be expected of it.           *)
ASSUME GamesAssumption ==
  \A g \in Games :
    g.start \in Nat /\ g.duration \in Nat /\ g.intervals \in Nat \ {0} /\ g.rows \in Nat

(* The comparisons have three and four runs.                               *)
ASSUME FormsAssumption ==
  \A f \in Forms : f.total \in Nat \ {0} /\ f.tolerant \in BOOLEAN /\ f.exact \in BOOLEAN

(* There is something to compile, and something is repeated.               *)
ASSUME CachesAssumption ==
  \A c \in Caches : c.shaders # {} /\ IsFiniteSet(c.shaders) /\ c.repeats \in Nat \ {0}

(* Edits are counted up to a bound.                                        *)
ASSUME WorksAssumption == \A w \in Works : w.edits \in Nat /\ w.careless \in BOOLEAN

(* The first label, the validation layers, is spared neither the first     *)
(* mode nor the control.                                                   *)
ASSUME SeriesAssumption ==
  \A s \in Series :
    /\ s.repeats \in Nat /\ Len(s.labels) \in Nat \ {0}
    /\ s.labels[1].skips \cap {"positive", "early-copy-control"} = {}

VARIABLES
  script,
  installed, stage, stack, log, half, action, counts, clock, presents, anchored, restarted,
  maker, outputs, starts, waiter, outcome,
  program, wrong,
  driver, repetition, cache, failures, answer,
  live, time, copies, made,
  base, patches, worktree, tracked, ignored, expected, listed, todo, got, quiet,
  report, file, pc, step

gate == <<installed, stage, stack, log, half, action, counts, clock, presents, anchored, restarted>>
cts == <<maker, outputs, starts, waiter, outcome>>
oracle == <<program, wrong>>
shader == <<driver, repetition, cache, failures, answer>>
stages == <<live, time, copies, made>>
chain == <<base, patches, worktree, tracked, ignored, expected, listed, todo, got, quiet>>

NoGate ==
  /\ installed = 0 /\ stage = 0 /\ stack = 0 /\ log = 0 /\ half = 0 /\ action = 0 /\ counts = 0
  /\ clock = 0 /\ presents = 0 /\ anchored = 0 /\ restarted = 0
NoCts == maker = 0 /\ outputs = 0 /\ starts = 0 /\ waiter = 0 /\ outcome = 0
NoOracle == program = 0 /\ wrong = 0
NoShader == driver = 0 /\ repetition = 0 /\ cache = 0 /\ failures = 0 /\ answer = 0
NoStages == live = 0 /\ time = 0 /\ copies = 0 /\ made = 0
NoChain ==
  /\ base = 0 /\ patches = 0 /\ worktree = 0 /\ tracked = 0 /\ ignored = 0
  /\ expected = 0 /\ listed = 0 /\ todo = 0 /\ got = 0 /\ quiet = 0

-----------------------------------------------------------------------------
(* A script with a setting                                                 *)

Gate(g) ==
  INSTANCE GameplayGate WITH
    Runs <- g.runs, Stacks <- g.stacks, Start <- g.start, Duration <- g.duration,
    MinIntervals <- g.intervals, MaxRows <- g.rows, MaxShots <- g.shots, MayHappen <- g.may

Cts(f) ==
  INSTANCE CtsGate WITH
    Total <- f.total, Tolerant <- f.tolerant, ExactBaseline <- f.exact, MaxStarts <- f.starts

Oracle(s) ==
  INSTANCE OracleSeries WITH Labels <- s.labels, Repeats <- s.repeats, Final <- s.final

Cache(c) ==
  INSTANCE ShaderCache WITH
    Shaders <- c.shaders, Repeats <- c.repeats, Expect <- c.expect, Faulty <- c.faulty

Work(w) ==
  INSTANCE StagePatches WITH
    Files <- w.files, Stages <- w.stages, InRepo <- w.repo,
    MaxEdits <- w.edits, Careless <- w.careless

Chain(t) ==
  INSTANCE PatchChain WITH
    Names <- t.names, RootDocs <- t.docs, Excluded <- t.excluded, AllowPointers <- t.pointers,
    Bases <- t.bases, Patches <- t.patches, Edits <- t.edits

-----------------------------------------------------------------------------

Init ==
  \/ /\ \E g \in Games : script = <<"gate", g>> /\ Gate(g)!Init
     /\ NoCts /\ NoOracle /\ NoShader /\ NoStages /\ NoChain
     /\ file = 0 /\ pc = 0 /\ step = 0
  \/ /\ \E f \in Forms : script = <<"cts", f>> /\ Cts(f)!Init
     /\ NoGate /\ NoOracle /\ NoShader /\ NoStages /\ NoChain /\ pc = 0 /\ step = 0
  \/ /\ \E s \in Series : script = <<"oracle", s>> /\ Oracle(s)!Init
     /\ NoGate /\ NoCts /\ NoShader /\ NoStages /\ NoChain
  \/ /\ \E c \in Caches : script = <<"cache", c>> /\ Cache(c)!Init
     /\ NoGate /\ NoCts /\ NoOracle /\ NoStages /\ NoChain /\ report = 0 /\ file = 0 /\ pc = 0
  \/ /\ \E w \in Works : script = <<"work", w>> /\ Work(w)!Init
     /\ NoGate /\ NoCts /\ NoOracle /\ NoShader /\ NoChain
     /\ report = 0 /\ file = 0 /\ pc = 0 /\ step = 0
  \/ /\ \E t \in Trees : script = <<"chain", t>> /\ Chain(t)!Init
     /\ NoGate /\ NoCts /\ NoOracle /\ NoShader /\ NoStages
     /\ report = 0 /\ file = 0 /\ step = 0

Next ==
  /\ UNCHANGED script
  /\ \/ /\ \E g \in Games : script = <<"gate", g>> /\ Gate(g)!Next
        /\ UNCHANGED <<cts, oracle, shader, stages, chain, file, pc, step>>
     \/ /\ \E f \in Forms : script = <<"cts", f>> /\ Cts(f)!Next
        /\ UNCHANGED <<gate, oracle, shader, stages, chain, pc, step>>
     \/ /\ \E s \in Series : script = <<"oracle", s>> /\ Oracle(s)!Next
        /\ UNCHANGED <<gate, cts, shader, stages, chain>>
     \/ /\ \E c \in Caches : script = <<"cache", c>> /\ Cache(c)!Next
        /\ UNCHANGED <<gate, cts, oracle, stages, chain, report, file, pc>>
     \/ /\ \E w \in Works : script = <<"work", w>> /\ Work(w)!Next
        /\ UNCHANGED <<gate, cts, oracle, shader, chain, report, file, pc, step>>
     \/ /\ \E t \in Trees : script = <<"chain", t>> /\ Chain(t)!Next
        /\ UNCHANGED <<gate, cts, oracle, shader, stages, report, file, step>>

vars == <<script, gate, cts, oracle, shader, stages, chain, report, file, pc, step>>

ctsvars == <<cts, report, file>>
shadervars == <<shader, step>>

(* The patient form of the wait looks at its deadline in every turn; the   *)
(* test processes of a series that does not fail go on.                    *)
Spec ==
  /\ Init /\ [][Next]_vars
  /\ \A f \in Forms : f.tolerant =>
       /\ WF_ctsvars(script = <<"cts", f>> /\ Cts(f)!GivesUp)
       /\ WF_ctsvars(script = <<"cts", f>> /\ Cts(f)!ChecksEnd)
  /\ \A c \in Caches : ~ c.faulty => WF_shadervars(script = <<"cache", c>> /\ Cache(c)!Next)

-----------------------------------------------------------------------------
(* Properties: those of the modules, of the scripts they are about         *)

(* What an accepted run measures lies in the window after its action: no   *)
(* present of the menu or the loading, none after its end; its intervals   *)
(* are between presents that followed each other, and the game presented   *)
(* until the window closed: unless the log was begun again.  Runs in one   *)
(* answer ran on the same stack.                                           *)
AcceptedRunsAreReal ==
  \A g \in Games : script = <<"gate", g>> =>
    /\ Gate(g)!TypeOK /\ Gate(g)!AnswersCompare
    /\ "reset" \notin g.may =>
         Gate(g)!WindowIsInTime /\ Gate(g)!IntervalsAreReal /\ Gate(g)!RanThroughTheWindow

(* Checks start only behind a complete comparison without regression, and  *)
(* a list of results that was written is that of the run directories.      *)
ChecksAreEarned ==
  \A f \in Forms : script = <<"cts", f>> =>
    Cts(f)!TypeOK /\ Cts(f)!ChecksAreEarned /\ Cts(f)!FileIsTheOutcome

(* A comparison that regressed is never followed by one that hides it, and *)
(* the patient form is not killed by a file it finds half written.         *)
RegressionIsFinal ==
  [][ \A f \in Forms : script = <<"cts", f>> =>
        Cts(f)!RegressionStays /\ (f.tolerant => Cts(f)!PollSurvives) ]_ctsvars

(* A complete oracle file means a program that finds faults, and only real *)
(* ones, and drivers that are right in every mode; a blind program is      *)
(* found out before anything is written about a driver, and no later run   *)
(* is started to replace one that surprised.  The series without controls  *)
(* still finds a wrong driver.                                             *)
CompleteMeansRight ==
  \A s \in Series : script = <<"oracle", s>> =>
    /\ Oracle(s)!TypeOK /\ Oracle(s)!SurpriseIsLast /\ Oracle(s)!CompleteMeansNoFault
    /\ s.final => Oracle(s)!CompleteMeansRight /\ Oracle(s)!BlindIsCaughtFirst

(* Only a driver whose cache does what was expected of it gets an "ok",    *)
(* whichever runs fail on their own account.                               *)
OkMeansSound ==
  \A c \in Caches : script = <<"cache", c>> => Cache(c)!TypeOK /\ Cache(c)!OkMeansSound

(* A script that waits for a comparison comes to an end, also when nobody  *)
(* makes it or its maker died; and a sound driver is not rejected for what *)
(* an earlier repetition left in its cache.                                *)
WaitsEnd ==
  /\ \A f \in Forms : f.tolerant =>
       ((script = <<"cts", f>> /\ waiter = "waiting")
          ~> (script = <<"cts", f>> /\ waiter \in {"passed", "refused", "died"}))
  /\ \A c \in Caches : ~ c.faulty =>
       ((script = <<"cache", c>>
           /\ IF c.expect = "separated" THEN Cache(c)!Separates ELSE Cache(c)!Shares)
          ~> (script = <<"cache", c>> /\ answer = "ok"))

(* The patches of a file, applied one after the other to its state at the  *)
(* commit, fit and give the live file, if the stages came to it in the     *)
(* order in which they began: also when they took turns, or the work was   *)
(* careless.  They start from the commit, but for what is reported and for *)
(* files of the repository that were copied too late, and a changed file   *)
(* is in a patch or in the report.                                         *)
StackInStageOrder ==
  \A w \in Works : script = <<"work", w>> =>
    /\ Work(w)!TypeOK /\ Work(w)!StackInStageOrder
    /\ Work(w)!StartsAtTheCommit /\ Work(w)!ChangesAreAccountedFor

(* "ok" for a tree nobody edits means that it is the stack's, file by file,*)
(* and that every patch of the stack found what it expects; and a tree     *)
(* that is the stack's is not rejected.                                    *)
OkMeansSame ==
  \A t \in Trees : script = <<"chain", t>> =>
    Chain(t)!TypeOK /\ Chain(t)!OkMeansSame /\ Chain(t)!SameMeansOk /\ Chain(t)!OkMeansStacked
=============================================================================
