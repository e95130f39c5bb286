------------------------------- MODULE Readers --------------------------------
(***************************************************************************)
(* The tools that read dumps, logs and traces, each with the settings it   *)
(* may be run with: the parser of isapairs.py and what stands behind it,   *)
(* the logger of ioctls with blobdeps.py and passtime.py, and              *)
(* analyze_query_trace.py.  They share nothing: script says which one a    *)
(* behaviour is of, <<kind, setting>>, and the variables of the others     *)
(* stay 0.                                                                 *)
(***************************************************************************)
EXTENDS Integers, Sequences, FiniteSets

CONSTANTS
  Dumps,      \* IsaDump: [lines, max]
  Pairings,   \* IsaPairs: [sys, pvk, wants, runs]
  Loggers,    \* AtomTrace: [threads, numbers, groups, subs, serialised, silent]
  Programs    \* QueryTrace: [buffers, traced, frames, cmds, submits]

(* Lines are what the patterns of the parser make of them, and there is no *)
(* shader at address 0.                                                    *)
ASSUME DumpsAssumption ==
  \A d \in Dumps : d.max \in Nat /\ \A l \in d.lines :
    /\ l[1] \in {"header", "instr", "blank", "stage", "regs", "binary"}
    /\ l[1] = "blank" => l = <<"blank">>
    /\ l[1] = "header" => l = <<"header", l[2]>> /\ l[2] # 0
    /\ l[1] = "stage" => l[2] # "none"

(* A dump is made of sequences: of uses, of the lines of a shader.         *)
ASSUME PairingsAssumption ==
  \A x \in Pairings :
    /\ x.runs \in Nat /\ x.wants \subseteq Nat
    /\ \A d \in x.sys \cup x.pvk :
         /\ d.uses \in Seq({d.uses[k] : k \in DOMAIN d.uses})
         /\ \A v \in DOMAIN d.code : d.code[v] \in Seq({d.code[v][k] : k \in DOMAIN d.code[v]})

(* A submission is a sequence of atoms, of one of the kinds the scripts    *)
(* tell apart.                                                             *)
ASSUME LoggersAssumption ==
  \A l \in Loggers :
    /\ l.subs \in Nat /\ l.serialised \in BOOLEAN /\ l.silent \in BOOLEAN
    /\ l.groups \subseteq Seq({"vtc", "frag", "compute", "dep"})

(* A program presents at least one frame.                                  *)
ASSUME ProgramsAssumption ==
  \A p \in Programs : p.frames \in Nat \ {0} /\ p.cmds \in Nat /\ p.submits \in Nat

VARIABLES
  script,
  dump, code, cur, stage, regs, uses,
  runs, dumps, want, recs, cans, picked, chosen, dir, pc,
  clock, held, call, atoms, ended, events, reader, log, subs,
  frame, real, seen, previous, row, truth, submits

parser == <<dump, code, cur, stage, regs, uses>>
pairs == <<runs, dumps, want, recs, cans, picked, chosen, dir, pc>>
logger == <<clock, held, call, atoms, ended, events, reader, log, subs>>
program == <<frame, real, seen, previous, row, truth, submits>>

NoDump == dump = 0 /\ code = 0 /\ cur = 0 /\ stage = 0 /\ regs = 0 /\ uses = 0
NoPairs ==
  /\ runs = 0 /\ dumps = 0 /\ want = 0 /\ recs = 0 /\ cans = 0 /\ picked = 0 /\ chosen = 0
  /\ dir = 0 /\ pc = 0
NoAtoms ==
  /\ clock = 0 /\ held = 0 /\ call = 0 /\ atoms = 0 /\ ended = 0 /\ events = 0 /\ reader = 0
  /\ log = 0 /\ subs = 0
NoQuery ==
  /\ frame = 0 /\ real = 0 /\ seen = 0 /\ previous = 0 /\ row = 0 /\ truth = 0 /\ submits = 0

-----------------------------------------------------------------------------
(* A tool with a setting                                                   *)

Parser(d) == INSTANCE IsaDump WITH Lines <- d.lines, MaxLines <- d.max

Pairing(x) ==
  INSTANCE IsaPairs WITH SysDumps <- x.sys, PvkDumps <- x.pvk, Wants <- x.wants, MaxRuns <- x.runs

Logger(l) ==
  INSTANCE AtomTrace WITH
    Threads <- l.threads, Numbers <- l.numbers, Groups <- l.groups, MaxSubs <- l.subs,
    Serialised <- l.serialised, Silent <- l.silent

Program(p) ==
  INSTANCE QueryTrace WITH
    Buffers <- p.buffers, Traced <- p.traced, MaxFrame <- p.frames, MaxCmds <- p.cmds,
    MaxSubmits <- p.submits

-----------------------------------------------------------------------------

Init ==
  \/ (\E d \in Dumps : script = <<"dump", d>> /\ Parser(d)!Init) /\ NoPairs /\ NoAtoms /\ NoQuery
  \/ (\E x \in Pairings : script = <<"pairs", x>> /\ Pairing(x)!Init) /\ NoDump /\ NoAtoms /\ NoQuery
  \/ (\E l \in Loggers : script = <<"log", l>> /\ Logger(l)!Init) /\ NoDump /\ NoPairs /\ NoQuery
  \/ (\E p \in Programs : script = <<"trace", p>> /\ Program(p)!Init) /\ NoDump /\ NoPairs /\ NoAtoms

Next ==
  /\ UNCHANGED script
  /\ \/ /\ \E d \in Dumps : script = <<"dump", d>> /\ Parser(d)!Next
        /\ UNCHANGED <<pairs, logger, program>>
     \/ /\ \E x \in Pairings : script = <<"pairs", x>> /\ Pairing(x)!Next
        /\ UNCHANGED <<parser, logger, program>>
     \/ /\ \E l \in Loggers : script = <<"log", l>> /\ Logger(l)!Next
        /\ UNCHANGED <<parser, pairs, program>>
     \/ /\ \E p \in Programs : script = <<"trace", p>> /\ Program(p)!Next
        /\ UNCHANGED <<parser, pairs, logger>>

vars == <<script, parser, pairs, logger, program>>

Spec == Init /\ [][Next]_vars

-----------------------------------------------------------------------------
(* Properties: those of the modules, of the tools they are about           *)

(* What isapairs.py keeps of an address is the last copy of it, whole, and *)
(* a use has the registers of its own descriptor, never of the one before. *)
UsesAreTheirDescriptors ==
  \A d \in Dumps : script = <<"dump", d>> =>
    Parser(d)!TypeOK /\ Parser(d)!KeepsOneCopy /\ Parser(d)!UsesAreTheirDescriptors

(* No draw is lost or counted twice on the way to the archetypes, each of  *)
(* which is shown by its most drawn address; the pairs are one to one and  *)
(* stable, one is only left out behind pairs that are as good, and a run   *)
(* that gets to its end leaves a directory that is all its own.            *)
PairsAreTheBest ==
  \A x \in Pairings : script = <<"pairs", x>> =>
    /\ Pairing(x)!TypeOK /\ Pairing(x)!NoDrawIsLost /\ Pairing(x)!ShownByTheMostDrawn
    /\ Pairing(x)!PairsAreStable /\ Pairing(x)!TheBestAreChosen /\ Pairing(x)!DirectoryIsOfOneRun

(* The time passtime.py gives an atom is that of its own end, if every     *)
(* atom has an event; no time is busy twice; and the dependencies          *)
(* blobdeps.py counts are those the kernel took, if the driver submits     *)
(* under a lock.                                                           *)
TimesAreTrue ==
  \A l \in Loggers : script = <<"log", l>> =>
    /\ Logger(l)!TypeOK /\ Logger(l)!BusyTimeIsNotCountedTwice
    /\ ~ l.silent => Logger(l)!CompletionIsItsOwn
    /\ l.serialised => Logger(l)!DependenciesAreTheKernels

(* What is counted of complete submissions is what was submitted, what the *)
(* script says of a buffer it vouches for is that buffer as it is, and no  *)
(* submission with secondary buffers is called complete.                   *)
CompleteIsTheTruth ==
  /\ [](\A p \in Programs : script = <<"trace", p>> =>
          Program(p)!TypeOK /\ Program(p)!CompleteIsTheTruth /\ Program(p)!VouchedIsCurrent)
  /\ [][ \A p \in Programs : script = <<"trace", p>> => Program(p)!NoSecondaryCompletes ]_program
=============================================================================
