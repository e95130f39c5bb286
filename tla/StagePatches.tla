----------------------------- MODULE StagePatches -----------------------------
(***************************************************************************)
(* mkstagepatches.py: the history of a source tree, made again as one      *)
(* patch per stage of the work, from the copies that were taken of files   *)
(* right before they were changed, <file>.before_<stage>.                  *)
(*                                                                         *)
(* The model is the work and then the script.  The content of a file is a  *)
(* number, raised by every edit; a copy carries the time it was taken.     *)
(* Which name of a copy stands for which file is given (a name that fits   *)
(* several files is reported by the script and left out).                  *)
(*                                                                         *)
(* Right before some definitions stands a variant of them with a mistake   *)
(* in it; nothing uses it.                                                 *)
(***************************************************************************)
EXTENDS Naturals, Sequences, FiniteSets

CONSTANTS
  Files, Stages,
  InRepo,        \* files a patch of the repository touches
  MaxEdits,      \* bound on edits of a file
  Careless       \* files may be edited before, or without, a copy

VARIABLES
  live,          \* the tree
  time,
  copies,        \* [file, stage, at, content]
  made           \* the script's result, or none yet

vars == <<live, time, copies, made>>

(* The last commit of the repository is at time 0 with content 1; what it  *)
(* has not patched is still that of the base tree. *)
Committed == [f \in Files |-> 1]

Nothing == [stages |-> <<>>, patches |-> {}, at_commit |-> Committed, unbacked |-> {}]

Init ==
  /\ live = Committed /\ time = 0 /\ copies = {} /\ made = Nothing

-----------------------------------------------------------------------------
(* The work                                                                *)

Working == made = Nothing
OfFile(f) == {c \in copies : c.file = f}
Copied(f, s) == \E c \in copies : c.file = f /\ c.stage = s

(* A copy, before the stage changes the file for the first time; nothing   *)
(* keeps one stage from going on when another has begun.                   *)
Copies(f, s) ==
  /\ Working /\ ~Copied(f, s)
  /\ time' = time + 1
  /\ copies' = copies \cup {[file |-> f, stage |-> s, at |-> time', content |-> live[f]]}
  /\ UNCHANGED <<live, made>>

EditsOnceMore(f) ==
  /\ Working /\ live[f] <= MaxEdits + 1
  /\ live' = [live EXCEPT ![f] = @ + 1]
  /\ UNCHANGED <<time, copies, made>>

(* An edit, of a file some stage has copied. *)
Edits(f) ==
  /\ Working /\ live[f] <= MaxEdits
  /\ Careless \/ OfFile(f) # {}
  /\ live' = [live EXCEPT ![f] = @ + 1]
  /\ UNCHANGED <<time, copies, made>>

-----------------------------------------------------------------------------
(* The script                                                              *)

(* The oldest of some copies; those of its file that are younger than one. *)
First(some) == CHOOSE c \in some : \A d \in some : c.at <= d.at
Later(c) == {d \in OfFile(c.file) : c.at < d.at}

(* What a copy says its stage began with: the first copy of a file the     *)
(* repository does not patch is that of the base, whatever was copied.     *)
Before(c) ==
  IF c = First(OfFile(c.file)) /\ c.file \notin InRepo THEN Committed[c.file] ELSE c.content

(* What its stage made of the file: what the next copy holds, or what there*)
(* is now.                                                                 *)
After(c) == IF Later(c) = {} THEN live[c.file] ELSE First(Later(c)).content

PatchesToLive ==
  {[stage |-> c.stage, file |-> c.file, from |-> Before(c), to |-> live[c.file]] : c \in copies}

(* A stage that left a copied file as it was has no part in it. *)
Patches ==
  {p \in {[stage |-> c.stage, file |-> c.file, from |-> Before(c), to |-> After(c)] : c \in copies} :
     p.from # p.to}

(* Stages in the order of their oldest copy. *)
Stamped == {c.stage : c \in copies}
Oldest(s) == First({c \in copies : c.stage = s}).at
Order ==
  [i \in 1 .. Cardinality(Stamped) |->
     CHOOSE s \in Stamped : Cardinality({t \in Stamped : Oldest(t) < Oldest(s)}) = i - 1]

AtCommit == [f \in Files |-> IF OfFile(f) = {} THEN live[f] ELSE Before(First(OfFile(f)))]

NobodyIsUnbacked == {}

(* Changed since the commit, and nobody took a copy: reported. *)
Unbacked == {f \in Files : OfFile(f) = {} /\ live[f] # Committed[f]}

Makes ==
  /\ Working /\ copies # {}
  /\ made' = [stages |-> Order, patches |-> Patches, at_commit |-> AtCommit, unbacked |-> Unbacked]
  /\ UNCHANGED <<live, time, copies>>

-----------------------------------------------------------------------------

Next == (\E f \in Files : Edits(f) \/ \E s \in Stages : Copies(f, s)) \/ Makes

Spec == Init /\ [][Next]_vars

-----------------------------------------------------------------------------
(* Properties                                                              *)

TypeOK ==
  /\ live \in [Files -> 1 .. MaxEdits + 1]
  /\ \A c \in copies : c.file \in Files /\ c.stage \in Stages /\ c.at \in 1 .. time
  /\ \A p \in made.patches : p.from <= p.to

(* A file as the stages' patches, in their order, leave it; 0 when one of  *)
(* them does not fit.                                                      *)
Stacked(f) ==
  LET here(n) == {p \in made.patches : p.file = f /\ p.stage = made.stages[n]}
      after[n \in 0 .. Len(made.stages)] ==
        IF n = 0 THEN made.at_commit[f]
        ELSE IF here(n) = {} THEN after[n - 1]
        ELSE IF \A p \in here(n) : p.from = after[n - 1] THEN (CHOOSE p \in here(n) : TRUE).to
        ELSE 0
  IN after[Len(made.stages)]

(* The patches, applied one after the other to the state at the commit,    *)
(* fit, and give the live tree: what the head of the script says.  Not so  *)
(* when a stage comes to a file after a stage that began later than it.    *)
StackExactly == ~Working => \A f \in Files : Stacked(f) = live[f]

(* The stages came to the file in the order in which they began, each with *)
(* its first copy of whatever file.                                        *)
InStageOrder(f) == \A c, d \in OfFile(f) : c.at < d.at => Oldest(c.stage) < Oldest(d.stage)

(* What does hold: a file is made again exactly whenever the stages came   *)
(* to it in their order, however they took turns otherwise.                *)
StackInStageOrder == ~Working => \A f \in Files : InStageOrder(f) => Stacked(f) = live[f]

(* A file the repository patches was copied only after it had changed.     *)
CopiedLate(f) == f \in InRepo /\ OfFile(f) # {} /\ \A c \in OfFile(f) : c.content # Committed[f]

(* The state the patches start from is that of the commit, except for a    *)
(* file that is reported or was copied too late.                           *)
StartsAtTheCommit ==
  ~Working => \A f \in Files \ made.unbacked : made.at_commit[f] = Committed[f] \/ CopiedLate(f)

(* No change goes missing: a file that is not as it was is in a patch or   *)
(* in the report, or was copied too late.                                  *)
ChangesAreAccountedFor ==
  ~Working => \A f \in Files : live[f] # Committed[f] =>
    \/ f \in made.unbacked \/ CopiedLate(f)
    \/ \E p \in made.patches : p.file = f
=============================================================================
