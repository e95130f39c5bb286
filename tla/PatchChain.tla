------------------------------ MODULE PatchChain ------------------------------
(***************************************************************************)
(* tools/verify_patch_chain.py: a base commit and a list of patches make a *)
(* tree in a scratch index; every file of it, and every file Git sees in   *)
(* the work tree, is compared, apart from what was excluded by name.       *)
(*                                                                         *)
(* The work tree is listed first and then read file by file, while         *)
(* somebody may go on editing it.  A file is <<mode, content>>, or absent; *)
(* a patch says what it expects and leaves of the files it touches.        *)
(*                                                                         *)
(* Right before some definitions stands a variant of them with a mistake   *)
(* in it; nothing uses it.                                                 *)
(***************************************************************************)
EXTENDS Naturals, Sequences, FiniteSets, Functions

CONSTANTS
  Names, RootDocs,    \* paths; those that are Markdown files of the root
  Excluded,           \* given on the command line
  AllowPointers,      \* --allow-root-doc-pointer-mode
  Bases, Patches,     \* trees; patches to choose from
  Edits               \* what somebody may put into the work tree
  

VARIABLES
  base, patches,      \* the command line
  worktree,           \* the tree
  tracked, ignored,   \* files in its index; others Git is told to ignore
  expected,           \* the reconstructed tree
  listed, todo, got,  \* paths to compare, still to be read, entries that were read
  pc,                 \* "list", "reconstruct", "read", "ok", "different", "error"
  quiet               \* history: nobody edited since the script was started

vars == <<base, patches, worktree, tracked, ignored, expected, listed, todo, got, pc, quiet>>

Absent == <<"absent", 0>>

-----------------------------------------------------------------------------
(* A patch: [name -> [from, to]] over the names it touches.                *)

Fits(patch, tree) == \A n \in DOMAIN patch : tree[n] = patch[n].from

Applied(patch, tree) == [n \in Names |-> IF n \in DOMAIN patch THEN patch[n].to ELSE tree[n]]

(* The tree after each patch, and whether all of them fit. *)
Stack(list) ==
  LET s[i \in 0 .. Len(list)] ==
        IF i = 0 THEN [tree |-> base, fits |-> TRUE]
        ELSE [tree |-> Applied(list[i], s[i - 1].tree),
              fits |-> s[i - 1].fits /\ Fits(list[i], s[i - 1].tree)]
  IN s[Len(list)]

Commands == {<<>>} \cup {<<p>> : p \in Patches} \cup {<<p, q>> : p, q \in Patches}

Init ==
  /\ base \in Bases /\ patches \in Commands
  /\ worktree \in [Names -> Edits \cup {Absent}]
  /\ tracked \in SUBSET Names /\ ignored \in SUBSET (Names \ tracked)
  /\ expected = base /\ listed = {} /\ todo = {} /\ got = <<>>
  /\ pc = "reconstruct" /\ quiet = TRUE

ReconstructsAnyway ==
  /\ pc = "reconstruct"
  /\ expected' = Stack(patches).tree /\ pc' = "list"
  /\ UNCHANGED <<base, patches, worktree, tracked, ignored, listed, todo, got, quiet>>

(* A patch that does not fit is an error. *)
Reconstructs ==
  /\ pc = "reconstruct"
  /\ IF Stack(patches).fits
       THEN expected' = Stack(patches).tree /\ pc' = "list"
       ELSE pc' = "error" /\ UNCHANGED expected
  /\ UNCHANGED <<base, patches, worktree, tracked, ignored, listed, todo, got, quiet>>

In(tree) == {n \in Names : tree[n] # Absent}

VisibleInIndex == tracked

(* --cached, --others: what is in the index, there or not, and what is     *)
(* there and not ignored.                                                  *)
Visible == tracked \cup (In(worktree) \ ignored)

ListsUnexcluded ==
  /\ pc = "list"
  /\ listed' = In(expected) \cup Visible
  /\ todo' = listed' \ Excluded
  /\ got' = [n \in todo' |-> Absent]
  /\ pc' = "read"
  /\ UNCHANGED <<base, patches, worktree, tracked, ignored, expected, quiet>>

ListsPaths ==
  /\ pc = "list"
  /\ listed' = In(expected) \cup Visible
  /\ todo' = listed' \ Excluded
  /\ got' = [n \in listed' |-> Absent]
  /\ pc' = "read"
  /\ UNCHANGED <<base, patches, worktree, tracked, ignored, expected, quiet>>

(* Names in their order; what has gone in the meantime is absent. *)
ReadsFile ==
  /\ pc = "read" /\ todo # {}
  /\ \E n \in todo :
       /\ got' = [got EXCEPT ![n] = worktree[n]]
       /\ todo' = todo \ {n}
  /\ UNCHANGED <<base, patches, worktree, tracked, ignored, expected, listed, pc, quiet>>

(* A Markdown file of the root may be a link that holds the same bytes.    *)
IsPointer(n) ==
  /\ AllowPointers /\ n \in RootDocs
  /\ {expected[n][1], got[n][1]} = {"file", "link"} /\ expected[n][2] = got[n][2]

StrictDifferences == {n \in listed \ Excluded : expected[n] # got[n]}

Differences == {n \in listed \ Excluded : ~IsPointer(n) /\ expected[n] # got[n]}

Answers ==
  /\ pc = "read" /\ todo = {}
  /\ pc' = IF Differences = {} THEN "ok" ELSE "different"
  /\ UNCHANGED <<base, patches, worktree, tracked, ignored, expected, listed, todo, got, quiet>>

(* Somebody else. *)
Edit ==
  /\ pc \in {"list", "read"} /\ quiet
  /\ \E n \in Names, e \in Edits \cup {Absent} :
       e # worktree[n] /\ worktree' = [worktree EXCEPT ![n] = e]
  /\ quiet' = FALSE
  /\ UNCHANGED <<base, patches, tracked, ignored, expected, listed, todo, got, pc>>

Next == Reconstructs \/ ListsPaths \/ ReadsFile \/ Answers \/ Edit

Spec == Init /\ [][Next]_vars

-----------------------------------------------------------------------------
(* Properties                                                              *)

TypeOK ==
  /\ todo \subseteq listed /\ listed \subseteq Names
  /\ pc \in {"reconstruct", "list", "read", "ok", "different", "error"}
  /\ pc \in {"read", "ok", "different"} => DOMAIN got = listed

(* A tree is the stack's if they are the same apart from what was excluded,*)
(* from links to documents, and from files that neither the stack nor Git  *)
(* knows of.                                                               *)
Same(tree) ==
  \A n \in Names \ Excluded :
    \/ tree[n] = expected[n]
    \/ /\ AllowPointers /\ n \in RootDocs /\ tree[n][2] = expected[n][2]
       /\ {tree[n][1], expected[n][1]} = {"file", "link"}
    \/ n \in ignored /\ expected[n] = Absent

(* On a tree nobody edits, "ok" means that the tree is the stack's: no     *)
(* file of it, whether new, deleted, executable or a link, is left out.    *)
OkMeansSame == pc = "ok" /\ quiet => Same(worktree)

(* And the other way round: a tree that is the stack's is never rejected.  *)
SameMeansOk == pc = "different" /\ quiet => ~Same(worktree)

(* "ok" stands for a stack every patch of which found what it expects: the *)
(* tree it stands for can be made again.                                   *)
OkMeansStacked == pc = "ok" => Stack(patches).fits /\ expected = Stack(patches).tree
=============================================================================
