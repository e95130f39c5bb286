------------------------------ MODULE MCScripts -------------------------------
(***************************************************************************)
(* The settings of the scripts for TLC: those of the repository's own runs *)
(* where they are few, small ones elsewhere.                               *)
(***************************************************************************)
EXTENDS Scripts

(* GameplayGate: a long run, two runs compared, a log that is begun again  *)

MCGames ==
  {[runs |-> {"r1"}, stacks |-> {"s1"}, start |-> 2, duration |-> 4, intervals |-> 2,
    rows |-> 10, shots |-> 1, may |-> {"grouped", "fails"}],
   [runs |-> {"r1", "r2"}, stacks |-> {"s1", "s2"}, start |-> 0, duration |-> 2, intervals |-> 1,
    rows |-> 3, shots |-> 0, may |-> {"changes", "fails"}],
   [runs |-> {"r1"}, stacks |-> {"s1"}, start |-> 1, duration |-> 2, intervals |-> 1,
    rows |-> 5, shots |-> 1, may |-> {"reset"}]}

(* CtsGate: the two forms *)

MCForms ==
  {[total |-> 3, tolerant |-> TRUE, exact |-> FALSE, starts |-> 3],
   [total |-> 4, tolerant |-> FALSE, exact |-> TRUE, starts |-> 2]}

(* OracleSeries: the two scripts, with the drivers each of them tests *)

On(name) == [name |-> name, enabled |-> TRUE, skips |-> {}]
Off(name) == [name |-> name, enabled |-> FALSE, skips |-> {}]

FinalLabels ==
  <<Off("validation"), [Off("host-baseline") EXCEPT !.skips = {"lifetime"}],
    Off("host-off"), On("host-on"), Off("android-off"), On("android-on")>>

ExtraLabels ==
  <<Off("validation"), Off("baseline"), On("host-on"), Off("package-off"), On("package-on")>>

MCSeries ==
  {[labels |-> FinalLabels, repeats |-> 3, final |-> TRUE],
   [labels |-> ExtraLabels, repeats |-> 3, final |-> FALSE]}

(* ShaderCache: runs that may fail, and what is expected without *)

MCCaches ==
  {[shaders |-> {"vs", "fs"}, repeats |-> 2, expect |-> "separated", faulty |-> TRUE],
   [shaders |-> {"vs", "fs"}, repeats |-> 3, expect |-> "shared", faulty |-> FALSE],
   [shaders |-> {"vs", "fs"}, repeats |-> 3, expect |-> "separated", faulty |-> FALSE]}

(* StagePatches: three stages that take turns, and two with careless work *)

MCWorks ==
  {[files |-> {"f1", "f2"}, stages |-> {"s1", "s2", "s3"}, repo |-> {"f1"}, edits |-> 2,
    careless |-> FALSE],
   [files |-> {"f1", "f2"}, stages |-> {"s1", "s2"}, repo |-> {"f1"}, edits |-> 3,
    careless |-> TRUE]}

(* PatchChain: a source file, a document of the root, an excluded file *)

F(c) == <<"file", c>>
L(c) == <<"link", c>>
A == <<"absent", 0>>

SomeBases ==
  {[n \in {"source", "doc", "generated"} |-> F(1)], [source |-> F(1), doc |-> A, generated |-> A]}

SomePatches ==
  {[source |-> [from |-> F(1), to |-> F(2)], doc |-> [from |-> A, to |-> L(1)]],
   [source |-> [from |-> F(2), to |-> A], doc |-> [from |-> F(1), to |-> F(2)]]}

MCTrees ==
  {[names |-> {"source", "doc", "generated"}, docs |-> {"doc"}, excluded |-> {"generated"},
    pointers |-> TRUE, bases |-> SomeBases, patches |-> SomePatches, edits |-> {F(1), F(2), L(1)}],
   [names |-> {"source", "doc"}, docs |-> {"doc"}, excluded |-> {}, pointers |-> FALSE,
    bases |-> {[source |-> F(1), doc |-> A], [source |-> F(1), doc |-> F(1)]},
    patches |-> SomePatches, edits |-> {F(1), F(2), L(1)}]}
=============================================================================
