------------------------------- MODULE MCIolog -------------------------------
(***************************************************************************)
(* The readers of dumps, logs and traces for TLC: settings for Readers.    *)
(***************************************************************************)
EXTENDS Readers, TLC

-----------------------------------------------------------------------------
(* IsaDump: dumps with two shaders, in every order of their lines.         *)

DumpLines ==
  {<<"header", 1>>, <<"header", 2>>, <<"instr", "TEX">>, <<"instr", "FMA">>, <<"blank">>,
   <<"stage", "Vertex">>, <<"stage", "Fragment">>, <<"regs", 32>>, <<"binary", 1>>}

MCDumps == {[lines |-> DumpLines, max |-> 6]}

(* IsaPairs: shaders of both stages that are alike to different degrees,   *)
(* two of them the same but for a constant, bindings in which a shader is  *)
(* used more than once, with other registers, for two stages, or for no    *)
(* draw at all.                                                            *)

I(op, width, hex) == [op |-> op, width |-> width, hex |-> hex]

Texts ==
  [f1 |-> <<I("TEX", 0, 0)>>,
   f2 |-> <<I("LD_VAR", 2, 1), I("TEX", 0, 0), I("FMA", 0, 7)>>,
   f3 |-> <<I("LD_VAR", 2, 2), I("TEX", 0, 0), I("FMA", 0, 7)>>,
   v1 |-> <<I("LD_ATTR", 4, 1), I("STORE", 0, 0)>>,
   v2 |-> <<I("LD_ATTR", 2, 1), I("FMA", 0, 3), I("STORE", 0, 0)>>,
   c1 |-> <<I("FMA", 0, 0)>>]

StageOfText(t) ==
  CASE t \in {"f1", "f2", "f3"} -> "Fragment" [] t \in {"v1", "v2"} -> "Vertex" [] OTHER -> "Compute"

(* Bindings of va 1, 2 and 3: how often each is used. *)
Binding(names, counts) ==
  LET va == [k \in 1 .. (counts[1] + counts[2] + counts[3]) |->
               IF k <= counts[1] THEN 1 ELSE IF k <= counts[1] + counts[2] THEN 2 ELSE 3]
  IN [k \in DOMAIN va |-> <<StageOfText(names[va[k]]), 32, va[k]>>]

ThreeOf(names, counts) == [code |-> [v \in 1 .. 3 |-> Texts[names[v]]], uses |-> Binding(names, counts)]

(* Four of one stage, and one of the other: more than half of what is asked for. *)
Many ==
  LET names == <<"f1", "f2", "f3", "v1", "v2", "v2">>
      text == [v \in 1 .. 6 |->
                 IF v = 3 THEN <<I("LD_VAR", 4, 0)>> ELSE IF v = 6 THEN <<I("TEX", 0, 0), I("TEX", 0, 5)>>
                 ELSE Texts[names[v]]]
  IN {[code |-> text, uses |-> <<<<"Fragment", 32, 1>>, <<"Fragment", 64, 2>>, <<"Fragment", 32, 3>>,
                                 <<"Vertex", 32, 4>>, <<"Fragment", 32, 6>>, <<"Fragment", 32, 2>>>>],
      [code |-> text, uses |-> <<<<"Vertex", 32, 5>>, <<"Vertex", 0, 4>>, <<"Fragment", 32, 3>>,
                                 <<"Fragment", 32, 6>>, <<"Fragment", 32, 1>>, <<"Fragment", 32, 2>>>>]}

(* One address with two stages; registers that are mostly unknown; a use of *)
(* an address that was not disassembled.                                    *)
Odd ==
  LET text == [v \in 1 .. 2 |-> IF v = 1 THEN Texts.v1 ELSE Texts.f1] IN
  {[code |-> text, uses |-> <<<<"Vertex", 32, 1>>, <<"Fragment", 32, 2>>, <<"Vertex", 32, 2>>, <<"Fragment", 32, 2>>>>],
   [code |-> text, uses |-> <<<<"Vertex", 0, 1>>, <<"Vertex", 0, 1>>, <<"Vertex", 32, 1>>, <<"Fragment", 32, 2>>>>],
   [code |-> text, uses |-> <<<<"Fragment", 32, 2>>, <<"Fragment", 32, 9>>>>],
   [code |-> text, uses |-> <<>>]}

MatchSys == {ThreeOf(n, c) : n \in [1 .. 3 -> {"f1", "f2", "v1", "v2"}], c \in {<<1, 2, 1>>}} \cup Odd
MatchPvk == {ThreeOf(n, c) : n \in {<<"f1", "f2", "f3">>, <<"f3", "v1", "v1">>, <<"v2", "f2", "v1">>, <<"f1", "c1", "v2">>},
                          c \in {<<2, 0, 1>>, <<1, 3, 1>>}} \cup Odd

MCPairings ==
  {[sys |-> MatchSys, pvk |-> MatchPvk, wants |-> {1, 2, 3}, runs |-> 1],
   [sys |-> Many, pvk |-> Many, wants |-> {0, 1, 2, 3, 4, 5, 10}, runs |-> 1],
   [sys |-> Odd, pvk |-> Odd, wants |-> {1, 2}, runs |-> 2]}

(* AtomTrace: two threads and no lock, one atom each; one thread with      *)
(* dependencies through dependency atoms; render passes of two atoms, the  *)
(* first of which has no event.                                            *)

MCLoggers ==
  {[threads |-> {"t1", "t2"}, numbers |-> {1, 2}, groups |-> {<<"frag">>}, subs |-> 3,
    serialised |-> FALSE, silent |-> FALSE],
   [threads |-> {"t1"}, numbers |-> {1, 2, 3}, groups |-> {<<"frag">>, <<"dep">>}, subs |-> 3,
    serialised |-> TRUE, silent |-> FALSE],
   [threads |-> {"t1"}, numbers |-> {1, 2, 3}, groups |-> {<<"vtc", "frag">>, <<"compute">>}, subs |-> 3,
    serialised |-> TRUE, silent |-> TRUE]}

(* QueryTrace: one buffer over a gap in the trace, and two.                *)

MCPrograms ==
  {[buffers |-> {"b1"}, traced |-> {1, 2, 4}, frames |-> 4, cmds |-> 3, submits |-> 1],
   [buffers |-> {"b1", "b2"}, traced |-> {1, 3}, frames |-> 3, cmds |-> 1, submits |-> 1]}
=============================================================================
