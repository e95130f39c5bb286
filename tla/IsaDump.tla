-------------------------------- MODULE IsaDump --------------------------------
(***************************************************************************)
(* isapairs.py reads a dump of the command stream (pandecode): the         *)
(* disassembly of shaders, each under a header that names its address, and *)
(* the descriptors of draws, which name stage, registers and binary.       *)
(*                                                                         *)
(* parse_dump goes through the lines twice, once for the code and once for *)
(* its uses; neither pass looks at what the other has found, and here one  *)
(* step takes a line for both.  A line is what the patterns of the script  *)
(* make of it:                                                             *)
(*    <<"header", va>>  <<"instr", i>>  <<"blank">>                        *)
(*    <<"stage", s>>  <<"regs", n>>  <<"binary", va>>                      *)
(* and to the first pass the last three are lines like any other.          *)
(*                                                                         *)
(* Right before some definitions stands a variant of them with a mistake   *)
(* in it; nothing uses it.                                                 *)
(***************************************************************************)
EXTENDS Naturals, Sequences, FiniteSets

CONSTANTS
  Lines,        \* lines a dump may hold
  MaxLines      \* bound on its length

VARIABLES
  dump,         \* the lines read so far
  code,         \* [va -> the lines of its disassembly]
  cur,          \* the va whose block is open, or None
  stage, regs,  \* of the descriptor being read, or NoStage and None
  uses          \* <<stage, regs, va>>, one for each binding

vars == <<dump, code, cur, stage, regs, uses>>

None == 0
NoStage == "none"
Blank == <<"blank">>

Init ==
  /\ dump = <<>> /\ code = <<>> /\ cur = None
  /\ stage = NoStage /\ regs = None /\ uses = <<>>

Last(some) == IF some = {} THEN 0 ELSE CHOOSE i \in some : \A j \in some : j <= i

(* Blank lines at the end of a block are dropped. *)
Trimmed(text) == SubSeq(text, 1, Last({k \in DOMAIN text : text[k] # Blank}))

HeaderOnce(l) ==
  /\ cur' = l[2]
  /\ code' = IF l[2] \in DOMAIN code THEN code
             ELSE [v \in DOMAIN code \cup {l[2]} |-> IF v = l[2] THEN <<>> ELSE code[v]]

(* A header opens a block; what an earlier block of the same address held  *)
(* is forgotten.                                                           *)
Header(l) ==
  /\ cur' = l[2]
  /\ code' = [v \in DOMAIN code \cup {l[2]} |-> IF v = l[2] THEN <<>> ELSE code[v]]

(* Instructions and blank lines belong to the open block; any other line   *)
(* closes it.                                                              *)
Body(l) ==
  IF cur = None THEN UNCHANGED <<code, cur>>
  ELSE IF l[1] \in {"instr", "blank"}
    THEN code' = [code EXCEPT ![cur] = Append(@, l)] /\ UNCHANGED cur
    ELSE code' = [code EXCEPT ![cur] = Trimmed(@)] /\ cur' = None

DescriptorKeeps(l) ==
  /\ stage' = IF l[1] = "stage" THEN l[2] ELSE stage
  /\ regs' = IF l[1] = "regs" THEN l[2] ELSE regs
  /\ uses' = IF l[1] = "binary" /\ stage # NoStage THEN Append(uses, <<stage, regs, l[2]>>) ELSE uses

DescriptorUnnamed(l) ==
  /\ stage' = IF l[1] = "stage" THEN l[2] ELSE stage
  /\ regs' = IF l[1] = "regs" THEN l[2] ELSE IF l[1] = "stage" THEN None ELSE regs
  /\ uses' = IF l[1] = "binary" THEN Append(uses, <<stage, regs, l[2]>>) ELSE uses

(* The second pass: a stage begins a descriptor, a binary is a use of it.  *)
Descriptor(l) ==
  /\ stage' = IF l[1] = "stage" THEN l[2] ELSE stage
  /\ regs' = IF l[1] = "regs" THEN l[2] ELSE IF l[1] = "stage" THEN None ELSE regs
  /\ uses' = IF l[1] = "binary" /\ stage # NoStage THEN Append(uses, <<stage, regs, l[2]>>) ELSE uses

Reads(l) ==
  /\ Len(dump) < MaxLines
  /\ dump' = Append(dump, l)
  /\ IF l[1] = "header" THEN Header(l) ELSE Body(l)
  /\ Descriptor(l)

Next == \E l \in Lines : Reads(l)

Spec == Init /\ [][Next]_vars

-----------------------------------------------------------------------------
(* Properties                                                              *)

(* Types.  The open block is one of the code's. *)
TypeOK ==
  /\ cur = None \/ cur \in DOMAIN code
  /\ \A v \in DOMAIN code : \A k \in DOMAIN code[v] : code[v][k][1] \in {"instr", "blank"}
  /\ \A k \in DOMAIN uses : uses[k][1] # NoStage

(* The last line of a kind, up to line n.                                  *)
LastOf(kind, n) == Last({k \in 1 .. n : dump[k][1] = kind})

(* The last header of an address, and the last line of what it is the      *)
(* header of.                                                              *)
LastHeader(v) == Last({k \in DOMAIN dump : dump[k] = <<"header", v>>})
BodyEnd(h) ==
  LET ends == {m \in (h + 1) .. Len(dump) : dump[m][1] \notin {"instr", "blank"}}
  IN IF ends = {} THEN Len(dump) ELSE (CHOOSE m \in ends : \A o \in ends : m <= o) - 1

(* A dump prints the same binary many times: what is kept of an address is *)
(* one copy from its header to its end, the last one, and never the end of *)
(* one copy behind the beginning of another (isapairs.py:14, 58-76).  Only *)
(* blank lines at its end are missing.                                     *)
KeepsOneCopy ==
  \A v \in {l[2] : l \in {m \in Lines : m[1] = "header"}} :
    LET h == LastHeader(v) IN
    IF h = 0 THEN v \notin DOMAIN code
    ELSE /\ v \in DOMAIN code /\ h + Len(code[v]) <= BodyEnd(h)
         /\ \A k \in 1 .. Len(code[v]) : code[v][k] = dump[h + k]
         /\ \A k \in (h + Len(code[v]) + 1) .. BodyEnd(h) : dump[k] = Blank

(* The lines that are uses, and what each is a use of.                     *)
Bound == {k \in DOMAIN dump : dump[k][1] = "binary" /\ LastOf("stage", k) # 0}
Use(b) ==
  LET s == LastOf("stage", b)   r == LastOf("regs", b)
  IN <<dump[s][2], IF r > s THEN dump[r][2] ELSE None, dump[b][2]>>

(* A use has the registers of its own descriptor: a descriptor that does   *)
(* not say how many it allocates never gets those of the one before it,    *)
(* however the disassembly stands between its lines.                       *)
UsesAreTheirDescriptors ==
  /\ Len(uses) = Cardinality(Bound)
  /\ \A b \in Bound : uses[Cardinality({c \in Bound : c <= b})] = Use(b)
=============================================================================
