------------------------------- MODULE QueryTrace -------------------------------
(***************************************************************************)
(* tools/analyze_query_trace.py: what a trace of API calls says about the  *)
(* commands that were really submitted.                                    *)
(*                                                                         *)
(* The program under the trace runs on from frame to frame; its calls are  *)
(* traced in some frames only.  The script keeps the recording of each     *)
(* command buffer as far as the trace shows it, and counts a submission as *)
(* complete if it can vouch for every command in it.  Each traced call is  *)
(* read when it is made: the script looks at the trace once, in order.     *)
(*                                                                         *)
(* Right before some definitions stands a variant of them with a mistake   *)
(* in it; nothing uses it.                                                 *)
(***************************************************************************)
EXTENDS Naturals, Sequences, FiniteSets

CONSTANTS
  Buffers,            \* command buffers
  Traced,             \* frames whose calls are in the trace
  MaxFrame, MaxCmds,  \* bounds on frames, on commands of a recording
  MaxSubmits          \* bound on submissions

(* Commands the script tells apart: begin and end of a render pass, end of *)
(* a query, a barrier, secondary buffers, others.                          *)
Cmds == {"render", "endrender", "query", "barrier", "execute", "draw"}

VARIABLES
  frame,
  real,               \* buffer -> [state, cmds]: what the program recorded
  seen,               \* buffer -> the script's record, or Unknown
  previous,           \* frame of the last traced call, 0 before the first
  row,                \* totals: [complete, incomplete, unsupported, cmds, barriers, queries]
  truth,              \* history: the same sums, over what was really submitted as complete
  submits

vars == <<frame, real, seen, previous, row, truth, submits>>

Unknown == [known |-> FALSE]
Counted(complete, incomplete, unsupported, cmds, barriers, queries) ==
  [complete |-> complete, incomplete |-> incomplete, unsupported |-> unsupported,
   cmds |-> cmds, barriers |-> barriers, queries |-> queries]

Init ==
  /\ frame = 1 /\ previous = 0 /\ submits = 0
  /\ real = [b \in Buffers |-> [state |-> "initial", cmds |-> <<>>]]
  /\ seen = [b \in Buffers |-> Unknown]
  /\ row = Counted(0, 0, 0, 0, 0, 0)
  /\ truth = [cmds |-> 0, barriers |-> 0, queries |-> 0]

-----------------------------------------------------------------------------
(* The script                                                              *)

IsTraced == frame \in Traced

ContiguousAlways == seen

(* A gap in the trace may hide anything: what was known is forgotten.      *)
Contiguous ==
  IF previous # 0 /\ (frame < previous \/ frame > previous + 1)
    THEN [b \in Buffers |-> Unknown] ELSE seen

(* A call about a buffer: what becomes of the script's record of it.       *)
Takes(b, record) ==
  IF IsTraced
    THEN /\ previous' = frame
         /\ seen' = [Contiguous EXCEPT ![b] = record]
    ELSE UNCHANGED <<previous, seen>>

SeesBegin(ok) ==
  [known |-> TRUE, begun |-> ok, ended |-> FALSE, cmds |-> 0, render |-> FALSE,
   barriers |-> 0, queries |-> 0, secondary |-> FALSE]

SeesEnd(record, ok) == IF record.known THEN [record EXCEPT !.ended = ok] ELSE record

SeesPlainCmd(record, c) ==
  IF ~record.known THEN record
  ELSE [record EXCEPT !.cmds = @ + 1,
          !.render = c = "render" \/ (@ /\ c # "endrender"),
          !.barriers = @ + (IF c = "barrier" /\ record.render THEN 1 ELSE 0),
          !.queries = @ + (IF c = "query" /\ record.render THEN 1 ELSE 0)]

SeesCmdElsewhere(record, c) ==
  IF ~record.known THEN record
  ELSE [record EXCEPT !.cmds = @ + (IF record.render THEN 0 ELSE 1),
          !.render = c = "render" \/ (@ /\ c # "endrender"),
          !.barriers = @ + (IF c = "barrier" /\ record.render THEN 1 ELSE 0),
          !.queries = @ + (IF c = "query" /\ record.render THEN 1 ELSE 0),
          !.secondary = @ \/ c = "execute"]

SeesCmd(record, c) ==
  IF ~record.known THEN record
  ELSE [record EXCEPT !.cmds = @ + 1,
          !.render = c = "render" \/ (@ /\ c # "endrender"),
          !.barriers = @ + (IF c = "barrier" /\ record.render THEN 1 ELSE 0),
          !.queries = @ + (IF c = "query" /\ record.render THEN 1 ELSE 0),
          !.secondary = @ \/ c = "execute"]

VouchesForBegun(record) == record.known /\ record.begun /\ ~record.secondary

(* Begun and ended in sight, successfully, and nothing executed that the   *)
(* script does not follow.                                                 *)
Vouches(record) == record.known /\ record.begun /\ record.ended /\ ~record.secondary

-----------------------------------------------------------------------------
(* The program                                                             *)

Begin(b) ==
  \E ok \in BOOLEAN :
    /\ real' = [real EXCEPT ![b] = [state |-> IF ok THEN "recording" ELSE "invalid", cmds |-> <<>>]]
    /\ Takes(b, SeesBegin(ok))
    /\ UNCHANGED <<frame, row, truth, submits>>

InRender(cmds) ==
  \E i \in DOMAIN cmds : cmds[i] = "render" /\ \A j \in (i + 1) .. Len(cmds) : cmds[j] # "endrender"

Cmd(b, c) ==
  /\ real[b].state = "recording" /\ Len(real[b].cmds) < MaxCmds
  /\ c = "render" => ~InRender(real[b].cmds)
  /\ c = "endrender" => InRender(real[b].cmds)
  /\ real' = [real EXCEPT ![b].cmds = Append(@, c)]
  /\ Takes(b, SeesCmd(Contiguous[b], c))
  /\ UNCHANGED <<frame, row, truth, submits>>

End(b) ==
  /\ real[b].state = "recording" /\ ~InRender(real[b].cmds)
  /\ \E ok \in BOOLEAN :
       /\ real' = [real EXCEPT ![b].state = IF ok THEN "executable" ELSE "invalid"]
       /\ Takes(b, SeesEnd(Contiguous[b], ok))
  /\ UNCHANGED <<frame, row, truth, submits>>

InPass(cmds, c) ==
  Cardinality({i \in DOMAIN cmds : cmds[i] = c /\ InRender(SubSeq(cmds, 1, i - 1))})

(* vkQueueSubmit, of one executable buffer.                                *)
Submit(b) ==
  /\ submits < MaxSubmits /\ submits' = submits + 1
  /\ real[b].state = "executable"
  /\ Takes(b, Contiguous[b])
  /\ LET record == seen'[b]   cmds == real[b].cmds IN
     IF ~IsTraced THEN UNCHANGED <<row, truth>>
     ELSE IF Vouches(record)
       THEN /\ row' = [row EXCEPT !.complete = @ + 1, !.cmds = @ + record.cmds,
                         !.barriers = @ + record.barriers, !.queries = @ + record.queries]
            /\ truth' = [cmds |-> truth.cmds + Len(cmds), barriers |-> truth.barriers + InPass(cmds, "barrier"),
                         queries |-> truth.queries + InPass(cmds, "query")]
       ELSE row' = [row EXCEPT !.incomplete = @ + 1] /\ UNCHANGED truth
  /\ UNCHANGED <<frame, real>>

(* A submission that fails, or that of vkQueueSubmit2.                     *)
SubmitUnsupported(b) ==
  /\ submits < MaxSubmits /\ submits' = submits + 1
  /\ Takes(b, Contiguous[b])
  /\ row' = IF IsTraced THEN [row EXCEPT !.unsupported = @ + 1] ELSE row
  /\ UNCHANGED <<frame, real, truth>>

(* vkResetCommandPool and its like: the script does not look at them.      *)
Reset(b) ==
  /\ real' = [real EXCEPT ![b] = [state |-> "initial", cmds |-> <<>>]]
  /\ Takes(b, Contiguous[b])
  /\ UNCHANGED <<frame, row, truth, submits>>

NextFrame == frame < MaxFrame /\ frame' = frame + 1 /\ UNCHANGED <<real, seen, previous, row, truth, submits>>

Next ==
  \/ \E b \in Buffers : Begin(b) \/ End(b) \/ Submit(b) \/ SubmitUnsupported(b) \/ Reset(b)
  \/ \E b \in Buffers, c \in Cmds : Cmd(b, c)
  \/ NextFrame

Spec == Init /\ [][Next]_vars

-----------------------------------------------------------------------------
(* Properties                                                              *)

TypeOK ==
  /\ frame \in 1 .. MaxFrame /\ previous \in 0 .. frame
  /\ row.complete + row.incomplete + row.unsupported <= submits
  /\ \A b \in Buffers : seen[b].known => seen[b].barriers + seen[b].queries <= seen[b].cmds

(* The counts of submissions that are called complete are those of what    *)
(* was submitted, though buffers are recorded again out of sight, over     *)
(* frames, and half in sight: nothing the script counts is stale, and      *)
(* nothing is missing.                                                     *)
CompleteIsTheTruth ==
  row.cmds = truth.cmds /\ row.barriers = truth.barriers /\ row.queries = truth.queries

(* What the script says of a buffer it vouches for is that buffer as it is *)
(* now: it is executable, with these commands, or it was reset since and   *)
(* cannot be submitted before it begins again in sight, or behind a gap    *)
(* that the next traced call brings to light.                              *)
VouchedIsCurrent ==
  IsTraced => \A b \in Buffers :
    Vouches(Contiguous[b]) =>
      \/ real[b].state = "executable" /\ Len(real[b].cmds) = Contiguous[b].cmds
      \/ real[b].state = "initial"

(* No submission is called complete of a buffer that executes secondary    *)
(* buffers, whose commands nobody counts.                                  *)
NoSecondaryCompletes ==
  \A b \in Buffers :
    Submit(b) /\ row'.complete > row.complete => \A i \in DOMAIN real[b].cmds : real[b].cmds[i] # "execute"
=============================================================================
