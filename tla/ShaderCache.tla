------------------------------ MODULE ShaderCache -----------------------------
(***************************************************************************)
(* tools/verify_shader_cache.py: six test processes share a fresh shader   *)
(* cache directory, with a control (an environment variable) off, on, and  *)
(* off in another spelling; the hits and misses each of them reports must  *)
(* show that the cache is used again and that the control is part of its   *)
(* key, and the last one, with the cache disabled, must leave no trace.    *)
(*                                                                         *)
(* The driver under test is described by what it does with its cache; a    *)
(* process compiles the same Shaders and one of them may fail or hang.     *)
(*                                                                         *)
(* Right before some definitions stands a variant of them with a mistake   *)
(* in it; nothing uses it.                                                 *)
(***************************************************************************)
EXTENDS Naturals, Sequences, FiniteSets

CONSTANTS
  Shaders,     \* what a test process compiles
  Repeats,     \* repetitions, each with its own directory (3)
  Expect,      \* "separated", "shared"
  Faulty       \* runs may fail on their own account

VARIABLES
  driver,      \* [keyed, spelled, stores, obeys]: see Drivers
  repetition, step, cache,
  failures,    \* steps whose numbers were not the expected ones
  answer       \* "none", "ok", "failed"

vars == <<driver, repetition, step, cache, failures, answer>>

(* Whether the control is in the key, and by its text rather than by its   *)
(* value; whether what is compiled is found by a later process; whether a  *)
(* disabled cache is left alone.                                           *)
Drivers == [keyed : BOOLEAN, spelled : BOOLEAN, stores : BOOLEAN, obeys : BOOLEAN]

Steps ==
  <<[label |-> "default-cold", knob |-> "0"], [label |-> "default-warm", knob |-> "0"],
    [label |-> "control-after-default", knob |-> "1"], [label |-> "control-warm", knob |-> "1"],
    [label |-> "default-return", knob |-> "false"], [label |-> "cache-disabled", knob |-> "0"]>>

Init ==
  /\ driver \in Drivers
  /\ repetition = 1 /\ step = 1 /\ cache = {} /\ failures = {} /\ answer = "none"

-----------------------------------------------------------------------------
(* A test process                                                          *)

Value(knob) == IF knob = "false" /\ ~driver.spelled THEN "0" ELSE knob
Key(shader, knob) == <<shader, IF driver.keyed THEN Value(knob) ELSE "any">>
Keys(knob) == {Key(s, knob) : s \in Shaders}

Disabled(s) == s.label = "cache-disabled"
Uses(s) == ~Disabled(s) \/ ~driver.obeys

(* The disabled one has a directory of its own, empty. *)
Found(s) == IF Disabled(s) THEN {} ELSE cache \cap Keys(s.knob)
Hits(s) == IF Uses(s) THEN Cardinality(Found(s)) ELSE 0
Misses(s) == IF Uses(s) THEN Cardinality(Keys(s.knob)) - Hits(s) ELSE 0

-----------------------------------------------------------------------------
(* The script                                                              *)

PassesOnHits(s) == s.label = "default-cold" \/ Disabled(s) \/ Hits(s) > 0

Passes(s) ==
  CASE s.label = "default-cold" -> Misses(s) > 0
    [] s.label = "control-after-default" ->
         IF Expect = "separated" THEN Misses(s) > 0 ELSE Hits(s) > 0 /\ Misses(s) = 0
    [] s.label = "cache-disabled" -> Hits(s) + Misses(s) = 0
    [] OTHER -> Hits(s) > 0 /\ Misses(s) = 0

NextCache(s) == IF Disabled(s) \/ ~driver.stores THEN cache ELSE cache \cup Keys(s.knob)

StepOnceMore ==
  /\ answer = "none" /\ repetition <= Repeats + 1
  /\ failures' = failures \cup {<<repetition, Steps[step].label>>}
  /\ cache' = {} /\ step' = (step % Len(Steps)) + 1
  /\ repetition' = repetition + (step \div Len(Steps))
  /\ UNCHANGED <<driver, answer>>

StepInOneDirectory ==
  /\ answer = "none" /\ repetition <= Repeats
  /\ \E good \in IF Faulty THEN BOOLEAN ELSE {TRUE} :
       failures' = IF good /\ Passes(Steps[step]) THEN failures
                   ELSE failures \cup {<<repetition, Steps[step].label>>}
  /\ cache' = NextCache(Steps[step])
  /\ step' = (step % Len(Steps)) + 1
  /\ repetition' = repetition + (step \div Len(Steps))
  /\ UNCHANGED <<driver, answer>>

(* A failure is noted and the series goes on, in a fresh directory after   *)
(* the last step.                                                          *)
Step ==
  /\ answer = "none" /\ repetition <= Repeats
  /\ \E good \in IF Faulty THEN BOOLEAN ELSE {TRUE} :
       failures' = IF good /\ Passes(Steps[step]) THEN failures
                   ELSE failures \cup {<<repetition, Steps[step].label>>}
  /\ cache' = IF step = Len(Steps) THEN {} ELSE NextCache(Steps[step])
  /\ step' = (step % Len(Steps)) + 1
  /\ repetition' = repetition + (step \div Len(Steps))
  /\ UNCHANGED <<driver, answer>>

(* A process that hangs ends the script, without an answer. *)
Hangs ==
  /\ answer = "none" /\ Faulty /\ repetition <= Repeats
  /\ answer' = "failed"
  /\ UNCHANGED <<driver, repetition, step, cache, failures>>

Answers ==
  /\ answer = "none" /\ repetition > Repeats
  /\ answer' = IF failures = {} THEN "ok" ELSE "failed"
  /\ UNCHANGED <<driver, repetition, step, cache, failures>>

Next == Step \/ Hangs \/ Answers

Spec == Init /\ [][Next]_vars

-----------------------------------------------------------------------------
(* Properties                                                              *)

TypeOK ==
  /\ driver \in Drivers
  /\ repetition \in 1 .. Repeats + 1 /\ step \in 1 .. Len(Steps)
  /\ failures \subseteq (1 .. Repeats) \X {Steps[i].label : i \in DOMAIN Steps}
  /\ answer \in {"none", "ok", "failed"}

Separates == driver.stores /\ driver.obeys /\ driver.keyed /\ ~driver.spelled
Shares == driver.stores /\ driver.obeys /\ ~driver.keyed

(* A positive answer is given only to a driver that keeps its cache, lets  *)
(* it alone when told so, and tells the two settings of the control apart, *)
(* by value and not by spelling (or, if that is what was expected, not at  *)
(* all): no other combination comes through.                               *)
OkMeansSound == answer = "ok" => IF Expect = "separated" THEN Separates ELSE Shares
=============================================================================
