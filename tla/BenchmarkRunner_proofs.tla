----------------------- MODULE BenchmarkRunner_proofs -----------------------
(***************************************************************************)
(* Proofs about BenchmarkRunner, for any runners, hover attempts and log   *)
(* lengths: that a result which is reported was played, by the only game   *)
(* of its prefix, and has an anchor; and that a runner which verifies the  *)
(* menu's item presses Return on no other.                                 *)
(***************************************************************************)
EXTENDS BenchmarkRunner, SequenceTheorems, TLAPS

-----------------------------------------------------------------------------
(* The inductive invariant                                                 *)

InGame == {"loop", "shot", "hover", "stamp", "key", "cleanup"}
Places == {"start", "prepare", "finish", "exited"} \cup InGame

(* TypeOK, with the types it does not mention, and the actions themselves  *)
(* for their number.                                                       *)
OtherTypes ==
  /\ lock \in Runs \cup {NoRun}
  /\ phase \in [Runs -> {"launcher", "menu", "benchmark"}]
  /\ seen \in [Runs -> Screens] /\ game \in [Runs -> Screens]
  /\ attempt \in [Runs -> 0 .. MaxAttempts]
  /\ stamp \in [Runs -> 0 .. MaxRows] /\ found \in [Runs -> 0 .. MaxRows]
  /\ pressed \in [Runs -> 0 .. MaxRows] /\ rows \in [Runs -> 0 .. MaxRows]
  /\ manifest \in [Runs -> {"none", "started", "finished"}]
  /\ status \in [Runs -> {"none", "refused", "failed", "ok"}]
  /\ played \subseteq Runs
  /\ pc \in [Runs -> Places]
  /\ selected \in [Runs -> {"other", "benchmark"}]
  /\ completed \in [Runs -> BOOLEAN] /\ timed_out \in [Runs -> BOOLEAN]
  /\ failure \in [Runs -> BOOLEAN] /\ file \in [Runs -> BOOLEAN]

Actions == {<<>>, <<"launcher">>, <<"launcher", "menu">>}
HasTypes == OtherTypes /\ actions \in [Runs -> Actions]

(* Who is inside holds the lock, and a game runs only in between. *)
LockIsHeld(r) ==
  /\ pc[r] \notin {"start", "exited"} => lock = r
  /\ Running(r) => pc[r] \in InGame

(* Whatever is taken for a result was one, and a file of it stays. *)
ResultWasPlayed(r) ==
  /\ file[r] \/ completed[r] \/ "result" \in {seen[r], game[r]} => r \in played
  /\ status[r] = "ok" => r \in played
  /\ file[r] => game[r] \in {"result", "none"} /\ pc[r] \notin {"start", "prepare"}

(* The actions that led to a phase. *)
Before(p) ==
  IF p = "launcher" THEN <<>> ELSE IF p = "menu" THEN <<"launcher">> ELSE <<"launcher", "menu">>

(* An activation under way is the next of them, and perhaps written down.  *)
ActionsFollowPhase(r) ==
  /\ pc[r] \in {"start", "prepare"} => phase[r] = "launcher"
  /\ pc[r] \in {"start", "prepare", "loop", "shot"} => actions[r] = Before(phase[r])
  /\ pc[r] \in {"hover", "stamp", "key"} =>
       \/ phase[r] = "launcher" /\ actions[r] = IF Verified THEN <<>> ELSE <<"launcher">>
       \/ /\ phase[r] = "menu"
          /\ actions[r] = IF Verified THEN <<"launcher">> ELSE <<"launcher", "menu">>
  /\ completed[r] =>
       /\ pc[r] \in {"cleanup", "finish", "exited"}
       /\ file[r] \/ actions[r] = <<"launcher", "menu">>

(* What is remembered of the log is not beyond it, and in its order. *)
IsAnchored(r) ==
  /\ found[r] <= rows[r] /\ stamp[r] <= rows[r]
  /\ Verified /\ pc[r] = "key" => found[r] <= stamp[r]
  /\ pc[r] \in {"loop", "shot"} /\ phase[r] # "launcher" =>
       stamp[r] <= pressed[r] /\ (Verified => found[r] <= stamp[r])

RunnersAreSound ==
  \A r \in Runs :
    LockIsHeld(r) /\ ResultWasPlayed(r) /\ ActionsFollowPhase(r) /\ IsAnchored(r)

BInv == HasTypes /\ RunnersAreSound

(* With nobody else at the menu a selection that was checked stays. *)
CheckedIsSelected ==
  Activation # "blind" /\ "steered" \notin MayFail =>
    \A r \in Runs : pc[r] \in {"stamp", "key"} /\ phase[r] = "menu" => selected[r] = "benchmark"

-----------------------------------------------------------------------------
(* A step is of one runner, and leaves the others alone                    *)

Step(r) == Acquire(r) \/ Turn(r) \/ Game(r)

LeavesAlone(s) ==
  /\ pc'[s] = pc[s] /\ phase'[s] = phase[s] /\ seen'[s] = seen[s]
  /\ stamp'[s] = stamp[s] /\ completed'[s] = completed[s] /\ actions'[s] = actions[s]
  /\ status'[s] = status[s] /\ game'[s] = game[s] /\ selected'[s] = selected[s]
  /\ rows'[s] = rows[s] /\ file'[s] = file[s] /\ found'[s] = found[s]
  /\ pressed'[s] = pressed[s]
  /\ s \in played' <=> s \in played

LEMMA OthersAreLeftAlone ==
  ASSUME HasTypes, NEW r \in Runs, Step(r), NEW s \in Runs, s # r
  PROVE  LeavesAlone(s)
<1> USE DEF HasTypes, OtherTypes, LeavesAlone, Goto, runner, record, machine, history
<1>1. CASE Acquire(r) \/ PrepareFails(r) \/ Launch(r)
  BY <1>1 DEF Acquire, PrepareFails, Launch
<1>2. CASE SeesExit(r) \/ SeesFile(r) \/ TimesOut(r) \/ Shoots(r)
  BY <1>2 DEF SeesExit, SeesFile, TimesOut, Shoots
<1>3. CASE ToolFails(r) \/ SeesDialog(r) \/ SeesNothing(r)
  BY <1>3 DEF ToolFails, SeesDialog, SeesNothing, Reaction
<1>4. CASE SeesWanted(r)
  BY <1>4 DEF SeesWanted
<1>5. CASE HoverFinds(r) \/ HoverRetries(r) \/ HoverGivesUp(r)
  BY <1>5 DEF HoverFinds, HoverRetries, HoverGivesUp
<1>6. CASE TakesStamp(r) \/ Press(r)
  BY <1>6 DEF TakesStamp, Press, Reaction
<1>7. CASE Cleanup(r) \/ Finish(r)
  BY <1>7 DEF Cleanup, Finish
<1>8. CASE Presents(r) \/ Loads(r) \/ EndsBenchmark(r)
  BY <1>8 DEF Presents, Loads, EndsBenchmark, Others
<1>9. CASE Exits(r) \/ Steered(r)
  BY <1>9 DEF Exits, Steered, Others
<1> QED BY <1>1, <1>2, <1>3, <1>4, <1>5, <1>6, <1>7, <1>8, <1>9 DEF Step, Turn, Game

LEMMA Appended ==
  ASSUME NEW p, NEW q
  PROVE  /\ Append(<<>>, p) = <<p>> /\ Append(<<p>>, q) = <<p, q>>
         /\ Len(<<>>) = 0 /\ Len(<<p>>) = 1 /\ Len(<<p, q>>) = 2
<1>1. Append(<<>>, p) = <<p>>
  OBVIOUS
<1>2. Append(<<p>>, q) = <<p, q>>
  <2>1. <<p>> \in Seq({p, q}) /\ Len(<<p>>) = 1 /\ <<p>>[1] = p
    OBVIOUS
  <2>2. /\ Append(<<p>>, q) \in Seq({p, q}) /\ Len(Append(<<p>>, q)) = 2
        /\ Append(<<p>>, q)[1] = p /\ Append(<<p>>, q)[2] = q
    BY <2>1, AppendProperties
  <2>3. <<p, q>> \in Seq({p, q}) /\ Len(<<p, q>>) = 2 /\ <<p, q>>[1] = p /\ <<p, q>>[2] = q
    OBVIOUS
  <2>4. \A n \in 1 .. 2 : n = 1 \/ n = 2
    OBVIOUS
  <2> QED BY <2>2, <2>3, <2>4, SeqEqual
<1>3. Len(<<>>) = 0 /\ Len(<<p>>) = 1 /\ Len(<<p, q>>) = 2
  OBVIOUS
<1> QED BY <1>1, <1>2, <1>3

LEMMA TypesStep ==
  ASSUME OtherTypes, NEW r \in Runs, Step(r)
  PROVE  OtherTypes'
<1> USE DEF OtherTypes, Goto, runner, record, machine, history, Places, InGame, Screens
<1>0. MaxRows \in Nat /\ MaxAttempts \in Nat \ {0}
  BY BoundsAssumption
<1>1. CASE Acquire(r)
  BY <1>0, <1>1 DEF Acquire
<1>2. CASE PrepareFails(r)
  BY <1>0, <1>2 DEF PrepareFails
<1>3. CASE Launch(r)
  BY <1>0, <1>3 DEF Launch
<1>4. CASE SeesExit(r)
  BY <1>0, <1>4 DEF SeesExit
<1>5. CASE SeesFile(r)
  <2>1. /\ completed' \in [Runs -> BOOLEAN] /\ failure' \in [Runs -> BOOLEAN]
        /\ pc' \in [Runs -> Places]
    BY <1>5 DEF SeesFile
  <2>2. /\ UNCHANGED <<lock, phase, seen, attempt, stamp, timed_out, manifest, status, game>>
        /\ UNCHANGED <<selected, rows, file, found, pressed, played>>
    BY <1>5 DEF SeesFile
  <2> QED BY <2>1, <2>2
<1>6. CASE TimesOut(r)
  BY <1>0, <1>6 DEF TimesOut
<1>7. CASE Shoots(r)
  BY <1>0, <1>7 DEF Shoots
<1>8. CASE ToolFails(r)
  BY <1>0, <1>8 DEF ToolFails, Reaction
<1>9. CASE SeesDialog(r)
  BY <1>0, <1>9 DEF SeesDialog
<1>10. CASE SeesNothing(r)
  BY <1>0, <1>10 DEF SeesNothing
<1>11. CASE SeesWanted(r)
  <2>1. stamp' \in [Runs -> 0 .. MaxRows]
    <3>1. stamp' = stamp \/ stamp' = [stamp EXCEPT ![r] = rows[r]]
      BY <1>11 DEF SeesWanted
    <3> QED BY <3>1
  <2>2. selected' \in [Runs -> {"other", "benchmark"}]
    BY <1>11 DEF SeesWanted
  <2>3. /\ pc' \in [Runs -> Places] /\ found' \in [Runs -> 0 .. MaxRows]
        /\ attempt' \in [Runs -> 0 .. MaxAttempts]
    BY <1>0, <1>11 DEF SeesWanted
  <2>4. /\ UNCHANGED <<lock, phase, seen, completed, timed_out, failure, manifest, status, game>>
        /\ UNCHANGED <<rows, file, pressed, played>>
    BY <1>11 DEF SeesWanted
  <2> QED BY <2>1, <2>2, <2>3, <2>4
<1>12. CASE HoverFinds(r)
  BY <1>0, <1>12 DEF HoverFinds
<1>13. CASE HoverRetries(r)
  BY <1>0, <1>13 DEF HoverRetries
<1>14. CASE HoverGivesUp(r)
  BY <1>0, <1>14 DEF HoverGivesUp
<1>15. CASE TakesStamp(r)
  BY <1>0, <1>15 DEF TakesStamp
<1>16. CASE Press(r)
  BY <1>0, <1>16 DEF Press, Reaction
<1>17. CASE Cleanup(r)
  BY <1>0, <1>17 DEF Cleanup
<1>18. CASE Finish(r)
  BY <1>0, <1>18 DEF Finish
<1>19. CASE Presents(r)
  BY <1>0, <1>19 DEF Presents, Others
<1>20. CASE Loads(r)
  BY <1>0, <1>20 DEF Loads, Others
<1>21. CASE EndsBenchmark(r)
  BY <1>0, <1>21 DEF EndsBenchmark, Others
<1>22. CASE Exits(r)
  BY <1>0, <1>22 DEF Exits, Others
<1>23. CASE Steered(r)
  BY <1>0, <1>23 DEF Steered, Others
<1> QED BY <1>1, <1>2, <1>3, <1>4, <1>5, <1>6, <1>7, <1>8, <1>9, <1>10, <1>11,
           <1>12, <1>13, <1>14, <1>15, <1>16, <1>17, <1>18, <1>19, <1>20, <1>21, <1>22,
           <1>23 DEF Step, Turn, Game

-----------------------------------------------------------------------------
(* What the runner of a step keeps of itself                               *)

LEMMA LockStep ==
  ASSUME HasTypes, NEW r \in Runs, Step(r), LockIsHeld(r)
  PROVE  LockIsHeld(r)'
<1> USE DEF HasTypes, OtherTypes, Actions, Goto, runner, record, machine, history, Running,
            LockIsHeld, InGame
<1>1. CASE Acquire(r)
  BY <1>1 DEF Acquire
<1>2. CASE PrepareFails(r) \/ Launch(r)
  BY <1>2 DEF PrepareFails, Launch
<1>3. CASE SeesExit(r) \/ SeesFile(r) \/ TimesOut(r) \/ Shoots(r)
  BY <1>3 DEF SeesExit, SeesFile, TimesOut, Shoots
<1>4. CASE ToolFails(r)
  BY <1>4 DEF ToolFails, Reaction
<1>5. CASE SeesDialog(r) \/ SeesNothing(r)
  BY <1>5 DEF SeesDialog, SeesNothing
<1>6. CASE SeesWanted(r)
  BY <1>6 DEF SeesWanted
<1>7. CASE HoverFinds(r) \/ HoverRetries(r) \/ HoverGivesUp(r)
  BY <1>7 DEF HoverFinds, HoverRetries, HoverGivesUp
<1>8. CASE TakesStamp(r)
  BY <1>8 DEF TakesStamp
<1>9. CASE Press(r)
  BY <1>9 DEF Press, Reaction
<1>10. CASE Cleanup(r) \/ Finish(r)
  BY <1>10 DEF Cleanup, Finish
<1>11. CASE Presents(r) \/ Loads(r)
  BY <1>11 DEF Presents, Loads, Others
<1>12. CASE EndsBenchmark(r)
  BY <1>12 DEF EndsBenchmark, Others
<1>13. CASE Exits(r) \/ Steered(r)
  BY <1>13 DEF Exits, Steered, Others
<1> QED BY <1>1, <1>2, <1>3, <1>4, <1>5, <1>6, <1>7, <1>8, <1>9, <1>10, <1>11,
           <1>12, <1>13 DEF Step, Turn, Game

LEMMA PlayedStep ==
  ASSUME HasTypes, NEW r \in Runs, Step(r), LockIsHeld(r), ResultWasPlayed(r)
  PROVE  ResultWasPlayed(r)'
<1> USE DEF HasTypes, OtherTypes, Actions, Goto, runner, record, machine, history, Running,
            ResultWasPlayed, LockIsHeld, InGame
<1>1. CASE Acquire(r)
  BY <1>1 DEF Acquire
<1>2. CASE PrepareFails(r) \/ Launch(r)
  BY <1>2 DEF PrepareFails, Launch
<1>3. CASE SeesExit(r) \/ SeesFile(r) \/ TimesOut(r) \/ Shoots(r)
  BY <1>3 DEF SeesExit, SeesFile, TimesOut, Shoots
<1>4. CASE ToolFails(r)
  BY <1>4 DEF ToolFails, Reaction
<1>5. CASE SeesDialog(r) \/ SeesNothing(r)
  BY <1>5 DEF SeesDialog, SeesNothing
<1>6. CASE SeesWanted(r)
  BY <1>6 DEF SeesWanted
<1>7. CASE HoverFinds(r) \/ HoverRetries(r) \/ HoverGivesUp(r)
  BY <1>7 DEF HoverFinds, HoverRetries, HoverGivesUp
<1>8. CASE TakesStamp(r)
  BY <1>8 DEF TakesStamp
<1>9. CASE Press(r)
  BY <1>9 DEF Press, Reaction
<1>10. CASE Cleanup(r) \/ Finish(r)
  BY <1>10 DEF Cleanup, Finish, Succeeded
<1>11. CASE Presents(r) \/ Loads(r)
  BY <1>11 DEF Presents, Loads, Others
<1>12. CASE EndsBenchmark(r)
  BY <1>12 DEF EndsBenchmark, Others
<1>13. CASE Exits(r) \/ Steered(r)
  BY <1>13 DEF Exits, Steered, Others
<1> QED BY <1>1, <1>2, <1>3, <1>4, <1>5, <1>6, <1>7, <1>8, <1>9, <1>10, <1>11,
           <1>12, <1>13 DEF Step, Turn, Game

LEMMA PhaseStep ==
  ASSUME HasTypes, NEW r \in Runs, Step(r), ResultWasPlayed(r), ActionsFollowPhase(r)
  PROVE  ActionsFollowPhase(r)' /\ actions' \in [Runs -> Actions]
<1> USE DEF HasTypes, OtherTypes, Goto, runner, record, machine, history, Running,
            ActionsFollowPhase, Before, Verified
<1>1. CASE Acquire(r)
  BY <1>1 DEF Acquire
<1>2. CASE PrepareFails(r) \/ Launch(r)
  BY <1>2 DEF PrepareFails, Launch
<1>3. CASE SeesExit(r) \/ SeesFile(r) \/ TimesOut(r) \/ Shoots(r)
  BY <1>3 DEF SeesExit, SeesFile, TimesOut, Shoots
<1>4. CASE ToolFails(r)
  BY <1>4 DEF ToolFails, Reaction
<1>5. CASE SeesDialog(r) \/ SeesNothing(r)
  BY <1>5 DEF SeesDialog, SeesNothing
<1>6. CASE SeesWanted(r)
  <2>1. /\ pc[r] = "shot" /\ actions[r] = Before(phase[r]) /\ phase[r] \in {"launcher", "menu"}
        /\ pc'[r] \in {"hover", "stamp"} /\ phase' = phase /\ completed' = completed
    BY <1>6 DEF SeesWanted, Wanted, Actions
  <2>2. CASE Verified
    <3>1. actions' = actions
      BY <1>6, <2>2 DEF SeesWanted, Verified
    <3> QED BY <2>1, <2>2, <3>1
  <2>3. CASE ~Verified
    <3>1. actions' = [actions EXCEPT ![r] = Append(actions[r], phase[r])]
      BY <1>6, <2>3 DEF SeesWanted, Verified
    <3>2. phase[r] = "launcher" => Append(actions[r], phase[r]) = <<"launcher">>
      BY <2>1, Appended
    <3>3. phase[r] = "menu" => Append(actions[r], phase[r]) = <<"launcher", "menu">>
      BY <2>1, Appended
    <3> QED BY <2>1, <2>3, <3>1, <3>2, <3>3 DEF Actions
  <2> QED BY <2>2, <2>3
<1>7. CASE HoverFinds(r) \/ HoverRetries(r) \/ HoverGivesUp(r)
  BY <1>7 DEF HoverFinds, HoverRetries, HoverGivesUp
<1>8. CASE TakesStamp(r)
  BY <1>8 DEF TakesStamp
<1>9. CASE Press(r)
  <2>1. /\ pc[r] = "key" /\ ~completed[r] /\ pc'[r] = "loop" /\ completed' = completed
        /\ phase'[r] = IF phase[r] = "launcher" THEN "menu" ELSE "benchmark"
    BY <1>9 DEF Press
  <2>2. CASE Verified
    <3>1. actions' = [actions EXCEPT ![r] = Append(actions[r], phase[r])]
      BY <1>9, <2>2 DEF Press, Verified
    <3>2. phase[r] = "launcher" => Append(actions[r], phase[r]) = <<"launcher">>
      BY <2>1, <2>2, Appended
    <3>3. phase[r] # "launcher" => phase[r] = "menu" /\ actions[r] = <<"launcher">>
      BY <2>1, <2>2
    <3>4. phase[r] # "launcher" => Append(actions[r], phase[r]) = <<"launcher", "menu">>
      <4>1. Append(<<"launcher">>, "menu") = <<"launcher", "menu">>
        BY Appended
      <4> QED BY <3>3, <4>1
    <3> QED BY <2>1, <3>1, <3>2, <3>3, <3>4 DEF Actions
  <2>3. CASE ~Verified
    <3>1. actions' = actions
      BY <1>9, <2>3 DEF Press, Verified
    <3> QED BY <2>1, <2>3, <3>1
  <2> QED BY <2>2, <2>3
<1>10. CASE Cleanup(r) \/ Finish(r)
  BY <1>10 DEF Cleanup, Finish
<1>11. CASE Presents(r) \/ Loads(r)
  BY <1>11 DEF Presents, Loads, Others
<1>12. CASE EndsBenchmark(r)
  BY <1>12 DEF EndsBenchmark, Others, ResultWasPlayed
<1>13. CASE Exits(r) \/ Steered(r)
  BY <1>13 DEF Exits, Steered, Others
<1> QED BY <1>1, <1>2, <1>3, <1>4, <1>5, <1>6, <1>7, <1>8, <1>9, <1>10, <1>11,
           <1>12, <1>13 DEF Step, Turn, Game

LEMMA AnchorStep ==
  ASSUME HasTypes, NEW r \in Runs, Step(r), ActionsFollowPhase(r), IsAnchored(r)
  PROVE  IsAnchored(r)'
<1> USE DEF HasTypes, OtherTypes, Actions, Goto, runner, record, machine, history, Running,
            IsAnchored, ActionsFollowPhase, Verified
<1>1. CASE Acquire(r)
  BY <1>1 DEF Acquire
<1>2. CASE PrepareFails(r) \/ Launch(r)
  BY <1>2 DEF PrepareFails, Launch
<1>3. CASE SeesExit(r) \/ SeesFile(r) \/ TimesOut(r) \/ Shoots(r)
  BY <1>3 DEF SeesExit, SeesFile, TimesOut, Shoots
<1>4. CASE ToolFails(r)
  BY <1>4 DEF ToolFails, Reaction
<1>5. CASE SeesDialog(r) \/ SeesNothing(r)
  BY <1>5 DEF SeesDialog, SeesNothing
<1>6. CASE SeesWanted(r)
  BY <1>6 DEF SeesWanted
<1>7. CASE HoverFinds(r) \/ HoverRetries(r) \/ HoverGivesUp(r)
  BY <1>7 DEF HoverFinds, HoverRetries, HoverGivesUp
<1>8. CASE TakesStamp(r)
  BY <1>8 DEF TakesStamp
<1>9. CASE Press(r)
  BY <1>9 DEF Press, Reaction
<1>10. CASE Cleanup(r) \/ Finish(r)
  BY <1>10 DEF Cleanup, Finish
<1>11. CASE Presents(r) \/ Loads(r)
  BY <1>11 DEF Presents, Loads, Others
<1>12. CASE EndsBenchmark(r)
  BY <1>12 DEF EndsBenchmark, Others
<1>13. CASE Exits(r) \/ Steered(r)
  BY <1>13 DEF Exits, Steered, Others
<1> QED BY <1>1, <1>2, <1>3, <1>4, <1>5, <1>6, <1>7, <1>8, <1>9, <1>10, <1>11,
           <1>12, <1>13 DEF Step, Turn, Game

-----------------------------------------------------------------------------
(* Results                                                                 *)

LEMMA LockChangesHands ==
  ASSUME NEW r \in Runs, Step(r)
  PROVE  lock' = lock \/ lock = NoRun \/ pc[r] \notin {"start", "exited"}
<1>1. CASE Acquire(r)
  BY <1>1 DEF Acquire
<1>2. CASE Turn(r)
  BY <1>2 DEF Turn, PrepareFails, Launch, SeesExit, SeesFile, TimesOut, Shoots, ToolFails,
              SeesDialog, SeesNothing, SeesWanted, HoverFinds, HoverRetries, HoverGivesUp,
              TakesStamp, Press, Cleanup, Finish
<1>3. CASE Game(r)
  BY <1>3 DEF Game, Presents, Loads, EndsBenchmark, Exits, Steered, Others
<1> QED BY <1>1, <1>2, <1>3 DEF Step

LEMMA ActionsAreFew ==
  ASSUME NEW a \in Actions
  PROVE  Len(a) <= 2
<1> USE DEF Actions
<1>1. Len(<<>>) = 0 /\ Len(<<"launcher">>) = 1 /\ Len(<<"launcher", "menu">>) = 2
  BY Appended
<1>2. CASE a = <<>>
  BY <1>1, <1>2
<1>3. CASE a = <<"launcher">>
  BY <1>1, <1>3
<1>4. CASE a = <<"launcher", "menu">>
  BY <1>1, <1>4
<1> QED BY <1>2, <1>3, <1>4, Zenon

LEMMA BenchmarkInit == ASSUME Init PROVE BInv /\ CheckedIsSelected
<1>1. OtherTypes /\ actions \in [Runs -> Actions]
  BY BoundsAssumption DEF Init, OtherTypes, Places, InGame, Screens, Actions
<1>2. HasTypes
  BY <1>1 DEF HasTypes
<1>3. ASSUME NEW r \in Runs
      PROVE  LockIsHeld(r) /\ ResultWasPlayed(r) /\ ActionsFollowPhase(r) /\ IsAnchored(r)
  BY DEF Init, LockIsHeld, Running, ResultWasPlayed, ActionsFollowPhase, Before, IsAnchored
<1>4. CheckedIsSelected
  BY DEF Init, CheckedIsSelected
<1> QED BY <1>2, <1>3, <1>4 DEF BInv, RunnersAreSound

LEMMA BenchmarkStep ==
  ASSUME BInv, NEW r \in Runs, Step(r)
  PROVE  BInv'
<1>1. /\ HasTypes
      /\ \A s \in Runs : /\ LockIsHeld(s) /\ ResultWasPlayed(s)
                         /\ ActionsFollowPhase(s) /\ IsAnchored(s)
  BY DEF BInv, RunnersAreSound
<1>2. /\ LockIsHeld(r)' /\ ResultWasPlayed(r)' /\ ActionsFollowPhase(r)' /\ IsAnchored(r)'
      /\ actions' \in [Runs -> Actions]
  BY <1>1, LockStep, PlayedStep, PhaseStep, AnchorStep
<1>3. HasTypes'
  BY <1>1, <1>2, TypesStep DEF HasTypes
<1>4. ASSUME NEW s \in Runs, s # r
      PROVE  LockIsHeld(s)' /\ ResultWasPlayed(s)' /\ ActionsFollowPhase(s)' /\ IsAnchored(s)'
  <2>1. LeavesAlone(s)
    BY <1>1, <1>4, OthersAreLeftAlone
  <2>2. pc[s] \notin {"start", "exited"} => lock' = s
    BY <1>1, <1>4, LockChangesHands, NoRunAssumption DEF LockIsHeld
  <2>3. LockIsHeld(s)'
    BY <1>1, <2>1, <2>2 DEF LockIsHeld, LeavesAlone, Running
  <2>4. ResultWasPlayed(s)'
    BY <1>1, <2>1 DEF ResultWasPlayed, LeavesAlone
  <2>5. ActionsFollowPhase(s)'
    BY <1>1, <2>1 DEF ActionsFollowPhase, LeavesAlone, Before
  <2>6. IsAnchored(s)'
    BY <1>1, <2>1 DEF IsAnchored, LeavesAlone
  <2> QED BY <2>3, <2>4, <2>5, <2>6
<1> QED BY <1>2, <1>3, <1>4 DEF BInv, RunnersAreSound

LEMMA CheckedStep ==
  ASSUME HasTypes, CheckedIsSelected, NEW r \in Runs, Step(r)
  PROVE  CheckedIsSelected'
<1> SUFFICES ASSUME Activation # "blind", "steered" \notin MayFail,
                    NEW s \in Runs, pc'[s] \in {"stamp", "key"}, phase'[s] = "menu"
             PROVE  selected'[s] = "benchmark"
  BY DEF CheckedIsSelected
<1>0. /\ pc \in [Runs -> Places] /\ phase \in [Runs -> {"launcher", "menu", "benchmark"}]
      /\ selected \in [Runs -> {"other", "benchmark"}]
      /\ pc[s] \in {"stamp", "key"} /\ phase[s] = "menu" => selected[s] = "benchmark"
  BY DEF HasTypes, OtherTypes, CheckedIsSelected
<1>1. CASE s # r
  BY <1>0, <1>1, OthersAreLeftAlone DEF LeavesAlone
<1>2. CASE s = r
  <2> USE DEF Goto, runner, record, machine, history
  <2>1. CASE Acquire(r) \/ PrepareFails(r) \/ Launch(r)
    BY <1>0, <1>2, <2>1 DEF Acquire, PrepareFails, Launch
  <2>2. CASE SeesExit(r) \/ SeesFile(r) \/ TimesOut(r) \/ Shoots(r) \/ ToolFails(r)
    BY <1>0, <1>2, <2>2 DEF SeesExit, SeesFile, TimesOut, Shoots, ToolFails
  <2>3. CASE SeesDialog(r) \/ SeesNothing(r)
    BY <1>0, <1>2, <2>3 DEF SeesDialog, SeesNothing
  <2>4. CASE SeesWanted(r)
    BY <1>0, <1>2, <2>4 DEF SeesWanted
  <2>5. CASE HoverFinds(r) \/ HoverRetries(r) \/ HoverGivesUp(r)
    BY <1>0, <1>2, <2>5 DEF HoverFinds, TitleIsBenchmark, HoverRetries, HoverGivesUp
  <2>6. CASE TakesStamp(r) \/ Press(r)
    BY <1>0, <1>2, <2>6 DEF TakesStamp, Press
  <2>7. CASE Cleanup(r) \/ Finish(r)
    BY <1>0, <1>2, <2>7 DEF Cleanup, Finish
  <2>8. CASE Presents(r) \/ Loads(r) \/ EndsBenchmark(r) \/ Exits(r) \/ Steered(r)
    BY <1>0, <1>2, <2>8 DEF Presents, Loads, EndsBenchmark, Exits, Steered, Others, Fails
  <2> QED BY <2>1, <2>2, <2>3, <2>4, <2>5, <2>6, <2>7, <2>8 DEF Step, Turn, Game
<1> QED BY <1>1, <1>2

LEMMA BenchmarkStutters ==
  ASSUME BInv, CheckedIsSelected, UNCHANGED vars
  PROVE  BInv' /\ CheckedIsSelected'
<1> USE DEF vars, runner, record, machine, history
<1>1. HasTypes'
  BY DEF BInv, HasTypes, OtherTypes
<1>2. \A r \in Runs : LockIsHeld(r)' /\ ResultWasPlayed(r)'
  BY DEF BInv, RunnersAreSound, LockIsHeld, Running, ResultWasPlayed
<1>3. \A r \in Runs : ActionsFollowPhase(r)' /\ IsAnchored(r)'
  BY DEF BInv, RunnersAreSound, ActionsFollowPhase, Before, IsAnchored
<1>4. CheckedIsSelected'
  BY DEF CheckedIsSelected
<1> QED BY <1>1, <1>2, <1>3, <1>4 DEF BInv, RunnersAreSound

LEMMA BenchmarkHolds == Spec => [](BInv /\ CheckedIsSelected)
<1>1. Init => BInv /\ CheckedIsSelected
  BY BenchmarkInit
<1>2. BInv /\ CheckedIsSelected /\ [Next]_vars => (BInv /\ CheckedIsSelected)'
  <2> SUFFICES ASSUME BInv, CheckedIsSelected, [Next]_vars
               PROVE  BInv' /\ CheckedIsSelected'
    OBVIOUS
  <2>1. CASE Next
    <3>1. PICK r \in Runs : Step(r)
      BY <2>1 DEF Next, Step
    <3> QED BY <3>1, BenchmarkStep, CheckedStep DEF BInv
  <2> QED BY <2>1, BenchmarkStutters
<1>3. Spec => Init /\ [][Next]_vars
  BY PTL DEF Spec
<1> QED BY <1>1, <1>2, <1>3, PTL

(* Whoever is started when, whatever fails and whoever else is at the      *)
(* device: one game runs in a prefix, a run that is reported a success or  *)
(* accepted for its result dialog has played the benchmark to its end, has *)
(* activated it once, and is measured from no later than its key press.    *)
THEOREM ReportsAreTrue == Spec => []ResultsAreReal
<1>1. BInv => ResultsAreReal
  <2> SUFFICES ASSUME BInv PROVE ResultsAreReal
    OBVIOUS
  <2>1. TypeOK
    <3>1. \A r \in Runs : Len(actions[r]) <= 2
      BY ActionsAreFew DEF BInv, HasTypes
    <3> QED BY <3>1 DEF BInv, HasTypes, OtherTypes, TypeOK
  <2>2. OneGamePerPrefix
    BY DEF BInv, RunnersAreSound, LockIsHeld, InGame, OneGamePerPrefix
  <2>3. SuccessWasPlayed
    BY DEF BInv, RunnersAreSound, ResultWasPlayed, SuccessWasPlayed
  <2>4. DialogHasAnAnchor
    BY DEF BInv, RunnersAreSound, ActionsFollowPhase, DialogHasAnAnchor
  <2>5. AnchorPrecedesPress
    <3> SUFFICES ASSUME NEW r \in Runs, pc[r] = "loop", actions[r] # <<>>
                 PROVE  stamp[r] <= pressed[r]
      BY DEF AnchorPrecedesPress
    <3>1. phase[r] # "launcher"
      BY DEF BInv, RunnersAreSound, ActionsFollowPhase, Before
    <3> QED BY <3>1 DEF BInv, RunnersAreSound, IsAnchored
  <2> QED BY <2>1, <2>2, <2>3, <2>4, <2>5 DEF ResultsAreReal
<1> QED BY <1>1, BenchmarkHolds, PTL

(* What the newest runner measures starts between its check of the menu's  *)
(* selection and the key press, however long the pointer looked for it.    *)
THEOREM AnchorsFollowTheCheck ==
  ASSUME Verified
  PROVE  Spec => []AnchorFollowsTheCheck
<1>1. BInv => AnchorFollowsTheCheck
  <2> SUFFICES ASSUME BInv, NEW r \in Runs, pc[r] = "loop", actions[r] # <<>>
               PROVE  found[r] <= stamp[r] /\ stamp[r] <= pressed[r]
    BY DEF AnchorFollowsTheCheck
  <2>1. phase[r] # "launcher"
    BY DEF BInv, RunnersAreSound, ActionsFollowPhase, Before
  <2> QED BY <2>1 DEF BInv, RunnersAreSound, IsAnchored
<1> QED BY <1>1, BenchmarkHolds, PTL

(* A runner that looks at the menu, with nobody else at it, never presses  *)
(* Return on another item, however its looks, its pointer and the game     *)
(* interleave.                                                             *)
THEOREM NeverPressesAnother ==
  ASSUME Activation # "blind", "steered" \notin MayFail
  PROVE  Spec => [][TheRightItem]_vars
<1>1. BInv /\ CheckedIsSelected => TheRightItem
  <2> SUFFICES ASSUME HasTypes, CheckedIsSelected,
                      NEW r \in Runs, game[r] = "menu", Press(r)
               PROVE  game'[r] # "other"
    BY DEF BInv, TheRightItem
  <2>1. game'[r] = Reaction(r)
    BY DEF Press, HasTypes, OtherTypes
  <2>2. phase[r] = "menu" => selected[r] = "benchmark"
    BY DEF Press, CheckedIsSelected
  <2> QED BY <2>1, <2>2 DEF Reaction
<1>2. BInv /\ CheckedIsSelected /\ [Next]_vars => [TheRightItem]_vars
  BY <1>1
<1>3. Spec => [][Next]_vars
  BY PTL DEF Spec
<1> QED BY <1>2, <1>3, BenchmarkHolds, PTL
=============================================================================
