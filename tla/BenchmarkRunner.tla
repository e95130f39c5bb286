--------------------------- MODULE BenchmarkRunner ----------------------------
(***************************************************************************)
(* tools/benchmark_tomb_raider.py: runs the installed game's benchmark in  *)
(* a Wine prefix and records what happened in a manifest.                  *)
(*                                                                         *)
(* The runner only sees screenshots of a game that goes on by itself: it   *)
(* clicks PLAY, selects BENCHMARK in the menu, presses Return and waits    *)
(* for the result's file or dialog, its own time limit or the game's end.  *)
(* Several may be started on the same prefix; a lock file lets one in.     *)
(* The measurements of October 19 were made with two older copies of it,   *)
(* which activate the menu in another order; they are modelled beside it.  *)
(*                                                                         *)
(* An action is what a runner does between two looks at, or inputs to, the *)
(* game.  Time is left out: a time limit may strike at any turn.  A look   *)
(* is a value that may be old by the time it is used.                      *)
(*                                                                         *)
(* Right before some definitions stands a variant of them with a mistake   *)
(* in it; nothing uses it.                                                 *)
(***************************************************************************)
EXTENDS Naturals, Sequences

CONSTANTS
  Runs, NoRun,   \* invocations, each with its own output directory
  Activation,    \* "verified", or the older "early stamp", "blind"
  MaxAttempts,   \* hover attempts (4)
  MaxRows,       \* bound: lines of a run's present log
  MayFail        \* "tool", "state", "steered", "exit": what goes wrong outside

ASSUME NoRunAssumption == NoRun \notin Runs
ASSUME ActivationAssumption == Activation \in {"verified", "early stamp", "blind"}
ASSUME BoundsAssumption == MaxAttempts \in Nat \ {0} /\ MaxRows \in Nat

VARIABLES
  lock,                      \* flock on the prefix's lock file
  pc, phase, seen, attempt,  \* the runners
  stamp,                     \* the time and log length an activation recorded
  completed, timed_out, failure, actions,  \* what goes into the manifest
  manifest,                  \* "none", "started", "finished"
  status,                    \* how the runner exited
  game, selected, rows,      \* the game: its screen, the menu's item, its log
  file,                      \* benchmarkresults*.txt in its directory
  found, pressed, played     \* history: log length when the item was found selected,
                             \* at the key press; benchmarks that ended

runner == <<pc, phase, seen, attempt, stamp>>
record == <<completed, timed_out, failure, actions>>
machine == <<game, selected, rows, file>>
history == <<found, pressed, played>>
vars == <<lock, runner, record, manifest, status, machine, history>>

Screens == {"none", "launcher", "loading", "menu", "other", "benchmark", "result"}

Init ==
  /\ lock = NoRun
  /\ pc = [r \in Runs |-> "start"] /\ phase = [r \in Runs |-> "launcher"]
  /\ seen = [r \in Runs |-> "none"] /\ attempt = [r \in Runs |-> 0]
  /\ stamp = [r \in Runs |-> 0]
  /\ completed = [r \in Runs |-> FALSE] /\ timed_out = [r \in Runs |-> FALSE]
  /\ failure = [r \in Runs |-> FALSE] /\ actions = [r \in Runs |-> <<>>]
  /\ manifest = [r \in Runs |-> "none"] /\ status = [r \in Runs |-> "none"]
  /\ game = [r \in Runs |-> "none"] /\ selected = [r \in Runs |-> "other"]
  /\ rows = [r \in Runs |-> 0] /\ file = [r \in Runs |-> FALSE]
  /\ found = [r \in Runs |-> 0] /\ pressed = [r \in Runs |-> 0] /\ played = {}

Goto(r, where) == pc' = [pc EXCEPT ![r] = where]
Running(r) == game[r] # "none"
Fails(what) == what \in MayFail

-----------------------------------------------------------------------------
(* run: before the loop                                                    *)

AcquireShared(r) ==
  /\ pc[r] = "start"
  /\ Goto(r, "prepare") /\ lock' = r
  /\ UNCHANGED <<phase, seen, attempt, stamp, record, manifest, status, machine, history>>

(* LOCK_EX | LOCK_NB: whoever comes second gives up. *)
Acquire(r) ==
  /\ pc[r] = "start"
  /\ \/ lock = NoRun /\ lock' = r /\ Goto(r, "prepare") /\ UNCHANGED status
     \/ lock # NoRun /\ Goto(r, "exited") /\ status' = [status EXCEPT ![r] = "refused"]
        /\ UNCHANGED lock
  /\ UNCHANGED <<phase, seen, attempt, stamp, record, manifest, machine, history>>

(* The saved state must have its hashes. *)
PrepareFails(r) ==
  /\ pc[r] = "prepare" /\ Fails("state")
  /\ Goto(r, "exited") /\ lock' = NoRun /\ status' = [status EXCEPT ![r] = "refused"]
  /\ UNCHANGED <<phase, seen, attempt, stamp, record, manifest, machine, history>>

(* State restored, a fresh game directory, the manifest's first form. *)
Launch(r) ==
  /\ pc[r] = "prepare"
  /\ manifest' = [manifest EXCEPT ![r] = "started"]
  /\ game' = [game EXCEPT ![r] = "launcher"]
  /\ Goto(r, "loop")
  /\ UNCHANGED <<lock, phase, seen, attempt, stamp, record, status, selected, rows, file, history>>

-----------------------------------------------------------------------------
(* run: a turn of the loop                                                 *)

SeesExit(r) ==
  /\ pc[r] = "loop" /\ ~Running(r)
  /\ Goto(r, "cleanup")
  /\ UNCHANGED <<lock, phase, seen, attempt, stamp, record, manifest, status, machine, history>>

(* The picture of the result is taken after the mark; that may fail. *)
SeesFile(r) ==
  /\ pc[r] = "loop" /\ Running(r) /\ file[r]
  /\ completed' = [completed EXCEPT ![r] = TRUE]
  /\ \/ UNCHANGED failure
     \/ Fails("tool") /\ failure' = [failure EXCEPT ![r] = TRUE]
  /\ Goto(r, "cleanup")
  /\ UNCHANGED <<lock, phase, seen, attempt, stamp, timed_out, actions, manifest, status,
                 machine, history>>

TimesOutBeforeBenchmark(r) ==
  /\ pc[r] = "loop" /\ Running(r) /\ ~file[r] /\ phase[r] # "benchmark"
  /\ timed_out' = [timed_out EXCEPT ![r] = TRUE]
  /\ Goto(r, "cleanup")
  /\ UNCHANGED <<lock, phase, seen, attempt, stamp, completed, failure, actions, manifest,
                 status, machine, history>>

TimesOut(r) ==
  /\ pc[r] = "loop" /\ Running(r) /\ ~file[r]
  /\ timed_out' = [timed_out EXCEPT ![r] = TRUE]
  /\ Goto(r, "cleanup")
  /\ UNCHANGED <<lock, phase, seen, attempt, stamp, completed, failure, actions, manifest,
                 status, machine, history>>

Shoots(r) ==
  /\ pc[r] = "loop" /\ Running(r) /\ ~file[r]
  /\ seen' = [seen EXCEPT ![r] = game[r]]
  /\ Goto(r, "shot")
  /\ UNCHANGED <<lock, phase, attempt, stamp, record, manifest, status, machine, history>>

(* What the key, or the click, does to the game. *)
Reaction(r) ==
  CASE phase[r] = "launcher" /\ game[r] = "launcher" -> "loading"
    [] phase[r] = "menu" /\ game[r] = "menu" ->
         IF selected[r] = "benchmark" THEN "benchmark" ELSE "other"
    [] OTHER -> game[r]

(* No picture, or nothing that reads it, or no key press, or one that is   *)
(* never released: an exception ends the loop.                             *)
ToolFails(r) ==
  /\ pc[r] \in {"shot", "hover", "stamp", "key"} /\ Fails("tool")
  /\ failure' = [failure EXCEPT ![r] = TRUE]
  /\ Goto(r, "cleanup")
  /\ \/ game' = game
     \/ pc[r] = "key" /\ game' = [game EXCEPT ![r] = Reaction(r)]
  /\ UNCHANGED <<lock, phase, seen, attempt, stamp, completed, timed_out, actions, manifest,
                 status, selected, rows, file, history>>

SeesDialogAnyPhase(r) ==
  /\ pc[r] = "shot" /\ seen[r] = "result"
  /\ completed' = [completed EXCEPT ![r] = TRUE]
  /\ Goto(r, "cleanup")
  /\ UNCHANGED <<lock, phase, seen, attempt, stamp, timed_out, failure, actions, manifest,
                 status, machine, history>>

(* The dialog counts once BENCHMARK was activated. *)
SeesDialog(r) ==
  /\ pc[r] = "shot" /\ phase[r] = "benchmark" /\ seen[r] = "result"
  /\ completed' = [completed EXCEPT ![r] = TRUE]
  /\ Goto(r, "cleanup")
  /\ UNCHANGED <<lock, phase, seen, attempt, stamp, timed_out, failure, actions, manifest,
                 status, machine, history>>

Wanted(r) == \/ phase[r] = "launcher" /\ seen[r] = "launcher"
             \/ phase[r] = "menu" /\ seen[r] = "menu"

(* Its words may also go unread. *)
SeesNothing(r) ==
  /\ pc[r] = "shot" /\ ~(phase[r] = "benchmark" /\ seen[r] = "result")
  /\ Goto(r, "loop")
  /\ UNCHANGED <<lock, phase, seen, attempt, stamp, record, manifest, status, machine, history>>

Verified == Activation = "verified"

(* The word is found: the pointer goes there, which may or may not select  *)
(* the item in time.  The older runners write the action down first, with  *)
(* the log's length.                                                       *)
SeesWanted(r) ==
  /\ pc[r] = "shot" /\ Wanted(r)
  /\ attempt' = [attempt EXCEPT ![r] = 0]
  /\ IF Verified
       THEN UNCHANGED <<stamp, actions>>
       ELSE /\ stamp' = [stamp EXCEPT ![r] = rows[r]]
            /\ actions' = [actions EXCEPT ![r] = Append(@, phase[r])]
  /\ \/ UNCHANGED selected
     \/ phase[r] = "menu" /\ selected' = [selected EXCEPT ![r] = "benchmark"]
  /\ Goto(r, IF phase[r] = "menu" /\ Activation # "blind" THEN "hover" ELSE "stamp")
  /\ found' = [found EXCEPT ![r] = rows[r]]
  /\ UNCHANGED <<lock, phase, seen, completed, timed_out, failure, manifest, status, game, rows,
                 file, pressed, played>>

-----------------------------------------------------------------------------
(* activate                                                                *)

(* The title of the selected item is on the screen. *)
TitleIsBenchmark(r) == game[r] = "menu" /\ selected[r] = "benchmark"

HoverFinds(r) ==
  /\ pc[r] = "hover" /\ attempt[r] < MaxAttempts /\ TitleIsBenchmark(r)
  /\ found' = [found EXCEPT ![r] = rows[r]]
  /\ Goto(r, "stamp")
  /\ UNCHANGED <<lock, phase, seen, attempt, stamp, record, manifest, status, machine, pressed,
                 played>>

HoverRetriesOnceMore(r) ==
  /\ pc[r] = "hover" /\ attempt[r] <= MaxAttempts
  /\ attempt' = [attempt EXCEPT ![r] = @ + 1]
  /\ \/ UNCHANGED selected
     \/ game[r] = "menu" /\ selected' = [selected EXCEPT ![r] = "benchmark"]
  /\ UNCHANGED <<lock, pc, phase, seen, stamp, record, manifest, status, game, rows, file, history>>

(* Another title, or one that goes unread: the pointer is moved again. *)
HoverRetries(r) ==
  /\ pc[r] = "hover" /\ attempt[r] < MaxAttempts
  /\ attempt' = [attempt EXCEPT ![r] = @ + 1]
  /\ \/ UNCHANGED selected
     \/ game[r] = "menu" /\ selected' = [selected EXCEPT ![r] = "benchmark"]
  /\ UNCHANGED <<lock, pc, phase, seen, stamp, record, manifest, status, game, rows, file, history>>

HoverProceeds(r) ==
  /\ pc[r] = "hover" /\ attempt[r] = MaxAttempts
  /\ Goto(r, "stamp")
  /\ UNCHANGED <<lock, phase, seen, attempt, stamp, record, manifest, status, machine, history>>

HoverGivesUp(r) ==
  /\ pc[r] = "hover" /\ attempt[r] = MaxAttempts
  /\ failure' = [failure EXCEPT ![r] = TRUE]
  /\ Goto(r, "cleanup")
  /\ UNCHANGED <<lock, phase, seen, attempt, stamp, completed, timed_out, actions, manifest,
                 status, machine, history>>

TakesEarlyStamp(r) ==
  /\ pc[r] = "stamp"
  /\ Goto(r, "key")
  /\ UNCHANGED <<lock, phase, seen, attempt, stamp, record, manifest, status, machine, history>>

(* The log's length, right before the key goes down; the older runners     *)
(* have theirs.                                                            *)
TakesStamp(r) ==
  /\ pc[r] = "stamp"
  /\ IF Verified THEN stamp' = [stamp EXCEPT ![r] = rows[r]] ELSE UNCHANGED stamp
  /\ Goto(r, "key")
  /\ UNCHANGED <<lock, phase, seen, attempt, record, manifest, status, machine, history>>

StampAfterPress(r) ==
  /\ pc[r] = "key"
  /\ game' = [game EXCEPT ![r] = Reaction(r)]
  /\ pressed' = [pressed EXCEPT ![r] = rows[r]]
  /\ \E late \in rows[r] .. MaxRows : stamp' = [stamp EXCEPT ![r] = late]
  /\ actions' = [actions EXCEPT ![r] = IF Verified THEN Append(@, phase[r]) ELSE @]
  /\ phase' = [phase EXCEPT ![r] = IF @ = "launcher" THEN "menu" ELSE "benchmark"]
  /\ Goto(r, "loop")
  /\ UNCHANGED <<lock, seen, attempt, completed, timed_out, failure, manifest, status,
                 selected, rows, file, found, played>>

(* Down, up, the action into the manifest, which is written again. *)
Press(r) ==
  /\ pc[r] = "key"
  /\ game' = [game EXCEPT ![r] = Reaction(r)]
  /\ pressed' = [pressed EXCEPT ![r] = rows[r]]
  /\ actions' = [actions EXCEPT ![r] = IF Verified THEN Append(@, phase[r]) ELSE @]
  /\ phase' = [phase EXCEPT ![r] = IF @ = "launcher" THEN "menu" ELSE "benchmark"]
  /\ Goto(r, "loop")
  /\ UNCHANGED <<lock, seen, attempt, stamp, completed, timed_out, failure, manifest, status,
                 selected, rows, file, found, played>>

-----------------------------------------------------------------------------
(* run: after the loop                                                     *)

CleanupIfLeft(r) ==
  /\ pc[r] = "cleanup"
  /\ game' = [game EXCEPT ![r] = IF timed_out[r] THEN "none" ELSE @]
  /\ Goto(r, "finish")
  /\ UNCHANGED <<lock, phase, seen, attempt, stamp, record, manifest, status, selected, rows,
                 file, history>>

(* finally: wineserver -k, then the process is waited for. *)
Cleanup(r) ==
  /\ pc[r] = "cleanup"
  /\ game' = [game EXCEPT ![r] = "none"]
  /\ Goto(r, "finish")
  /\ UNCHANGED <<lock, phase, seen, attempt, stamp, record, manifest, status, selected, rows,
                 file, history>>

SucceededWithoutResult(r) == ~failure[r] /\ ~timed_out[r]

Succeeded(r) == ~failure[r] /\ ~timed_out[r] /\ (completed[r] \/ file[r])

(* The manifest's last form, and the exit status.  A result file counts    *)
(* when the game itself exited well.                                       *)
Finish(r) ==
  /\ pc[r] = "finish"
  /\ manifest' = [manifest EXCEPT ![r] = "finished"]
  /\ \/ status' = [status EXCEPT ![r] = IF Succeeded(r) THEN "ok" ELSE "failed"]
     \/ ~completed[r] /\ status' = [status EXCEPT ![r] = "failed"]
  /\ lock' = NoRun
  /\ Goto(r, "exited")
  /\ UNCHANGED <<phase, seen, attempt, stamp, record, machine, history>>

-----------------------------------------------------------------------------
(* The game                                                                *)

Others == <<lock, runner, record, manifest, status>>

Presents(r) ==
  /\ Running(r) /\ rows[r] < MaxRows
  /\ rows' = [rows EXCEPT ![r] = @ + 1]
  /\ UNCHANGED <<Others, game, selected, file, history>>

Loads(r) ==
  /\ game[r] = "loading"
  /\ game' = [game EXCEPT ![r] = "menu"]
  /\ UNCHANGED <<Others, selected, rows, file, history>>

(* The end of the benchmark: a dialog; of the command-line one, a file. *)
EndsBenchmark(r) ==
  /\ game[r] = "benchmark"
  /\ game' = [game EXCEPT ![r] = "result"]
  /\ \E f \in BOOLEAN : file' = [file EXCEPT ![r] = f]
  /\ played' = played \cup {r}
  /\ UNCHANGED <<Others, selected, rows, found, pressed>>

Exits(r) ==
  /\ Running(r) /\ (Fails("exit") \/ game[r] = "result")
  /\ game' = [game EXCEPT ![r] = "none"]
  /\ UNCHANGED <<Others, selected, rows, file, history>>

(* Somebody else at the screen, who also moves the selection. *)
Steered(r) ==
  /\ Running(r) /\ Fails("steered")
  /\ game[r] \in {"menu", "other"}
  /\ \E s \in {"menu", "other", "benchmark"} : game' = [game EXCEPT ![r] = s]
  /\ \E item \in {"benchmark", "other"} : selected' = [selected EXCEPT ![r] = item]
  /\ UNCHANGED <<Others, rows, file, history>>

-----------------------------------------------------------------------------

Turn(r) ==
  \/ PrepareFails(r) \/ Launch(r)
  \/ SeesExit(r) \/ SeesFile(r) \/ TimesOut(r) \/ Shoots(r) \/ ToolFails(r)
  \/ SeesDialog(r) \/ SeesNothing(r) \/ SeesWanted(r)
  \/ HoverFinds(r) \/ HoverRetries(r) \/ HoverGivesUp(r) \/ TakesStamp(r) \/ Press(r)
  \/ Cleanup(r) \/ Finish(r)

Game(r) == Presents(r) \/ Loads(r) \/ EndsBenchmark(r) \/ Exits(r) \/ Steered(r)

Next == \E r \in Runs : Acquire(r) \/ Turn(r) \/ Game(r)

(* A runner goes on, and its time limit, checked in every turn, strikes in *)
(* the end.                                                                *)
IsOver(r) == TimesOut(r) \/ SeesExit(r) \/ SeesFile(r)

Spec == Init /\ [][Next]_vars /\ \A r \in Runs : WF_vars(Turn(r)) /\ SF_vars(IsOver(r))

-----------------------------------------------------------------------------
(* Properties                                                              *)

TypeOK ==
  /\ lock \in Runs \cup {NoRun}
  /\ phase \in [Runs -> {"launcher", "menu", "benchmark"}]
  /\ seen \in [Runs -> Screens] /\ game \in [Runs -> Screens]
  /\ attempt \in [Runs -> 0 .. MaxAttempts]
  /\ {stamp, found, pressed} \subseteq [Runs -> 0 .. MaxRows]
  /\ \A r \in Runs : Len(actions[r]) <= 2
  /\ manifest \in [Runs -> {"none", "started", "finished"}]
  /\ status \in [Runs -> {"none", "refused", "failed", "ok"}]
  /\ played \subseteq Runs

(* One game at a time runs in a prefix, whoever is started when: a runner  *)
(* that leaves, however it leaves, has stopped its game before it lets the *)
(* next one in.                                                            *)
OneGamePerPrefix == \A r, s \in Runs : Running(r) /\ Running(s) => r = s

(* A run reported as a success, or marked as stopped after its result, has *)
(* played the benchmark to its end, although the runner never saw it play. *)
SuccessWasPlayed == \A r \in Runs : status[r] = "ok" \/ completed[r] => r \in played

(* A run accepted for its result dialog has activated BENCHMARK once, so   *)
(* that its log has an anchor, also when somebody else used the menu.      *)
DialogHasAnAnchor ==
  \A r \in Runs : completed[r] /\ ~file[r] => actions[r] = <<"launcher", "menu">>

(* The log length an action recorded is never beyond the log at the moment *)
(* of its key press: no present before the press is taken for one after.   *)
AnchorPrecedesPress ==
  \A r \in Runs : pc[r] = "loop" /\ actions[r] # <<>> => stamp[r] <= pressed[r]

(* The verified runner's is not one of the time the pointer was still      *)
(* looking for the item either: what is measured starts between the check  *)
(* of the selection and the key press.                                     *)
AnchorFollowsTheCheck ==
  \A r \in Runs :
    pc[r] = "loop" /\ actions[r] # <<>> => found[r] <= stamp[r] /\ stamp[r] <= pressed[r]

(* A result that is reported, or accepted for its dialog, is that of one   *)
(* game that was played to its end and is measured from no later than its  *)
(* own key press.                                                          *)
ResultsAreReal ==
  TypeOK /\ OneGamePerPrefix /\ SuccessWasPlayed /\ DialogHasAnAnchor /\ AnchorPrecedesPress

(* Return is not pressed on another item of the menu. *)
TheRightItem == \A r \in Runs : game[r] = "menu" /\ Press(r) => game'[r] # "other"
=============================================================================
