------------------------------ MODULE DesktopKeys ------------------------------
(****************************************************************************)
(* The keys that reach the companion where no window is                     *)
(* (surfaces/desktop/src: keys.rs, main.rs), over the pill of               *)
(* DesktopSurface.                                                          *)
(*                                                                          *)
(* The hotkey is tapped or held: a press is remembered, a timer decides     *)
(* whether it has become talking, and what it meant is queued under the     *)
(* lock that decided it.  One thread carries the queue out in order.  A     *)
(* second thread takes the accelerators beside the hotkey while the pill is *)
(* up and gives them back.                                                  *)
(****************************************************************************)
EXTENDS DesktopSurface, SequencesExt

CONSTANTS
  MaxPresses,  \* presses of the hotkey, and reports
  MaxBeside,   \* presses of the keys beside it
  Foreign      \* the accelerators some other program holds

Accelerators == {"cancel", "stop"}

ASSUME KeysAssumption ==
  {MaxPresses, MaxBeside} \subseteq Nat /\ Foreign \subseteq Accelerators

VARIABLES
  grip,      \* Hold::grip
  timing,    \* the presses whose thread is still asleep
  queued,    \* the gestures posted and not yet carried out
  wanted,    \* PillKeys::grabs: what the grabber was asked and has not done
  held,      \* what the grabber holds
  beside,    \* presses of the keys beside the hotkey
  take       \* whose microphone it is: "none", "pressed" while the press that
             \* opened it is down, "ended" when its release ended it, "other"

\* The keys commute with the threads at the surfaces, which keep the carrying
\* thread waiting: they move between them unless Hasty.
Between == Hasty \/ Quiet

\* A report uses up a press.
Room == grip.turn + reports < MaxPresses

hold == <<grip, timing, queued, beside>>
grabs == <<wanted, held>>
keyVars == <<hold, grabs, take>>
allVars == <<vars, keyVars>>

-----------------------------------------------------------------------------
(* Hold: what the hotkey turned out to mean.                                *)

Post(gesture) == queued' = Append(queued, gesture)

\* Hold::pressed, and the thread that times the press.
Pressed ==
  /\ Between /\ ~grip.down
  /\ Room /\ gestures + Len(queued) < MaxGestures
  /\ grip' = [turn |-> grip.turn + 1, down |-> TRUE, talking |-> FALSE]
  /\ timing' = timing \cup {grip.turn + 1}
  /\ UNCHANGED <<vars, queued, beside, grabs, take>>

StillDown(turn) == grip.turn = turn /\ grip.down /\ ~grip.talking

\* Hold::matured
Matured ==
  Between /\ \E turn \in timing :
    /\ timing' = timing \ {turn}
    /\ IF StillDown(turn) THEN grip' = [grip EXCEPT !.talking = TRUE] /\ Post("open")
                          ELSE UNCHANGED <<grip, queued>>
    /\ UNCHANGED <<vars, beside, grabs, take>>

\* Hold::released
Released ==
  /\ Between /\ grip.down
  /\ grip' = [grip EXCEPT !.down = FALSE, !.talking = FALSE]
  /\ Post(IF grip.talking THEN "talk" ELSE "tap")
  /\ UNCHANGED <<vars, timing, beside, grabs, take>>

\* The handler of the accelerators the display gave the companion: one meaning
\* each, asked for on the press.
Beside ==
  /\ Between /\ beside < MaxBeside /\ beside' = beside + 1
  /\ \E key \in held : Post(key)
  /\ UNCHANGED <<vars, grip, timing, grabs, take>>

-----------------------------------------------------------------------------
\* register, one key at a time: a key that is somebody else's is refused.
Registers == held \cup (Accelerators \ Foreign)

Grabber ==
  /\ Between /\ wanted # <<>> /\ wanted' = Tail(wanted)
  /\ \/ Head(wanted) /\ held' = Registers /\ UNCHANGED trouble
     \/ ~Head(wanted) /\ held' = {} /\ UNCHANGED trouble
     \/ /\ ~Head(wanted) /\ held # {} /\ UNCHANGED held
        /\ trouble < MaxTrouble /\ trouble' = trouble + 1
  /\ UNCHANGED <<showing, surface, windows, timers, microphone, gestures, reports,
                 hold, take>>

-----------------------------------------------------------------------------
(* carry: one thread, in the order the keys were pressed.                   *)

\* What becomes of the take.
TakeAfter(gesture) ==
  IF companion.phase # "listening" /\ companion'.phase = "listening"
  THEN IF gesture = "open" THEN "pressed" ELSE "other"
  ELSE IF gesture = "talk" THEN IF take = "pressed" THEN "ended" ELSE "other"
  ELSE IF companion.phase = "listening" /\ companion'.phase # "listening" THEN "other"
  ELSE take

\* Both ends of a press are the activation the tray sends.
Meaning(gesture) ==
  CASE gesture \in {"open", "talk"} -> Activate
    [] gesture = "tap" -> ToggleWorkspace
    [] gesture = "cancel" ->
         Gesture(Plain(IF Waits(Posture(companion)) /\ Workspace THEN "cancel" ELSE "escape"))
    [] gesture = "stop" -> Gesture(Plain("stop"))

CarryOut ==
  /\ queued # <<>> /\ queued' = Tail(queued)
  /\ Meaning(Head(queued))
  /\ take' = TakeAfter(Head(queued))
  /\ UNCHANGED <<grip, timing, beside, grabs>>

\* Everything else that happens to the pill: a take it begins or ends is not
\* the press's, and a change of its posture is asked of the grabber.
Elsewhere ==
  /\ (screen = "ready" /\ Escape) \/ Enter \/ Answered \/ (Room /\ Report) \/ Threads \/ Mishaps
  /\ take' = IF (companion.phase = "listening") = (companion'.phase = "listening")
             THEN take ELSE "other"
  /\ wanted' = IF keys' = keys THEN wanted ELSE Append(wanted, keys')
  /\ UNCHANGED <<hold, held>>

KeysInit ==
  /\ Init
  /\ grip = [turn |-> 0, down |-> FALSE, talking |-> FALSE]
  /\ timing = {} /\ queued = <<>> /\ beside = 0
  /\ wanted = <<>> /\ held = {} /\ take = "none"

KeysNext == Pressed \/ Matured \/ Released \/ Beside \/ Grabber \/ CarryOut \/ Elsewhere

KeysSpec == KeysInit /\ [][KeysNext]_allVars

-----------------------------------------------------------------------------
KeysTypeOK ==
  /\ TypeOK
  /\ grip \in [turn : 0..MaxPresses, down : BOOLEAN, talking : BOOLEAN]
  /\ timing \subseteq 1..MaxPresses
  /\ held \subseteq Accelerators /\ wanted \in Seq(BOOLEAN)

\* A press that opened the microphone and still has it closes it on the way up,
\* whatever the windows and the recorder were doing in between (main.rs:810,
\* "the microphone is open exactly while the key is").
ReleaseCloses == Settled /\ take = "ended" => capture = 0

\* The two ends of one press reach the companion in order: no release is
\* carried out before its own opening (keys.rs, Hold).
OpenBeforeTalk ==
  \A i \in DOMAIN queued :
    queued[i] = "open" => \/ i < Len(queued) /\ \E j \in i + 1..Len(queued) : queued[j] = "talk"
                          \/ grip.down /\ grip.talking

\* Once nothing is in flight the accelerators are where the pill is: the
\* desktop has its keys back when the pill is down (grabber).
GrabsFollowPill ==
  Quiet /\ wanted = <<>> /\ trouble = 0 =>
    held = IF OnScreen(Posture(companion)) THEN Accelerators \ Foreign ELSE {}

\* What is left once every thread is done is what the companion decided last:
\* the windows, the grabs, the watch over the textbox and the repairs agree
\* with it, in whatever order the threads came by (app.rs, keys.rs grabber).
QuietIsSettled ==
  /\ KeysTypeOK
  /\ SettledOnNewest /\ TextboxWatched /\ RepairingIsRunning
  /\ TranscribingEnds /\ GrabsFollowPill

\* The microphone is open for a press that is still down, or behind a pill that
\* says so, and for nothing else (main.rs:810, App::recording_shown).
MicrophoneIsHeld == OpenOnlyAnnounced /\ OpenBeforeTalk /\ ReleaseCloses
=============================================================================
