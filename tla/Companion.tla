------------------------------ MODULE Companion ------------------------------
(****************************************************************************)
(* The pill state machine of the desktop (surfaces/desktop/src/state.rs):   *)
(* what one event does to the companion and which actions the host must run *)
(* for it, in order.  DesktopTranscript follows the words through it,       *)
(* DesktopSurface the windows and the microphone.                           *)
(*                                                                          *)
(* A transcript is named by the identifier it was given and by which of the *)
(* Texts it is now; details, notices and labels are left out, and of the    *)
(* reported assistant state only "working" and the rest are told apart.     *)
(****************************************************************************)
EXTENDS Naturals, Sequences

CONSTANTS
  Texts,      \* the transcripts a person can dictate or edit one into
  Empty       \* a field with nothing but blanks in it

ASSUME TextsAssumption == Texts # {} /\ Empty \notin Texts

NoId == 0

Phases == {"resting", "listening", "transcribing", "editing", "sent",
           "retained", "failed"}

\* The phases that have words in them.
Holding == {"editing", "sent", "retained"}

\* delivery is what a retained transcript is, and what a sent one falls back
\* to (Delivery, Phase::Sent::prior).
Companions == [phase : Phases, id : Nat, text : Texts \cup {Empty},
               delivery : {"refused", "uncertain"}, warned : BOOLEAN,
               dismissed : BOOLEAN, blind : BOOLEAN, working : BOOLEAN,
               commands : Nat]

\* Companion::new: a closed pill.
Fresh == [phase |-> "resting", id |-> NoId, text |-> Empty,
          delivery |-> "refused", warned |-> FALSE, dismissed |-> TRUE,
          blind |-> FALSE, working |-> FALSE, commands |-> 0]

\* One thing that happened, with the submission it is about and the text it
\* brings where it has them.
Event(kind, id, text) == [kind |-> kind, id |-> id, text |-> text]
Plain(kind) == Event(kind, NoId, Empty)

\* One thing the host must do.
Act(kind, id, text) == [kind |-> kind, id |-> id, text |-> text]

-----------------------------------------------------------------------------
Without(c, phase) == [c EXCEPT !.phase = phase, !.id = NoId, !.text = Empty,
                               !.delivery = "refused", !.warned = FALSE]

Retain(c, delivery, warned) ==
  [c EXCEPT !.phase = "retained", !.delivery = delivery, !.warned = warned]

Done(c, actions) == [companion |-> c, actions |-> actions]

\* Companion::close: the person ended the interaction; keep says whether there
\* is a workspace to go back to.
Close(c, keep, actions) ==
  Done([Without(c, "resting") EXCEPT !.dismissed = @ \/ ~keep], actions)

\* Companion::submit
SendWords(c, text, forced) ==
  Done([c EXCEPT !.phase = "sent", !.text = text, !.warned = FALSE,
                 !.delivery = IF forced THEN "uncertain" ELSE "refused"],
       <<Act("persist", c.id, text), Act("submit", c.id, text)>>)

-----------------------------------------------------------------------------
(* Companion::transition, by the event.                                     *)

Activated(c) ==
  CASE c.phase \in {"resting", "failed"} ->
         Done(Without(c, "listening"), <<Act("start", NoId, Empty)>>)
    [] c.phase = "listening" ->
         Done(Without(c, "transcribing"), <<Act("stop", NoId, Empty)>>)
    [] OTHER -> Done(c, <<>>)

Escaped(c, keep) ==
  CASE c.phase = "listening" -> Close(c, keep, <<Act("discard", NoId, Empty)>>)
    [] c.phase = "transcribing" -> Close(c, keep, <<Act("cancel", NoId, Empty)>>)
    [] c.phase \in {"editing", "retained"} ->
         Close(c, keep, <<Act("forget", c.id, Empty)>>)
    [] c.phase = "failed" -> Close(c, keep, <<>>)
    [] OTHER -> Done([c EXCEPT !.dismissed = @ \/ ~keep], <<>>)

Transcribed(c, text) ==
  IF text = Empty
  THEN Done(Without(c, "failed"), <<>>)
  ELSE LET id == c.commands + 1
       IN  Done([c EXCEPT !.phase = "editing", !.id = id, !.text = text, !.commands = id],
                <<Act("persist", id, text)>>)

MicrophoneFailed(c) ==
  CASE c.phase = "listening" -> Done(Without(c, "failed"), <<Act("discard", NoId, Empty)>>)
    [] c.phase = "transcribing" -> Done(Without(c, "failed"), <<Act("cancel", NoId, Empty)>>)
    [] OTHER -> Done(c, <<>>)

\* Words that may already be in the conversation go out again only on a second
\* Enter; a field the person may not edit sends the words held.
Entered(c, text) ==
  CASE c.phase = "editing" \/ (c.phase = "retained" /\ c.delivery = "refused") ->
         IF text = Empty THEN Done(c, <<>>) ELSE SendWords(c, text, FALSE)
    [] c.phase = "retained" /\ c.delivery = "uncertain" ->
         IF c.warned THEN SendWords(c, c.text, TRUE)
                     ELSE Done(Retain(c, "uncertain", TRUE), <<>>)
    [] OTHER -> Done(c, <<>>)

Acknowledged(c, id) ==
  IF c.phase \in {"sent", "retained"} /\ c.id = id
  THEN Done(Without(c, "resting"), <<Act("clear", NoId, Empty)>>)
  ELSE Done(c, <<>>)

SaveFailed(c) ==
  IF c.phase = "sent" THEN Done(Retain(c, c.delivery, FALSE), <<>>) ELSE Done(c, <<>>)

\* Mutant: a refused submission takes its record with it.
RefusalClears(c, id) ==
  IF c.phase = "sent" /\ c.id = id
  THEN Done(Retain(c, c.delivery, FALSE), <<Act("clear", NoId, Empty)>>) ELSE Done(c, <<>>)

NotSent(c, id) ==
  IF c.phase = "sent" /\ c.id = id
  THEN Done(Retain(c, c.delivery, FALSE), <<>>) ELSE Done(c, <<>>)

Unconfirmed(c, id) ==
  IF c.phase = "sent" /\ c.id = id
  THEN Done(Retain(c, "uncertain", FALSE), <<>>) ELSE Done(c, <<>>)

Stopped(c) ==
  IF c.working
  THEN Done([c EXCEPT !.commands = @ + 1], <<Act("abort", c.commands + 1, Empty)>>)
  ELSE Done(c, <<>>)

Transition(c, e) ==
  CASE e.kind = "activate" -> Activated(c)
    [] e.kind = "escape" -> Escaped(c, FALSE)
    [] e.kind = "cancel" -> Escaped(c, TRUE)
    [] e.kind = "dismiss" ->
         Done([c EXCEPT !.dismissed = @ \/ c.phase \in {"resting", "sent"}], <<>>)
    [] e.kind = "stop" -> Stopped(c)
    [] e.kind = "enter" -> Entered(c, e.text)
    [] e.kind = "transcribed" /\ c.phase = "transcribing" -> Transcribed(c, e.text)
    [] e.kind = "transcription_failed" /\ c.phase = "transcribing" ->
         Done(Without(c, "failed"), <<>>)
    [] e.kind = "recording_failed" -> MicrophoneFailed(c)
    [] e.kind = "persist_failed" -> SaveFailed(c)
    [] e.kind = "discard_failed" /\ c.phase = "resting" -> Done(Without(c, "failed"), <<>>)
    [] e.kind = "acknowledged" -> Acknowledged(c, e.id)
    [] e.kind = "submission_failed" -> NotSent(c, e.id)
    [] e.kind = "submission_uncertain" -> Unconfirmed(c, e.id)
    [] e.kind = "copy" /\ c.phase \in {"editing", "retained"} ->
         Done(c, <<Act("copy", c.id, c.text)>>)
    [] OTHER -> Done(c, <<>>)

\* Companion::apply: both gestures that ask for the pill try its window again.
Apply(c, e) ==
  Transition(IF e.kind \in {"activate", "reveal"}
             THEN [c EXCEPT !.blind = FALSE, !.dismissed = FALSE] ELSE c, e)

\* Companion::abandon: the window this phase needs is not there.
Abandon(c) ==
  Done([Without(c, "resting") EXCEPT !.blind = TRUE],
       CASE c.phase = "listening" -> <<Act("discard", NoId, Empty)>>
         [] c.phase = "transcribing" -> <<Act("cancel", NoId, Empty)>>
         [] OTHER -> <<>>)

\* Companion::restore: words of a previous process come back as uncertain.
Restore(c, id, text) ==
  IF c.phase = "resting"
  THEN [Retain(c, "uncertain", FALSE) EXCEPT !.id = id, !.text = text] ELSE c

\* Companion::report_trouble
ReportTrouble(c) == IF c.phase = "resting" THEN Without(c, "failed") ELSE c

-----------------------------------------------------------------------------
\* Companion::posture: where the windows belong.
Posture(c) ==
  CASE c.blind -> "off"
    [] ~c.blind /\ c.phase \in {"resting", "sent"} ->
         IF c.dismissed THEN "off" ELSE "passive"
    [] ~c.blind /\ c.phase \in {"editing", "retained"} -> "editing"
    [] OTHER -> "watched"

\* Posture::waits: the phase may not run until its windows are on screen.
Waits(posture) == posture \in {"editing", "watched"}

\* Companion::presentation, the part the runtime decides by: the microphone is
\* announced exactly while it is listening.
ShowsRecording(c) == ~c.blind /\ c.phase = "listening"

\* The words the presentation lets the person edit.
Editable(c) == /\ ~c.blind
               /\ \/ c.phase = "editing"
                  \/ c.phase = "retained" /\ c.delivery = "refused"
=============================================================================
