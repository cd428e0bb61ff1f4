----------------------------- MODULE ContentPath -----------------------------
(****************************************************************************)
(* The way bytes reach the attachment store and leave it: the content API   *)
(* on its private socket (host/service/src/attachment.rs), the gateway that *)
(* proxies it for a phone (host/service/src/bin/scufris-surface-gateway.rs) *)
(* and the desktop's client with its preview copies                         *)
(* (surfaces/desktop/src/attachment.rs).                                    *)
(*                                                                          *)
(* One thread serves the content API and no handler of it awaits, so a      *)
(* request is handled in one step; the process can die in it, and the       *)
(* client can give up on either side of it.  One request is in flight at a  *)
(* time.  What a request got wrong is one word, the bytes of an object are  *)
(* their positions, and a recording is the list of its RIFF chunks.         *)
(****************************************************************************)
EXTENDS AttachmentStore

CONSTANTS
  Kind,          \* what each attachment shows as: "image", "video" or "file"
  Ranges,        \* the Range headers a phone sends, as pairs of bounds
  Recordings,    \* the recordings a phone sends: sequences of chunks
  MaxAudio       \* the bytes of MAX_AUDIO_MILLISECONDS

ASSUME ContentAssumption ==
  /\ Ranges \subseteq (Nat \cup {Unset}) \X (Nat \cup {Unset})
  /\ Recordings \subseteq Seq([name : STRING, size : Nat, sound : BOOLEAN])

VARIABLES
  exchange,   \* the request in flight, or how the last one ended
  held,       \* attachments a client was told it has, with when each was stored
  copy,       \* the desktop's private preview copies: "part" or "whole"
  thumb       \* the extracted video frames: "part", "junk" or "whole"

client == <<held, copy, thumb>>
content == <<exchange, client>>

Idle == [step |-> "idle"]
Asked(request) == [step |-> "asked", request |-> request]
Answered(request, code, body, at) ==
  [step |-> "answered", request |-> request, code |-> code, body |-> body, at |-> at]
\* How it ended for the client: the code, and the file it shows, opens, saves
\* or has transcribed.
Told(request, code, file) ==
  [step |-> "told", op |-> request.op, wrong |-> request.wrong, code |-> code, file |-> file]

-----------------------------------------------------------------------------
(* The requests. *)

Uploads == [op : {"upload"}, parameters : BOOLEAN,
            wrong : {"nothing", "token", "query", "name", "type", "empty", "over", "cut"}]
Imports == [op : {"import"}, wrong : {"nothing", "relative", "link", "missing", "empty", "over"}]
Fetches == [op : {"get"}, wrong : {"nothing", "token", "id"}, id : Attachments, range : Ranges]
Probes == [op : {"head"}, wrong : {"nothing"}, id : Attachments]
Views == [op : {"open", "thumbnail", "save"}, wrong : {"nothing"}, id : Attachments]
-----------------------------------------------------------------------------
(* validate_wav: chunks are read in order; the last format and the last     *)
(* data chunk are the ones that count.  A chunk that is cut short, and a    *)
(* format chunk of anything but 16 kHz mono PCM, end it.                    *)

Counted(audio, name) == {i \in DOMAIN audio : audio[i].name = name}
Last(places) == CHOOSE i \in places : \A j \in places : j <= i

ValidWav(audio) ==
  /\ \A i \in DOMAIN audio : audio[i].sound
  /\ Counted(audio, "fmt") # {} /\ Counted(audio, "data") # {}
  /\ audio[Last(Counted(audio, "data"))].size \in 1..MaxAudio

Transcriptions ==
  {request \in [op : {"transcribe"}, wrong : {"nothing", "token", "type", "over", "cut"},
                audio : Recordings] : request.wrong = "nothing" \/ ValidWav(request.audio)}

-----------------------------------------------------------------------------
(* The gateway: what it refuses itself, and what it forwards. *)

\* authorize comes first in every handler; then the parts of the request in
\* the order upload_attachment, download_attachment and transcribe take them.
GatewayRefusal(request) ==
  IF request.wrong = "token" THEN "unauthorized"
  ELSE IF request.wrong \in {"query", "id"} THEN "invalid_attachment"
  ELSE IF request.wrong = "type"
  THEN IF request.op = "transcribe" THEN "invalid_content_type" ELSE "invalid_attachment"
  ELSE IF request.wrong = "over"
  THEN IF request.op = "transcribe" THEN "audio_too_large" ELSE "attachment_too_large"
  ELSE IF request.wrong = "cut"
  THEN IF request.op = "transcribe" THEN "audio_incomplete" ELSE "attachment_incomplete"
  ELSE IF request.op = "transcribe" /\ ~ValidWav(request.audio) THEN "invalid_audio"
  ELSE "none"

\* Mutant: the media type is forwarded with its parameters.
ForwardsAll(request) == request

Forwarded(request) ==
  IF request.op = "upload" THEN [request EXCEPT !.parameters = FALSE] ELSE request

-----------------------------------------------------------------------------
(* A put: the request, the handler and the answer are steps of their own,  *)
(* because what the client knows depends on where it breaks.               *)

\* A bound: what is wrong with a request is refused whatever the store holds,
\* so such a request is tried on an empty one.
Tried(request) == request.wrong = "nothing" \/ stored = 0

\* The request is refused on the way, or nobody is there to answer it, or it
\* is with the content API.
Ask(request, code, sent_) ==
  /\ exchange.step = "idle" /\ Tried(request)
  /\ exchange' = IF code # "none" THEN Told(request, code, "none")
                 ELSE IF ~up THEN Told(request, "attachment_unavailable", "none")
                 ELSE Asked(sent_)
  /\ UNCHANGED <<client, vars>>

PhoneUploads ==
  \E request \in Uploads : Ask(request, GatewayRefusal(request), Forwarded(request))

DesktopImports == \E request \in Imports : Ask(request, "none", request)

\* put, import and validate_attachment_descriptor, before the quota is asked.
\* A file that is not there is an I/O error, which has no code of its own.
PutRefusal(request) ==
  IF request.wrong = "over" THEN "attachment_too_large"
  ELSE IF request.wrong \in {"empty", "name", "link", "relative"} THEN "invalid_attachment"
  ELSE IF request.wrong = "missing" THEN "attachment_unavailable"
  ELSE IF request.op = "upload" /\ request.parameters THEN "invalid_attachment"
  ELSE "none"

Answer(code, body) == exchange' = Answered(exchange.request, code, body, 0)
Stored(id) == exchange' = Answered(exchange.request, "ok", {id}, clock)

\* upload and import_attachment
Stores ==
  /\ up /\ exchange.step = "asked"
  /\ LET wrong == PutRefusal(exchange.request)
     IN  IF wrong # "none" THEN Answer(wrong, {}) /\ UNCHANGED vars
         ELSE \/ Put /\ Stored(stored')
              \/ Refuse /\ Answer("attachment_quota", {})
              \/ /\ PutFails
                 /\ \/ Answer("attachment_unavailable", {})
                    \* The file changed while it was copied (write_bounded).
                    \/ exchange.request.op = "import" /\ Answer("invalid_attachment", {})
              \/ DiesInPut /\ exchange' = Told(exchange.request, "attachment_unavailable", "none")
  /\ UNCHANGED client

\* A client stops waiting.
Lost ==
  /\ exchange.step \in {"asked", "answered"}
  /\ exchange' = Told(exchange.request, "attachment_unavailable", "none")
  /\ UNCHANGED <<client, vars>>

\* A client is told what it has: a history of what it may count on.
Holds(ids, created) ==
  [i \in DOMAIN held \cup ids |-> IF i \in DOMAIN held THEN held[i] ELSE created]

\* proxy_attachment_response relays any status; import checks for 200.
PutArrives ==
  /\ exchange.step = "answered"
  /\ exchange' = Told(exchange.request, exchange.code, "none")
  /\ held' = Holds(exchange.body, exchange.at)
  /\ UNCHANGED <<copy, thumb, vars>>

-----------------------------------------------------------------------------
(* Requests that leave the store as it is are one step: nothing they read   *)
(* can change before the client has used the answer.                        *)

\* download and head: the index answers for the object (IndexIsOnDisk).
Fetched(id, range) ==
  IF ~up THEN [code |-> "attachment_unavailable", body |-> {}]
  ELSE IF id \notin DOMAIN index THEN [code |-> "attachment_not_found", body |-> {}]
  ELSE IF id \notin objects THEN [code |-> "attachment_unavailable", body |-> {}]
  ELSE LET got == Download(range, Sizes[id])
       IN  [code |-> IF got.status = 416 THEN "invalid_range" ELSE "ok", body |-> got.body]

PhoneFetches ==
  /\ exchange.step = "idle"
  /\ \E request \in Fetches \cup Probes :
       /\ request.id <= stored + 1 /\ Tried(request)
       /\ LET refused == GatewayRefusal(request)
              range == IF request.op = "head" THEN NoRange ELSE request.range
          IN  exchange' = Told(request, IF refused # "none" THEN refused
                                        ELSE Fetched(request.id, range).code, "none")
  /\ UNCHANGED <<client, vars>>

\* The transcription service, as transcribe takes what it says: a transcript,
\* one that is not fit to show, a refusal, or nothing in time.
Transcribes ==
  /\ exchange.step = "idle" /\ stored = 0
  /\ \E request \in Transcriptions :
       \E said \in {"ok", "invalid_transcript", "transcription_failed",
                     "transcription_timeout", "transcription_unavailable"} :
         LET refused == GatewayRefusal(request)
         IN  exchange' = Told(request, IF refused # "none" THEN refused ELSE said,
                              request.audio)
  /\ UNCHANGED <<client, vars>>

\* AttachmentClient::download: a 200 with as many bytes as the descriptor says.
Downloaded(id) == LET got == Fetched(id, NoRange)
                  IN  got.code = "ok" /\ Cardinality(got.body) = Sizes[id]

\* open and thumbnail look at the media type before they ask for the bytes.
Inline(id) == Kind[id] \in {"image", "video"}

Finish(view, code, file) == exchange' = Told(view, code, file)

ViewFails(view) ==
  \/ /\ view.op # "save" /\ ~Inline(view.id)
     /\ Finish(view, IF view.op = "open" THEN "preview_unavailable"
                                         ELSE "attachment_unavailable", "none")
  \/ /\ view.op = "save" \/ Inline(view.id)
     /\ ~Downloaded(view.id)
     /\ Finish(view, "attachment_unavailable", "none")

Tear == faults < MaxFaults /\ faults' = faults + 1 /\ UNCHANGED <<up, quota, index, bytes,
          disk, clock, stored, sent, refusal>>

\* atomic_write: a temporary file renamed over the destination.
AtomicWrite(view) ==
  \/ Finish(view, "ok", "whole") /\ UNCHANGED vars
  \/ Finish(view, "not_saved", "older") /\ Tear

\* private_copy: the first copy of an attachment is kept.  Writing it can fail,
\* or the desktop can die in it, and what was written stays.
PrivateCopy(id, made(_), failed) ==
  IF id \in DOMAIN copy THEN made(copy[id]) /\ UNCHANGED copy
  ELSE \/ made("whole") /\ copy' = [i \in DOMAIN copy \cup {id} |->
                                      IF i = id THEN "whole" ELSE copy[i]]
       \/ failed /\ copy' = [i \in DOMAIN copy \cup {id} |->
                               IF i = id THEN "part" ELSE copy[i]]

Opened(view) ==
  /\ PrivateCopy(view.id, LAMBDA state : Finish(view, "ok", state) /\ UNCHANGED vars,
                 Finish(view, "preview_unavailable", "none") /\ Tear)
  /\ UNCHANGED thumb

Framed(id, state) == thumb' = [i \in DOMAIN thumb \cup {id} |->
                                 IF i = id THEN state ELSE thumb[i]]

\* A frame is served when it starts as a PNG does.
Showable(state) == state \in {"part", "whole"}

\* A frame extracted before is served if it can be, and made again if not;
\* ffmpeg can fail and leave anything.
Extracted(view) ==
  IF view.id \in DOMAIN thumb /\ Showable(thumb[view.id])
  THEN Finish(view, "ok", thumb[view.id]) /\ UNCHANGED <<thumb, vars>>
  ELSE \/ Framed(view.id, "whole") /\ Finish(view, "ok", "whole") /\ UNCHANGED vars
       \/ /\ \E state \in {"part", "junk"} : Framed(view.id, state)
          /\ Finish(view, "preview_unavailable", "none") /\ Tear

Thumbnail(view) ==
  IF Kind[view.id] = "image"
  THEN Finish(view, "ok", "whole") /\ UNCHANGED <<copy, thumb, vars>>
  ELSE PrivateCopy(view.id, LAMBDA state : Extracted(view),
                   Finish(view, "preview_unavailable", "none") /\ Tear /\ UNCHANGED thumb)

DesktopViews ==
  /\ exchange.step = "idle"
  /\ \E view \in Views :
       /\ view.id <= stored
       /\ \/ ViewFails(view) /\ UNCHANGED <<copy, thumb, vars>>
          \/ /\ Downloaded(view.id)
             /\ \/ view.op = "save" /\ AtomicWrite(view) /\ UNCHANGED <<copy, thumb>>
                \/ view.op = "open" /\ Inline(view.id) /\ Opened(view)
                \/ view.op = "thumbnail" /\ Inline(view.id) /\ Thumbnail(view)
  /\ UNCHANGED held

\* The client has read what it was told.
Reads == exchange.step = "told" /\ exchange' = Idle /\ UNCHANGED <<client, vars>>

-----------------------------------------------------------------------------
\* The store goes on: messages name attachments, time passes, the process
\* ends and starts.  A put has no other way in than the content API.
StoreGoesOn ==
  exchange.step # "told" /\ (Send \/ SendFails \/ Open \/ Tick) /\ UNCHANGED content

\* The process ends, and a request it had not answered is lost with it.
Dies ==
  /\ exchange.step # "told" /\ Die
  /\ exchange' = IF exchange.step = "asked"
                 THEN Told(exchange.request, "attachment_unavailable", "none") ELSE exchange
  /\ UNCHANGED client

ContentInit ==
  /\ Init
  /\ exchange = Idle /\ held = <<>> /\ copy = <<>> /\ thumb = <<>>

ContentNext ==
  \/ PhoneUploads \/ DesktopImports \/ Stores \/ Lost \/ PutArrives
  \/ PhoneFetches \/ Transcribes \/ DesktopViews \/ Reads
  \/ StoreGoesOn \/ Dies

ContentSpec == ContentInit /\ [][ContentNext]_<<vars, content>>

-----------------------------------------------------------------------------
ContentTypeOK ==
  /\ TypeOK
  /\ exchange.step \in {"idle", "asked", "answered", "told"}
  /\ exchange.step \in {"asked", "answered"} =>
       exchange.request \in Uploads \cup Imports
  /\ held \in [DOMAIN held -> Nat] /\ DOMAIN held \subseteq 1..stored
  /\ copy \in [DOMAIN copy -> {"part", "whole"}] /\ DOMAIN copy \subseteq 1..stored
  /\ thumb \in [DOMAIN thumb -> {"part", "junk", "whole"}] /\ DOMAIN thumb \subseteq DOMAIN copy

Ended == exchange.step = "told"

\* What a client is told of its own request is true of it: a body is too large
\* when it passed the bound, incomplete when it did not arrive, the request
\* invalid when something in it was, whoever of the gateway and the content API
\* said so (rejected_upload, upload, import, write_bounded).
RefusalsAreTrue ==
  Ended =>
    LET wrong == exchange.wrong
    IN  /\ exchange.code \in {"attachment_too_large", "audio_too_large"} => wrong = "over"
        /\ wrong = "over" => exchange.code \in
             {"attachment_too_large", "audio_too_large", "attachment_unavailable"}
        /\ exchange.code \in {"attachment_incomplete", "audio_incomplete"} => wrong = "cut"
        /\ exchange.code = "invalid_attachment" /\ exchange.op # "import" =>
             wrong \in {"query", "name", "type", "empty", "id"}
        /\ (exchange.code = "unauthorized") = (wrong = "token")

\* An attachment a client was told it has keeps its bytes and its record for
\* the retention of one no message names, through every death of the service
\* (put_reader, load).
HeldIsKept ==
  \A i \in DOMAIN held : clock - held[i] <= Unreferenced => i \in objects /\ i \in DOMAIN records

\* A file a person saves over is the old one or the whole attachment
\* (atomic_write).
SavedIsWhole == Ended /\ exchange.op = "save" => exchange.file # "part"

\* A frame is served when it starts as an image, never when it does not
\* (thumbnail).
FramesAreImages == Ended /\ exchange.op = "thumbnail" => exchange.file # "junk"

\* A recording that is sent on to be transcribed says what it holds, and what
\* it holds is no longer than the bound when it is in one piece
\* (validate_wav).
RecordingsAreSound ==
  Ended /\ exchange.op = "transcribe" /\ exchange.code = "ok" =>
    LET audio == exchange.file
        data == Counted(audio, "data")
    IN  /\ Counted(audio, "fmt") # {}
        /\ Cardinality(data) = 1 => \A i \in data : audio[i].size \in 1..MaxAudio

\* What a person opens is the whole object.  It is not so after a copy that
\* could not be written whole: the part of it that was is opened from then on.
OpenedIsWhole == Ended /\ exchange.op = "open" => exchange.file # "part"

\* What the store says it has, it has: index, records, objects and the byte
\* count agree whatever failed, and what was sent or held stays through every
\* crash and every full store (attachment.rs).
StoreIsSound ==
  /\ ContentTypeOK
  /\ IndexIsOnDisk /\ CountsAreTrue /\ SentIsKept /\ HeldIsKept

\* What a client is told and given is true of what it asked: refusals, ranges,
\* saved files, frames and recordings, whoever along the way answered
\* (scufris-surface-gateway.rs, attachment.rs of the service and the desktop).
AnswersAreTrue ==
  /\ RefusalsAreTrue /\ RefusedOnlyWhenFull /\ RangesAreExact
  /\ SavedIsWhole /\ FramesAreImages /\ RecordingsAreSound
=============================================================================
