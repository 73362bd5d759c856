------------------------------ MODULE VoiceSession ------------------------------
(***************************************************************************)
(* One call in the voice gateway: PipelineManager, which keeps the call's  *)
(* session in a dict of its process (media_stream/pipeline_manager.py,     *)
(* internal_api.py), the media streams that connect for it (server.py) and *)
(* the turn each of them drives (orchestrator/pipeline.py, barge_in.py).   *)
(*                                                                         *)
(* An await is where another coroutine may run.  A turn first consumes its *)
(* stream to the end and only then replies, so that an interruption during *)
(* a reply can come from another stream of the call alone.  Audio is       *)
(* abstracted to whether a final transcript came of it, a reply to its     *)
(* number of chunks.                                                       *)
(***************************************************************************)
EXTENDS Naturals, Sequences, SequencesExt

CONSTANTS Streams,    \* WebSockets that connect for the call
          MaxStarts,  \* bound on the answered notifications for the call
          MaxTools,   \* bound on the tool calls of a turn
          MaxChunks,  \* bound on the chunks of a reply
          MaxRestarts \* bound on the deaths of the process

ASSUME VoiceAssumption == {MaxStarts, MaxTools, MaxChunks, MaxRestarts} \subseteq Nat

VARIABLES starts,   \* each start request
          session,  \* _sessions[call_id]: the start it came from, 0 for none
          talk,     \* the session's orchestrator, by start
          stream,   \* each media stream and its turn
          restarts

voiceVars == <<starts, session, talk, stream, restarts>>

Starts == 1 .. MaxStarts

Message == [by : Streams, role : {"user", "tool", "assistant"}]

TurnStages == {"new", "listening", "thinking", "speaking",
               "refused", "silent", "said", "cut", "lost"}

VoiceTypeOK ==
  /\ starts \in [Starts -> {"new", "stt", "llm", "tts", "done", "failed"}]
  /\ session \in 0 .. MaxStarts
  /\ talk \in [Starts -> [messages : Seq(Message), interrupted : BOOLEAN]]
  \* interruptedBy and wiped are history: the streams that interrupted this
  \* reply before its last chunk, and whether the signal was cleared after that
  /\ stream \in [Streams -> [at : TurnStages, on : 0 .. MaxStarts, tools : 0 .. MaxTools,
                             left : 0 .. MaxChunks, interruptedBy : SUBSET Streams, wiped : BOOLEAN]]
  /\ restarts \in 0 .. MaxRestarts

VoiceInit ==
  /\ starts = [s \in Starts |-> "new"]
  /\ session = 0
  /\ talk = [s \in Starts |-> [messages |-> <<>>, interrupted |-> FALSE]]
  /\ stream = [v \in Streams |-> [at |-> "new", on |-> 0, tools |-> 0, left |-> 0,
                                  interruptedBy |-> {}, wiped |-> FALSE]]
  /\ restarts = 0

------------------------------------------------------------------------------
(* POST /internal/pipelines/{call_id}/start, once per accepted in_progress *)
(* event.                                                                  *)

BeginStart(s) ==
  /\ starts[s] = "new"
  /\ starts' = [starts EXCEPT ![s] = "stt"]
  /\ UNCHANGED <<session, talk, stream, restarts>>

NextLayer == [stt |-> "llm", llm |-> "tts"]

\* start_pipeline(): get_provider_with_key for one layer after the other, ...
ResolveLayer(s) ==
  /\ starts[s] \in DOMAIN NextLayer
  /\ starts' = [starts EXCEPT ![s] = NextLayer[@]]
  /\ UNCHANGED <<session, talk, stream, restarts>>

\* ... and the new session takes the place of any other.
InstallSession(s) ==
  /\ starts[s] = "tts"
  /\ starts' = [starts EXCEPT ![s] = "done"]
  /\ session' = s
  /\ UNCHANGED <<talk, stream, restarts>>

\* A layer without a provider: the request is answered 500.
StartFails(s) ==
  /\ starts[s] \in {"stt", "llm", "tts"}
  /\ starts' = [starts EXCEPT ![s] = "failed"]
  /\ UNCHANGED <<session, talk, stream, restarts>>

------------------------------------------------------------------------------
(* handle_media_stream(): one turn per stream.                             *)

\* The turn returned, or an exception left it: its locals are gone.
TurnOver(v, at) == [stream[v] EXCEPT !.at = at, !.tools = 0, !.left = 0]

To(v, at) == stream' = [stream EXCEPT ![v] = TurnOver(v, at)]

\* PipelineNotStartedError.
RefuseStream(v) ==
  /\ stream[v].at = "new"
  /\ session = 0
  /\ To(v, "refused")
  /\ UNCHANGED <<starts, session, talk, restarts>>

\* Mutant: get_orchestrator() does not keep the orchestrator it builds.
ConnectAnew(v) ==
  /\ stream[v].at = "new"
  /\ session # 0
  /\ stream' = [stream EXCEPT ![v].at = "listening", ![v].on = session]
  /\ talk' = [talk EXCEPT ![session] = [messages |-> <<>>, interrupted |-> FALSE]]
  /\ UNCHANGED <<starts, session, restarts>>

\* get_orchestrator(): the session's, which its first stream builds.
ConnectStream(v) ==
  /\ stream[v].at = "new"
  /\ session # 0
  /\ stream' = [stream EXCEPT ![v].at = "listening", ![v].on = session]
  /\ UNCHANGED <<starts, session, talk, restarts>>

\* The streams in the middle of a reply by the orchestrator of v.
Replying(v) == {u \in Streams : /\ stream[u].at = "speaking"
                                /\ stream[u].on = stream[v].on
                                /\ stream[u].left > 0}

\* An interruption event: BargeInController.trigger().
Interrupt(v) ==
  /\ stream[v].at = "listening"
  /\ talk' = [talk EXCEPT ![stream[v].on].interrupted = TRUE]
  /\ stream' = [u \in Streams |->
       IF u \in Replying(v)
         THEN [stream[u] EXCEPT !.interruptedBy = @ \union {v}, !.wiped = FALSE]
         ELSE stream[u]]
  /\ UNCHANGED <<starts, session, restarts>>

Says(v, role) == Append(talk[stream[v].on].messages, [by |-> v, role |-> role])

\* The stream's stop event, or an error of recv(), ends the caller's turn; it is
\* over unless a final transcript came of its audio or of end_stream().
EndOfSpeech(v) ==
  /\ stream[v].at = "listening"
  /\ \/ To(v, "silent") /\ UNCHANGED talk
     \/ /\ stream' = [stream EXCEPT ![v].at = "thinking"]
        /\ talk' = [talk EXCEPT ![stream[v].on].messages = Says(v, "user")]
  /\ UNCHANGED <<starts, session, restarts>>

\* The model calls a tool: its result is appended and the model asked again.
UseTool(v) ==
  /\ stream[v].at = "thinking"
  /\ stream[v].tools < MaxTools
  /\ stream' = [stream EXCEPT ![v].tools = @ + 1]
  /\ talk' = [talk EXCEPT ![stream[v].on].messages = Says(v, "tool")]
  /\ UNCHANGED <<starts, session, restarts>>

\* The model answers without text.
NoReply(v) ==
  /\ stream[v].at = "thinking"
  /\ To(v, "silent")
  /\ UNCHANGED <<starts, session, talk, restarts>>

\* Speaking n chunks, whose stream v has just begun.
Speaking(v, n) == [u \in Streams |->
  IF u = v THEN [stream[u] EXCEPT !.at = "speaking", !.left = n]
  ELSE IF u \in Replying(v) /\ stream[u].interruptedBy # {}
    THEN [stream[u] EXCEPT !.wiped = TRUE]
    ELSE stream[u]]

\* Mutant: without barge_in.reset().
ReplyUnreset(v, n) ==
  /\ stream[v].at = "thinking"
  /\ stream' = Speaking(v, n)
  /\ talk' = [talk EXCEPT ![stream[v].on].messages = Says(v, "assistant")]
  /\ UNCHANGED <<starts, session, restarts>>

\* The reply's text is complete: it is remembered, and the signal cleared for
\* every stream of the orchestrator.
Reply(v, n) ==
  /\ stream[v].at = "thinking"
  /\ stream' = Speaking(v, n)
  /\ talk' = [talk EXCEPT ![stream[v].on] = [messages |-> Says(v, "assistant"),
                                             interrupted |-> FALSE]]
  /\ UNCHANGED <<starts, session, restarts>>

\* A chunk of speech: unless interrupted it is sent.
SendChunk(v) ==
  /\ stream[v].at = "speaking"
  /\ stream[v].left > 0
  /\ ~talk[stream[v].on].interrupted
  /\ stream' = [stream EXCEPT ![v].left = @ - 1]
  /\ UNCHANGED <<starts, session, talk, restarts>>

CutReply(v) ==
  /\ stream[v].at = "speaking"
  /\ stream[v].left > 0
  /\ talk[stream[v].on].interrupted
  /\ To(v, "cut")
  /\ UNCHANGED <<starts, session, talk, restarts>>

EndReply(v) ==
  /\ stream[v].at = "speaking"
  /\ stream[v].left = 0
  /\ To(v, "said")
  /\ UNCHANGED <<starts, session, talk, restarts>>

------------------------------------------------------------------------------
(* Failures.                                                               *)

\* A provider or a tool throws, or send() because the caller has hung up;
\* nothing catches it.
TurnThrows(v) ==
  /\ stream[v].at \in {"listening", "thinking", "speaking"}
  /\ To(v, "lost")
  /\ UNCHANGED <<starts, session, talk, restarts>>

\* The process dies with its dict, its coroutines and its requests.
GatewayRestarts ==
  /\ restarts < MaxRestarts
  /\ restarts' = restarts + 1
  /\ session' = 0
  /\ starts' = [s \in Starts |->
                  IF starts[s] \in {"stt", "llm", "tts"} THEN "failed" ELSE starts[s]]
  /\ stream' = [v \in Streams |->
                  IF stream[v].at \in {"listening", "thinking", "speaking"}
                    THEN TurnOver(v, "lost") ELSE stream[v]]
  /\ UNCHANGED talk

VoiceNext ==
  \/ \E s \in Starts : \/ BeginStart(s) \/ ResolveLayer(s) \/ InstallSession(s)
                       \/ StartFails(s)
  \/ \E v \in Streams :
       \/ RefuseStream(v) \/ ConnectStream(v) \/ Interrupt(v) \/ EndOfSpeech(v)
       \/ UseTool(v) \/ NoReply(v) \/ SendChunk(v) \/ CutReply(v) \/ EndReply(v)
       \/ TurnThrows(v)
       \/ \E n \in 0 .. MaxChunks : Reply(v, n)
  \/ GatewayRestarts

VoiceSpec == VoiceInit /\ [][VoiceNext]_voiceVars
------------------------------------------------------------------------------
(* Properties.                                                             *)

\* Playback stops for another stream only: a reply is cut short exactly by an
\* interruption that another stream of its orchestrator raised while it was
\* playing - never by an old one - and such an interruption goes unheeded only
\* when that or a third stream's reply began after it and cleared the signal.
PlaybackHeedsOthers == \A v \in Streams :
  /\ stream[v].at = "cut" => stream[v].interruptedBy \ {v} # {}
  /\ stream[v].at = "said" /\ stream[v].interruptedBy # {} => stream[v].wiped

\* v's question and its answer, in this order, are in the call's conversation.
Remembered(v) == LET said == talk[stream[v].on].messages IN
  /\ session = stream[v].on
  /\ \E i, j \in DOMAIN said :
       i < j /\ said[i] = [by |-> v, role |-> "user"] /\ said[j] = [by |-> v, role |-> "assistant"]

\* What was said in an answered turn is known to the call's next stream, unless
\* another start has replaced the session or the process has died.
AnsweredTurnsRemembered == \A v \in Streams :
  stream[v].at \in {"said", "cut"} =>
    Remembered(v) \/ restarts > 0 \/ \E s \in Starts \ {stream[v].on} : starts[s] = "done"
==============================================================================
