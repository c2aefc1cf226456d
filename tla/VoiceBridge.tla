----------------------------- MODULE VoiceBridge -----------------------------
(***************************************************************************)
(* One transcriber session of the voice bridge (voice_bridge/bridge): the  *)
(* handler waits for Vapi's first frame, opens a Sarvam connection, and    *)
(* runs two tasks, the pump (audio to Sarvam) and the relay (transcripts   *)
(* to Vapi), until either stops.  All three are coroutines of one loop:    *)
(* what lies between two awaits is one step.  Audio frames and transcripts *)
(* are numbered; what is in them is left out.                              *)
(***************************************************************************)
EXTENDS Integers, Sequences, SequencesExt

CONSTANTS MaxFrames,  \* bound: audio frames of a session
          MaxTexts,   \* bound: transcripts of a session
          MaxWaiting, \* bound: messages waiting when a control frame or voice signal is sent
          ChunkSize   \* frames that make CHUNK_SECONDS of audio

ASSUME BridgeBounds ==
    MaxFrames \in Nat /\ MaxTexts \in Nat /\ MaxWaiting \in Nat /\ ChunkSize \in Nat \ {0}

VARIABLES handler,   \* where the websocket handler is
          result,    \* how it ended
          vapi,      \* is Vapi still connected?
          inbox,     \* Vapi's frames that were not received yet
          spoken,    \* audio frames Vapi has sent
          sarvam,    \* the connection to Sarvam
          outbox,    \* Sarvam's messages that were not read yet
          said,      \* transcripts Sarvam has sent
          pump,      \* the task of _pump_audio
          buffer,    \* its frames that were not sent
          heard,     \* audio frames Sarvam took
          relay,     \* the task of _send_transcripts
          shown,     \* transcripts Vapi was sent
          fault      \* history: the first frame or Sarvam failed the session

vapiSide == <<vapi, inbox, spoken>>
sarvamSide == <<sarvam, outbox, said>>
pumpVars == <<pump, buffer, heard>>
relayVars == <<relay, shown>>
bridgeVars == <<handler, result, vapiSide, sarvamSide, pumpVars, relayVars, fault>>

-----------------------------------------------------------------------------

Running == {"receiving", "reading", "sending"}
Control == {"start", "bad", "text"}
Frame == [type : {"audio"}, n : 1..MaxFrames] \union [type : Control \union {"hangup"}]
Message == [type : {"data"}, n : 1..MaxTexts] \union [type : {"vad", "error"}]

BridgeTypeOK ==
    /\ handler \in {"accepted", "opening", "waiting", "stopping", "closing", "ended"}
    /\ result \in {"none", "quiet", "error", "cancelled"}
    /\ vapi \in BOOLEAN /\ fault \in BOOLEAN
    /\ sarvam \in {"none", "open", "ended", "lost", "closed"}
    /\ inbox \in Seq(Frame) /\ outbox \in Seq(Message)
    /\ spoken \in 0..MaxFrames /\ said \in 0..MaxTexts
    /\ pump \in {"none", "receiving", "sending", "done", "failed", "cancelled"}
    /\ relay \in {"none", "reading", "sending", "done", "failed", "refused", "cancelled"}
    /\ buffer \in Seq(1..MaxFrames) /\ heard \in Seq(1..MaxFrames) /\ shown \in Seq(1..MaxTexts)

-----------------------------------------------------------------------------
\* Vapi and Sarvam.

\* The websocket is closed when the handler is left.
Connected == vapi /\ handler # "ended"

VapiSends(control) ==
    /\ Connected
    /\ Len(inbox) < MaxWaiting
    /\ inbox' = Append(inbox, [type |-> control])
    /\ UNCHANGED <<handler, result, vapi, spoken, sarvamSide, pumpVars, relayVars, fault>>

\* Audio follows the start frame.
VapiSpeaks ==
    /\ Connected /\ spoken < MaxFrames
    /\ handler # "accepted" \/ inbox # <<>>
    /\ spoken' = spoken + 1
    /\ inbox' = Append(inbox, [type |-> "audio", n |-> spoken'])
    /\ UNCHANGED <<handler, result, vapi, sarvamSide, pumpVars, relayVars, fault>>

VapiHangsUp ==
    /\ Connected
    /\ vapi' = FALSE
    /\ inbox' = Append(inbox, [type |-> "hangup"])
    /\ UNCHANGED <<handler, result, spoken, sarvamSide, pumpVars, relayVars, fault>>

SarvamSends(silent) ==
    /\ sarvam = "open" /\ Len(outbox) < MaxWaiting
    /\ outbox' = Append(outbox, [type |-> silent])
    /\ UNCHANGED <<handler, result, vapiSide, sarvam, said, pumpVars, relayVars, fault>>

SarvamTranscribes ==
    /\ sarvam = "open" /\ said < MaxTexts
    /\ said' = said + 1
    /\ outbox' = Append(outbox, [type |-> "data", n |-> said'])
    /\ UNCHANGED <<handler, result, vapiSide, sarvam, pumpVars, relayVars, fault>>

\* Sarvam closes the connection, or it breaks: what was received can still be read.
SarvamStops(how) ==
    /\ sarvam = "open"
    /\ sarvam' = how
    /\ UNCHANGED <<handler, result, vapiSide, outbox, said, pumpVars, relayVars, fault>>

-----------------------------------------------------------------------------
\* transcriber.

EndAs(how) == handler' = "ended" /\ result' = how

\* The first frame, checked by _start_frame.
FirstFrame ==
    /\ handler = "accepted"
    /\ inbox # <<>>
    /\ inbox' = Tail(inbox)
    /\ LET first == Head(inbox).type IN
       \/ first = "start" /\ handler' = "opening" /\ UNCHANGED <<result, fault>>
       \/ first = "hangup" /\ EndAs("quiet") /\ UNCHANGED fault
       \/ first \notin {"start", "hangup"} /\ EndAs("error") /\ fault' = TRUE
    /\ UNCHANGED <<vapi, spoken, sarvamSide, pumpVars, relayVars>>

\* START_FRAME_TIMEOUT_SECONDS pass without one.
FirstFrameTimeout ==
    /\ handler = "accepted"
    /\ inbox = <<>>
    /\ EndAs("error")
    /\ fault' = TRUE
    /\ UNCHANGED <<vapiSide, sarvamSide, pumpVars, relayVars>>

\* open_transcript_stream, and the start of _relay.
OpenStream ==
    /\ handler = "opening"
    /\ handler' = "waiting"
    /\ sarvam' = "open"
    /\ pump' = "receiving" /\ relay' = "reading"
    /\ UNCHANGED <<result, vapiSide, outbox, said, buffer, heard, shown, fault>>

\* A rate Sarvam does not take, a rejected key, a connection that cannot be had in time.
OpenFails ==
    /\ handler = "opening"
    /\ EndAs("error")
    /\ fault' = TRUE
    /\ UNCHANGED <<vapiSide, sarvamSide, pumpVars, relayVars>>

\* Mutant: until both tasks stop.
BothStopped == pump \notin Running /\ relay \notin Running

\* FIRST_COMPLETED.
OneStopped == pump \notin Running \/ relay \notin Running

Cancelled(task) == IF task \in Running THEN "cancelled" ELSE task

\* The wait is over: both tasks are cancelled, and a task that was not done is thrown the
\* cancellation when it runs next.
StopTasks(how) ==
    /\ handler' = "stopping"
    /\ result' = how
    /\ UNCHANGED <<vapiSide, sarvamSide, pumpVars, relayVars, fault>>

Wake == handler = "waiting" /\ OneStopped /\ StopTasks("none")

\* The server cancels the handler itself.
CancelHandler ==
    \/ handler \in {"accepted", "opening"} /\ EndAs("cancelled")
       /\ UNCHANGED <<vapiSide, sarvamSide, pumpVars, relayVars, fault>>
    \/ handler = "waiting" /\ StopTasks("cancelled")

PumpCancelled ==
    /\ handler = "stopping" /\ pump \in Running
    /\ pump' = Cancelled(pump)
    /\ UNCHANGED <<handler, result, vapiSide, sarvamSide, buffer, heard, relayVars, fault>>

RelayCancelled ==
    /\ handler = "stopping" /\ relay \in Running
    /\ relay' = Cancelled(relay)
    /\ UNCHANGED <<handler, result, vapiSide, sarvamSide, pumpVars, shown, fault>>

\* Mutant: a stream that ended early goes unnoticed.
OutcomeUnnoticed ==
    IF result = "cancelled" THEN "cancelled"
    ELSE IF pump = "failed" \/ relay = "failed" THEN "error" ELSE "quiet"

\* The tasks' exceptions, the pump's first; then Sarvam's end while Vapi was sending.
Outcome ==
    IF result = "cancelled" THEN "cancelled"
    ELSE IF pump = "failed" THEN "error"
    ELSE IF relay = "refused" THEN "quiet"
    ELSE IF relay = "failed" \/ (relay = "done" /\ pump # "done") THEN "error"
    ELSE "quiet"

\* gather returns, and _relay does.
Gathered ==
    /\ handler = "stopping" /\ BothStopped
    /\ handler' = "closing"
    /\ result' = Outcome
    /\ UNCHANGED <<vapiSide, sarvamSide, pumpVars, relayVars, fault>>

\* connection.close(), and then Vapi's websocket with 1011 on an error.
CloseStream ==
    /\ handler = "closing"
    /\ handler' = "ended"
    /\ sarvam' = "closed"
    /\ UNCHANGED <<result, vapiSide, outbox, said, pumpVars, relayVars, fault>>

-----------------------------------------------------------------------------
\* _pump_audio, until it is cancelled.

Alive == handler = "waiting"

PumpReceives ==
    /\ Alive /\ pump = "receiving"
    /\ inbox # <<>>
    /\ inbox' = Tail(inbox)
    /\ LET frame == Head(inbox) IN
       \/ /\ frame.type = "hangup"
          /\ pump' = "done"
          /\ UNCHANGED buffer
       \/ /\ frame.type \in Control
          /\ UNCHANGED <<pump, buffer>>
       \/ /\ frame.type = "audio"
          /\ buffer' = Append(buffer, frame.n)
          /\ pump' = IF Len(buffer') >= ChunkSize THEN "sending" ELSE pump
    /\ UNCHANGED <<handler, result, vapi, spoken, sarvamSide, heard, relayVars, fault>>

PumpSends ==
    /\ Alive /\ pump = "sending" /\ sarvam = "open"
    /\ heard' = heard \o buffer
    /\ buffer' = <<>>
    /\ pump' = "receiving"
    /\ UNCHANGED <<handler, result, vapiSide, sarvamSide, relayVars, fault>>

\* SarvamError from send_pcm.
PumpFails ==
    /\ Alive /\ pump = "sending" /\ sarvam \in {"ended", "lost"}
    /\ pump' = "failed"
    /\ fault' = TRUE
    /\ UNCHANGED <<handler, result, vapiSide, sarvamSide, buffer, heard, relayVars>>

\* _send_transcripts, until it is cancelled.

RelayReads ==
    /\ Alive /\ relay = "reading"
    /\ IF outbox # <<>>
       THEN LET type == Head(outbox).type IN
            /\ outbox' = IF type = "data" THEN outbox ELSE Tail(outbox)
            /\ relay' = CASE type = "vad"   -> "reading"
                          [] type = "error" -> "failed"
                          [] type = "data"  -> "sending"
       ELSE /\ sarvam \in {"ended", "lost"}
            /\ relay' = IF sarvam = "ended" THEN "done" ELSE "failed"
            /\ UNCHANGED outbox
    /\ fault' = (fault \/ relay' \in {"done", "failed"})
    /\ UNCHANGED <<handler, result, vapiSide, sarvam, said, pumpVars, shown>>

\* The websocket takes the text, or tells that Vapi is gone.
RelaySends ==
    /\ Alive /\ relay = "sending"
    /\ \/ /\ relay' = "reading"
          /\ shown' = Append(shown, Head(outbox).n)
          /\ outbox' = Tail(outbox)
       \/ /\ ~vapi
          /\ relay' = "refused"
          /\ UNCHANGED <<shown, outbox>>
    /\ UNCHANGED <<handler, result, vapiSide, sarvam, said, pumpVars, fault>>

-----------------------------------------------------------------------------

BridgeInit ==
    /\ handler = "accepted" /\ result = "none"
    /\ vapi = TRUE /\ inbox = <<>> /\ spoken = 0
    /\ sarvam = "none" /\ outbox = <<>> /\ said = 0
    /\ pump = "none" /\ buffer = <<>> /\ heard = <<>>
    /\ relay = "none" /\ shown = <<>>
    /\ fault = FALSE

SessionStep ==
    \/ FirstFrame \/ FirstFrameTimeout \/ OpenStream \/ OpenFails
    \/ Wake \/ PumpCancelled \/ RelayCancelled \/ Gathered \/ CloseStream
    \/ PumpReceives \/ PumpSends \/ PumpFails
    \/ RelayReads \/ RelaySends

BridgeNext ==
    \/ SessionStep \/ CancelHandler
    \/ \E control \in Control : VapiSends(control)
    \/ VapiSpeaks \/ VapiHangsUp
    \/ \E silent \in {"vad", "error"} : SarvamSends(silent)
    \/ SarvamTranscribes
    \/ \E how \in {"ended", "lost"} : SarvamStops(how)

\* The event loop runs every coroutine that can go on; the calls to Sarvam have timeouts
\* (sarvam.py:26, the client's keepalive), and so has the first frame.
Fairness ==
    /\ WF_bridgeVars(FirstFrame) /\ WF_bridgeVars(FirstFrameTimeout)
    /\ WF_bridgeVars(OpenStream \/ OpenFails)
    /\ WF_bridgeVars(Wake) /\ WF_bridgeVars(Gathered) /\ WF_bridgeVars(CloseStream)
    /\ WF_bridgeVars(PumpCancelled) /\ WF_bridgeVars(RelayCancelled)
    /\ WF_bridgeVars(PumpReceives) /\ WF_bridgeVars(PumpSends \/ PumpFails)
    /\ WF_bridgeVars(RelayReads) /\ WF_bridgeVars(RelaySends)

BridgeSpec == BridgeInit /\ [][BridgeNext]_bridgeVars /\ Fairness

-----------------------------------------------------------------------------
\* Properties.

\* Vapi's frames and Sarvam's transcripts are numbered in the order they are sent.
Numbers(n) == [i \in 1..n |-> i]

\* The messages of one kind that wait in a queue are numbered from first to last, in order.
Waiting(queue, kind, first, last) ==
    LET of == {i \in 1..Len(queue) : queue[i].type = kind} IN
    /\ {queue[i].n : i \in of} = first..last
    /\ \A i, j \in of : i < j => queue[i].n < queue[j].n

\* Audio and transcripts go through once and in order, through chunks, control frames and
\* voice-activity signals, until a task is stopped.
NothingIsLost ==
    /\ IsPrefix(heard, Numbers(spoken))
    /\ IsPrefix(shown, Numbers(said))
    /\ pump \in Running =>
         LET taken == heard \o buffer IN
         IsPrefix(taken, Numbers(spoken)) /\ Waiting(inbox, "audio", Len(taken) + 1, spoken)
    /\ relay \in Running => Waiting(outbox, "data", Len(shown) + 1, said)

\* "neither can outlive the Sarvam connection it uses" (main.py:132), and "Sarvam closed while
\* Vapi was still sending audio: transcription stopped" (main.py:147) is always told: while
\* Vapi is connected a session ends in an error or is cancelled, whichever of the tasks stops
\* first or with what, and a hang-up alone is no error.
BridgeAddsUp ==
    /\ BridgeTypeOK
    /\ pump \in Running \/ relay \in Running => sarvam \notin {"none", "closed"}
    /\ handler = "ended" => sarvam \in {"none", "closed"}
    /\ result = "quiet" => ~vapi
    /\ result = "error" => fault
    /\ NothingIsLost

\* The inductive invariant: where the handler is tells what the connection and the tasks are
\* doing, and how a task stopped tells why.
HandlerAgrees ==
    /\ handler \in {"accepted", "opening"} =>
         /\ sarvam = "none" /\ said = 0 /\ outbox = <<>> /\ heard = <<>> /\ buffer = <<>> /\ shown = <<>>
         /\ Waiting(inbox, "audio", 1, spoken)
    /\ handler \notin {"waiting", "stopping"} => pump \notin Running /\ relay \notin Running
    /\ handler \in {"waiting", "stopping", "closing"} => sarvam \notin {"none", "closed"}
    /\ handler = "waiting" => pump \notin {"none", "cancelled"} /\ relay \notin {"none", "cancelled"}
    /\ handler \in {"accepted", "opening", "waiting"} => result = "none"

\* The wait ends when a task stops of itself, or with the handler's cancellation.
StopsHaveReasons ==
    /\ handler = "stopping" =>
         /\ pump # "none" /\ relay # "none"
         /\ \/ result = "cancelled"
            \/ result = "none" /\ (pump \in {"done", "failed"} \/ relay \in {"done", "failed", "refused"})
    /\ (\E i \in 1..Len(inbox) : inbox[i].type = "hangup") => ~vapi
    /\ pump = "done" \/ relay = "refused" => ~vapi
    /\ pump = "failed" \/ relay \in {"done", "failed"} => fault
    /\ relay = "sending" => outbox # <<>> /\ Head(outbox).type = "data"

BridgeIInv == BridgeAddsUp /\ HandlerAgrees /\ StopsHaveReasons

\* A session ends once Vapi has hung up, Sarvam has stopped or no first frame comes
\* (main.py:85 and 138): a task that waits for the other side does not keep it open.
SessionsEnd ==
    /\ (~vapi \/ sarvam \in {"ended", "lost"}) ~> handler = "ended"
    /\ handler = "accepted" ~> handler # "accepted"
=============================================================================
