------------------------------ MODULE MCVoice ------------------------------
\* The voice side: the webhook events of one screening call, and one session of the voice
\* bridge.  The two share no state: part names the one a behaviour is about, so that their
\* states add up and do not multiply.  Beside a session no call is ever started; beside a call
\* the session is over.
EXTENDS ScreeningCalls, VoiceBridge

CONSTANTS c1, s1, h1, h2

OneCall == {c1}
OneStarter == {s1}
TwoHooks == {h1, h2}

VARIABLE part

-----------------------------------------------------------------------------

SessionInit ==
    IF part = "bridge" THEN BridgeInit
    ELSE /\ handler = "ended" /\ result = "none"
         /\ vapi = TRUE /\ inbox = <<>> /\ spoken = 0
         /\ sarvam = "none" /\ outbox = <<>> /\ said = 0
         /\ pump = "none" /\ buffer = <<>> /\ heard = <<>>
         /\ relay = "none" /\ shown = <<>>
         /\ fault = FALSE

VoiceInit ==
    /\ part \in {"calls", "bridge"}
    /\ CallInit /\ (part = "bridge" => provider = "vapi")
    /\ SessionInit

VoiceNext ==
    /\ UNCHANGED part
    /\ \/ part = "calls" /\ CallNext /\ UNCHANGED bridgeVars
       \/ part = "bridge" /\ BridgeNext /\ UNCHANGED callVars

\* The fairness of each component; no fair action of the other one is ever enabled.
voiceVars == <<part, callVars, bridgeVars>>
VoiceSpec == /\ VoiceInit /\ [][VoiceNext]_voiceVars
             /\ \A c \in Calls : WF_callVars(GrowOld(c))
             /\ Fairness
=============================================================================
