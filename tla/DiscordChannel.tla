----------------------------- MODULE DiscordChannel -----------------------------
(***************************************************************************)
(* DiscordChannel (src/src/channels/discord/channel.ts) and the gateway    *)
(* below it (gateway.ts): connect(), disconnect(), the WebSocket to        *)
(* Discord with its HELLO, IDENTIFY or RESUME, READY, and the reconnect    *)
(* after the link is lost.  disconnect() drops the gateway object, and the *)
(* next connect() makes another; the gateway keeps no record of a link     *)
(* that is still opening.                                                  *)
(*                                                                         *)
(* Numbers and names are left out: a session and a sequence are known or   *)
(* not.  Retry delays are left out, and so are the messages themselves.    *)
(***************************************************************************)
EXTENDS Naturals, FiniteSets

CONSTANTS
    MaxLinks,    \* bound: WebSockets at one time
    MaxGateways, \* bound: gateway objects at one time
    MaxConnects  \* bound: calls of connect()

\* Assumed of the constants: the bounds are numbers.
LinkLimits == MaxLinks \in Nat /\ MaxGateways \in Nat /\ MaxConnects \in Nat

VARIABLES
    shouldRun,
    status,         \* statusState.state
    checking,       \* connect() calls that await getCurrentUser
    connects,
    gateway,        \* the gateway object of the channel, 0 for null
    gateways,       \* each gateway object
    link,           \* each WebSocket
    sessionId,      \* the channel knows a session
    lastSequence,   \* the channel knows a sequence number
    reconnectTimer, \* is set
    raced           \* a disconnect met a call in flight

vars == <<shouldRun, status, checking, connects, gateway, gateways, link,
          sessionId, lastSequence, reconnectTimer, raced>>

Links == 1..MaxLinks
Gateways == 1..MaxGateways
NoLink == [at |-> "none", gateway |-> 0, caller |-> "none"]
NewGateway == [socket |-> 0, sequence |-> FALSE, heartbeat |-> FALSE, resume |-> FALSE]
Live == {s \in Links : link[s].at # "none"}

Init ==
    /\ shouldRun = FALSE /\ status = "disconnected"
    /\ checking = 0 /\ connects = 0
    /\ gateway = 0 /\ gateways = [g \in Gateways |-> NewGateway]
    /\ link = [s \in Links |-> NoLink]
    /\ sessionId = FALSE /\ lastSequence = FALSE
    /\ reconnectTimer = FALSE /\ raced = FALSE

Connect ==
    /\ ~shouldRun /\ connects < MaxConnects
    /\ shouldRun' = TRUE /\ status' = "connecting"
    /\ checking' = checking + 1 /\ connects' = connects + 1
    /\ UNCHANGED <<gateway, gateways, link, sessionId, lastSequence, reconnectTimer, raced>>

\* getOrCreateGateway, prepareResume and gateway.connect, which does nothing
\* while the gateway has a socket.
Unused == {g \in Gateways : g # gateway /\ \A s \in Live : link[s].gateway # g}
ConnectGateway(caller) ==
    \E g \in IF gateway # 0 THEN {gateway} ELSE Unused :
        /\ gateway # 0 \/ \A h \in Unused : g <= h
        /\ gateway' = g
        /\ gateways' = [gateways EXCEPT
               ![g] = IF gateway = 0 THEN NewGateway
                      ELSE [gateways[g] EXCEPT !.resume =
                               gateways[g].resume \/ (caller = "reconnect" /\ sessionId /\ lastSequence)]]
        /\ IF gateways'[g].socket # 0
           THEN UNCHANGED link
           ELSE \E s \in Links \ Live :
                    /\ \A r \in Links \ Live : s <= r
                    /\ link' = [link EXCEPT ![s] = [at |-> "opening", gateway |-> g, caller |-> caller]]

\* getCurrentUser resolves: connect() goes on, whatever a disconnect has done since.
UserChecked ==
    /\ checking > 0 /\ checking' = checking - 1
    /\ ConnectGateway("connect")
    /\ UNCHANGED <<shouldRun, status, connects, sessionId, lastSequence, reconnectTimer, raced>>
ConnectRejects == shouldRun' = FALSE /\ status' = "error"
UserRejected ==
    /\ checking > 0 /\ checking' = checking - 1
    /\ ConnectRejects
    /\ UNCHANGED <<connects, gateway, gateways, link, sessionId, lastSequence, reconnectTimer, raced>>

\* disconnect(): the socket the gateway has is closed with its listeners removed;
\* one that is still opening is not known to it.
Disconnect ==
    /\ shouldRun' = FALSE /\ status' = "disconnected"
    /\ reconnectTimer' = FALSE
    /\ gateways' = [g \in Gateways |->
           IF g = gateway /\ gateways[g].socket # 0 THEN NewGateway ELSE gateways[g]]
    /\ link' = [s \in Links |->
           IF gateway # 0 /\ gateways[gateway].socket = s THEN NoLink ELSE link[s]]
    /\ gateway' = 0 /\ sessionId' = FALSE /\ lastSequence' = FALSE
    /\ raced' = (raced \/ checking > 0 \/ \E s \in Live : link[s].at = "opening")
    /\ UNCHANGED <<checking, connects>>

ScheduleReconnect ==
    IF shouldRun THEN status' = "reconnecting" /\ reconnectTimer' = TRUE
    ELSE UNCHANGED <<status, reconnectTimer>>

Opened(s) ==
    /\ link[s].at = "opening"
    /\ link' = [link EXCEPT ![s].at = "open"]
    /\ gateways' = [gateways EXCEPT ![link[s].gateway].socket = s]
    /\ UNCHANGED <<shouldRun, status, checking, connects, gateway, sessionId, lastSequence,
                   reconnectTimer, raced>>
OpenFails(s) ==
    /\ link[s].at = "opening"
    /\ link' = [link EXCEPT ![s] = NoLink]
    /\ IF link[s].caller = "connect" THEN ConnectRejects /\ UNCHANGED reconnectTimer
       ELSE ScheduleReconnect /\ UNCHANGED shouldRun
    /\ UNCHANGED <<checking, connects, gateway, gateways, sessionId, lastSequence, raced>>

Unheard == <<shouldRun, checking, connects, gateway, reconnectTimer, raced>>

\* HELLO: the heartbeat starts, and the session is resumed or a new one asked for.
\* (A send throws when the gateway has lost its socket to a race.)
Hello(s) ==
    /\ link[s].at = "open" /\ gateways[link[s].gateway].socket # 0
    /\ link' = [link EXCEPT ![s].at =
           IF gateways[link[s].gateway].resume THEN "resuming" ELSE "identifying"]
    /\ gateways' = [gateways EXCEPT ![link[s].gateway].heartbeat = TRUE,
                                    ![link[s].gateway].resume = FALSE]
    /\ UNCHANGED <<Unheard, status, sessionId, lastSequence>>

Sequenced(s) == gateways' = [gateways EXCEPT ![link[s].gateway].sequence = TRUE]

\* READY after IDENTIFY; the channel hears it if it still has this gateway.
Ready(s) ==
    /\ link[s].at = "identifying"
    /\ link' = [link EXCEPT ![s].at = "ready"]
    /\ Sequenced(s)
    /\ IF link[s].gateway = gateway THEN sessionId' = TRUE /\ status' = "connected"
       ELSE UNCHANGED <<sessionId, status>>
    /\ UNCHANGED <<Unheard, lastSequence>>

\* Discord goes on with the session and sends what was missed: nothing that the
\* channel's status follows.
Resumed(s) ==
    /\ link[s].at = "resuming"
    /\ link' = [link EXCEPT ![s].at = "ready"]
    /\ Sequenced(s)
    /\ UNCHANGED <<Unheard, status, sessionId, lastSequence>>

\* MESSAGE_CREATE: the channel notes the sequence and calls its handlers.
Message(s) ==
    /\ link[s].at = "ready"
    /\ Sequenced(s)
    /\ lastSequence' = (lastSequence \/ link[s].gateway = gateway)
    /\ UNCHANGED <<Unheard, link, status, sessionId>>

\* INVALID_SESSION: the gateway forgets the session and identifies anew.
InvalidSession(s) ==
    /\ link[s].at \in {"identifying", "resuming", "ready"}
    /\ gateways[link[s].gateway].socket # 0
    /\ link' = [link EXCEPT ![s].at = "identifying"]
    /\ gateways' = [gateways EXCEPT ![link[s].gateway].sequence = FALSE,
                                    ![link[s].gateway].resume = FALSE]
    /\ UNCHANGED <<Unheard, status, sessionId, lastSequence>>

\* emitDisconnect: the channel, if it has this gateway and should run, reconnects.
Lost(g) ==
    IF g = gateway
    THEN lastSequence' = gateways[g].sequence /\ ScheduleReconnect
    ELSE UNCHANGED <<lastSequence, status, reconnectTimer>>

\* The error event of a socket; its close event follows.
Errored(s) ==
    /\ link[s].at \in {"open", "identifying", "resuming", "ready"}
    /\ link' = [link EXCEPT ![s].at = "failed"]
    /\ gateways' = [gateways EXCEPT ![link[s].gateway].heartbeat = FALSE]
    /\ Lost(link[s].gateway)
    /\ UNCHANGED <<shouldRun, checking, connects, gateway, sessionId, raced>>

\* The close event, also after Discord asked for a reconnect.
Closed(s) ==
    /\ link[s].at \in {"open", "identifying", "resuming", "ready", "failed"}
    /\ link' = [link EXCEPT ![s] = NoLink]
    /\ gateways' = [gateways EXCEPT ![link[s].gateway].heartbeat = FALSE,
                                    ![link[s].gateway].socket = 0]
    /\ Lost(link[s].gateway)
    /\ UNCHANGED <<shouldRun, checking, connects, gateway, sessionId, raced>>

Reconnect ==
    /\ reconnectTimer /\ reconnectTimer' = FALSE
    /\ IF shouldRun THEN ConnectGateway("reconnect") ELSE UNCHANGED <<gateway, gateways, link>>
    /\ UNCHANGED <<shouldRun, status, checking, connects, sessionId, lastSequence, raced>>

\* What the daemon and the network go on doing, and what Discord does on a link
\* that lives long enough.
Progress ==
    UserChecked \/ UserRejected \/ Reconnect
    \/ \E s \in Links : link[s].at = "failed" /\ Closed(s)
AnyOpened == \E s \in Links : Opened(s)
AnyHello == \E s \in Links : Hello(s)
AnyAcknowledged == \E s \in Links : Ready(s) \/ Resumed(s)

Next ==
    \/ Connect \/ UserChecked \/ UserRejected \/ Disconnect \/ Reconnect
    \/ \E s \in Links :
          \/ Opened(s) \/ OpenFails(s) \/ Hello(s) \/ Ready(s) \/ Resumed(s) \/ Message(s)
          \/ InvalidSession(s) \/ Errored(s) \/ Closed(s)

Spec == Init /\ [][Next]_vars

----------------------------------------------------------------------------

TypeOK ==
    /\ {shouldRun, sessionId, lastSequence, reconnectTimer, raced} \subseteq BOOLEAN
    /\ status \in {"disconnected", "connecting", "connected", "reconnecting", "error"}
    /\ checking \in 0..MaxConnects /\ connects \in 0..MaxConnects
    /\ gateway \in 0..MaxGateways
    /\ gateways \in [Gateways -> [socket : 0..MaxLinks, sequence : BOOLEAN,
                                  heartbeat : BOOLEAN, resume : BOOLEAN]]
    /\ link \in [Links -> [at : {"none", "opening", "open", "identifying", "resuming",
                                 "ready", "failed"},
                           gateway : 0..MaxGateways, caller : {"none", "connect", "reconnect"}]]

\* As long as no disconnect meets a call in flight: there is one WebSocket at
\* most, the one the gateway knows, and none when the channel should not run;
\* a channel that should run is never stranded, something is under way that
\* connects it or tells it of the loss; no heartbeat is sent into the void; and
\* "connected" is said only with a session on the link.
LinkHeld ==
    ~raced =>
        /\ Cardinality(Live) <= 1
        /\ \A s \in Live :
               link[s].gateway = gateway
               /\ (link[s].at = "opening" \/ gateways[gateway].socket = s)
        /\ shouldRun <=> (checking > 0 \/ Live # {} \/ reconnectTimer)
        /\ \A g \in Gateways : gateways[g].heartbeat => gateways[g].socket # 0
        /\ status = "connected" => \E s \in Live : link[s].at \in {"identifying", "ready"}

\* The channel has a session, if it should have one.
Served == raced \/ ~shouldRun \/ \E s \in Live : link[s].at = "ready"
=============================================================================
