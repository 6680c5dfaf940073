------------------------------- MODULE CdpClient -------------------------------
(***************************************************************************)
(* CdpClient (src/src/browser/cdp-client.ts): one client of Chrome's       *)
(* debugging socket.  connect() shares a connection in progress, a closed  *)
(* socket starts a reconnect of MaxAttempts attempts, disconnect() rejects *)
(* what is pending, and a command waits for its response, its timer, or    *)
(* the loss of a socket.  A reconnect that has opened a socket re-enables  *)
(* the domain the user had enabled (one domain, the command Reenable).     *)
(***************************************************************************)
EXTENDS Naturals

CONSTANTS
    Commands,     \* commands the user sends, each at most once
    Enables,      \* those of them that enable the domain
    Reenable,     \* the command reEnableDomains sends
    MaxAttempts,  \* maxAttempts of reconnect
    MaxSockets,   \* bound: sockets ever opened
    MaxConnects   \* bound: calls of connect

CdpLimits == MaxAttempts \in Nat \ {0} /\ MaxSockets \in Nat /\ MaxConnects \in Nat

VARIABLES
    socket,       \* this.socket, 0 for null
    state,        \* each socket: unused, opening, open or closed
    bound,        \* sockets with the client's listeners
    connecting,   \* connectPromise: none, discovering, or opening
    dialled,      \* the socket it opens
    attempt,      \* reconnectPromise: the number of its attempt, 0 for null
    stage,        \* where that attempt is
    redialled,    \* the socket it opens
    disconnectRequested, permanentlyDisconnected,
    domain,       \* enabledDomains is not empty
    command,      \* each command: new, pending, answered or failed
    connects,
    mixed         \* a connection came in the way of another, or was left behind

flags == <<disconnectRequested, permanentlyDisconnected>>
sockets == <<socket, state, bound>>
reconnection == <<attempt, stage, redialled>>
connection == <<connecting, dialled>>
vars == <<sockets, connection, reconnection, flags, domain, command, connects, mixed>>

Sockets == 1..MaxSockets
AllCommands == Commands \cup {Reenable}
Pending == {c \in AllCommands : command[c] = "pending"}

\* rejectAllPending.
Rejected == [c \in AllCommands |-> IF c \in Pending THEN "failed" ELSE command[c]]

Init ==
    /\ socket = 0 /\ state = [s \in Sockets |-> "unused"] /\ bound = {}
    /\ connecting = "none" /\ dialled = 0
    /\ attempt = 0 /\ stage = "none" /\ redialled = 0
    /\ disconnectRequested = FALSE /\ permanentlyDisconnected = FALSE
    /\ domain = FALSE
    /\ command = [c \in AllCommands |-> "new"]
    /\ connects = 0 /\ mixed = FALSE

\* webSocketFactory: the next socket begins to open.
Dials(s) ==
    /\ s \in Sockets /\ state[s] = "unused" /\ \A r \in 1..(s - 1) : state[r] # "unused"
    /\ state' = [state EXCEPT ![s] = "opening"]

\* openSocket's end: s is the client's socket and gets its listeners,
\* whatever socket the client had.
Adopt(s) ==
    /\ state' = [state EXCEPT ![s] = "open"]
    /\ socket' = s
    /\ bound' = bound \cup {s}

\* connect() of a client that is neither connected nor connecting.
Connect ==
    /\ socket = 0 /\ connecting = "none" /\ connects < MaxConnects
    /\ disconnectRequested' = FALSE /\ permanentlyDisconnected' = FALSE
    /\ connecting' = "discovering"
    /\ connects' = connects + 1
    /\ mixed' = (mixed \/ attempt # 0)
    /\ UNCHANGED <<sockets, dialled, reconnection, domain, command>>
ConnectDials ==
    /\ connecting = "discovering"
    /\ \E s \in Sockets : Dials(s) /\ dialled' = s
    /\ connecting' = "opening"
    /\ UNCHANGED <<socket, bound, reconnection, flags, domain, command, connects, mixed>>
ConnectOpens ==
    /\ connecting = "opening"
    /\ Adopt(dialled)
    /\ connecting' = "none" /\ dialled' = 0
    /\ UNCHANGED <<reconnection, flags, domain, command, connects, mixed>>
\* waitForOpen gives up on socket s: it has failed, or it timed out, and then
\* it is not closed and may open with nobody listening.
Abandoned(s) ==
    IF s = 0 THEN {state}
    ELSE {[state EXCEPT ![s] = "closed"], [state EXCEPT ![s] = "open"]}
LeftOpen == \E s \in Sockets : state[s] = "opening" /\ state'[s] = "open"

\* The discovery fails, or the socket does not open.
ConnectFails ==
    /\ connecting # "none"
    /\ connecting' = "none" /\ dialled' = 0
    /\ state' \in Abandoned(dialled)
    /\ mixed' = (mixed \/ LeftOpen)
    /\ UNCHANGED <<socket, bound, reconnection, flags, domain, command, connects>>

\* disconnect(): neither a reconnect nor a connection under way is stopped.
Disconnect ==
    /\ disconnectRequested' = TRUE /\ permanentlyDisconnected' = TRUE
    /\ command' = Rejected
    /\ state' = IF socket = 0 THEN state ELSE [state EXCEPT ![socket] = "closed"]
    /\ bound' = bound \ {socket} /\ socket' = 0
    /\ mixed' = (mixed \/ attempt # 0 \/ connecting # "none")
    /\ UNCHANGED <<connection, reconnection, domain, connects>>

\* send(): without a socket it throws; the socket may throw as well.
Send(c) ==
    /\ command[c] = "new"
    /\ domain' = (domain \/ c \in Enables)
    /\ \/ socket # 0 /\ command' = [command EXCEPT ![c] = "pending"]
       \/ command' = [command EXCEPT ![c] = "failed"]
    /\ UNCHANGED <<sockets, connection, reconnection, flags, connects, mixed>>

\* A response arrives on a socket the client listens to, or the timer fires.
Responds(c) ==
    /\ command[c] = "pending" /\ \E s \in bound : state[s] = "open"
    /\ command' = [command EXCEPT ![c] = "answered"]
    /\ UNCHANGED <<sockets, connection, reconnection, flags, domain, connects, mixed>>
CommandTimeout(c) ==
    /\ command[c] = "pending"
    /\ command' = [command EXCEPT ![c] = "failed"]
    /\ UNCHANGED <<sockets, connection, reconnection, flags, domain, connects, mixed>>

\* A socket closes.  handleClose does not ask which: it takes the listeners
\* from the client's socket and drops it, and starts a reconnect unless one
\* is under way or a disconnect was requested.
SocketCloses(s) ==
    /\ state[s] = "open"
    /\ state' = [state EXCEPT ![s] = "closed"]
    /\ IF s \notin bound THEN UNCHANGED <<socket, bound, command, attempt, stage>>
       ELSE /\ socket' = 0 /\ bound' = bound \ {socket}
            /\ command' = Rejected
            /\ IF ~disconnectRequested /\ attempt = 0
               THEN attempt' = 1 /\ stage' = "sleeping"
               ELSE UNCHANGED <<attempt, stage>>
    /\ mixed' = (mixed \/ (s \in bound /\ ~disconnectRequested /\ connecting # "none"))
    /\ UNCHANGED <<connection, redialled, flags, domain, connects>>

\* An attempt of reconnect: the delay, the discovery, the socket, the domain.
AttemptDials ==
    /\ stage = "sleeping"
    /\ \E s \in Sockets : Dials(s) /\ redialled' = s
    /\ stage' = "opening"
    /\ UNCHANGED <<socket, bound, connection, attempt, flags, domain, command, connects, mixed>>
AttemptOpens ==
    /\ stage = "opening"
    /\ Adopt(redialled)
    /\ redialled' = 0
    /\ IF domain
       THEN /\ command' = [command EXCEPT ![Reenable] = "pending"]
            /\ stage' = "enabling" /\ UNCHANGED <<attempt, permanentlyDisconnected>>
       ELSE /\ attempt' = 0 /\ stage' = "none" /\ permanentlyDisconnected' = FALSE
            /\ UNCHANGED command
    /\ UNCHANGED <<connection, disconnectRequested, domain, connects, mixed>>
DomainEnabled ==
    /\ stage = "enabling" /\ command[Reenable] = "answered"
    /\ attempt' = 0 /\ stage' = "none" /\ permanentlyDisconnected' = FALSE
    /\ command' = [command EXCEPT ![Reenable] = "new"]
    /\ UNCHANGED <<sockets, connection, redialled, disconnectRequested, domain, connects, mixed>>

\* The attempt fails at any of these points and the next one begins, or the
\* last one has failed.  A socket that opened is not closed.
AttemptFails ==
    /\ \/ stage \in {"sleeping", "opening"} /\ UNCHANGED command
       \/ /\ stage = "enabling" /\ command[Reenable] = "failed"
          /\ command' = [command EXCEPT ![Reenable] = "new"]
    /\ state' \in Abandoned(redialled)
    /\ redialled' = 0
    /\ IF attempt < MaxAttempts
       THEN attempt' = attempt + 1 /\ stage' = "sleeping" /\ UNCHANGED permanentlyDisconnected
       ELSE attempt' = 0 /\ stage' = "none" /\ permanentlyDisconnected' = TRUE
    /\ mixed' = (mixed \/ socket # 0 \/ LeftOpen)
    /\ UNCHANGED <<socket, bound, connection, disconnectRequested, domain, connects>>

Connection == ConnectDials \/ ConnectOpens \/ ConnectFails
Reconnection == AttemptDials \/ AttemptOpens \/ DomainEnabled \/ AttemptFails

Next ==
    \/ Connect \/ Disconnect \/ Connection \/ Reconnection
    \/ \E c \in Commands : Send(c)
    \/ \E c \in AllCommands : Responds(c) \/ CommandTimeout(c)
    \/ \E s \in Sockets : SocketCloses(s)

Spec == Init /\ [][Next]_vars

\* Requests to Chrome and sockets settle within their timers.
Progress ==
    \/ Connection \/ Reconnection
    \/ \E c \in AllCommands : Responds(c) \/ CommandTimeout(c)

----------------------------------------------------------------------------

TypeOK ==
    /\ socket \in Sockets \cup {0} /\ bound \subseteq Sockets
    /\ state \in [Sockets -> {"unused", "opening", "open", "closed"}]
    /\ connecting \in {"none", "discovering", "opening"} /\ dialled \in Sockets \cup {0}
    /\ attempt \in 0..MaxAttempts /\ redialled \in Sockets \cup {0}
    /\ stage \in {"none", "sleeping", "opening", "enabling"}
    /\ disconnectRequested \in BOOLEAN /\ permanentlyDisconnected \in BOOLEAN
    /\ domain \in BOOLEAN /\ mixed \in BOOLEAN
    /\ command \in [AllCommands -> {"new", "pending", "answered", "failed"}]
    /\ connects \in 0..MaxConnects

\* Whatever connects, closes, reconnects and disconnects in whatever order: a
\* command only waits while the client has a socket, and the client hears its
\* socket, so that the socket's end will end the wait.
WaitsOnHeardSocket ==
    /\ Pending # {} => socket # 0
    /\ socket # 0 => socket \in bound /\ state[socket] = "open"

\* As long as no connection comes in the way of another, no socket opens after
\* its time and no attempt fails after its socket opened, the client leaves no open socket behind.
NoSocketLeft == ~mixed => \A s \in Sockets : state[s] = "open" => s = socket

\* A reconnect has given up or succeeded, and commands have settled.
Resting == attempt = 0 /\ Pending = {}
=============================================================================
