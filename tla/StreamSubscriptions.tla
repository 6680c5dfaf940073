-------------------------- MODULE StreamSubscriptions --------------------------
(***************************************************************************)
(* Who watches the answer to a post: the WebSocket side of                 *)
(* DaemonHttpServer and WsStreamRegistry, and the executions that a        *)
(* disconnect aborts.                                                      *)
(*                                                                         *)
(* Three maps follow the same subscriptions: subscribersByStream and       *)
(* socketsByConnection of the registry, and the server's own               *)
(* streamSubscriptionsByConnection, which a close goes by.                 *)
(***************************************************************************)
EXTENDS Naturals, FiniteSets

CONSTANTS
    Sockets,  \* connections
    Streams   \* assistant messages of accepted posts

VARIABLES
    socket,     \* "new", "open", "silent" (peer gone, no close yet), "closing", "closed"
    subs,       \* WsStreamRegistry.subscribersByStream
    streamsOf,  \* WsStreamRegistry.streamsByConnection
    pinged,     \* keys of WsStreamRegistry.socketsByConnection
    listed,     \* keys of streamSubscriptionsByConnection
    tracked,    \* its values
    exec,       \* "none", "window", "active", "ended": the execution of each stream
    registered, \* keys of activeExecutions
    aborted,    \* executions whose controller was aborted
    serving,    \* the server has not been stopped
    followers   \* history: who subscribed since nobody did by their own choice

registryVars == <<subs, streamsOf, pinged>>
serverVars == <<listed, tracked>>
execVars == <<exec, registered, aborted, serving>>
vars == <<socket, registryVars, serverVars, execVars, followers>>

Init ==
    /\ socket = [c \in Sockets |-> "new"]
    /\ subs = [s \in Streams |-> {}]
    /\ streamsOf = [c \in Sockets |-> {}]
    /\ pinged = {} /\ listed = {}
    /\ tracked = [c \in Sockets |-> {}]
    /\ exec = [s \in Streams |-> "none"]
    /\ registered = {} /\ aborted = {}
    /\ serving = TRUE
    /\ followers = [s \in Streams |-> {}]

-----------------------------------------------------------------------------
(* Connections. *)

\* handleWebSocketOpen.
Open(c) ==
    /\ socket[c] = "new" /\ serving
    /\ socket' = [socket EXCEPT ![c] = "open"]
    /\ listed' = listed \cup {c}
    /\ tracked' = [tracked EXCEPT ![c] = {}]
    /\ UNCHANGED <<registryVars, execVars, followers>>

\* stream.subscribe: a client knows the stream from the answer to its post.
Subscribe(c, s) ==
    /\ socket[c] = "open" /\ exec[s] # "none"
    /\ listed' = listed \cup {c}
    /\ tracked' = [tracked EXCEPT ![c] = @ \cup {s}]
    /\ subs' = [subs EXCEPT ![s] = @ \cup {c}]
    /\ streamsOf' = [streamsOf EXCEPT ![c] = @ \cup {s}]
    /\ pinged' = pinged \cup {c}
    /\ followers' = [followers EXCEPT ![s] = @ \cup {c}]
    /\ UNCHANGED <<socket, execVars>>

\* Mutant: the connection is dropped from the list with its first subscription.
UnsubscribeDropsList(c, s) ==
    /\ socket[c] = "open"
    /\ subs' = [subs EXCEPT ![s] = @ \ {c}]
    /\ streamsOf' = [streamsOf EXCEPT ![c] = @ \ {s}]
    /\ tracked' = [tracked EXCEPT ![c] = {}]
    /\ listed' = listed \ {c}
    /\ followers' = [followers EXCEPT ![s] = IF subs'[s] = {} THEN {} ELSE @ \ {c}]
    /\ UNCHANGED <<socket, pinged, execVars>>

\* stream.unsubscribe; it never aborts.
Unsubscribe(c, s) ==
    /\ socket[c] = "open"
    /\ subs' = [subs EXCEPT ![s] = @ \ {c}]
    /\ streamsOf' = [streamsOf EXCEPT ![c] = @ \ {s}]
    /\ tracked' = [tracked EXCEPT ![c] = @ \ {s}]
    /\ listed' = IF tracked'[c] = {} THEN listed \ {c} ELSE listed
    /\ followers' = [followers EXCEPT ![s] = IF subs'[s] = {} THEN {} ELSE @ \ {c}]
    /\ UNCHANGED <<socket, pinged, execVars>>

\* removeConnection, then abortExecutionIfUnobserved for what the connection
\* had subscribed to by the server's own list.
Forget(c) ==
    /\ subs' = [s \in Streams |-> IF s \in streamsOf[c] THEN subs[s] \ {c} ELSE subs[s]]
    /\ streamsOf' = [streamsOf EXCEPT ![c] = {}]
    /\ pinged' = pinged \ {c}
    /\ listed' = listed \ {c}
    /\ tracked' = [tracked EXCEPT ![c] = {}]
    /\ aborted' = aborted \cup {s \in tracked[c] \cap registered : subs'[s] = {}}

\* handleWebSocketClose, for a peer that closes, one that is found gone, and
\* after the server closed the socket itself.
Close(c) ==
    /\ socket[c] \in {"open", "silent", "closing"}
    /\ socket' = [socket EXCEPT ![c] = "closed"]
    /\ Forget(c)
    /\ UNCHANGED <<exec, registered, serving, followers>>

\* The peer disappears without a word.
GoesSilent(c) ==
    /\ socket[c] = "open"
    /\ socket' = [socket EXCEPT ![c] = "silent"]
    /\ UNCHANGED <<registryVars, serverVars, execVars, followers>>

\* The heartbeat loop finds a socket that has not been heard of for 45 s.
HeartbeatTimeout(c) ==
    /\ socket[c] = "silent" /\ c \in pinged /\ serving
    /\ socket' = [socket EXCEPT ![c] = "closing"]
    /\ Forget(c)
    /\ UNCHANGED <<exec, registered, serving, followers>>

\* A publish whose send throws for the sockets of silent peers in Stale.
SendFails(s, Stale) ==
    /\ s \in registered /\ Stale # {} /\ Stale \subseteq subs[s]
    /\ \A c \in Stale : socket[c] = "silent"
    /\ subs' = [subs EXCEPT ![s] = @ \ Stale]
    /\ streamsOf' = [c \in Sockets |-> IF c \in Stale THEN streamsOf[c] \ {s} ELSE streamsOf[c]]
    /\ pinged' = pinged \ Stale
    /\ UNCHANGED <<socket, serverVars, execVars, followers>>

-----------------------------------------------------------------------------
(* Executions. *)

\* A post is accepted and its execution scheduled.
Schedule(s) ==
    /\ exec[s] = "none" /\ serving
    /\ exec' = [exec EXCEPT ![s] = "window"]
    /\ UNCHANGED <<socket, registryVars, serverVars, registered, aborted, serving, followers>>

\* waitForStreamSubscriptionWindow returns: somebody subscribed, no connection
\* is listed, or the grace period is over; the execution registers. Without a
\* conversation manager it returns at once.
Register(s) ==
    /\ exec[s] = "window"
    /\ \/ /\ serving
          /\ exec' = [exec EXCEPT ![s] = "active"]
          /\ registered' = registered \cup {s}
          /\ followers' = [followers EXCEPT ![s] = subs[s]]
       \/ /\ ~serving
          /\ exec' = [exec EXCEPT ![s] = "ended"]
          /\ UNCHANGED <<registered, followers>>
    /\ UNCHANGED <<socket, registryVars, serverVars, aborted, serving>>

\* The answer is there, or failed, or the abort took effect.
Finish(s) ==
    /\ exec[s] = "active"
    /\ exec' = [exec EXCEPT ![s] = "ended"]
    /\ registered' = registered \ {s}
    /\ UNCHANGED <<socket, registryVars, serverVars, aborted, serving, followers>>

\* DaemonHttpServer.stop.
Stop ==
    /\ serving
    /\ serving' = FALSE
    /\ subs' = [s \in Streams |-> {}]
    /\ streamsOf' = [c \in Sockets |-> {}]
    /\ pinged' = {}
    /\ aborted' = aborted \cup registered
    /\ registered' = {}
    /\ listed' = {} /\ tracked' = [c \in Sockets |-> {}]
    /\ socket' = [c \in Sockets |-> IF socket[c] \in {"open", "silent"} THEN "closing" ELSE socket[c]]
    /\ UNCHANGED <<exec, followers>>

Next ==
    \/ \E c \in Sockets :
         \/ Open(c) \/ Close(c) \/ GoesSilent(c) \/ HeartbeatTimeout(c)
         \/ \E s \in Streams : Subscribe(c, s) \/ Unsubscribe(c, s)
    \/ \E s \in Streams :
         \/ Schedule(s) \/ Register(s) \/ Finish(s)
         \/ \E Stale \in SUBSET Sockets : SendFails(s, Stale)
    \/ Stop

Spec == Init /\ [][Next]_vars

-----------------------------------------------------------------------------
TypeOK ==
    /\ socket \in [Sockets -> {"new", "open", "silent", "closing", "closed"}]
    /\ subs \in [Streams -> SUBSET Sockets] /\ streamsOf \in [Sockets -> SUBSET Streams]
    /\ pinged \subseteq Sockets /\ listed \subseteq Sockets
    /\ tracked \in [Sockets -> SUBSET Streams]
    /\ exec \in [Streams -> {"none", "window", "active", "ended"}]
    /\ registered \subseteq Streams /\ aborted \subseteq Streams
    /\ serving \in BOOLEAN /\ followers \in [Streams -> SUBSET Sockets]

\* Every subscription the registry would publish to is one the close of its
\* connection will find, on both sides, and belongs to a connection still there.
SubscriptionsTracked ==
    \A s \in Streams : \A c \in subs[s] :
        /\ s \in tracked[c] /\ s \in streamsOf[c] /\ c \in listed
        /\ socket[c] \in {"open", "silent"}

\* An execution that somebody followed while it was registered, and that nobody
\* gave up by unsubscribing last, is still followed by a connection the server
\* has not seen close, or its controller is aborted.
ObservedOrAborted ==
    \A s \in registered \ aborted :
        followers[s] # {} => \E c \in followers[s] : socket[c] \in {"open", "silent"}
=============================================================================
