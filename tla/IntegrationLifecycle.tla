-------------------------- MODULE IntegrationLifecycle --------------------------
(***************************************************************************)
(* One integration under IntegrationLifecycleManager, with the start and   *)
(* stop of IntegrationService around it.  Operations on an integration are *)
(* chained through operationQueues; inside one, the calls of the adapter   *)
(* and of the vault take time and may fail.                                *)
(***************************************************************************)
CONSTANTS
    Ops,    \* the calls that may be pending at once, of any kind and without end
    NoOp    \* no call

NoOpIsNoCall == NoOp \notin Ops

VARIABLES
    state,      \* IntegrationStateMachine.state
    tools,      \* the operations are in the tool registry
    enabled,    \* config.enabled
    credential, \* the vault holds a credential
    connected,  \* the adapter is connected
    started,    \* IntegrationService.started
    tail,       \* operationQueues: the last call of the chain, or NoOp
    kind,       \* what each call asks for
    previous,   \* the call each one is chained to
    at,         \* where it is
    latest      \* history: the kind of the call that returned ok, if nothing began since

adapterVars == <<state, tools, enabled, credential, connected>>
callVars == <<tail, kind, previous>>
vars == <<adapterVars, started, callVars, at, latest>>

States == {"installed", "configured", "connected", "active", "suspended", "disconnected"}
Kinds == {"enable", "disable", "suspend", "resume", "stop"}
Places == {"idle", "queued", "connecting", "undoing", "disconnecting", "cleaning",
           "revoking", "settled"}

Init ==
    /\ state = "installed" /\ tools = FALSE /\ enabled = FALSE /\ connected = FALSE
    /\ credential = FALSE
    /\ started = TRUE
    /\ tail = NoOp
    /\ kind = [o \in Ops |-> "none"]
    /\ previous = [o \in Ops |-> NoOp]
    /\ at = [o \in Ops |-> "idle"]
    /\ latest = "none"

Go(o, place) == at' = [at EXCEPT ![o] = place]
SettledOps == {o \in Ops : at[o] = "settled"} \cup {NoOp}
Up == state \in {"active", "suspended"}

\* The promise of the operation settles; the service's stop takes note.
Return(o, how) ==
    /\ Go(o, "settled")
    /\ latest' = IF how = "ok" THEN kind[o] ELSE "none"
    /\ started' = (started /\ ~(kind[o] = "stop" /\ how = "ok"))

Working(o, place) == Go(o, place) /\ latest' = "none" /\ UNCHANGED started

-----------------------------------------------------------------------------
(* The queue. *)

\* enqueueOperation; stop() skips an integration that is not up.
Call(o, k) ==
    /\ at[o] = "idle"
    /\ k = "stop" => started
    /\ \/ /\ k # "stop" \/ Up
          /\ kind' = [kind EXCEPT ![o] = k]
          /\ previous' = [previous EXCEPT ![o] = tail]
          /\ tail' = o
          /\ Go(o, "queued")
          /\ UNCHANGED started
       \/ /\ k = "stop" /\ ~Up
          /\ started' = FALSE
          /\ UNCHANGED <<callVars, at>>
    /\ UNCHANGED <<adapterVars, latest>>

\* The promise of o is no longer in the chain; a settled one delays nobody.
Leave(o) ==
    /\ Go(o, "idle")
    /\ kind' = [kind EXCEPT ![o] = "none"]
    /\ previous' = [p \in Ops |-> IF p = o \/ previous[p] = o THEN NoOp ELSE previous[p]]

\* The finally block of enqueueOperation.
Dequeue(o) ==
    /\ at[o] = "settled"
    /\ Leave(o)
    /\ tail' = IF tail = o THEN NoOp ELSE tail
    /\ UNCHANGED <<adapterVars, started, latest>>

\* Mutant: a call runs only while no other has been chained after it.
TurnIfLast(o) == at[o] = "queued" /\ tail = o /\ previous[o] \in SettledOps

Turn(o) == at[o] = "queued" /\ previous[o] \in SettledOps

-----------------------------------------------------------------------------
(* The operations. *)

\* registerTools and the transition to active; registering may throw, and the
\* adapter is then disconnected again.
Activate(o) ==
    \/ /\ state' = "active" /\ tools' = TRUE /\ enabled' = TRUE
       /\ Return(o, "ok")
    \/ /\ state' = "connected" /\ Working(o, "undoing")
       /\ UNCHANGED <<tools, enabled>>

Enable(o) ==
    /\ Turn(o) /\ kind[o] = "enable"
    /\ \/ Return(o, "error") /\ UNCHANGED <<state, tools, enabled>>  \* up, or an invalid manifest
       \/ /\ state \in {"disconnected", "installed", "configured"}
          /\ state' = "configured" /\ Working(o, "connecting")
          /\ UNCHANGED <<tools, enabled>>
       \/ state = "connected" /\ Activate(o)
    /\ UNCHANGED <<credential, connected, callVars>>

ConnectSettles(o) ==
    /\ at[o] = "connecting"
    /\ \/ Return(o, "error") /\ UNCHANGED <<state, tools, enabled, connected>>
       \/ connected' = TRUE /\ Activate(o)
    /\ UNCHANGED <<credential, callVars>>

\* safeDisconnect, whose failure changes nothing.
Undo(o) ==
    /\ at[o] = "undoing"
    /\ \/ state' = "disconnected" /\ connected' = FALSE
       \/ UNCHANGED <<state, connected>>
    /\ Return(o, "error")
    /\ UNCHANGED <<tools, enabled, credential, callVars>>

\* disable, also as stop() calls it: the tools go before the first await.
Disable(o) ==
    /\ Turn(o) /\ kind[o] \in {"disable", "stop"}
    /\ tools' = (tools /\ ~Up)
    /\ Working(o, "disconnecting")
    /\ UNCHANGED <<state, enabled, credential, connected, callVars>>

DisconnectSettles(o) ==
    /\ at[o] = "disconnecting"
    /\ \/ connected' = FALSE /\ Working(o, "cleaning")
       \/ Return(o, "error") /\ UNCHANGED connected
    /\ UNCHANGED <<state, tools, enabled, credential, callVars>>

CleanupSettles(o) ==
    /\ at[o] = "cleaning"
    /\ \/ state' = "disconnected" /\ Working(o, "revoking")
       \/ Return(o, "error") /\ UNCHANGED state
    /\ UNCHANGED <<tools, enabled, credential, connected, callVars>>

\* Mutant: a failed revoke is reported as success.
RevokeUnchecked(o) ==
    /\ at[o] = "revoking"
    /\ credential' \in {credential, FALSE}
    /\ enabled' = FALSE
    /\ Return(o, "ok")
    /\ UNCHANGED <<state, tools, connected, callVars>>

RevokeSettles(o) ==
    /\ at[o] = "revoking"
    /\ \/ credential' = FALSE /\ enabled' = FALSE /\ Return(o, "ok")
       \/ Return(o, "error") /\ UNCHANGED <<credential, enabled>>
    /\ UNCHANGED <<state, tools, connected, callVars>>

Suspend(o) ==
    /\ Turn(o) /\ kind[o] = "suspend"
    /\ \/ state = "active" /\ state' = "suspended" /\ tools' = FALSE /\ Return(o, "ok")
       \/ state # "active" /\ Return(o, "error") /\ UNCHANGED <<state, tools>>
    /\ UNCHANGED <<enabled, credential, connected, callVars>>

Resume(o) ==
    /\ Turn(o) /\ kind[o] = "resume"
    /\ \/ state = "suspended" /\ state' = "active" /\ tools' = TRUE /\ Return(o, "ok")
       \/ Return(o, "error") /\ UNCHANGED <<state, tools>>  \* not suspended, or registering throws
    /\ UNCHANGED <<enabled, credential, connected, callVars>>

\* The user connects an account.
StoreCredential ==
    /\ ~credential
    /\ credential' = TRUE
    /\ latest' = "none"
    /\ UNCHANGED <<state, tools, enabled, connected, started, callVars, at>>

\* IntegrationService.start: every integration begins disabled.
StartService ==
    /\ ~started
    /\ started' = TRUE
    /\ enabled' = FALSE
    /\ UNCHANGED <<state, tools, credential, connected, callVars, at, latest>>

Step(o) ==
    \/ Enable(o) \/ ConnectSettles(o) \/ Undo(o)
    \/ Disable(o) \/ DisconnectSettles(o) \/ CleanupSettles(o) \/ RevokeSettles(o)
    \/ Suspend(o) \/ Resume(o) \/ Dequeue(o)

Next ==
    \/ \E o \in Ops : Step(o) \/ \E k \in Kinds : Call(o, k)
    \/ StoreCredential \/ StartService

Spec == Init /\ [][Next]_vars

-----------------------------------------------------------------------------
TypeOK ==
    /\ state \in States
    /\ tools \in BOOLEAN /\ enabled \in BOOLEAN /\ credential \in BOOLEAN
    /\ connected \in BOOLEAN /\ started \in BOOLEAN
    /\ tail \in Ops \cup {NoOp} /\ latest \in Kinds \cup {"none"}
    /\ kind \in [Ops -> Kinds \cup {"none"}] /\ previous \in [Ops -> Ops \cup {NoOp}]
    /\ at \in [Ops -> Places]

InProgress == {o \in Ops : at[o] \notin {"idle", "queued", "settled"}}

\* Operations on one integration never interleave, whatever the order in which
\* they are called, fail and leave the chain; and each runs after the one that
\* was called before it.
OneAtATime ==
    /\ \A o, p \in InProgress : o = p
    /\ \A o \in InProgress : previous[o] \in SettledOps

\* The model sees an integration's tools only while it is active: a suspended
\* or disconnected one, or one whose last operation failed half-way, has none.
ToolsOnlyWhenActive == tools => state = "active"

\* After a disable that returned ok, until the next operation begins, nothing
\* is left of the integration: tools, connection, credential and flag are gone.
DisabledIsClean ==
    latest \in {"disable", "stop"} =>
        state = "disconnected" /\ ~tools /\ ~connected /\ ~credential /\ ~enabled

\* Adapters, cleanup handlers and the vault answer.
FairSpec == Spec /\ \A o \in Ops : WF_vars(Step(o))
=============================================================================
