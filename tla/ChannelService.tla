---------------------------- MODULE ChannelService ----------------------------
(***************************************************************************)
(* ChannelDaemonService (src/src/daemon/channel-service.ts) for one        *)
(* platform: its calls share the stored token, the registry's entry, the   *)
(* channel objects and the unsubscriber kept per channel id.  A channel    *)
(* object is named by the call that created it.  The daemon may crash; the *)
(* token survives.                                                         *)
(*                                                                         *)
(* Diagnostics and the maps that route answers back are left out.          *)
(***************************************************************************)
EXTENDS Naturals

CONSTANTS
    Calls,       \* calls, each made at most once
    None,
    MaxCrashes   \* bound: crashes

\* Assumed of the constants: "no channel" is not a channel.
ChannelLimits == None \notin Calls /\ MaxCrashes \in Nat

VARIABLES
    token,         \* the platform's token is in the credential storage
    registry,      \* the registered channel object
    channel,       \* each channel object: its state and config.enabled
    subscribed,    \* objects that hold the service's inbound handler
    unsubscriber,  \* inboundUnsubscribers: the object it belongs to
    started,
    at,            \* where each call is
    kind,          \* its operation
    subject,       \* the channel object it works on
    crashes,
    overlapped     \* two calls were in progress at once

state == <<token, registry, channel, subscribed, unsubscriber, started>>
vars == <<state, at, kind, subject, crashes, overlapped>>

Kinds == {"add", "remove", "enable", "disable", "start", "stop"}
Settled == {"done", "failed", "lost"}
Busy == {c \in Calls : at[c] \notin Settled \cup {"new"}}
NewChannel == [state |-> "disconnected", enabled |-> TRUE]
Connected == {o \in Calls : channel[o].state = "connected"}

Init ==
    /\ token = FALSE /\ registry = None
    /\ channel = [o \in Calls |-> NewChannel]
    /\ subscribed = {} /\ unsubscriber = None /\ started = FALSE
    /\ at = [c \in Calls |-> "new"]
    /\ kind = [c \in Calls |-> "none"]
    /\ subject = [c \in Calls |-> None]
    /\ crashes = 0 /\ overlapped = FALSE

Goes(c, place) == at' = [at EXCEPT ![c] = place]
Calling(c, k) ==
    /\ at[c] = "new" /\ kind' = [kind EXCEPT ![c] = k]
    /\ overlapped' = (overlapped \/ Busy # {})
    /\ UNCHANGED crashes
Continues(c, place) == at[c] = place /\ UNCHANGED <<kind, crashes, overlapped>>

\* startChannel(o) up to its await: the handler is subscribed unless the id
\* has an unsubscriber, and a channel that is not connected connects; a
\* channel that is connecting returns at once.
StartChannel(c, o) ==
    /\ IF unsubscriber = None
       THEN unsubscriber' = o /\ subscribed' = subscribed \cup {o}
       ELSE UNCHANGED <<unsubscriber, subscribed>>
    /\ IF channel'[o].state \in {"connected", "connecting"}
       THEN Goes(c, "done") /\ started' = (started \/ kind[c] = "start")
       ELSE Goes(c, "connecting") /\ UNCHANGED started

\* Mutant: the handler stays subscribed.
StopStaysSubscribed(o) ==
    /\ unsubscriber' = None
    /\ channel' = [channel EXCEPT ![o].state = "disconnected"]
    /\ UNCHANGED subscribed

\* stopChannel(o): the id's handler is unsubscribed, whichever object has it,
\* and the channel is disconnected.
StopChannel(o) ==
    /\ unsubscriber' = None
    /\ subscribed' = subscribed \ {unsubscriber}
    /\ channel' = [channel EXCEPT ![o].state = "disconnected"]

\* addChannel: the token is saved; the storage may fail.
Add(c) ==
    /\ Calling(c, "add")
    /\ \/ token' = TRUE /\ Goes(c, "saved")
       \/ token' \in {token, FALSE} /\ Goes(c, "failed")
    /\ UNCHANGED <<registry, channel, subscribed, unsubscriber, started, subject>>

\* An existing channel is removed first, and its token with it.
AddReplaces(c) ==
    /\ Continues(c, "saved") /\ registry # None
    /\ StopChannel(registry)
    /\ subject' = [subject EXCEPT ![c] = registry]
    /\ Goes(c, "removing")
    /\ UNCHANGED <<token, registry, started>>

\* The new channel is registered, enabled and started.
AddRegisters(c) ==
    /\ Continues(c, "saved") /\ registry = None
    /\ registry' = c
    /\ channel' = [channel EXCEPT ![c] = NewChannel]
    /\ subject' = [subject EXCEPT ![c] = c]
    /\ StartChannel(c, c)
    /\ UNCHANGED token

\* removeChannel.
Remove(c) ==
    /\ Calling(c, "remove")
    /\ IF registry = None
       THEN Goes(c, "done") /\ UNCHANGED <<state, subject>>
       ELSE /\ StopChannel(registry)
            /\ subject' = [subject EXCEPT ![c] = registry]
            /\ Goes(c, "removing")
            /\ UNCHANGED <<token, registry, started>>

\* After the disconnect the entry goes, whatever object it holds by now, and
\* the token is deleted, or the storage fails.
Removed(c) ==
    /\ Continues(c, "removing")
    /\ registry' = None
    /\ \/ token' = FALSE /\ Goes(c, IF kind[c] = "add" THEN "saved" ELSE "done")
       \/ UNCHANGED token /\ Goes(c, "failed")
    /\ UNCHANGED <<channel, subscribed, unsubscriber, started, subject>>

\* enableChannel and disableChannel of a registered channel.
Enable(c) ==
    /\ Calling(c, "enable") /\ registry # None
    /\ channel' = [channel EXCEPT ![registry].enabled = TRUE]
    /\ subject' = [subject EXCEPT ![c] = registry]
    /\ IF started THEN StartChannel(c, registry)
       ELSE Goes(c, "done") /\ UNCHANGED <<subscribed, unsubscriber, started>>
    /\ UNCHANGED <<token, registry>>
Disable(c) ==
    /\ Calling(c, "disable") /\ registry # None
    /\ subscribed' = subscribed \ {unsubscriber} /\ unsubscriber' = None
    /\ channel' = [channel EXCEPT ![registry] = [state |-> "disconnected", enabled |-> FALSE]]
    /\ subject' = [subject EXCEPT ![c] = registry]
    /\ Goes(c, "done")
    /\ UNCHANGED <<token, registry, started>>
NotFound(c) ==
    /\ \E k \in {"enable", "disable"} : Calling(c, k)
    /\ registry = None
    /\ Goes(c, "failed")
    /\ UNCHANGED <<state, subject>>

\* start(): the tokens are listed, a channel is created for one without, and
\* it is started when it is enabled.
Start(c) ==
    /\ Calling(c, "start")
    /\ Goes(c, IF started THEN "done" ELSE "listing")
    /\ UNCHANGED <<state, subject>>
Listed(c) ==
    /\ Continues(c, "listing")
    /\ UNCHANGED <<token, channel>>
    /\ LET o == IF registry = None THEN c ELSE registry
       IN  IF token /\ channel[o].enabled
           THEN StartChannel(c, o)
           ELSE Goes(c, "done") /\ started' = TRUE /\ UNCHANGED <<subscribed, unsubscriber>>
    /\ registry' = IF token /\ registry = None THEN c ELSE registry
    /\ subject' = [subject EXCEPT ![c] = registry']

\* stop(): every registered channel is stopped, all unsubscribers are dropped.
Stop(c) ==
    /\ Calling(c, "stop")
    /\ IF registry = None
       THEN unsubscriber' = None /\ UNCHANGED <<subscribed, channel>>
       ELSE StopChannel(registry)
    /\ started' = FALSE
    /\ Goes(c, "done")
    /\ UNCHANGED <<token, registry, subject>>

\* channel.connect(): the request is sent, then it settles.  A channel that a
\* disconnect met meanwhile is said to be connected all the same.
Dial(c) ==
    /\ Continues(c, "connecting")
    /\ channel' = [channel EXCEPT ![subject[c]].state = "connecting"]
    /\ Goes(c, "validating")
    /\ UNCHANGED <<token, registry, subscribed, unsubscriber, started, subject>>
ConnectSettles(c) ==
    /\ Continues(c, "validating")
    /\ \/ /\ channel' = [channel EXCEPT ![subject[c]].state = "connected"]
          /\ Goes(c, "done")
          /\ started' = (started \/ kind[c] = "start")
       \/ /\ channel' = [channel EXCEPT ![subject[c]].state = "error"]
          /\ Goes(c, "failed")
          /\ UNCHANGED started
    /\ UNCHANGED <<token, registry, subscribed, unsubscriber, subject>>

\* The daemon stops and starts again, with nothing but the storage.
Crash ==
    /\ crashes < MaxCrashes /\ crashes' = crashes + 1
    /\ registry' = None /\ subscribed' = {} /\ unsubscriber' = None /\ started' = FALSE
    /\ channel' = [o \in Calls |-> NewChannel]
    /\ at' = [c \in Calls |-> IF c \in Busy THEN "lost" ELSE at[c]]
    /\ UNCHANGED <<token, kind, subject, overlapped>>

Step(c) ==
    \/ AddReplaces(c) \/ AddRegisters(c) \/ Removed(c) \/ Listed(c) \/ Dial(c) \/ ConnectSettles(c)
Next ==
    \/ Crash
    \/ \E c \in Calls :
           \/ Add(c) \/ Remove(c) \/ Enable(c) \/ Disable(c) \/ NotFound(c) \/ Start(c) \/ Stop(c)
           \/ Step(c)

Spec == Init /\ [][Next]_vars

----------------------------------------------------------------------------

TypeOK ==
    /\ token \in BOOLEAN /\ started \in BOOLEAN /\ overlapped \in BOOLEAN
    /\ registry \in Calls \cup {None} /\ unsubscriber \in Calls \cup {None}
    /\ channel \in [Calls -> [state : {"disconnected", "connecting", "connected", "error"},
                              enabled : BOOLEAN]]
    /\ subscribed \subseteq Calls
    /\ at \in [Calls -> Settled \cup {"new", "saved", "removing", "listing", "connecting",
                                      "validating"}]
    /\ kind \in [Calls -> Kinds \cup {"none"}]
    /\ subject \in [Calls -> Calls \cup {None}]
    /\ crashes \in 0..MaxCrashes

\* As long as calls do not overlap, a channel that is connected, or that hands
\* messages to the daemon, is the registered one and enabled: none goes on
\* answering after it was removed, replaced, disabled or stopped.
NoGhostChannel ==
    ~overlapped =>
        /\ Connected \subseteq {registry}
        /\ subscribed \subseteq {unsubscriber} /\ subscribed \subseteq {registry, None}
        /\ \A o \in Connected : channel[o].enabled /\ o \in subscribed

=============================================================================
