------------------------- MODULE ConversationsProofs -------------------------
(***************************************************************************)
(* For every value of the constants: what the parts of MCConversations     *)
(* promise, one section for each part and its inductive invariant, and     *)
(* then the properties of the whole.                                       *)
(***************************************************************************)
EXTENDS MCConversations, FiniteSetTheorems, TLAPS

-----------------------------------------------------------------------------
(* StreamSubscriptions: the three maps of subscriptions agree as far as a  *)
(* disconnect needs, and an execution that has lost all of its followers   *)
(* to disconnects has been aborted.                                        *)

Alive(c) == socket[c] \in {"open", "silent"}

\* What the history of followers has to do with the maps: a subscriber is a
\* follower, and a follower still connected is one its close will find.
FollowersTracked ==
    \A s \in Streams :
        /\ subs[s] \subseteq followers[s]
        /\ \A c \in followers[s] : socket[c] # "new" /\ (Alive(c) => s \in tracked[c])

-----------------------------------------------------------------------------
\* Types.

LEMMA WatchInitType == Watch!Init => Watch!TypeOK
BY DEF Watch!Init, Watch!TypeOK

LEMMA WatchForgetType ==
    ASSUME Watch!TypeOK, NEW c \in Sockets, Watch!Forget(c)
    PROVE  /\ subs' \in [Streams -> SUBSET Sockets] /\ streamsOf' \in [Sockets -> SUBSET Streams]
           /\ pinged' \subseteq Sockets /\ listed' \subseteq Sockets
           /\ tracked' \in [Sockets -> SUBSET Streams] /\ aborted' \subseteq Streams
BY DEF Watch!Forget, Watch!TypeOK

LEMMA WatchNextType == Watch!TypeOK /\ [Watch!Next]_watchVars => Watch!TypeOK'
<1> SUFFICES ASSUME Watch!TypeOK, [Watch!Next]_watchVars PROVE Watch!TypeOK'
    OBVIOUS
<1> USE DEF Watch!TypeOK
<1>1. ASSUME NEW c \in Sockets, Watch!Open(c) PROVE Watch!TypeOK'
    BY <1>1 DEF Watch!Open, Watch!registryVars, Watch!execVars
<1>2. ASSUME NEW c \in Sockets, Watch!Close(c) PROVE Watch!TypeOK'
    BY <1>2, WatchForgetType DEF Watch!Close
<1>3. ASSUME NEW c \in Sockets, Watch!GoesSilent(c) PROVE Watch!TypeOK'
    BY <1>3 DEF Watch!GoesSilent, Watch!registryVars, Watch!serverVars, Watch!execVars
<1>4. ASSUME NEW c \in Sockets, Watch!HeartbeatTimeout(c) PROVE Watch!TypeOK'
    BY <1>4, WatchForgetType DEF Watch!HeartbeatTimeout
<1>5. ASSUME NEW c \in Sockets, NEW s \in Streams, Watch!Subscribe(c, s) PROVE Watch!TypeOK'
    BY <1>5 DEF Watch!Subscribe, Watch!execVars
<1>6. ASSUME NEW c \in Sockets, NEW s \in Streams, Watch!Unsubscribe(c, s) PROVE Watch!TypeOK'
    BY <1>6 DEF Watch!Unsubscribe, Watch!execVars
<1>7. ASSUME NEW s \in Streams, Watch!Schedule(s) PROVE Watch!TypeOK'
    BY <1>7 DEF Watch!Schedule, Watch!registryVars, Watch!serverVars
<1>8. ASSUME NEW s \in Streams, Watch!Register(s) PROVE Watch!TypeOK'
    BY <1>8 DEF Watch!Register, Watch!registryVars, Watch!serverVars
<1>9. ASSUME NEW s \in Streams, Watch!Finish(s) PROVE Watch!TypeOK'
    BY <1>9 DEF Watch!Finish, Watch!registryVars, Watch!serverVars
<1>10. ASSUME NEW s \in Streams, NEW Stale \in SUBSET Sockets, Watch!SendFails(s, Stale) PROVE Watch!TypeOK'
    BY <1>10 DEF Watch!SendFails, Watch!serverVars, Watch!execVars
<1>11. CASE Watch!Stop
    BY <1>11 DEF Watch!Stop
<1>12. CASE UNCHANGED watchVars
    BY <1>12 DEF watchVars
<1> QED
    BY <1>1, <1>2, <1>3, <1>4, <1>5, <1>6, <1>7, <1>8, <1>9, <1>10, <1>11, <1>12 DEF Watch!Next

-----------------------------------------------------------------------------
\* The three parts of the invariant that are about subscriptions.

WatchInv == Watch!SubscriptionsTracked /\ FollowersTracked /\ Watch!ObservedOrAborted

LEMMA WatchInitInv == Watch!Init => WatchInv
BY DEF Watch!Init, WatchInv, Watch!SubscriptionsTracked, FollowersTracked, Watch!ObservedOrAborted, Alive

LEMMA WatchOpenInv ==
    ASSUME Watch!TypeOK, WatchInv, NEW c \in Sockets, Watch!Open(c) PROVE WatchInv'
BY DEF Watch!Open, Watch!registryVars, Watch!execVars, Watch!TypeOK, WatchInv, Watch!SubscriptionsTracked, FollowersTracked,
       Watch!ObservedOrAborted, Alive

LEMMA WatchSubscribeInv ==
    ASSUME Watch!TypeOK, WatchInv, NEW c \in Sockets, NEW s \in Streams, Watch!Subscribe(c, s) PROVE WatchInv'
<1> USE DEF Watch!Subscribe, Watch!execVars, Watch!TypeOK, WatchInv, Alive
<1>1. Watch!SubscriptionsTracked'
    BY DEF Watch!SubscriptionsTracked
<1>2. FollowersTracked'
    BY DEF FollowersTracked
<1>3. Watch!ObservedOrAborted'
    BY DEF Watch!ObservedOrAborted
<1> QED
    BY <1>1, <1>2, <1>3

LEMMA WatchUnsubscribeInv ==
    ASSUME Watch!TypeOK, WatchInv, NEW c \in Sockets, NEW s \in Streams, Watch!Unsubscribe(c, s) PROVE WatchInv'
<1> USE DEF Watch!Unsubscribe, Watch!execVars, Watch!TypeOK, WatchInv, Alive
<1>1. Watch!SubscriptionsTracked'
    BY DEF Watch!SubscriptionsTracked
<1>2. FollowersTracked'
    BY DEF FollowersTracked
<1>3. Watch!ObservedOrAborted'
    <2> SUFFICES ASSUME NEW r \in registered' \ aborted', followers'[r] # {}
                 PROVE  \E d \in followers'[r] : Alive(d)'
        BY DEF Watch!ObservedOrAborted
    <2>1. CASE r = s
        <3>1. subs'[s] # {} /\ followers'[s] = followers[s] \ {c}
            BY <2>1
        <3>2. PICK d \in subs'[s] : d \in subs[s] /\ d # c
            BY <3>1
        <3>3. d \in followers[s] /\ Alive(d)
            BY <3>2 DEF Watch!SubscriptionsTracked, FollowersTracked
        <3> QED
            BY <2>1, <3>1, <3>2, <3>3
    <2>2. CASE r # s
        BY <2>2 DEF Watch!ObservedOrAborted
    <2> QED
        BY <2>1, <2>2
<1> QED
    BY <1>1, <1>2, <1>3

\* A connection leaves: if it was the last living follower of a stream, no
\* subscriber is left either, and the stream is one it had subscribed to.
LEMMA WatchForgetInv ==
    ASSUME Watch!TypeOK, WatchInv, NEW c \in Sockets, NEW gone \in {"closing", "closed"}, Watch!Forget(c),
           socket' = [socket EXCEPT ![c] = gone], UNCHANGED <<exec, registered, serving, followers>>
    PROVE  WatchInv'
<1> USE DEF Watch!Forget, Watch!TypeOK, WatchInv, Alive
<1>1. \A s \in Streams : subs'[s] = subs[s] \ {c}
    BY DEF Watch!SubscriptionsTracked
<1>2. Watch!SubscriptionsTracked'
    <2> SUFFICES ASSUME NEW s \in Streams, NEW d \in subs'[s]
                 PROVE  /\ s \in tracked'[d] /\ s \in streamsOf'[d] /\ d \in listed'
                        /\ socket'[d] \in {"open", "silent"}
        BY DEF Watch!SubscriptionsTracked
    <2>1. d \in subs[s] /\ d # c /\ d \in Sockets
        BY <1>1
    <2> QED
        BY <2>1 DEF Watch!SubscriptionsTracked
<1>3. FollowersTracked'
    <2> SUFFICES ASSUME NEW s \in Streams
                 PROVE  /\ subs'[s] \subseteq followers'[s]
                        /\ \A d \in followers'[s] :
                             socket'[d] # "new" /\ (Alive(d)' => s \in tracked'[d])
        BY DEF FollowersTracked
    <2>1. subs'[s] \subseteq followers'[s]
        BY <1>1 DEF FollowersTracked
    <2>2. ASSUME NEW d \in followers'[s] PROVE socket'[d] # "new" /\ (Alive(d)' => s \in tracked'[d])
        <3>1. d \in followers[s] /\ d \in Sockets
            BY <2>2
        <3> QED
            BY <3>1 DEF FollowersTracked
    <2> QED
        BY <2>1, <2>2
<1>4. Watch!ObservedOrAborted'
    <2> SUFFICES ASSUME NEW s \in registered' \ aborted', followers'[s] # {},
                        \A d \in followers'[s] : ~Alive(d)'
                 PROVE  FALSE
        BY DEF Watch!ObservedOrAborted
    <2>1. s \in Streams /\ s \in registered \ aborted
        OBVIOUS
    <2>2. PICK d \in followers[s] : Alive(d)
        BY <2>1 DEF Watch!ObservedOrAborted
    <2>3. d = c
        BY <2>1, <2>2
    <2>4. s \in tracked[c]
        BY <2>1, <2>2, <2>3 DEF FollowersTracked
    <2>5. subs'[s] = {}
        <3>1. \A e \in subs[s] : e \in followers[s] /\ Alive(e) /\ e \in Sockets
            BY <2>1 DEF Watch!SubscriptionsTracked, FollowersTracked
        <3> QED
            BY <1>1, <2>1, <3>1
    <2> QED
        BY <2>1, <2>4, <2>5
<1> QED
    BY <1>2, <1>3, <1>4

LEMMA WatchSilentInv ==
    ASSUME Watch!TypeOK, WatchInv, NEW c \in Sockets, Watch!GoesSilent(c) PROVE WatchInv'
BY DEF Watch!GoesSilent, Watch!registryVars, Watch!serverVars, Watch!execVars, Watch!TypeOK, WatchInv, Watch!SubscriptionsTracked,
       FollowersTracked, Watch!ObservedOrAborted, Alive

LEMMA WatchSendFailsInv ==
    ASSUME Watch!TypeOK, WatchInv, NEW s \in Streams, NEW Stale \in SUBSET Sockets, Watch!SendFails(s, Stale)
    PROVE  WatchInv'
<1> USE DEF Watch!SendFails, Watch!serverVars, Watch!execVars, Watch!TypeOK, WatchInv, Alive
<1>1. Watch!SubscriptionsTracked'
    BY DEF Watch!SubscriptionsTracked
<1>2. FollowersTracked'
    BY DEF FollowersTracked
<1>3. Watch!ObservedOrAborted'
    BY DEF Watch!ObservedOrAborted
<1> QED
    BY <1>1, <1>2, <1>3

LEMMA WatchRegisterInv ==
    ASSUME Watch!TypeOK, WatchInv, NEW s \in Streams, Watch!Register(s) PROVE WatchInv'
<1> USE DEF Watch!Register, Watch!registryVars, Watch!serverVars, Watch!TypeOK, WatchInv, Alive
<1>1. Watch!SubscriptionsTracked'
    BY DEF Watch!SubscriptionsTracked
<1>2. FollowersTracked'
    BY DEF FollowersTracked, Watch!SubscriptionsTracked
<1>3. Watch!ObservedOrAborted'
    BY DEF Watch!ObservedOrAborted, Watch!SubscriptionsTracked
<1> QED
    BY <1>1, <1>2, <1>3

LEMMA WatchStopInv == ASSUME Watch!TypeOK, WatchInv, Watch!Stop PROVE WatchInv'
<1> USE DEF Watch!Stop, Watch!TypeOK, WatchInv, Alive
<1>1. Watch!SubscriptionsTracked'
    BY DEF Watch!SubscriptionsTracked
<1>2. FollowersTracked'
    BY DEF FollowersTracked
<1>3. Watch!ObservedOrAborted'
    BY DEF Watch!ObservedOrAborted
<1> QED
    BY <1>1, <1>2, <1>3

LEMMA WatchOtherInv ==
    ASSUME Watch!TypeOK, WatchInv,
           (\E s \in Streams : Watch!Schedule(s) \/ Watch!Finish(s)) \/ UNCHANGED watchVars
    PROVE  WatchInv'
<1>1. /\ UNCHANGED <<socket, subs, streamsOf, pinged, listed, tracked, aborted, followers>>
      /\ registered' \subseteq registered
    BY DEF Watch!Schedule, Watch!Finish, watchVars, Watch!registryVars, Watch!serverVars,
           Watch!execVars
<1> QED
    BY <1>1 DEF WatchInv, Watch!SubscriptionsTracked, FollowersTracked, Watch!ObservedOrAborted, Alive

LEMMA WatchNextInv == Watch!TypeOK /\ WatchInv /\ [Watch!Next]_watchVars => WatchInv'
<1> SUFFICES ASSUME Watch!TypeOK, WatchInv, [Watch!Next]_watchVars PROVE WatchInv'
    OBVIOUS
<1>1. ASSUME NEW c \in Sockets, Watch!Close(c) PROVE WatchInv'
    BY <1>1, WatchForgetInv DEF Watch!Close
<1>2. ASSUME NEW c \in Sockets, Watch!HeartbeatTimeout(c) PROVE WatchInv'
    BY <1>2, WatchForgetInv DEF Watch!HeartbeatTimeout
<1> QED
    BY <1>1, <1>2, WatchOpenInv, WatchSubscribeInv, WatchUnsubscribeInv, WatchSilentInv, WatchSendFailsInv,
       WatchRegisterInv, WatchStopInv, WatchOtherInv DEF Watch!Next

-----------------------------------------------------------------------------
(* Conversations *)

\* Conversations!TypeOK, a step of one turn at a time.
LEMMA HoldType ==
    ASSUME TypeOK, NEW t \in Turns, NEW ms \in SUBSET Messages, Hold(t, ms)
    PROVE  held' \in [Turns -> SUBSET Messages] /\ base' \in [Turns -> Rows]
BY DEF TypeOK, Hold

LEMMA DropType ==
    ASSUME TypeOK, NEW t \in Turns, Drop(t)
    PROVE  held' \in [Turns -> SUBSET Messages] /\ base' \in [Turns -> Rows]
BY DEF TypeOK, Drop, NoRow, Rows

LEMMA SaveType ==
    ASSUME TypeOK, NEW t \in Turns, Save(t)
    PROVE  row' \in Rows /\ saved' \subseteq MessageIds /\ overlap' \in BOOLEAN
<1>1. row' \in Rows
    BY DEF TypeOK, Save, Rows
<1>2. Ids(held[t]) \subseteq MessageIds
    BY DEF TypeOK, Ids, Id, Messages, MessageIds
<1> QED
    BY <1>1, <1>2 DEF TypeOK, Save

LEMMA NewMessageType ==
    ASSUME TypeOK, NEW t \in Turns PROVE NewMessage(t, stage[t]) \in Messages
BY DEF TypeOK, NewMessage, Messages, Roles

LEMMA WithReplyType ==
    ASSUME TypeOK, NEW t \in Turns, NEW outcome \in {"complete", "error"}
    PROVE  WithReply(t, outcome) \in SUBSET Messages
<1>1. row.messages \in SUBSET Messages
    BY DEF TypeOK, Rows
<1>2. \A m \in Messages : [m EXCEPT !.status = outcome] \in Messages
    BY DEF Messages
<1> QED
    BY <1>1, <1>2 DEF WithReply

\* Where a turn goes, and the types of what a step leaves alone.
LEMMA GoType ==
    ASSUME TypeOK, NEW t \in Turns, NEW place \in Places, Go(t, place)
    PROVE  at' \in [Turns -> Places]
BY DEF TypeOK, Go

LEMMA AddedType ==
    ASSUME TypeOK, NEW t \in Turns, Added(t)
    PROVE  at' \in [Turns -> Places] /\ stage' \in [Turns -> {"system", "user", "assistant"}]
BY DEF TypeOK, Added, Go, Places

Store == row \in Rows /\ saved \subseteq MessageIds /\ overlap \in BOOLEAN
Process ==
    up \in {"serving", "stopped", "down"} /\ restarts \in 0..MaxRestarts /\ clock \in 0..MaxClock
OfTurns ==
    /\ at \in [Turns -> Places]
    /\ stage \in [Turns -> {"system", "user", "assistant"}]
    /\ held \in [Turns -> SUBSET Messages] /\ base \in [Turns -> Rows]
Rest ==
    /\ session \in {"active", "compacting"}
    /\ io \in [Turns -> {"none", "read", "loaded"}]
    /\ seen \in [Turns -> {"active", "compacting"}] /\ leftover \in BOOLEAN
    /\ active \subseteq Turns /\ events \in [Turns -> SUBSET {"complete", "error"}]
    /\ folded \subseteq MessageIds /\ deleted \in BOOLEAN

\* A process that is down has a restart left.
MayRestart == up = "down" => restarts < MaxRestarts

LEMMA TurnsTypeParts ==
    /\ TypeOK <=> Store /\ Process /\ OfTurns /\ Rest
    /\ TypeOK' <=> Store' /\ Process' /\ OfTurns' /\ Rest'
BY DEF TypeOK, Store, Process, OfTurns, Rest

LEMMA TurnsInitType == Init => TypeOK
<1> SUFFICES ASSUME Init PROVE TypeOK
    OBVIOUS
<1>1. Store /\ Rest
    BY DEF Init, Store, Rest, Rows, Messages
<1>2. Process
    BY ConversationConstants DEF Init, Process
<1>3. OfTurns
    BY DEF Init, OfTurns, Places, NoRow, Rows
<1> QED
    BY <1>1, <1>2, <1>3, TurnsTypeParts

LEMMA AddingType == ASSUME TypeOK, NEW t \in Turns, Post(t) \/ Adding(t) PROVE TypeOK'
<1> USE TurnsTypeParts DEF rowVars, processVars, sessionVars, turnVars
<1>1. Store'
    <2>1. CASE AddSaves(t)
        BY <2>1, SaveType DEF AddSaves, Store
    <2>2. CASE CompactSaves(t)
        <3>1. row' \in Rows
            <4>1. Recent(t) \subseteq held[t]
                BY DEF Recent
            <4>2. [turn |-> t, role |-> "summary", status |-> "plain", stamp |-> clock] \in Messages
                BY DEF Messages, Roles, Process
            <4>3. Recent(t) \cup {[turn |-> t, role |-> "summary", status |-> "plain", stamp |-> clock]}
                    \in SUBSET Messages
                BY <4>1, <4>2 DEF OfTurns
            <4>4. \A ms \in SUBSET Messages : [exists |-> TRUE, messages |-> ms] \in Rows
                BY DEF Rows
            <4> QED
                BY <2>2, <4>3, <4>4 DEF CompactSaves, Store
        <3> QED
            BY <2>2, <3>1 DEF CompactSaves, Store
    <2> QED
        BY <2>1, <2>2 DEF Store, Post, Adding, PromptRead, AddLoads, SessionRead,
           SessionWrittenBack, SessionFails, WritesBack, Updates, Leaves, UsesSession, Gate, CompactBegins, CompactEnds
<1>2. Process'
    BY DEF Process, Post, Adding, PromptRead, AddLoads, AddSaves, SessionRead,
           SessionWrittenBack, SessionFails, WritesBack, Updates, Leaves, UsesSession, Gate, CompactBegins, CompactSaves,
           CompactEnds
<1>3. at' \in [Turns -> Places] /\ stage' \in [Turns -> {"system", "user", "assistant"}]
    <2>1. CASE Gate(t) \/ CompactEnds(t)
        BY <2>1, AddedType, GoType DEF Gate, CompactEnds, OfTurns, Places
    <2>3. CASE SessionRead(t) \/ SessionWrittenBack(t) \/ SessionFails(t)
        BY <2>3, GoType DEF SessionRead, SessionWrittenBack, SessionFails, OfTurns, Places
    <2>2. CASE Post(t) \/ PromptRead(t) \/ AddLoads(t) \/ AddSaves(t) \/ CompactBegins(t)
               \/ CompactSaves(t)
        BY <2>2, GoType DEF Post, PromptRead, AddLoads, AddSaves, CompactBegins, CompactSaves,
           OfTurns, Places
    <2> QED
        BY <2>1, <2>2, <2>3 DEF Adding
<1>4. held' \in [Turns -> SUBSET Messages] /\ base' \in [Turns -> Rows]
    <2>1. CASE AddLoads(t)
        <3>1. row.messages \cup {NewMessage(t, stage[t])} \in SUBSET Messages
            BY NewMessageType DEF Store, Rows
        <3> QED
            BY <2>1, <3>1, HoldType DEF AddLoads, OfTurns
    <2> QED
        BY <2>1, DropType DEF OfTurns, Post, Adding, PromptRead, AddSaves, SessionRead,
           SessionWrittenBack, SessionFails, WritesBack, Updates, Leaves, UsesSession, Gate, CompactBegins,
           CompactSaves, CompactEnds
<1>5. Rest'
    <2>1. Ids(held[t]) \subseteq MessageIds
        BY DEF OfTurns, Ids, Id, Messages, MessageIds
    <2> QED
        BY <2>1 DEF Rest, Post, Adding, PromptRead, AddLoads, AddSaves, SessionRead,
           SessionWrittenBack, SessionFails, WritesBack, Updates, Leaves, UsesSession, Gate, CompactBegins,
           CompactSaves, CompactEnds
<1> QED
    BY <1>1, <1>2, <1>3, <1>4, <1>5 DEF OfTurns

LEMMA AnsweringType == ASSUME TypeOK, NEW t \in Turns, Answering(t) PROVE TypeOK'
<1> USE TurnsTypeParts DEF rowVars, processVars, sessionVars, turnVars
<1>1. Store'
    BY SaveType DEF Answering, Register, Generated, GenerationFails, CompleteSaves, Announce,
       FailLoads, FailSaves, Unregister, Store
<1>2. Process'
    BY DEF Process, Answering, Register, Generated, GenerationFails, CompleteSaves, Announce,
       FailLoads, FailSaves, Unregister
<1>3. at' \in [Turns -> Places]
    BY GoType DEF Answering, Register, Generated, GenerationFails, CompleteSaves, Announce,
       FailLoads, FailSaves, Unregister, Places
<1>4. held' \in [Turns -> SUBSET Messages] /\ base' \in [Turns -> Rows]
    BY HoldType, DropType, WithReplyType
       DEF OfTurns, Answering, Register, Generated, GenerationFails, CompleteSaves, Announce,
           FailLoads, FailSaves, Unregister
<1>5. UNCHANGED stage
    BY DEF Answering, Register, Generated, GenerationFails, CompleteSaves, Announce,
       FailLoads, FailSaves, Unregister
<1>6. Rest'
    BY DEF Rest, Answering, Register, Generated, GenerationFails, CompleteSaves, Announce,
       FailLoads, FailSaves, Unregister
<1> QED
    BY <1>1, <1>2, <1>3, <1>4, <1>5, <1>6 DEF OfTurns

\* What a call about the session does to the turn that makes it: nothing, until it fails.
OfSession(t) == SessionRead(t) \/ SessionWrittenBack(t) \/ SessionFails(t)

LEMMA OfSessionOnly ==
    ASSUME TypeOK, NEW u \in Turns, OfSession(u)
    PROVE  /\ UNCHANGED <<row, saved, overlap, up, restarts, clock, stage, active, events, folded, deleted>>
           /\ \/ UNCHANGED <<at, held, base>>
              \/ \E place \in {"restoring", "rejected"} :
                     /\ at[u] \in UsesSession
                     /\ \A t \in Turns : at'[t] = IF t = u THEN place ELSE at[t]
                     /\ \A t \in Turns : held'[t] = IF t = u THEN {} ELSE held[t]
                     /\ \A t \in Turns : t # u => base'[t] = base[t]
<1>1. CASE SessionRead(u) \/ SessionWrittenBack(u)
    BY <1>1 DEF SessionRead, SessionWrittenBack, turnVars, rowVars, processVars
<1>2. CASE SessionFails(u)
    BY <1>2 DEF SessionFails, TypeOK, Go, Drop, rowVars, processVars
<1> QED
    BY <1>1, <1>2 DEF OfSession

LEMMA TurnsNextType == TypeOK /\ MayRestart /\ [Next]_vars => TypeOK'
<1> SUFFICES ASSUME TypeOK, MayRestart, [Next]_vars PROVE TypeOK'
    OBVIOUS
<1>1. CASE Delete \/ Stop \/ Exit \/ Start \/ Tick \/ UNCHANGED vars
    <2> USE <1>1, TurnsTypeParts DEF rowVars, processVars, turnVars, sessionVars, vars, Delete, Stop, Exit, Start, Tick
    <2>1. Store'
        <3>1. NoRow \in Rows
            BY DEF NoRow, Rows
        <3> QED
            BY <3>1 DEF Store
    <2>2. up' \in {"serving", "stopped", "down"} /\ clock' \in 0..MaxClock
        BY ConversationConstants DEF Process
    <2>3. restarts' \in 0..MaxRestarts
        BY ConversationConstants DEF Process, MayRestart
    <2>4. OfTurns'
        <3>1. CASE Exit
            BY <3>1 DEF OfTurns, Places, NoRow, Rows
        <3>2. CASE UNCHANGED turnVars
            BY <3>2 DEF OfTurns
        <3> QED
            BY <3>1, <3>2
    <2>5. Rest'
        <3>1. /\ io' \in [Turns -> {"none", "read", "loaded"}]
              /\ seen' \in [Turns -> {"active", "compacting"}] /\ leftover' \in BOOLEAN
            <4>1. CASE Exit
                <5>1. /\ io' = [t \in Turns |-> "none"] /\ seen' = [t \in Turns |-> "active"]
                      /\ leftover' = (leftover \/ session = "compacting")
                    BY <4>1, Zenon
                <5> QED
                    BY ONLY <5>1, Rest DEF Rest
            <4>2. CASE ~Exit
                <5>1. UNCHANGED <<io, seen, leftover>>
                    BY <4>2, Zenon
                <5> QED
                    BY ONLY <5>1, Rest DEF Rest
            <4> QED
                BY ONLY <4>1, <4>2
        <3>2. UNCHANGED session /\ active' \subseteq Turns /\ UNCHANGED <<events, folded>> /\ deleted' \in BOOLEAN
            BY DEF Rest
        <3> QED
            BY <3>1, <3>2 DEF Rest
    <2> QED
        BY <2>1, <2>2, <2>3, <2>4, <2>5 DEF Process
<1> QED
    BY <1>1, AddingType, AnsweringType DEF Next

LEMMA MayRestartNext == TypeOK /\ MayRestart /\ [Next]_vars => MayRestart'
<1> SUFFICES ASSUME TypeOK, MayRestart, [Next]_vars PROVE MayRestart'
    OBVIOUS
<1>1. CASE Delete \/ Stop \/ Exit \/ Start \/ Tick \/ UNCHANGED vars
    BY <1>1 DEF MayRestart, rowVars, processVars, turnVars, sessionVars, vars, Delete, Stop, Exit, Start, Tick
<1>2. ASSUME NEW t \in Turns, Post(t) \/ Adding(t) \/ Answering(t) PROVE UNCHANGED processVars
    BY <1>2 DEF Post, Adding, PromptRead, AddLoads, AddSaves, SessionRead,
           SessionWrittenBack, SessionFails, WritesBack, Updates, Leaves, UsesSession, Gate, CompactBegins, CompactSaves,
       CompactEnds, Answering, Register, Generated, GenerationFails, CompleteSaves, Announce,
       FailLoads, FailSaves, Unregister
<1> QED
    BY <1>1, <1>2 DEF Next, MayRestart, processVars

-----------------------------------------------------------------------------
\* The invariant of the posts.

\* The roles a turn may have added messages of, by where its code is.
UpTo == [system |-> {"system"}, user |-> {"system", "user"},
         assistant |-> {"system", "user", "assistant"}]
Below == [system |-> {}, user |-> {"system"}, assistant |-> {"system", "user"}]
Past == [t \in Turns |->
    IF at[t] \in {"idle", "checked"} THEN {}
    ELSE IF at[t] = "adding" THEN Below[stage[t]]
    ELSE IF at[t] \in {"saving", "gate", "compacting", "summarised", "finalizing", "restoring"}
         THEN UpTo[stage[t]]
    ELSE {"system", "user", "assistant"}]

\* Summaries apart, ids are of turns and roles that have had their message, once each.
OneEach(ms, past) ==
    /\ \A m \in ms : m.role # "summary" => m.role \in past[m.turn]
    /\ \A a, b \in ms : Id(a) = Id(b) /\ a.role # "summary" => a = b
IdsOnce == OneEach(row.messages, Past) /\ \A t \in Turns : OneEach(held[t], Past)

\* An object about to be saved has all of the row it was loaded from, up to the
\* status of the turn's own answer.
Keeps(t, ms, new) ==
    \A m \in ms : IF Id(m) = Reply(t) THEN Reply(t) \in Ids(new) ELSE m \in new
HeldKeepsBase ==
    \A t \in Turns :
        at[t] \in {"saving", "completing", "recording"} => Keeps(t, base[t].messages, held[t])

\* A turn publishes its one terminal event before its last step.
EventsOnce ==
    \A t \in Turns :
        /\ at[t] \notin {"ending", "done", "gone"} => events[t] = {}
        /\ events[t] \in {{}, {"complete"}, {"error"}}

\* From the moment it is complete in hand, the answer is stored as complete.
Replied(t, ms) == \E m \in ms : Id(m) = Reply(t) /\ m.status = "complete"
RepliesStored ==
    \A t \in Turns :
        /\ at[t] = "completing" => Replied(t, held[t])
        /\ (at[t] = "announcing" \/ "complete" \in events[t])
               /\ ~overlap /\ ~deleted /\ Reply(t) \notin folded => Replied(t, row.messages)

PostsInv ==
    /\ TypeOK /\ MayRestart
    /\ IdsOnce /\ HeldKeepsBase /\ EventsOnce /\ RepliesStored
    /\ OnlyOverlapLoses /\ CompactionEnds

LEMMA PastGrows ==
    ASSUME TypeOK, [Next]_vars PROVE \A t \in Turns : Past[t] \subseteq Past'[t]
<1> SUFFICES ASSUME NEW t \in Turns PROVE Past[t] \subseteq Past'[t]
    OBVIOUS
<1> USE DEF TypeOK
<1>1. CASE at'[t] = at[t] /\ stage'[t] = stage[t]
    BY <1>1 DEF Past
<1>2. CASE Exit
    BY <1>2 DEF Exit, Past, UpTo, Below
<1>3. CASE at[t] = "checked" \/ at'[t] \notin {"idle", "checked", "adding", "saving", "gate",
                "compacting", "summarised", "finalizing", "restoring"}
    BY <1>3 DEF Past, UpTo, Below
<1>4. ASSUME NEW u \in Turns, Post(u) \/ Adding(u) PROVE Past[t] \subseteq Past'[t]
    <2>1. CASE u # t
        <3>1. at'[t] = at[t] /\ stage'[t] = stage[t]
            <4>1. CASE OfSession(u)
                BY <2>1, <4>1, OfSessionOnly
            <4>2. CASE ~OfSession(u)
                BY <1>4, <2>1, <4>2 DEF OfSession, Post, Adding, PromptRead, AddLoads, AddSaves, Gate,
                   CompactBegins, CompactSaves, CompactEnds, Added, Go
            <4> QED
                BY <4>1, <4>2
        <3> QED
            BY <1>1, <3>1
    <2>2. CASE u = t /\ (Post(t) \/ PromptRead(t) \/ AddLoads(t) \/ AddSaves(t) \/ CompactBegins(t)
                         \/ CompactSaves(t))
        BY <2>2 DEF Post, PromptRead, AddLoads, AddSaves, CompactBegins, CompactSaves, Go, Past,
           UpTo, Below
    <2>3. CASE u = t /\ (Gate(t) \/ CompactEnds(t))
        BY <2>3 DEF Gate, CompactEnds, Added, Go, Past, UpTo, Below
    <2>4. CASE u = t /\ (SessionRead(t) \/ SessionWrittenBack(t))
        BY <1>1, <2>4 DEF SessionRead, SessionWrittenBack, turnVars
    <2>5. CASE u = t /\ SessionFails(t)
        BY <2>5 DEF SessionFails, UsesSession, Go, Past, UpTo, Below
    <2> QED
        BY <1>4, <2>1, <2>2, <2>3, <2>4, <2>5 DEF Adding
<1>5. ASSUME NEW u \in Turns, Answering(u) PROVE Past[t] \subseteq Past'[t]
    <2>1. (at'[t] = at[t] /\ stage'[t] = stage[t])
           \/ at'[t] \notin {"idle", "checked", "adding", "saving", "gate", "compacting",
                             "summarised", "finalizing", "restoring"}
        BY <1>5 DEF Answering, Register, Generated, GenerationFails, CompleteSaves, Announce,
           FailLoads, FailSaves, Unregister, Go
    <2> QED
        BY <1>1, <1>3, <2>1
<1>6. CASE Delete \/ Stop \/ Start \/ Tick \/ UNCHANGED vars
    BY <1>1, <1>6 DEF Delete, Stop, Start, Tick, vars, sessionVars, turnVars
<1> QED
    BY <1>2, <1>4, <1>5, <1>6 DEF Next

LEMMA OneEachKept ==
    ASSUME NEW past, NEW later, \A t \in Turns : past[t] \subseteq later[t],
           NEW ms \in SUBSET Messages, OneEach(ms, past), NEW some \in SUBSET ms
    PROVE  OneEach(some, later)
BY DEF OneEach, Messages

LEMMA OneEachSummary ==
    ASSUME NEW past, NEW ms, OneEach(ms, past), NEW m, m.role = "summary"
    PROVE  OneEach(ms \cup {m}, past)
BY DEF OneEach, Id

LEMMA OneEachNew ==
    ASSUME NEW past, NEW ms, OneEach(ms, past), NEW m, m.role \in past[m.turn],
           \A n \in ms : Id(n) # Id(m)
    PROVE  OneEach(ms \cup {m}, past)
BY DEF OneEach

\* The status of the answer is nothing an id depends on.
LEMMA WithReplyIds ==
    ASSUME TypeOK, NEW t \in Turns, NEW outcome \in {"complete", "error"}
    PROVE  /\ \A m \in WithReply(t, outcome) : \E n \in row.messages : Id(n) = Id(m)
           /\ Keeps(t, row.messages, WithReply(t, outcome))
           /\ \A past : OneEach(row.messages, past) => OneEach(WithReply(t, outcome), past)
<1>1. row.messages \in SUBSET Messages
    BY DEF TypeOK, Rows
<1>2. \A m \in Messages : [m EXCEPT !.status = outcome] \in Messages
                           /\ Id([m EXCEPT !.status = outcome]) = Id(m)
                           /\ [m EXCEPT !.status = outcome].role = m.role
                           /\ [m EXCEPT !.status = outcome].turn = m.turn
    BY DEF Messages, Id
<1>3. \A m \in WithReply(t, outcome) : \E n \in row.messages :
          Id(n) = Id(m) /\ n.role = m.role /\ n.turn = m.turn
          /\ m = IF Id(n) = Reply(t) THEN [n EXCEPT !.status = outcome] ELSE n
    BY <1>1, <1>2 DEF WithReply
<1>4. Keeps(t, row.messages, WithReply(t, outcome))
    BY <1>1, <1>2 DEF Keeps, WithReply, Ids
<1>5. ASSUME NEW past, OneEach(row.messages, past) PROVE OneEach(WithReply(t, outcome), past)
    BY <1>3, <1>5 DEF OneEach
<1> QED
    BY <1>3, <1>4, <1>5

\* What a step may do to the row and to the objects in hand.
Saves(t) == AddSaves(t) \/ CompleteSaves(t) \/ FailSaves(t)

LEMMA RowAfter ==
    ASSUME [Next]_vars
    PROVE  \/ row' = row
           \/ row' = NoRow /\ deleted'
           \/ \E u \in Turns : Saves(u) /\ up = "serving" /\ Save(u)
           \/ \E u \in Turns : CompactSaves(u) /\ row' # row
<1> DEFINE Goal == \/ row' = row
                   \/ row' = NoRow /\ deleted'
                   \/ \E u \in Turns : Saves(u) /\ up = "serving" /\ Save(u)
                   \/ \E u \in Turns : CompactSaves(u) /\ row' # row
<1>1. CASE Delete \/ Stop \/ Exit \/ Start \/ Tick \/ UNCHANGED vars
    BY <1>1 DEF vars, rowVars, Delete, Stop, Exit, Start, Tick
<1>2. ASSUME NEW u \in Turns, Post(u) \/ Adding(u) PROVE Goal
    BY <1>2 DEF rowVars, Post, Adding, PromptRead, AddLoads, AddSaves, SessionRead, SessionWrittenBack,
       SessionFails, Gate, CompactBegins, CompactSaves, CompactEnds, Saves
<1>3. ASSUME NEW u \in Turns, Answering(u) PROVE Goal
    BY <1>3 DEF rowVars, Answering, Register, Generated, GenerationFails, CompleteSaves, Announce,
       FailLoads, FailSaves, Unregister, Saves
<1> QED
    BY <1>1, <1>2, <1>3 DEF Next

LEMMA HeldAfter ==
    ASSUME TypeOK, [Next]_vars, NEW t \in Turns
    PROVE  \/ held'[t] = held[t] /\ base'[t] = base[t]
           \/ held'[t] = {}
           \/ AddLoads(t) /\ held'[t] = row.messages \cup {NewMessage(t, stage[t])} /\ base'[t] = row
           \/ \E outcome \in {"complete", "error"} :
                  held'[t] = WithReply(t, outcome) /\ base'[t] = row
<1> USE DEF TypeOK
<1>1. CASE Delete \/ Stop \/ Exit \/ Start \/ Tick \/ UNCHANGED vars
    BY <1>1 DEF vars, sessionVars, turnVars, Delete, Stop, Exit, Start, Tick
<1>2. ASSUME NEW u \in Turns, Post(u) \/ Adding(u)
      PROVE  \/ held'[t] = held[t] /\ base'[t] = base[t]
             \/ held'[t] = {}
             \/ AddLoads(t) /\ held'[t] = row.messages \cup {NewMessage(t, stage[t])} /\ base'[t] = row
    <2>1. CASE OfSession(u)
        BY <2>1, OfSessionOnly
    <2>2. CASE ~OfSession(u)
        BY <1>2, <2>2 DEF OfSession, Post, Adding, PromptRead, AddLoads, AddSaves, Gate, CompactBegins,
           CompactSaves, CompactEnds, Hold, Drop
    <2> QED
        BY <2>1, <2>2
<1>3. ASSUME NEW u \in Turns, Answering(u)
      PROVE  \/ held'[t] = held[t] /\ base'[t] = base[t]
             \/ held'[t] = {}
             \/ \E outcome \in {"complete", "error"} :
                  held'[t] = WithReply(t, outcome) /\ base'[t] = row
    BY <1>3 DEF Answering, Register, Generated, GenerationFails, CompleteSaves, Announce,
       FailLoads, FailSaves, Unregister, Hold, Drop
<1> QED
    BY <1>1, <1>2, <1>3 DEF Next

LEMMA IdsOnceNext == ASSUME PostsInv, [Next]_vars PROVE IdsOnce'
<1>1. TypeOK /\ \A t \in Turns : Past[t] \subseteq Past'[t]
    BY PastGrows DEF PostsInv
<1>2. row.messages \in SUBSET Messages /\ \A t \in Turns : held[t] \in SUBSET Messages
    BY <1>1 DEF TypeOK, Rows
<1>3. OneEach(row.messages, Past')
    BY <1>1, <1>2, OneEachKept DEF PostsInv, IdsOnce
<1>4. ASSUME NEW t \in Turns, NEW some \in SUBSET held[t] PROVE OneEach(some, Past')
    BY <1>1, <1>2, <1>4, OneEachKept DEF PostsInv, IdsOnce
<1>5. OneEach({}, Past')
    BY DEF OneEach
<1>6. OneEach(row'.messages, Past')
    <2>1. ASSUME NEW u \in Turns, CompactSaves(u), row' # row PROVE OneEach(row'.messages, Past')
        <3> DEFINE m == [turn |-> u, role |-> "summary", status |-> "plain", stamp |-> clock]
        <3>1. row'.messages = Recent(u) \cup {m} /\ m.role = "summary"
            BY <2>1 DEF CompactSaves
        <3>2. Recent(u) \in SUBSET held[u]
            BY DEF Recent
        <3>3. OneEach(Recent(u), Past')
            BY <1>4, <3>2
        <3> HIDE DEF m
        <3> QED
            BY <3>1, <3>3, OneEachSummary
    <2>2. ASSUME NEW u \in Turns, Save(u) PROVE OneEach(row'.messages, Past')
        BY <1>4, <2>2 DEF Save
    <2> QED
        BY <1>3, <1>5, <2>1, <2>2, RowAfter DEF NoRow
<1>7. ASSUME NEW t \in Turns PROVE OneEach(held'[t], Past')
    <2>1. CASE AddLoads(t) /\ held'[t] = row.messages \cup {NewMessage(t, stage[t])}
        <3> DEFINE m == NewMessage(t, stage[t])
        <3>1. m.turn = t /\ m.role = stage[t] /\ m.role # "summary"
              /\ Id(m) = <<t, stage[t]>> /\ stage[t] \in {"system", "user", "assistant"}
            BY <1>1 DEF NewMessage, Id, TypeOK
        <3>2. at[t] = "adding" /\ at'[t] \in {"saving", "rejected"} /\ stage' = stage
            BY <1>1, <2>1 DEF AddLoads, Go, TypeOK
        <3>3. m.role \in Past'[m.turn]
            BY <3>1, <3>2 DEF Past, UpTo
        <3>4. stage[t] \notin Past[t]
            BY <3>1, <3>2 DEF Past, Below
        <3>5. \A n \in row.messages : Id(n) # Id(m)
            BY <3>1, <3>4 DEF PostsInv, IdsOnce, OneEach, Id
        <3> HIDE DEF m
        <3>6. OneEach(row.messages \cup {m}, Past')
            BY <1>3, <3>3, <3>5, OneEachNew
        <3> QED
            BY <2>1, <3>6 DEF m
    <2>2. ASSUME NEW outcome \in {"complete", "error"} PROVE OneEach(WithReply(t, outcome), Past')
        BY <1>1, <1>3, WithReplyIds
    <2> QED
        BY <1>1, <1>4, <1>5, <2>1, <2>2, HeldAfter
<1> QED
    BY <1>6, <1>7 DEF IdsOnce

\* How a turn comes to hold an object that it is going to save.
LEMMA TakesHold ==
    ASSUME TypeOK, [Next]_vars, NEW t \in Turns, at'[t] \in {"saving", "completing", "recording"}
    PROVE  \/ at'[t] = at[t] /\ held'[t] = held[t] /\ base'[t] = base[t]
           \/ /\ at'[t] = "saving" /\ base'[t] = row
              /\ held'[t] = row.messages \cup {NewMessage(t, stage[t])}
           \/ /\ at'[t] = "completing" /\ HasReply(t)
              /\ held'[t] = WithReply(t, "complete") /\ base'[t] = row
           \/ at'[t] = "recording" /\ held'[t] = WithReply(t, "error") /\ base'[t] = row
<1> USE DEF TypeOK
<1>1. CASE Delete \/ Stop \/ Exit \/ Start \/ Tick \/ UNCHANGED vars
    BY <1>1 DEF vars, sessionVars, turnVars, Delete, Stop, Exit, Start, Tick
<1>2. ASSUME NEW u \in Turns, Post(u) \/ Adding(u)
      PROVE  \/ at'[t] = at[t] /\ held'[t] = held[t] /\ base'[t] = base[t]
             \/ /\ at'[t] = "saving" /\ base'[t] = row
                /\ held'[t] = row.messages \cup {NewMessage(t, stage[t])}
    <2>1. CASE OfSession(u)
        BY <2>1, OfSessionOnly
    <2>2. CASE ~OfSession(u)
        BY <1>2, <2>2 DEF OfSession, Post, Adding, PromptRead, AddLoads, AddSaves, Gate, CompactBegins,
           CompactSaves, CompactEnds, Added, Go, Hold, Drop
    <2> QED
        BY <2>1, <2>2
<1>3. ASSUME NEW u \in Turns, Answering(u)
      PROVE  \/ at'[t] = at[t] /\ held'[t] = held[t] /\ base'[t] = base[t]
             \/ /\ at'[t] = "completing" /\ HasReply(t)
                /\ held'[t] = WithReply(t, "complete") /\ base'[t] = row
             \/ at'[t] = "recording" /\ held'[t] = WithReply(t, "error") /\ base'[t] = row
    BY <1>3 DEF Answering, Register, Generated, GenerationFails, CompleteSaves, Announce,
       FailLoads, FailSaves, Unregister, Go, Hold, Drop
<1> QED
    BY <1>1, <1>2, <1>3 DEF Next

LEMMA HeldKeepsBaseNext == ASSUME PostsInv, [Next]_vars PROVE HeldKeepsBase'
<1> SUFFICES ASSUME NEW t \in Turns, at'[t] \in {"saving", "completing", "recording"}
             PROVE  Keeps(t, base'[t].messages, held'[t])
    BY DEF HeldKeepsBase
<1>1. CASE at'[t] = at[t] /\ held'[t] = held[t] /\ base'[t] = base[t]
    BY <1>1 DEF PostsInv, HeldKeepsBase
<1>2. Keeps(t, row.messages, row.messages \cup {NewMessage(t, stage[t])})
    BY DEF Keeps, Ids
<1>3. \A outcome \in {"complete", "error"} : Keeps(t, row.messages, WithReply(t, outcome))
    BY WithReplyIds DEF PostsInv
<1> QED
    BY <1>1, <1>2, <1>3, TakesHold DEF PostsInv

\* A save that replaced the row it was computed from has lost nothing of it.
LEMMA SaveKeeps ==
    ASSUME PostsInv, NEW t \in Turns, Saves(t), Save(t), ~overlap'
    PROVE  ~overlap /\ row = base[t] /\ row'.messages = held[t]
           /\ Keeps(t, row.messages, row'.messages)
BY DEF PostsInv, Saves, AddSaves, CompleteSaves, FailSaves, Save, HeldKeepsBase, TypeOK

LEMMA OnlyOverlapLosesNext == ASSUME PostsInv, [Next]_vars PROVE OnlyOverlapLoses'
<1> USE DEF PostsInv
<1>1. ASSUME NEW u \in Turns, Saves(u), Save(u), ~overlap', ~deleted'
      PROVE  saved' \ folded' \subseteq Ids(row'.messages)
    <2>1. saved' = saved \cup Ids(held[u]) /\ UNCHANGED <<folded, deleted>>
        BY <1>1 DEF Saves, AddSaves, CompleteSaves, FailSaves, Save
    <2>2. Ids(row.messages) \subseteq Ids(held[u])
        BY <1>1, SaveKeeps DEF Keeps, Ids
    <2>3. saved \ folded \subseteq Ids(row.messages)
        BY <1>1, <2>1, SaveKeeps DEF OnlyOverlapLoses
    <2> QED
        BY <1>1, <2>1, <2>2, <2>3, SaveKeeps
<1>2. ASSUME NEW u \in Turns, CompactSaves(u), row' # row, ~overlap', ~deleted'
      PROVE  saved' \ folded' \subseteq Ids(row'.messages)
    <2>1. /\ overlap' = (overlap \/ row.messages # held[u]) /\ UNCHANGED <<saved, deleted>>
          /\ folded' = folded \cup (Ids(held[u]) \ Ids(Recent(u)))
        BY <1>2 DEF CompactSaves
    <2>2. Recent(u) \subseteq row'.messages
        BY <1>2 DEF CompactSaves
    <2>3. ~overlap /\ row.messages = held[u]
        BY <1>2, <2>1
    <2>4. Ids(Recent(u)) \subseteq Ids(row'.messages)
        BY <2>2 DEF Ids
    <2> QED
        BY <1>2, <2>1, <2>3, <2>4 DEF OnlyOverlapLoses
<1>4. CASE deleted'
    BY <1>4 DEF OnlyOverlapLoses
<1> DEFINE Quiet == row' = row /\ UNCHANGED <<saved, deleted>> /\ folded \subseteq folded'
                      /\ (overlap => overlap')
<1>5. ASSUME NEW u \in Turns, Post(u) \/ Adding(u)
      PROVE  (Saves(u) /\ Save(u)) \/ (CompactSaves(u) /\ row' # row) \/ Quiet
    <2>1. CASE CompactSaves(u)
        BY <2>1 DEF CompactSaves
    <2> QED
        BY <1>5, <2>1 DEF rowVars, Post, Adding, PromptRead, AddLoads, AddSaves, SessionRead,
           SessionWrittenBack, SessionFails, WritesBack, Updates, Leaves, UsesSession, Gate, CompactBegins,
           CompactEnds, Saves
<1>6. ASSUME NEW u \in Turns, Answering(u) PROVE (Saves(u) /\ Save(u)) \/ Quiet
    BY <1>6 DEF rowVars, Answering, Register, Generated, GenerationFails, CompleteSaves, Announce,
       FailLoads, FailSaves, Unregister, Saves
<1>7. CASE Delete \/ Stop \/ Exit \/ Start \/ Tick \/ UNCHANGED vars
    <2>1. deleted' \/ Quiet
        BY <1>7 DEF vars, sessionVars, turnVars, rowVars, processVars, Delete, Stop, Exit, Start, Tick
    <2> QED
        BY <1>4, <2>1 DEF OnlyOverlapLoses
<1>8. ASSUME Quiet PROVE OnlyOverlapLoses'
    BY <1>8 DEF OnlyOverlapLoses
<1> HIDE DEF Quiet
<1> QED
    BY <1>1, <1>2, <1>5, <1>6, <1>7, <1>8 DEF Next, OnlyOverlapLoses

\* A mark that nothing excuses is under a compaction of this process: it is put there
\* by the turn that goes on to take it off.
LEMMA CompactionEndsNext == ASSUME PostsInv, [Next]_vars PROVE CompactionEnds'
<1> USE DEF PostsInv, TypeOK
<1> DEFINE Under(t) == at[t] \in {"summarised", "finalizing", "restoring"}
           Kept == /\ session = "compacting" /\ ~leftover
                   /\ \A t \in Turns : Under(t) => Under(t)'
<1> SUFFICES ASSUME session' = "compacting", ~leftover'
             PROVE  \E t \in Turns : Under(t)'
    BY DEF CompactionEnds
<1>1. ASSUME Kept PROVE \E t \in Turns : Under(t)'
    BY <1>1 DEF CompactionEnds
<1>2. CASE Delete \/ Stop \/ Start \/ Tick \/ UNCHANGED vars
    <2>1. Kept
        BY <1>2 DEF vars, sessionVars, turnVars, Delete, Stop, Start, Tick
    <2> QED
        BY <1>1, <2>1
<1>3. CASE Exit
    BY <1>3 DEF Exit
<1>4. ASSUME NEW u \in Turns, Post(u) \/ PromptRead(u) \/ AddLoads(u) \/ AddSaves(u) \/ CompactSaves(u)
      PROVE  Kept
    BY <1>4 DEF sessionVars, Post, PromptRead, AddLoads, AddSaves, CompactSaves, Go
<1>5. ASSUME NEW u \in Turns, SessionRead(u) \/ SessionWrittenBack(u) PROVE Kept
    BY <1>5 DEF turnVars, SessionRead, SessionWrittenBack, WritesBack
<1>6. ASSUME NEW u \in Turns, SessionFails(u) PROVE Kept
    BY <1>6 DEF SessionFails, UsesSession, Leaves, Go
<1>7. ASSUME NEW u \in Turns, Gate(u) PROVE Kept
    BY <1>7 DEF Gate, WritesBack, Added, Go
<1>8. ASSUME NEW u \in Turns, CompactBegins(u) PROVE \E t \in Turns : Under(t)'
    BY <1>8 DEF CompactBegins, Go
<1>9. ASSUME NEW u \in Turns, CompactEnds(u) PROVE FALSE
    BY <1>9 DEF CompactEnds, Updates
<1>10. ASSUME NEW u \in Turns, Answering(u) PROVE Kept
    BY <1>10 DEF sessionVars, Answering, Register, Generated, GenerationFails, CompleteSaves, Announce,
       FailLoads, FailSaves, Unregister, Go
<1> HIDE DEF Kept
<1> QED
    BY <1>1, <1>2, <1>3, <1>4, <1>5, <1>6, <1>7, <1>8, <1>9, <1>10 DEF Next, Adding

LEMMA EventsOnceNext == ASSUME PostsInv, [Next]_vars PROVE EventsOnce'
<1> USE DEF PostsInv, TypeOK, EventsOnce
<1>1. CASE Delete \/ Stop \/ Exit \/ Start \/ Tick \/ UNCHANGED vars
    BY <1>1 DEF vars, sessionVars, turnVars, Delete, Stop, Exit, Start, Tick
<1>2. ASSUME NEW u \in Turns, Post(u) \/ Adding(u) PROVE EventsOnce'
    <2>1. CASE OfSession(u)
        BY <2>1, OfSessionOnly DEF UsesSession
    <2>2. CASE ~OfSession(u)
        BY <1>2, <2>2 DEF OfSession, Post, Adding, PromptRead, AddLoads, AddSaves, Gate, CompactBegins,
           CompactSaves, CompactEnds, Added, Go
    <2> QED
        BY <2>1, <2>2
<1>3. ASSUME NEW u \in Turns, Answering(u) PROVE EventsOnce'
    <2>1. CASE Announce(u) \/ FailLoads(u) \/ FailSaves(u)
        BY <2>1 DEF Announce, FailLoads, FailSaves, Go
    <2>2. CASE Register(u) \/ Generated(u) \/ GenerationFails(u) \/ CompleteSaves(u) \/ Unregister(u)
        BY <2>2 DEF Register, Generated, GenerationFails, CompleteSaves, Unregister, Go
    <2> QED
        BY <1>3, <2>1, <2>2 DEF Answering
<1> QED
    BY <1>1, <1>2, <1>3 DEF Next

\* What happened stays so, and an answer is on its way to be announced from the
\* save of the complete message on.
LEMMA Announcing ==
    ASSUME PostsInv, [Next]_vars, NEW t \in Turns
    PROVE  /\ overlap => overlap'
           /\ deleted => deleted'
           /\ folded \subseteq folded'
           /\ at'[t] = "announcing" \/ "complete" \in events'[t] =>
                 \/ at[t] = "announcing" \/ "complete" \in events[t]
                 \/ at[t] = "completing" /\ CompleteSaves(t) /\ Save(t)
<1> USE DEF PostsInv, TypeOK
<1>1. CASE Delete \/ Stop \/ Exit \/ Start \/ Tick \/ UNCHANGED vars
    BY <1>1 DEF vars, sessionVars, turnVars, rowVars, processVars, Delete, Stop, Exit, Start, Tick
<1>2. ASSUME NEW u \in Turns, Post(u) \/ Adding(u)
      PROVE  /\ overlap => overlap'
             /\ deleted => deleted'
             /\ folded \subseteq folded'
             /\ at'[t] = "announcing" \/ "complete" \in events'[t] =>
                   at[t] = "announcing" \/ "complete" \in events[t]
    <2>1. CASE OfSession(u)
        BY <2>1, OfSessionOnly
    <2>2. CASE ~OfSession(u)
        BY <1>2, <2>2 DEF OfSession, Post, Adding, PromptRead, AddLoads, AddSaves, Gate, CompactBegins,
           CompactSaves, CompactEnds, Added, Go, Save, rowVars
    <2> QED
        BY <2>1, <2>2
<1>3. ASSUME NEW u \in Turns, Answering(u)
      PROVE  /\ overlap => overlap'
             /\ deleted => deleted'
             /\ folded \subseteq folded'
             /\ at'[t] = "announcing" \/ "complete" \in events'[t] =>
                   \/ at[t] = "announcing" \/ "complete" \in events[t]
                   \/ at[t] = "completing" /\ CompleteSaves(t) /\ Save(t)
    BY <1>3 DEF Answering, Register, Generated, GenerationFails, CompleteSaves, Announce,
       FailLoads, FailSaves, Unregister, Go, Save, rowVars
<1> QED
    BY <1>1, <1>2, <1>3 DEF Next

LEMMA RepliesStoredNext == ASSUME PostsInv, [Next]_vars PROVE RepliesStored'
<1> SUFFICES ASSUME NEW t \in Turns
             PROVE  /\ at'[t] = "completing" => Replied(t, held'[t])
                    /\ (at'[t] = "announcing" \/ "complete" \in events'[t])
                          /\ ~overlap' /\ ~deleted' /\ Reply(t) \notin folded'
                       => Replied(t, row'.messages)
    BY DEF RepliesStored
<1>1. ASSUME at'[t] = "completing" PROVE Replied(t, held'[t])
    <2>1. ASSUME HasReply(t) PROVE Replied(t, WithReply(t, "complete"))
        <3>1. PICK m \in row.messages : Id(m) = Reply(t)
            BY <2>1 DEF HasReply, Ids
        <3>2. m \in Messages
            BY DEF PostsInv, TypeOK, Rows
        <3>3. [m EXCEPT !.status = "complete"] \in WithReply(t, "complete")
            BY <3>1 DEF WithReply
        <3> QED
            BY <3>1, <3>2, <3>3 DEF Replied, Id, Messages
    <2> QED
        BY <1>1, <2>1, TakesHold DEF PostsInv, RepliesStored
<1>2. ASSUME at'[t] = "announcing" \/ "complete" \in events'[t],
             ~overlap', ~deleted', Reply(t) \notin folded'
      PROVE  Replied(t, row'.messages)
    <2>1. CASE at[t] = "completing" /\ CompleteSaves(t) /\ Save(t)
        <3>1. Replied(t, held[t])
            BY <2>1 DEF PostsInv, RepliesStored
        <3> QED
            BY <2>1, <3>1 DEF Save
    <2>2. CASE at[t] = "announcing" \/ "complete" \in events[t]
        <3>1. PICK m \in row.messages : Id(m) = Reply(t) /\ m.status = "complete"
            BY <1>2, <2>2, Announcing DEF PostsInv, RepliesStored, Replied
        <3>2. ASSUME NEW u \in Turns, Saves(u), Save(u) PROVE m \in row'.messages
            <4>1. u # t
                BY <2>2, <3>2 DEF PostsInv, EventsOnce, Saves, AddSaves, CompleteSaves, FailSaves
            <4>2. Keeps(u, row.messages, row'.messages)
                BY <1>2, <3>2, SaveKeeps
            <4> QED
                BY <3>1, <4>1, <4>2 DEF Keeps, Reply
        <3>3. ASSUME NEW u \in Turns, CompactSaves(u), row' # row PROVE m \in row'.messages
            <4>1. /\ overlap' = (overlap \/ row.messages # held[u])
                  /\ folded' = folded \cup (Ids(held[u]) \ Ids(Recent(u)))
                  /\ Recent(u) \subseteq row'.messages
                BY <3>3 DEF CompactSaves
            <4>2. m \in held[u]
                BY <1>2, <3>1, <4>1
            <4>3. PICK n \in Recent(u) : Id(n) = Reply(t)
                BY <1>2, <3>1, <4>1, <4>2 DEF Ids
            <4>4. n \in held[u] /\ n.role = "assistant"
                <5>1. n \in held[u] /\ n \in Messages
                    BY DEF Recent, PostsInv, TypeOK
                <5> QED
                    BY <4>3, <5>1 DEF Id, Reply, Messages
            <4>5. n = m
                BY <3>1, <4>2, <4>3, <4>4 DEF PostsInv, IdsOnce, OneEach
            <4> QED
                BY <4>1, <4>5
        <3> QED
            BY <1>2, <3>1, <3>2, <3>3, RowAfter DEF Replied
    <2> QED
        BY <1>2, <2>1, <2>2, Announcing
<1> QED
    BY <1>1, <1>2

LEMMA PostsInitInv == ASSUME Init PROVE PostsInv
<1>1. TypeOK
    BY TurnsInitType
<1>2. MayRestart /\ OnlyOverlapLoses /\ CompactionEnds
    BY DEF Init, MayRestart, OnlyOverlapLoses, CompactionEnds
<1>3. IdsOnce
    BY DEF Init, IdsOnce, OneEach
<1>4. HeldKeepsBase /\ EventsOnce /\ RepliesStored
    BY DEF Init, HeldKeepsBase, EventsOnce, RepliesStored
<1> QED
    BY <1>1, <1>2, <1>3, <1>4 DEF PostsInv

LEMMA PostsNextInv == ASSUME PostsInv, [Next]_vars PROVE PostsInv'
<1>1. TypeOK' /\ MayRestart'
    BY TurnsNextType, MayRestartNext DEF PostsInv
<1> QED
    BY <1>1, IdsOnceNext, HeldKeepsBaseNext, EventsOnceNext, RepliesStoredNext,
       OnlyOverlapLosesNext, CompactionEndsNext DEF PostsInv

-----------------------------------------------------------------------------
(* ChannelService *)

\* While calls do not overlap there is one handler at most, of the registered
\* channel; a call that removes a channel has unsubscribed it, and one that connects
\* a channel works on the registered one.
ChannelsInOrder ==
    /\ \A c, d \in ChannelCalls : c \in Channels!Busy /\ d \in Channels!Busy => c = d
    /\ unsubscriber \in {registry, None} /\ subscribed = {unsubscriber} \ {None}
    /\ \A o \in ChannelCalls :
           channel[o].state = "connected" => o = registry /\ channel[o].enabled /\ o \in subscribed
    /\ \A c \in ChannelCalls :
           /\ callAt[c] = "removing" =>
                  unsubscriber = None /\ \A o \in ChannelCalls : channel[o].state # "connected"
           /\ callAt[c] \in {"connecting", "validating"} =>
                  /\ registry \in ChannelCalls /\ subject[c] = registry
                  /\ unsubscriber = registry /\ channel[registry].enabled
ChannelsInv == ~overlapped => ChannelsInOrder

LEMMA ChannelsInitInv == Channels!Init => Channels!TypeOK /\ ChannelsInv
<1> SUFFICES ASSUME Channels!Init PROVE Channels!TypeOK /\ ChannelsInv
    OBVIOUS
<1> USE ChatLimits DEF Channels!ChannelLimits, Channels!Init
<1>1. channelCrashes \in 0..MaxCrashes
    OBVIOUS
<1>2. Channels!TypeOK
    BY <1>1 DEF Channels!TypeOK, Channels!Settled, Channels!NewChannel
<1>3. ChannelsInv
    BY DEF ChannelsInv, ChannelsInOrder, Channels!Busy, Channels!Connected, Channels!Settled,
           Channels!NewChannel
<1> QED
    BY <1>2, <1>3

LEMMA StopChannelType ==
    ASSUME Channels!TypeOK, NEW o \in ChannelCalls, Channels!StopChannel(o)
    PROVE  /\ unsubscriber' \in ChannelCalls \cup {None} /\ subscribed' \subseteq ChannelCalls
           /\ channel' \in [ChannelCalls -> [state : {"disconnected", "connecting", "connected", "error"},
                              enabled : BOOLEAN]]
BY DEF Channels!StopChannel, Channels!TypeOK

LEMMA StopChannelDoes ==
    ASSUME Channels!TypeOK, ChannelsInOrder, registry \in ChannelCalls, Channels!StopChannel(registry)
    PROVE  /\ unsubscriber' = None /\ subscribed' = {}
           /\ \A p \in ChannelCalls : channel'[p].state # "connected"
<1>1. channel' = [channel EXCEPT ![registry].state = "disconnected"]
    BY DEF Channels!StopChannel, Channels!TypeOK
<1>2. subscribed' = {}
    BY DEF Channels!StopChannel, ChannelsInOrder
<1>3. unsubscriber' = None
    BY DEF Channels!StopChannel
<1>4. ASSUME NEW p \in ChannelCalls, channel'[p].state = "connected" PROVE FALSE
    <2>1. p # registry
        BY <1>1, <1>4 DEF Channels!TypeOK
    <2>2. channel[p].state = "connected"
        BY <1>1, <1>4, <2>1 DEF Channels!TypeOK
    <2> QED
        BY <2>1, <2>2 DEF ChannelsInOrder
<1> QED
    BY <1>2, <1>3, <1>4

LEMMA StartChannelDoes ==
    ASSUME NEW c \in ChannelCalls, NEW o \in ChannelCalls, Channels!TypeOK, Channels!StartChannel(c, o)
    PROVE  /\ unsubscriber' = IF unsubscriber = None THEN o ELSE unsubscriber
           /\ subscribed' = IF unsubscriber = None THEN subscribed \cup {o} ELSE subscribed
           /\ \E place \in {"done", "connecting"} : callAt' = [callAt EXCEPT ![c] = place]
           /\ started' \in BOOLEAN
<1>1. started' \in BOOLEAN
    BY Zenon DEF Channels!StartChannel, Channels!TypeOK
<1>2. \E place \in {"done", "connecting"} : callAt' = [callAt EXCEPT ![c] = place]
    BY DEF Channels!StartChannel, Channels!Goes
<1> QED
    BY <1>1, <1>2 DEF Channels!StartChannel

LEMMA CallingDoes ==
    ASSUME NEW c \in ChannelCalls, NEW k \in Channels!Kinds, Channels!TypeOK, Channels!Calling(c, k)
    PROVE  /\ kind' \in [ChannelCalls -> Channels!Kinds \cup {"none"}]
           /\ overlapped' \in BOOLEAN /\ UNCHANGED channelCrashes
<1>1. overlapped' \in BOOLEAN
    BY Zenon DEF Channels!Calling, Channels!TypeOK
<1> QED
    BY <1>1 DEF Channels!Calling, Channels!TypeOK

LEMMA ChannelsNextType == Channels!TypeOK /\ [Channels!Next]_channelVars => Channels!TypeOK'
<1> SUFFICES ASSUME Channels!TypeOK, [Channels!Next]_channelVars PROVE Channels!TypeOK'
    OBVIOUS
<1> USE ChatLimits DEF Channels!ChannelLimits, Channels!TypeOK, Channels!Settled, Channels!Kinds
<1>1. ASSUME NEW c \in ChannelCalls, Channels!Add(c) PROVE Channels!TypeOK'
    BY <1>1 DEF Channels!Add, Channels!Calling, Channels!Goes
<1>2. ASSUME NEW c \in ChannelCalls, Channels!AddReplaces(c) PROVE Channels!TypeOK'
    <2>1. registry \in ChannelCalls /\ Channels!StopChannel(registry)
        BY <1>2 DEF Channels!AddReplaces
    <2> QED
        BY <1>2, <2>1, StopChannelType DEF Channels!AddReplaces, Channels!Continues, Channels!Goes
<1>3. ASSUME NEW c \in ChannelCalls, Channels!AddRegisters(c) PROVE Channels!TypeOK'
    BY <1>3 DEF Channels!AddRegisters, Channels!Continues, Channels!Goes, Channels!StartChannel,
                Channels!NewChannel
<1>4. ASSUME NEW c \in ChannelCalls, Channels!Remove(c) PROVE Channels!TypeOK'
    <2>1. registry # None => registry \in ChannelCalls /\ Channels!StopChannel(registry)
        BY <1>4 DEF Channels!Remove
    <2> QED
        BY <1>4, <2>1, StopChannelType DEF Channels!Remove, Channels!Calling, Channels!Goes, Channels!state
<1>5. ASSUME NEW c \in ChannelCalls, Channels!Removed(c) PROVE Channels!TypeOK'
    BY <1>5 DEF Channels!Removed, Channels!Continues, Channels!Goes
<1>6. ASSUME NEW c \in ChannelCalls, Channels!Enable(c) PROVE Channels!TypeOK'
    <2>0. /\ registry \in ChannelCalls /\ channel' = [channel EXCEPT ![registry].enabled = TRUE]
          /\ subject' = [subject EXCEPT ![c] = registry] /\ UNCHANGED <<token, registry>>
          /\ Channels!Calling(c, "enable")
        BY <1>6 DEF Channels!Enable
    <2>3. /\ kind' \in [ChannelCalls -> Channels!Kinds \cup {"none"}]
          /\ overlapped' \in BOOLEAN /\ UNCHANGED channelCrashes
        BY <2>0, CallingDoes
    <2>1. CASE started
        <3>1. Channels!StartChannel(c, registry)
            BY <1>6, <2>1 DEF Channels!Enable
        <3>2. /\ \E place \in {"done", "connecting"} : callAt' = [callAt EXCEPT ![c] = place]
              /\ unsubscriber' \in ChannelCalls \cup {None} /\ subscribed' \subseteq ChannelCalls
              /\ started' \in BOOLEAN
            BY <2>0, <3>1, StartChannelDoes
        <3>3. channel' \in [ChannelCalls -> [state : {"disconnected", "connecting", "connected", "error"},
                                            enabled : BOOLEAN]]
            BY <2>0
        <3>4. subject' \in [ChannelCalls -> ChannelCalls \cup {None}]
            BY <2>0
        <3>5. channelCrashes' \in 0..MaxCrashes
            BY <2>3
        <3> HIDE DEF Channels!Kinds
        <3> QED
            BY <2>0, <2>3, <3>2, <3>3, <3>4, <3>5
    <2>2. CASE ~started
        <3>1. callAt' = [callAt EXCEPT ![c] = "done"] /\ UNCHANGED <<subscribed, unsubscriber, started>>
            BY <1>6, <2>2 DEF Channels!Enable, Channels!Goes
        <3> HIDE DEF Channels!Kinds
        <3> QED
            BY <2>0, <2>3, <3>1
    <2> QED
        BY <2>1, <2>2
<1>7. ASSUME NEW c \in ChannelCalls, Channels!Disable(c) PROVE Channels!TypeOK'
    BY <1>7 DEF Channels!Disable, Channels!Calling, Channels!Goes
<1>8. ASSUME NEW c \in ChannelCalls, Channels!NotFound(c) PROVE Channels!TypeOK'
    BY <1>8 DEF Channels!NotFound, Channels!Calling, Channels!Goes, Channels!state
<1>9. ASSUME NEW c \in ChannelCalls, Channels!Start(c) PROVE Channels!TypeOK'
    BY <1>9 DEF Channels!Start, Channels!Calling, Channels!Goes, Channels!state
<1>10. ASSUME NEW c \in ChannelCalls, Channels!Listed(c) PROVE Channels!TypeOK'
    <2> DEFINE o == IF registry = None THEN c ELSE registry
    <2>1. CASE token /\ channel[o].enabled
        <3>1. o \in ChannelCalls /\ Channels!StartChannel(c, o)
            BY <1>10, <2>1 DEF Channels!Listed
        <3>2. UNCHANGED <<token, channel, kind, channelCrashes, overlapped>>
            BY <1>10 DEF Channels!Listed, Channels!Continues
        <3>3. registry' = o /\ subject' = [subject EXCEPT ![c] = o]
            BY <1>10, <2>1 DEF Channels!Listed
        <3> QED
            BY <3>1, <3>2, <3>3, StartChannelDoes
    <2>2. CASE ~(token /\ channel[o].enabled)
        BY <1>10, <2>2 DEF Channels!Listed, Channels!Continues, Channels!Goes
    <2> QED
        BY <2>1, <2>2
<1>11. ASSUME NEW c \in ChannelCalls, Channels!Stop(c) PROVE Channels!TypeOK'
    <2>1. registry # None => registry \in ChannelCalls /\ Channels!StopChannel(registry)
        BY <1>11 DEF Channels!Stop
    <2> QED
        BY <1>11, <2>1, StopChannelType DEF Channels!Stop, Channels!Calling, Channels!Goes
<1>12. ASSUME NEW c \in ChannelCalls, Channels!Dial(c) PROVE Channels!TypeOK'
    BY <1>12 DEF Channels!Dial, Channels!Continues, Channels!Goes
<1>13. ASSUME NEW c \in ChannelCalls, Channels!ConnectSettles(c) PROVE Channels!TypeOK'
    <2>1. started' \in BOOLEAN
        BY <1>13, Zenon DEF Channels!ConnectSettles
    <2> QED
        BY <1>13, <2>1 DEF Channels!ConnectSettles, Channels!Continues, Channels!Goes
<1>14. CASE Channels!Crash
    <2>2. channelCrashes' \in 0..MaxCrashes
        BY <1>14 DEF Channels!Crash
    <2> QED
        BY <1>14, <2>2 DEF Channels!Crash, Channels!NewChannel
<1>15. CASE UNCHANGED channelVars
    BY <1>15 DEF channelVars
<1> QED
    BY <1>1, <1>2, <1>3, <1>4, <1>5, <1>6, <1>7, <1>8, <1>9, <1>10, <1>11, <1>12, <1>13, <1>14, <1>15
    DEF Channels!Next, Channels!Step

\* A call that begins while another is in progress says that calls overlap.
LEMMA BeginsAlone ==
    ASSUME Channels!TypeOK, ChannelsInv, NEW c \in ChannelCalls, NEW k, Channels!Calling(c, k), ~overlapped'
    PROVE  ChannelsInOrder /\ \A d \in ChannelCalls : callAt[d] \in Channels!Settled \cup {"new"}
BY DEF Channels!Calling, ChannelsInv, Channels!Busy, Channels!TypeOK

LEMMA ContinuesAlone ==
    ASSUME Channels!TypeOK, ChannelsInv, NEW c \in ChannelCalls, NEW place,
           Channels!Continues(c, place), place \notin Channels!Settled \cup {"new"}, ~overlapped'
    PROVE  ChannelsInOrder
           /\ \A d \in ChannelCalls \ {c} : callAt[d] \in Channels!Settled \cup {"new"}
BY DEF Channels!Continues, ChannelsInv, ChannelsInOrder, Channels!Busy, Channels!TypeOK

LEMMA ChannelsNextInv ==
    Channels!TypeOK /\ ChannelsInv /\ [Channels!Next]_channelVars => ChannelsInv'
<1> SUFFICES ASSUME Channels!TypeOK, ChannelsInv, [Channels!Next]_channelVars, ~overlapped'
             PROVE  ChannelsInOrder'
    BY DEF ChannelsInv
<1> DEFINE Quiet(c) == \A d \in ChannelCalls \ {c} : callAt[d] \in Channels!Settled \cup {"new"}
<1> USE ChatLimits DEF Channels!ChannelLimits, Channels!Settled
<1>1. ASSUME NEW c \in ChannelCalls, NEW k, Channels!Calling(c, k)
      PROVE  ChannelsInOrder /\ Quiet(c) /\ callAt[c] = "new"
    BY <1>1, BeginsAlone DEF Channels!Calling
<1>2. ASSUME NEW c \in ChannelCalls,
             NEW place \in {"saved", "removing", "listing", "connecting", "validating"},
             Channels!Continues(c, place)
      PROVE  ChannelsInOrder /\ Quiet(c) /\ callAt[c] = place
    BY <1>2, ContinuesAlone DEF Channels!Continues
<1> DEFINE Shape ==
        /\ registry \in ChannelCalls \cup {None} /\ unsubscriber \in ChannelCalls \cup {None}
        /\ channel \in [ChannelCalls -> [state : {"disconnected", "connecting", "connected", "error"},
                                         enabled : BOOLEAN]]
        /\ DOMAIN callAt = ChannelCalls /\ callAt = [c \in ChannelCalls |-> callAt[c]]
        /\ subject \in [ChannelCalls -> ChannelCalls \cup {None}]
<1>0. Shape
    BY DEF Channels!TypeOK
<1> USE <1>0 DEF ChannelsInOrder, Channels!Busy, Channels!Connected, Channels!Goes
<1>3. ASSUME NEW c \in ChannelCalls, Channels!Add(c) PROVE ChannelsInOrder'
    <2>1. ChannelsInOrder /\ Quiet(c) /\ callAt[c] = "new"
        BY <1>1, <1>3 DEF Channels!Add
    <2>2. /\ \E place \in {"saved", "failed"} : callAt' = [callAt EXCEPT ![c] = place]
          /\ UNCHANGED <<registry, channel, subscribed, unsubscriber, subject>>
        BY <1>3 DEF Channels!Add
    <2> QED
        BY <1>3, <2>1, <2>2
<1>4. ASSUME NEW c \in ChannelCalls, Channels!AddReplaces(c) PROVE ChannelsInOrder'
    <2>1. ChannelsInOrder /\ Quiet(c)
        BY <1>2, <1>4 DEF Channels!AddReplaces
    <2> QED
        BY <1>4, <2>1, StopChannelDoes DEF Channels!AddReplaces
<1>5. ASSUME NEW c \in ChannelCalls, Channels!AddRegisters(c) PROVE ChannelsInOrder'
    <2>1. ChannelsInOrder /\ Quiet(c)
        BY <1>2, <1>5 DEF Channels!AddRegisters
    <2> QED
        <3>1. /\ registry' = c /\ registry = None /\ channel' = [channel EXCEPT ![c] = Channels!NewChannel]
              /\ subject' = [subject EXCEPT ![c] = c]
            BY <1>5 DEF Channels!AddRegisters
        <3>2. \A p \in ChannelCalls : channel'[p].state # "connected"
            BY <2>1, <3>1 DEF Channels!NewChannel
        <3>3. unsubscriber' = c /\ subscribed' = {c} /\ channel'[c].enabled
            BY <1>5, <2>1, <3>1, StartChannelDoes DEF Channels!AddRegisters, Channels!NewChannel
        <3>4. \E place \in {"done", "connecting"} : callAt' = [callAt EXCEPT ![c] = place]
            BY <1>5, StartChannelDoes DEF Channels!AddRegisters
        <3> QED
            BY <2>1, <3>1, <3>2, <3>3, <3>4
<1>6. ASSUME NEW c \in ChannelCalls, Channels!Remove(c) PROVE ChannelsInOrder'
    <2>1. ChannelsInOrder /\ Quiet(c) /\ callAt[c] = "new"
        BY <1>1, <1>6 DEF Channels!Remove
    <2> QED
        <3>1. CASE registry = None
            BY <1>6, <2>1, <3>1 DEF Channels!Remove, Channels!state
        <3>2. CASE registry # None
            <4>1. Channels!StopChannel(registry) /\ callAt' = [callAt EXCEPT ![c] = "removing"] /\ UNCHANGED registry
                BY <1>6, <3>2 DEF Channels!Remove
            <4>2. unsubscriber' = None /\ subscribed' = {} /\ \A p \in ChannelCalls : channel'[p].state # "connected"
                BY <2>1, <3>2, <4>1, StopChannelDoes
            <4> QED
                BY <2>1, <4>1, <4>2
        <3> QED
            BY <3>1, <3>2
<1>7. ASSUME NEW c \in ChannelCalls, Channels!Removed(c) PROVE ChannelsInOrder'
    <2>1. ChannelsInOrder /\ Quiet(c) /\ callAt[c] = "removing"
        BY <1>2, <1>7 DEF Channels!Removed
    <2> QED
        BY <1>7, <2>1 DEF Channels!Removed
<1>8. ASSUME NEW c \in ChannelCalls, Channels!Enable(c) PROVE ChannelsInOrder'
    <2>1. ChannelsInOrder /\ Quiet(c) /\ callAt[c] = "new"
        BY <1>1, <1>8 DEF Channels!Enable
    <2> QED
        <3>1. CASE started
            BY <1>8, <2>1, <3>1, StartChannelDoes DEF Channels!Enable
        <3>2. CASE ~started
            BY <1>8, <2>1, <3>2 DEF Channels!Enable
        <3> QED
            BY <3>1, <3>2
<1>9. ASSUME NEW c \in ChannelCalls, Channels!Disable(c) PROVE ChannelsInOrder'
    <2>1. ChannelsInOrder /\ Quiet(c) /\ callAt[c] = "new"
        BY <1>1, <1>9 DEF Channels!Disable
    <2> QED
        BY <1>9, <2>1 DEF Channels!Disable
<1>10. ASSUME NEW c \in ChannelCalls, Channels!NotFound(c) PROVE ChannelsInOrder'
    <2>1. ChannelsInOrder /\ Quiet(c) /\ callAt[c] = "new"
        BY <1>1, <1>10 DEF Channels!NotFound
    <2> QED
        BY <1>10, <2>1 DEF Channels!NotFound, Channels!state
<1>11. ASSUME NEW c \in ChannelCalls, Channels!Start(c) PROVE ChannelsInOrder'
    <2>1. ChannelsInOrder /\ Quiet(c) /\ callAt[c] = "new"
        BY <1>1, <1>11 DEF Channels!Start
    <2> QED
        BY <1>11, <2>1 DEF Channels!Start, Channels!state
<1>12. ASSUME NEW c \in ChannelCalls, Channels!Listed(c) PROVE ChannelsInOrder'
    <2>1. ChannelsInOrder /\ Quiet(c) /\ callAt[c] = "listing"
        BY <1>2, <1>12 DEF Channels!Listed
    <2> QED
        <3> DEFINE o == IF registry = None THEN c ELSE registry
        <3>1. CASE token /\ channel[o].enabled
            <4>1. /\ o \in ChannelCalls /\ Channels!StartChannel(c, o)
                  /\ registry' = o /\ UNCHANGED channel /\ subject' = [subject EXCEPT ![c] = o]
                BY <1>12, <3>1 DEF Channels!Listed
            <4> QED
                BY <2>1, <3>1, <4>1, StartChannelDoes
        <3>2. CASE ~(token /\ channel[o].enabled)
            <4>1. /\ callAt' = [callAt EXCEPT ![c] = "done"] /\ UNCHANGED <<channel, subscribed, unsubscriber>>
                  /\ subject' = [subject EXCEPT ![c] = registry']
                  /\ registry' \in {registry, c} /\ (registry' # registry => registry = None)
                BY <1>12, <3>2 DEF Channels!Listed
            <4>2. CASE registry' = registry
                BY <2>1, <4>1, <4>2
            <4>3. CASE registry = None /\ registry' = c
                <5>1. unsubscriber = None /\ \A p \in ChannelCalls : channel[p].state # "connected"
                    BY <2>1, <4>3
                <5> QED
                    BY <2>1, <4>1, <4>3, <5>1
            <4> QED
                BY <4>1, <4>2, <4>3
        <3> QED
            BY <3>1, <3>2
<1>13. ASSUME NEW c \in ChannelCalls, Channels!Stop(c) PROVE ChannelsInOrder'
    <2>1. ChannelsInOrder /\ Quiet(c) /\ callAt[c] = "new"
        BY <1>1, <1>13 DEF Channels!Stop
    <2> QED
        <3>1. registry \in ChannelCalls => Channels!StopChannel(registry)
            BY <1>13 DEF Channels!Stop
        <3>2. unsubscriber' = None /\ subscribed' = {} /\ \A p \in ChannelCalls : channel'[p].state # "connected"
            BY <1>13, <2>1, <3>1, StopChannelDoes DEF Channels!Stop
        <3> QED
            BY <1>13, <2>1, <3>2 DEF Channels!Stop
<1>14. ASSUME NEW c \in ChannelCalls, Channels!Dial(c) PROVE ChannelsInOrder'
    <2>1. ChannelsInOrder /\ Quiet(c) /\ callAt[c] = "connecting"
        BY <1>2, <1>14 DEF Channels!Dial
    <2> QED
        BY <1>14, <2>1 DEF Channels!Dial
<1>15. ASSUME NEW c \in ChannelCalls, Channels!ConnectSettles(c) PROVE ChannelsInOrder'
    <2>1. ChannelsInOrder /\ Quiet(c) /\ callAt[c] = "validating"
        BY <1>2, <1>15 DEF Channels!ConnectSettles
    <2> QED
        <3>1. /\ \E place \in {"done", "failed"} : callAt' = [callAt EXCEPT ![c] = place]
              /\ \E s \in {"connected", "error"} : channel' = [channel EXCEPT ![subject[c]].state = s]
              /\ UNCHANGED <<registry, subscribed, unsubscriber, subject>>
            BY <1>15 DEF Channels!ConnectSettles
        <3> QED
            BY <2>1, <3>1
<1>16. CASE Channels!Crash
    BY <1>16 DEF Channels!Crash, Channels!NewChannel
<1>17. CASE UNCHANGED channelVars
    BY <1>17 DEF channelVars, ChannelsInv
<1> QED
    BY <1>3, <1>4, <1>5, <1>6, <1>7, <1>8, <1>9, <1>10, <1>11, <1>12, <1>13, <1>14, <1>15, <1>16, <1>17
    DEF Channels!Next, Channels!Step

LEMMA ChannelsInvGhost == Channels!TypeOK /\ ChannelsInv => Channels!NoGhostChannel
BY ChatLimits DEF Channels!ChannelLimits, Channels!NoGhostChannel, ChannelsInv, ChannelsInOrder,
   Channels!Connected, Channels!TypeOK

-----------------------------------------------------------------------------
(* TelegramPolling *)

PollFlags ==
    /\ shouldPoll \in BOOLEAN /\ raced \in BOOLEAN
    /\ status \in {"disconnected", "connecting", "connected", "reconnecting", "error"}
PollCounts ==
    /\ arrived \in 0..MaxUpdates /\ confirmed \in 0..MaxUpdates
    /\ checking \in 0..connects /\ connects \in 0..MaxConnects
    /\ lastUpdateId \in 0..MaxUpdates /\ pollTimer \in 0..MaxConnects
    /\ crashes \in 0..MaxCrashes
PollLoops ==
    /\ loop \in [Telegram!Loops -> [at : {"none", "timer", "fetching", "dispatching", "handling"},
                                    first : 1..(MaxUpdates + 1), last : 0..MaxUpdates]]
    /\ \A l \in Telegram!Loops : loop[l].at = "handling" => loop[l].first \in Telegram!Updates
PollHistory == times \in [Telegram!Updates -> Nat] /\ handled \subseteq Telegram!Updates

LEMMA PollTypes == PollFlags /\ PollCounts /\ PollLoops /\ PollHistory => Telegram!TypeOK
BY ChatLimits DEF Telegram!PollLimits, Telegram!TypeOK, PollFlags, PollCounts, PollLoops, PollHistory

\* While no disconnect has met a call in flight: at most one loop, or the connect that
\* will start it, exactly while the channel should poll; the timer at hand is its
\* timer; and every update before the one at hand was handled, once by this process.
OneLoop ==
    /\ \A l, m \in Telegram!Loops : loop[l].at # "none" /\ loop[m].at # "none" => l = m
    /\ checking \in {0, 1}
    /\ \A l \in Telegram!Loops : loop[l].at # "none" => shouldPoll /\ checking = 0
    /\ checking = 1 => shouldPoll
    /\ shouldPoll => checking = 1 \/ \E l \in Telegram!Loops : loop[l].at # "none"
    /\ \A l \in Telegram!Loops : pollTimer = l <=> loop[l].at = "timer"
Progressed ==
    /\ \A u \in Telegram!Updates :
           /\ times[u] \in {0, 1} /\ (times[u] = 1 => u <= lastUpdateId)
           /\ u <= confirmed => u \in handled
           /\ u < lastUpdateId => u \in handled
           /\ u = lastUpdateId => u \in handled \/ \E l \in Telegram!Loops : loop[l].at = "handling"
           /\ \A l \in Telegram!Loops :
                  loop[l].at \in {"dispatching", "handling"} /\ u < loop[l].first => u \in handled
    /\ \A l \in Telegram!Loops :
           /\ loop[l].at = "fetching" => loop[l].first = lastUpdateId + 1
           /\ loop[l].at = "dispatching" => loop[l].first > lastUpdateId
           /\ loop[l].at = "handling" => loop[l].first = lastUpdateId
PollInv ==
    /\ PollFlags /\ PollCounts /\ PollLoops /\ PollHistory
    /\ ~raced => OneLoop /\ Progressed

LEMMA PollInitInv == Telegram!Init => PollInv
<1> SUFFICES ASSUME Telegram!Init PROVE PollInv
    OBVIOUS
<1> USE ChatLimits DEF Telegram!PollLimits, Telegram!Init, Telegram!NoLoop
<1>1. PollFlags
    BY DEF PollFlags
<1>2. PollCounts
    BY DEF PollCounts
<1>3. PollLoops
    BY DEF PollLoops, Telegram!Loops
<1>4. PollHistory
    BY DEF PollHistory
<1>5. OneLoop
    BY DEF OneLoop, Telegram!Loops
<1>6. Progressed
    BY DEF Progressed, Telegram!Updates
<1> QED
    BY <1>1, <1>2, <1>3, <1>4, <1>5, <1>6 DEF PollInv

LEMMA ScheduleDoes ==
    ASSUME PollInv, NEW l \in Telegram!Loops, Telegram!Schedule(l)
    PROVE  /\ PollLoops' /\ pollTimer' \in 0..MaxConnects
           /\ \A m \in Telegram!Loops :
                  IF m = l THEN loop'[m].at = IF shouldPoll THEN "timer" ELSE "none"
                  ELSE loop'[m] = loop[m]
           /\ pollTimer' = IF shouldPoll THEN l ELSE pollTimer
<1> DEFINE r == [at |-> IF shouldPoll THEN "timer" ELSE "none", first |-> 1, last |-> 0]
<1>1. loop' = [loop EXCEPT ![l] = r] /\ pollTimer' = IF shouldPoll THEN l ELSE pollTimer
    BY DEF Telegram!Schedule, Telegram!LoopAt, Telegram!NoLoop
<1>2. r \in [at : {"none", "timer"}, first : 1..(MaxUpdates + 1), last : 0..MaxUpdates]
    BY ChatLimits DEF Telegram!PollLimits
<1>3. pollTimer' \in 0..MaxConnects
    BY <1>1, ChatLimits DEF Telegram!PollLimits, Telegram!Loops, PollInv, PollCounts
<1>4. PollLoops
    BY DEF PollInv
<1>5. r.at # "handling" /\ r.at = IF shouldPoll THEN "timer" ELSE "none"
    OBVIOUS
<1> HIDE DEF r
<1>6. /\ PollLoops'
      /\ \A m \in Telegram!Loops : IF m = l THEN loop'[m] = r ELSE loop'[m] = loop[m]
    BY <1>1, <1>2, <1>4, <1>5 DEF PollLoops
<1> QED
    BY <1>1, <1>3, <1>5, <1>6

\* Types, action by action; what a loop's step leaves alone is said once.
LEMMA PollNextFlags == PollFlags /\ [Telegram!Next]_pollVars => PollFlags'
<1> SUFFICES ASSUME PollFlags, [Telegram!Next]_pollVars PROVE PollFlags'
    OBVIOUS
<1> USE DEF PollFlags
<1>1. CASE Telegram!Arrives \/ Telegram!Connect \/ Telegram!Validated \/ Telegram!Crash
    BY <1>1 DEF Telegram!Arrives, Telegram!Connect, Telegram!Validated, Telegram!Crash
<1>2. CASE Telegram!Rejected \/ Telegram!Disconnect
    BY <1>2, Zenon DEF Telegram!Rejected, Telegram!Disconnect
<1>3. ASSUME NEW l \in Telegram!Loops, Telegram!PollStep(l) PROVE PollFlags'
    BY <1>3 DEF Telegram!PollStep, Telegram!Poll, Telegram!Fetched, Telegram!FetchFails,
                Telegram!FetchDropped, Telegram!Dispatch, Telegram!Handled, Telegram!Dispatched,
                Telegram!Unpolled
<1>4. CASE UNCHANGED pollVars
    BY <1>4 DEF pollVars
<1> QED
    BY <1>1, <1>2, <1>3, <1>4 DEF Telegram!Next

LEMMA PollNextCounts == PollInv /\ [Telegram!Next]_pollVars => PollCounts'
<1> SUFFICES ASSUME PollInv, [Telegram!Next]_pollVars PROVE PollCounts'
    OBVIOUS
<1> USE ChatLimits DEF Telegram!PollLimits, PollInv, PollCounts
<1>1. CASE Telegram!Arrives \/ Telegram!Connect \/ Telegram!Crash
    BY <1>1 DEF Telegram!Arrives, Telegram!Connect, Telegram!Crash
<1>2. CASE Telegram!Rejected
    BY <1>2 DEF Telegram!Rejected
<1>3. CASE Telegram!Disconnect
    BY <1>3 DEF Telegram!Disconnect
<1>4. CASE Telegram!Validated
    <2>1. pollTimer' \in 0..MaxConnects
        BY <1>4, ScheduleDoes DEF Telegram!Validated
    <2> QED
        BY <1>4, <2>1 DEF Telegram!Validated
<1>5. ASSUME NEW l \in Telegram!Loops, Telegram!PollStep(l) PROVE PollCounts'
    <2>1. UNCHANGED <<arrived, checking, connects, crashes>>
        BY <1>5 DEF Telegram!PollStep, Telegram!Poll, Telegram!Fetched, Telegram!FetchFails,
                Telegram!FetchDropped, Telegram!Dispatch, Telegram!Handled, Telegram!Dispatched,
                Telegram!Unpolled
    <2>2. Telegram!Dropped(l) \in 0..MaxUpdates
        BY DEF PollLoops, Telegram!Dropped
    <2>3. confirmed' \in 0..MaxUpdates
        BY <1>5, <2>2 DEF Telegram!PollStep, Telegram!Poll, Telegram!Fetched, Telegram!FetchFails,
                Telegram!FetchDropped, Telegram!Dispatch, Telegram!Handled, Telegram!Dispatched
    <2>4. pollTimer' \in 0..MaxConnects
        BY <1>5, ScheduleDoes DEF Telegram!PollStep, Telegram!Poll, Telegram!Fetched,
                Telegram!FetchFails, Telegram!FetchDropped, Telegram!Dispatch, Telegram!Handled,
                Telegram!Dispatched
    <2>5. lastUpdateId' \in 0..MaxUpdates
        BY <1>5 DEF PollLoops, Telegram!PollStep, Telegram!Poll, Telegram!Fetched,
                Telegram!FetchFails, Telegram!FetchDropped, Telegram!Dispatch, Telegram!Handled,
                Telegram!Dispatched
    <2> QED
        BY <2>1, <2>3, <2>4, <2>5
<1>6. CASE UNCHANGED pollVars
    BY <1>6 DEF pollVars
<1> QED
    BY <1>1, <1>2, <1>3, <1>4, <1>5, <1>6 DEF Telegram!Next

LEMMA PollNextLoops == PollInv /\ [Telegram!Next]_pollVars => PollLoops'
<1> SUFFICES ASSUME PollInv, [Telegram!Next]_pollVars PROVE PollLoops'
    OBVIOUS
<1> USE ChatLimits DEF Telegram!PollLimits, PollCounts, PollLoops, PollInv, Telegram!Updates
<1>1. CASE Telegram!Arrives \/ Telegram!Connect \/ Telegram!Rejected
    BY <1>1 DEF Telegram!Arrives, Telegram!Connect, Telegram!Rejected
<1>2. CASE Telegram!Disconnect \/ Telegram!Crash
    BY <1>2 DEF Telegram!Disconnect, Telegram!Crash, Telegram!NoLoop
<1>3. CASE Telegram!Validated
    BY <1>3, ScheduleDoes DEF Telegram!Validated
<1>4. ASSUME NEW l \in Telegram!Loops, Telegram!Poll(l) PROVE PollLoops'
    BY <1>4 DEF Telegram!Poll, Telegram!NoLoop
<1>5. ASSUME NEW l \in Telegram!Loops, Telegram!Fetched(l) PROVE PollLoops'
    <2>1. Telegram!Dropped(l) \in 0..MaxUpdates
        BY DEF Telegram!Dropped
    <2> QED
        BY <1>5, <2>1 DEF Telegram!Fetched
<1>6. ASSUME NEW l \in Telegram!Loops, Telegram!FetchFails(l) PROVE PollLoops'
    BY <1>6, ScheduleDoes DEF Telegram!FetchFails
<1>7. ASSUME NEW l \in Telegram!Loops, Telegram!FetchDropped(l) PROVE PollLoops'
    BY <1>7 DEF Telegram!FetchDropped, Telegram!NoLoop
<1>8. ASSUME NEW l \in Telegram!Loops, Telegram!Dispatch(l) PROVE PollLoops'
    BY <1>8 DEF Telegram!Dispatch
<1>9. ASSUME NEW l \in Telegram!Loops, Telegram!Handled(l) PROVE PollLoops'
    BY <1>9 DEF Telegram!Handled
<1>10. ASSUME NEW l \in Telegram!Loops, Telegram!Dispatched(l) PROVE PollLoops'
    BY <1>10, ScheduleDoes DEF Telegram!Dispatched
<1>11. CASE UNCHANGED pollVars
    BY <1>11 DEF pollVars
<1> QED
    BY <1>1, <1>2, <1>3, <1>4, <1>5, <1>6, <1>7, <1>8, <1>9, <1>10, <1>11
    DEF Telegram!Next, Telegram!PollStep

LEMMA PollNextHistory == PollInv /\ [Telegram!Next]_pollVars => PollHistory'
<1> SUFFICES ASSUME PollInv, [Telegram!Next]_pollVars PROVE PollHistory'
    OBVIOUS
<1> USE ChatLimits DEF Telegram!PollLimits, PollCounts, PollLoops, PollHistory, PollInv, Telegram!Updates
<1>1. ASSUME NEW l \in Telegram!Loops, Telegram!PollStep(l) PROVE PollHistory'
    <2>1. CASE Telegram!Dispatch(l)
        BY <2>1 DEF Telegram!Dispatch, Telegram!Unpolled
    <2>2. CASE Telegram!Handled(l)
        BY <2>2 DEF Telegram!Handled
    <2>3. CASE ~(Telegram!Dispatch(l) \/ Telegram!Handled(l))
        <3>1. UNCHANGED <<times, handled>>
            BY <1>1, <2>3 DEF Telegram!PollStep, Telegram!Poll, Telegram!Fetched,
                    Telegram!FetchFails, Telegram!FetchDropped, Telegram!Dispatched, Telegram!Unpolled
        <3> QED
            BY <3>1
    <2> QED
        BY <2>1, <2>2, <2>3
<1>2. CASE Telegram!Crash
    BY <1>2 DEF Telegram!Crash
<1>3. CASE ~(Telegram!Crash \/ \E l \in Telegram!Loops : Telegram!PollStep(l))
    <2>1. UNCHANGED <<times, handled>>
        BY <1>3 DEF Telegram!Next, pollVars, Telegram!Arrives, Telegram!Connect,
                Telegram!Validated, Telegram!Rejected, Telegram!Disconnect
    <2> QED
        BY <2>1
<1> QED
    BY <1>1, <1>2, <1>3

LEMMA PollNextOneLoop ==
    ASSUME PollInv, [Telegram!Next]_pollVars, ~raced' PROVE ~raced /\ OneLoop'
<1>0. ~raced /\ OneLoop
    <2>1. CASE Telegram!Rejected \/ Telegram!Disconnect
        BY <2>1, Zenon DEF Telegram!Rejected, Telegram!Disconnect, PollInv
    <2>2. ASSUME NEW l \in Telegram!Loops, Telegram!PollStep(l) PROVE raced' = raced
        BY <2>2 DEF Telegram!PollStep, Telegram!Poll, Telegram!Fetched, Telegram!FetchFails,
                Telegram!FetchDropped, Telegram!Dispatch, Telegram!Handled, Telegram!Dispatched,
                Telegram!Unpolled
    <2>3. raced' = raced => ~raced /\ OneLoop
        BY DEF PollInv
    <2> QED
        BY <2>1, <2>2, <2>3 DEF Telegram!Next, pollVars, Telegram!Arrives, Telegram!Connect,
                Telegram!Validated, Telegram!Crash
<1> USE <1>0, ChatLimits DEF Telegram!PollLimits, PollInv, PollCounts, PollLoops, OneLoop, Telegram!Loops
<1>1. CASE Telegram!Arrives
    BY <1>1 DEF Telegram!Arrives
<1>2. CASE Telegram!Connect
    BY <1>2 DEF Telegram!Connect
<1>3. CASE Telegram!Crash
    BY <1>3 DEF Telegram!Crash, Telegram!NoLoop
<1>4. CASE Telegram!Rejected
    BY <1>4 DEF Telegram!Rejected, Telegram!Running
<1>5. CASE Telegram!Disconnect
    <2>0. ~(checking > 0) /\ ~\E l \in Telegram!Running : l # pollTimer
        BY <1>5, Zenon DEF Telegram!Disconnect
    <2>1. checking = 0 /\ \A l \in Telegram!Loops : loop'[l].at = "none"
        BY <1>5, <2>0 DEF Telegram!Disconnect, Telegram!Running, Telegram!NoLoop
    <2> QED
        BY <1>5, <2>1 DEF Telegram!Disconnect
<1>6. CASE Telegram!Validated
    <2>1. PICK l \in Telegram!Loops : Telegram!Schedule(l)
        BY <1>6 DEF Telegram!Validated
    <2>2. checking = 1 /\ checking' = 0 /\ shouldPoll /\ shouldPoll'
          /\ \A m \in Telegram!Loops : loop[m].at = "none"
        BY <1>6 DEF Telegram!Validated
    <2> QED
        BY <2>1, <2>2, ScheduleDoes
<1>7. ASSUME NEW l \in Telegram!Loops, Telegram!PollStep(l) PROVE OneLoop'
    <2>0. UNCHANGED <<shouldPoll, checking>> /\ loop[l].at # "none"
        BY <1>7 DEF Telegram!PollStep, Telegram!Poll, Telegram!Fetched, Telegram!FetchFails,
                Telegram!FetchDropped, Telegram!Dispatch, Telegram!Handled, Telegram!Dispatched,
                Telegram!Unpolled
    <2>2. /\ \A m \in Telegram!Loops \ {l} : loop[m].at = "none" /\ pollTimer # m
          /\ pollTimer \in {0, l} /\ shouldPoll
        <3>1. \A m \in Telegram!Loops \ {l} : loop[m].at = "none" /\ pollTimer # m
            BY <2>0
        <3>2. pollTimer \in {0} \cup Telegram!Loops
            OBVIOUS
        <3>3. shouldPoll
            BY <2>0
        <3> QED
            BY <3>1, <3>2, <3>3
    <2>1. /\ \A m \in Telegram!Loops \ {l} : loop'[m] = loop[m]
          /\ loop'[l].at # "none" /\ (pollTimer' = l <=> loop'[l].at = "timer") /\ pollTimer' \in {0, l}
        <3>1. CASE Telegram!Poll(l)
            <4>1. pollTimer' = 0 /\ loop' = [loop EXCEPT ![l].at = "fetching", ![l].first = lastUpdateId + 1]
                BY <2>2, <3>1 DEF Telegram!Poll
            <4>2. loop'[l].at = "fetching" /\ \A m \in Telegram!Loops \ {l} : loop'[m] = loop[m]
                BY <4>1
            <4>3. l # 0
                OBVIOUS
            <4>4. loop'[l].at # "none" /\ loop'[l].at # "timer" /\ pollTimer' # l /\ pollTimer' \in {0, l}
                BY <4>1, <4>2, <4>3
            <4> QED
                BY <4>2, <4>4
        <3>3. CASE Telegram!Fetched(l)
            BY <2>0, <2>2, <3>3 DEF Telegram!Fetched, Telegram!Unpolled
        <3>4. CASE Telegram!Dispatch(l)
            BY <2>0, <2>2, <3>4 DEF Telegram!Dispatch
        <3>5. CASE Telegram!Handled(l)
            BY <2>0, <2>2, <3>5 DEF Telegram!Handled
        <3>2. CASE Telegram!FetchFails(l) \/ Telegram!Dispatched(l)
            BY <2>0, <2>2, <3>2, ScheduleDoes DEF Telegram!FetchFails, Telegram!Dispatched
        <3> QED
            BY <1>7, <2>0, <2>2, <3>1, <3>2, <3>3, <3>4, <3>5 DEF Telegram!PollStep, Telegram!FetchDropped
    <2>3. shouldPoll' /\ checking' = 0 /\ checking = 0
        BY <2>0
    <2> HIDE DEF PollInv, PollCounts, PollLoops
    <2> QED
        BY <2>1, <2>2, <2>3
<1>8. CASE UNCHANGED pollVars
    BY <1>8 DEF pollVars
<1> QED
    BY <1>0, <1>1, <1>2, <1>3, <1>4, <1>5, <1>6, <1>7, <1>8 DEF Telegram!Next

LEMMA PollNextProgressed ==
    ASSUME PollInv, [Telegram!Next]_pollVars, ~raced' PROVE Progressed'
<1>0. OneLoop /\ Progressed /\ PollCounts /\ PollLoops /\ PollHistory
    BY PollNextOneLoop DEF PollInv
<1> USE ChatLimits, <1>0 DEF Telegram!PollLimits, Telegram!Loops, Telegram!Updates
<1>1. CASE Telegram!Arrives \/ Telegram!Connect \/ Telegram!Rejected
    BY <1>1 DEF Progressed, Telegram!Arrives, Telegram!Connect, Telegram!Rejected
<1>2. CASE Telegram!Crash
    BY <1>2 DEF Progressed, PollCounts, Telegram!Crash, Telegram!NoLoop
<1>3. CASE Telegram!Disconnect
    <2>1. \A l \in Telegram!Loops : loop'[l].at = "none" /\ loop[l].at \in {"none", "timer"}
        <3>1. ~\E l \in Telegram!Running : l # pollTimer
            BY <1>3, Zenon DEF Telegram!Disconnect
        <3> QED
            BY <1>3, <3>1 DEF PollLoops, Telegram!Disconnect, Telegram!Running, Telegram!NoLoop, OneLoop
    <2> QED
        BY <1>3, <2>1 DEF Progressed, Telegram!Disconnect
<1>4. CASE Telegram!Validated
    <2>1. PICK l \in Telegram!Loops : loop[l].at = "none" /\ Telegram!Schedule(l)
        BY <1>4 DEF Telegram!Validated, Telegram!Running
    <2>2. \A m \in Telegram!Loops : loop'[m].at \in {"none", "timer"} \/ loop'[m] = loop[m]
        BY <2>1, ScheduleDoes
    <2>3. \A m \in Telegram!Loops : loop[m].at = "none"
        BY <1>4 DEF Telegram!Validated, OneLoop, PollCounts
    <2> QED
        BY <1>4, <2>2, <2>3 DEF Progressed, Telegram!Validated
<1>12. ASSUME NEW l \in Telegram!Loops, loop[l].at # "none"
       PROVE  \A m \in Telegram!Loops \ {l} : loop[m].at = "none"
    BY <1>12 DEF OneLoop
<1>5. ASSUME NEW l \in Telegram!Loops, Telegram!Poll(l) PROVE Progressed'
    <2>1. loop[l].at = "timer" /\ \A m \in Telegram!Loops : loop[m].at \in {"none", "timer"}
        BY <1>5, <1>12 DEF Telegram!Poll
    <2>2. \A m \in Telegram!Loops : loop'[m].at \in {"none", "timer", "fetching"}
                                   /\ (loop'[m].at = "fetching" => loop'[m].first = lastUpdateId + 1)
        <3>1. \/ loop' = [loop EXCEPT ![l] = Telegram!NoLoop]
              \/ loop' = [loop EXCEPT ![l].at = "fetching", ![l].first = lastUpdateId + 1]
            BY <1>5 DEF Telegram!Poll
        <3>2. \A m \in Telegram!Loops : m # l => loop'[m] = loop[m]
            BY <3>1 DEF PollLoops
        <3>3. loop'[l].at = "none" \/ (loop'[l].at = "fetching" /\ loop'[l].first = lastUpdateId + 1)
            <4>1. l \in DOMAIN loop
                BY DEF PollLoops
            <4>2. CASE loop' = [loop EXCEPT ![l] = Telegram!NoLoop]
                <5>1. loop'[l] = Telegram!NoLoop
                    BY <4>1, <4>2
                <5>2. Telegram!NoLoop.at = "none"
                    BY DEF Telegram!NoLoop
                <5> QED
                    BY <5>1, <5>2
            <4>3. CASE loop' = [loop EXCEPT ![l].at = "fetching", ![l].first = lastUpdateId + 1]
                <5>1. loop'[l] = [loop[l] EXCEPT !.at = "fetching", !.first = lastUpdateId + 1]
                    BY <4>1, <4>3
                <5>2. loop[l] \in [at : {"none", "timer", "fetching", "dispatching", "handling"},
                                   first : 1..(MaxUpdates + 1), last : 0..MaxUpdates]
                    BY DEF PollLoops
                <5> QED
                    BY <5>1, <5>2
            <4> QED
                BY <3>1, <4>2, <4>3
        <3> QED
            BY <2>1, <3>2, <3>3
    <2> QED
        BY <1>5, <2>1, <2>2 DEF Progressed, Telegram!Poll, Telegram!Unpolled
<1>6. ASSUME NEW l \in Telegram!Loops, Telegram!Fetched(l) PROVE Progressed'
    <2>1. loop[l].at = "fetching" /\ \A m \in Telegram!Loops \ {l} : loop[m].at = "none"
        BY <1>6, <1>12 DEF Telegram!Fetched
    <2>2. /\ loop'[l].at = "dispatching" /\ loop'[l].first = confirmed' + 1
          /\ \A m \in Telegram!Loops \ {l} : loop'[m].at = "none"
        BY <1>6, <2>1 DEF Telegram!Fetched, PollLoops
    <2>3. confirmed' = IF lastUpdateId > confirmed THEN lastUpdateId ELSE confirmed
        <3>1. loop[l].first = lastUpdateId + 1
            BY <2>1 DEF Progressed
        <3>2. confirmed' = IF loop[l].first > confirmed + 1 THEN loop[l].first - 1 ELSE confirmed
            BY <1>6 DEF Telegram!Fetched, Telegram!Dropped
        <3> QED
            BY <3>1, <3>2 DEF PollCounts
    <2>4. \A u \in Telegram!Updates : u <= confirmed' => u \in handled
        BY <2>1, <2>3 DEF Progressed, PollCounts
    <2>5. UNCHANGED <<times, handled, lastUpdateId>>
        BY <1>6 DEF Telegram!Fetched, Telegram!Unpolled
    <2> QED
        BY <2>1, <2>2, <2>3, <2>4, <2>5 DEF Progressed, PollCounts
<1>7. ASSUME NEW l \in Telegram!Loops, Telegram!FetchFails(l) PROVE Progressed'
    <2>1. loop[l].at = "fetching" /\ \A m \in Telegram!Loops \ {l} : loop[m].at = "none"
        BY <1>7, <1>12 DEF Telegram!FetchFails
    <2>2. \A m \in Telegram!Loops : loop'[m].at \in {"none", "timer"}
        BY <1>7, <2>1, ScheduleDoes DEF Telegram!FetchFails
    <2>3. confirmed' \in {confirmed, IF lastUpdateId > confirmed THEN lastUpdateId ELSE confirmed}
        <3>1. loop[l].first = lastUpdateId + 1
            BY <2>1 DEF Progressed
        <3>2. confirmed' \in {confirmed, IF loop[l].first > confirmed + 1 THEN loop[l].first - 1 ELSE confirmed}
            BY <1>7 DEF Telegram!FetchFails, Telegram!Dropped
        <3> QED
            BY <3>1, <3>2 DEF PollCounts
    <2>4. \A u \in Telegram!Updates : u <= confirmed' => u \in handled
        BY <2>1, <2>3 DEF Progressed, PollCounts
    <2>5. UNCHANGED <<times, handled, lastUpdateId>>
        BY <1>7 DEF Telegram!FetchFails, Telegram!Unpolled
    <2> QED
        BY <2>1, <2>2, <2>4, <2>5 DEF Progressed
<1>8. ASSUME NEW l \in Telegram!Loops, Telegram!Dispatch(l) PROVE Progressed'
    <2> DEFINE v == loop[l].first
    <2>1. loop[l].at = "dispatching" /\ \A m \in Telegram!Loops \ {l} : loop[m].at = "none"
        BY <1>8, <1>12 DEF Telegram!Dispatch
    <2>2. /\ loop'[l].at = "handling" /\ loop'[l].first = v
          /\ \A m \in Telegram!Loops \ {l} : loop'[m].at = "none"
        BY <1>8, <2>1 DEF Telegram!Dispatch, PollLoops
    <2>3. v \in Telegram!Updates /\ lastUpdateId' = v /\ v > lastUpdateId
        <3>1. v > lastUpdateId /\ v <= loop[l].last /\ lastUpdateId' = IF v > lastUpdateId THEN v ELSE lastUpdateId
            BY <1>8, <2>1 DEF Telegram!Dispatch, Progressed
        <3> QED
            BY <3>1 DEF PollLoops
    <2>4. \A u \in Telegram!Updates : times'[u] = IF u = v THEN times[u] + 1 ELSE times[u]
        BY <1>8, <2>3 DEF Telegram!Dispatch, PollHistory
    <2>5. times[v] = 0
        BY <2>3 DEF Progressed, PollCounts
    <2>6. \A u \in Telegram!Updates : u < v => u \in handled
        BY <2>1 DEF Progressed
    <2>7. UNCHANGED <<confirmed, handled>>
        BY <1>8 DEF Telegram!Dispatch, Telegram!Unpolled
    <2> HIDE DEF v
    <2>8. \A u \in Telegram!Updates : times'[u] \in {0, 1} /\ (times'[u] = 1 => u <= v)
        BY <2>3, <2>4, <2>5 DEF Progressed, PollCounts
    <2> QED
        BY <2>2, <2>3, <2>6, <2>7, <2>8 DEF Progressed
<1>9. ASSUME NEW l \in Telegram!Loops, Telegram!Handled(l) PROVE Progressed'
    <2>1. loop[l].at = "handling" /\ \A m \in Telegram!Loops \ {l} : loop[m].at = "none"
        BY <1>9, <1>12 DEF Telegram!Handled
    <2>2. /\ loop'[l].at = "dispatching" /\ loop'[l].first = lastUpdateId + 1
          /\ \A m \in Telegram!Loops \ {l} : loop'[m].at = "none"
        BY <1>9, <2>1 DEF Telegram!Handled, PollLoops, Progressed
    <2>3. /\ handled' = handled \cup {lastUpdateId}
          /\ UNCHANGED <<confirmed, times, lastUpdateId>>
        BY <1>9, <2>1 DEF Telegram!Handled, Progressed
    <2> QED
        BY <2>1, <2>2, <2>3 DEF Progressed, PollCounts
<1>10. ASSUME NEW l \in Telegram!Loops, Telegram!Dispatched(l) PROVE Progressed'
    BY <1>10, <1>12, ScheduleDoes DEF Progressed, Telegram!Dispatched, Telegram!Unpolled, OneLoop
<1>11. CASE UNCHANGED pollVars
    BY <1>11 DEF Progressed, pollVars
<1> QED
    BY <1>1, <1>2, <1>3, <1>4, <1>5, <1>6, <1>7, <1>8, <1>9, <1>10, <1>11
    DEF Telegram!Next, Telegram!PollStep, Telegram!FetchDropped, OneLoop

LEMMA PollNextInv == PollInv /\ [Telegram!Next]_pollVars => PollInv'
BY PollNextFlags, PollNextCounts, PollNextLoops, PollNextHistory, PollNextOneLoop, PollNextProgressed
DEF PollInv

\* The library's Cardinality, under the names it has here.
LEMMA SameCardinality ==
    \A S : Telegram!Cardinality(S) = Cardinality(S) /\ Discord!Cardinality(S) = Cardinality(S)
BY DEF Telegram!Cardinality, Discord!Cardinality, Cardinality

LEMMA PollInvOnce == PollInv => Telegram!PollsOnce
<1> SUFFICES ASSUME PollInv, ~raced
             PROVE  /\ Cardinality(Telegram!Running) + checking = IF shouldPoll THEN 1 ELSE 0
                    /\ \A u \in Telegram!Updates : times[u] <= 1
                    /\ 1..confirmed \subseteq handled
    BY SameCardinality DEF Telegram!PollsOnce
<1>4. OneLoop /\ Progressed /\ PollCounts
    BY DEF PollInv
<1> USE <1>4
<1>0. /\ checking \in Nat /\ (1..confirmed \subseteq handled)
      /\ \A u \in Telegram!Updates : times[u] <= 1
    <2>1. confirmed <= MaxUpdates /\ confirmed \in Nat /\ checking \in Nat /\ MaxUpdates \in Nat
        BY ChatLimits DEF PollCounts, Telegram!PollLimits
    <2>2. ASSUME NEW u \in 1..confirmed PROVE u \in handled
        <3>1. u \in Telegram!Updates /\ u <= confirmed
            BY <2>1 DEF Telegram!Updates
        <3> QED
            BY <3>1 DEF Progressed
    <2>3. ASSUME NEW u \in Telegram!Updates PROVE times[u] <= 1
        <3>1. times[u] \in {0, 1}
            BY DEF Progressed
        <3> QED
            BY <3>1
    <2> QED
        BY <2>1, <2>2, <2>3
<1>1. CASE Telegram!Running = {}
    <2>1. Cardinality(Telegram!Running) = 0
        BY <1>1, FS_EmptySet
    <2>2. checking = IF shouldPoll THEN 1 ELSE 0
        BY <1>1 DEF OneLoop, Telegram!Running
    <2> QED
        BY <1>0, <2>1, <2>2
<1>2. ASSUME NEW l \in Telegram!Running PROVE Cardinality(Telegram!Running) = 1 /\ shouldPoll /\ checking = 0
    <2>1. Telegram!Running = {l}
        BY <1>2 DEF OneLoop, Telegram!Running
    <2> QED
        BY <1>2, <2>1, FS_Singleton DEF OneLoop, Telegram!Running
<1>3. (\E l \in Telegram!Running : TRUE) => Cardinality(Telegram!Running) = 1 /\ shouldPoll /\ checking = 0
    BY <1>2
<1> QED
    BY <1>0, <1>1, <1>3

-----------------------------------------------------------------------------
(* DiscordChannel *)

LinkFlags == {shouldRun, sessionId, lastSequence, reconnectTimer, discordRaced} \subseteq BOOLEAN
LinkControl ==
    /\ discordStatus \in {"disconnected", "connecting", "connected", "reconnecting", "error"}
    /\ calling \in 0..discordConnects /\ discordConnects \in 0..MaxDiscordConnects
    /\ gateway \in 0..MaxGateways
LinkGateways == gateways \in [Discord!Gateways -> [socket : 0..MaxLinks, sequence : BOOLEAN,
                                                   heartbeat : BOOLEAN, resume : BOOLEAN]]
LinkLinks ==
    /\ link \in [Discord!Links -> [at : {"none", "opening", "open", "identifying", "resuming",
                                        "ready", "failed"},
                                  gateway : 0..MaxGateways,
                                  caller : {"none", "connect", "reconnect"}]]
    /\ \A s \in Discord!Links : link[s].at # "none" => link[s].gateway \in Discord!Gateways

LEMMA LinkTypes == LinkFlags /\ LinkControl /\ LinkGateways /\ LinkLinks => Discord!TypeOK
<1> SUFFICES ASSUME LinkFlags, LinkControl, LinkGateways, LinkLinks PROVE Discord!TypeOK
    OBVIOUS
<1>1. /\ calling \in 0..MaxDiscordConnects /\ discordConnects \in 0..MaxDiscordConnects
      /\ gateway \in 0..MaxGateways
    BY ChatLimits DEF LinkControl, Discord!LinkLimits
<1> QED
    BY <1>1, Zenon DEF LinkFlags, LinkControl, LinkGateways, LinkLinks, Discord!TypeOK

\* While no disconnect has met a call in flight: the one link is that of the channel's
\* gateway; while connect() awaits the user there is no link and no timer; the timer
\* runs beside a link only when that one has failed.
Up(s) == link[s].at # "none"
OneLink ==
    /\ \A s, r \in Discord!Links : Up(s) /\ Up(r) => s = r
    /\ \A s \in Discord!Links : Up(s) =>
           /\ gateway \in Discord!Gateways /\ link[s].gateway = gateway /\ shouldRun /\ calling = 0
           /\ (reconnectTimer => link[s].at = "failed")
           /\ (link[s].at = "opening" \/ gateways[gateway].socket = s)
    /\ \A g \in Discord!Gateways :
           /\ gateways[g].socket # 0 =>
                  /\ g = gateway /\ Up(gateways[g].socket)
                  /\ link[gateways[g].socket].at # "opening"
           /\ gateways[g].heartbeat => gateways[g].socket # 0
    /\ calling \in {0, 1} /\ (calling = 1 => shouldRun /\ ~reconnectTimer)
    /\ reconnectTimer => shouldRun
    /\ shouldRun => calling = 1 \/ reconnectTimer \/ \E s \in Discord!Links : Up(s)
    /\ discordStatus = "connected" =>
           \E s \in Discord!Links : link[s].at \in {"identifying", "ready"}
LinkInv ==
    /\ LinkFlags /\ LinkControl /\ LinkGateways /\ LinkLinks
    /\ ~discordRaced => OneLink

LEMMA LinkInitInv == Discord!Init => LinkInv
<1> SUFFICES ASSUME Discord!Init PROVE LinkInv
    OBVIOUS
<1> USE ChatLimits DEF Discord!LinkLimits, Discord!Init, Discord!NoLink, Discord!NewGateway
<1>1. LinkFlags
    BY DEF LinkFlags
<1>2. LinkControl
    BY DEF LinkControl
<1>3. LinkGateways
    BY DEF LinkGateways
<1>4. LinkLinks
    BY DEF LinkLinks
<1>5. OneLink
    BY DEF OneLink, Up
<1> QED
    BY <1>1, <1>2, <1>3, <1>4, <1>5 DEF LinkInv

LEMMA ConnectGatewayDoes ==
    ASSUME LinkInv, NEW who \in {"connect", "reconnect"}, Discord!ConnectGateway(who)
    PROVE  \E g \in Discord!Gateways :
               /\ gateway' = g /\ (gateway # 0 => g = gateway)
               /\ \A h \in Discord!Gateways :
                      /\ gateways'[h].socket = IF gateway = 0 /\ h = g THEN 0 ELSE gateways[h].socket
                      /\ gateways'[h].heartbeat => gateways[h].heartbeat /\ (gateway # 0 \/ h # g)
               /\ LinkGateways'
               /\ IF gateways'[g].socket # 0 THEN link' = link
                  ELSE \E s \in Discord!Links :
                           /\ ~Up(s)
                           /\ link' = [link EXCEPT ![s] = [at |-> "opening", gateway |-> g, caller |-> who]]
<1>1. PICK g \in IF gateway # 0 THEN {gateway} ELSE Discord!Unused :
          /\ gateway' = g
          /\ gateways' = [gateways EXCEPT
                 ![g] = IF gateway = 0 THEN Discord!NewGateway
                        ELSE [gateways[g] EXCEPT !.resume =
                                  gateways[g].resume \/ (who = "reconnect" /\ sessionId /\ lastSequence)]]
          /\ IF gateways'[g].socket # 0 THEN UNCHANGED link
             ELSE \E s \in Discord!Links \ Discord!Live :
                      /\ \A r \in Discord!Links \ Discord!Live : s <= r
                      /\ link' = [link EXCEPT ![s] = [at |-> "opening", gateway |-> g, caller |-> who]]
    BY Zenon DEF Discord!ConnectGateway
<1>2. g \in Discord!Gateways /\ (gateway # 0 => g = gateway)
    BY <1>1, ChatLimits DEF Discord!LinkLimits, Discord!Unused, Discord!Gateways, LinkInv, LinkControl
<1>3. LinkGateways
    BY DEF LinkInv
<1>4. CASE gateway = 0
    <2>1. gateways' = [gateways EXCEPT ![g] = Discord!NewGateway]
        BY <1>1, <1>4
    <2>2. LinkGateways'
        BY <1>2, <1>3, <2>1, ChatLimits DEF LinkGateways, Discord!NewGateway, Discord!LinkLimits
    <2>3. \A h \in Discord!Gateways :
              /\ gateways'[h].socket = IF h = g THEN 0 ELSE gateways[h].socket
              /\ gateways'[h].heartbeat => gateways[h].heartbeat /\ h # g
        BY <1>2, <1>3, <2>1 DEF LinkGateways, Discord!NewGateway
    <2> QED
        BY <1>1, <1>2, <1>4, <2>2, <2>3 DEF Discord!Live, Up
<1>5. CASE gateway # 0
    <2> DEFINE resumes == gateways[g].resume \/ (who = "reconnect" /\ sessionId /\ lastSequence)
    <2>1. gateways' = [gateways EXCEPT ![g] = [gateways[g] EXCEPT !.resume = resumes]]
        BY <1>1, <1>5, Zenon
    <2>2. resumes \in BOOLEAN
        BY Zenon
    <2> HIDE DEF resumes
    <2>3. LinkGateways'
        BY <1>2, <1>3, <2>1, <2>2 DEF LinkGateways
    <2>4. \A h \in Discord!Gateways :
              /\ gateways'[h].socket = gateways[h].socket
              /\ gateways'[h].heartbeat => gateways[h].heartbeat
        BY <1>2, <1>3, <2>1 DEF LinkGateways
    <2> QED
        BY <1>1, <1>2, <1>5, <2>3, <2>4 DEF Discord!Live, Up
<1> QED
    BY <1>4, <1>5

LEMMA LinkNextFlags == LinkInv /\ [Discord!Next]_discordVars => LinkFlags'
<1> SUFFICES ASSUME LinkInv, [Discord!Next]_discordVars PROVE LinkFlags'
    OBVIOUS
<1>0. LinkFlags /\ LinkGateways /\ LinkControl
    BY DEF LinkInv
<1> USE <1>0 DEF LinkFlags
<1>1. CASE Discord!Connect \/ Discord!UserChecked \/ Discord!UserRejected
    BY <1>1 DEF Discord!Connect, Discord!UserChecked, Discord!UserRejected, Discord!ConnectRejects
<1>2. CASE Discord!Disconnect
    <2>1. discordRaced' \in BOOLEAN
        BY <1>2, Zenon DEF Discord!Disconnect
    <2> QED
        BY <1>2, <2>1 DEF Discord!Disconnect
<1>3. CASE Discord!Reconnect
    BY <1>3 DEF Discord!Reconnect
<1>4. ASSUME NEW s \in Discord!Links,
             Discord!Opened(s) \/ Discord!OpenFails(s) \/ Discord!Hello(s) \/ Discord!Ready(s)
             \/ Discord!Resumed(s) \/ Discord!InvalidSession(s)
      PROVE  LinkFlags'
    BY <1>4 DEF Discord!Opened, Discord!OpenFails, Discord!ConnectRejects, Discord!ScheduleReconnect,
        Discord!Hello, Discord!Ready, Discord!Resumed, Discord!InvalidSession, Discord!Unheard
<1>5. ASSUME NEW s \in Discord!Links, Discord!Message(s) PROVE LinkFlags'
    <2>1. lastSequence' \in BOOLEAN
        BY <1>5, Zenon DEF Discord!Message
    <2> QED
        BY <1>5, <2>1 DEF Discord!Message, Discord!Unheard
<1>6. ASSUME NEW s \in Discord!Links, Discord!Errored(s) \/ Discord!Closed(s) PROVE LinkFlags'
    <2>1. Discord!Lost(link[s].gateway) /\ UNCHANGED <<shouldRun, sessionId, discordRaced>>
        BY <1>6 DEF Discord!Errored, Discord!Closed
    <2>2. lastSequence' \in BOOLEAN
        <3>1. link[s].gateway \in Discord!Gateways
            BY <1>6 DEF Discord!Errored, Discord!Closed, LinkLinks, LinkInv
        <3>2. gateways[link[s].gateway].sequence \in BOOLEAN
            BY <3>1 DEF LinkGateways
        <3> QED
            BY <2>1, <3>2 DEF Discord!Lost
    <2> QED
        BY <2>1, <2>2 DEF Discord!Lost, Discord!ScheduleReconnect
<1>7. CASE UNCHANGED discordVars
    BY <1>7 DEF discordVars
<1> QED
    BY <1>1, <1>2, <1>3, <1>4, <1>5, <1>6, <1>7 DEF Discord!Next

LEMMA LinkNextControl == LinkInv /\ [Discord!Next]_discordVars => LinkControl'
<1> SUFFICES ASSUME LinkInv, [Discord!Next]_discordVars PROVE LinkControl'
    OBVIOUS
<1>0. LinkControl
    BY DEF LinkInv
<1> USE <1>0, ChatLimits DEF LinkControl, Discord!LinkLimits
<1>1. CASE Discord!Connect
    BY <1>1 DEF Discord!Connect
<1>2. CASE Discord!UserChecked
    <2>1. gateway' \in Discord!Gateways
        BY <1>2, ConnectGatewayDoes DEF Discord!UserChecked
    <2> QED
        BY <1>2, <2>1 DEF Discord!UserChecked, Discord!Gateways
<1>3. CASE Discord!UserRejected
    BY <1>3 DEF Discord!UserRejected, Discord!ConnectRejects
<1>4. CASE Discord!Disconnect
    <2>1. gateway' = 0 /\ discordStatus' = "disconnected" /\ UNCHANGED <<calling, discordConnects>>
        BY <1>4 DEF Discord!Disconnect
    <2> QED
        BY <2>1
<1>5. CASE Discord!Reconnect
    <2>1. gateway' \in Discord!Gateways \cup {gateway}
        BY <1>5, ConnectGatewayDoes DEF Discord!Reconnect
    <2>2. UNCHANGED <<discordStatus, calling, discordConnects>>
        BY <1>5 DEF Discord!Reconnect
    <2> QED
        BY <2>1, <2>2 DEF Discord!Gateways
<1>6. ASSUME NEW s \in Discord!Links,
             \/ Discord!Opened(s) \/ Discord!OpenFails(s) \/ Discord!Hello(s) \/ Discord!Ready(s)
             \/ Discord!Resumed(s) \/ Discord!Message(s) \/ Discord!InvalidSession(s)
             \/ Discord!Errored(s) \/ Discord!Closed(s)
      PROVE  LinkControl'
    <2>1. /\ UNCHANGED <<calling, discordConnects, gateway>>
          /\ discordStatus' \in {discordStatus, "error", "connected", "reconnecting"}
        BY <1>6 DEF Discord!Opened, Discord!OpenFails, Discord!ConnectRejects, Discord!ScheduleReconnect,
            Discord!Hello, Discord!Ready, Discord!Resumed, Discord!Message, Discord!InvalidSession,
            Discord!Errored, Discord!Closed, Discord!Lost, Discord!Unheard
    <2> QED
        BY <2>1
<1>7. CASE UNCHANGED discordVars
    BY <1>7 DEF discordVars
<1> QED
    BY <1>1, <1>2, <1>3, <1>4, <1>5, <1>6, <1>7 DEF Discord!Next

LEMMA LinkNextGateways == LinkInv /\ [Discord!Next]_discordVars => LinkGateways'
<1> SUFFICES ASSUME LinkInv, [Discord!Next]_discordVars PROVE LinkGateways'
    OBVIOUS
<1>0. LinkGateways
    BY DEF LinkInv
<1> USE <1>0, ChatLimits DEF LinkGateways, Discord!LinkLimits
<1>1. CASE Discord!UserChecked
    BY <1>1, ConnectGatewayDoes DEF Discord!UserChecked
<1>2. CASE Discord!Reconnect
    <2>1. CASE shouldRun
        BY <1>2, <2>1, ConnectGatewayDoes DEF Discord!Reconnect
    <2>2. CASE ~shouldRun
        BY <1>2, <2>2 DEF Discord!Reconnect
    <2> QED
        BY <2>1, <2>2
<1>3. CASE Discord!Disconnect
    BY <1>3 DEF Discord!Disconnect, Discord!NewGateway
<1>4. ASSUME NEW s \in Discord!Links, Discord!Opened(s) PROVE LinkGateways'
    <2>1. link[s].gateway \in Discord!Gateways /\ s \in 0..MaxLinks
        BY <1>4 DEF Discord!Opened, Discord!Links, LinkInv, LinkLinks
    <2>2. gateways' = [gateways EXCEPT ![link[s].gateway].socket = s]
        BY <1>4 DEF Discord!Opened
    <2> QED
        BY <2>1, <2>2
<1>5. ASSUME NEW s \in Discord!Links, Discord!Hello(s) PROVE LinkGateways'
    BY <1>5 DEF Discord!Hello
<1>6. ASSUME NEW s \in Discord!Links, Discord!Ready(s) \/ Discord!Resumed(s) \/ Discord!Message(s)
      PROVE  LinkGateways'
    <2>1. link[s].gateway \in Discord!Gateways
        BY <1>6 DEF Discord!Ready, Discord!Resumed, Discord!Message, LinkInv, LinkLinks
    <2>2. gateways' = [gateways EXCEPT ![link[s].gateway].sequence = TRUE]
        BY <1>6 DEF Discord!Ready, Discord!Resumed, Discord!Message, Discord!Sequenced
    <2> QED
        BY <2>1, <2>2
<1>7. ASSUME NEW s \in Discord!Links, Discord!InvalidSession(s) PROVE LinkGateways'
    BY <1>7 DEF Discord!InvalidSession
<1>8. ASSUME NEW s \in Discord!Links, Discord!Errored(s) PROVE LinkGateways'
    BY <1>8 DEF Discord!Errored
<1>9. ASSUME NEW s \in Discord!Links, Discord!Closed(s) PROVE LinkGateways'
    <2>1. link[s].gateway \in Discord!Gateways /\ 0 \in 0..MaxLinks
        BY <1>9 DEF Discord!Closed, LinkInv, LinkLinks
    <2>2. gateways' = [gateways EXCEPT ![link[s].gateway].heartbeat = FALSE,
                                       ![link[s].gateway].socket = 0]
        BY <1>9 DEF Discord!Closed
    <2> QED
        BY <2>1, <2>2
<1>10. CASE UNCHANGED gateways
    BY <1>10
<1> QED
    BY <1>1, <1>2, <1>3, <1>4, <1>5, <1>6, <1>7, <1>8, <1>9, <1>10
    DEF Discord!Next, discordVars, Discord!Connect, Discord!UserRejected, Discord!OpenFails

LEMMA LinkNextLinks == LinkInv /\ [Discord!Next]_discordVars => LinkLinks'
<1> SUFFICES ASSUME LinkInv, [Discord!Next]_discordVars PROVE LinkLinks'
    OBVIOUS
<1>0. LinkLinks
    BY DEF LinkInv
<1> USE <1>0, ChatLimits DEF Discord!LinkLimits
<1>1. ASSUME NEW who \in {"connect", "reconnect"}, Discord!ConnectGateway(who) PROVE LinkLinks'
    <2>1. PICK g \in Discord!Gateways :
              \/ link' = link
              \/ \E s \in Discord!Links :
                     link' = [link EXCEPT ![s] = [at |-> "opening", gateway |-> g, caller |-> who]]
        BY <1>1, ConnectGatewayDoes
    <2> QED
        BY <2>1 DEF LinkLinks, Discord!Gateways
<1>2. CASE Discord!UserChecked \/ Discord!Reconnect
    <2>1. UNCHANGED link => LinkLinks'
        BY DEF LinkLinks
    <2> QED
        BY <1>1, <1>2, <2>1 DEF Discord!UserChecked, Discord!Reconnect
<1>3. CASE Discord!Disconnect
    BY <1>3 DEF LinkLinks, Discord!Disconnect, Discord!NoLink
<1>4. ASSUME NEW s \in Discord!Links, NEW place \in {"open", "identifying", "resuming", "ready", "failed"},
             link[s].at # "none", link' = [link EXCEPT ![s].at = place]
      PROVE  LinkLinks'
    BY <1>4 DEF LinkLinks
<1>5. ASSUME NEW s \in Discord!Links,
             \/ Discord!Opened(s) \/ Discord!Hello(s) \/ Discord!Ready(s)
             \/ Discord!Resumed(s) \/ Discord!InvalidSession(s) \/ Discord!Errored(s)
      PROVE  LinkLinks'
    <2>1. /\ link[s].at # "none"
          /\ \E place \in {"open", "identifying", "resuming", "ready", "failed"} :
                 link' = [link EXCEPT ![s].at = place]
        BY <1>5 DEF Discord!Opened, Discord!Hello, Discord!Ready, Discord!Resumed,
            Discord!InvalidSession, Discord!Errored
    <2> QED
        BY <1>4, <2>1
<1>6. ASSUME NEW s \in Discord!Links, Discord!OpenFails(s) \/ Discord!Closed(s) PROVE LinkLinks'
    <2>1. link' = [link EXCEPT ![s] = Discord!NoLink]
        BY <1>6 DEF Discord!OpenFails, Discord!Closed
    <2> QED
        BY <2>1 DEF LinkLinks, Discord!NoLink
<1>7. CASE UNCHANGED link
    BY <1>7 DEF LinkLinks
<1> QED
    BY <1>2, <1>3, <1>5, <1>6, <1>7
    DEF Discord!Next, discordVars, Discord!Connect, Discord!UserRejected, Discord!Message

\* A disconnect that meets no call in flight, and nothing else, leaves raced as it was.
LEMMA NotRacedBefore ==
    ASSUME LinkInv, [Discord!Next]_discordVars, ~discordRaced' PROVE OneLink
<1>1. CASE Discord!Disconnect
    BY <1>1, Zenon DEF Discord!Disconnect, LinkInv
<1>2. CASE UNCHANGED discordRaced
    BY <1>2 DEF LinkInv
<1>3. ASSUME NEW s \in Discord!Links,
             \/ Discord!Opened(s) \/ Discord!OpenFails(s) \/ Discord!Hello(s) \/ Discord!Ready(s)
             \/ Discord!Resumed(s) \/ Discord!Message(s) \/ Discord!InvalidSession(s)
             \/ Discord!Errored(s) \/ Discord!Closed(s)
      PROVE  UNCHANGED discordRaced
    BY <1>3 DEF Discord!Opened, Discord!OpenFails, Discord!Hello, Discord!Ready, Discord!Resumed,
       Discord!Message, Discord!InvalidSession, Discord!Errored, Discord!Closed, Discord!Unheard
<1>4. CASE Discord!Connect \/ Discord!UserChecked \/ Discord!UserRejected \/ Discord!Reconnect
    BY <1>2, <1>4 DEF Discord!Connect, Discord!UserChecked, Discord!UserRejected, Discord!Reconnect
<1> QED
    BY <1>1, <1>2, <1>3, <1>4 DEF Discord!Next, discordVars

\* connect() goes on with a gateway, or a reconnect does.
LEMMA ConnectGatewayInv ==
    ASSUME LinkInv, OneLink, NEW who \in {"connect", "reconnect"}, Discord!ConnectGateway(who),
           \A s \in Discord!Links : Up(s) => link[s].at = "failed",
           calling' = 0, ~reconnectTimer', shouldRun', discordStatus' # "connected"
    PROVE  OneLink'
<1>1. PICK g \in Discord!Gateways :
          /\ gateway' = g /\ (gateway # 0 => g = gateway)
          /\ \A h \in Discord!Gateways :
                 /\ gateways'[h].socket = IF gateway = 0 /\ h = g THEN 0 ELSE gateways[h].socket
                 /\ gateways'[h].heartbeat => gateways[h].heartbeat /\ (gateway # 0 \/ h # g)
          /\ IF gateways'[g].socket # 0 THEN link' = link
             ELSE \E s \in Discord!Links :
                      /\ ~Up(s)
                      /\ link' = [link EXCEPT ![s] = [at |-> "opening", gateway |-> g, caller |-> who]]
    BY ConnectGatewayDoes
<1>2. LinkControl /\ LinkLinks
    BY DEF LinkInv
<1>3. gateway = 0 => \A s \in Discord!Links : ~Up(s)
    BY ChatLimits DEF OneLink, Discord!Gateways, Discord!LinkLimits
<1>4. \A h \in Discord!Gateways : gateways'[h].socket = gateways[h].socket
    BY <1>1 DEF OneLink, Discord!Gateways, ChatLimits, Discord!LinkLimits
<1>5. CASE gateways'[g].socket # 0
    <2>1. gateway = g /\ link' = link
        BY <1>1, <1>4, <1>5 DEF OneLink
    <2>2. Up(gateways[g].socket) /\ \A s \in Discord!Links : Up(s)' <=> Up(s)
        BY <1>4, <1>5, <2>1 DEF OneLink, Up
    <2>3. \A s \in Discord!Links : ~Up(s)' \/ (s = gateways[g].socket /\ link'[s].at = "failed")
        BY <2>1, <2>2 DEF OneLink, Up
    <2>4. \A h \in Discord!Gateways : gateways'[h].heartbeat => gateways[h].heartbeat
        BY <1>1
    <2>5. gateway' = gateway
        BY <1>1, <2>1
    <2>6. gateways[g].socket \in Discord!Links
        BY <1>4, <1>5, ChatLimits DEF LinkInv, LinkGateways, Discord!Links, Discord!LinkLimits
    <2> QED
        BY <1>1, <1>4, <2>1, <2>2, <2>3, <2>4, <2>5, <2>6 DEF OneLink, Up
<1>6. CASE gateways'[g].socket = 0
    <2>1. PICK s \in Discord!Links :
              ~Up(s) /\ link' = [link EXCEPT ![s] = [at |-> "opening", gateway |-> g, caller |-> who]]
        BY <1>1, <1>6
    <2>2. ASSUME NEW r \in Discord!Links, Up(r) PROVE FALSE
        <3>0. gateway \in Discord!Gateways /\ gateways[gateway].socket = r
            BY <2>2 DEF OneLink
        <3>1. gateway = g /\ gateways[g].socket = r /\ gateways[g].socket = 0
            BY <1>1, <1>4, <1>6, <3>0, ChatLimits DEF Discord!Gateways, Discord!LinkLimits
        <3> QED
            BY <3>1, ChatLimits DEF Discord!Links, Discord!LinkLimits
    <2>3. ASSUME NEW h \in Discord!Gateways PROVE gateways[h].socket = 0
        <3>1. gateways[h].socket # 0 => h = gateway
            BY DEF OneLink
        <3> QED
            BY <1>1, <1>4, <1>6, <3>1, ChatLimits DEF Discord!Gateways, Discord!LinkLimits
    <2>4. /\ link'[s].at = "opening" /\ link'[s].gateway = g
          /\ \A r \in Discord!Links : r # s => link'[r].at = "none"
        BY <1>2, <2>1, <2>2 DEF LinkLinks, Up
    <2> QED
        BY <1>1, <1>4, <2>3, <2>4 DEF OneLink, Up
<1> QED
    BY <1>5, <1>6

\* A link goes on to another place and keeps its gateway.
LEMMA LinkMovesInv ==
    ASSUME LinkInv, OneLink, NEW s \in Discord!Links, NEW place \in {"open", "identifying", "resuming", "ready"},
           Up(s), ~reconnectTimer, link' = [link EXCEPT ![s].at = place],
           UNCHANGED <<shouldRun, calling, gateway, reconnectTimer>>,
           \A g \in Discord!Gateways :
               /\ gateways'[g].socket = IF g = gateway THEN s ELSE gateways[g].socket
               /\ gateways'[g].heartbeat => gateways[g].heartbeat \/ g = gateway,
           discordStatus' = "connected" => place \in {"identifying", "ready"}
    PROVE  OneLink'
<1>1. /\ link'[s].at = place /\ link'[s].gateway = link[s].gateway
      /\ \A r \in Discord!Links : r # s => link'[r] = link[r] /\ link[r].at = "none"
    BY DEF LinkInv, LinkLinks, OneLink, Up
<1>2. s # 0
    BY DEF Discord!Links
<1> QED
    BY <1>1, <1>2 DEF OneLink, Up

LEMMA LinkNextOneLink ==
    ASSUME LinkInv, [Discord!Next]_discordVars, ~discordRaced' PROVE OneLink'
<1>0. OneLink /\ LinkFlags /\ LinkControl /\ LinkGateways /\ LinkLinks
    BY NotRacedBefore DEF LinkInv
<1> USE <1>0
<1>1. CASE Discord!Connect
    BY <1>1 DEF Discord!Connect, OneLink, Up, LinkControl
<1>2. CASE Discord!UserChecked
    <2>1. calling = 1 /\ calling' = 0 /\ ~reconnectTimer /\ shouldRun /\ \A s \in Discord!Links : ~Up(s)
        BY <1>2 DEF Discord!UserChecked, OneLink
    <2>2. discordStatus # "connected"
        BY <2>1 DEF OneLink, Up
    <2> QED
        BY <1>2, <2>1, <2>2, ConnectGatewayInv DEF Discord!UserChecked
<1>3. CASE Discord!UserRejected
    <2>1. calling' = 0 /\ ~reconnectTimer /\ \A s \in Discord!Links : ~Up(s)
        BY <1>3 DEF Discord!UserRejected, OneLink
    <2>2. ~shouldRun' /\ discordStatus' = "error" /\ UNCHANGED <<gateway, gateways, link, reconnectTimer>>
        BY <1>3 DEF Discord!UserRejected, Discord!ConnectRejects
    <2> QED
        BY <2>1, <2>2 DEF OneLink, Up
<1>4. CASE Discord!Disconnect
    <2>1. ~(calling > 0) /\ ~\E s \in Discord!Live : link[s].at = "opening"
        BY <1>4, Zenon DEF Discord!Disconnect
    <2>2. calling = 0 /\ calling' = 0 /\ \A s \in Discord!Links : Up(s) => gateways[gateway].socket = s
        BY <1>4, <2>1 DEF Discord!Disconnect, Discord!Live, OneLink, Up
    <2>3. \A s \in Discord!Links : link'[s].at = "none"
        <3>1. ASSUME NEW s \in Discord!Links PROVE link'[s].at = "none"
            <4>1. link'[s] = IF gateway # 0 /\ gateways[gateway].socket = s THEN Discord!NoLink ELSE link[s]
                BY <1>4 DEF Discord!Disconnect
            <4>2. Up(s) => gateway # 0 /\ gateways[gateway].socket = s
                BY <2>2, ChatLimits DEF OneLink, Discord!Gateways, Discord!LinkLimits
            <4> QED
                BY <4>1, <4>2 DEF Up, Discord!NoLink
        <3> QED
            BY <3>1
    <2>4. \A g \in Discord!Gateways : gateways'[g].socket = 0 /\ ~gateways'[g].heartbeat
        <3>1. ASSUME NEW g \in Discord!Gateways PROVE gateways'[g].socket = 0 /\ ~gateways'[g].heartbeat
            <4>1. gateways'[g] = IF g = gateway /\ gateways[g].socket # 0 THEN Discord!NewGateway ELSE gateways[g]
                BY <1>4 DEF Discord!Disconnect
            <4> QED
                BY <4>1 DEF OneLink, Discord!NewGateway
        <3> QED
            BY <3>1
    <2>5. ~shouldRun' /\ ~reconnectTimer' /\ discordStatus' = "disconnected"
        BY <1>4 DEF Discord!Disconnect
    <2> QED
        BY <2>2, <2>3, <2>4, <2>5 DEF OneLink, Up
<1>5. CASE Discord!Reconnect
    <2>1. /\ reconnectTimer /\ ~reconnectTimer' /\ shouldRun /\ calling = 0
          /\ UNCHANGED <<shouldRun, calling, discordStatus>> /\ Discord!ConnectGateway("reconnect")
        BY <1>5 DEF Discord!Reconnect, OneLink
    <2>2. \A s \in Discord!Links : Up(s) => link[s].at = "failed"
        BY <2>1 DEF OneLink
    <2>3. discordStatus # "connected"
        BY <2>2 DEF OneLink, Up
    <2> QED
        BY <2>1, <2>2, <2>3, ConnectGatewayInv
<1>6. ASSUME NEW s \in Discord!Links, Discord!Opened(s) PROVE OneLink'
    <2>1. Up(s) /\ ~reconnectTimer /\ link[s].gateway = gateway /\ gateway \in Discord!Gateways
        BY <1>6 DEF Discord!Opened, OneLink, Up
    <2>2. \A g \in Discord!Gateways :
              /\ gateways'[g].socket = IF g = gateway THEN s ELSE gateways[g].socket
              /\ gateways'[g].heartbeat => gateways[g].heartbeat \/ g = gateway
        BY <1>6, <2>1 DEF Discord!Opened, LinkGateways
    <2>3. discordStatus # "connected"
        BY <1>6 DEF Discord!Opened, OneLink, Up
    <2> QED
        BY <1>6, <2>1, <2>2, <2>3, LinkMovesInv DEF Discord!Opened
<1>7. ASSUME NEW s \in Discord!Links, link[s].at \in {"open", "identifying", "resuming", "ready"}
      PROVE  /\ Up(s) /\ ~reconnectTimer /\ link[s].gateway = gateway /\ gateway \in Discord!Gateways
             /\ gateways[gateway].socket = s /\ shouldRun
             /\ (discordStatus = "connected" => link[s].at \in {"identifying", "ready"})
    BY <1>7 DEF OneLink, Up
<1>8. ASSUME NEW s \in Discord!Links, Discord!OpenFails(s) PROVE OneLink'
    <2>1. /\ Up(s) /\ ~reconnectTimer /\ shouldRun /\ calling = 0
          /\ \A r \in Discord!Links : r # s => ~Up(r)
        BY <1>8 DEF Discord!OpenFails, OneLink, Up
    <2>2. \A r \in Discord!Links : link'[r].at = "none"
        BY <1>8, <2>1 DEF Discord!OpenFails, Discord!NoLink, LinkLinks, Up
    <2>3. ASSUME NEW g \in Discord!Gateways, gateways[g].socket # 0 PROVE FALSE
        <3>1. Up(gateways[g].socket) /\ link[gateways[g].socket].at # "opening"
            BY <2>3 DEF OneLink
        <3>2. gateways[g].socket \in Discord!Links
            BY <2>3, ChatLimits DEF LinkGateways, Discord!Links, Discord!LinkLimits
        <3> QED
            BY <1>8, <2>1, <3>1, <3>2 DEF Discord!OpenFails
    <2>4. /\ UNCHANGED <<gateways, calling>> /\ discordStatus' # "connected"
          /\ (shouldRun' <=> reconnectTimer')
        BY <1>8, <2>1 DEF Discord!OpenFails, Discord!ConnectRejects, Discord!ScheduleReconnect
    <2> QED
        BY <2>1, <2>2, <2>3, <2>4 DEF OneLink, Up
<1>9. ASSUME NEW s \in Discord!Links,
             Discord!Hello(s) \/ Discord!Ready(s) \/ Discord!Resumed(s) \/ Discord!InvalidSession(s)
      PROVE  OneLink'
    <2>1. /\ link[s].at \in {"open", "identifying", "resuming", "ready"}
          /\ UNCHANGED <<shouldRun, calling, gateway, reconnectTimer>>
        BY <1>9 DEF Discord!Hello, Discord!Ready, Discord!Resumed, Discord!InvalidSession, Discord!Unheard
    <2>2. \A g \in Discord!Gateways :
              /\ gateways'[g].socket = gateways[g].socket
              /\ gateways'[g].heartbeat => gateways[g].heartbeat \/ g = gateway
        BY <1>7, <1>9, <2>1 DEF Discord!Hello, Discord!Ready, Discord!Resumed,
            Discord!InvalidSession, Discord!Sequenced, LinkGateways
    <2>3. \E place \in {"open", "identifying", "resuming", "ready"} :
              /\ link' = [link EXCEPT ![s].at = place]
              /\ discordStatus' = "connected" => place \in {"identifying", "ready"}
        <3>1. CASE Discord!Hello(s)
            BY <1>7, <2>1, <3>1 DEF Discord!Hello
        <3>2. CASE Discord!Ready(s) \/ Discord!InvalidSession(s)
            BY <3>2 DEF Discord!Ready, Discord!InvalidSession
        <3>3. CASE Discord!Resumed(s)
            BY <3>3 DEF Discord!Resumed
        <3> QED
            BY <1>9, <3>1, <3>2, <3>3
    <2> QED
        BY <1>7, <2>1, <2>2, <2>3, LinkMovesInv
<1>10. ASSUME NEW s \in Discord!Links, Discord!Message(s) PROVE OneLink'
    <2>1. /\ UNCHANGED <<shouldRun, calling, gateway, reconnectTimer, link, discordStatus>>
          /\ link[s].at = "ready"
        BY <1>10 DEF Discord!Message, Discord!Unheard
    <2>2. \A g \in Discord!Gateways :
              gateways'[g].socket = gateways[g].socket /\ (gateways'[g].heartbeat => gateways[g].heartbeat)
        BY <1>7, <1>10, <2>1 DEF Discord!Message, Discord!Sequenced, LinkGateways
    <2> QED
        BY <2>1, <2>2 DEF OneLink, Up
<1>11. ASSUME NEW s \in Discord!Links, link[s].at \in {"open", "identifying", "resuming", "ready", "failed"}
       PROVE  /\ Up(s) /\ link[s].gateway = gateway /\ gateway \in Discord!Gateways
              /\ gateways[gateway].socket = s /\ shouldRun /\ calling = 0
              /\ \A r \in Discord!Links : r # s => ~Up(r)
              /\ \A g \in Discord!Gateways \ {gateway} : gateways[g].socket = 0
    BY <1>11 DEF OneLink, Up
<1>12. ASSUME NEW s \in Discord!Links, Discord!Errored(s) PROVE OneLink'
    <2>1. Discord!Lost(gateway) /\ link[s].gateway = gateway /\ shouldRun /\ gateway \in Discord!Gateways
        BY <1>11, <1>12 DEF Discord!Errored
    <2>2. discordStatus' = "reconnecting" /\ reconnectTimer'
        BY <2>1 DEF Discord!Lost, Discord!ScheduleReconnect
    <2>3. \A g \in Discord!Gateways :
              gateways'[g].socket = gateways[g].socket /\ (gateways'[g].heartbeat => gateways[g].heartbeat)
        BY <1>12, <2>1 DEF Discord!Errored, LinkGateways
    <2>4. /\ link'[s].at = "failed" /\ link'[s].gateway = link[s].gateway
          /\ \A r \in Discord!Links : r # s => link'[r] = link[r]
        BY <1>12 DEF Discord!Errored, LinkLinks
    <2>5. UNCHANGED <<shouldRun, calling, gateway>>
        BY <1>12 DEF Discord!Errored
    <2>6. link[s].at \in {"open", "identifying", "resuming", "ready", "failed"}
        BY <1>12 DEF Discord!Errored
    <2> QED
        BY <1>11, <2>1, <2>2, <2>3, <2>4, <2>5, <2>6 DEF OneLink, Up
<1>13. ASSUME NEW s \in Discord!Links, Discord!Closed(s) PROVE OneLink'
    <2>0. link[s].at \in {"open", "identifying", "resuming", "ready", "failed"}
        BY <1>13 DEF Discord!Closed
    <2>1. Discord!Lost(gateway) /\ link[s].gateway = gateway /\ shouldRun /\ gateway \in Discord!Gateways
        BY <1>11, <1>13, <2>0 DEF Discord!Closed
    <2>2. discordStatus' = "reconnecting" /\ reconnectTimer'
        BY <2>1 DEF Discord!Lost, Discord!ScheduleReconnect
    <2>3. \A g \in Discord!Gateways :
              /\ gateways'[g].socket = IF g = gateway THEN 0 ELSE gateways[g].socket
              /\ gateways'[g].heartbeat => gateways[g].heartbeat /\ g # gateway
        BY <1>13, <2>1 DEF Discord!Closed, LinkGateways
    <2>4. \A r \in Discord!Links : link'[r].at = IF r = s THEN "none" ELSE link[r].at
        BY <1>13 DEF Discord!Closed, LinkLinks, Discord!NoLink
    <2>5. UNCHANGED <<shouldRun, calling, gateway>>
        BY <1>13 DEF Discord!Closed
    <2>6. \A r \in Discord!Links : ~Up(r)'
        BY <1>11, <2>0, <2>4 DEF Up
    <2>7. \A g \in Discord!Gateways : gateways'[g].socket = 0
        BY <1>11, <2>0, <2>3
    <2> QED
        BY <1>11, <2>0, <2>1, <2>2, <2>3, <2>5, <2>6, <2>7 DEF OneLink, Up
<1>14. CASE UNCHANGED discordVars
    BY <1>14 DEF discordVars, OneLink, Up
<1> QED
    BY <1>1, <1>2, <1>3, <1>4, <1>5, <1>6, <1>8, <1>9, <1>10, <1>12, <1>13, <1>14 DEF Discord!Next

LEMMA LinkNextInv == LinkInv /\ [Discord!Next]_discordVars => LinkInv'
BY LinkNextFlags, LinkNextControl, LinkNextGateways, LinkNextLinks, LinkNextOneLink DEF LinkInv

LEMMA LinkInvHeld == LinkInv => Discord!LinkHeld
<1> SUFFICES ASSUME LinkInv, ~discordRaced
             PROVE  /\ Cardinality(Discord!Live) <= 1
                    /\ \A s \in Discord!Live :
                           link[s].gateway = gateway
                           /\ (link[s].at = "opening" \/ gateways[gateway].socket = s)
                    /\ shouldRun <=> (calling > 0 \/ Discord!Live # {} \/ reconnectTimer)
                    /\ \A g \in Discord!Gateways : gateways[g].heartbeat => gateways[g].socket # 0
                    /\ discordStatus = "connected" =>
                           \E s \in Discord!Live : link[s].at \in {"identifying", "ready"}
    BY SameCardinality DEF Discord!LinkHeld
<1>0. OneLink
    BY DEF LinkInv
<1>1. Discord!Live = {} \/ \E s \in Discord!Links : Discord!Live = {s}
    BY <1>0 DEF OneLink, Up, Discord!Live
<1>2. Cardinality(Discord!Live) <= 1
    <2>1. \A s \in Discord!Links : Cardinality({s}) = 1
        BY FS_Singleton
    <2>2. Cardinality({}) = 0
        BY FS_EmptySet
    <2>3. Cardinality(Discord!Live) \in {0, 1}
        BY <1>1, <2>1, <2>2
    <2> QED
        BY <2>3
<1>3. shouldRun <=> (calling > 0 \/ Discord!Live # {} \/ reconnectTimer)
    BY <1>0 DEF OneLink, Up, Discord!Live
<1> QED
    BY <1>0, <1>2, <1>3 DEF OneLink, Up, Discord!Live

-----------------------------------------------------------------------------
(* The whole *)

\* A step of the whole is one of the part that runs.
LEMMA PartSteps ==
    ASSUME [ChatNext]_allVars
    PROVE  /\ part' = part
           /\ part = "turns" => [Next]_vars
           /\ part = "watch" => [Watch!Next]_watchVars
           /\ part = "channels" => [Channels!Next]_channelVars
           /\ part = "telegram" => [Telegram!Next]_pollVars
           /\ part = "discord" => [Discord!Next]_discordVars
    BY DEF ChatNext, allVars, TurnsOnly, WatchOnly, ChannelsOnly, TelegramOnly, DiscordOnly

\* Every subscription the registry publishes to is one that the close of its
\* connection finds, and an execution that lost its last follower to a disconnect is
\* aborted, for any number of connections and answers.
THEOREM WatchersHeldAlways == ChatSpec => []WatchersHeld
<1> DEFINE Inv == part = "watch" => Watch!TypeOK /\ WatchInv
<1>1. ChatInit => Inv
    BY WatchInitType, WatchInitInv DEF ChatInit
<1>2. Inv /\ [ChatNext]_allVars => Inv'
    BY PartSteps, WatchNextType, WatchNextInv
<1>3. Inv => WatchersHeld
    BY DEF WatchInv, WatchersHeld
<1> QED
    BY <1>1, <1>2, <1>3, PTL DEF ChatSpec

\* A channel answers only while it is the registered one, Telegram is polled by one loop
\* that handles each update once and confirms it after that, and Discord has one link,
\* for any number of calls, updates, links and gateways; each as long as its own kind of
\* overlap has not happened.
THEOREM ChannelsServeHolds == ChatSpec => []ChannelsServe
<1> DEFINE Inv == /\ part = "channels" => Channels!TypeOK /\ ChannelsInv
                  /\ part = "telegram" => PollInv
                  /\ part = "discord" => LinkInv
<1>1. ChatInit => Inv
    BY ChannelsInitInv, PollInitInv, LinkInitInv DEF ChatInit
<1>2. Inv /\ [ChatNext]_allVars => Inv'
    BY PartSteps, ChannelsNextType, ChannelsNextInv, PollNextInv, LinkNextInv
<1>3. Inv => ChannelsServe
    BY ChannelsInvGhost, PollInvOnce, LinkInvHeld DEF ChannelsServe
<1> QED
    BY <1>1, <1>2, <1>3, PTL DEF ChatSpec

LEMMA PostsAlways == ChatSpec => [](part = "turns" => PostsInv)
<1> DEFINE Inv == part = "turns" => PostsInv
<1>1. ChatInit => Inv
    BY PostsInitInv DEF ChatInit
<1>2. Inv /\ [ChatNext]_allVars => Inv'
    BY PartSteps, PostsNextInv
<1> QED
    BY <1>1, <1>2, PTL DEF ChatSpec

\* While another part runs, the conversation stays as it began.
LEMMA PostsIdle == ChatSpec => [](part # "turns" => Init)
<1> DEFINE Inv == part # "turns" => Init
<1>1. ChatInit => Inv
    BY DEF ChatInit
<1>2. Inv /\ [ChatNext]_allVars => Inv'
    BY DEF ChatNext, allVars, TurnsOnly, WatchOnly, ChannelsOnly, TelegramOnly, DiscordOnly, vars,
       sessionVars, Init
<1> QED
    BY <1>1, <1>2, PTL DEF ChatSpec

\* As long as no save has replaced a row other than the one it was computed from, a
\* message whose save succeeded stays until it is folded or deleted, for any number of
\* turns, ticks and restarts.
THEOREM OnlyOverlapLosesHolds == ChatSpec => []OnlyOverlapLoses
<1>1. (part = "turns" => PostsInv) /\ (part # "turns" => Init) => OnlyOverlapLoses
    BY PostsInitInv DEF PostsInv
<1> QED
    BY <1>1, PostsAlways, PostsIdle, PTL

\* message_complete is published only for an answer that is in the row as complete,
\* and a turn has one terminal event.
THEOREM AnnouncedIsStoredHolds == ChatSpec => []AnnouncedIsStored
<1>1. PostsInv => AnnouncedIsStored
    <2> SUFFICES ASSUME PostsInv, NEW t \in Turns
                 PROVE  /\ Cardinality(events[t]) <= 1
                        /\ "complete" \in events[t] /\ ~overlap /\ ~deleted /\ Reply(t) \notin folded
                           => \E m \in row.messages : Id(m) = Reply(t) /\ m.status = "complete"
        BY DEF AnnouncedIsStored
    <2>1. events[t] \in {{}, {"complete"}, {"error"}}
        BY DEF PostsInv, EventsOnce
    <2>2. Cardinality(events[t]) <= 1
        <3>1. Cardinality({}) = 0 /\ Cardinality({"complete"}) = 1 /\ Cardinality({"error"}) = 1
            BY FS_EmptySet, FS_Singleton, Zenon
        <3> QED
            BY <2>1, <3>1
    <2> QED
        BY <2>2 DEF PostsInv, RepliesStored, Replied
<1>2. (part = "turns" => PostsInv) /\ (part # "turns" => Init) => AnnouncedIsStored
    BY <1>1, PostsInitInv
<1> QED
    BY <1>2, PostsAlways, PostsIdle, PTL

\* Every variable of the part that runs keeps to its type.
THEOREM ChatTypes == ChatSpec => []ChatTypeOK
<1> DEFINE Inv == /\ part = "watch" => Watch!TypeOK
                  /\ part = "channels" => Channels!TypeOK
                  /\ part = "telegram" => PollInv
                  /\ part = "discord" => LinkInv
<1>1. ChatInit => Inv
    BY WatchInitType, ChannelsInitInv, PollInitInv, LinkInitInv DEF ChatInit
<1>2. Inv /\ [ChatNext]_allVars => Inv'
    BY PartSteps, WatchNextType, ChannelsNextType, PollNextInv, LinkNextInv
<1>3. Inv /\ (part = "turns" => PostsInv) => ChatTypeOK
    BY PollTypes, LinkTypes DEF PollInv, LinkInv, PostsInv, ChatTypeOK
<1> QED
    BY <1>1, <1>2, <1>3, PostsAlways, PTL DEF ChatSpec

\* The session is marked as compacting only while a compaction of this process is
\* under way, whichever of its steps fails, unless a crash or a failure of the restoring
\* update left the mark, or a call that had read it wrote it back.
THEOREM CompactionEndsHolds == ChatSpec => []CompactionEnds
<1>1. (part = "turns" => PostsInv) /\ (part # "turns" => Init) => CompactionEnds
    BY PostsInitInv DEF PostsInv
<1> QED
    BY <1>1, PostsAlways, PostsIdle, PTL
=============================================================================
