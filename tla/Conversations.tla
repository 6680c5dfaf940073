----------------------------- MODULE Conversations -----------------------------
(***************************************************************************)
(* One conversation of the daemon: POST /api/messages, the provider        *)
(* execution each accepted post schedules, and DELETE, over                *)
(* ConversationManager and the SQLite store.                               *)
(*                                                                         *)
(* Every manager operation is a load, an edit of the loaded object and a   *)
(* save that replaces the whole row; the store itself is synchronous, and  *)
(* anything may run at an await between the two.  So is every call about   *)
(* the main session, whose file is read, and written back as it was read,  *)
(* before a change of it is written.                                       *)
(***************************************************************************)
EXTENDS Naturals, FiniteSets

CONSTANTS
    Turns,       \* the posts of the client
    KeepRecent,  \* CompactionConfig.keepRecentMessages
    UuidOrder,   \* the order of the random message ids, used to break ties
    MaxClock,    \* bound: milliseconds the clock advances
    MaxRestarts  \* bound: processes started after the first

Roles == {"system", "user", "assistant", "summary"}
MessageIds == Turns \X Roles

ASSUME ConversationConstants ==
    /\ KeepRecent \in Nat \ {0} /\ MaxClock \in Nat /\ MaxRestarts \in Nat
    /\ UuidOrder \in [MessageIds -> Nat]
    /\ \A a, b \in MessageIds : UuidOrder[a] = UuidOrder[b] => a = b

VARIABLES
    row,       \* the conversation in SQLite: does it exist, and its messages
    session,   \* status of the main session in sessions.json
    io,        \* how far a turn's call of the session repository is
    seen,      \* the status that call has read
    leftover,  \* history: the mark was put back, not taken off, or met a crash
    clock,     \* Date.now()
    up,        \* "serving", "stopped" (no conversation manager) or "down"
    restarts,  \* processes started after the first
    at,        \* where each turn's code is
    stage,     \* role of the message sendMessage is adding
    held,      \* messages of the conversation object a turn has in hand
    base,      \* the row as it was when that object was loaded
    active,    \* keys of DaemonHttpServer.activeExecutions
    events,    \* terminal stream events published for each turn
    saved,     \* ids of messages whose save has succeeded
    folded,    \* ids of messages replaced by a summary
    overlap,   \* some save replaced a row other than the one it was computed from
    deleted    \* the conversation was deleted

sessionVars == <<session, io, seen, leftover>>
turnVars == <<at, stage, held, base>>
rowVars == <<row, saved, overlap>>
processVars == <<up, restarts, clock>>
vars == <<row, sessionVars, clock, up, restarts, at, stage, held, base, active,
          events, saved, folded, overlap, deleted>>

Places ==
    {"idle", "checked", "adding", "saving", "gate", "compacting", "summarised",
     "finalizing", "restoring", "scheduled", "running", "completing", "announcing",
     "failing", "recording", "ending", "done", "rejected", "gone"}
Messages ==
    [turn : Turns, role : Roles, status : {"plain", "pending", "complete", "error"},
     stamp : 0..MaxClock]
Rows == [exists : BOOLEAN, messages : SUBSET Messages]

NoRow == [exists |-> FALSE, messages |-> {}]

Id(m) == <<m.turn, m.role>>
Ids(ms) == {Id(m) : m \in ms}
Reply(t) == <<t, "assistant">>

Init ==
    /\ row = [exists |-> TRUE, messages |-> {}]
    /\ session = "active" /\ leftover = FALSE
    /\ io = [t \in Turns |-> "none"] /\ seen = [t \in Turns |-> "active"]
    /\ clock = 0 /\ up = "serving" /\ restarts = 0
    /\ at = [t \in Turns |-> "idle"]
    /\ stage = [t \in Turns |-> "user"]
    /\ held = [t \in Turns |-> {}]
    /\ base = [t \in Turns |-> NoRow]
    /\ active = {}
    /\ events = [t \in Turns |-> {}]
    /\ saved = {} /\ folded = {} /\ overlap = FALSE /\ deleted = FALSE

Go(t, place) == at' = [at EXCEPT ![t] = place]

-----------------------------------------------------------------------------
(* The store. *)

\* SQLiteConversationStore.save: upserts the conversation and replaces all of
\* its messages; a closed database makes it fail.
Save(t) ==
    /\ row' = [exists |-> TRUE, messages |-> held[t]]
    /\ saved' = saved \cup Ids(held[t])
    /\ overlap' = (overlap \/ row # base[t])

\* The manager's load, and the edit made to the loaded object.
Hold(t, messages) ==
    /\ held' = [held EXCEPT ![t] = messages]
    /\ base' = [base EXCEPT ![t] = row]

\* The object is out of use.
Drop(t) ==
    /\ held' = [held EXCEPT ![t] = {}]
    /\ base' = [base EXCEPT ![t] = NoRow]

\* ORDER BY created_at ASC, id ASC.
Before(a, b) ==
    \/ a.stamp < b.stamp
    \/ a.stamp = b.stamp /\ UuidOrder[Id(a)] < UuidOrder[Id(b)]

-----------------------------------------------------------------------------
(* sendMessage, called by handlePostMessage. *)

\* Mutant: createdAt is taken a tick ahead.
NewMessageAhead(t, role) ==
    [turn |-> t, role |-> role, stamp |-> clock + 1,
     status |-> IF role = "assistant" THEN "pending" ELSE "plain"]

NewMessage(t, role) ==
    [turn |-> t, role |-> role, stamp |-> clock,
     status |-> IF role = "assistant" THEN "pending" ELSE "plain"]

\* The check that the conversation exists; a new prompt is then read from disk.
Post(t) ==
    /\ at[t] = "idle" /\ up = "serving"
    /\ Go(t, IF row.exists THEN "checked" ELSE "rejected")
    /\ UNCHANGED <<sessionVars, stage, held, base, active, events, folded, deleted>>
    /\ UNCHANGED <<rowVars, processVars>>

\* syncEnvironmentSystemPrompt: the prompt changed, or it did not.
PromptRead(t) ==
    /\ at[t] = "checked"
    /\ \E role \in {"system", "user"} : stage' = [stage EXCEPT ![t] = role]
    /\ Go(t, "adding")
    /\ UNCHANGED <<sessionVars, held, base, active, events, folded, deleted>>
    /\ UNCHANGED <<rowVars, processVars>>

\* Mutant: the message is pushed to an empty list instead of the loaded one.
AddLoadsFresh(t) ==
    /\ at[t] = "adding"
    /\ \/ /\ up = "serving" /\ row.exists
          /\ Hold(t, {NewMessage(t, stage[t])})
          /\ Go(t, "saving")
       \/ /\ ~(up = "serving" /\ row.exists)
          /\ Go(t, "rejected")
          /\ UNCHANGED <<held, base>>
    /\ UNCHANGED <<sessionVars, stage, active, events, folded, deleted>>
    /\ UNCHANGED <<rowVars, processVars>>

\* addMessage up to its save.
AddLoads(t) ==
    /\ at[t] = "adding"
    /\ \/ /\ up = "serving" /\ row.exists
          /\ Hold(t, row.messages \cup {NewMessage(t, stage[t])})
          /\ Go(t, "saving")
       \/ /\ ~(up = "serving" /\ row.exists)
          /\ Go(t, "rejected")
          /\ UNCHANGED <<held, base>>
    /\ UNCHANGED <<sessionVars, stage, active, events, folded, deleted>>
    /\ UNCHANGED <<rowVars, processVars>>

AddSaves(t) ==
    /\ at[t] = "saving"
    /\ \/ up = "serving" /\ Save(t) /\ Go(t, "gate") /\ UNCHANGED <<held, base>>
       \/ up # "serving" /\ Go(t, "rejected") /\ Drop(t) /\ UNCHANGED rowVars
    /\ UNCHANGED <<sessionVars, stage, active, events, folded, deleted>>
    /\ UNCHANGED processVars

\* addMessage returned: sendMessage goes on, or the post is answered with 201.
Added(t) ==
    CASE stage[t] = "system" ->
           Go(t, "adding") /\ stage' = [stage EXCEPT ![t] = "user"]
      [] stage[t] = "user" ->
           Go(t, "adding") /\ stage' = [stage EXCEPT ![t] = "assistant"]
      [] OTHER -> Go(t, "scheduled") /\ UNCHANGED stage

-----------------------------------------------------------------------------
(* Compaction, at the end of addMessage. *)

\* The messages kept: the last ones of the object in hand, whose last one is new.
Recent(t) ==
    LET new == CHOOSE m \in held[t] : Id(m) = <<t, stage[t]>>
        After(a, b) == b # new /\ (a = new \/ Before(b, a))
    IN {m \in held[t] : Cardinality({n \in held[t] : After(n, m)}) < KeepRecent}

\* Every call of the session repository begins with loadState: the file is read,
\* and written back.
UsesSession == {"gate", "compacting", "finalizing", "restoring"}
SessionRead(t) ==
    /\ at[t] \in UsesSession /\ io[t] = "none"
    /\ io' = [io EXCEPT ![t] = "read"] /\ seen' = [seen EXCEPT ![t] = session]
    /\ UNCHANGED <<session, leftover, turnVars, active, events, folded, deleted>>
    /\ UNCHANGED <<rowVars, processVars>>

WritesBack(t) ==
    /\ io[t] = "read" /\ session' = seen[t]
    /\ leftover' = (leftover \/ (seen[t] = "compacting" /\ session = "active"))
SessionWrittenBack(t) ==
    /\ at[t] \in UsesSession \ {"gate"} /\ WritesBack(t)
    /\ io' = [io EXCEPT ![t] = "loaded"]
    /\ UNCHANGED <<seen, turnVars, active, events, folded, deleted>>
    /\ UNCHANGED <<rowVars, processVars>>

\* The call is over.
Leaves(t) == io' = [io EXCEPT ![t] = "none"] /\ seen' = [seen EXCEPT ![t] = "active"]

\* update: the file is written a second time, with the status.
Updates(t, status) ==
    /\ io[t] = "loaded" /\ Leaves(t)
    /\ session' = status /\ UNCHANGED leftover

\* The file cannot be read or written: addMessage throws.  After a summary the
\* finally block tries to restore the session first; that failure is ignored.
SessionFails(t) ==
    /\ at[t] \in UsesSession /\ Leaves(t) /\ UNCHANGED session
    /\ leftover' = (leftover \/ at[t] = "restoring")
    /\ Go(t, IF at[t] = "finalizing" THEN "restoring" ELSE "rejected") /\ Drop(t)
    /\ UNCHANGED <<stage, active, events, folded, deleted>>
    /\ UNCHANGED <<rowVars, processVars>>

\* getMain returns; whether the tokens reach the threshold is not modelled.
Gate(t) ==
    /\ at[t] = "gate" /\ WritesBack(t) /\ Leaves(t)
    /\ \/ Added(t) /\ Drop(t)
       \/ /\ seen[t] = "active" /\ Cardinality(held[t]) > KeepRecent
          /\ Go(t, "compacting") /\ UNCHANGED <<stage, held, base>>
    /\ UNCHANGED <<active, events, folded, deleted>>
    /\ UNCHANGED <<rowVars, processVars>>

\* The session is marked; memories, transcript and summary follow.
CompactBegins(t) ==
    /\ at[t] = "compacting" /\ Updates(t, "compacting")
    /\ Go(t, "summarised")
    /\ UNCHANGED <<stage, held, base, active, events, folded, deleted>>
    /\ UNCHANGED <<rowVars, processVars>>

\* The conversation in hand, cut short, is saved over the row; or a step failed.
CompactSaves(t) ==
    /\ at[t] = "summarised"
    /\ \/ /\ up = "serving"
          /\ row' = [exists |-> TRUE, messages |->
                Recent(t) \cup {[turn |-> t, role |-> "summary", status |-> "plain", stamp |-> clock]}]
          /\ overlap' = (overlap \/ row.messages # held[t])
          /\ folded' = folded \cup (Ids(held[t]) \ Ids(Recent(t)))
          /\ Go(t, "finalizing")
       \/ Go(t, "restoring") /\ UNCHANGED <<row, overlap, folded>>
    /\ Drop(t)
    /\ UNCHANGED <<sessionVars, stage, active, events, saved, deleted>>
    /\ UNCHANGED processVars

\* Mutant: a compaction that fails leaves the session as it is.
CompactEndsOnSuccess(t) ==
    /\ \/ at[t] = "finalizing" /\ Updates(t, "active") /\ Added(t)
       \/ /\ at[t] = "restoring" /\ io[t] = "loaded" /\ Go(t, "rejected") /\ Leaves(t)
          /\ UNCHANGED <<stage, session, leftover>>
    /\ UNCHANGED <<held, base, active, events, folded, deleted>>
    /\ UNCHANGED <<rowVars, processVars>>

\* The session goes back to active, in the last update or in the finally block.
CompactEnds(t) ==
    /\ Updates(t, "active")
    /\ \/ at[t] = "finalizing" /\ Added(t)
       \/ at[t] = "restoring" /\ Go(t, "rejected") /\ UNCHANGED stage
    /\ UNCHANGED <<held, base, active, events, folded, deleted>>
    /\ UNCHANGED <<rowVars, processVars>>

-----------------------------------------------------------------------------
(* The scheduled execution. *)

\* The subscription window is over: the execution registers and loads.
Register(t) ==
    /\ at[t] = "scheduled"
    /\ \/ up = "serving" /\ active' = active \cup {t}
          /\ Go(t, IF row.exists THEN "running" ELSE "failing")
       \/ up # "serving" /\ Go(t, "done") /\ UNCHANGED active
    /\ UNCHANGED <<sessionVars, stage, held, base, events, folded, deleted>>
    /\ UNCHANGED <<rowVars, processVars>>

WithReply(t, status) ==
    {IF Id(m) = Reply(t) THEN [m EXCEPT !.status = status] ELSE m : m \in row.messages}
HasReply(t) == up = "serving" /\ row.exists /\ Reply(t) \in Ids(row.messages)

\* generateAndStream returned: completeAssistantMessage loads the conversation
\* again and throws when the placeholder is not in it.
Generated(t) ==
    /\ at[t] = "running"
    /\ \/ HasReply(t) /\ Hold(t, WithReply(t, "complete")) /\ Go(t, "completing")
       \/ ~HasReply(t) /\ Go(t, "failing") /\ UNCHANGED <<held, base>>
    /\ UNCHANGED <<sessionVars, stage, active, events, folded, deleted>>
    /\ UNCHANGED <<rowVars, processVars>>

\* The provider is not ready, has no route, or its stream throws.
GenerationFails(t) ==
    /\ at[t] = "running"
    /\ Go(t, "failing")
    /\ UNCHANGED <<sessionVars, stage, held, base, active, events, folded, deleted>>
    /\ UNCHANGED <<rowVars, processVars>>

\* Mutant: a failed save is not noticed.
CompleteSavesUnchecked(t) ==
    /\ at[t] = "completing"
    /\ \/ up = "serving" /\ Save(t)
       \/ up # "serving" /\ UNCHANGED rowVars
    /\ Go(t, "announcing") /\ Drop(t)
    /\ UNCHANGED <<sessionVars, stage, active, events, folded, deleted>>
    /\ UNCHANGED processVars

CompleteSaves(t) ==
    /\ at[t] = "completing"
    /\ \/ up = "serving" /\ Save(t) /\ Go(t, "announcing")
       \/ up # "serving" /\ Go(t, "failing") /\ UNCHANGED rowVars
    /\ Drop(t)
    /\ UNCHANGED <<sessionVars, stage, active, events, folded, deleted>>
    /\ UNCHANGED processVars

\* publishStreamLifecycleEvent(message_complete), then the channel is told.
Announce(t) ==
    /\ at[t] = "announcing"
    /\ events' = [events EXCEPT ![t] = @ \cup {"complete"}]
    /\ Go(t, "ending")
    /\ UNCHANGED <<sessionVars, stage, held, base, active, folded, deleted>>
    /\ UNCHANGED <<rowVars, processVars>>

\* persistProviderExecutionFailure: nothing at all without a manager; an error
\* of failAssistantMessage is logged and the error event published all the same.
FailLoads(t) ==
    /\ at[t] = "failing"
    /\ \/ up # "serving" /\ Go(t, "ending") /\ UNCHANGED <<held, base, events>>
       \/ HasReply(t) /\ Hold(t, WithReply(t, "error")) /\ Go(t, "recording") /\ UNCHANGED events
       \/ /\ up = "serving" /\ ~HasReply(t)
          /\ events' = [events EXCEPT ![t] = @ \cup {"error"}]
          /\ Go(t, "ending") /\ UNCHANGED <<held, base>>
    /\ UNCHANGED <<sessionVars, stage, active, folded, deleted>>
    /\ UNCHANGED <<rowVars, processVars>>

\* Mutant: the error is published, and the placeholder left as it is.
FailSavesLost(t) ==
    /\ at[t] = "recording"
    /\ events' = [events EXCEPT ![t] = @ \cup {"error"}]
    /\ Go(t, "ending") /\ Drop(t)
    /\ UNCHANGED <<sessionVars, stage, active, folded, deleted>>
    /\ UNCHANGED <<rowVars, processVars>>

FailSaves(t) ==
    /\ at[t] = "recording"
    /\ \/ up = "serving" /\ Save(t)
       \/ up # "serving" /\ UNCHANGED rowVars
    /\ events' = [events EXCEPT ![t] = @ \cup {"error"}]
    /\ Go(t, "ending") /\ Drop(t)
    /\ UNCHANGED <<sessionVars, stage, active, folded, deleted>>
    /\ UNCHANGED processVars

\* The finally block of executeProviderGeneration.
Unregister(t) ==
    /\ at[t] = "ending"
    /\ active' = active \ {t}
    /\ Go(t, "done")
    /\ UNCHANGED <<sessionVars, stage, held, base, events, folded, deleted>>
    /\ UNCHANGED <<rowVars, processVars>>

-----------------------------------------------------------------------------
(* The rest of the daemon. *)

\* DELETE /api/conversations/:id; the messages go by the foreign key.
Delete ==
    /\ up = "serving" /\ row.exists
    /\ row' = NoRow
    /\ deleted' = TRUE
    /\ UNCHANGED <<sessionVars, turnVars, active, events, saved, folded, overlap, processVars>>

\* DaemonHttpServer.stop: the manager is dropped and the database closed under
\* whatever is still running.
Stop ==
    /\ up = "serving"
    /\ up' = "stopped"
    /\ active' = {}
    /\ UNCHANGED <<sessionVars, turnVars, events, folded, deleted, rowVars, restarts, clock>>

\* The process ends, after a stop or in a crash; nothing of a turn survives it.
Exit ==
    /\ up # "down" /\ restarts < MaxRestarts
    /\ up' = "down"
    /\ at' = [t \in Turns |-> IF at[t] \in {"idle", "done", "rejected"} THEN at[t] ELSE "gone"]
    /\ held' = [t \in Turns |-> {}] /\ base' = [t \in Turns |-> NoRow]
    /\ io' = [t \in Turns |-> "none"] /\ seen' = [t \in Turns |-> "active"]
    /\ active' = {} /\ leftover' = (leftover \/ session = "compacting")
    /\ UNCHANGED <<session, stage, events, folded, deleted, rowVars, restarts, clock>>

\* Nothing looks at placeholders or at the session when the daemon starts.
Start ==
    /\ up = "down"
    /\ up' = "serving" /\ restarts' = restarts + 1
    /\ UNCHANGED <<sessionVars, turnVars, active, events, folded, deleted, rowVars, clock>>

Tick ==
    /\ clock < MaxClock
    /\ clock' = clock + 1
    /\ UNCHANGED <<sessionVars, turnVars, active, events, folded, deleted, rowVars, up, restarts>>

Adding(t) ==
    PromptRead(t) \/ AddLoads(t) \/ AddSaves(t)
      \/ SessionRead(t) \/ SessionWrittenBack(t) \/ SessionFails(t) \/ Gate(t)
      \/ CompactBegins(t) \/ CompactSaves(t) \/ CompactEnds(t)
Answering(t) ==
    Register(t) \/ Generated(t) \/ GenerationFails(t) \/ CompleteSaves(t)
      \/ Announce(t) \/ FailLoads(t) \/ FailSaves(t) \/ Unregister(t)

Next ==
    \/ \E t \in Turns : Post(t) \/ Adding(t) \/ Answering(t)
    \/ Delete \/ Stop \/ Exit \/ Start \/ Tick

Spec == Init /\ [][Next]_vars

-----------------------------------------------------------------------------
TypeOK ==
    /\ row \in Rows /\ session \in {"active", "compacting"}
    /\ io \in [Turns -> {"none", "read", "loaded"}]
    /\ seen \in [Turns -> {"active", "compacting"}] /\ leftover \in BOOLEAN
    /\ clock \in 0..MaxClock /\ up \in {"serving", "stopped", "down"}
    /\ restarts \in 0..MaxRestarts
    /\ at \in [Turns -> Places]
    /\ stage \in [Turns -> {"system", "user", "assistant"}]
    /\ held \in [Turns -> SUBSET Messages] /\ base \in [Turns -> Rows]
    /\ active \subseteq Turns /\ events \in [Turns -> SUBSET {"complete", "error"}]
    /\ saved \subseteq MessageIds /\ folded \subseteq MessageIds
    /\ overlap \in BOOLEAN /\ deleted \in BOOLEAN

\* As long as no save has replaced a row other than the one it was computed
\* from, a message whose save succeeded is in the conversation until a summary
\* takes its place or the conversation is deleted.
OnlyOverlapLoses ==
    ~overlap /\ ~deleted => saved \ folded \subseteq Ids(row.messages)

\* message_complete is published for a turn only when the answer is in the row
\* as complete, so that a client that reloads on the event finds it; and a turn
\* never gets both a message_complete and an error event.
AnnouncedIsStored ==
    \A t \in Turns :
        /\ Cardinality(events[t]) <= 1
        /\ ("complete" \in events[t] /\ ~overlap /\ ~deleted /\ Reply(t) \notin folded =>
              \E m \in row.messages : Id(m) = Reply(t) /\ m.status = "complete")

\* The session is marked as compacting only while a compaction is under way in
\* this process: a mark left behind turns compaction off for good.  Whichever step
\* of a compaction fails, the mark is left by a crash, by a failure of the very
\* update that takes it off, or by a call that read the file under the mark and
\* writes it back after the mark was taken off, and by nothing else.
CompactionEnds ==
    session = "compacting" /\ ~leftover =>
        \E t \in Turns : at[t] \in {"summarised", "finalizing", "restoring"}

\* A user's message comes before the answer to it in the history the store
\* returns.
HistoryInOrder ==
    \A a, b \in row.messages :
        a.turn = b.turn /\ a.role = "user" /\ b.role = "assistant" => Before(a, b)

\* What every post comes to: it is refused or its execution ends and its
\* placeholder is settled, unless the process stops or ends, the conversation
\* is deleted, the placeholder was folded into a summary or a save overlapped.
Settled(t) ==
    /\ at[t] \in {"done", "gone"}
    /\ t \notin active
    /\ \/ up # "serving" \/ restarts > 0 \/ deleted \/ overlap \/ Reply(t) \in folded
       \/ \E m \in row.messages : Id(m) = Reply(t) /\ m.status \in {"complete", "error"}
Resting == \A t \in Turns : at[t] \in {"idle", "rejected"} \/ Settled(t)

\* The timers of the subscription window and of the provider run out, awaited
\* file and database operations return, and the event loop runs continuations.
FairSpec == Spec /\ \A t \in Turns : WF_vars(Adding(t) \/ Answering(t))
=============================================================================
