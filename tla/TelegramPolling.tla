---------------------------- MODULE TelegramPolling ----------------------------
(***************************************************************************)
(* TelegramChannel (src/src/channels/telegram/channel.ts): connect() and   *)
(* disconnect() around a loop of getUpdates calls that hands every update  *)
(* to the inbound handler of ChannelDaemonService, which may store it as a *)
(* message or fail.  Telegram keeps an update until a call asks for a      *)
(* higher offset; the offset is kept in memory only, so a process that     *)
(* crashes begins again with what Telegram still has.                      *)
(*                                                                         *)
(* Nothing names a poll loop in the code: a loop here is the chain of a    *)
(* timer, its poll and the timer that poll sets.                           *)
(***************************************************************************)
EXTENDS Naturals, FiniteSets

CONSTANTS
    MaxUpdates,   \* bound: updates ever sent to the bot, numbered from 1
    MaxConnects,  \* bound: calls of connect in one process
    MaxCrashes    \* bound: crashes

\* Assumed of the constants: the bounds are numbers.
PollLimits == MaxUpdates \in Nat /\ MaxConnects \in Nat /\ MaxCrashes \in Nat

VARIABLES
    arrived,     \* updates Telegram has received so far
    confirmed,   \* the highest update it has dropped
    shouldPoll,
    status,      \* statusState.state
    checking,    \* connect() calls that await getMe
    connects,
    loop,        \* each poll loop: where it is, its batch, and how far it is
    lastUpdateId,
    pollTimer,   \* the loop whose timer this.pollTimer is, 0 for null
    times,       \* how often each update was handled since the process began
    handled,     \* updates whose handler has ended, in any process
    crashes,
    raced        \* a disconnect met a call in flight

vars == <<arrived, confirmed, shouldPoll, status, checking, connects, loop,
          lastUpdateId, pollTimer, times, handled, crashes, raced>>

Updates == 1..MaxUpdates
Loops == 1..MaxConnects
NoLoop == [at |-> "none", first |-> 1, last |-> 0]
LoopAt(place) == [at |-> place, first |-> 1, last |-> 0]
Running == {l \in Loops : loop[l].at # "none"}

Init ==
    /\ arrived = 0 /\ confirmed = 0
    /\ shouldPoll = FALSE /\ status = "disconnected"
    /\ checking = 0 /\ connects = 0
    /\ loop = [l \in Loops |-> NoLoop]
    /\ lastUpdateId = 0 /\ pollTimer = 0
    /\ times = [u \in Updates |-> 0] /\ handled = {}
    /\ crashes = 0 /\ raced = FALSE

Arrives ==
    /\ arrived < MaxUpdates /\ arrived' = arrived + 1
    /\ UNCHANGED <<confirmed, shouldPoll, status, checking, connects, loop, lastUpdateId,
                   pollTimer, times, handled, crashes, raced>>

\* connect() of a channel that polls returns at once; otherwise getMe is called.
Connect ==
    /\ ~shouldPoll /\ connects < MaxConnects
    /\ shouldPoll' = TRUE /\ status' = "connecting"
    /\ checking' = checking + 1 /\ connects' = connects + 1
    /\ UNCHANGED <<arrived, confirmed, loop, lastUpdateId, pollTimer, times, handled,
                   crashes, raced>>

\* scheduleNextPoll for loop l: nothing is scheduled once shouldPoll is off.
Schedule(l) ==
    IF shouldPoll
    THEN loop' = [loop EXCEPT ![l] = LoopAt("timer")] /\ pollTimer' = l
    ELSE loop' = [loop EXCEPT ![l] = NoLoop] /\ UNCHANGED pollTimer

\* getMe resolves: the channel is connected, and polls if it still should.
Validated ==
    /\ checking > 0 /\ checking' = checking - 1
    /\ status' = "connected"
    /\ \E l \in Loops : l \notin Running /\ Schedule(l)
    /\ UNCHANGED <<arrived, confirmed, shouldPoll, connects, lastUpdateId, times, handled,
                   crashes, raced>>
Rejected ==
    /\ checking > 0 /\ checking' = checking - 1
    /\ shouldPoll' = FALSE /\ status' = "error"
    /\ raced' = (raced \/ checking > 1 \/ Running # {})
    /\ UNCHANGED <<arrived, confirmed, connects, loop, lastUpdateId, pollTimer, times, handled,
                   crashes>>

\* disconnect(): the timer at hand is cleared, a call in flight goes on.
Disconnect ==
    /\ shouldPoll' = FALSE /\ status' = "disconnected"
    /\ loop' = [l \in Loops |-> IF l = pollTimer THEN NoLoop ELSE loop[l]]
    /\ pollTimer' = 0
    /\ raced' = (raced \/ checking > 0 \/ \E l \in Running : l # pollTimer)
    /\ UNCHANGED <<arrived, confirmed, checking, connects, lastUpdateId, times, handled,
                   crashes>>

Unpolled == <<arrived, checking, connects, handled, crashes, raced>>

\* The timer fires and getUpdates is called with the offset lastUpdateId + 1.
Poll(l) ==
    /\ loop[l].at = "timer"
    /\ pollTimer' = 0
    /\ IF shouldPoll
       THEN loop' = [loop EXCEPT ![l].at = "fetching", ![l].first = lastUpdateId + 1]
       ELSE loop' = [loop EXCEPT ![l] = NoLoop]
    /\ UNCHANGED <<Unpolled, confirmed, shouldPoll, status, lastUpdateId, times>>

\* What Telegram has dropped once l's call has arrived there.
Dropped(l) == IF loop[l].first > confirmed + 1 THEN loop[l].first - 1 ELSE confirmed

\* The call returns the updates Telegram has left, or fails, before or after it
\* got there, and is tried again later; nothing is done with the answer once shouldPoll is off.
Fetched(l) ==
    /\ loop[l].at = "fetching" /\ shouldPoll
    /\ status' = "connected"
    /\ confirmed' = Dropped(l)
    /\ loop' = [loop EXCEPT ![l] = [at |-> "dispatching", first |-> Dropped(l) + 1, last |-> arrived]]
    /\ UNCHANGED <<Unpolled, shouldPoll, lastUpdateId, pollTimer, times>>
FetchFails(l) ==
    /\ loop[l].at = "fetching" /\ shouldPoll
    /\ status' = "reconnecting"
    /\ confirmed' \in {confirmed, Dropped(l)}
    /\ Schedule(l)
    /\ UNCHANGED <<Unpolled, shouldPoll, lastUpdateId, times>>
FetchDropped(l) ==
    /\ loop[l].at = "fetching" /\ ~shouldPoll
    /\ confirmed' \in {confirmed, Dropped(l)}
    /\ loop' = [loop EXCEPT ![l] = NoLoop]
    /\ UNCHANGED <<Unpolled, shouldPoll, status, lastUpdateId, pollTimer, times>>

\* dispatchUpdates: the next update raises lastUpdateId and its handler runs.
Dispatch(l) ==
    /\ loop[l].at = "dispatching" /\ loop[l].first <= loop[l].last
    /\ lastUpdateId' = IF loop[l].first > lastUpdateId THEN loop[l].first ELSE lastUpdateId
    /\ times' = [times EXCEPT ![loop[l].first] = @ + 1]
    /\ loop' = [loop EXCEPT ![l].at = "handling"]
    /\ UNCHANGED <<Unpolled, confirmed, shouldPoll, status, pollTimer>>

\* The handler ends, with the message stored or with an error that is kept
\* as the channel's last error.
Handled(l) ==
    /\ loop[l].at = "handling"
    /\ handled' = handled \cup {loop[l].first}
    /\ loop' = [loop EXCEPT ![l].at = "dispatching", ![l].first = @ + 1]
    /\ UNCHANGED <<arrived, confirmed, shouldPoll, status, checking, connects, lastUpdateId,
                   pollTimer, times, crashes, raced>>
Dispatched(l) ==
    /\ loop[l].at = "dispatching" /\ loop[l].first > loop[l].last
    /\ Schedule(l)
    /\ UNCHANGED <<Unpolled, confirmed, shouldPoll, status, lastUpdateId, times>>

\* The process stops and another one starts.
Crash ==
    /\ crashes < MaxCrashes /\ crashes' = crashes + 1
    /\ shouldPoll' = FALSE /\ status' = "disconnected"
    /\ checking' = 0 /\ connects' = 0
    /\ loop' = [l \in Loops |-> NoLoop]
    /\ lastUpdateId' = 0 /\ pollTimer' = 0
    /\ times' = [u \in Updates |-> 0]
    /\ UNCHANGED <<arrived, confirmed, handled, raced>>

PollStep(l) ==
    \/ Poll(l) \/ Fetched(l) \/ FetchFails(l) \/ FetchDropped(l)
    \/ Dispatch(l) \/ Handled(l) \/ Dispatched(l)

Next ==
    \/ Arrives \/ Connect \/ Validated \/ Rejected \/ Disconnect \/ Crash
    \/ \E l \in Loops : PollStep(l)

Spec == Init /\ [][Next]_vars

\* Telegram answers, in the end with the updates, and handlers end.
FairSpec ==
    /\ Spec
    /\ WF_vars(Validated \/ Rejected)
    /\ \A l \in Loops : WF_vars(PollStep(l)) /\ SF_vars(Fetched(l))

----------------------------------------------------------------------------

TypeOK ==
    /\ arrived \in 0..MaxUpdates /\ confirmed \in 0..MaxUpdates
    /\ shouldPoll \in BOOLEAN /\ raced \in BOOLEAN
    /\ status \in {"disconnected", "connecting", "connected", "reconnecting", "error"}
    /\ checking \in 0..MaxConnects /\ connects \in 0..MaxConnects
    /\ loop \in [Loops -> [at : {"none", "timer", "fetching", "dispatching", "handling"},
                           first : 1..(MaxUpdates + 1), last : 0..MaxUpdates]]
    /\ lastUpdateId \in 0..MaxUpdates /\ pollTimer \in 0..MaxConnects
    /\ times \in [Updates -> Nat] /\ handled \subseteq Updates
    /\ crashes \in 0..MaxCrashes

\* As long as no disconnect meets a call in flight: a channel that should
\* poll has one loop, or the connect that will start it; no update is handled
\* twice by one process; and Telegram has dropped only updates whose handlers
\* have ended, so that a crash at any point loses none.
PollsOnce ==
    ~raced =>
        /\ Cardinality(Running) + checking = IF shouldPoll THEN 1 ELSE 0
        /\ \A u \in Updates : times[u] <= 1
        /\ 1..confirmed \subseteq handled

\* Nothing is left to do: every update that has arrived was handled, or the
\* channel does not poll.
CaughtUp == ~raced /\ shouldPoll => 1..arrived \subseteq handled
=============================================================================
