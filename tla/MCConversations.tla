---------------------------- MODULE MCConversations ----------------------------
(***************************************************************************)
(* How a user's message reaches the daemon and how the answer comes back,  *)
(* in five parts: the conversation in its store, the connections that      *)
(* watch answers, the channel service with its channels, the poll loop of  *)
(* the Telegram channel, and the link of the Discord channel.  An initial  *)
(* state picks the part that runs; they share no state, so a behaviour of  *)
(* this module is one of a part.                                           *)
(***************************************************************************)
EXTENDS Conversations

CONSTANTS
    Sockets, Streams,
    ChannelCalls, None, MaxUpdates, MaxConnects, MaxCrashes,
    MaxLinks, MaxGateways, MaxDiscordConnects

VARIABLES
    part,  \* which of the five
    socket, subs, streamsOf, pinged, listed, tracked, exec, registered, aborted,
    serving, followers,
    token, registry, channel, subscribed, unsubscriber, started, callAt, kind, subject,
    channelCrashes, overlapped,
    arrived, confirmed, shouldPoll, status, checking, connects, loop, lastUpdateId,
    pollTimer, times, handled, crashes, raced,
    shouldRun, discordStatus, calling, discordConnects, gateway, gateways, link, sessionId,
    lastSequence, reconnectTimer, discordRaced

watchVars == <<socket, subs, streamsOf, pinged, listed, tracked, exec, registered,
               aborted, serving, followers>>
channelVars == <<token, registry, channel, subscribed, unsubscriber, started, callAt,
                 kind, subject, channelCrashes, overlapped>>
pollVars == <<arrived, confirmed, shouldPoll, status, checking, connects, loop,
              lastUpdateId, pollTimer, times, handled, crashes, raced>>
discordVars ==
    <<shouldRun, discordStatus, calling, discordConnects, gateway, gateways, link, sessionId,
      lastSequence, reconnectTimer, discordRaced>>
allVars == <<part, vars, watchVars, channelVars, pollVars, discordVars>>

Watch == INSTANCE StreamSubscriptions
Channels == INSTANCE ChannelService WITH
    Calls <- ChannelCalls, at <- callAt, crashes <- channelCrashes
Telegram == INSTANCE TelegramPolling
Discord == INSTANCE DiscordChannel WITH
    MaxConnects <- MaxDiscordConnects, status <- discordStatus, checking <- calling,
    connects <- discordConnects, raced <- discordRaced

ASSUME ChatLimits == Channels!ChannelLimits /\ Telegram!PollLimits /\ Discord!LinkLimits

\* Message ids in the order of the roles of each turn, and the other way round.
Rank == [system |-> 0, user |-> 1, assistant |-> 2, summary |-> 3]
OldestFirst == [id \in MessageIds |-> 4 * id[1] + Rank[id[2]]]
AnswerFirst == [id \in MessageIds |-> 4 * id[1] + 3 - Rank[id[2]]]

\* A step of one part leaves the others alone.
TurnsOnly == part = "turns" /\ UNCHANGED <<part, watchVars, channelVars, pollVars, discordVars>>
WatchOnly == part = "watch" /\ UNCHANGED <<part, vars, channelVars, pollVars, discordVars>>
ChannelsOnly == part = "channels" /\ UNCHANGED <<part, vars, watchVars, pollVars, discordVars>>
TelegramOnly == part = "telegram" /\ UNCHANGED <<part, vars, watchVars, channelVars, discordVars>>
DiscordOnly == part = "discord" /\ UNCHANGED <<part, vars, watchVars, channelVars, pollVars>>

ChatInit ==
    /\ part \in {"turns", "watch", "channels", "telegram", "discord"}
    /\ Init /\ Watch!Init /\ Channels!Init /\ Telegram!Init /\ Discord!Init
ChatNext ==
    \/ TurnsOnly /\ Next
    \/ WatchOnly /\ Watch!Next
    \/ ChannelsOnly /\ Channels!Next
    \/ TelegramOnly /\ Telegram!Next
    \/ DiscordOnly /\ Discord!Next

\* What is fair, numbered within each part: the steps of the daemon, weakly, and
\* the answers from outside that come when asked for often enough, strongly.  One
\* part runs, so sharing the numbers makes none of them less fair.
DaemonStep(i) ==
    \/ TurnsOnly /\ i \in Turns /\ (Adding(i) \/ Answering(i))
    \/ TelegramOnly /\ i \in Telegram!Loops /\ Telegram!PollStep(i)
    \/ TelegramOnly /\ i = 3 /\ (Telegram!Validated \/ Telegram!Rejected)
    \/ DiscordOnly /\ i = 3 /\ Discord!Progress
OutsideAnswer(i) ==
    \/ TelegramOnly /\ i \in Telegram!Loops /\ Telegram!Fetched(i)
    \/ DiscordOnly /\ i = 1 /\ Discord!AnyOpened
    \/ DiscordOnly /\ i = 2 /\ Discord!AnyHello
    \/ DiscordOnly /\ i = 3 /\ Discord!AnyAcknowledged
ChatSpec ==
    /\ ChatInit /\ [][ChatNext]_allVars
    /\ \A i \in 1..3 : WF_allVars(DaemonStep(i)) /\ SF_allVars(OutsideAnswer(i))

\* Bound: a behaviour has one kind of trouble, a delete, a stop or exit, a clock
\* that moves on, a save that overlapped, a session left marked in one process, or a
\* prompt that changed, which only the first post finds.
OneTrouble ==
    /\ Cardinality({k \in 1..6 : CASE k = 1 -> deleted
                                   [] k = 2 -> up # "serving" \/ restarts > 0
                                   [] k = 3 -> clock > 0
                                   [] k = 4 -> overlap
                                   [] k = 5 -> leftover /\ up = "serving" /\ restarts = 0
                                   [] OTHER -> stage[1] = "system" \/ <<1, "system">> \in saved}) <= 1
    /\ \A t \in Turns \ {1} : stage[t] # "system" /\ <<t, "system">> \notin saved

\* Types of the part that runs; the others stay as they began.
ChatTypeOK ==
    /\ part = "turns" => TypeOK
    /\ part = "watch" => Watch!TypeOK
    /\ part = "channels" => Channels!TypeOK
    /\ part = "telegram" => Telegram!TypeOK
    /\ part = "discord" => Discord!TypeOK

\* Every subscription is found again when its connection closes, and an answer
\* nobody follows any more is aborted (StreamSubscriptions).
WatchersHeld ==
    part = "watch" => Watch!SubscriptionsTracked /\ Watch!ObservedOrAborted

\* A channel answers exactly while it should: none goes on after it was removed,
\* replaced, disabled or stopped (ChannelService), and the one that polls has one
\* loop that handles every message of the user once (TelegramPolling); the Discord
\* channel has one link, the one its gateway knows (DiscordChannel).
ChannelsServe ==
    /\ part = "channels" => Channels!NoGhostChannel
    /\ part = "telegram" => Telegram!PollsOnce
    /\ part = "discord" => Discord!LinkHeld

AtRest ==
    CASE part = "turns" -> Resting
      [] part = "telegram" -> Telegram!CaughtUp
      [] part = "discord" -> Discord!Served
      [] OTHER -> TRUE

\* Every post that was accepted is answered, every Telegram update handled, and a
\* Discord channel that should run has its session again and again, with the
\* exceptions these name.
MessagesAnswered == []<>AtRest
=============================================================================
