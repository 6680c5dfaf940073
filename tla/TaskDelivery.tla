----------------------------- MODULE TaskDelivery -----------------------------
(***************************************************************************)
(* TaskDeliveryPipeline (src/src/tasks/delivery-pipeline.ts) for one task: *)
(* any number of deliver() calls, each with a result, store the result,    *)
(* send it to the connected TUI or else to every enabled channel, and mark *)
(* the task delivered in a later step.  The process may crash in between;  *)
(* the task's row and what the user has seen survive.                      *)
(***************************************************************************)
EXTENDS Naturals

CONSTANTS
    Calls,     \* deliver() calls, each made at most once
    Results,   \* results they carry
    Channels,  \* number of enabled channels
    NoResult

ChannelsNat == Channels \in Nat

VARIABLES
    status,      \* the row: its status, "gone" when there is none
    stored,      \* the row: result
    delivered,   \* the row: delivered
    at,          \* where each call is
    arg,         \* the result each call carries
    left,        \* channels a call has still to try
    successes,   \* whether one of them took the message
    received,    \* results that reached the user
    overlapped   \* two calls were in progress at once

row == <<status, stored, delivered>>
vars == <<row, at, arg, left, successes, received, overlapped>>

Busy == {c \in Calls : at[c] \notin {"new", "reported", "threw", "lost"}}

Init ==
    /\ status = "running" /\ stored = NoResult /\ delivered = FALSE
    /\ at = [c \in Calls |-> "new"]
    /\ arg = [c \in Calls |-> NoResult]
    /\ left = [c \in Calls |-> 0]
    /\ successes = [c \in Calls |-> FALSE]
    /\ received = {}
    /\ overlapped = FALSE

Goes(c, place) == at' = [at EXCEPT ![c] = place]

\* The worker completes the task; deleteTask removes it.
Complete ==
    /\ status = "running" /\ status' = "complete"
    /\ UNCHANGED <<stored, delivered, at, arg, left, successes, received, overlapped>>
Delete ==
    /\ status # "gone" /\ status' = "gone"
    /\ UNCHANGED <<stored, delivered, at, arg, left, successes, received, overlapped>>

\* deliver(taskId, result): getTask is called.
Deliver(c, r) ==
    /\ at[c] = "new"
    /\ arg' = [arg EXCEPT ![c] = r]
    /\ Goes(c, IF status = "complete" THEN "accepted" ELSE "threw")
    /\ overlapped' = (overlapped \/ Busy # {})
    /\ UNCHANGED <<row, left, successes, received>>

\* The result is stored, undelivered; then the transport is chosen: a
\* connected TUI, else the enabled channels, if there are any.
Persist(c) ==
    /\ at[c] = "accepted"
    /\ IF status = "gone"
       THEN Goes(c, "threw") /\ UNCHANGED <<row, left>>
       ELSE /\ stored' = arg[c] /\ delivered' = FALSE
            /\ \/ Goes(c, "sending") /\ UNCHANGED left
               \/ Channels > 0 /\ Goes(c, "trying") /\ left' = [left EXCEPT ![c] = Channels]
               \/ Goes(c, "marking") /\ UNCHANGED left
            /\ UNCHANGED status
    /\ UNCHANGED <<arg, successes, received, overlapped>>

\* sendAssistantMessage settles.  A rejection propagates: no channel is tried.
\* The message of a rejected send may have reached the user all the same.
SendSettles(c) ==
    /\ at[c] = "sending"
    /\ \/ /\ Goes(c, "marking")
          /\ successes' = [successes EXCEPT ![c] = TRUE]
          /\ received' = received \cup {arg[c]}
       \/ /\ Goes(c, "threw")
          /\ received' \in {received, received \cup {arg[c]}}
          /\ UNCHANGED successes
    /\ UNCHANGED <<row, arg, left, overlapped>>

\* Mutant: a channel that was tried counts as one that took the message.
ChannelCounted(c) ==
    /\ at[c] = "trying"
    /\ received' \in {received, received \cup {arg[c]}}
    /\ successes' = [successes EXCEPT ![c] = TRUE]
    /\ left' = [left EXCEPT ![c] = @ - 1]
    /\ IF left[c] = 1 THEN Goes(c, "marking") ELSE UNCHANGED at
    /\ UNCHANGED <<row, arg, overlapped>>

\* sendToChannel of the next channel settles; a failure is counted, not thrown.
ChannelSettles(c) ==
    /\ at[c] = "trying"
    /\ \/ /\ received' = received \cup {arg[c]}
          /\ successes' = [successes EXCEPT ![c] = TRUE]
       \/ UNCHANGED <<received, successes>>
    /\ left' = [left EXCEPT ![c] = @ - 1]
    /\ IF left[c] = 1 THEN Goes(c, "marking") ELSE UNCHANGED at
    /\ UNCHANGED <<row, arg, overlapped>>

\* The last update, and the report.
Mark(c) ==
    /\ at[c] = "marking"
    /\ Goes(c, "reported")
    /\ delivered' = IF status = "gone" THEN delivered ELSE successes[c]
    /\ UNCHANGED <<status, stored, arg, left, successes, received, overlapped>>

\* The process stops: its calls are lost, the row stays as it is.
Crash ==
    /\ Busy # {}
    /\ at' = [c \in Calls |-> IF c \in Busy THEN "lost" ELSE at[c]]
    /\ UNCHANGED <<row, arg, left, successes, received, overlapped>>

Step(c) == Persist(c) \/ SendSettles(c) \/ ChannelSettles(c) \/ Mark(c)

Next ==
    \/ Complete \/ Delete \/ Crash
    \/ \E c \in Calls : Step(c) \/ \E r \in Results : Deliver(c, r)

Spec == Init /\ [][Next]_vars

----------------------------------------------------------------------------

TypeOK ==
    /\ status \in {"running", "complete", "gone"}
    /\ stored \in Results \cup {NoResult}
    /\ delivered \in BOOLEAN
    /\ at \in [Calls -> {"new", "accepted", "sending", "trying", "marking",
                         "reported", "threw", "lost"}]
    /\ arg \in [Calls -> Results \cup {NoResult}]
    /\ left \in [Calls -> 0..Channels]
    /\ successes \in [Calls -> BOOLEAN]
    /\ received \subseteq Results
    /\ overlapped \in BOOLEAN

\* As long as deliveries do not overlap, a task that is marked delivered, and
\* so left out of the badge count, is one whose stored result has reached the
\* user: whatever fails or crashes between the three updates.
DeliveredIsReceived == ~overlapped /\ delivered => stored \in received
=============================================================================
