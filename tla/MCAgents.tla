------------------------------- MODULE MCAgents -------------------------------
(***************************************************************************)
(* How work is done for the user, in five parts: the worker pool that runs *)
(* background tasks, the delivery of a finished task, a conversation       *)
(* served by runWithProvider, one call of AgentLoop.run with its tools,    *)
(* and one call of a sub-agent pool.  An initial state picks the part that *)
(* runs; they share no state, so a behaviour of this module is one of a    *)
(* part.                                                                   *)
(***************************************************************************)
EXTENDS WorkerManager

CONSTANTS
    Deliveries, TaskResults, EnabledChannels, NoResult,
    TurnSteps, TurnCalls, MaxTurns, Aborting,
    Names, Rule, Delegated, LoopSteps, LoopCalls, MaxConsecutive, MaxTotal, Window, Threshold,
    SubTasks, MaxConcurrent

VARIABLES
    part,  \* which of the five
    status, stored, delivered, deliveryAt, arg, left, successes, received, overlapped,
    history, messages, blocks, turnAt, turnSteps, text, turnCalls, results,
    turnAborted, turnReason, nextId, turns, turnRan,
    loopAt, loopSteps, calls, phase, result, granted, guard, loopAborted, reason,
    taskAt, permits, queue, listed, outcome, ran, poolAborted, returned

deliveryVars ==
    <<status, stored, delivered, deliveryAt, arg, left, successes, received, overlapped>>
turnVars ==
    <<history, messages, blocks, turnAt, turnSteps, text, turnCalls, results,
      turnAborted, turnReason, nextId, turns, turnRan>>
loopVars == <<loopAt, loopSteps, calls, phase, result, granted, guard, loopAborted, reason>>
poolVars == <<taskAt, permits, queue, listed, outcome, ran, poolAborted, returned>>
allVars == <<part, vars, deliveryVars, turnVars, loopVars, poolVars>>

Delivery == INSTANCE TaskDelivery WITH
    Calls <- Deliveries, Results <- TaskResults, Channels <- EnabledChannels,
    at <- deliveryAt
Conversing == INSTANCE AgentLoop WITH
    MaxSteps <- TurnSteps, MaxPerStep <- TurnCalls,
    at <- turnAt, steps <- turnSteps, calls <- turnCalls, aborted <- turnAborted,
    reason <- turnReason, ran <- turnRan
Loop == INSTANCE StepLoop WITH
    MaxSteps <- LoopSteps, MaxPerStep <- LoopCalls,
    at <- loopAt, steps <- loopSteps, aborted <- loopAborted
Pool == INSTANCE SubAgentPool WITH
    Tasks <- SubTasks, at <- taskAt, aborted <- poolAborted

ASSUME AgentsLimits ==
    /\ Delivery!ChannelsNat /\ Conversing!LimitsNat /\ Conversing!AbortingBoolean
    /\ Loop!StepLimits /\ Pool!PoolLimits

\* One name per rule of the standard profile, and one for the delegation contract.
ToolNames == {"notes", "bash", "schedule", "delegate"}
StandardProfile ==
    [n \in ToolNames |->
        CASE n = "notes" -> "allow" [] n = "schedule" -> "deny" [] OTHER -> "ask"]

AgentsInit ==
    /\ part \in {"workers", "delivery", "turn", "loop", "pool"}
    /\ Init /\ Delivery!Init /\ Conversing!Init /\ Loop!Init /\ Pool!Init

AgentsNext ==
    /\ \/ /\ part = "workers" /\ Next
          /\ UNCHANGED <<deliveryVars, turnVars, loopVars, poolVars>>
       \/ /\ part = "delivery" /\ Delivery!Next
          /\ UNCHANGED <<vars, turnVars, loopVars, poolVars>>
       \/ /\ part = "turn" /\ Conversing!Next
          /\ UNCHANGED <<vars, deliveryVars, loopVars, poolVars>>
       \/ /\ part = "loop" /\ Loop!Next
          /\ UNCHANGED <<vars, deliveryVars, turnVars, poolVars>>
       \/ /\ part = "pool" /\ Pool!Next
          /\ UNCHANGED <<vars, deliveryVars, turnVars, loopVars>>
    /\ UNCHANGED part

\* The fairness of each part; while another part runs, the worker pool has
\* nothing to do and its fairness asks nothing.
AgentsSpec ==
    /\ AgentsInit /\ [][AgentsNext]_allVars
    /\ Fairness
    /\ WF_turnVars(part = "turn" /\ Conversing!LoopStep)
    /\ WF_loopVars(part = "loop" /\ Loop!LoopStep)
    /\ WF_poolVars(part = "pool" /\ Pool!Progress)

\* Bounds: at most one of a crash, a shutdown and a failing store call in one
\* behaviour; and only the last turn of a conversation has several calls in one
\* answer.
OneTrouble ==
    /\ restarts + shutdowns + faults <= 1
    /\ turns < MaxTurns => Len(turnCalls) <= 1

\* Types of the five parts.
AgentsTypeOK ==
    /\ part = "workers" => TypeOK
    /\ part = "delivery" => Delivery!TypeOK
    /\ part = "turn" => Conversing!TypeOK
    /\ part = "loop" => Loop!TypeOK
    /\ part = "pool" => Pool!TypeOK

\* The safety properties of TaskDelivery, AgentLoop, StepLoop and SubAgentPool:
\* what a turn stores is paired and holds every tool that ran.
DeliveredIsReceived == part = "delivery" => Delivery!DeliveredIsReceived
MessagesKept ==
    part = "turn" => Conversing!OwnMessagesPaired /\ Conversing!RanToolsRecorded
PermitsConserved == part = "pool" => Pool!PermitsConserved

\* The step loop runs no tool that neither the profile nor the user allows, and
\* none after its tools have failed too often.
ToolsGuarded == part = "loop" => Loop!PermissionRespected /\ Loop!FailuresBounded

\* Once the signal has fired no tool of a turn starts and no task of a pool.
NothingStartsAfterAbort == Conversing!NoToolAfterAbort /\ Pool!NoStartAfterAbort

\* Tasks are interchangeable: one stands for all.
SomeTask == CHOOSE t \in Tasks : TRUE
UnderWay ==
    CASE part = "workers" -> Queued(SomeTask)
      [] part = "turn" -> ~Conversing!Resting
      [] part = "loop" -> ~Loop!Resting
      [] part = "pool" -> ~Pool!Resting
      [] OTHER -> FALSE
Ended ==
    CASE part = "workers" -> Served(SomeTask)
      [] part = "turn" -> Conversing!Resting
      [] part = "loop" -> Loop!Resting
      [] part = "pool" -> Pool!Resting
      [] OTHER -> TRUE

\* Whatever the provider, the tools and the tasks do, work comes to its end: a
\* queued task is ended, a turn is over, a loop or a pool has returned.  What
\* holds a loop for ever can only be a permission request nobody answers.
WorkEnds == UnderWay ~> Ended
=============================================================================
