------------------------------ MODULE AgentLoop ------------------------------
(***************************************************************************)
(* One conversation served by AgentLoop.runWithProvider                    *)
(* (src/src/harness/agent-loop.ts), as the daemon calls it                 *)
(* (generateAndStreamWithHarness in src/src/daemon/server.ts): the stored  *)
(* history is expanded into provider messages, the provider streams text   *)
(* and tool calls, the tools run one after the other, and the content of   *)
(* the turn is stored as one assistant message.                            *)
(*                                                                         *)
(* Contents are kept as groups of blocks: text, the tool_use blocks of one *)
(* step, or their tool_result blocks, with the ids of the calls.  The      *)
(* daemon passes one abort signal for the loop and its tools, no doom loop *)
(* guard and no automatic compaction.                                      *)
(***************************************************************************)
EXTENDS Naturals, Sequences, FiniteSets, SequencesExt

CONSTANTS
    MaxSteps,    \* maxSteps, the tool rounds of one turn
    MaxPerStep,  \* bound: tool calls of one provider answer
    MaxTurns,    \* bound: turns of the conversation
    Aborting     \* whether clients may abort a turn

LimitsNat == MaxSteps \in Nat /\ MaxPerStep \in Nat /\ MaxTurns \in Nat
AbortingBoolean == Aborting \in BOOLEAN

VARIABLES
    history,   \* stored messages of the conversation
    messages,  \* what the loop has added to the request in this turn
    blocks,    \* accumulatedBlocks
    at,        \* where the loop is
    steps,     \* stepsUsed
    text,      \* textOutput of this step is not empty
    calls,     \* tool calls of this step
    results,   \* calls of this step that have a result, in order
    aborted,
    reason,    \* terminationReason of the turn
    nextId,    \* ids of tool calls are fresh
    turns,
    ran        \* tools whose code has run in this turn

turn == <<steps, aborted, reason, ran>>
vars == <<history, messages, blocks, at, text, calls, results, nextId, turns, turn>>

Text == [kind |-> "text", ids |-> {}]
Uses(ids) == [kind |-> "use", ids |-> ids]
Results(ids) == [kind |-> "result", ids |-> ids]

\* A message for the provider.
Message(role, uses, answers) == [role |-> role, uses |-> uses, results |-> answers]
UserText == Message("user", {}, {})

Init ==
    /\ history = <<>>
    /\ messages = <<>>
    /\ blocks = <<>>
    /\ at = "idle"
    /\ steps = 0
    /\ text = FALSE
    /\ calls = <<>>
    /\ results = <<>>
    /\ aborted = FALSE
    /\ reason = "none"
    /\ nextId = 1
    /\ turns = 0
    /\ ran = {}

-----------------------------------------------------------------------------
(* From the stored conversation to the provider's messages *)

\* expandToolResultMessages: results go to user messages, the groups between two
\* of them to one assistant message.
Placed(expanded, group) ==
    LET fresh == expanded = <<>> \/ Last(expanded).role = "user"
    IN  CASE group.kind = "result" -> Append(expanded, Message("user", {}, group.ids))
          [] group.kind # "result" /\ fresh ->
                Append(expanded, Message("assistant", group.ids, {}))
          [] OTHER ->
                [expanded EXCEPT ![Len(expanded)].uses = @ \cup group.ids]

Expand(stored) ==
    IF stored.role = "user" THEN <<UserText>> ELSE FoldLeft(Placed, <<>>, stored.groups)

\* mapConversationToAnthropicContext
Context(stored) == FoldLeft(LAMBDA sent, m : sent \o Expand(m), <<>>, stored)

\* What the provider is sent: the history is not written before the turn is over.
Request == Context(history) \o messages

\* POST /api/messages: the user's message is stored, then the loop starts.
BeginTurn ==
    /\ at = "idle"
    /\ turns < MaxTurns
    /\ turns' = turns + 1
    /\ history' = Append(history, [role |-> "user", groups |-> <<>>])
    /\ messages' = <<>>
    /\ at' = "top"
    /\ blocks' = <<>> /\ steps' = 0 /\ aborted' = FALSE /\ reason' = "none"
    /\ ran' = {}
    /\ text' = FALSE /\ calls' = <<>> /\ results' = <<>>
    /\ UNCHANGED nextId

-----------------------------------------------------------------------------
(* One step: the provider answers *)

\* yield done
Done(why) == at' = "done" /\ reason' = why

\* The head of the loop: leave if aborted, else ask the provider.
Top ==
    /\ at = "top"
    /\ \/ aborted /\ Done("aborted") /\ UNCHANGED <<text, calls, results>>
       \/ /\ ~aborted
          /\ at' = "streaming" /\ text' = FALSE /\ calls' = <<>> /\ results' = <<>>
          /\ UNCHANGED reason
    /\ UNCHANGED <<history, messages, blocks, nextId, turns,
                   steps, aborted, ran>>

Streaming == at = "streaming" /\ ~aborted

Token ==
    /\ Streaming
    /\ ~text
    /\ text' = TRUE
    /\ UNCHANGED <<history, messages, blocks, at, calls, results, nextId, turns,
                   steps, aborted, reason, ran>>

CallReceived ==
    /\ Streaming
    /\ Len(calls) < MaxPerStep
    /\ calls' = Append(calls, nextId)
    /\ nextId' = nextId + 1
    /\ UNCHANGED <<history, messages, blocks, at, text, results, turns, turn>>

\* An error ends the generator; the daemon fails the assistant message, whose
\* content stays empty.
StreamError ==
    /\ Streaming
    /\ history' = Append(history, [role |-> "assistant", groups |-> <<Text>>])
    /\ at' = "idle"
    /\ reason' = "error"
    /\ UNCHANGED <<messages, blocks, text, calls, results, nextId, turns,
                   steps, aborted, ran>>

\* The stream is over, or left because of the abort.
StreamAborted ==
    /\ at = "streaming"
    /\ aborted
    /\ Done("aborted")
    /\ UNCHANGED <<history, messages, blocks, text, calls, results, nextId, turns,
                   steps, aborted, ran>>

WithText == IF text THEN Append(blocks, Text) ELSE blocks

\* finishReason is not tool_use, or there is no call.
StreamEndsInText ==
    /\ Streaming
    /\ Done("text_only_response")
    /\ blocks' = WithText
    /\ UNCHANGED <<history, messages, text, calls, results, nextId, turns,
                   steps, aborted, ran>>

\* The answer asks for tools: they run, unless the steps are used up.
StreamEndsInCalls ==
    /\ Streaming
    /\ calls # <<>>
    /\ LET ids == ToSet(calls)
       IN  /\ blocks' = Append(WithText, Uses(ids))
           /\ messages' = Append(messages, Message("assistant", ids, {}))
    /\ IF steps >= MaxSteps
       THEN Done("max_steps_reached") /\ UNCHANGED steps
       ELSE steps' = steps + 1 /\ at' = "tools" /\ UNCHANGED reason
    /\ UNCHANGED <<history, text, calls, results, nextId, turns,
                   aborted, ran>>

-----------------------------------------------------------------------------
(* One step: the tools run *)

Current == calls[Len(results) + 1]
MoreCalls == Len(results) < Len(calls)
ToolsOver == at = "results" \/ (at = "tools" /\ (aborted \/ ~MoreCalls))

\* tool_call_start is yielded: the consumer may await before it asks for more.
ToolStart ==
    /\ at = "tools"
    /\ ~aborted /\ MoreCalls
    /\ at' = "starting"
    /\ UNCHANGED <<history, messages, blocks, text, calls, results, nextId, turns,
                   steps, aborted, reason, ran>>

\* Mutant: the executor does not look at the signal.
ToolExecutesAnyway ==
    /\ at = "starting"
    /\ at' = "running"
    /\ ran' = ran \cup {Current}
    /\ UNCHANGED <<history, messages, blocks, text, calls, results, nextId, turns,
                   steps, aborted, reason>>

\* ToolExecutor.execute: an aborted signal is an error result, else the tool runs.
ToolExecutes ==
    /\ at = "starting"
    /\ IF aborted
       THEN at' = "results" /\ results' = Append(results, Current) /\ UNCHANGED ran
       ELSE at' = "running" /\ ran' = ran \cup {Current} /\ UNCHANGED results
    /\ UNCHANGED <<history, messages, blocks, text, calls, nextId, turns,
                   steps, aborted, reason>>

\* The tool returns or throws: either way the call has a result.
ToolSettles ==
    /\ at = "running"
    /\ results' = Append(results, Current)
    /\ at' = IF aborted THEN "results" ELSE "tools"
    /\ UNCHANGED <<history, messages, blocks, text, calls, nextId, turns, turn>>

\* Mutant: the loop goes on after an abort among the tools.
ToolsEndUnchecked ==
    /\ ToolsOver
    /\ blocks' = IF results = <<>> THEN blocks ELSE Append(blocks, Results(ToSet(results)))
    /\ messages' = Append(messages, Message("user", {}, ToSet(results)))
    /\ at' = "streaming" /\ text' = FALSE
    /\ UNCHANGED <<history, calls, results, nextId, turns, reason,
                   steps, aborted, ran>>

\* The results are yielded and pushed, then the loop ends or goes on.
ToolsEnd ==
    /\ ToolsOver
    /\ blocks' = IF results = <<>> THEN blocks ELSE Append(blocks, Results(ToSet(results)))
    /\ messages' = Append(messages, Message("user", {}, ToSet(results)))
    /\ IF aborted THEN Done("aborted") ELSE at' = "top" /\ UNCHANGED reason
    /\ UNCHANGED <<history, text, calls, results, nextId, turns,
                   steps, aborted, ran>>

-----------------------------------------------------------------------------
\* completeAssistantMessage: the content of the turn becomes one message.
Persist ==
    /\ at = "done"
    /\ history' = Append(history,
            [role |-> "assistant", groups |-> IF blocks = <<>> THEN <<Text>> ELSE blocks])
    /\ at' = "idle"
    /\ UNCHANGED <<messages, blocks, text, calls, results, nextId, turns, turn>>

\* The stream's client disconnects, or the daemon stops.
Abort ==
    /\ Aborting
    /\ at # "idle"
    /\ ~aborted
    /\ aborted' = TRUE
    /\ UNCHANGED <<history, messages, blocks, at, text, calls, results, nextId, turns,
                   steps, reason, ran>>

LoopStep ==
    \/ Top \/ StreamAborted \/ StreamError \/ StreamEndsInText \/ StreamEndsInCalls
    \/ ToolStart \/ ToolExecutes \/ ToolSettles \/ ToolsEnd \/ Persist

Next == BeginTurn \/ Token \/ CallReceived \/ LoopStep \/ Abort

Spec == Init /\ [][Next]_vars

\* The provider ends its streams and the tools settle.
FairSpec == Spec /\ WF_vars(LoopStep)

-----------------------------------------------------------------------------
(* Properties *)

Ids == 1..(nextId - 1)
Groups == [kind : {"text", "use", "result"}, ids : SUBSET Ids]

\* Types of the loop's locals and of the stored messages.
TypeOK ==
    /\ history \in Seq([role : {"user", "assistant"}, groups : Seq(Groups)])
    /\ messages \in Seq([role : {"user", "assistant"}, uses : SUBSET Ids, results : SUBSET Ids])
    /\ blocks \in Seq(Groups)
    /\ at \in {"idle", "top", "streaming", "tools", "starting", "running", "results", "done"}
    /\ steps \in 0..MaxSteps
    /\ text \in BOOLEAN /\ aborted \in BOOLEAN
    /\ calls \in Seq(Ids) /\ results \in Seq(Ids)
    /\ reason \in {"none", "error", "aborted", "text_only_response", "max_steps_reached"}
    /\ nextId \in Nat \ {0} /\ turns \in 0..MaxTurns
    /\ ran \subseteq Ids

\* The message at i asks for tools and the next one answers all of them.
Answered(sent, i) ==
    sent[i].uses # {} => i < Len(sent) /\ sent[i + 1].results = sent[i].uses

\* Whatever the loop itself adds to a request is a sequence the provider accepts:
\* all tool calls of a step are answered in the message after it, also when the
\* turn was aborted between two tools.
OwnMessagesPaired ==
    at = "streaming" => \A i \in DOMAIN messages : Answered(messages, i)

\* agent-loop-regression.test.ts "completed tools preserved": a tool that has run
\* is answered in the content that is stored, however the turn ended.
RanToolsRecorded ==
    at = "done" =>
        \A id \in ran : \E i \in DOMAIN blocks : blocks[i].kind = "result" /\ id \in blocks[i].ids

\* "pending tools do not start after abort signal fires": no tool's code starts
\* once the signal is aborted, even when the consumer held the loop meanwhile.
NoToolAfterAbort == [][aborted => ran' = ran \/ at = "idle"]_vars

\* What every turn comes back to, whatever the provider asks for.
Resting == at = "idle"

\* server.ts:4058 "the proper Anthropic message sequence: assistant (tool_use) ->
\* user (tool_result)": every request is such a sequence, history included.
RequestsPaired ==
    at = "streaming" => \A i \in DOMAIN Request : Answered(Request, i)
=============================================================================
