----------------------------- MODULE Consolidation -----------------------------
(***************************************************************************)
(* From short-term to long-term memory: the MemoryConsolidationJob         *)
(* (src/src/cron/jobs/memory-consolidation-job.ts) runs the                *)
(* ConsolidationRunner, which takes a batch of the StmSelector, lets a     *)
(* model distil facts of it, merges them with what is known (MergeEngine)  *)
(* and writes the result (memory/consolidation).                           *)
(*                                                                         *)
(* A fact is a text, the same text is a duplicate, and which texts are     *)
(* contradictory is a constant.  Importance, its decay and confidence are  *)
(* left out: no fact is below the threshold of the merge.  The writer of   *)
(* long-term memory is an interface; it is taken to write record by        *)
(* record, each by its id, and to fail at any of them.                     *)
(***************************************************************************)
EXTENDS Naturals, SequencesExt

CONSTANTS
    MaxRecords,  \* short-term records, numbered as they were created
    BatchSize, MaxRetries,   \* of the selector
    Attempts,    \* of the runner: attempts to write
    MaxDepth,    \* of the merge: supersessions in a row
    Texts, Contradictory,    \* what facts say; pairs {t, u}
    NoText,
    MaxFacts, MaxLtm, MaxRuns \* bounds: facts of a batch, ids handed out, runs

ConsolidationLimits ==
    /\ NoText \notin Texts
    /\ {MaxRecords, BatchSize, MaxDepth, MaxFacts, MaxLtm, MaxRuns} \subseteq Nat
    /\ {MaxRetries, Attempts} \subseteq Nat \ {0}

VARIABLES
    stm,       \* short-term records that are there
    status, retries,  \* the selector's candidates
    resting,   \* failed candidates in the dedupe window
    phase, batch, facts, \* the run: what it does, its candidates, what was distilled
    merged,    \* result of the merge
    written, attempt, \* records of it written by the attempt
    ltm,       \* long-term records
    nextId, runs,
    told,      \* history: texts of runs that ended well, not skipped
    thrown     \* history: the writer threw

candidates == <<status, retries, resting>>
run == <<phase, batch, facts, merged, written, attempt>>
vars == <<stm, candidates, run, ltm, nextId, runs, told, thrown>>

Records == 1..MaxRecords
Ids == 1..MaxLtm
NoEntry == [text |-> NoText, supersedes |-> 0, by |-> 0, updated |-> 0]
Nothing == [view |-> [i \in Ids |-> NoEntry], created |-> <<>>, updated |-> <<>>,
            superseded |-> <<>>, next |-> 0, skipped |-> {}]

Init ==
    /\ status = [r \in Records |-> "none"] /\ retries = [r \in Records |-> 0]
    /\ resting = {}
    /\ phase = "idle" /\ batch = {} /\ facts = <<>> /\ merged = Nothing
    /\ written = 0 /\ attempt = 0
    /\ stm = Records /\ ltm = Nothing.view /\ nextId = 1 /\ runs = 0
    /\ told = {} /\ thrown = FALSE

----------------------------------------------------------------------------
(* StmSelector. *)

Eligible ==
    {r \in stm \ resting : status[r] \notin {"consolidated", "skipped", "processing"}}
Oldest(S) == {r \in S : Cardinality({q \in S : q < r}) < BatchSize}

\* markFailed: only what is being processed; the last retry ends it.
Fails(S) ==
    LET hit == {r \in S : status[r] = "processing"}
        last == {r \in hit : retries[r] + 1 >= MaxRetries}
    IN  /\ status' = [r \in Records |->
                        IF r \in last THEN "skipped" ELSE IF r \in hit THEN "failed" ELSE status[r]]
        /\ retries' = [r \in Records |-> retries[r] + (IF r \in hit THEN 1 ELSE 0)]
        /\ resting' = resting \cup (hit \ last)

WindowEnds(r) ==
    /\ r \in resting /\ resting' = resting \ {r}
    /\ UNCHANGED <<stm, status, retries, run, ltm, nextId, runs, told, thrown>>

----------------------------------------------------------------------------
(* MergeEngine. *)

Live(m) == {i \in Ids : m.view[i].text # NoText /\ m.view[i].by = 0}

\* Of contradictory records the one updated last, the first of those.
Latest(m, S) == Min({i \in S : \A j \in S : m.view[j].updated <= m.view[i].updated})

Depth(m, i) ==
    LET depth[j \in 0..MaxLtm] ==
            IF j = 0 \/ m.view[j].supersedes = 0 THEN 0 ELSE 1 + depth[m.view[j].supersedes]
    IN  depth[i]

Creates(m, fact, old) ==
    [m EXCEPT !.view[m.next] = [text |-> fact.text, supersedes |-> old, by |-> 0, updated |-> runs],
              !.created = Append(@, m.next), !.next = @ + 1]
Supersedes(m, fact, old) ==
    [Creates(m, fact, old) EXCEPT !.view[old] = [@ EXCEPT !.by = m.next, !.updated = runs],
                                  !.superseded = Append(@, old)]
\* The fact is known: its record is dated anew.
Reinforces(m, i) ==
    [m EXCEPT !.view[i].updated = runs, !.updated = IF Contains(@, i) THEN @ ELSE Append(@, i)]
Skips(m, fact) == [m EXCEPT !.skipped = @ \cup {fact.text}]

MergeFact(m, fact) ==
    LET same == {i \in Live(m) : m.view[i].text = fact.text}
        against == {i \in Live(m) : {m.view[i].text, fact.text} \in Contradictory}
        old == Latest(m, against)
    IN  IF same # {} THEN Reinforces(m, Min(same))
        ELSE IF against = {} THEN Creates(m, fact, 0)
        ELSE IF Depth(m, old) >= MaxDepth THEN Skips(m, fact)
        ELSE Supersedes(m, fact, old)

\* What is known once the first n facts are merged.
Merging[n \in 0..Len(facts)] ==
    IF n = 0 THEN [Nothing EXCEPT !.view = ltm, !.next = nextId]
    ELSE MergeFact(Merging[n - 1], facts[n])
Merged == Merging[Len(facts)]

\* collectWriteRecords: a created or updated record as it was then, not yet
\* superseded.
Record(i, by) == [id |-> i, entry |-> [merged.view[i] EXCEPT !.by = by]]
Unsuperseded(ids) == [n \in 1..Len(ids) |-> Record(ids[n], 0)]
Superseded(ids) == [n \in 1..Len(ids) |-> Record(ids[n], merged.view[ids[n]].by)]
\* Mutant: the superseded ones first.
WritesSupersededFirst ==
    Superseded(merged.superseded) \o Unsuperseded(merged.created) \o Unsuperseded(merged.updated)
Writes ==
    Unsuperseded(merged.created) \o Unsuperseded(merged.updated) \o Superseded(merged.superseded)

----------------------------------------------------------------------------
(* ConsolidationRunner.run, one at a time. *)

EndsRun ==
    phase' = "idle" /\ batch' = {} /\ facts' = <<>> /\ merged' = Nothing /\ written' = 0 /\ attempt' = 0

\* selectBatch and markProcessing.
Select ==
    /\ phase = "idle" /\ Eligible # {} /\ runs < MaxRuns
    /\ runs' = runs + 1
    /\ phase' = "distilling" /\ batch' = Oldest(Eligible)
    /\ status' = [r \in Records |-> IF r \in batch' THEN "processing" ELSE status[r]]
    /\ UNCHANGED <<stm, retries, resting, facts, merged, written, attempt, ltm, nextId, told, thrown>>

\* The model answers; a candidate that no fact names has failed.
FactsOf(S) == [text : Texts, from : (SUBSET S) \ {{}}]
Distilled ==
    /\ phase = "distilling"
    /\ \E n \in 0..MaxFacts : \E fs \in [1..n -> FactsOf(batch)] :
         /\ nextId + n <= MaxLtm + 1
         /\ facts' = fs
         /\ Fails(batch \ UNION {fs[i].from : i \in 1..n})
         /\ IF n = 0 THEN phase' = "idle" /\ batch' = {} ELSE phase' = "merging" /\ UNCHANGED batch
    /\ UNCHANGED <<stm, merged, written, attempt, ltm, nextId, runs, told, thrown>>

\* getExisting answers; the merge.
Merge ==
    /\ phase = "merging" /\ phase' = "writing"
    /\ merged' = Merged /\ nextId' = Merged.next /\ written' = 0 /\ attempt' = 1
    /\ UNCHANGED <<stm, candidates, batch, facts, ltm, runs, told, thrown>>

Write ==
    /\ phase = "writing" /\ written < Len(Writes) /\ written' = written + 1
    /\ ltm' = [ltm EXCEPT ![Writes[written'].id] = Writes[written'].entry]
    /\ UNCHANGED <<stm, candidates, phase, batch, facts, merged, attempt, nextId, runs, told, thrown>>
\* Mutant: one attempt too many.
WriteFailsOnceMore ==
    /\ phase = "writing" /\ written < Len(Writes) /\ attempt <= Attempts
    /\ attempt' = attempt + 1 /\ written' = 0
    /\ UNCHANGED <<stm, candidates, phase, batch, facts, merged, ltm, nextId, runs, told, thrown>>
WriteFails ==
    /\ phase = "writing" /\ written < Len(Writes) /\ attempt < Attempts
    /\ attempt' = attempt + 1 /\ written' = 0
    /\ UNCHANGED <<stm, candidates, phase, batch, facts, merged, ltm, nextId, runs, told, thrown>>

\* markConsolidated of those that were distilled.
Completes ==
    /\ phase = "writing" /\ written = Len(Writes)
    /\ status' = [r \in Records |-> IF r \in batch /\ status[r] = "processing"
                                    THEN "consolidated" ELSE status[r]]
    /\ told' = told \cup ({f.text : f \in ToSet(facts)} \ merged.skipped)
    /\ EndsRun
    /\ UNCHANGED <<stm, retries, resting, ltm, nextId, runs, thrown>>

\* Distillation or the last attempt to write has failed, or getExisting has.
GivesUp ==
    /\ \/ phase \in {"distilling", "merging"}
       \/ phase = "writing" /\ attempt = Attempts /\ written < Len(Writes)
    /\ Fails(batch) /\ EndsRun
    /\ UNCHANGED <<stm, ltm, nextId, runs, told, thrown>>

\* The writer throws: the job catches it, the candidates keep their mark.
Throws ==
    /\ phase = "merging" \/ (phase = "writing" /\ written < Len(Writes))
    /\ thrown' = TRUE /\ EndsRun
    /\ UNCHANGED <<stm, candidates, ltm, nextId, runs, told>>

\* The user forgets a short-term record.
Forget(r) ==
    /\ r \in stm /\ stm' = stm \ {r}
    /\ UNCHANGED <<candidates, run, ltm, nextId, runs, told, thrown>>

\* The process starts anew, without candidates.
Restart ==
    /\ status' = [r \in Records |-> "none"] /\ retries' = [r \in Records |-> 0]
    /\ resting' = {} /\ thrown' = FALSE
    /\ EndsRun
    /\ UNCHANGED <<stm, ltm, nextId, runs, told>>

Next ==
    \/ Select \/ Distilled \/ Merge \/ Write \/ WriteFails \/ Completes \/ GivesUp \/ Throws \/ Restart
    \/ \E r \in Records : WindowEnds(r) \/ Forget(r)

Spec == Init /\ [][Next]_vars

----------------------------------------------------------------------------

TypeOK ==
    /\ stm \subseteq Records /\ resting \subseteq Records /\ batch \subseteq Records
    /\ status \in [Records -> {"none", "processing", "consolidated", "failed", "skipped"}]
    /\ retries \in [Records -> 0..MaxRetries]
    /\ phase \in {"idle", "distilling", "merging", "writing"}
    /\ ltm \in [Ids -> [text : Texts \cup {NoText}, supersedes : 0..MaxLtm, by : 0..MaxLtm,
                        updated : 0..MaxRuns]]
    /\ nextId \in 1..(MaxLtm + 1) /\ attempt \in 0..Attempts /\ runs \in 0..MaxRuns
    /\ told \subseteq Texts /\ thrown \in BOOLEAN

\* What a run that ended well was told is in long-term memory and stays there;
\* a record that is superseded names the one that supersedes it, which is there;
\* a text is there twice only when a record older than the second superseded the
\* first; once all is written memory is what the merge made of it, however often
\* runs failed half-way before; and a candidate is in progress only while a run
\* has it, but for a writer that threw.
ConsolidationHeld ==
    /\ told \subseteq {ltm[i].text : i \in Ids}
    /\ \A i \in Ids : ltm[i].by # 0 => ltm[ltm[i].by].supersedes = i
    /\ \A i, j \in Ids : i < j /\ ltm[i].text = ltm[j].text /\ ltm[j].text # NoText
                             => \E k \in 1..(j - 1) : ltm[k].supersedes = i
    /\ phase = "writing" /\ written = Len(Writes) => ltm = merged.view
    /\ \A r \in Records : status[r] = "processing" => r \in batch \/ thrown
=============================================================================
