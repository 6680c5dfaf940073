---------------------------- MODULE SessionRepository ----------------------------
(***************************************************************************)
(* The session metadata of src/src/conversation/session-repository.ts:     *)
(* every call, one that only reads too, loads sessions.json, puts its main *)
(* session right and writes it back; one that changes something then       *)
(* writes it again.  A write is a new file renamed over the old, whole or  *)
(* not at all.  Nothing keeps two calls apart.                             *)
(*                                                                         *)
(* Sessions are numbered as their ids are made; of their data the status   *)
(* is kept, which compaction changes.  What a call is to do is chosen once *)
(* it has the sessions.                                                    *)
(***************************************************************************)
EXTENDS Naturals, FiniteSets

CONSTANTS
    Calls,   \* calls that may be in progress together
    MaxIds, MaxLoads \* bounds: sessions ever made, calls made

VARIABLES
    file,    \* sessions.json, NoFile when there is none
    at, mem, \* per call: where it is, the sessions it works on
    reply,   \* per call: what it will return once its write is done
    made, loads, \* ids handed out, calls made
    said,    \* history: what was last answered of each session, and of the main one,
             \* until calls overlap
    overlapped, \* history: two calls were in progress together
    sure, gone  \* history: sessions made, and deleted, while no one else held the file

vars == <<file, at, mem, reply, made, loads, said, overlapped, sure, gone>>

SessionLimits == MaxIds \in Nat /\ MaxLoads \in Nat

Ids == 1..MaxIds
Statuses == {"active", "compacting", "archived"}
NoFile == [main |-> 0, mains |-> {}, status |-> [i \in Ids |-> "none"]]
NoReply == [main |-> 0, ids |-> {}]
Has(state) == {i \in Ids : state.status[i] # "none"}
First(S) == CHOOSE i \in S : \A j \in S : i <= j

Init ==
    /\ file = NoFile /\ made = 0 /\ loads = 0
    /\ at = [c \in Calls |-> "idle"] /\ mem = [c \in Calls |-> NoFile]
    /\ reply = [c \in Calls |-> NoReply]
    /\ said = NoFile /\ overlapped = FALSE /\ sure = {} /\ gone = {}

\* normalizeMain.
NormalMain(state) ==
    LET main == IF state.main \in Has(state) THEN state.main ELSE First(Has(state))
    IN  [state EXCEPT !.main = main, !.mains = {main}]

Adds(state, i, asMain) ==
    [state EXCEPT !.status[i] = "active", !.main = IF asMain THEN i ELSE @,
                  !.mains = IF asMain THEN {i} ELSE @]

Others(c) == \E d \in Calls \ {c} : at[d] # "idle"
Ends(c) ==
    /\ at' = [at EXCEPT ![c] = "idle"] /\ mem' = [mem EXCEPT ![c] = NoFile]
    /\ reply' = [reply EXCEPT ![c] = NoReply]

\* loadState: without a file, a main session is made.
Load(c) ==
    /\ at[c] = "idle" /\ at' = [at EXCEPT ![c] = "loaded"]
    /\ loads < MaxLoads /\ loads' = loads + 1
    /\ overlapped' = (overlapped \/ Others(c))
    /\ said' = (IF overlapped' THEN NoFile ELSE said)
    /\ IF file # NoFile
       THEN mem' = [mem EXCEPT ![c] = NormalMain(file)] /\ UNCHANGED <<made, gone>>
       ELSE /\ made < MaxIds /\ made' = made + 1
            /\ mem' = [mem EXCEPT ![c] = Adds(NoFile, made + 1, TRUE)] /\ UNCHANGED gone
    /\ UNCHANGED <<file, reply, sure>>

\* persistState of a call: what it has is in the file now.  Others that have
\* loaded the file may still put theirs in its place.
Writes(c, deleted) ==
    /\ file' = NormalMain(mem[c])
    /\ sure' = (IF Others(c) THEN sure ELSE sure \cup Has(mem[c])) \ deleted
    /\ gone' = IF Others(c) THEN gone ELSE gone \cup ((1..made) \ Has(mem[c]))

\* A call that only reads, or is refused, ends with what it loaded.
Answers(c) ==
    /\ at[c] = "loaded" /\ Writes(c, {}) /\ Ends(c)
    /\ said' = IF overlapped THEN NoFile ELSE [NormalMain(mem[c]) EXCEPT !.mains = {}]
    /\ UNCHANGED <<made, loads, overlapped>>

\* The others go on to change what they loaded, and begin to write it.
Changes(c, state, main, ids) ==
    /\ at[c] = "loaded" /\ Writes(c, Has(mem[c]) \ Has(state))
    /\ at' = [at EXCEPT ![c] = "saving"]
    /\ mem' = [mem EXCEPT ![c] = state]
    /\ reply' = [reply EXCEPT ![c] = [main |-> main, ids |-> ids]]
    /\ UNCHANGED <<loads, said, overlapped>>

\* create, of a fork or a new session.
Create(c, asMain) ==
    /\ made < MaxIds /\ made' = made + 1
    /\ Changes(c, Adds(mem[c], made + 1, asMain), IF asMain THEN made + 1 ELSE 0, {made + 1})
\* newSession, which archives the main one.
\* Mutant: the new session is marked as the main one, and not made it.
NewSessionMarked(c) ==
    LET old == [mem[c] EXCEPT !.status[mem[c].main] = "archived", !.mains = {}]
    IN  /\ made < MaxIds /\ made' = made + 1
        /\ Changes(c, [old EXCEPT !.status[made + 1] = "active", !.mains = {made + 1}],
                   made + 1, {mem[c].main, made + 1})
NewSession(c) ==
    LET old == [mem[c] EXCEPT !.status[mem[c].main] = "archived", !.mains = {}]
    IN  /\ made < MaxIds /\ made' = made + 1
        /\ Changes(c, Adds(old, made + 1, TRUE), made + 1, {mem[c].main, made + 1})
Update(c, i, status) ==
    /\ i \in Has(mem[c])
    /\ Changes(c, [mem[c] EXCEPT !.status[i] = status], IF i \in mem[c].mains THEN i ELSE 0, {i})
    /\ UNCHANGED made
SetMain(c, i) ==
    /\ i \in Has(mem[c])
    /\ Changes(c, [mem[c] EXCEPT !.mains = {i}, !.main = i], i, {i})
    /\ UNCHANGED made
\* delete: of the main session, another takes its place: a given one, or
\* the first there is.
Drops(state, i, m) == [state EXCEPT !.status[i] = "none", !.mains = (@ \cup {m}) \ {0}, !.main = m]
Delete(c, i) ==
    /\ i \in Has(mem[c]) /\ UNCHANGED made
    /\ \/ i \notin mem[c].mains /\ Changes(c, Drops(mem[c], i, mem[c].main), 0, {i})
       \/ /\ i \in mem[c].mains /\ Cardinality(Has(mem[c])) > 1
          /\ \E m \in Has(mem[c]) : Changes(c, Drops(mem[c], i, m), IF m = i THEN 0 ELSE m, {i})

Saved(c) ==
    /\ at[c] = "saving" /\ Writes(c, {}) /\ Ends(c)
    /\ said' = IF overlapped THEN NoFile
               ELSE [main |-> IF reply[c].main # 0 THEN reply[c].main ELSE said.main, mains |-> {},
                     status |-> [i \in Ids |-> IF i \in reply[c].ids THEN mem[c].status[i]
                                               ELSE said.status[i]]]
    /\ UNCHANGED <<made, loads, overlapped>>
\* mkdir, the write or the rename fails: the call returns an error.
WriteFails(c) ==
    /\ at[c] # "idle" /\ Ends(c)
    /\ UNCHANGED <<file, made, loads, said, overlapped, sure, gone>>

\* The process ends and starts again.
Restart ==
    /\ \E c \in Calls : at[c] # "idle"
    /\ at' = [c \in Calls |-> "idle"] /\ mem' = [c \in Calls |-> NoFile]
    /\ reply' = [c \in Calls |-> NoReply]
    /\ UNCHANGED <<file, made, loads, said, overlapped, sure, gone>>

Next ==
    \/ Restart
    \/ \E c \in Calls :
         \/ Load(c) \/ Answers(c) \/ NewSession(c) \/ Saved(c) \/ WriteFails(c)
         \/ \E asMain \in BOOLEAN : Create(c, asMain)
         \/ \E i \in Ids : SetMain(c, i) \/ Delete(c, i)
                             \/ \E status \in Statuses \ {"archived"} : Update(c, i, status)

Spec == Init /\ [][Next]_vars

----------------------------------------------------------------------------

States == [main : 0..MaxIds, mains : SUBSET Ids, status : [Ids -> Statuses \cup {"none"}]]
TypeOK ==
    /\ file \in States /\ said \in States /\ mem \in [Calls -> States]
    /\ at \in [Calls -> {"idle", "loaded", "saving"}]
    /\ reply \in [Calls -> [main : 0..MaxIds, ids : SUBSET Ids]]
    /\ made \in 0..MaxIds /\ loads \in 0..MaxLoads /\ overlapped \in BOOLEAN /\ sure \subseteq Ids /\ gone \subseteq Ids

\* A session that was made while no other call held the file stays until it is
\* deleted, one that was deleted so does not come back, whatever overlaps later.
\* With no calls in progress together the file holds what was last answered: the
\* session a caller was told is the main one is, each has the status answered,
\* whichever writes failed and wherever the process ended; the main session is one
\* that exists.
SessionsKept ==
    /\ file # NoFile => file.main \in Has(file) /\ file.mains = {file.main}
    /\ sure \subseteq Has(file) /\ gone \cap Has(file) = {}
    /\ ~overlapped =>
          /\ said.main # 0 /\ said.status[said.main] # "none" => file.main = said.main
          /\ \A i \in Ids : said.status[i] # "none" => file.status[i] = said.status[i]
=============================================================================
