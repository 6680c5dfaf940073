----------------------------- MODULE OpenClawImport -----------------------------
(***************************************************************************)
(* The import of an OpenClaw installation: the routes that start it and    *)
(* answer its conflicts (src/src/daemon/conversion-routes.ts),             *)
(* ConversionService.convert (src/src/conversion/service.ts), its conflict *)
(* detector and the mappers of four categories, while a user creates,      *)
(* renames and deletes agents (src/src/daemon/agent-routes.ts and          *)
(* src/src/agents/store.ts).                                               *)
(*                                                                         *)
(* An agent, key or channel is named by what the installation calls it;    *)
(* whose it is, or which import stored it, stands for its content: only    *)
(* imports store keys in the keychain.  A key is a profile of one of the   *)
(* three modes: an API key or a token is one record, an OAuth profile two, *)
(* its access token and then its refresh token.  "overwrite" and "merge"   *)
(* are one answer, "take": no mapper tells them apart.  A file is written  *)
(* in one step.  The categories left out (skills, conversations, shared    *)
(* references, tool and gateway configuration) never have a conflict.      *)
(***************************************************************************)
EXTENDS Naturals

CONSTANTS
    Agents, Keys, Channels,  \* what the installation has
    ByokOf,      \* each key's API key: that of its provider, or NoItem
    OAuth,       \* keys of mode oauth
    Listed,      \* agents of agents.list, imported under their id for a name
    Selections,  \* bound: the categories a user selects together
    MaxImports,  \* bound: imports
    MaxTroubles, \* bound: edits of the user, failed items and crashes, together
    NoItem

ImportLimits ==
    /\ Agents \cap Keys = {} /\ Agents \cap Channels = {} /\ Keys \cap Channels = {}
    /\ NoItem \notin Agents \cup Keys \cup Channels
    /\ ByokOf \in [Keys -> Keys \cup {NoItem}] /\ OAuth \subseteq Keys
    /\ \A k \in Keys : ByokOf[k] \in Keys => ByokOf[k] \notin OAuth
    /\ Selections \subseteq SUBSET {"agents", "memory", "keys", "channels"}
    /\ MaxImports \in Nat /\ MaxTroubles \in Nat

VARIABLES
    status,    \* conversionStatus
    pending,   \* the item of pendingConflict
    at,        \* where convert() is
    selected, dryRun,
    toDetect,  \* categories whose conflicts are not yet read
    conflicts, \* conflicts not yet answered
    answer,    \* each item's answer
    todo,      \* items of the category being mapped
    readCopy,  \* what the import read of agents.json
    additions, \* what the mapper is about to write: an agent, a refresh token, channels
    agents,    \* agents.json: whose each agent is, "other" under another name
    identity,  \* whose identity files each agent's workspace has
    keys,      \* the keychain: the import that stored each key, or 0
    refreshes, \* the same of the refresh tokens of OAuth keys
    tokens,    \* channel tokens in the keychain
    channels,  \* channels.json
    edit,      \* a call of the agent routes under way and what it read
    imports, troubles,
    faulty,    \* items whose conversion failed
    unseen,    \* items of the user that the detector did not see
    raced      \* two calls read agents.json before either wrote it

progress == <<status, pending, at, selected, dryRun, toDetect, conflicts, answer, todo,
              readCopy, additions>>
stored == <<agents, identity, keys, refreshes, tokens, channels>>
bounds == <<imports, troubles>>
Trouble == troubles < MaxTroubles /\ troubles' = troubles + 1
ghosts == <<faulty, unseen, raced>>
vars == <<progress, stored, edit, bounds, ghosts>>

Items == Agents \cup Keys \cup Channels
Categories == {"agents", "memory", "keys", "channels"}
ItemsOf(c) == CASE c = "agents" -> Agents [] c = "memory" -> Agents
                [] c = "keys" -> Keys [] OTHER -> Channels
NotRead == [a \in {} |-> "none"]
NoEdit == [does |-> "none", agent |-> NoItem, copy |-> NotRead]
Skips(c) == c # "memory" /\ \E i \in ItemsOf(c) : answer[i] = "skip"

Init ==
    /\ status = "idle" /\ pending = NoItem /\ at = "idle"
    /\ selected = {} /\ dryRun = FALSE /\ toDetect = {} /\ conflicts = {}
    /\ answer = [i \in Items |-> "none"]
    /\ todo = {} /\ readCopy = NotRead /\ additions = {}
    /\ agents \in [Agents -> {"none", "own"}]
    /\ identity = agents
    /\ keys = [k \in Keys |-> 0] /\ refreshes = [k \in Keys |-> 0]
    /\ tokens = {} /\ channels = {}
    /\ edit = NoEdit
    /\ imports = 0 /\ troubles = 0
    /\ faulty = {} /\ unseen = {} /\ raced = FALSE

\* POST /api/convert/start, refused while an import runs or waits for an answer.
Start ==
    /\ status \notin {"running", "conflict"} /\ imports < MaxImports
    /\ imports' = imports + 1
    /\ status' = "running" /\ pending' = NoItem /\ at' = "parse"
    /\ selected' \in Selections
    /\ dryRun' \in BOOLEAN
    /\ UNCHANGED <<toDetect, conflicts, answer, todo, readCopy, additions, stored, edit,
                   troubles, ghosts>>

Forget ==
    /\ at' = "idle" /\ pending' = NoItem
    /\ selected' = {} /\ dryRun' = FALSE /\ toDetect' = {} /\ conflicts' = {}
    /\ answer' = [i \in Items |-> "none"]
    /\ todo' = {} /\ readCopy' = NotRead /\ additions' = {}
    /\ faulty' = {} /\ unseen' = {}
Ends(how) == Forget /\ status' = how /\ UNCHANGED <<stored, edit, bounds, raced>>

\* loadExecutionContext.
Parsed ==
    /\ at = "parse" /\ at' = "detect"
    /\ toDetect' = selected \ {"memory"}
    /\ UNCHANGED <<status, pending, selected, dryRun, conflicts, answer, todo, readCopy,
                   additions, stored, edit, bounds, ghosts>>
ParseFails == at = "parse" /\ Ends("error")

\* ConflictDetector.detect: the categories are read side by side.  An agent is
\* found by its name, and a key by the API key of its provider, whatever its mode.
Found(c) ==
    CASE c = "agents" -> {a \in Agents : agents[a] = "own" \/ (agents[a] = "imported" /\ a \notin Listed)}
      [] c = "keys" -> {k \in Keys : ByokOf[k] # NoItem /\ keys[ByokOf[k]] # 0}
      [] c = "channels" -> Channels \cap channels
\* What is there and not found: agents under another name, stored keys that are
\* no API keys, and those the keychain fails to read.
Hidden(c, found) ==
    {a \in Agents : c = "agents" /\ agents[a] = "other"}
        \cup {k \in Keys : c = "keys" /\ keys[k] # 0 /\ k \notin found}
Detecting(c) ==
    /\ at = "detect" /\ c \in toDetect /\ toDetect' = toDetect \ {c}
    /\ at' = IF toDetect' = {} THEN "ask" ELSE "detect"
    /\ UNCHANGED <<status, pending, selected, dryRun, answer, todo, readCopy, additions,
                   stored, edit, imports, faulty, raced>>
Detect(c) ==
    /\ Detecting(c)
    /\ conflicts' = conflicts \cup Found(c)
    /\ unseen' = unseen \cup Hidden(c, Found(c))
    /\ UNCHANGED troubles
KeychainFails ==
    /\ Detecting("keys") /\ Trouble
    /\ \E read \in SUBSET Found("keys") :
          /\ read # Found("keys")
          /\ conflicts' = conflicts \cup read
          /\ unseen' = unseen \cup Hidden("keys", read)
\* agents.json or channels.json cannot be read: detect() throws.
DetectFails == at = "detect" /\ toDetect \ {"keys"} # {} /\ Ends("error")
NothingToDetect ==
    /\ at = "detect" /\ toDetect = {} /\ at' = "ask"
    /\ UNCHANGED <<status, pending, selected, dryRun, toDetect, conflicts, answer, todo,
                   readCopy, additions, stored, edit, bounds, ghosts>>

\* onConflict: the next conflict waits for POST /api/convert/resolve-conflict.
Ask(i) ==
    /\ at = "ask" /\ pending = NoItem
    /\ conflicts # {} /\ i = (CHOOSE j \in conflicts : TRUE)
    /\ conflicts' = conflicts \ {i}
    /\ pending' = i /\ status' = "conflict"
    /\ UNCHANGED <<at, selected, dryRun, toDetect, answer, todo, readCopy, additions, stored,
                   edit, bounds, ghosts>>
Answer ==
    /\ pending # NoItem /\ pending' = NoItem /\ status' = "running"
    /\ \E s \in {"take", "skip"} : answer' = [answer EXCEPT ![pending] = s]
    /\ UNCHANGED <<at, selected, dryRun, toDetect, conflicts, todo, readCopy, additions,
                   stored, edit, bounds, ghosts>>

\* The categories in their order, without those not selected and those with a
\* conflict that is to be skipped.
Order == <<"agents", "memory", "keys", "channels">>
\* Mutant: the categories to skip are not asked for.
RunsAll(c) == c \in selected
Runs(c) == c \in selected /\ ~Skips(c)
NextCategory(n) ==
    IF \E m \in n..4 : Runs(Order[m])
    THEN LET m == CHOOSE m \in n..4 : Runs(Order[m]) /\ \A l \in n..(m - 1) : ~Runs(Order[l])
         IN  at' = Order[m] /\ todo' = ItemsOf(Order[m])
    ELSE at' = "report" /\ todo' = {}
Answered ==
    /\ at = "ask" /\ pending = NoItem /\ conflicts = {}
    /\ NextCategory(1)
    /\ UNCHANGED <<status, pending, selected, dryRun, toDetect, conflicts, answer, readCopy,
                   additions, stored, edit, bounds, ghosts>>
Mapped(n) ==
    /\ at = Order[n] /\ todo = {} /\ additions = {}
    /\ NextCategory(n + 1)
    /\ UNCHANGED <<status, pending, selected, dryRun, toDetect, conflicts, answer, readCopy,
                   additions, stored, edit, bounds, ghosts>>

\* The items of a category in their order.
Mapping(c, i) ==
    /\ at = c /\ todo # {} /\ i = (CHOOSE j \in todo : TRUE) /\ todo' = todo \ {i}
    /\ c # "channels" => additions = {}
Chosen == <<status, pending, at, selected, dryRun, toDetect, conflicts, answer, edit>>
MapFrame == <<Chosen, bounds>>
FailFrame == <<Chosen, imports, stored, unseen, raced>>

\* A dry run counts every item.
DryItem(c, i) ==
    /\ Mapping(c, i) /\ dryRun
    /\ UNCHANGED <<MapFrame, readCopy, additions, stored, ghosts>>
\* What fails at an item is caught there by its mapper, and the next item follows.
ItemFails(c, i) ==
    /\ Mapping(c, i) /\ ~dryRun /\ Trouble
    /\ faulty' = IF c = "memory" THEN faulty ELSE faulty \cup {i}
    /\ UNCHANGED <<FailFrame, readCopy, additions>>
\* The second write of an item fails: AgentStore.create, or a refresh token behind
\* its access token.  Or channels.json cannot be written, and every channel to be
\* added is lost, with its token stored.
WriteFails ==
    /\ additions # {} /\ (at = "channels" => todo = {}) /\ Trouble
    /\ additions' = {} /\ readCopy' = NotRead
    /\ faulty' = faulty \cup additions
    /\ UNCHANGED <<FailFrame, todo>>
\* A workspace whose directory cannot be listed ends the whole category.
MemoryFails ==
    /\ at = "memory" /\ todo # {} /\ Trouble
    /\ todo' = {}
    /\ UNCHANGED <<FailFrame, readCopy, additions, faulty>>

\* AgentMapper.convertAgent: the workspace and its identity files, then
\* AgentStore.create, which reads the file and writes it.
AgentFiles(a) ==
    /\ Mapping("agents", a) /\ ~dryRun
    /\ identity' = [identity EXCEPT ![a] = "imported"]
    /\ readCopy' = agents
    /\ additions' = {a}
    /\ raced' = (raced \/ edit # NoEdit)
    /\ UNCHANGED <<MapFrame, agents, keys, refreshes, tokens, channels, faulty, unseen>>
AgentWritten(a) ==
    /\ at = "agents" /\ a \in additions /\ additions' = {} /\ readCopy' = NotRead
    /\ IF readCopy[a] # "none"
       THEN faulty' = faulty \cup {a} /\ UNCHANGED agents
       ELSE agents' = [readCopy EXCEPT ![a] = "imported"] /\ UNCHANGED faulty
    /\ UNCHANGED <<MapFrame, todo, identity, keys, refreshes, tokens, channels, unseen, raced>>

\* MemoryMapper: the Markdown files of the workspace, whatever was answered.
Memory(a) ==
    /\ Mapping("memory", a) /\ ~dryRun
    /\ identity' = [identity EXCEPT ![a] = "imported"]
    /\ UNCHANGED <<MapFrame, readCopy, additions, agents, keys, refreshes, tokens, channels, ghosts>>

\* CredentialMapper: one record, and for an OAuth profile a second.
Key(k) ==
    /\ Mapping("keys", k) /\ ~dryRun
    /\ keys' = [keys EXCEPT ![k] = imports]
    /\ additions' = {k} \cap OAuth
    /\ UNCHANGED <<MapFrame, readCopy, agents, identity, refreshes, tokens, channels, ghosts>>
RefreshToken(k) ==
    /\ at = "keys" /\ k \in additions /\ additions' = {}
    /\ refreshes' = [refreshes EXCEPT ![k] = imports]
    /\ UNCHANGED <<MapFrame, todo, readCopy, agents, identity, keys, tokens, channels, ghosts>>

\* ChannelMapper: a channel that is there already is passed over; the file is
\* written at the end.
Channel(n) ==
    /\ Mapping("channels", n) /\ ~dryRun
    /\ IF n \in channels THEN UNCHANGED <<tokens, additions>>
       ELSE tokens' = tokens \cup {n} /\ additions' = additions \cup {n}
    /\ UNCHANGED <<MapFrame, readCopy, agents, identity, keys, refreshes, channels, ghosts>>
ChannelsWritten ==
    /\ at = "channels" /\ todo = {} /\ additions # {}
    /\ channels' = channels \cup additions /\ additions' = {}
    /\ UNCHANGED <<MapFrame, todo, readCopy, agents, identity, keys, refreshes, tokens, ghosts>>

\* ReportGenerator.generate.
Report == at = "report" /\ \E how \in {"complete", "error"} : Ends(how)

\* The agent routes: AgentStore reads the file, and writes it with the change.
EditReads(does, a) ==
    /\ edit = NoEdit /\ Trouble
    /\ edit' = [does |-> does, agent |-> a, copy |-> agents]
    /\ raced' = (raced \/ readCopy # NotRead)
    /\ UNCHANGED <<progress, stored, imports, faulty, unseen>>
EditWrites ==
    LET a == edit.agent
        was == edit.copy[a]
        becomes == CASE edit.does = "create" -> "own" [] edit.does = "rename" -> "other"
                     [] OTHER -> "none"
    IN  /\ edit # NoEdit /\ edit' = NoEdit
        /\ IF (edit.does = "create") = (was = "none")
           THEN agents' = [edit.copy EXCEPT ![a] = becomes]
           ELSE UNCHANGED agents
        /\ unseen' = IF at # "idle" THEN unseen \cup {a} ELSE unseen
        /\ UNCHANGED <<progress, identity, keys, refreshes, tokens, channels, bounds, faulty, raced>>

\* The daemon crashes and is started again: the routes forget the import.
Crash ==
    /\ Trouble
    /\ at # "idle" \/ edit # NoEdit
    /\ Forget /\ status' = "idle" /\ edit' = NoEdit
    /\ UNCHANGED <<stored, imports, raced>>

Convert ==
    \/ Parsed \/ ParseFails \/ KeychainFails \/ DetectFails \/ NothingToDetect \/ Answered
    \/ WriteFails \/ MemoryFails \/ ChannelsWritten \/ Report
    \/ \E c \in Categories :
          Detect(c) \/ \E i \in Items : DryItem(c, i) \/ ItemFails(c, i)
    \/ \E n \in 1..4 : Mapped(n)
    \/ \E i \in Items : Ask(i)
    \/ \E a \in Agents : AgentFiles(a) \/ AgentWritten(a) \/ Memory(a)
    \/ \E k \in Keys : Key(k) \/ RefreshToken(k)
    \/ \E n \in Channels : Channel(n)
Next ==
    \/ Start \/ Convert \/ Answer \/ EditWrites \/ Crash
    \/ \E does \in {"create", "rename", "delete"}, a \in Agents : EditReads(does, a)

Spec == Init /\ [][Next]_vars

----------------------------------------------------------------------------

Owners == {"none", "own", "imported"}
TypeOK ==
    /\ status \in {"idle", "running", "conflict", "complete", "error"}
    /\ pending \in Items \cup {NoItem}
    /\ at \in Categories \cup {"idle", "parse", "detect", "ask", "report"}
    /\ selected \subseteq Categories /\ toDetect \subseteq Categories
    /\ {dryRun, raced} \subseteq BOOLEAN
    /\ conflicts \subseteq Items /\ todo \subseteq Items /\ additions \subseteq Items
    /\ answer \in [Items -> {"none", "take", "skip"}]
    /\ readCopy = NotRead \/ readCopy \in [Agents -> Owners \cup {"other"}]
    /\ agents \in [Agents -> Owners \cup {"other"}] /\ identity \in [Agents -> Owners]
    /\ {keys, refreshes} \subseteq [Keys -> 0..MaxImports]
    /\ tokens \subseteq Channels /\ channels \subseteq Channels
    /\ edit = NoEdit \/ edit.agent \in Agents
    /\ imports \in 0..MaxImports /\ troubles \in 0..MaxTroubles
    /\ faulty \subseteq Items /\ unseen \subseteq Items

\* What the routes say of the import is so: it runs, or waits for the one answer
\* that is asked for, exactly while convert() or the report is under way; and
\* every channel of channels.json has its token, at any crash.
StatusIsTrue ==
    /\ (status \in {"running", "conflict"}) <=> (at # "idle")
    /\ (status = "conflict") <=> (pending # NoItem)
    /\ channels \subseteq tokens

\* An import takes nothing it was not told to take: as long as no two calls
\* overlap in agents.json it removes no agent and replaces none, and a stored key
\* with its refresh token, or a user's identity files, only on that answer, with no
\* other answer in the category "skip" -- except for what the detector did not see
\* (Hidden), and the identity files that the memory category copies whatever is
\* answered.  A dry run takes nothing.
Taken(i) == answer[i] = "take" /\ ~dryRun
OwnIsAsked ==
    [][ /\ \A a \in Agents :
              /\ agents[a] \in {"own", "other"} =>
                     agents'[a] # "imported" \/ raced
              /\ at = at' /\ agents[a] # "none" /\ agents'[a] = "none" =>
                     edit.agent = a \/ raced
              /\ agents[a] # "none" /\ identity[a] = "own" /\ identity'[a] = "imported" =>
                     at = "memory" \/ a \in unseen \/ raced \/ (Taken(a) /\ ~Skips("agents"))
        /\ \A k \in Keys : keys[k] \notin {0, keys'[k]} \/ refreshes[k] \notin {0, refreshes'[k]} =>
              k \in unseen \/ (Taken(k) /\ ~Skips("keys"))
        /\ dryRun => edit # edit' \/ troubles # troubles' \/ stored' = stored ]_vars

\* A finished import left nothing out: whatever it selected, did not skip and could
\* store is there, an OAuth key with both of its tokens from this import, also when
\* an earlier one failed between them or was cut off by a crash.
Arrives(i) ==
    \/ i \in Agents /\ (agents[i] # "none" \/ i \in unseen)
    \/ i \in Keys /\ keys[i] = imports /\ (i \in OAuth => refreshes[i] = imports)
    \/ i \in channels
NothingLeftOut ==
    at = "report" /\ ~dryRun /\ ~raced =>
        \A c \in selected \ {"memory"} : ~Skips(c) =>
            \A i \in ItemsOf(c) \ faulty : Arrives(i)

\* No import is under way, or it waits for its user.
Resting == at = "idle" \/ pending # NoItem
=============================================================================
