------------------------------ MODULE SkillWatcher ------------------------------
(***************************************************************************)
(* The skills the model is offered and the directory they come from:       *)
(* SkillDaemonService.start (src/src/skills/skill-service.ts) scans the    *)
(* directory once (scanner.ts), then SkillWatcher (watcher.ts) rescans it  *)
(* some time after the file system reports a change, while users go on     *)
(* writing to it.                                                          *)
(*                                                                         *)
(* A directory holds no SKILL.md that parses ("broken"), or one with a     *)
(* name and a version that stands for the rest of its text.  Bound: no two *)
(* directories ever take the same name.                                    *)
(***************************************************************************)
EXTENDS Naturals, FiniteSets

CONSTANTS
    Dirs, NoDir,
    NameCount,  \* bound: names a directory may take
    MaxVersion, \* bound: versions of a skill's text
    MaxChanges  \* bound: changes of the directory

SkillLimits ==
    NoDir \notin Dirs /\ {NameCount, MaxVersion} \subseteq Nat \ {0} /\ MaxChanges \in Nat

VARIABLES
    disk,       \* what each directory holds
    changes,
    scanned,    \* directories the scan at the start has still to read, before the watch
    watching,
    registry,   \* each name's skill: its directory and version
    known,      \* knownSkills: each name's directory
    cache,      \* contentCache: each name's text
    reported,   \* a change the file system has yet to report
    timer,      \* debounceTimer is set
    rescan,     \* rescanning: "no", "listing", or "reading" with the directories left
    left,
    parsed,     \* the directory being read and what its SKILL.md parsed to
    missed      \* one of the changes that no rescan will find

vars == <<disk, changes, scanned, watching, registry, known, cache, reported, timer,
          rescan, left, parsed, missed>>

Names == Dirs \X (1..NameCount)
NoName == <<NoDir, 0>>
Skill(n, v) == [name |-> n, version |-> v]
Absent == Skill(NoName, 0)
Broken == Skill(NoName, 1)
Skills(d) == {Skill(<<d, k>>, v) : k \in 1..NameCount, v \in 1..MaxVersion}
Contents(d) == {Absent, Broken} \cup Skills(d)
AllContents == {Absent, Broken} \cup UNION {Skills(d) : d \in Dirs}
Holds(d, n) == disk[d].name = n
NotRegistered == [dir |-> NoDir, version |-> 0]
NotParsed == [dir |-> NoDir, content |-> Absent]

Init ==
    /\ disk \in {[d \in Dirs |-> IF d \in S THEN Skill(<<d, 1>>, 1) ELSE Absent] : S \in SUBSET Dirs}
    /\ changes = 0
    /\ scanned = {d \in Dirs : disk[d] # Absent} /\ watching = FALSE
    /\ registry = [n \in Names |-> NotRegistered]
    /\ known = [n \in Names |-> NoDir]
    /\ cache = [n \in Names |-> Absent]
    /\ reported = FALSE /\ timer = FALSE
    /\ rescan = "no" /\ left = {} /\ parsed = NotParsed
    /\ missed = FALSE

\* A user adds, edits, breaks or removes a directory of the skills directory; the
\* file system reports it to a watch that is open.  The change may be missed before
\* that, between the two reads of a SKILL.md, and when it is the first one to a
\* skill that the scan registered.
Change(d) ==
    /\ changes < MaxChanges /\ changes' = changes + 1
    /\ \E c \in Contents(d) \ {disk[d]} : disk' = [disk EXCEPT ![d] = c]
    /\ reported' = watching
    /\ missed' = \/ missed \/ ~watching \/ parsed.dir = d
                 \/ \E n \in Names : Holds(d, n) /\ known[n] # NoDir /\ cache[n] = Absent
    /\ UNCHANGED <<scanned, watching, registry, known, cache, timer, rescan, left, parsed>>

Register(n, d, v) == registry' = [registry EXCEPT ![n] = [dir |-> d, version |-> v]]

\* SkillScanner.scan: one directory is validated, parsed and registered, unless
\* it is broken or its name is taken.
Scan(d) ==
    /\ d \in scanned /\ scanned' = scanned \ {d}
    /\ IF \E n \in Names : Holds(d, n) /\ registry[n] = NotRegistered
       THEN Register(disk[d].name, d, disk[d].version)
       ELSE UNCHANGED registry
    /\ UNCHANGED <<disk, changes, watching, known, cache, reported, timer, rescan, left,
                   parsed, missed>>

\* SkillWatcher.start; the content cache stays empty.
Watch ==
    /\ ~watching /\ scanned = {} /\ watching' = TRUE
    /\ known' = [n \in Names |-> registry[n].dir]
    /\ UNCHANGED <<disk, changes, scanned, registry, cache, reported, timer, rescan, left,
                   parsed, missed>>

\* scheduleRescan.
Reported ==
    /\ reported /\ reported' = FALSE
    /\ timer' = TRUE
    /\ UNCHANGED <<disk, changes, scanned, watching, registry, known, cache, rescan, left,
                   parsed, missed>>

\* The debounce timer fires: a rescan begins, or nothing does while one is going on.
Fires ==
    /\ timer /\ timer' = FALSE
    /\ IF rescan = "no" THEN rescan' = "listing" /\ UNCHANGED missed
       ELSE missed' = TRUE /\ UNCHANGED rescan
    /\ UNCHANGED <<disk, changes, scanned, watching, registry, known, cache, reported, left, parsed>>

Rescanning == <<disk, changes, scanned, watching, reported, timer>>

\* Mutant: the cache keeps the text of a skill whose directory is gone.
ListKeepingText ==
    /\ rescan = "listing" /\ rescan' = "reading"
    /\ left' = {d \in Dirs : disk[d] # Absent}
    /\ LET Gone == {n \in Names : known[n] \in Dirs \ left'}
       IN  registry' = [n \in Names |-> IF n \in Gone THEN NotRegistered ELSE registry[n]]
    /\ UNCHANGED <<Rescanning, known, cache, parsed, missed>>

\* performRescan: the directories are listed, and skills whose directory is gone
\* are removed.
List ==
    /\ rescan = "listing" /\ rescan' = "reading"
    /\ left' = {d \in Dirs : disk[d] # Absent}
    /\ LET Gone == {n \in Names : known[n] \in Dirs \ left'}
       IN  /\ registry' = [n \in Names |-> IF n \in Gone THEN NotRegistered ELSE registry[n]]
           /\ known' = [n \in Names |-> IF n \in Gone THEN NoDir ELSE known[n]]
           /\ cache' = [n \in Names |-> IF n \in Gone THEN Absent ELSE cache[n]]
    /\ UNCHANGED <<Rescanning, parsed, missed>>

\* The next directory is validated and its SKILL.md parsed, and skipped if that fails.
Parse(d) ==
    /\ rescan = "reading" /\ parsed = NotParsed /\ d \in left
    /\ left' = left \ {d}
    /\ parsed' = IF \E n \in Names : Holds(d, n) THEN [dir |-> d, content |-> disk[d]] ELSE NotParsed
    /\ UNCHANGED <<Rescanning, registry, known, cache, rescan, missed>>

\* The text is read a second time, compared with the cached one, and the skill
\* registered, or registered anew, as it was parsed.
Compare ==
    LET d == parsed.dir
        n == parsed.content.name
        raw == disk[d]
    IN  /\ parsed # NotParsed /\ parsed' = NotParsed
        /\ IF raw = Absent \/ (known[n] # NoDir /\ cache[n] = raw)
           THEN UNCHANGED <<registry, known, cache>>
           ELSE /\ cache' = [cache EXCEPT ![n] = raw]
                /\ IF known[n] # NoDir /\ cache[n] = Absent
                   THEN UNCHANGED <<registry, known>>
                   ELSE /\ Register(n, d, parsed.content.version)
                        /\ known' = [known EXCEPT ![n] = d]
        /\ UNCHANGED <<Rescanning, rescan, left, missed>>
Rescanned ==
    /\ rescan = "reading" /\ left = {} /\ parsed = NotParsed
    /\ rescan' = "no"
    /\ UNCHANGED <<Rescanning, registry, known, cache, left, parsed, missed>>

Progress ==
    \/ Watch \/ Reported \/ Fires \/ List \/ Compare \/ Rescanned
    \/ \E d \in Dirs : Scan(d) \/ Parse(d)
Next == Progress \/ \E d \in Dirs : Change(d)

Spec == Init /\ [][Next]_vars

----------------------------------------------------------------------------

TypeOK ==
    /\ disk \in [Dirs -> AllContents] /\ changes \in 0..MaxChanges
    /\ scanned \subseteq Dirs /\ left \subseteq Dirs
    /\ {watching, reported, timer, missed} \subseteq BOOLEAN
    /\ registry \in [Names -> [dir : Dirs \cup {NoDir}, version : 0..MaxVersion]]
    /\ known \in [Names -> Dirs \cup {NoDir}]
    /\ cache \in [Names -> AllContents]
    /\ rescan \in {"no", "listing", "reading"}
    /\ parsed \in [dir : Dirs \cup {NoDir}, content : AllContents]

\* No change is on its way and no rescan.
Resting == watching /\ ~reported /\ ~timer /\ rescan = "no"

\* At rest the registry agrees with the directory: every skill on disk is
\* registered as it is there, and every registered skill's directory exists.
\* The exceptions are the changes no rescan will find: one before the watch is open, one between the two reads of a SKILL.md, one
\* reported while a rescan is going on for longer than the debounce, and the
\* first one to a skill that was there at the start.
SkillsMirrored ==
    Resting /\ ~missed =>
        /\ \A n \in Names : registry[n] # NotRegistered => disk[registry[n].dir] # Absent
        /\ \A d \in Dirs : \A n \in Names :
               Holds(d, n) => registry[n] = [dir |-> d, version |-> disk[d].version]
=============================================================================
