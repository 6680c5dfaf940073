---------------------------- MODULE ImportProofs ----------------------------
(***************************************************************************)
(* For every value of the constants: what MCServices promises of the       *)
(* import of an OpenClaw installation (OpenClawImport).  After the         *)
(* detection, what the user has is asked about, or was not seen; behind a  *)
(* category that was mapped all of its items are there; and nobody holds   *)
(* an old copy of agents.json, unless two calls overlapped in it.          *)
(***************************************************************************)
EXTENDS MCServices, TLAPS

ImportControl ==
    /\ status \in {"idle", "running", "conflict", "complete", "error"}
    /\ importAt \in Import!Categories \cup {"idle", "parse", "detect", "ask", "report"}
    /\ selected \subseteq Import!Categories
    /\ toDetect \subseteq {"agents", "keys", "channels"}
    /\ dryRun \in BOOLEAN /\ raced \in BOOLEAN
ImportSets ==
    /\ pending \in Import!Items \cup {NoItem}
    /\ conflicts \subseteq Import!Items /\ todo \subseteq Import!Items
    /\ additions \subseteq Import!Items
    /\ answer \in [Import!Items -> {"none", "take", "skip"}]
    /\ faulty \subseteq Import!Items /\ unseen \subseteq Import!Items
    /\ tokens \subseteq Channels /\ channels \subseteq Channels
    /\ identity \in [Agents -> Import!Owners]
AnyOwner == [Agents -> Import!Owners \cup {"other"}]
ImportFiles ==
    /\ readCopy = Import!NotRead \/ readCopy \in AnyOwner
    /\ agents \in AnyOwner
    /\ edit = Import!NoEdit \/ (edit.agent \in Agents /\ edit.copy \in AnyOwner)
ImportNumbers ==
    /\ keys \in [Keys -> 0..MaxImports] /\ refreshes \in [Keys -> 0..MaxImports]
    /\ \A k \in Keys : refreshes[k] # 0 => keys[k] # 0
    /\ imports \in 0..MaxImports /\ troubles \in 0..MaxTroubles
    /\ importAt # "idle" => imports # 0

\* Where convert() is decides what it holds.
ImportPlaces ==
    /\ importAt = "idle" => selected = {}
    /\ importAt \in {"idle", "parse"} => conflicts = {}
    /\ importAt \notin {"idle", "parse", "detect"} => toDetect = {}
    /\ pending # NoItem => importAt = "ask"
    /\ importAt \notin {"idle", "parse", "detect", "ask"} => conflicts = {}
    /\ importAt \in {"agents", "memory"} => todo \subseteq Agents
    /\ importAt = "keys" => todo \subseteq Keys
    /\ importAt = "channels" => todo \subseteq Channels
    /\ \A c \in Import!Categories : importAt = c => Import!Runs(c)
InHand ==
    /\ importAt \notin {"agents", "keys", "channels"} => additions = {}
    /\ importAt = "keys" => \A j, k \in additions : j = k /\ k \in Keys /\ keys[k] = imports
    /\ importAt = "agents" => \A a, b \in additions : a = b /\ identity[a] = "imported"
    /\ importAt = "channels" => additions \subseteq tokens
    /\ additions # {} => ~dryRun
    /\ (importAt = "agents" /\ additions # {}) <=> readCopy # Import!NotRead

OneCopy ==
    ~raced =>
        /\ readCopy # Import!NotRead => edit = Import!NoEdit /\ readCopy = agents
        /\ edit # Import!NoEdit => edit.copy = agents
        /\ \A a \in Agents : agents[a] = "imported" => identity[a] = "imported"

\* What was read of a category is asked about.
Detected(c) == c \in selected \ toDetect /\ importAt \notin {"idle", "parse"}
Asked(i) == i \in unseen \cup conflicts \/ pending = i \/ answer[i] # "none"
AskedAbout ==
    /\ ~raced /\ Detected("agents") =>
          \A a \in Agents : agents[a] \in {"own", "other"} => Asked(a)
    /\ Detected("keys") =>
          \A k \in Keys : keys[k] \notin {0, imports} \/ refreshes[k] \notin {0, imports} => Asked(k)

\* What a category that is being mapped, or was, need not have stored.
Missing(c) ==
    faulty \cup (IF c = "agents" THEN unseen ELSE {})
        \cup (IF importAt = c THEN todo \cup additions ELSE {})
KeyThere(k) == keys[k] = imports /\ (k \in OAuth => refreshes[k] = imports)
ArrivedSoFar ==
    ~dryRun =>
        /\ ~raced /\ Import!Runs("agents") /\ importAt \in Import!Categories \cup {"report"} =>
              \A a \in Agents \ Missing("agents") : agents[a] # "none"
        /\ Import!Runs("keys") /\ importAt \in {"keys", "channels", "report"} =>
              \A k \in Keys \ Missing("keys") : KeyThere(k)
        /\ Import!Runs("channels") /\ importAt \in {"channels", "report"} =>
              Channels \ Missing("channels") \subseteq channels

ImportShapes == ImportControl /\ ImportSets /\ ImportFiles /\ ImportNumbers
ImportInv ==
    /\ ImportShapes /\ ImportPlaces /\ InHand /\ Import!StatusIsTrue
    /\ OneCopy /\ AskedAbout /\ ArrivedSoFar

USE DEF Import!progress, Import!stored, Import!bounds, Import!ghosts, Import!Chosen, Import!MapFrame, Import!FailFrame

LEMMA ImportBounds ==
    /\ MaxImports \in Nat /\ MaxTroubles \in Nat
    /\ Agents \cap Keys = {} /\ Agents \cap Channels = {} /\ Keys \cap Channels = {}
    /\ NoItem \notin Import!Items
    /\ Selections \subseteq SUBSET Import!Categories
BY ServicesLimits DEF Import!ImportLimits, Import!Items, Import!Categories

LEMMA ItemsAre ==
    /\ Import!ItemsOf("agents") = Agents /\ Import!ItemsOf("memory") = Agents
    /\ Import!ItemsOf("keys") = Keys /\ Import!ItemsOf("channels") = Channels
BY DEF Import!ItemsOf

LEMMA TroubleCounted == ASSUME ImportNumbers, Import!Trouble PROVE troubles' \in 0..MaxTroubles
BY ImportBounds DEF ImportNumbers, Import!Trouble

LEMMA RunsKept ==
    ASSUME UNCHANGED <<selected, answer>>, NEW c \in Import!Categories
    PROVE  /\ Import!Runs(c)' <=> Import!Runs(c)
           /\ Import!Skips(c)' <=> Import!Skips(c)
BY ItemsAre DEF Import!Runs, Import!Skips, Import!ItemsOf, Import!Categories

\* Where the import ends, and where a crash cuts it off, it holds nothing.
LEMMA Forgets ==
    ASSUME ImportInv, Import!Forget, status' \in {"idle", "complete", "error"},
           UNCHANGED <<agents, identity, keys, refreshes, tokens, channels, imports, raced>>,
           edit' \in {edit, Import!NoEdit}, troubles' \in 0..MaxTroubles
    PROVE  ImportInv'
<1> USE DEF Import!Forget
<1>1. ImportControl' /\ ImportFiles' /\ ImportNumbers'
    BY DEF ImportInv, ImportShapes, ImportControl, ImportFiles, ImportNumbers
<1>2. ImportSets'
    BY DEF ImportInv, ImportShapes, ImportSets
<1>3. ImportPlaces' /\ InHand'
    BY DEF ImportPlaces, InHand, Import!Categories
<1>4. Import!StatusIsTrue'
    BY DEF ImportInv, Import!StatusIsTrue
<1>5. OneCopy'
    BY DEF ImportInv, OneCopy
<1>6. AskedAbout'
    BY DEF AskedAbout, Detected
<1>7. ArrivedSoFar'
    BY DEF ArrivedSoFar, KeyThere, Import!Categories
<1> QED
    BY <1>1, <1>2, <1>3, <1>4, <1>5, <1>6, <1>7 DEF ImportInv, ImportShapes

LEMMA ImportEnds ==
    ASSUME ImportInv, Import!ParseFails \/ Import!DetectFails \/ Import!Report
    PROVE  ImportInv'
<1>1. Import!Ends("error") \/ Import!Ends("complete")
    BY DEF Import!ParseFails, Import!DetectFails, Import!Report
<1>2. troubles \in 0..MaxTroubles
    BY DEF ImportInv, ImportShapes, ImportNumbers
<1> QED
    BY <1>1, <1>2, Forgets DEF Import!Ends

LEMMA ImportCrash == ASSUME ImportInv, Import!Crash PROVE ImportInv'
<1>1. troubles' \in 0..MaxTroubles
    BY TroubleCounted DEF ImportInv, ImportShapes, Import!Crash
<1> QED
    BY <1>1, Forgets DEF Import!Crash

LEMMA ImportStart == ASSUME ImportInv, Import!Start PROVE ImportInv'
<1> USE DEF Import!Start
<1>1. importAt = "idle" /\ pending = NoItem
    BY DEF ImportInv, Import!StatusIsTrue
<1>2. ImportControl'
    <2>1. selected' \subseteq Import!Categories
        BY ImportBounds
    <2> QED
        BY <2>1 DEF ImportInv, ImportShapes, ImportControl
<1>3. ImportSets' /\ ImportFiles' /\ OneCopy'
    BY DEF ImportInv, ImportShapes, ImportSets, ImportFiles, OneCopy
<1>4. ImportNumbers'
    BY ImportBounds DEF ImportInv, ImportShapes, ImportNumbers
<1>5. ImportPlaces' /\ InHand'
    BY <1>1 DEF ImportInv, ImportPlaces, InHand, Import!Categories
<1>6. Import!StatusIsTrue'
    BY DEF ImportInv, Import!StatusIsTrue
<1>7. AskedAbout' /\ ArrivedSoFar'
    BY DEF AskedAbout, Detected, ArrivedSoFar, KeyThere, Import!Categories
<1> QED
    BY <1>2, <1>3, <1>4, <1>5, <1>6, <1>7 DEF ImportInv, ImportShapes

LEMMA ImportParsed == ASSUME ImportInv, Import!Parsed PROVE ImportInv'
<1> USE DEF Import!Parsed
<1>1. ImportControl'
    BY DEF ImportInv, ImportShapes, ImportControl, Import!Categories
<1>2. ImportSets' /\ ImportFiles' /\ ImportNumbers' /\ OneCopy'
    BY DEF ImportInv, ImportShapes, ImportSets, ImportFiles, ImportNumbers, OneCopy
<1>3. ImportPlaces' /\ InHand'
    BY DEF ImportInv, ImportPlaces, InHand, Import!Categories
<1>4. Import!StatusIsTrue'
    BY DEF ImportInv, Import!StatusIsTrue
<1>5. AskedAbout' /\ ArrivedSoFar'
    BY DEF AskedAbout, Detected, ArrivedSoFar, KeyThere, Import!Categories
<1> QED
    BY <1>1, <1>2, <1>3, <1>4, <1>5 DEF ImportInv, ImportShapes

\* The detector finds what the user has, or notes what it cannot see.
LEMMA Detects ==
    ASSUME ImportInv, NEW c \in Import!Categories, Import!Detecting(c),
           troubles' \in 0..MaxTroubles,
           conflicts' \subseteq Import!Items, unseen' \subseteq Import!Items,
           conflicts \subseteq conflicts', unseen \subseteq unseen',
           c = "agents" => \A a \in Agents : agents[a] \in {"own", "other"} => a \in conflicts' \cup unseen',
           c = "keys" => \A k \in Keys : keys[k] # 0 => k \in conflicts' \cup unseen'
    PROVE  ImportInv'
<1> USE DEF Import!Detecting
<1>1. ImportControl'
    BY DEF ImportInv, ImportShapes, ImportControl
<1>2. ImportSets' /\ ImportFiles' /\ ImportNumbers' /\ OneCopy'
    BY DEF ImportInv, ImportShapes, ImportSets, ImportFiles, ImportNumbers, OneCopy
<1>3. ImportPlaces' /\ InHand'
    BY DEF ImportInv, ImportPlaces, InHand, Import!Categories
<1>4. Import!StatusIsTrue'
    BY DEF ImportInv, Import!StatusIsTrue
<1>5. AskedAbout'
    BY DEF ImportInv, ImportShapes, ImportNumbers, AskedAbout, Detected, Asked
<1>6. ArrivedSoFar'
    BY DEF ArrivedSoFar, KeyThere, Import!Categories
<1> QED
    BY <1>1, <1>2, <1>3, <1>4, <1>5, <1>6 DEF ImportInv, ImportShapes

LEMMA ImportDetect ==
    ASSUME ImportInv, NEW c \in Import!Categories, Import!Detect(c)
    PROVE  ImportInv'
<1>1. c \in {"agents", "keys", "channels"}
    BY DEF Import!Detect, Import!Detecting, ImportInv, ImportShapes, ImportControl
<1>2. conflicts \subseteq Import!Items /\ unseen \subseteq Import!Items
    BY DEF ImportInv, ImportShapes, ImportSets
<1>3. /\ conflicts' \subseteq Import!Items /\ unseen' \subseteq Import!Items
      /\ conflicts \subseteq conflicts' /\ unseen \subseteq unseen'
    BY <1>1, <1>2 DEF Import!Detect, Import!Found, Import!Hidden, Import!Items
<1>4. c = "agents" => \A a \in Agents : agents[a] \in {"own", "other"} => a \in conflicts' \cup unseen'
    BY DEF Import!Detect, Import!Found, Import!Hidden
<1>5. c = "keys" => \A k \in Keys : keys[k] # 0 => k \in conflicts' \cup unseen'
    BY DEF Import!Detect, Import!Hidden
<1>6. troubles' \in 0..MaxTroubles
    BY DEF Import!Detect, ImportInv, ImportShapes, ImportNumbers
<1> QED
    BY <1>3, <1>4, <1>5, <1>6, Detects DEF Import!Detect

LEMMA ImportKeychainFails == ASSUME ImportInv, Import!KeychainFails PROVE ImportInv'
<1>1. conflicts \subseteq Import!Items /\ unseen \subseteq Import!Items
    BY DEF ImportInv, ImportShapes, ImportSets
<1>2. /\ conflicts \subseteq conflicts' /\ conflicts' \subseteq Import!Items
      /\ unseen \subseteq unseen' /\ unseen' \subseteq Import!Items
      /\ \A k \in Keys : keys[k] # 0 => k \in conflicts' \cup unseen'
    BY <1>1 DEF Import!KeychainFails, Import!Found, Import!Hidden, Import!Items
<1>3. troubles' \in 0..MaxTroubles
    BY TroubleCounted DEF ImportInv, ImportShapes, Import!KeychainFails
<1>4. Import!Detecting("keys") /\ "keys" \in Import!Categories
    BY DEF Import!KeychainFails, Import!Categories
<1> QED
    BY <1>1, <1>2, <1>3, <1>4, Detects

LEMMA ImportNothingToDetect == ASSUME ImportInv, Import!NothingToDetect PROVE ImportInv'
<1> USE DEF Import!NothingToDetect
<1>1. ImportControl' /\ ImportSets' /\ ImportFiles' /\ ImportNumbers' /\ OneCopy'
    BY DEF ImportInv, ImportShapes, ImportControl, ImportSets, ImportFiles, ImportNumbers, OneCopy
<1>2. ImportPlaces' /\ InHand'
    BY DEF ImportInv, ImportPlaces, InHand, Import!Categories
<1>3. Import!StatusIsTrue'
    BY DEF ImportInv, Import!StatusIsTrue
<1>4. AskedAbout' /\ ArrivedSoFar'
    BY DEF ImportInv, AskedAbout, Detected, Asked, ArrivedSoFar, KeyThere, Import!Categories
<1> QED
    BY <1>1, <1>2, <1>3, <1>4 DEF ImportInv, ImportShapes

LEMMA ImportAsk ==
    ASSUME ImportInv, NEW i \in Import!Items, Import!Ask(i)
    PROVE  ImportInv'
<1> USE DEF Import!Ask
<1>1. i # NoItem
    BY ImportBounds
<1>2. ImportControl' /\ ImportSets' /\ ImportFiles' /\ ImportNumbers' /\ OneCopy'
    BY DEF ImportInv, ImportShapes, ImportControl, ImportSets, ImportFiles, ImportNumbers, OneCopy
<1>3. ImportPlaces' /\ InHand'
    BY DEF ImportInv, ImportPlaces, InHand, Import!Categories
<1>4. Import!StatusIsTrue'
    BY <1>1 DEF ImportInv, Import!StatusIsTrue
<1>5. \A j \in Import!Items : Asked(j) => Asked(j)'
    BY ImportBounds DEF Asked
<1>6. AskedAbout'
    BY <1>5 DEF ImportInv, AskedAbout, Detected, Import!Items
<1>7. ArrivedSoFar'
    BY DEF ArrivedSoFar, KeyThere, Import!Categories
<1> QED
    BY <1>2, <1>3, <1>4, <1>6, <1>7 DEF ImportInv, ImportShapes

LEMMA ImportAnswer == ASSUME ImportInv, Import!Answer PROVE ImportInv'
<1> USE DEF Import!Answer
<1>1. importAt = "ask" /\ pending \in Import!Items
    BY DEF ImportInv, ImportShapes, ImportSets, ImportPlaces
<1>2. ImportControl' /\ ImportFiles' /\ ImportNumbers' /\ OneCopy'
    BY DEF ImportInv, ImportShapes, ImportControl, ImportFiles, ImportNumbers, OneCopy
<1>3. ImportSets'
    BY DEF ImportInv, ImportShapes, ImportSets
<1>4. ImportPlaces' /\ InHand'
    BY <1>1 DEF ImportInv, ImportPlaces, InHand, Import!Categories
<1>5. Import!StatusIsTrue'
    BY <1>1 DEF ImportInv, Import!StatusIsTrue
<1>6. \A j \in Import!Items : Asked(j) => Asked(j)'
    BY <1>1 DEF ImportInv, ImportShapes, ImportSets, Asked
<1>7. AskedAbout'
    BY <1>6 DEF ImportInv, AskedAbout, Detected, Import!Items
<1>8. ArrivedSoFar'
    BY <1>1 DEF ArrivedSoFar, KeyThere, Import!Categories
<1> QED
    BY <1>2, <1>3, <1>4, <1>5, <1>7, <1>8 DEF ImportInv, ImportShapes

\* The next category is the first that runs.
LEMMA OrderIs ==
    /\ Import!Order[1] = "agents" /\ Import!Order[2] = "memory"
    /\ Import!Order[3] = "keys" /\ Import!Order[4] = "channels"
BY DEF Import!Order

LEMMA FirstThatRuns ==
    ASSUME NEW n \in 1..5, NEW m \in n..4, Import!Runs(Import!Order[m])
    PROVE  \E f \in n..4 : /\ Import!Runs(Import!Order[f])
                           /\ \A l \in n..(f - 1) : ~Import!Runs(Import!Order[l])
<1> DEFINE R(l) == Import!Runs(Import!Order[l])
<1>1. R(m)
    OBVIOUS
<1> HIDE DEF R
<1>2. \E f \in n..4 : R(f) /\ \A l \in n..(f - 1) : ~R(l)
    <2>1. CASE n <= 1 /\ R(1)
        BY <2>1
    <2>2. CASE n <= 2 /\ R(2) /\ ~(n <= 1 /\ R(1))
        <3>1. 2 \in n..4 /\ \A l \in n..(2 - 1) : ~R(l)
            BY <2>2
        <3> QED
            BY <3>1, <2>2
    <2>3. CASE n <= 3 /\ R(3) /\ ~(n <= 1 /\ R(1)) /\ ~(n <= 2 /\ R(2))
        <3>1. 3 \in n..4 /\ \A l \in n..(3 - 1) : ~R(l)
            BY <2>3
        <3> QED
            BY <3>1, <2>3
    <2>4. CASE ~(n <= 1 /\ R(1)) /\ ~(n <= 2 /\ R(2)) /\ ~(n <= 3 /\ R(3))
        <3>1. m = 4
            BY <1>1, <2>4
        <3>2. 4 \in n..4 /\ \A l \in n..(4 - 1) : ~R(l)
            BY <2>4
        <3> QED
            BY <1>1, <3>1, <3>2
    <2> QED
        BY <2>1, <2>2, <2>3, <2>4
<1> QED
    BY <1>2 DEF R

LEMMA NextCategoryIs ==
    ASSUME NEW n \in 1..5, Import!NextCategory(n)
    PROVE  /\ importAt' \in Import!Categories \cup {"report"}
           /\ importAt' = "report" => todo' = {}
           /\ \A c \in Import!Categories :
                  importAt' = c => Import!Runs(c) /\ todo' = Import!ItemsOf(c)
           /\ n <= 1 /\ Import!Runs("agents") => importAt' = "agents"
           /\ n <= 3 /\ Import!Runs("keys") => importAt' \in {"agents", "memory", "keys"}
           /\ n <= 4 /\ Import!Runs("channels") => importAt' # "report"
<1> DEFINE R(l) == Import!Runs(Import!Order[l])
<1>1. CASE \E m \in n..4 : R(m)
    <2>1. PICK f \in n..4 : /\ importAt' = Import!Order[f] /\ todo' = Import!ItemsOf(Import!Order[f])
                            /\ R(f) /\ \A l \in n..(f - 1) : ~R(l)
        <3>1. \E f \in n..4 : R(f) /\ \A l \in n..(f - 1) : ~R(l)
            BY <1>1, FirstThatRuns
        <3> QED
            BY <1>1, <3>1 DEF Import!NextCategory
    <2>2. f \in {1, 2, 3, 4}
        OBVIOUS
    <2>3. importAt' \in Import!Categories /\ importAt' # "report"
        BY <2>1, <2>2, OrderIs DEF Import!Categories
    <2>4. \A c \in Import!Categories : importAt' = c => Import!Runs(c) /\ todo' = Import!ItemsOf(c)
        BY <2>1
    <2>5. n <= 1 /\ R(1) => f = 1
        BY <2>1
    <2>6. n <= 3 /\ R(3) => f \in {1, 2, 3}
        BY <2>1
    <2> HIDE DEF R
    <2>7. /\ n <= 1 /\ R(1) => importAt' = "agents"
          /\ n <= 3 /\ R(3) => importAt' \in {"agents", "memory", "keys"}
        BY <2>1, <2>5, <2>6, OrderIs
    <2> QED
        BY <2>3, <2>4, <2>7, OrderIs DEF R
<1>2. CASE ~\E m \in n..4 : R(m)
    <2>1. importAt' = "report" /\ todo' = {}
        BY <1>2 DEF Import!NextCategory
    <2>2. (n <= 1 => ~R(1)) /\ (n <= 3 => ~R(3)) /\ (n <= 4 => ~R(4))
        BY <1>2
    <2> QED
        BY <2>1, <2>2, OrderIs DEF Import!Categories
<1> QED
    BY <1>1, <1>2

LEMMA Advances ==
    ASSUME ImportInv, NEW n \in 1..5, Import!NextCategory(n),
           (n = 1 /\ importAt = "ask") \/ (n > 1 /\ importAt = Import!Order[n - 1] /\ todo = {}),
           pending = NoItem, conflicts = {}, additions = {},
           UNCHANGED <<status, pending, selected, dryRun, toDetect, conflicts, answer, readCopy,
                       additions, Import!stored, edit, Import!bounds, Import!ghosts>>
    PROVE  ImportInv'
<1>1. importAt' \in Import!Categories \cup {"report"}
    BY NextCategoryIs
<1>2. \A c \in Import!Categories : importAt' = c => Import!Runs(c)' /\ todo' = Import!ItemsOf(c)
    BY NextCategoryIs, RunsKept
<1>3. todo' \subseteq Import!Items
    BY <1>1, <1>2, NextCategoryIs, ItemsAre DEF Import!Categories, Import!Items
<1>4. /\ importAt \in {"ask"} \cup Import!Categories
      /\ n # 1 => importAt \in Import!Categories /\ todo = {}
    <2>1. CASE n = 1
        BY <2>1
    <2>2. CASE n # 1
        <3>1. n - 1 \in {1, 2, 3, 4} /\ importAt = Import!Order[n - 1] /\ todo = {}
            BY <2>2
        <3> QED
            BY <3>1, OrderIs DEF Import!Categories
    <2> QED
        BY <2>1, <2>2
<1>5. importAt \notin {"idle", "parse", "detect"} /\ importAt' \notin {"idle", "parse", "detect", "ask"}
    BY <1>1, <1>4 DEF Import!Categories
<1>6. ImportControl' /\ ImportFiles' /\ ImportNumbers' /\ OneCopy'
    BY <1>1, <1>5 DEF ImportInv, ImportShapes, ImportControl, ImportFiles, ImportNumbers, OneCopy
<1>7. ImportSets'
    BY <1>3 DEF ImportInv, ImportShapes, ImportSets
<1>8. ImportPlaces'
    BY <1>2, <1>5, ItemsAre DEF ImportInv, ImportPlaces, Import!Categories
<1>9. InHand'
    BY DEF ImportInv, InHand
<1>10. Import!StatusIsTrue'
    BY <1>5 DEF ImportInv, Import!StatusIsTrue
<1>11. AskedAbout'
    BY <1>5 DEF ImportInv, AskedAbout, Detected, Asked
<1>12. ArrivedSoFar'
    <2>1. \A c \in Import!Categories : Import!Runs(c)' <=> Import!Runs(c)
        BY RunsKept
    <2>2. ~dryRun /\ ~raced /\ Import!Runs("agents") =>
              \A a \in Agents \ Missing("agents")' : agents[a] # "none"
        <3>1. CASE n = 1
            BY <3>1, <1>2, NextCategoryIs, ItemsAre DEF Missing, Import!Categories
        <3>2. CASE n # 1
            <4>1. importAt \in Import!Categories /\ todo = {}
                BY <3>2, <1>4
            <4>2. Missing("agents") \subseteq Missing("agents")'
                BY <4>1 DEF Missing
            <4> QED
                BY <4>1, <4>2 DEF ImportInv, ArrivedSoFar
        <3> QED
            BY <3>1, <3>2
    <2>3. ~dryRun /\ Import!Runs("keys") /\ importAt' \in {"keys", "channels", "report"} =>
              \A k \in Keys \ Missing("keys")' : KeyThere(k)
        <3>1. CASE n <= 3
            BY <3>1, <1>2, NextCategoryIs, ItemsAre DEF Missing, Import!Categories
        <3>2. CASE n \in {4, 5}
            <4>1. importAt \in {"keys", "channels"} /\ todo = {}
                <5>1. n - 1 \in {3, 4}
                    BY <3>2
                <5> QED
                    BY <3>2, <5>1, OrderIs
            <4> QED
                BY <4>1 DEF ImportInv, ArrivedSoFar, KeyThere, Missing
        <3> QED
            BY <3>1, <3>2
    <2>4. ~dryRun /\ Import!Runs("channels") /\ importAt' \in {"channels", "report"} =>
              Channels \ Missing("channels")' \subseteq channels
        <3>1. CASE n <= 4
            BY <3>1, <1>2, NextCategoryIs, ItemsAre DEF Missing, Import!Categories
        <3>2. CASE n = 5
            <4>1. importAt = "channels" /\ todo = {}
                BY <3>2, OrderIs
            <4> QED
                BY <4>1 DEF ImportInv, ArrivedSoFar, KeyThere, Missing
        <3> QED
            BY <3>1, <3>2
    <2> QED
        BY <2>1, <2>2, <2>3, <2>4 DEF ArrivedSoFar, KeyThere, Import!Categories
<1> QED
    BY <1>6, <1>7, <1>8, <1>9, <1>10, <1>11, <1>12 DEF ImportInv, ImportShapes

LEMMA ImportAnswered == ASSUME ImportInv, Import!Answered PROVE ImportInv'
<1>1. additions = {}
    BY DEF ImportInv, InHand, Import!Answered
<1>2. 1 \in 1..5 /\ Import!NextCategory(1)
    BY DEF Import!Answered
<1> QED
    BY <1>1, <1>2, Advances DEF Import!Answered

LEMMA ImportMapped ==
    ASSUME ImportInv, NEW n \in 1..4, Import!Mapped(n)
    PROVE  ImportInv'
<1>1. importAt \in Import!Categories
    <2>1. n \in {1, 2, 3, 4}
        OBVIOUS
    <2> QED
        BY <2>1, OrderIs DEF Import!Mapped, Import!Categories
<1>2. pending = NoItem /\ conflicts = {}
    BY <1>1 DEF ImportInv, ImportPlaces, Import!Categories
<1>3. n + 1 \in 1..5 /\ (n + 1) - 1 = n /\ n + 1 > 1
    OBVIOUS
<1> QED
    BY <1>2, <1>3, Advances DEF Import!Mapped

\* Mapping goes on where it is.
GoesOn == UNCHANGED <<status, pending, importAt, selected, dryRun, toDetect, conflicts, answer>>

LEMMA MappingIs ==
    ASSUME NEW c, NEW i, Import!Mapping(c, i)
    PROVE  importAt = c /\ i \in todo /\ todo' = todo \ {i}
BY DEF Import!Mapping

LEMMA GoesOnKeeps ==
    ASSUME ImportInv, GoesOn, todo' \subseteq todo, raced' \in BOOLEAN
    PROVE  /\ ImportControl' /\ ImportPlaces' /\ todo' \subseteq Import!Items
           /\ \A c \in Import!Categories : Import!Runs(c)' <=> Import!Runs(c)
<1> USE DEF GoesOn
<1>1. \A c \in Import!Categories : Import!Runs(c)' <=> Import!Runs(c)
    BY RunsKept
<1>2. ImportControl' /\ todo' \subseteq Import!Items
    BY DEF ImportInv, ImportShapes, ImportControl, ImportSets
<1>3. ImportPlaces'
    BY <1>1 DEF ImportInv, ImportPlaces
<1> QED
    BY <1>1, <1>2, <1>3

\* What is asked about stays so while the user's agents and keys only go.
LEMMA AskedKept ==
    ASSUME ImportInv, GoesOn, unseen \subseteq unseen', imports' = imports, raced => raced',
           ~raced' => \A a \in Agents : agents'[a] \in {"own", "other"} =>
                          agents[a] \in {"own", "other"} \/ a \in unseen' \/ importAt = "idle",
           \A k \in Keys : keys'[k] \in {keys[k], imports} /\ refreshes'[k] \in {refreshes[k], imports}
    PROVE  AskedAbout'
BY DEF ImportInv, AskedAbout, Detected, Asked, GoesOn

LEMMA ImportDryItem ==
    ASSUME ImportInv, NEW c \in Import!Categories, NEW i \in Import!Items, Import!DryItem(c, i)
    PROVE  ImportInv'
<1> USE DEF Import!DryItem
<1>1. GoesOn /\ todo' \subseteq todo /\ raced' \in BOOLEAN
    BY MappingIs DEF GoesOn, ImportInv, ImportShapes, ImportControl
<1>2. ImportControl' /\ ImportPlaces' /\ todo' \subseteq Import!Items
    BY <1>1, GoesOnKeeps
<1>3. ImportSets' /\ ImportFiles' /\ ImportNumbers' /\ InHand' /\ Import!StatusIsTrue' /\ OneCopy'
    BY <1>2 DEF ImportInv, ImportShapes, ImportSets, ImportFiles, ImportNumbers, InHand,
                Import!StatusIsTrue, OneCopy
<1>4. AskedAbout'
    BY <1>1, AskedKept
<1>5. ArrivedSoFar'
    BY DEF ArrivedSoFar
<1> QED
    BY <1>2, <1>3, <1>4, <1>5 DEF ImportInv, ImportShapes

LEMMA ImportItemFails ==
    ASSUME ImportInv, NEW c \in Import!Categories, NEW i \in Import!Items, Import!ItemFails(c, i)
    PROVE  ImportInv'
<1> USE DEF Import!ItemFails
<1>1. /\ GoesOn /\ raced' \in BOOLEAN /\ importAt = c /\ todo' = todo \ {i}
      /\ faulty' = IF c = "memory" THEN faulty ELSE faulty \cup {i}
    BY MappingIs DEF GoesOn, ImportInv, ImportShapes, ImportControl
<1>2. /\ ImportControl' /\ ImportPlaces' /\ todo' \subseteq Import!Items
      /\ \A d \in Import!Categories : Import!Runs(d)' <=> Import!Runs(d)
    BY <1>1, GoesOnKeeps
<1>3. ImportSets' /\ ImportFiles' /\ InHand' /\ Import!StatusIsTrue' /\ OneCopy'
    BY <1>2 DEF ImportInv, ImportShapes, ImportSets, ImportFiles, InHand,
                Import!StatusIsTrue, OneCopy
<1>4. ImportNumbers'
    <2>1. troubles' \in 0..MaxTroubles
        BY TroubleCounted DEF ImportInv, ImportShapes
    <2> QED
        BY <2>1 DEF ImportInv, ImportShapes, ImportNumbers
<1>5. AskedAbout'
    BY <1>1, AskedKept
<1>6. \A d \in Import!Categories \ {"memory"} : Missing(d) \subseteq Missing(d)'
    BY <1>1 DEF Missing
<1>7. ArrivedSoFar'
    BY <1>1, <1>2, <1>6 DEF ImportInv, ArrivedSoFar, KeyThere, Import!Categories
<1> QED
    BY <1>2, <1>3, <1>4, <1>5, <1>7 DEF ImportInv, ImportShapes

LEMMA ImportWriteFails == ASSUME ImportInv, Import!WriteFails PROVE ImportInv'
<1> USE DEF Import!WriteFails
<1>1. GoesOn /\ raced' \in BOOLEAN /\ todo' = todo
    BY DEF GoesOn, ImportInv, ImportShapes, ImportControl
<1>2. /\ ImportControl' /\ ImportPlaces' /\ todo' \subseteq Import!Items
      /\ \A d \in Import!Categories : Import!Runs(d)' <=> Import!Runs(d)
    BY <1>1, GoesOnKeeps
<1>3. ImportSets' /\ ImportFiles' /\ InHand' /\ Import!StatusIsTrue' /\ OneCopy'
    BY <1>2 DEF ImportInv, ImportShapes, ImportSets, ImportFiles, InHand,
                Import!StatusIsTrue, OneCopy
<1>4. ImportNumbers'
    <2>1. troubles' \in 0..MaxTroubles
        BY TroubleCounted DEF ImportInv, ImportShapes
    <2> QED
        BY <2>1 DEF ImportInv, ImportShapes, ImportNumbers
<1>5. AskedAbout'
    BY <1>1, AskedKept DEF ImportInv, ImportShapes, ImportNumbers
<1>6. \A d : Missing(d) \subseteq Missing(d)'
    BY <1>1 DEF Missing
<1>7. ArrivedSoFar'
    BY <1>1, <1>2, <1>6 DEF ImportInv, ArrivedSoFar, KeyThere, Import!Categories
<1> QED
    BY <1>2, <1>3, <1>4, <1>5, <1>7 DEF ImportInv, ImportShapes

LEMMA ImportMemoryFails == ASSUME ImportInv, Import!MemoryFails PROVE ImportInv'
<1> USE DEF Import!MemoryFails
<1>1. GoesOn /\ raced' \in BOOLEAN /\ importAt = "memory" /\ todo' \subseteq todo
    BY DEF GoesOn, ImportInv, ImportShapes, ImportControl
<1>2. /\ ImportControl' /\ ImportPlaces' /\ todo' \subseteq Import!Items
      /\ \A d \in Import!Categories : Import!Runs(d)' <=> Import!Runs(d)
    BY <1>1, GoesOnKeeps
<1>3. ImportSets' /\ ImportFiles' /\ InHand' /\ Import!StatusIsTrue' /\ OneCopy'
    BY <1>2 DEF ImportInv, ImportShapes, ImportSets, ImportFiles, InHand,
                Import!StatusIsTrue, OneCopy
<1>4. ImportNumbers'
    <2>1. troubles' \in 0..MaxTroubles
        BY TroubleCounted DEF ImportInv, ImportShapes
    <2> QED
        BY <2>1 DEF ImportInv, ImportShapes, ImportNumbers
<1>5. AskedAbout'
    BY <1>1, AskedKept DEF ImportInv, ImportShapes, ImportNumbers
<1>6. \A d \in Import!Categories \ {"memory"} : Missing(d)' = Missing(d)
    BY <1>1 DEF Missing
<1>7. ArrivedSoFar'
    BY <1>1, <1>2, <1>6 DEF ImportInv, ArrivedSoFar, KeyThere, Import!Categories
<1> QED
    BY <1>2, <1>3, <1>4, <1>5, <1>7 DEF ImportInv, ImportShapes

LEMMA ImportAgentFiles ==
    ASSUME ImportInv, NEW a \in Agents, Import!AgentFiles(a)
    PROVE  ImportInv'
<1> USE DEF Import!AgentFiles
<1>1. /\ GoesOn /\ raced' \in BOOLEAN /\ importAt = "agents"
      /\ a \in todo /\ todo' = todo \ {a} /\ a \in Import!Items
    BY MappingIs DEF GoesOn, ImportInv, ImportShapes, ImportControl, Import!Items
<1>2. /\ ImportControl' /\ ImportPlaces' /\ todo' \subseteq Import!Items
      /\ \A d \in Import!Categories : Import!Runs(d)' <=> Import!Runs(d)
    BY <1>1, GoesOnKeeps
<1>3. ImportSets'
    BY <1>1, <1>2 DEF ImportInv, ImportShapes, ImportSets, Import!Owners
<1>4. ImportFiles' /\ ImportNumbers' /\ Import!StatusIsTrue'
    BY DEF ImportInv, ImportShapes, ImportFiles, ImportNumbers, Import!StatusIsTrue
<1>5. InHand'
    <2>1. agents # Import!NotRead
        <3>1. DOMAIN agents = Agents /\ DOMAIN Import!NotRead = {}
            BY DEF ImportInv, ImportShapes, ImportFiles, AnyOwner, Import!NotRead
        <3> QED
            BY <3>1
    <2>2. identity'[a] = "imported"
        BY DEF ImportInv, ImportShapes, ImportSets
    <2> QED
        BY <1>1, <2>1, <2>2 DEF InHand
<1>6. OneCopy'
    BY DEF ImportInv, ImportShapes, ImportSets, OneCopy
<1>7. AskedAbout'
    BY <1>1, AskedKept DEF ImportInv, ImportShapes, ImportNumbers
<1>8. additions = {}
    BY DEF Import!Mapping
<1>9. \A d : Missing(d)' = Missing(d)
    BY <1>1, <1>8 DEF Missing
<1>10. ArrivedSoFar'
    BY <1>2, <1>9 DEF ImportInv, ArrivedSoFar, KeyThere, Import!Categories
<1> QED
    BY <1>2, <1>3, <1>4, <1>5, <1>6, <1>7, <1>10 DEF ImportInv, ImportShapes

LEMMA ImportAgentWritten ==
    ASSUME ImportInv, NEW a \in Agents, Import!AgentWritten(a)
    PROVE  ImportInv'
<1> USE DEF Import!AgentWritten
<1>1. /\ GoesOn /\ raced' \in BOOLEAN /\ a \in Import!Items
      /\ additions = {a} /\ identity[a] = "imported" /\ readCopy \in AnyOwner /\ ~dryRun
    BY DEF GoesOn, ImportInv, ImportShapes, ImportControl, ImportFiles, InHand, Import!Items
<1>2. /\ ImportControl' /\ ImportPlaces' /\ todo' \subseteq Import!Items
      /\ \A d \in Import!Categories : Import!Runs(d)' <=> Import!Runs(d)
    BY <1>1, GoesOnKeeps
<1>3. /\ agents' \in {agents, [readCopy EXCEPT ![a] = "imported"]}
      /\ faulty' \in {faulty, faulty \cup {a}}
    OBVIOUS
<1>4. ImportSets' /\ ImportNumbers' /\ Import!StatusIsTrue' /\ InHand'
    BY <1>1, <1>2, <1>3 DEF ImportInv, ImportShapes, ImportSets, ImportNumbers,
                Import!StatusIsTrue, InHand
<1>5. ImportFiles'
    BY <1>1, <1>3 DEF ImportInv, ImportShapes, ImportFiles, AnyOwner, Import!Owners
<1>6. ~raced => readCopy = agents /\ edit = Import!NoEdit
    BY DEF ImportInv, InHand, OneCopy
<1>7. ~raced => \A b \in Agents : agents'[b] = IF agents[a] = "none" /\ b = a THEN "imported" ELSE agents[b]
    BY <1>6 DEF ImportInv, ImportShapes, ImportFiles, AnyOwner
<1>8. OneCopy'
    BY <1>1, <1>6, <1>7 DEF ImportInv, OneCopy
<1>9. AskedAbout'
    BY <1>1, <1>7, AskedKept DEF ImportInv, ImportShapes, ImportNumbers
<1>10. \A d : Missing(d) \subseteq Missing(d)' \cup {a}
    BY <1>1, <1>3 DEF Missing
<1>11. ~raced => agents'[a] # "none"
    BY <1>7
<1>12. a \notin Keys \cup Channels
    BY ImportBounds
<1>13. ArrivedSoFar'
    BY <1>2, <1>7, <1>10, <1>11, <1>12 DEF ImportInv, ArrivedSoFar, KeyThere, Import!Categories
<1> QED
    BY <1>2, <1>4, <1>5, <1>8, <1>9, <1>13 DEF ImportInv, ImportShapes

LEMMA ImportMemory ==
    ASSUME ImportInv, NEW a \in Agents, Import!Memory(a)
    PROVE  ImportInv'
<1> USE DEF Import!Memory
<1>1. GoesOn /\ raced' \in BOOLEAN /\ importAt = "memory" /\ todo' = todo \ {a}
    BY MappingIs DEF GoesOn, ImportInv, ImportShapes, ImportControl
<1>2. /\ ImportControl' /\ ImportPlaces' /\ todo' \subseteq Import!Items
      /\ \A d \in Import!Categories : Import!Runs(d)' <=> Import!Runs(d)
    BY <1>1, GoesOnKeeps
<1>3. ImportSets'
    BY <1>2 DEF ImportInv, ImportShapes, ImportSets, Import!Owners
<1>4. ImportFiles' /\ ImportNumbers' /\ Import!StatusIsTrue' /\ InHand'
    BY <1>1 DEF ImportInv, ImportShapes, ImportFiles, ImportNumbers, Import!StatusIsTrue, InHand
<1>5. OneCopy'
    BY DEF ImportInv, ImportShapes, ImportSets, OneCopy
<1>6. AskedAbout'
    BY <1>1, AskedKept DEF ImportInv, ImportShapes, ImportNumbers
<1>7. \A d \in {"agents", "keys", "channels"} : Missing(d)' = Missing(d)
    BY <1>1 DEF Missing
<1>8. ArrivedSoFar'
    BY <1>2, <1>7 DEF ImportInv, ArrivedSoFar, KeyThere, Import!Categories
<1> QED
    BY <1>2, <1>3, <1>4, <1>5, <1>6, <1>8 DEF ImportInv, ImportShapes

LEMMA ImportKey ==
    ASSUME ImportInv, NEW k \in Keys, Import!Key(k)
    PROVE  ImportInv'
<1> USE DEF Import!Key
<1>1. /\ GoesOn /\ raced' \in BOOLEAN /\ importAt = "keys" /\ todo' = todo \ {k}
      /\ additions = {} /\ ~dryRun /\ readCopy = Import!NotRead
    BY DEF Import!Mapping, GoesOn, ImportInv, ImportShapes, ImportControl, InHand
<1>2. /\ ImportControl' /\ ImportPlaces' /\ todo' \subseteq Import!Items
      /\ \A d \in Import!Categories : Import!Runs(d)' <=> Import!Runs(d)
    BY <1>1, GoesOnKeeps
<1>3. imports \in 0..MaxImports /\ imports # 0 /\ k \in Import!Items
    BY <1>1 DEF ImportInv, ImportShapes, ImportNumbers, Import!Items
<1>4. /\ keys' \in [Keys -> 0..MaxImports] /\ keys'[k] = imports
      /\ \A j \in Keys : j # k => keys'[j] = keys[j]
    BY <1>3 DEF ImportInv, ImportShapes, ImportNumbers
<1>5. ImportSets' /\ ImportFiles' /\ Import!StatusIsTrue' /\ OneCopy'
    BY <1>2, <1>3 DEF ImportInv, ImportShapes, ImportSets, ImportFiles, Import!StatusIsTrue, OneCopy
<1>6. ImportNumbers'
    BY <1>3, <1>4 DEF ImportInv, ImportShapes, ImportNumbers
<1>7. InHand'
    BY <1>1, <1>4 DEF InHand
<1>8. AskedAbout'
    BY <1>1, <1>4, AskedKept DEF ImportInv, ImportShapes, ImportNumbers
<1>9. /\ \A d : Missing(d) \subseteq Missing(d)' \cup {k}
      /\ k \in OAuth => k \in Missing("keys")'
    BY <1>1 DEF Missing
<1>10. k \notin Agents \cup Channels
    BY ImportBounds
<1>11. ArrivedSoFar'
    BY <1>1, <1>2, <1>4, <1>9, <1>10 DEF ImportInv, ArrivedSoFar, KeyThere, Import!Categories
<1> QED
    BY <1>2, <1>5, <1>6, <1>7, <1>8, <1>11 DEF ImportInv, ImportShapes

LEMMA ImportRefreshToken ==
    ASSUME ImportInv, NEW k \in Keys, Import!RefreshToken(k)
    PROVE  ImportInv'
<1> USE DEF Import!RefreshToken
<1>1. /\ GoesOn /\ raced' \in BOOLEAN /\ importAt = "keys" /\ todo' = todo
      /\ additions = {k} /\ keys[k] = imports
    BY DEF GoesOn, ImportInv, ImportShapes, ImportControl, InHand
<1>2. /\ ImportControl' /\ ImportPlaces' /\ todo' \subseteq Import!Items
      /\ \A d \in Import!Categories : Import!Runs(d)' <=> Import!Runs(d)
    BY <1>1, GoesOnKeeps
<1>3. imports \in 0..MaxImports /\ imports # 0
    BY <1>1 DEF ImportInv, ImportShapes, ImportNumbers
<1>4. /\ refreshes' \in [Keys -> 0..MaxImports] /\ refreshes'[k] = imports
      /\ \A j \in Keys : j # k => refreshes'[j] = refreshes[j]
    BY <1>3 DEF ImportInv, ImportShapes, ImportNumbers
<1>5. /\ ImportSets' /\ ImportFiles' /\ Import!StatusIsTrue' /\ InHand' /\ OneCopy'
    BY <1>1, <1>2 DEF ImportInv, ImportShapes, ImportSets, ImportFiles, Import!StatusIsTrue,
                      InHand, OneCopy
<1>6. ImportNumbers'
    BY <1>1, <1>3, <1>4 DEF ImportInv, ImportShapes, ImportNumbers
<1>7. AskedAbout'
    BY <1>1, <1>4, AskedKept DEF ImportInv, ImportShapes, ImportNumbers
<1>8. \A d : Missing(d) \subseteq Missing(d)' \cup {k}
    BY <1>1 DEF Missing
<1>9. k \notin Agents \cup Channels
    BY ImportBounds
<1>10. ArrivedSoFar'
    BY <1>1, <1>2, <1>4, <1>8, <1>9 DEF ImportInv, ArrivedSoFar, KeyThere, Import!Categories
<1> QED
    BY <1>2, <1>5, <1>6, <1>7, <1>10 DEF ImportInv, ImportShapes

LEMMA ImportChannel ==
    ASSUME ImportInv, NEW n \in Channels, Import!Channel(n)
    PROVE  ImportInv'
<1> USE DEF Import!Channel
<1>1. /\ GoesOn /\ raced' \in BOOLEAN /\ importAt = "channels" /\ todo' = todo \ {n} /\ ~dryRun
      /\ n \in Import!Items
    BY MappingIs DEF GoesOn, ImportInv, ImportShapes, ImportControl, Import!Items
<1>2. /\ ImportControl' /\ ImportPlaces' /\ todo' \subseteq Import!Items
      /\ \A d \in Import!Categories : Import!Runs(d)' <=> Import!Runs(d)
    BY <1>1, GoesOnKeeps
<1>3. \/ n \in channels /\ tokens' = tokens /\ additions' = additions
      \/ tokens' = tokens \cup {n} /\ additions' = additions \cup {n}
    OBVIOUS
<1>4. ImportSets' /\ Import!StatusIsTrue' /\ InHand'
    BY <1>1, <1>2, <1>3 DEF ImportInv, ImportShapes, ImportSets, Import!StatusIsTrue, InHand
<1>5. ImportFiles' /\ ImportNumbers' /\ OneCopy'
    BY DEF ImportInv, ImportShapes, ImportFiles, ImportNumbers, OneCopy
<1>6. AskedAbout'
    BY <1>1, AskedKept DEF ImportInv, ImportShapes, ImportNumbers
<1>7. \/ \A d : Missing(d) \subseteq Missing(d)'
      \/ n \in channels /\ \A d : Missing(d) \subseteq Missing(d)' \cup {n}
    BY <1>1, <1>3 DEF Missing
<1>8. n \notin Agents \cup Keys
    BY ImportBounds
<1>9. ArrivedSoFar'
    BY <1>2, <1>7, <1>8 DEF ImportInv, ArrivedSoFar, KeyThere, Import!Categories
<1> QED
    BY <1>2, <1>4, <1>5, <1>6, <1>9 DEF ImportInv, ImportShapes

LEMMA ImportChannelsWritten == ASSUME ImportInv, Import!ChannelsWritten PROVE ImportInv'
<1> USE DEF Import!ChannelsWritten
<1>1. GoesOn /\ raced' \in BOOLEAN /\ todo' = todo
    BY DEF GoesOn, ImportInv, ImportShapes, ImportControl
<1>2. /\ ImportControl' /\ ImportPlaces' /\ todo' \subseteq Import!Items
      /\ \A d \in Import!Categories : Import!Runs(d)' <=> Import!Runs(d)
    BY <1>1, GoesOnKeeps
<1>3. additions \subseteq tokens
    BY DEF ImportInv, InHand
<1>4. ImportSets' /\ Import!StatusIsTrue' /\ InHand'
    BY <1>2, <1>3 DEF ImportInv, ImportShapes, ImportSets, Import!StatusIsTrue, InHand
<1>5. ImportFiles' /\ ImportNumbers' /\ OneCopy'
    BY DEF ImportInv, ImportShapes, ImportFiles, ImportNumbers, OneCopy
<1>6. AskedAbout'
    BY <1>1, AskedKept DEF ImportInv, ImportShapes, ImportNumbers
<1>7. /\ \A d \in {"agents", "keys"} : Missing(d)' = Missing(d)
      /\ Missing("channels") \subseteq Missing("channels")' \cup additions
    BY <1>1 DEF Missing
<1>8. ArrivedSoFar'
    BY <1>2, <1>7 DEF ImportInv, ArrivedSoFar, KeyThere, Import!Categories
<1> QED
    BY <1>2, <1>4, <1>5, <1>6, <1>8 DEF ImportInv, ImportShapes

LEMMA ImportEditReads ==
    ASSUME ImportInv, NEW does \in {"create", "rename", "delete"}, NEW a \in Agents,
           Import!EditReads(does, a)
    PROVE  ImportInv'
<1> USE DEF Import!EditReads
<1>1. GoesOn /\ raced' \in BOOLEAN /\ todo' = todo /\ (raced => raced')
    BY DEF GoesOn, ImportInv, ImportShapes, ImportControl
<1>2. /\ ImportControl' /\ ImportPlaces' /\ todo' \subseteq Import!Items
      /\ \A d \in Import!Categories : Import!Runs(d)' <=> Import!Runs(d)
    BY <1>1, GoesOnKeeps
<1>3. ImportSets' /\ Import!StatusIsTrue' /\ InHand' /\ ImportFiles' /\ OneCopy'
    BY DEF ImportInv, ImportShapes, ImportSets, Import!StatusIsTrue, InHand, ImportFiles, OneCopy
<1>4. ImportNumbers'
    <2>1. troubles' \in 0..MaxTroubles
        BY TroubleCounted DEF ImportInv, ImportShapes
    <2> QED
        BY <2>1 DEF ImportInv, ImportShapes, ImportNumbers
<1>5. AskedAbout'
    BY <1>1, AskedKept DEF ImportInv, ImportShapes, ImportNumbers
<1>6. \A d : Missing(d)' = Missing(d)
    BY DEF Missing
<1>7. ArrivedSoFar'
    BY <1>1, <1>2, <1>6 DEF ImportInv, ArrivedSoFar, KeyThere, Import!Categories
<1> QED
    BY <1>2, <1>3, <1>4, <1>5, <1>7 DEF ImportInv, ImportShapes

LEMMA ImportEditWrites == ASSUME ImportInv, Import!EditWrites PROVE ImportInv'
<1> USE DEF Import!EditWrites
<1>1. GoesOn /\ raced' \in BOOLEAN /\ todo' = todo
    BY DEF GoesOn, ImportInv, ImportShapes, ImportControl
<1>2. /\ ImportControl' /\ ImportPlaces' /\ todo' \subseteq Import!Items
      /\ \A d \in Import!Categories : Import!Runs(d)' <=> Import!Runs(d)
    BY <1>1, GoesOnKeeps
<1> DEFINE a == edit.agent
<1>3. a \in Agents /\ a \in Import!Items /\ edit.copy \in AnyOwner
    BY DEF ImportInv, ImportShapes, ImportFiles, Import!Items
<1>4. \/ agents' = agents
      \/ \E o \in {"own", "other", "none"} : agents' = [edit.copy EXCEPT ![a] = o]
    OBVIOUS
<1>5. unseen' = IF importAt # "idle" THEN unseen \cup {a} ELSE unseen
    OBVIOUS
<1>6. ImportSets' /\ Import!StatusIsTrue' /\ InHand' /\ ImportNumbers'
    BY <1>3, <1>5 DEF ImportInv, ImportShapes, ImportSets, Import!StatusIsTrue, InHand, ImportNumbers
<1>7. ImportFiles'
    BY <1>3, <1>4 DEF ImportInv, ImportShapes, ImportFiles, AnyOwner, Import!Owners
<1>8. ~raced => /\ readCopy = Import!NotRead
                /\ \A b \in Agents : b # a => agents'[b] = agents[b]
                /\ agents'[a] # "imported" \/ agents'[a] = agents[a]
    BY <1>3, <1>4 DEF ImportInv, OneCopy, AnyOwner
<1>9. OneCopy'
    BY <1>8 DEF ImportInv, OneCopy
<1>10. AskedAbout'
    BY <1>1, <1>5, <1>8, AskedKept DEF ImportInv, ImportShapes, ImportNumbers
<1>11. /\ Missing("agents") \subseteq Missing("agents")'
       /\ Missing("keys") \subseteq Missing("keys")'
       /\ Missing("channels") \subseteq Missing("channels")'
       /\ importAt # "idle" => a \in Missing("agents")'
    BY <1>5 DEF Missing
<1>12. ArrivedSoFar'
    <2>1. UNCHANGED <<importAt, dryRun, raced, keys, refreshes, channels, imports>>
        BY <1>1 DEF GoesOn
    <2>2. /\ \A d \in Import!Categories : Import!Runs(d)' <=> Import!Runs(d)
          /\ \A k : KeyThere(k)' <=> KeyThere(k)
        BY <1>2, <2>1 DEF KeyThere
    <2>3. ~raced /\ importAt # "idle" =>
              \A b \in Agents \ Missing("agents")' : b \notin Missing("agents") /\ agents'[b] = agents[b]
        <3>1. ASSUME ~raced, importAt # "idle", NEW b \in Agents \ Missing("agents")'
              PROVE  b \notin Missing("agents") /\ agents'[b] = agents[b]
            <4>1. b \notin Missing("agents") /\ b # a
                BY <3>1, <1>11
            <4> QED
                BY <3>1, <4>1, <1>8
        <3> QED
            BY <3>1
    <2> HIDE DEF a
    <2> QED
        BY <1>11, <2>1, <2>2, <2>3 DEF ImportInv, ArrivedSoFar, Import!Categories
<1> QED
    BY <1>2, <1>6, <1>7, <1>9, <1>10, <1>12 DEF ImportInv, ImportShapes

LEMMA ImportNextInv == ImportInv /\ [Import!Next]_importVars => ImportInv'
<1> SUFFICES ASSUME ImportInv, [Import!Next]_importVars
             PROVE  ImportInv'
    OBVIOUS
<1>1. CASE UNCHANGED importVars
    BY <1>1
    DEF importVars, ImportInv, ImportShapes, ImportControl, ImportSets, ImportFiles, ImportNumbers,
        ImportPlaces, InHand, OneCopy, AskedAbout, Asked, Detected, ArrivedSoFar, KeyThere, Missing,
        Import!StatusIsTrue, Import!Runs, Import!Skips
<1>2. CASE Import!Convert
    BY <1>2, ImportParsed, ImportEnds, ImportKeychainFails, ImportNothingToDetect, ImportAnswered,
       ImportChannelsWritten, ImportWriteFails, ImportMemoryFails, ImportDetect, ImportDryItem, ImportItemFails, ImportMapped, ImportAsk,
       ImportAgentFiles, ImportAgentWritten, ImportMemory, ImportKey, ImportRefreshToken, ImportChannel
    DEF Import!Convert
<1>3. CASE \E does \in {"create", "rename", "delete"}, a \in Agents : Import!EditReads(does, a)
    BY <1>3, ImportEditReads
<1> QED
    BY <1>1, <1>2, <1>3, ImportStart, ImportAnswer, ImportEditWrites, ImportCrash DEF Import!Next

LEMMA ImportInitInv == Import!Init => ImportInv
<1> SUFFICES ASSUME Import!Init PROVE ImportInv
    OBVIOUS
<1> USE DEF Import!Init
<1>1. ImportControl /\ ImportFiles
    BY DEF ImportControl, ImportFiles, AnyOwner, Import!Owners
<1>2. ImportSets
    BY DEF ImportSets, Import!Owners
<1>3. ImportNumbers
    BY ImportBounds DEF ImportNumbers
<1>4. ImportPlaces /\ InHand /\ Import!StatusIsTrue
    BY DEF ImportPlaces, InHand, Import!StatusIsTrue, Import!Categories
<1>5. OneCopy /\ AskedAbout /\ ArrivedSoFar
    BY DEF OneCopy, AskedAbout, Detected, ArrivedSoFar, KeyThere, Import!Categories
<1> QED
    BY <1>1, <1>2, <1>3, <1>4, <1>5 DEF ImportInv, ImportShapes

LEMMA ImportTypes == ImportInv => Import!TypeOK
BY DEF ImportInv, ImportShapes, ImportControl, ImportSets, ImportFiles, ImportNumbers, Import!TypeOK,
       AnyOwner, Import!Categories

LEMMA ImportLeavesNothing == ImportInv => Import!NothingLeftOut
<1> SUFFICES ASSUME ImportInv, importAt = "report", ~dryRun, ~raced, NEW c \in selected \ {"memory"},
                    ~Import!Skips(c), NEW i \in Import!ItemsOf(c) \ faulty
             PROVE  Import!Arrives(i)
    BY DEF Import!NothingLeftOut
<1>1. c \in Import!Categories /\ Import!Runs(c)
    BY DEF ImportInv, ImportShapes, ImportControl, Import!Runs
<1>2. /\ Missing("agents") = faulty \cup unseen
      /\ Missing("keys") = faulty /\ Missing("channels") = faulty
    BY DEF Missing
<1>3. CASE c = "agents"
    <2>1. i \in Agents /\ (i \in unseen \/ agents[i] # "none")
        BY <1>1, <1>2, <1>3, ItemsAre DEF ImportInv, ArrivedSoFar
    <2> QED
        BY <2>1 DEF Import!Arrives
<1>4. CASE c = "keys"
    <2>1. KeyThere(i) /\ i \in Keys
        BY <1>1, <1>2, <1>4, ItemsAre DEF ImportInv, ArrivedSoFar
    <2> QED
        BY <2>1 DEF Import!Arrives, KeyThere
<1>5. CASE c = "channels"
    <2>1. i \in channels
        BY <1>1, <1>2, <1>5, ItemsAre DEF ImportInv, ArrivedSoFar
    <2> QED
        BY <2>1 DEF Import!Arrives
<1> QED
    BY <1>1, <1>3, <1>4, <1>5 DEF Import!Categories

\* What one step of an import takes, was asked for.
LEMMA ImportAsksFirst ==
    ASSUME ImportInv, Import!Next
    PROVE  /\ \A a \in Agents :
                  /\ agents[a] \in {"own", "other"} => agents'[a] # "imported" \/ raced
                  /\ importAt = importAt' /\ agents[a] # "none" /\ agents'[a] = "none" =>
                         edit.agent = a \/ raced
                  /\ agents[a] # "none" /\ identity[a] = "own" /\ identity'[a] = "imported" =>
                         importAt = "memory" \/ a \in unseen \/ raced
                             \/ (Import!Taken(a) /\ ~Import!Skips("agents"))
           /\ \A k \in Keys :
                  keys[k] \notin {0, keys'[k]} \/ refreshes[k] \notin {0, refreshes'[k]} =>
                      k \in unseen \/ (Import!Taken(k) /\ ~Import!Skips("keys"))
           /\ dryRun => edit # edit' \/ troubles # troubles' \/ Import!stored' = Import!stored
<1>1. CASE \E a \in Agents : Import!AgentFiles(a)
    <2>1. PICK a \in Agents : Import!AgentFiles(a)
        BY <1>1
    <2>2. importAt = "agents" /\ ~dryRun /\ UNCHANGED <<agents, keys, refreshes>>
        BY <2>1, MappingIs DEF Import!AgentFiles
    <2>3. \A b \in Agents : b # a => identity'[b] = identity[b]
        BY <2>1 DEF Import!AgentFiles, ImportInv, ImportShapes, ImportSets
    <2>4. Import!Runs("agents") /\ toDetect = {} /\ conflicts = {} /\ pending = NoItem
        BY <2>2 DEF ImportInv, ImportPlaces, Import!Categories
    <2>5. ~raced /\ agents[a] \in {"own", "other"} => Asked(a)
        BY <2>2, <2>4 DEF ImportInv, AskedAbout, Detected, Import!Runs
    <2>6. ~raced /\ identity[a] = "own" => agents[a] # "imported"
        BY DEF ImportInv, OneCopy
    <2>7. agents[a] \in Import!Owners \cup {"other"} /\ a \in Import!Items
        BY DEF ImportInv, ImportShapes, ImportFiles, AnyOwner, Import!Items
    <2>8. answer[a] \in {"none", "take", "skip"} /\ (answer[a] = "skip" => Import!Skips("agents"))
        BY <2>7, ItemsAre DEF ImportInv, ImportShapes, ImportSets, Import!Skips
    <2>9. ~raced /\ agents[a] # "none" /\ identity[a] = "own" =>
              a \in unseen \/ (Import!Taken(a) /\ ~Import!Skips("agents"))
        BY <2>2, <2>4, <2>5, <2>6, <2>7, <2>8, ImportBounds
        DEF Asked, Import!Taken, Import!Owners, Import!Runs
    <2> QED
        BY <2>2, <2>3, <2>9
<1>2. CASE \E a \in Agents : Import!AgentWritten(a)
    <2>1. PICK a \in Agents : Import!AgentWritten(a)
        BY <1>2
    <2>2. UNCHANGED <<identity, keys, refreshes>> /\ ~dryRun
        BY <2>1 DEF Import!AgentWritten, ImportInv, InHand
    <2>3. ~raced => \A b \in Agents :
              agents'[b] = IF agents[a] = "none" /\ b = a THEN "imported" ELSE agents[b]
        BY <2>1 DEF Import!AgentWritten, ImportInv, ImportShapes, ImportFiles, InHand, OneCopy, AnyOwner
    <2> QED
        BY <2>2, <2>3
<1>3. CASE \E a \in Agents : Import!Memory(a)
    <2>1. importAt = "memory" /\ ~dryRun /\ UNCHANGED <<agents, keys, refreshes>>
        BY <1>3, MappingIs DEF Import!Memory
    <2> QED
        BY <2>1
<1>4. CASE \E k \in Keys : Import!Key(k) \/ Import!RefreshToken(k)
    <2>1. PICK k \in Keys : Import!Key(k) \/ Import!RefreshToken(k)
        BY <1>4
    <2>2. importAt = "keys" /\ ~dryRun /\ UNCHANGED <<agents, identity>>
        BY <2>1, MappingIs DEF Import!Key, Import!RefreshToken, ImportInv, InHand
    <2>3. /\ keys'[k] \in {keys[k], imports} /\ refreshes'[k] \in {refreshes[k], imports}
          /\ \A j \in Keys : j # k => keys'[j] = keys[j] /\ refreshes'[j] = refreshes[j]
        BY <2>1 DEF Import!Key, Import!RefreshToken, ImportInv, ImportShapes, ImportNumbers
    <2>4. Import!Runs("keys") /\ toDetect = {} /\ conflicts = {} /\ pending = NoItem
        BY <2>2 DEF ImportInv, ImportPlaces, Import!Categories
    <2>5. keys[k] \notin {0, imports} \/ refreshes[k] \notin {0, imports} => Asked(k)
        BY <2>2, <2>4 DEF ImportInv, AskedAbout, Detected, Import!Runs
    <2>6. k \in Import!Items
        BY DEF Import!Items
    <2>7. answer[k] \in {"none", "take", "skip"} /\ (answer[k] = "skip" => Import!Skips("keys"))
        BY <2>6, ItemsAre DEF ImportInv, ImportShapes, ImportSets, Import!Skips
    <2>8. keys[k] \notin {0, keys'[k]} \/ refreshes[k] \notin {0, refreshes'[k]} =>
              k \in unseen \/ (Import!Taken(k) /\ ~Import!Skips("keys"))
        BY <2>2, <2>3, <2>4, <2>5, <2>6, <2>7, ImportBounds DEF Asked, Import!Taken, Import!Runs
    <2> QED
        BY <2>2, <2>3, <2>8
<1>5. CASE Import!ChannelsWritten \/ \E n \in Channels : Import!Channel(n)
    <2>1. UNCHANGED <<agents, identity, keys, refreshes>> /\ ~dryRun
        BY <1>5 DEF Import!ChannelsWritten, Import!Channel, ImportInv, InHand
    <2> QED
        BY <2>1
<1>6. CASE Import!EditWrites
    <2>1. UNCHANGED <<identity, keys, refreshes>> /\ edit' # edit
        BY <1>6 DEF Import!EditWrites
    <2> DEFINE b == edit.agent
    <2>2. b \in Agents /\ edit.copy \in AnyOwner
        BY <1>6 DEF Import!EditWrites, ImportInv, ImportShapes, ImportFiles
    <2>3. \/ agents' = agents
          \/ \E o \in {"own", "other", "none"} : agents' = [edit.copy EXCEPT ![b] = o]
        BY <1>6 DEF Import!EditWrites
    <2>4. ~raced => /\ \A a \in Agents : a # b => agents'[a] = agents[a]
                    /\ agents'[b] # "imported" \/ agents'[b] = agents[b]
        BY <2>2, <2>3, <1>6 DEF Import!EditWrites, ImportInv, OneCopy, AnyOwner
    <2> QED
        BY <2>1, <2>4
<1>7. CASE UNCHANGED Import!stored
    BY <1>7
<1> QED
    BY <1>1, <1>2, <1>3, <1>4, <1>5, <1>6, <1>7
    DEF Import!Next, Import!Convert, Import!Start, Import!Answer, Import!Crash, Import!EditReads,
        Import!Parsed, Import!ParseFails, Import!KeychainFails, Import!NothingToDetect, Import!Answered,
        Import!Report, Import!DetectFails, Import!WriteFails, Import!MemoryFails,
        Import!Detect, Import!Detecting, Import!DryItem, Import!ItemFails, Import!Mapped,
        Import!Ask, Import!Ends

LEMMA ImportSteps == ASSUME [ServicesNext]_allVars PROVE [Import!Next]_importVars
<1> USE DEF importVars, daemonVars
<1> QED
    BY DEF ServicesNext, Only, allVars

LEMMA ImportAlways == ServicesSpec => []ImportInv
<1>1. ServicesInit => ImportInv
    BY ImportInitInv DEF ServicesInit
<1>2. ImportInv /\ [ServicesNext]_allVars => ImportInv'
    BY ImportSteps, ImportNextInv
<1> QED
    BY <1>1, <1>2, PTL DEF ServicesSpec

\* An import takes nothing it was not told to take, leaves nothing out, and its
\* status says what it does: for any agents, keys, channels and selections, any
\* number of imports, edits of the user, failures and crashes.
THEOREM ImportTakesHolds == ServicesSpec => ImportTakesWhatIsGiven
<1>1. ImportInv => Import!NothingLeftOut /\ Import!StatusIsTrue
    BY ImportLeavesNothing DEF ImportInv
<1>2. ServicesSpec => Import!OwnIsAsked
    <2>1. ImportInv /\ [ServicesNext]_allVars =>
          [ /\ \A a \in Agents :
                  /\ agents[a] \in {"own", "other"} => agents'[a] # "imported" \/ raced
                  /\ importAt = importAt' /\ agents[a] # "none" /\ agents'[a] = "none" =>
                         edit.agent = a \/ raced
                  /\ agents[a] # "none" /\ identity[a] = "own" /\ identity'[a] = "imported" =>
                         importAt = "memory" \/ a \in unseen \/ raced
                             \/ (Import!Taken(a) /\ ~Import!Skips("agents"))
            /\ \A k \in Keys :
                  keys[k] \notin {0, keys'[k]} \/ refreshes[k] \notin {0, refreshes'[k]} =>
                      k \in unseen \/ (Import!Taken(k) /\ ~Import!Skips("keys"))
            /\ dryRun => edit # edit' \/ troubles # troubles' \/ Import!stored' = Import!stored
          ]_(Import!vars)
        BY ImportSteps, ImportAsksFirst DEF Import!vars, importVars
    <2> QED
        BY <2>1, ImportAlways, PTL DEF ServicesSpec, Import!OwnIsAsked
<1> QED
    BY <1>1, <1>2, ImportAlways, PTL DEF ImportTakesWhatIsGiven
=============================================================================
