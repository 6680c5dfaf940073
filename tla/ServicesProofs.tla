--------------------------- MODULE ServicesProofs ---------------------------
(***************************************************************************)
(* For every value of the constants: what the parts of MCServices promise, *)
(* one section for each part and its inductive invariant, and then the     *)
(* properties of the whole.                                                *)
(***************************************************************************)
EXTENDS DaemonProofs, ImportProofs, FiniteSetTheorems

-----------------------------------------------------------------------------
(* IntegrationLifecycle: the chain of promises lets one operation run at a *)
(* time, in the order of the calls, and therefore the tools of an          *)
(* integration are there only while it is active, and a disable that       *)
(* returned ok leaves nothing behind.                                      *)

Unsettled == {o \in Ops : iAt[o] \notin {"idle", "settled"}}

\* What the queue promises about the calls that are in it.
QueueShape ==
    /\ \A o \in Ops : previous[o] \in Ops => iAt[previous[o]] # "idle"
    /\ tail \in Ops => iAt[tail] # "idle"
    /\ \A o \in Integration!InProgress : previous[o] \in Integration!SettledOps

\* r numbers the unsettled calls in the order of the chain: the one whose turn
\* it is comes first, the others right after the call they wait for, and the
\* tail, unless it has settled, comes last.
Chained(r) ==
    /\ \A o, p \in Unsettled : r[o] = r[p] => o = p
    /\ \A o, p \in Unsettled : previous[o] \in Integration!SettledOps => r[o] <= r[p]
    /\ \A o, p \in Unsettled :
         previous[o] \in Unsettled =>
            r[previous[o]] < r[o] /\ (r[p] <= r[previous[o]] \/ r[o] <= r[p])
    /\ \A o \in Unsettled : tail \in Unsettled /\ r[o] <= r[tail]

InOrder == \E r \in [Ops -> Nat] : Chained(r)

-----------------------------------------------------------------------------
\* Types.

LEMMA IntegrationInitType == Integration!Init => Integration!TypeOK
BY DEF Integration!Init, Integration!TypeOK, Integration!States, Integration!Kinds, Integration!Places

LEMMA IntegrationReturnType ==
    ASSUME Integration!TypeOK, NEW o \in Ops, NEW how, Integration!Return(o, how)
    PROVE  iAt' \in [Ops -> Integration!Places] /\ latest' \in Integration!Kinds \cup {"none"} /\ started' \in BOOLEAN
<1>1. iAt' \in [Ops -> Integration!Places] /\ latest' \in Integration!Kinds \cup {"none"}
    BY DEF Integration!Return, Integration!Go, Integration!TypeOK, Integration!Places
<1>2. started' \in BOOLEAN
    BY DEF Integration!Return
<1> QED
    BY <1>1, <1>2

LEMMA IntegrationCallType == ASSUME Integration!TypeOK, NEW o \in Ops, NEW k \in Integration!Kinds, Integration!Call(o, k) PROVE Integration!TypeOK'
<1> USE DEF Integration!Call, Integration!TypeOK
<1>1. kind' \in [Ops -> Integration!Kinds \cup {"none"}] /\ iAt' \in [Ops -> Integration!Places]
    BY DEF Integration!Go, Integration!Places, Integration!callVars
<1>2. previous' \in [Ops -> Ops \cup {NoOp}] /\ tail' \in Ops \cup {NoOp}
    BY DEF Integration!callVars
<1>3. started' \in BOOLEAN
    OBVIOUS
<1> QED
    BY <1>1, <1>2, <1>3 DEF Integration!adapterVars

LEMMA IntegrationOperationType ==
    ASSUME Integration!TypeOK, NEW o \in Ops,
           \/ Integration!Enable(o) \/ Integration!ConnectSettles(o) \/ Integration!Undo(o) \/ Integration!Disable(o) \/ Integration!DisconnectSettles(o)
           \/ Integration!CleanupSettles(o) \/ Integration!RevokeSettles(o) \/ Integration!Suspend(o) \/ Integration!Resume(o)
    PROVE  Integration!TypeOK'
<1>1. iAt' \in [Ops -> Integration!Places] /\ latest' \in Integration!Kinds \cup {"none"} /\ started' \in BOOLEAN
    <2>1. ASSUME NEW place \in Integration!Places, Integration!Working(o, place)
          PROVE  iAt' \in [Ops -> Integration!Places] /\ latest' \in Integration!Kinds \cup {"none"} /\ started' \in BOOLEAN
        BY <2>1 DEF Integration!Working, Integration!Go, Integration!TypeOK
    <2> QED
        BY <2>1, IntegrationReturnType DEF Integration!Enable, Integration!ConnectSettles, Integration!Activate, Integration!Undo, Integration!Disable,
           Integration!DisconnectSettles, Integration!CleanupSettles, Integration!RevokeSettles, Integration!Suspend, Integration!Resume, Integration!Places
<1>2. iState' \in Integration!States /\ connected' \in BOOLEAN /\ credential' \in BOOLEAN
    BY DEF Integration!Enable, Integration!ConnectSettles, Integration!Activate, Integration!Undo, Integration!Disable, Integration!DisconnectSettles, Integration!CleanupSettles,
           Integration!RevokeSettles, Integration!Suspend, Integration!Resume, Integration!States, Integration!TypeOK
<1>3. tools' \in BOOLEAN /\ enabled' \in BOOLEAN
    <2>1. tools' \in {tools, TRUE, FALSE, tools /\ ~Integration!Up} /\ enabled' \in {enabled, TRUE, FALSE}
        BY DEF Integration!Enable, Integration!ConnectSettles, Integration!Activate, Integration!Undo, Integration!Disable, Integration!DisconnectSettles,
               Integration!CleanupSettles, Integration!RevokeSettles, Integration!Suspend, Integration!Resume
    <2> QED
        BY <2>1 DEF Integration!TypeOK
<1>4. UNCHANGED Integration!callVars
    BY DEF Integration!Enable, Integration!ConnectSettles, Integration!Undo, Integration!Disable, Integration!DisconnectSettles, Integration!CleanupSettles,
           Integration!RevokeSettles, Integration!Suspend, Integration!Resume
<1> QED
    BY <1>1, <1>2, <1>3, <1>4 DEF Integration!TypeOK, Integration!callVars

LEMMA IntegrationDequeueType == ASSUME Integration!TypeOK, NEW o \in Ops, Integration!Dequeue(o) PROVE Integration!TypeOK'
BY DEF Integration!Dequeue, Integration!Leave, Integration!Go, Integration!TypeOK, Integration!Places, Integration!adapterVars

LEMMA IntegrationStepType == ASSUME Integration!TypeOK, [Integration!Next]_integrationVars PROVE Integration!TypeOK'
<1>1. CASE Integration!StoreCredential \/ Integration!StartService
    BY <1>1 DEF Integration!StoreCredential, Integration!StartService, Integration!TypeOK, Integration!callVars
<1>2. CASE UNCHANGED integrationVars
    BY <1>2 DEF integrationVars, Integration!adapterVars, Integration!callVars, Integration!TypeOK
<1> QED
    BY <1>1, <1>2, IntegrationCallType, IntegrationOperationType, IntegrationDequeueType DEF Integration!Next, Integration!Step

-----------------------------------------------------------------------------
\* The call whose turn it is, or that is in progress, is the first of the
\* chain: nobody else is in progress.

LEMMA IntegrationAlone ==
    ASSUME Integration!TypeOK, QueueShape, InOrder, NEW o \in Unsettled, previous[o] \in Integration!SettledOps
    PROVE  \A p \in Integration!InProgress : p = o
<1> SUFFICES ASSUME NEW p \in Integration!InProgress PROVE p = o
    OBVIOUS
<1>1. PICK r \in [Ops -> Nat] : Chained(r)
    BY DEF InOrder
<1>2. p \in Unsettled /\ previous[p] \in Integration!SettledOps
    BY DEF QueueShape, Integration!InProgress, Unsettled
<1>3. r[o] <= r[p] /\ r[p] <= r[o] /\ r[o] \in Nat /\ r[p] \in Nat
    BY <1>1, <1>2 DEF Chained, Unsettled
<1> QED
    BY <1>1, <1>2, <1>3 DEF Chained

\* An operation gets on: the queue is as it was.
LEMMA IntegrationAdvance ==
    ASSUME Integration!TypeOK, QueueShape, InOrder, NEW o \in Unsettled, previous[o] \in Integration!SettledOps,
           NEW place \in Integration!Places \ {"idle", "settled"}, iAt' = [iAt EXCEPT ![o] = place],
           UNCHANGED Integration!callVars
    PROVE  QueueShape' /\ InOrder'
<1> USE DEF Integration!TypeOK, Integration!callVars
<1>1. Unsettled' = Unsettled /\ Integration!SettledOps' = Integration!SettledOps
    BY DEF Unsettled, Integration!SettledOps
<1>2. Integration!InProgress' \subseteq Integration!InProgress \cup {o}
    BY DEF Integration!InProgress
<1>3. QueueShape'
    BY <1>1, <1>2 DEF QueueShape, Unsettled, Integration!InProgress
<1>4. ASSUME NEW r \in [Ops -> Nat], Chained(r) PROVE Chained(r)'
    BY <1>1, <1>4 DEF Chained, Unsettled
<1> QED
    BY <1>3, <1>4 DEF InOrder

\* It settles: the call that waits for it comes first now.
LEMMA IntegrationSettle ==
    ASSUME Integration!TypeOK, QueueShape, InOrder, NEW o \in Unsettled, previous[o] \in Integration!SettledOps,
           iAt' = [iAt EXCEPT ![o] = "settled"], UNCHANGED Integration!callVars
    PROVE  QueueShape' /\ InOrder'
<1> USE DEF Integration!TypeOK, Integration!callVars
<1>1. /\ Unsettled' = Unsettled \ {o}
      /\ Integration!SettledOps' = Integration!SettledOps \cup {o}
    BY DEF Unsettled, Integration!SettledOps
<1>2. Integration!InProgress' \subseteq Integration!InProgress
    BY DEF Integration!InProgress
<1>3. QueueShape'
    BY <1>1, <1>2 DEF QueueShape, Unsettled, Integration!InProgress
<1>4. ASSUME NEW r \in [Ops -> Nat], Chained(r) PROVE Chained(r)'
    <2>1. \A p \in Unsettled : r[o] <= r[p] /\ r[p] \in Nat /\ r[o] \in Nat
        BY <1>4 DEF Chained, Unsettled
    <2>2. ASSUME NEW p \in Unsettled', NEW q \in Unsettled', previous[p] \in Integration!SettledOps'
          PROVE  r[p] <= r[q]
        <3>1. previous[p] \in Ops \cup {NoOp} /\ p \in Unsettled /\ q \in Unsettled /\ q # o
            BY <1>1, <2>2 DEF Unsettled
        <3>2. CASE previous[p] \in Integration!SettledOps
            BY <1>4, <3>1, <3>2 DEF Chained
        <3>3. CASE previous[p] = o
            <4>1. r[q] <= r[o] \/ r[p] <= r[q]
                BY <1>4, <3>1, <3>3 DEF Chained
            <4>2. r[q] # r[o]
                BY <1>4, <3>1 DEF Chained
            <4> QED
                BY <2>1, <3>1, <4>1, <4>2
        <3> QED
            BY <1>1, <2>2, <3>1, <3>2, <3>3
    <2>3. ASSUME NEW p \in Unsettled' PROVE tail \in Unsettled' /\ r[p] <= r[tail]
        <3>1. p \in Unsettled /\ p # o /\ tail \in Unsettled /\ r[p] <= r[tail]
            BY <1>1, <1>4, <2>3 DEF Chained
        <3>2. tail # o
            <4> SUFFICES ASSUME tail = o PROVE FALSE
                OBVIOUS
            <4>1. r[p] = r[o]
                BY <2>1, <3>1
            <4> QED
                BY <1>4, <3>1, <4>1 DEF Chained
        <3> QED
            BY <1>1, <3>1, <3>2
    <2> QED
        BY <1>1, <1>4, <2>2, <2>3 DEF Chained
<1> QED
    BY <1>3, <1>4 DEF InOrder

\* A settled call leaves: whoever waited for it waits for nobody.
LEMMA IntegrationDequeueQueue ==
    ASSUME Integration!TypeOK, QueueShape, InOrder, NEW o \in Ops, Integration!Dequeue(o)
    PROVE  QueueShape' /\ InOrder'
<1> USE ServicesLimits DEF Integration!NoOpIsNoCall, Integration!TypeOK, Integration!Dequeue, Integration!Leave, Integration!Go
<1>1. /\ iAt[o] = "settled" /\ Unsettled' = Unsettled
      /\ Integration!InProgress' = Integration!InProgress
      /\ Integration!SettledOps' = Integration!SettledOps \ {o}
    BY DEF Unsettled, Integration!SettledOps, Integration!InProgress
<1>2. \A p \in Ops : /\ previous'[p] \in {previous[p], NoOp}
                     /\ p # o => previous'[p] = IF previous[p] = o THEN NoOp ELSE previous[p]
                     /\ previous'[o] = NoOp
    OBVIOUS
<1>3. \A p \in Unsettled : /\ previous'[p] \in Integration!SettledOps' <=> previous[p] \in Integration!SettledOps
                           /\ previous'[p] \in Unsettled => previous'[p] = previous[p]
    BY <1>1, <1>2 DEF Unsettled, Integration!SettledOps
<1>4. QueueShape'
    <2>1. \A p \in Ops : previous'[p] \in Ops => iAt'[previous'[p]] # "idle"
        BY <1>2 DEF QueueShape
    <2>2. tail' \in Ops => iAt'[tail'] # "idle"
        BY DEF QueueShape
    <2>3. \A p \in Integration!InProgress' : previous'[p] \in Integration!SettledOps'
        BY <1>1, <1>3 DEF QueueShape, Integration!InProgress, Unsettled
    <2> QED
        BY <2>1, <2>2, <2>3 DEF QueueShape
<1>5. ASSUME NEW r \in [Ops -> Nat], Chained(r) PROVE Chained(r)'
    <2>1. \A p \in Unsettled : tail' = tail
        BY <1>1, <1>5 DEF Chained, Unsettled
    <2>2. \A p, q \in Unsettled' : r[p] = r[q] => p = q
        BY <1>1, <1>5 DEF Chained
    <2>3. \A p, q \in Unsettled' : previous'[p] \in Integration!SettledOps' => r[p] <= r[q]
        BY <1>1, <1>3, <1>5 DEF Chained
    <2>4. \A p, q \in Unsettled' :
             previous'[p] \in Unsettled' =>
                r[previous'[p]] < r[p] /\ (r[q] <= r[previous'[p]] \/ r[p] <= r[q])
        BY <1>1, <1>3, <1>5 DEF Chained
    <2>5. \A p \in Unsettled' : tail' \in Unsettled' /\ r[p] <= r[tail']
        BY <1>1, <1>5, <2>1 DEF Chained
    <2> QED
        BY <2>2, <2>3, <2>4, <2>5 DEF Chained
<1> QED
    BY <1>4, <1>5 DEF InOrder

\* A new call comes last.
LEMMA IntegrationCallQueue ==
    ASSUME Integration!TypeOK, QueueShape, InOrder, NEW o \in Ops, NEW k \in Integration!Kinds, Integration!Call(o, k)
    PROVE  QueueShape' /\ InOrder'
<1> USE ServicesLimits DEF Integration!NoOpIsNoCall, Integration!TypeOK
<1>1. CASE UNCHANGED <<tail, kind, previous, iAt>>
    BY <1>1 DEF Integration!callVars, QueueShape, InOrder, Chained, Unsettled, Integration!InProgress, Integration!SettledOps
<1>2. CASE /\ previous' = [previous EXCEPT ![o] = tail] /\ tail' = o
           /\ iAt' = [iAt EXCEPT ![o] = "queued"]
    <2>1. /\ iAt[o] = "idle" /\ tail # o
          /\ Unsettled' = Unsettled \cup {o} /\ o \notin Unsettled
          /\ Integration!InProgress' = Integration!InProgress
          /\ Integration!SettledOps' = Integration!SettledOps
        BY <1>2 DEF Integration!Call, Unsettled, Integration!SettledOps, Integration!InProgress, QueueShape
    <2>2. \A p \in Ops \ {o} : previous'[p] = previous[p] /\ previous[p] # o
        BY <1>2, <2>1 DEF QueueShape
    <2>3. QueueShape'
        BY <1>2, <2>1, <2>2 DEF QueueShape, Integration!InProgress
    <2>4. ASSUME NEW r \in [Ops -> Nat], Unsettled = {} PROVE InOrder'
        <3>1. Unsettled' = {o} /\ previous'[o] # o /\ r[o] \in Nat
            BY <1>2, <2>1, <2>4
        <3>2. Chained(r)'
            BY <1>2, <3>1 DEF Chained
        <3> QED
            BY <3>2 DEF InOrder
    <2>5. ASSUME NEW r \in [Ops -> Nat], Chained(r), Unsettled # {}, NEW n \in Nat, n = r[tail] + 1
          PROVE  InOrder'
        <3> DEFINE s == [r EXCEPT ![o] = n]
        <3>1. tail \in Unsettled /\ \A p \in Unsettled : r[p] <= r[tail]
            BY <2>5 DEF Chained
        <3>2. /\ s \in [Ops -> Nat] /\ s[o] = r[tail] + 1
              /\ \A p \in Unsettled : p # o /\ s[p] = r[p] /\ r[p] \in Nat /\ s[p] < s[o]
            <4>1. s \in [Ops -> Nat] /\ s[o] = n
                OBVIOUS
            <4>2. ASSUME NEW p \in Unsettled
                  PROVE  p # o /\ s[p] = r[p] /\ r[p] \in Nat /\ r[p] <= r[tail] /\ r[tail] \in Nat
                BY <2>1, <3>1 DEF Unsettled
            <4> HIDE DEF s
            <4> QED
                BY <2>5, <4>1, <4>2
        <3> HIDE DEF s
        <3>3. tail \notin Integration!SettledOps /\ previous'[o] = tail
            BY <1>2, <3>1 DEF Unsettled, Integration!SettledOps
        <3>4. \A p, q \in Unsettled' : s[p] = s[q] => p = q
            BY <2>1, <2>5, <3>2 DEF Chained
        <3>5. \A p, q \in Unsettled' : previous'[p] \in Integration!SettledOps' => s[p] <= s[q]
            <4> SUFFICES ASSUME NEW p \in Unsettled', NEW q \in Unsettled',
                                previous'[p] \in Integration!SettledOps'
                         PROVE  s[p] <= s[q]
                OBVIOUS
            <4>1. p \in Unsettled /\ previous[p] \in Integration!SettledOps
                BY <2>1, <2>2, <3>1, <3>3 DEF Unsettled
            <4> QED
                BY <2>1, <2>5, <3>2, <4>1 DEF Chained
        <3>6. ASSUME NEW p \in Unsettled', NEW q \in Unsettled', previous'[p] \in Unsettled'
              PROVE  /\ s[previous'[p]] < s[p]
                     /\ s[q] <= s[previous'[p]] \/ s[p] <= s[q]
            <4>1. CASE p = o
                BY <2>1, <3>1, <3>2, <3>3, <4>1
            <4>2. CASE p # o
                <5>1. p \in Unsettled /\ previous'[p] = previous[p] /\ previous[p] \in Unsettled
                    BY <2>1, <2>2, <3>6, <4>2 DEF Unsettled
                <5>2. r[previous[p]] < r[p]
                    BY <2>5, <5>1 DEF Chained
                <5>3. q \in Unsettled => r[q] <= r[previous[p]] \/ r[p] <= r[q]
                    BY <2>5, <5>1 DEF Chained
                <5>4. s[p] <= s[o]
                    BY <3>2, <5>1
                <5> QED
                    BY <2>1, <3>2, <5>1, <5>2, <5>3, <5>4
            <4> QED
                BY <4>1, <4>2
        <3>7. \A p \in Unsettled' : tail' \in Unsettled' /\ s[p] <= s[tail']
            BY <1>2, <2>1, <3>1, <3>2
        <3>8. Chained(s)'
            BY <3>4, <3>5, <3>6, <3>7 DEF Chained
        <3> QED
            BY <3>2, <3>8 DEF InOrder
    <2>6. InOrder'
        <3>1. PICK r \in [Ops -> Nat] : Chained(r)
            BY DEF InOrder
        <3>2. CASE Unsettled = {}
            BY <2>4, <3>1, <3>2
        <3>3. CASE Unsettled # {}
            <4>1. r[tail] + 1 \in Nat
                BY <3>1, <3>3 DEF Chained, Unsettled
            <4> QED
                BY <2>5, <3>1, <3>3, <4>1
        <3> QED
            BY <3>2, <3>3
    <2> QED
        BY <2>3, <2>6
<1> QED
    BY <1>1, <1>2 DEF Integration!Call, Integration!Go, Integration!callVars

-----------------------------------------------------------------------------
\* Every step of an operation is an advance or a settlement of the first call.

LEMMA IntegrationOperationQueue ==
    ASSUME Integration!TypeOK, QueueShape, InOrder, NEW o \in Ops,
           \/ Integration!Enable(o) \/ Integration!ConnectSettles(o) \/ Integration!Undo(o) \/ Integration!Disable(o) \/ Integration!DisconnectSettles(o)
           \/ Integration!CleanupSettles(o) \/ Integration!RevokeSettles(o) \/ Integration!Suspend(o) \/ Integration!Resume(o)
    PROVE  QueueShape' /\ InOrder'
<1>1. o \in Unsettled /\ previous[o] \in Integration!SettledOps
    <2>1. Integration!Turn(o) \/ o \in Integration!InProgress
        BY DEF Integration!Enable, Integration!ConnectSettles, Integration!Undo, Integration!Disable, Integration!DisconnectSettles, Integration!CleanupSettles,
               Integration!RevokeSettles, Integration!Suspend, Integration!Resume, Integration!InProgress
    <2> QED
        BY <2>1 DEF Integration!Turn, Integration!InProgress, Unsettled, QueueShape
<1>2. UNCHANGED Integration!callVars
    BY DEF Integration!Enable, Integration!ConnectSettles, Integration!Undo, Integration!Disable, Integration!DisconnectSettles, Integration!CleanupSettles,
           Integration!RevokeSettles, Integration!Suspend, Integration!Resume
<1>3. ASSUME NEW how, Integration!Return(o, how) PROVE QueueShape' /\ InOrder'
    BY <1>1, <1>2, <1>3, IntegrationSettle DEF Integration!Return, Integration!Go
<1>4. ASSUME NEW place \in Integration!Places \ {"idle", "settled"}, Integration!Working(o, place)
      PROVE  QueueShape' /\ InOrder'
    BY <1>1, <1>2, <1>4, IntegrationAdvance DEF Integration!Working, Integration!Go
<1> QED
    BY <1>3, <1>4 DEF Integration!Enable, Integration!ConnectSettles, Integration!Activate, Integration!Undo, Integration!Disable, Integration!DisconnectSettles,
       Integration!CleanupSettles, Integration!RevokeSettles, Integration!Suspend, Integration!Resume, Integration!Places

LEMMA IntegrationStepQueue ==
    ASSUME Integration!TypeOK, QueueShape, InOrder, [Integration!Next]_integrationVars PROVE QueueShape' /\ InOrder'
<1>1. CASE Integration!StoreCredential \/ Integration!StartService \/ UNCHANGED integrationVars
    <2>1. UNCHANGED <<iAt, previous, tail>>
        BY <1>1 DEF Integration!StoreCredential, Integration!StartService, integrationVars, Integration!callVars
    <2> QED
        BY <2>1 DEF QueueShape, InOrder, Chained, Unsettled, Integration!InProgress, Integration!SettledOps
<1> QED
    BY <1>1, IntegrationCallQueue, IntegrationOperationQueue, IntegrationDequeueQueue DEF Integration!Next, Integration!Step

LEMMA IntegrationInitQueue == Integration!Init => QueueShape /\ InOrder
<1> SUFFICES ASSUME Integration!Init PROVE QueueShape /\ InOrder
    OBVIOUS
<1>1. Unsettled = {} /\ Integration!InProgress = {}
    BY DEF Integration!Init, Unsettled, Integration!InProgress
<1>2. QueueShape
    BY <1>1, ServicesLimits DEF Integration!NoOpIsNoCall, Integration!Init, QueueShape
<1>3. [o \in Ops |-> 0] \in [Ops -> Nat] /\ Chained([o \in Ops |-> 0])
    BY <1>1 DEF Chained
<1> QED
    BY <1>2, <1>3 DEF InOrder

LEMMA IntegrationQueueExclusive == Integration!TypeOK /\ QueueShape /\ InOrder => Integration!OneAtATime
<1> SUFFICES ASSUME Integration!TypeOK, QueueShape, InOrder PROVE Integration!OneAtATime
    OBVIOUS
<1>1. \A o \in Integration!InProgress : o \in Unsettled /\ previous[o] \in Integration!SettledOps
    BY DEF QueueShape, Integration!InProgress, Unsettled
<1> QED
    BY <1>1, IntegrationAlone DEF Integration!OneAtATime

-----------------------------------------------------------------------------
\* The tools are registered in the last step of an operation and removed in
\* the first: they are never there while one is in progress.

ToolsInv == tools => iState = "active" /\ Integration!InProgress = {}

LEMMA IntegrationOperationTools ==
    ASSUME Integration!TypeOK, QueueShape, InOrder, ToolsInv, NEW o \in Ops,
           \/ Integration!Enable(o) \/ Integration!ConnectSettles(o) \/ Integration!Undo(o) \/ Integration!Disable(o) \/ Integration!DisconnectSettles(o)
           \/ Integration!CleanupSettles(o) \/ Integration!RevokeSettles(o) \/ Integration!Suspend(o) \/ Integration!Resume(o)
    PROVE  ToolsInv'
<1> USE DEF Integration!TypeOK
<1>1. \A p \in Integration!InProgress : p = o
    <2>1. Integration!Turn(o) \/ o \in Integration!InProgress
        BY DEF Integration!Enable, Integration!ConnectSettles, Integration!Undo, Integration!Disable, Integration!DisconnectSettles, Integration!CleanupSettles,
               Integration!RevokeSettles, Integration!Suspend, Integration!Resume, Integration!InProgress
    <2>2. o \in Unsettled /\ previous[o] \in Integration!SettledOps
        BY <2>1 DEF Integration!Turn, Integration!InProgress, Unsettled, QueueShape
    <2> QED
        BY <2>2, IntegrationAlone
<1>2. ASSUME NEW how, Integration!Return(o, how) PROVE Integration!InProgress' = {}
    BY <1>1, <1>2 DEF Integration!Return, Integration!Go, Integration!InProgress
<1>3. ASSUME Integration!Turn(o) PROVE o \notin Integration!InProgress
    BY <1>3 DEF Integration!Turn, Integration!InProgress
<1>4. CASE Integration!Enable(o)
    BY <1>2, <1>4 DEF Integration!Enable, Integration!Activate, ToolsInv
<1>5. CASE Integration!ConnectSettles(o)
    <2>1. ~tools
        BY <1>5 DEF Integration!ConnectSettles, ToolsInv, Integration!InProgress
    <2> QED
        BY <1>2, <1>5, <2>1 DEF Integration!ConnectSettles, Integration!Activate, ToolsInv
<1>6. CASE Integration!Disable(o)
    <2>1. ~tools'
        BY <1>6 DEF Integration!Disable, ToolsInv, Integration!Up
    <2> QED
        BY <2>1 DEF ToolsInv
<1>7. CASE Integration!Undo(o) \/ Integration!DisconnectSettles(o) \/ Integration!CleanupSettles(o) \/ Integration!RevokeSettles(o)
    <2>1. ~tools
        BY <1>7 DEF Integration!Undo, Integration!DisconnectSettles, Integration!CleanupSettles, Integration!RevokeSettles, ToolsInv, Integration!InProgress
    <2>2. ~tools'
        BY <1>7, <2>1 DEF Integration!Undo, Integration!DisconnectSettles, Integration!CleanupSettles, Integration!RevokeSettles
    <2> QED
        BY <2>2 DEF ToolsInv
<1>8. CASE Integration!Suspend(o) \/ Integration!Resume(o)
    BY <1>2, <1>8 DEF Integration!Suspend, Integration!Resume, ToolsInv
<1> QED
    BY <1>4, <1>5, <1>6, <1>7, <1>8

LEMMA IntegrationStepTools ==
    ASSUME Integration!TypeOK, QueueShape, InOrder, ToolsInv, [Integration!Next]_integrationVars PROVE ToolsInv'
<1>1. ASSUME NEW o \in Ops, NEW k \in Integration!Kinds, Integration!Call(o, k) PROVE ToolsInv'
    <2>1. UNCHANGED <<tools, iState>> /\ Integration!InProgress' = Integration!InProgress
        BY <1>1 DEF Integration!Call, Integration!Go, Integration!adapterVars, Integration!InProgress, Integration!TypeOK
    <2> QED
        BY <2>1 DEF ToolsInv
<1>2. ASSUME NEW o \in Ops, Integration!Dequeue(o) PROVE ToolsInv'
    <2>1. UNCHANGED <<tools, iState>> /\ Integration!InProgress' = Integration!InProgress
        BY <1>2 DEF Integration!Dequeue, Integration!Leave, Integration!Go, Integration!adapterVars, Integration!InProgress, Integration!TypeOK
    <2> QED
        BY <2>1 DEF ToolsInv
<1>3. CASE Integration!StoreCredential \/ Integration!StartService \/ UNCHANGED integrationVars
    <2>1. UNCHANGED <<tools, iState, iAt>>
        BY <1>3 DEF Integration!StoreCredential, Integration!StartService, integrationVars, Integration!adapterVars
    <2> QED
        BY <2>1 DEF ToolsInv, Integration!InProgress
<1> QED
    BY <1>1, <1>2, <1>3, IntegrationOperationTools DEF Integration!Next, Integration!Step

\* Where a disable has got to, and what is gone by then.
DisablesInOrder ==
    /\ \A o \in Ops :
          /\ iAt[o] \in {"connecting", "undoing"} => kind[o] = "enable"
          /\ iAt[o] = "cleaning" => ~connected
          /\ iAt[o] = "revoking" => ~connected /\ iState = "disconnected"
    /\ Integration!DisabledIsClean

LEMMA IntegrationOperationClean ==
    ASSUME Integration!TypeOK, QueueShape, InOrder, ToolsInv, DisablesInOrder, NEW o \in Ops,
           \/ Integration!Enable(o) \/ Integration!ConnectSettles(o) \/ Integration!Undo(o)
           \/ Integration!Disable(o) \/ Integration!DisconnectSettles(o)
           \/ Integration!CleanupSettles(o) \/ Integration!RevokeSettles(o)
           \/ Integration!Suspend(o) \/ Integration!Resume(o)
    PROVE  DisablesInOrder'
<1> USE DEF Integration!TypeOK
<1>1. \A p \in Ops : p # o => iAt'[p] \in {"idle", "queued", "settled"} /\ iAt'[p] = iAt[p]
    <2>1. Integration!Turn(o) \/ o \in Integration!InProgress
        BY DEF Integration!Enable, Integration!ConnectSettles, Integration!Undo,
               Integration!Disable, Integration!DisconnectSettles, Integration!CleanupSettles,
               Integration!RevokeSettles, Integration!Suspend, Integration!Resume,
               Integration!InProgress
    <2>2. o \in Unsettled /\ previous[o] \in Integration!SettledOps
        BY <2>1 DEF Integration!Turn, Integration!InProgress, Unsettled, QueueShape
    <2>3. \A p \in Ops : p # o => p \notin Integration!InProgress
        BY <2>2, IntegrationAlone
    <2>4. \E place \in Integration!Places : iAt' = [iAt EXCEPT ![o] = place]
        BY DEF Integration!Enable, Integration!ConnectSettles, Integration!Undo,
               Integration!Disable, Integration!DisconnectSettles, Integration!CleanupSettles,
               Integration!RevokeSettles, Integration!Suspend, Integration!Resume,
               Integration!Activate, Integration!Return, Integration!Working, Integration!Go,
               Integration!Places
    <2> QED
        BY <2>3, <2>4 DEF Integration!InProgress
<1>2. kind' = kind
    BY DEF Integration!Enable, Integration!ConnectSettles, Integration!Undo,
           Integration!Disable, Integration!DisconnectSettles, Integration!CleanupSettles,
           Integration!RevokeSettles, Integration!Suspend, Integration!Resume,
           Integration!callVars
<1>3. ASSUME NEW place \in Integration!Places, Integration!Working(o, place)
      PROVE  latest' = "none" /\ iAt'[o] = place
    BY <1>3 DEF Integration!Working, Integration!Go
<1>4. ASSUME NEW how, Integration!Return(o, how)
      PROVE  /\ iAt'[o] = "settled"
             /\ latest' = IF how = "ok" THEN kind[o] ELSE "none"
    BY <1>4 DEF Integration!Return, Integration!Go
<1> USE DEF DisablesInOrder, Integration!DisabledIsClean
<1>5. CASE Integration!Enable(o) \/ Integration!ConnectSettles(o)
    <2>1. kind[o] = "enable"
        BY <1>5 DEF Integration!Enable, Integration!ConnectSettles
    <2>2. \/ iAt'[o] = "settled" /\ latest' \in {"enable", "none"}
          \/ iAt'[o] \in {"connecting", "undoing"} /\ latest' = "none"
        BY <1>3, <1>4, <1>5, <2>1
        DEF Integration!Enable, Integration!ConnectSettles, Integration!Activate, Integration!Places
    <2> QED
        BY <1>1, <1>2, <2>1, <2>2
<1>6. CASE Integration!Undo(o) \/ Integration!Suspend(o) \/ Integration!Resume(o)
    <2>1. iAt'[o] = "settled" /\ latest' \in {"suspend", "resume", "none"}
        BY <1>4, <1>6 DEF Integration!Undo, Integration!Suspend, Integration!Resume
    <2> QED
        BY <1>1, <1>2, <2>1
<1>7. CASE Integration!Disable(o)
    <2>1. iAt'[o] = "disconnecting" /\ latest' = "none"
        BY <1>3, <1>7 DEF Integration!Disable, Integration!Places
    <2> QED
        BY <1>1, <1>2, <2>1
<1>8. CASE Integration!DisconnectSettles(o)
    <2>1. \/ iAt'[o] = "settled" /\ latest' = "none"
          \/ iAt'[o] = "cleaning" /\ latest' = "none" /\ ~connected'
        BY <1>3, <1>4, <1>8 DEF Integration!DisconnectSettles, Integration!Places
    <2> QED
        BY <1>1, <1>2, <2>1
<1>9. CASE Integration!CleanupSettles(o)
    <2>1. \/ iAt'[o] = "settled" /\ latest' = "none"
          \/ iAt'[o] = "revoking" /\ latest' = "none" /\ ~connected' /\ iState' = "disconnected"
        BY <1>3, <1>4, <1>9 DEF Integration!CleanupSettles, Integration!Places
    <2> QED
        BY <1>1, <1>2, <2>1
<1>10. CASE Integration!RevokeSettles(o)
    <2>1. iAt'[o] = "settled" /\ ~connected' /\ iState' = "disconnected" /\ ~tools'
        BY <1>4, <1>10 DEF Integration!RevokeSettles, ToolsInv, Integration!InProgress
    <2>2. latest' = "none" \/ (~credential' /\ ~enabled')
        BY <1>4, <1>10 DEF Integration!RevokeSettles
    <2> QED
        BY <1>1, <1>2, <2>1, <2>2
<1> QED
    BY <1>5, <1>6, <1>7, <1>8, <1>9, <1>10

LEMMA IntegrationStepClean ==
    ASSUME Integration!TypeOK, QueueShape, InOrder, ToolsInv, DisablesInOrder,
           [Integration!Next]_integrationVars
    PROVE  DisablesInOrder'
<1> USE DEF DisablesInOrder, Integration!DisabledIsClean, Integration!TypeOK
<1>1. ASSUME NEW o \in Ops, NEW k \in Integration!Kinds, Integration!Call(o, k)
      PROVE  DisablesInOrder'
    <2>1. /\ UNCHANGED <<iState, tools, enabled, credential, connected, latest>>
          /\ \A p \in Ops : p # o => iAt'[p] = iAt[p] /\ kind'[p] = kind[p]
          /\ iAt'[o] \in {"idle", "queued"}
        BY <1>1 DEF Integration!Call, Integration!Go, Integration!adapterVars, Integration!callVars
    <2> QED
        BY <2>1
<1>2. ASSUME NEW o \in Ops, Integration!Dequeue(o) PROVE DisablesInOrder'
    <2>1. /\ UNCHANGED <<iState, tools, enabled, credential, connected, latest>>
          /\ \A p \in Ops : p # o => iAt'[p] = iAt[p] /\ kind'[p] = kind[p]
          /\ iAt'[o] = "idle"
        BY <1>2 DEF Integration!Dequeue, Integration!Leave, Integration!Go, Integration!adapterVars
    <2> QED
        BY <2>1
<1>3. CASE Integration!StoreCredential
    BY <1>3 DEF Integration!StoreCredential, Integration!callVars
<1>4. CASE Integration!StartService
    BY <1>4 DEF Integration!StartService, Integration!callVars
<1>5. CASE UNCHANGED integrationVars
    BY <1>5 DEF integrationVars
<1> QED
    BY <1>1, <1>2, <1>3, <1>4, <1>5, IntegrationOperationClean
    DEF Integration!Next, Integration!Step

IntegrationInv ==
    Integration!TypeOK /\ QueueShape /\ InOrder /\ ToolsInv /\ DisablesInOrder

LEMMA IntegrationInitInv == Integration!Init => IntegrationInv
<1> SUFFICES ASSUME Integration!Init PROVE IntegrationInv
    OBVIOUS
<1>1. ToolsInv /\ DisablesInOrder
    BY DEF Integration!Init, ToolsInv, DisablesInOrder, Integration!DisabledIsClean
<1> QED
    BY <1>1, IntegrationInitType, IntegrationInitQueue DEF IntegrationInv

LEMMA IntegrationNextInv ==
    IntegrationInv /\ [Integration!Next]_integrationVars => IntegrationInv'
BY IntegrationStepType, IntegrationStepQueue, IntegrationStepTools, IntegrationStepClean
DEF IntegrationInv

-----------------------------------------------------------------------------
(* OAuthRefresh: as long as no cancel has let go of a refresh, the one     *)
(* that callers join is the only one, and the newest token is in the vault *)
(* or about to be stored.                                                  *)

RefreshNumbers ==
    /\ issued \in 1..MaxTokens /\ vault \in 0..issued
    /\ token \in [Execs -> 0..issued] /\ tries \in [Execs -> 0..RefreshAttempts]
    /\ joined \in [Execs -> 0..1]
RefreshPlaces == {"new", "loading", "calling", "sleeping", "storing", "rescheduling",
                  "marking", "ok", "failed"}
RefreshFlags ==
    /\ timer \in BOOLEAN /\ expired \in BOOLEAN /\ cancelled \in BOOLEAN /\ lost \in BOOLEAN
RefreshControl == inFlight \in Execs \cup {NoExec} /\ refreshAt \in [Execs -> RefreshPlaces]

LEMMA RefreshTypeParts ==
    Refresh!TypeOK <=> RefreshNumbers /\ RefreshFlags /\ RefreshControl
BY DEF Refresh!TypeOK, RefreshNumbers, RefreshFlags, RefreshControl, RefreshPlaces

LEMMA RefreshTypePartsNext ==
    Refresh!TypeOK' <=> RefreshNumbers' /\ RefreshFlags' /\ RefreshControl'
BY DEF Refresh!TypeOK, RefreshNumbers, RefreshFlags, RefreshControl, RefreshPlaces

\* What is said of the refresh e that is under way.
TokenAtHand(e) ==
    /\ refreshAt[e] # "loading" \/ token[e] # 0 => vault # 0
    /\ refreshAt[e] = "storing" => token[e] # 0
    /\ ~lost => IF refreshAt[e] = "storing" THEN token[e] = issued ELSE vault \in {0, issued}
OneRefresh ==
    ~cancelled =>
        /\ inFlight = NoExec =>
              Refresh!Active = {} /\ (~lost => vault \in {0, issued})
        /\ inFlight # NoExec => Refresh!Active = {inFlight} /\ TokenAtHand(inFlight)

MayTryAgain == \A e \in Execs : refreshAt[e] = "sleeping" => tries[e] < RefreshAttempts

RefreshInv == Refresh!TypeOK /\ MayTryAgain /\ OneRefresh

LEMMA RefreshInitInv == Refresh!Init => RefreshInv
<1> SUFFICES ASSUME Refresh!Init PROVE RefreshInv
    OBVIOUS
<1> USE ServicesLimits DEF Refresh!RefreshLimits
<1>1. RefreshNumbers
    BY DEF Refresh!Init, RefreshNumbers
<1>2. RefreshFlags /\ RefreshControl
    BY DEF Refresh!Init, RefreshFlags, RefreshControl, RefreshPlaces
<1>3. Refresh!Active = {} /\ inFlight = NoExec /\ vault = issued /\ MayTryAgain
    BY DEF Refresh!Init, Refresh!Active, MayTryAgain
<1> QED
    BY <1>1, <1>2, <1>3, RefreshTypeParts DEF RefreshInv, OneRefresh

LEMMA RefreshNumbersKept ==
    ASSUME RefreshNumbers, RefreshControl, MayTryAgain, Refresh!Next PROVE RefreshNumbers'
<1> USE ServicesLimits DEF Refresh!RefreshLimits, RefreshNumbers
<1>1. CASE Refresh!Schedule \/ Refresh!Cancel
    BY <1>1 DEF Refresh!Schedule, Refresh!Cancel, Refresh!execVars
<1>2. CASE Refresh!SignIn
    BY <1>2 DEF Refresh!SignIn, Refresh!execVars
<1>3. ASSUME NEW e \in Execs, Refresh!Refresh(e) PROVE RefreshNumbers'
    <2>1. CASE inFlight = NoExec
        BY <1>3, <2>1 DEF Refresh!Refresh, Refresh!Starts
    <2>2. CASE inFlight # NoExec
        BY <1>3, <2>2 DEF Refresh!Refresh, Refresh!Joins, RefreshControl
    <2> QED
        BY <2>1, <2>2
<1>4. ASSUME NEW e \in Execs, Refresh!Loaded(e) \/ Refresh!Reschedule(e) \/ Refresh!Mark(e)
      PROVE  RefreshNumbers'
    BY <1>4 DEF Refresh!Loaded, Refresh!Reschedule, Refresh!Mark
<1>5. ASSUME NEW e \in Execs, Refresh!Accepted(e) PROVE RefreshNumbers'
    BY <1>5 DEF Refresh!Accepted
<1>6. ASSUME NEW e \in Execs, Refresh!Refused(e) PROVE RefreshNumbers'
    BY <1>6 DEF Refresh!Refused
<1>7. ASSUME NEW e \in Execs, Refresh!Retry(e) PROVE RefreshNumbers'
    BY <1>7 DEF Refresh!Retry, MayTryAgain
<1>8. ASSUME NEW e \in Execs, Refresh!Store(e) PROVE RefreshNumbers'
    BY <1>8 DEF Refresh!Store
<1> QED
    BY <1>1, <1>2, <1>3, <1>4, <1>5, <1>6, <1>7, <1>8 DEF Refresh!Next, Refresh!Progress

LEMMA RefreshFlagsKept == ASSUME RefreshFlags, Refresh!Next PROVE RefreshFlags'
<1> USE DEF RefreshFlags
<1>1. CASE Refresh!Schedule \/ Refresh!SignIn
    BY <1>1 DEF Refresh!Schedule, Refresh!SignIn
<1>2. CASE Refresh!Cancel
    BY <1>2 DEF Refresh!Cancel
<1>3. ASSUME NEW e \in Execs, Refresh!Refresh(e) PROVE RefreshFlags'
    BY <1>3 DEF Refresh!Refresh
<1>4. ASSUME NEW e \in Execs, Refresh!Progress(e) PROVE RefreshFlags'
    <2>1. /\ timer' \in {timer, TRUE, FALSE} /\ expired' \in {expired, TRUE}
          /\ cancelled' = cancelled /\ lost' \in {lost, TRUE}
        BY <1>4 DEF Refresh!Progress, Refresh!Loaded, Refresh!Accepted, Refresh!Refused,
           Refresh!Retry, Refresh!Store, Refresh!Reschedule, Refresh!Mark
    <2> QED
        BY <2>1
<1> QED
    BY <1>1, <1>2, <1>3, <1>4 DEF Refresh!Next

\* A step of a refresh moves it alone; at its end callers find none to join.
RefreshMoves(e, place) == refreshAt' = [refreshAt EXCEPT ![e] = place]

LEMMA RefreshControlKept == ASSUME RefreshControl, Refresh!Next PROVE RefreshControl'
<1> USE DEF RefreshControl
<1>1. CASE UNCHANGED refreshAt /\ inFlight' \in {inFlight, NoExec}
    BY <1>1
<1>2. ASSUME NEW e \in Execs, NEW place \in RefreshPlaces, RefreshMoves(e, place),
             inFlight' \in {inFlight, e, NoExec}
      PROVE  RefreshControl'
    BY <1>2 DEF RefreshMoves
<1>3. CASE Refresh!Schedule \/ Refresh!Cancel \/ Refresh!SignIn
    BY <1>1, <1>3 DEF Refresh!Schedule, Refresh!Cancel, Refresh!SignIn, Refresh!execVars
<1>4. ASSUME NEW e \in Execs, Refresh!Refresh(e) PROVE RefreshControl'
    BY <1>1, <1>2, <1>4
    DEF Refresh!Refresh, Refresh!Starts, Refresh!Joins, Refresh!Goes, RefreshMoves, RefreshPlaces
<1>5. ASSUME NEW e \in Execs, Refresh!Progress(e) PROVE RefreshControl'
    <2>1. \E place \in RefreshPlaces :
             RefreshMoves(e, place) /\ inFlight' \in {inFlight, NoExec}
        BY <1>5
        DEF Refresh!Progress, Refresh!Loaded, Refresh!Accepted, Refresh!Refused, Refresh!Retry,
            Refresh!Store, Refresh!Reschedule, Refresh!Mark, Refresh!Goes, Refresh!Ends,
            RefreshMoves, RefreshPlaces
    <2> QED
        BY <1>2, <2>1
<1> QED
    BY <1>3, <1>4, <1>5 DEF Refresh!Next

LEMMA RefreshTriesKept ==
    ASSUME RefreshNumbers, RefreshControl, MayTryAgain, Refresh!Next PROVE MayTryAgain'
<1> USE ServicesLimits DEF Refresh!RefreshLimits, RefreshNumbers, RefreshControl, MayTryAgain
<1>1. CASE Refresh!Schedule \/ Refresh!Cancel \/ Refresh!SignIn
    BY <1>1 DEF Refresh!Schedule, Refresh!Cancel, Refresh!SignIn, Refresh!execVars
<1>2. ASSUME NEW e \in Execs, Refresh!Refresh(e) PROVE MayTryAgain'
    BY <1>2 DEF Refresh!Refresh, Refresh!Starts, Refresh!Joins, Refresh!Goes
<1>3. ASSUME NEW e \in Execs, Refresh!Refused(e) PROVE MayTryAgain'
    BY <1>3 DEF Refresh!Refused, Refresh!Goes
<1>4. ASSUME NEW e \in Execs, Refresh!Retry(e) PROVE MayTryAgain'
    BY <1>4 DEF Refresh!Retry, Refresh!Goes
<1>5. ASSUME NEW e \in Execs,
             \/ Refresh!Loaded(e) \/ Refresh!Accepted(e) \/ Refresh!Store(e)
             \/ Refresh!Reschedule(e) \/ Refresh!Mark(e)
      PROVE  MayTryAgain'
    BY <1>5
    DEF Refresh!Loaded, Refresh!Accepted, Refresh!Store, Refresh!Reschedule, Refresh!Mark,
        Refresh!Goes, Refresh!Ends
<1> QED
    BY <1>1, <1>2, <1>3, <1>4, <1>5 DEF Refresh!Next, Refresh!Progress

LEMMA OneRefreshKept ==
    ASSUME Refresh!TypeOK, OneRefresh, Refresh!Next PROVE OneRefresh'
<1> USE ServicesLimits DEF Refresh!RefreshLimits
<1>0. RefreshNumbers /\ RefreshControl /\ RefreshFlags
    BY RefreshTypeParts
<1>1. CASE Refresh!Schedule
    BY <1>1 DEF Refresh!Schedule, Refresh!execVars, OneRefresh, TokenAtHand, Refresh!Active
<1>2. CASE Refresh!Cancel
    <2>1. ~cancelled' => Refresh!Active = {} /\ ~cancelled
        BY <1>0, <1>2 DEF Refresh!Cancel, RefreshFlags
    <2>2. /\ Refresh!Active' = Refresh!Active /\ inFlight' = NoExec
          /\ UNCHANGED <<issued, lost>> /\ vault' \in {vault, 0}
        BY <1>2 DEF Refresh!Cancel, Refresh!execVars, Refresh!Active
    <2> QED
        BY <2>1, <2>2 DEF OneRefresh
<1>3. CASE Refresh!SignIn
    <2>1. /\ vault = 0 /\ vault' = issued' /\ vault' # 0
          /\ UNCHANGED <<inFlight, refreshAt, token, cancelled, lost>>
          /\ Refresh!Active' = Refresh!Active
        BY <1>0, <1>3 DEF Refresh!SignIn, Refresh!execVars, Refresh!Active, RefreshNumbers
    <2> QED
        BY <2>1 DEF OneRefresh, TokenAtHand
<1>4. ASSUME NEW e \in Execs, Refresh!Refresh(e) PROVE OneRefresh'
    <2>1. CASE inFlight = NoExec
        <3>1. /\ inFlight' = e /\ refreshAt' = [refreshAt EXCEPT ![e] = "loading"]
              /\ token' = [token EXCEPT ![e] = vault]
              /\ UNCHANGED <<issued, vault, cancelled, lost>>
            BY <1>4, <2>1 DEF Refresh!Refresh, Refresh!Starts, Refresh!Goes
        <3>2. Refresh!Active' = Refresh!Active \cup {e} /\ refreshAt'[e] = "loading" /\ token'[e] = vault
            BY <1>0, <3>1 DEF Refresh!Active, RefreshControl, RefreshNumbers
        <3> QED
            BY <2>1, <3>1, <3>2 DEF OneRefresh, TokenAtHand
    <2>2. CASE inFlight # NoExec
        <3>1. UNCHANGED <<inFlight, refreshAt, token, issued, vault, cancelled, lost>>
            BY <1>4, <2>2 DEF Refresh!Refresh, Refresh!Joins
        <3> QED
            BY <3>1 DEF OneRefresh, TokenAtHand, Refresh!Active
    <2> QED
        BY <2>1, <2>2
<1>5. ASSUME NEW e \in Execs, Refresh!Progress(e) PROVE OneRefresh'
    <2>1. e \in Refresh!Active /\ cancelled' = cancelled
        BY <1>5
        DEF Refresh!Progress, Refresh!Loaded, Refresh!Accepted, Refresh!Refused, Refresh!Retry,
            Refresh!Store, Refresh!Reschedule, Refresh!Mark, Refresh!Active
    <2> SUFFICES ASSUME ~cancelled, OneRefresh PROVE OneRefresh'
        BY <2>1 DEF OneRefresh
    <2>2. inFlight = e /\ Refresh!Active = {e} /\ TokenAtHand(e) /\ e # NoExec
        BY <2>1 DEF OneRefresh
    <2>3. ASSUME NEW place \in {"ok", "failed"}, Refresh!Ends(e, place)
          PROVE  inFlight' = NoExec /\ Refresh!Active' = {}
        BY <1>0, <2>2, <2>3 DEF Refresh!Ends, Refresh!Goes, Refresh!Active, RefreshControl
    <2>4. ASSUME NEW place \in RefreshPlaces \ {"new", "ok", "failed"}, Refresh!Goes(e, place)
          PROVE  refreshAt'[e] = place /\ Refresh!Active' = {e}
        BY <1>0, <2>2, <2>4 DEF Refresh!Goes, Refresh!Active, RefreshControl, RefreshPlaces
    <2> USE DEF OneRefresh, TokenAtHand, RefreshPlaces
    <2>5. CASE Refresh!Loaded(e)
        BY <1>0, <2>2, <2>3, <2>4, <2>5 DEF Refresh!Loaded
    <2>6. CASE Refresh!Accepted(e)
        BY <1>0, <2>2, <2>4, <2>6 DEF Refresh!Accepted, RefreshNumbers
    <2>7. CASE Refresh!Refused(e)
        BY <1>0, <2>2, <2>4, <2>7 DEF Refresh!Refused
    <2>8. CASE Refresh!Retry(e)
        BY <1>0, <2>2, <2>4, <2>8 DEF Refresh!Retry
    <2>9. CASE Refresh!Store(e)
        BY <1>0, <2>2, <2>3, <2>4, <2>9 DEF Refresh!Store, RefreshNumbers
    <2>10. CASE Refresh!Reschedule(e) \/ Refresh!Mark(e)
        BY <1>0, <2>2, <2>3, <2>10 DEF Refresh!Reschedule, Refresh!Mark
    <2> QED
        BY <1>5, <2>5, <2>6, <2>7, <2>8, <2>9, <2>10 DEF Refresh!Progress
<1> QED
    BY <1>1, <1>2, <1>3, <1>4, <1>5 DEF Refresh!Next

LEMMA RefreshNextInv == RefreshInv /\ [Refresh!Next]_refreshVars => RefreshInv'
<1>1. CASE Refresh!Next
    BY <1>1, RefreshTypeParts, RefreshTypePartsNext, RefreshNumbersKept, RefreshFlagsKept,
       RefreshControlKept, RefreshTriesKept, OneRefreshKept DEF RefreshInv
<1>2. CASE UNCHANGED refreshVars
    BY <1>2 DEF refreshVars, RefreshInv, Refresh!TypeOK, MayTryAgain, OneRefresh, TokenAtHand,
       Refresh!Active
<1> QED
    BY <1>1, <1>2

-----------------------------------------------------------------------------
(* BrowserService: a shared launch is one that is still under way; and as  *)
(* long as no restart or stop overlaps another operation, the one call     *)
(* under way knows the Chrome there is.                                    *)

BrowserPlaces == {"done", "failed", "new", "joined", "disconnecting", "killing",
                  "launching", "waiting", "connecting", "stealth"}
UnderWayPlaces == BrowserPlaces \ {"done", "failed", "new", "joined"}

LaunchUnderWay ==
    /\ launch # NoCall => launch \in Browser!Working
    /\ \A c \in Browser!Callers : callAt[c] = "joined" => launch # NoCall

OneAtWork ==
    ~crossed =>
        /\ \A c, d \in Browser!Working : c = d
        /\ \A c \in Browser!Callers : proc[c] = "alive" => chrome = c
        /\ \A c \in Browser!Working :
              /\ callAt[c] = "launching" => \A d \in Browser!Callers : proc[d] # "alive"
              /\ callAt[c] = "killing" => target[c] = chrome /\ chrome # NoCall

BrowserInv == Browser!TypeOK /\ LaunchUnderWay /\ OneAtWork

LEMMA BrowserInitInv == Browser!Init => BrowserInv
<1> SUFFICES ASSUME Browser!Init PROVE BrowserInv
    OBVIOUS
<1>1. Browser!TypeOK
    BY DEF Browser!Init, Browser!TypeOK, Browser!Callers, Browser!Kinds, Browser!Settled
<1>2. Browser!Working = {} /\ launch = NoCall
    BY DEF Browser!Init, Browser!Working
<1> QED
    BY <1>1, <1>2 DEF Browser!Init, BrowserInv, LaunchUnderWay, OneAtWork

\* What a step does to the calls: one of them moves on, or settles with whoever
\* joined its launch.
BrowserMoves(c, place) == callAt' = [callAt EXCEPT ![c] = place] /\ UNCHANGED launch

LEMMA BrowserMovesKeep ==
    ASSUME Browser!TypeOK, LaunchUnderWay, NEW c \in Browser!Working,
           NEW place \in UnderWayPlaces, BrowserMoves(c, place)
    PROVE  /\ LaunchUnderWay' /\ Browser!Working' = Browser!Working
           /\ callAt'[c] = place /\ \A d \in Browser!Callers \ {c} : callAt'[d] = callAt[d]
BY DEF Browser!TypeOK, LaunchUnderWay, BrowserMoves, Browser!Working, UnderWayPlaces,
       BrowserPlaces, Browser!Settled

LEMMA BrowserSettles ==
    ASSUME Browser!TypeOK, LaunchUnderWay, NEW c \in Browser!Working,
           NEW how \in Browser!Settled, Browser!Settle(c, how)
    PROVE  /\ LaunchUnderWay' /\ Browser!Working' = Browser!Working \ {c}
           /\ \A d \in Browser!Working' : callAt'[d] = callAt[d]
<1> USE DEF Browser!TypeOK, Browser!Settle, Browser!Settled, Browser!Working
<1>1. /\ Browser!Working' = Browser!Working \ {c}
      /\ \A d \in Browser!Working' : callAt'[d] = callAt[d]
    OBVIOUS
<1>2. CASE launch = c
    BY <1>2 DEF LaunchUnderWay
<1>3. CASE launch # c
    BY <1>1, <1>3 DEF LaunchUnderWay
<1> QED
    BY <1>1, <1>2, <1>3

LEMMA BrowserTypeKept == ASSUME Browser!TypeOK, Browser!Next PROVE Browser!TypeOK'
<1> USE DEF Browser!TypeOK, Browser!Settled
<1>1. ASSUME NEW c \in Browser!Callers, NEW place \in BrowserPlaces, Browser!Goes(c, place)
      PROVE  callAt' \in [Browser!Callers -> BrowserPlaces]
    BY <1>1 DEF Browser!Goes, BrowserPlaces
<1>2. ASSUME NEW c \in Browser!Callers, NEW how \in Browser!Settled, Browser!Settle(c, how)
      PROVE  /\ callAt' \in [Browser!Callers -> BrowserPlaces]
             /\ launch' \in Browser!Callers \cup {NoCall}
    BY <1>2 DEF Browser!Settle, BrowserPlaces
<1>3. ASSUME NEW c \in Browser!Callers, Browser!AfterStop(c)
      PROVE  /\ callAt' \in [Browser!Callers -> BrowserPlaces]
             /\ launch' \in Browser!Callers \cup {NoCall}
    BY <1>1, <1>2, <1>3 DEF Browser!AfterStop, BrowserPlaces
<1> USE DEF Browser!browserState, Browser!callState
<1>4. ASSUME NEW c \in Browser!Callers, Browser!Begin(c) PROVE Browser!TypeOK'
    <2>1. CASE Browser!EnsureHealthy(c) \/ Browser!EnsureJoins(c)
        BY <1>1, <1>4, <2>1 DEF Browser!EnsureHealthy, Browser!EnsureJoins, BrowserPlaces
    <2>2. CASE Browser!EnsureLaunches(c)
        <3>1. callAt' \in [Browser!Callers -> BrowserPlaces]
            BY <1>1, <2>2 DEF Browser!EnsureLaunches, Browser!BeginStop, BrowserPlaces
        <3>2. crossed' \in BOOLEAN
            BY <2>2 DEF Browser!EnsureLaunches
        <3> QED
            BY <2>2, <3>1, <3>2 DEF Browser!EnsureLaunches, Browser!BeginStop, BrowserPlaces
    <2>3. CASE Browser!RestartOrStop(c)
        <3>1. callAt' \in [Browser!Callers -> BrowserPlaces]
            BY <1>1, <2>3 DEF Browser!RestartOrStop, Browser!BeginStop, BrowserPlaces
        <3>2. callKind' \in [Browser!Callers -> Browser!Kinds]
            BY <2>3 DEF Browser!RestartOrStop, Browser!Kinds
        <3>3. crossed' \in BOOLEAN
            BY <2>3 DEF Browser!RestartOrStop
        <3> QED
            BY <2>3, <3>1, <3>2, <3>3 DEF Browser!RestartOrStop, Browser!BeginStop, BrowserPlaces
    <2> QED
        BY <1>4, <2>1, <2>2, <2>3 DEF Browser!Begin
<1>5. ASSUME NEW c \in Browser!Callers, Browser!Step(c) PROVE Browser!TypeOK'
    <2>1. /\ callAt' \in [Browser!Callers -> BrowserPlaces]
          /\ launch' \in Browser!Callers \cup {NoCall}
        BY <1>1, <1>2, <1>3, <1>5
        DEF Browser!Step, Browser!NothingToKill, Browser!Kill, Browser!Killed, Browser!Spawn,
            Browser!NoBinary, Browser!ChromeReady, Browser!NotReady, Browser!Connected,
            Browser!ConnectFails, Browser!Launched, Browser!BeginStop, BrowserPlaces
    <2>2. proc' \in [Browser!Callers -> {"none", "alive", "dying", "exited"}]
        BY <1>5
        DEF Browser!Step, Browser!NothingToKill, Browser!Kill, Browser!Killed, Browser!Spawn,
            Browser!NoBinary, Browser!ChromeReady, Browser!NotReady, Browser!Connected,
            Browser!ConnectFails, Browser!Launched, Browser!BeginStop
    <2>3. /\ processExited' \in BOOLEAN /\ crossed' \in BOOLEAN
          /\ failing' \in [Browser!Callers -> BOOLEAN]
        BY <1>5
        DEF Browser!Step, Browser!NothingToKill, Browser!Kill, Browser!Killed, Browser!Spawn,
            Browser!NoBinary, Browser!ChromeReady, Browser!NotReady, Browser!Connected,
            Browser!ConnectFails, Browser!Launched, Browser!BeginStop
    <2>4. /\ chrome' \in Browser!Callers \cup {NoCall} /\ client' \in {"none", "open", "dropped"}
          /\ callKind' = callKind /\ target' \in [Browser!Callers -> Browser!Callers \cup {NoCall}]
        BY <1>5
        DEF Browser!Step, Browser!NothingToKill, Browser!Kill, Browser!Killed, Browser!Spawn,
            Browser!NoBinary, Browser!ChromeReady, Browser!NotReady, Browser!Connected,
            Browser!ConnectFails, Browser!Launched, Browser!BeginStop
    <2> QED
        BY <2>1, <2>2, <2>3, <2>4 DEF BrowserPlaces
<1>6. ASSUME NEW c \in Browser!Callers, Browser!ProcessExits(c) PROVE Browser!TypeOK'
    BY <1>6 DEF Browser!ProcessExits
<1>7. CASE Browser!ClientDrops \/ Browser!ClientReturns
    BY <1>7 DEF Browser!ClientDrops, Browser!ClientReturns
<1> QED
    BY <1>4, <1>5, <1>6, <1>7 DEF Browser!Next

LEMMA BrowserBegins ==
    ASSUME BrowserInv, NEW c \in Browser!Callers, Browser!Begin(c)
    PROVE  LaunchUnderWay' /\ OneAtWork'
<1> USE ServicesLimits
    DEF BrowserInv, Browser!NoCallIsNoCall, Browser!Callers, Browser!TypeOK, Browser!Working,
        Browser!Settled
<1>1. CASE Browser!EnsureHealthy(c) \/ Browser!EnsureJoins(c)
    <2>1. /\ UNCHANGED <<launch, chrome, proc, target, crossed>>
          /\ \E how \in {"done", "joined"} : callAt' = [callAt EXCEPT ![c] = how]
          /\ callAt'[c] = "joined" => launch # NoCall
          /\ callAt[c] = "new"
        BY <1>1
        DEF Browser!EnsureHealthy, Browser!EnsureJoins, Browser!browserState, Browser!Goes
    <2>2. Browser!Working' = Browser!Working /\ \A d \in Browser!Working : callAt'[d] = callAt[d]
        BY <2>1
    <2>3. LaunchUnderWay'
        BY <2>1, <2>2 DEF LaunchUnderWay
    <2> QED
        BY <2>1, <2>2, <2>3 DEF OneAtWork
<1>2. CASE Browser!EnsureLaunches(c) \/ Browser!RestartOrStop(c)
    <2>1. /\ launch' \in {launch, c} /\ UNCHANGED <<chrome, proc, target>>
          /\ callAt' = [callAt EXCEPT ![c] = "disconnecting"]
          /\ ~crossed' => ~crossed /\ Browser!Working = {}
          /\ callAt[c] = "new"
        BY <1>2
        DEF Browser!EnsureLaunches, Browser!RestartOrStop, Browser!BeginStop, Browser!Goes
    <2>2. Browser!Working' = Browser!Working \cup {c} /\ callAt'[c] = "disconnecting"
        BY <2>1
    <2>3. LaunchUnderWay'
        BY <2>1, <2>2 DEF LaunchUnderWay
    <2> QED
        BY <2>1, <2>2, <2>3 DEF OneAtWork
<1> QED
    BY <1>1, <1>2 DEF Browser!Begin

\* What follows stopChrome when nothing is left of Chrome.
LEMMA BrowserAfterStop ==
    ASSUME BrowserInv, NEW c \in Browser!Working, Browser!AfterStop(c), UNCHANGED crossed,
           ~crossed => \A d \in Browser!Callers : proc'[d] # "alive"
    PROVE  LaunchUnderWay' /\ OneAtWork'
<1> USE DEF BrowserInv
<1>1. CASE BrowserMoves(c, "launching")
    <2>1. /\ LaunchUnderWay' /\ Browser!Working' = Browser!Working
          /\ callAt'[c] = "launching" /\ \A d \in Browser!Callers \ {c} : callAt'[d] = callAt[d]
        BY <1>1, BrowserMovesKeep DEF UnderWayPlaces, BrowserPlaces
    <2>2. ~crossed => Browser!Working = {c}
        BY DEF OneAtWork
    <2> QED
        BY <2>1, <2>2 DEF OneAtWork
<1>2. ASSUME NEW how \in Browser!Settled, Browser!Settle(c, how)
      PROVE  LaunchUnderWay' /\ OneAtWork'
    <2>1. LaunchUnderWay' /\ Browser!Working' = Browser!Working \ {c}
        BY <1>2, BrowserSettles
    <2>2. ~crossed => Browser!Working = {c}
        BY DEF OneAtWork
    <2> QED
        BY <2>1, <2>2 DEF OneAtWork
<1> QED
    BY <1>1, <1>2 DEF Browser!AfterStop, Browser!Goes, BrowserMoves, Browser!Settled

LEMMA BrowserSteps ==
    ASSUME BrowserInv, NEW c \in Browser!Callers, Browser!Step(c)
    PROVE  LaunchUnderWay' /\ OneAtWork'
<1> USE DEF BrowserInv, Browser!browserState
<1>1. c \in Browser!Working /\ UNCHANGED crossed
    BY DEF Browser!Step, Browser!NothingToKill, Browser!Kill, Browser!Killed, Browser!Spawn,
           Browser!NoBinary, Browser!ChromeReady, Browser!NotReady, Browser!Connected,
           Browser!ConnectFails, Browser!Launched, Browser!Working, Browser!Settled
<1>2. ~crossed => Browser!Working = {c}
    BY <1>1 DEF OneAtWork
<1>3. CASE Browser!NothingToKill(c)
    <2>1. ~crossed => \A d \in Browser!Callers : proc'[d] # "alive"
        BY <1>3, ServicesLimits
        DEF Browser!NothingToKill, OneAtWork, Browser!NoCallIsNoCall, Browser!Callers
    <2> QED
        BY <1>1, <1>3, <2>1, BrowserAfterStop DEF Browser!NothingToKill
<1>4. CASE Browser!Kill(c)
    <2>1. BrowserMoves(c, "killing") /\ target'[c] = chrome /\ chrome # NoCall
        BY <1>4 DEF Browser!Kill, BrowserMoves, Browser!Goes, Browser!TypeOK
    <2>2. LaunchUnderWay' /\ Browser!Working' = Browser!Working /\ callAt'[c] = "killing"
        BY <1>1, <2>1, BrowserMovesKeep DEF UnderWayPlaces, BrowserPlaces
    <2> QED
        BY <1>1, <1>2, <1>4, <2>1, <2>2 DEF OneAtWork, Browser!Kill
<1>5. CASE Browser!Killed(c)
    <2>1. ~crossed => \A d \in Browser!Callers : proc'[d] # "alive"
        <3>1. ~crossed => target[c] = chrome /\ \A d \in Browser!Callers : proc[d] = "alive" => chrome = d
            BY <1>1, <1>5 DEF OneAtWork, Browser!Killed
        <3> QED
            BY <1>5, <3>1 DEF Browser!Killed, Browser!TypeOK
    <2> QED
        BY <1>1, <1>5, <2>1, BrowserAfterStop DEF Browser!Killed
<1>6. CASE Browser!Spawn(c)
    <2>1. BrowserMoves(c, "waiting")
        BY <1>6 DEF Browser!Spawn, BrowserMoves, Browser!Goes
    <2>2. LaunchUnderWay' /\ Browser!Working' = Browser!Working /\ callAt'[c] = "waiting"
        BY <1>1, <2>1, BrowserMovesKeep DEF UnderWayPlaces, BrowserPlaces
    <2>3. ~crossed => \A d \in Browser!Callers : proc'[d] = "alive" => chrome' = d
        <3>1. ~crossed => \A d \in Browser!Callers : proc[d] # "alive"
            BY <1>1, <1>6 DEF OneAtWork, Browser!Spawn
        <3> QED
            BY <1>6, <3>1 DEF Browser!Spawn, Browser!TypeOK
    <2> QED
        BY <1>1, <1>2, <2>2, <2>3 DEF OneAtWork
<1>7. ASSUME NEW how \in Browser!Settled, Browser!Settle(c, how), UNCHANGED <<proc, chrome>>
      PROVE  LaunchUnderWay' /\ OneAtWork'
    <2>1. LaunchUnderWay' /\ Browser!Working' = Browser!Working \ {c}
        BY <1>1, <1>7, BrowserSettles
    <2> QED
        BY <1>1, <1>2, <1>7, <2>1 DEF OneAtWork
<1>8. ASSUME NEW place \in UnderWayPlaces \ {"launching", "killing"}, BrowserMoves(c, place),
             UNCHANGED <<proc, chrome>>
      PROVE  LaunchUnderWay' /\ OneAtWork'
    <2>1. LaunchUnderWay' /\ Browser!Working' = Browser!Working /\ callAt'[c] = place
        BY <1>1, <1>8, BrowserMovesKeep
    <2> QED
        BY <1>1, <1>2, <1>8, <2>1 DEF OneAtWork
<1>9. CASE Browser!NoBinary(c) \/ Browser!NotReady(c) \/ Browser!Launched(c)
    BY <1>7, <1>9 DEF Browser!NoBinary, Browser!NotReady, Browser!Launched, Browser!Settled
<1>10. CASE Browser!ChromeReady(c) \/ Browser!Connected(c) \/ Browser!ConnectFails(c)
    BY <1>8, <1>10
    DEF Browser!ChromeReady, Browser!Connected, Browser!ConnectFails, Browser!BeginStop,
        Browser!Goes, BrowserMoves, UnderWayPlaces, BrowserPlaces
<1> QED
    BY <1>3, <1>4, <1>5, <1>6, <1>9, <1>10 DEF Browser!Step

LEMMA BrowserNextInv == BrowserInv /\ [Browser!Next]_browserVars => BrowserInv'
<1> SUFFICES ASSUME BrowserInv, [Browser!Next]_browserVars PROVE BrowserInv'
    OBVIOUS
<1>1. CASE UNCHANGED browserVars
    BY <1>1 DEF browserVars, BrowserInv, Browser!TypeOK, LaunchUnderWay, OneAtWork, Browser!Working
<1>2. ASSUME NEW c \in Browser!Callers, Browser!ProcessExits(c)
      PROVE  LaunchUnderWay' /\ OneAtWork'
    <2>1. /\ UNCHANGED <<launch, chrome, callAt, target, crossed>>
          /\ Browser!Working' = Browser!Working
          /\ \A d \in Browser!Callers : proc'[d] = "alive" => proc[d] = "alive"
        BY <1>2 DEF Browser!ProcessExits, Browser!callState, Browser!Working, BrowserInv, Browser!TypeOK
    <2> QED
        BY <2>1 DEF LaunchUnderWay, OneAtWork, BrowserInv
<1>3. CASE Browser!ClientDrops \/ Browser!ClientReturns
    <2>1. UNCHANGED <<launch, chrome, proc, callAt, target, crossed>>
        BY <1>3 DEF Browser!ClientDrops, Browser!ClientReturns, Browser!callState
    <2> QED
        BY <1>3, <2>1, BrowserTypeKept DEF BrowserInv, LaunchUnderWay, OneAtWork, Browser!Working, Browser!Next
<1> QED
    BY <1>1, <1>2, <1>3, BrowserTypeKept, BrowserBegins, BrowserSteps DEF BrowserInv, Browser!Next

-----------------------------------------------------------------------------
(* CdpClient: the client's socket is open and listened to, and the sockets *)
(* that are being opened are other ones; as long as no connection comes in *)
(* the way of another, one is opened only while the client has none.       *)

SocketStates == {"unused", "opening", "open", "closed"}
CommandStates == {"new", "pending", "answered", "failed"}
CdpSockets ==
    /\ socket \in Cdp!Sockets \cup {0} /\ heard \subseteq Cdp!Sockets
    /\ sockets \in [Cdp!Sockets -> SocketStates]
    /\ dialled \in Cdp!Sockets \cup {0} /\ redialled \in Cdp!Sockets \cup {0}
CdpFlags ==
    /\ disconnectRequested \in BOOLEAN /\ permanentlyDisconnected \in BOOLEAN
    /\ domain \in BOOLEAN /\ mixed \in BOOLEAN
CdpPlaces ==
    /\ connecting \in {"none", "discovering", "opening"}
    /\ stage \in {"none", "sleeping", "opening", "enabling"}
    /\ attempt \in 0..MaxAttempts /\ connects \in 0..MaxConnects
CdpCommands == command \in [Cdp!AllCommands -> CommandStates]

LEMMA CdpTypeParts ==
    /\ Cdp!TypeOK <=> CdpSockets /\ CdpFlags /\ CdpPlaces /\ CdpCommands
    /\ Cdp!TypeOK' <=> CdpSockets' /\ CdpFlags' /\ CdpPlaces' /\ CdpCommands'
BY DEF Cdp!TypeOK, CdpSockets, CdpFlags, CdpPlaces, CdpCommands, SocketStates, CommandStates

\* Sockets that are being opened.
DialledApart ==
    /\ connecting = "opening" <=> dialled # 0
    /\ stage = "opening" <=> redialled # 0
    /\ dialled # 0 => sockets[dialled] = "opening" /\ dialled # redialled
    /\ redialled # 0 => sockets[redialled] = "opening"
    /\ attempt = 0 <=> stage = "none"

OneConnection ==
    ~mixed =>
        /\ connecting # "none" => socket = 0 /\ attempt = 0
        /\ stage \in {"sleeping", "opening"} => socket = 0
        /\ \A s \in Cdp!Sockets : sockets[s] = "open" => s = socket

CdpInv == Cdp!TypeOK /\ DialledApart /\ Cdp!WaitsOnHeardSocket /\ OneConnection

LEMMA CdpInitInv == Cdp!Init => CdpInv
<1> SUFFICES ASSUME Cdp!Init PROVE CdpInv
    OBVIOUS
<1> USE ServicesLimits DEF Cdp!CdpLimits, Cdp!Init
<1>1. CdpSockets /\ CdpPlaces
    BY DEF CdpSockets, CdpPlaces, SocketStates
<1>2. CdpFlags /\ CdpCommands
    BY DEF CdpFlags, CdpCommands, CommandStates
<1>3. DialledApart /\ Cdp!WaitsOnHeardSocket /\ OneConnection
    BY DEF DialledApart, Cdp!WaitsOnHeardSocket, OneConnection, Cdp!Pending
<1> QED
    BY <1>1, <1>2, <1>3, CdpTypeParts DEF CdpInv

\* What Dials and Abandoned do to the sockets.
LEMMA CdpDials ==
    ASSUME CdpSockets, NEW s \in Cdp!Sockets, Cdp!Dials(s)
    PROVE  /\ sockets' \in [Cdp!Sockets -> SocketStates]
           /\ sockets[s] = "unused" /\ sockets'[s] = "opening"
           /\ \A r \in Cdp!Sockets : r # s => sockets'[r] = sockets[r]
BY DEF CdpSockets, Cdp!Dials, SocketStates

LEMMA CdpAbandons ==
    ASSUME CdpSockets, NEW s \in Cdp!Sockets \cup {0}, sockets' \in Cdp!Abandoned(s),
           s # 0 => sockets[s] = "opening"
    PROVE  /\ sockets' \in [Cdp!Sockets -> SocketStates]
           /\ \A r \in Cdp!Sockets : r # s => sockets'[r] = sockets[r]
           /\ ~Cdp!LeftOpen => \A r \in Cdp!Sockets : sockets'[r] = "open" => sockets[r] = "open"
<1>1. CASE s = 0
    BY <1>1 DEF CdpSockets, Cdp!Abandoned, Cdp!Sockets
<1>2. CASE s # 0
    BY <1>2 DEF CdpSockets, Cdp!Abandoned, Cdp!LeftOpen, SocketStates
<1> QED
    BY <1>1, <1>2

LEMMA CdpSocketsKept == ASSUME CdpInv, Cdp!Next PROVE CdpSockets'
<1> USE DEF CdpInv, DialledApart
<1>0. CdpSockets
    BY CdpTypeParts
<1> USE DEF CdpSockets
<1>1. CASE Cdp!Connect \/ Cdp!Disconnect
    BY <1>0, <1>1
    DEF Cdp!Connect, Cdp!Disconnect, Cdp!sockets, Cdp!connection, Cdp!reconnection, SocketStates
<1>2. CASE Cdp!ConnectDials \/ Cdp!AttemptDials
    BY <1>0, <1>2, CdpDials DEF Cdp!ConnectDials, Cdp!AttemptDials, Cdp!connection, Cdp!reconnection
<1>3. CASE Cdp!ConnectOpens \/ Cdp!AttemptOpens
    BY <1>0, <1>3
    DEF Cdp!ConnectOpens, Cdp!AttemptOpens, Cdp!Adopt, Cdp!connection, Cdp!reconnection, SocketStates
<1>4. CASE Cdp!ConnectFails \/ Cdp!AttemptFails
    BY <1>0, <1>4, CdpAbandons
    DEF Cdp!ConnectFails, Cdp!AttemptFails, Cdp!connection, Cdp!reconnection
<1>5. CASE Cdp!DomainEnabled
    BY <1>0, <1>5 DEF Cdp!DomainEnabled, Cdp!sockets, Cdp!connection
<1>6. ASSUME NEW c, Cdp!Send(c) \/ Cdp!Responds(c) \/ Cdp!CommandTimeout(c) PROVE CdpSockets'
    BY <1>0, <1>6
    DEF Cdp!Send, Cdp!Responds, Cdp!CommandTimeout, Cdp!sockets, Cdp!connection, Cdp!reconnection
<1>7. ASSUME NEW s \in Cdp!Sockets, Cdp!SocketCloses(s) PROVE CdpSockets'
    BY <1>0, <1>7 DEF Cdp!SocketCloses, Cdp!connection, SocketStates
<1> QED
    BY <1>1, <1>2, <1>3, <1>4, <1>5, <1>6, <1>7 DEF Cdp!Next, Cdp!Connection, Cdp!Reconnection

LEMMA CdpFlagsKept == ASSUME CdpFlags, Cdp!Next PROVE CdpFlags'
<1> USE DEF CdpFlags
<1>1. /\ domain' \in BOOLEAN
      /\ disconnectRequested' \in BOOLEAN /\ permanentlyDisconnected' \in BOOLEAN
    BY DEF Cdp!Next, Cdp!Connection, Cdp!Reconnection, Cdp!Connect, Cdp!Disconnect,
           Cdp!ConnectDials, Cdp!ConnectOpens, Cdp!ConnectFails, Cdp!AttemptDials,
           Cdp!AttemptOpens, Cdp!DomainEnabled, Cdp!AttemptFails, Cdp!Send, Cdp!Responds,
           Cdp!CommandTimeout, Cdp!SocketCloses, Cdp!flags
<1>2. mixed' \in BOOLEAN
    <2>1. CASE UNCHANGED mixed
        BY <2>1
    <2>2. CASE Cdp!Connect \/ Cdp!Disconnect \/ Cdp!ConnectFails \/ Cdp!AttemptFails
        BY <2>2 DEF Cdp!Connect, Cdp!Disconnect, Cdp!ConnectFails, Cdp!AttemptFails
    <2>3. ASSUME NEW s \in Cdp!Sockets, Cdp!SocketCloses(s) PROVE mixed' \in BOOLEAN
        BY <2>3 DEF Cdp!SocketCloses
    <2> QED
        BY <2>1, <2>2, <2>3
        DEF Cdp!Next, Cdp!Connection, Cdp!Reconnection, Cdp!ConnectDials, Cdp!ConnectOpens,
            Cdp!AttemptDials, Cdp!AttemptOpens, Cdp!DomainEnabled, Cdp!Send, Cdp!Responds,
            Cdp!CommandTimeout
<1> QED
    BY <1>1, <1>2

LEMMA CdpPlacesKept == ASSUME CdpPlaces, Cdp!Next PROVE CdpPlaces'
<1> USE ServicesLimits DEF Cdp!CdpLimits, CdpPlaces
<1>1. CASE Cdp!Connect
    BY <1>1 DEF Cdp!Connect, Cdp!reconnection
<1>2. CASE Cdp!Disconnect
    BY <1>2 DEF Cdp!Disconnect, Cdp!connection, Cdp!reconnection
<1>3. CASE Cdp!Connection
    BY <1>3
    DEF Cdp!Connection, Cdp!ConnectDials, Cdp!ConnectOpens, Cdp!ConnectFails, Cdp!reconnection
<1>4. CASE Cdp!AttemptDials \/ Cdp!AttemptOpens \/ Cdp!DomainEnabled
    BY <1>4 DEF Cdp!AttemptDials, Cdp!AttemptOpens, Cdp!DomainEnabled, Cdp!connection
<1>5. CASE Cdp!AttemptFails
    BY <1>5 DEF Cdp!AttemptFails, Cdp!connection
<1>6. ASSUME NEW c, Cdp!Send(c) \/ Cdp!Responds(c) \/ Cdp!CommandTimeout(c) PROVE CdpPlaces'
    BY <1>6
    DEF Cdp!Send, Cdp!Responds, Cdp!CommandTimeout, Cdp!connection, Cdp!reconnection
<1>7. ASSUME NEW s \in Cdp!Sockets, Cdp!SocketCloses(s) PROVE CdpPlaces'
    BY <1>7 DEF Cdp!SocketCloses, Cdp!connection
<1> QED
    BY <1>1, <1>2, <1>3, <1>4, <1>5, <1>6, <1>7 DEF Cdp!Next, Cdp!Reconnection

LEMMA CdpCommandsKept == ASSUME CdpCommands, Cdp!Next PROVE CdpCommands'
<1> USE DEF CdpCommands, CommandStates
<1>1. Cdp!Rejected \in [Cdp!AllCommands -> CommandStates]
    BY DEF Cdp!Rejected, Cdp!Pending
<1>2. ASSUME NEW c \in Cdp!AllCommands, Cdp!Send(c) \/ Cdp!Responds(c) \/ Cdp!CommandTimeout(c)
      PROVE  CdpCommands'
    BY <1>2 DEF Cdp!Send, Cdp!Responds, Cdp!CommandTimeout
<1>3. CASE Cdp!Connect \/ Cdp!Connection \/ Cdp!AttemptDials
    BY <1>3
    DEF Cdp!Connect, Cdp!Connection, Cdp!ConnectDials, Cdp!ConnectOpens, Cdp!ConnectFails,
        Cdp!AttemptDials
<1>4. CASE Cdp!AttemptOpens \/ Cdp!DomainEnabled \/ Cdp!AttemptFails
    BY <1>4 DEF Cdp!AttemptOpens, Cdp!DomainEnabled, Cdp!AttemptFails
<1>5. CASE Cdp!Disconnect \/ \E s \in Cdp!Sockets : Cdp!SocketCloses(s)
    BY <1>1, <1>5 DEF Cdp!Disconnect, Cdp!SocketCloses
<1> QED
    BY <1>2, <1>3, <1>4, <1>5 DEF Cdp!Next, Cdp!Reconnection, Cdp!AllCommands

\* A step that leaves the sockets alone.
LEMMA CdpSendKeeps ==
    ASSUME CdpInv, NEW c \in Cdp!AllCommands,
           (c \in Commands /\ Cdp!Send(c)) \/ Cdp!Responds(c) \/ Cdp!CommandTimeout(c)
    PROVE  DialledApart' /\ Cdp!WaitsOnHeardSocket' /\ OneConnection'
<1>1. UNCHANGED <<socket, sockets, heard, connecting, dialled, attempt, stage, redialled, mixed>>
    BY DEF Cdp!Send, Cdp!Responds, Cdp!CommandTimeout, Cdp!sockets, Cdp!connection,
           Cdp!reconnection
<1>2. Cdp!Pending' # {} => socket # 0
    BY DEF CdpInv, Cdp!WaitsOnHeardSocket, Cdp!Send, Cdp!Responds, Cdp!CommandTimeout,
           Cdp!Pending, Cdp!TypeOK
<1> QED
    BY <1>1, <1>2 DEF CdpInv, DialledApart, Cdp!WaitsOnHeardSocket, OneConnection

LEMMA CdpApartKept == ASSUME CdpInv, Cdp!Next PROVE DialledApart'
<1>0. CdpSockets /\ CdpPlaces
    BY CdpTypeParts DEF CdpInv
<1> USE <1>0, ServicesLimits DEF CdpInv, DialledApart, CdpSockets, CdpPlaces, Cdp!CdpLimits
<1>1. CASE Cdp!Connect
    BY <1>1 DEF Cdp!Connect, Cdp!sockets, Cdp!reconnection
<1>2. CASE Cdp!Disconnect
    <2>1. /\ UNCHANGED <<connecting, dialled, attempt, stage, redialled>>
          /\ \A s \in Cdp!Sockets : s # socket => sockets'[s] = sockets[s]
        BY <1>2 DEF Cdp!Disconnect, Cdp!connection, Cdp!reconnection
    <2> QED
        BY <2>1 DEF Cdp!WaitsOnHeardSocket
<1>3. CASE Cdp!ConnectDials
    BY <1>3, CdpDials DEF Cdp!ConnectDials, Cdp!reconnection, Cdp!Sockets
<1>4. CASE Cdp!AttemptDials
    BY <1>4, CdpDials DEF Cdp!AttemptDials, Cdp!connection, Cdp!Sockets
<1>5. CASE Cdp!ConnectOpens
    BY <1>5 DEF Cdp!ConnectOpens, Cdp!Adopt, Cdp!reconnection
<1>6. CASE Cdp!AttemptOpens
    BY <1>6 DEF Cdp!AttemptOpens, Cdp!Adopt, Cdp!connection
<1>7. CASE Cdp!ConnectFails
    BY <1>7, CdpAbandons DEF Cdp!ConnectFails, Cdp!reconnection
<1>8. CASE Cdp!AttemptFails
    BY <1>8, CdpAbandons DEF Cdp!AttemptFails, Cdp!connection
<1>9. CASE Cdp!DomainEnabled
    BY <1>9 DEF Cdp!DomainEnabled, Cdp!sockets, Cdp!connection
<1>10. ASSUME NEW s \in Cdp!Sockets, Cdp!SocketCloses(s) PROVE DialledApart'
    BY <1>10 DEF Cdp!SocketCloses, Cdp!connection
<1> QED
    BY <1>1, <1>2, <1>3, <1>4, <1>5, <1>6, <1>7, <1>8, <1>9, <1>10, CdpSendKeeps
    DEF Cdp!Next, Cdp!Connection, Cdp!Reconnection, Cdp!AllCommands

LEMMA CdpWaitsKept == ASSUME CdpInv, Cdp!Next PROVE Cdp!WaitsOnHeardSocket'
<1>0. CdpSockets /\ CdpPlaces /\ CdpCommands
    BY CdpTypeParts DEF CdpInv
<1> USE <1>0 DEF CdpInv, DialledApart, CdpSockets, Cdp!WaitsOnHeardSocket
<1>1. CASE Cdp!Connect
    BY <1>1 DEF Cdp!Connect, Cdp!sockets, Cdp!Pending
<1>2. CASE Cdp!Disconnect
    BY <1>2 DEF Cdp!Disconnect, Cdp!Rejected, Cdp!Pending
<1>3. CASE Cdp!ConnectDials \/ Cdp!AttemptDials
    BY <1>3, CdpDials DEF Cdp!ConnectDials, Cdp!AttemptDials, Cdp!Pending
<1>4. CASE Cdp!ConnectOpens \/ Cdp!AttemptOpens
    BY <1>4 DEF Cdp!ConnectOpens, Cdp!AttemptOpens, Cdp!Adopt
<1>5. CASE Cdp!ConnectFails \/ Cdp!AttemptFails
    <2>1. /\ UNCHANGED <<socket, heard>>
          /\ socket # 0 => sockets'[socket] = sockets[socket]
        BY <1>5, CdpAbandons DEF Cdp!ConnectFails, Cdp!AttemptFails
    <2>2. Cdp!Pending' \subseteq Cdp!Pending
        BY <1>5 DEF Cdp!ConnectFails, Cdp!AttemptFails, Cdp!Pending, CdpCommands
    <2> QED
        BY <2>1, <2>2
<1>6. CASE Cdp!DomainEnabled
    <2>1. Cdp!Pending' \subseteq Cdp!Pending
        BY <1>6 DEF Cdp!DomainEnabled, Cdp!Pending, CdpCommands
    <2> QED
        BY <1>6, <2>1 DEF Cdp!DomainEnabled, Cdp!sockets
<1>7. ASSUME NEW s \in Cdp!Sockets, Cdp!SocketCloses(s) PROVE Cdp!WaitsOnHeardSocket'
    <2>1. CASE s \in heard
        BY <1>7, <2>1 DEF Cdp!SocketCloses, Cdp!Rejected, Cdp!Pending
    <2>2. CASE s \notin heard
        BY <1>7, <2>2 DEF Cdp!SocketCloses, Cdp!Pending
    <2> QED
        BY <2>1, <2>2
<1> QED
    BY <1>1, <1>2, <1>3, <1>4, <1>5, <1>6, <1>7, CdpSendKeeps
    DEF Cdp!Next, Cdp!Connection, Cdp!Reconnection, Cdp!AllCommands

LEMMA CdpOneConnectionKept == ASSUME CdpInv, Cdp!Next PROVE OneConnection'
<1>0. CdpSockets /\ CdpPlaces /\ CdpFlags
    BY CdpTypeParts DEF CdpInv
<1> USE <1>0, ServicesLimits
    DEF CdpInv, DialledApart, CdpSockets, CdpPlaces, OneConnection, Cdp!WaitsOnHeardSocket,
        Cdp!CdpLimits
<1>1. CASE Cdp!Connect
    BY <1>1 DEF Cdp!Connect, Cdp!sockets, Cdp!reconnection, CdpFlags
<1>2. CASE Cdp!Disconnect
    <2>1. ~mixed' => ~mixed /\ attempt = 0 /\ connecting = "none"
        BY <1>2 DEF Cdp!Disconnect, CdpFlags
    <2> QED
        BY <1>2, <2>1 DEF Cdp!Disconnect, Cdp!connection, Cdp!reconnection
<1>3. CASE Cdp!ConnectDials \/ Cdp!AttemptDials
    BY <1>3, CdpDials
    DEF Cdp!ConnectDials, Cdp!AttemptDials, Cdp!connection, Cdp!reconnection
<1>4. CASE Cdp!ConnectOpens
    BY <1>4 DEF Cdp!ConnectOpens, Cdp!Adopt, Cdp!reconnection, Cdp!Sockets
<1>5. CASE Cdp!AttemptOpens
    BY <1>5 DEF Cdp!AttemptOpens, Cdp!Adopt, Cdp!connection, Cdp!Sockets
<1>6. CASE Cdp!ConnectFails \/ Cdp!AttemptFails
    <2>1. ~mixed' => ~mixed /\ ~Cdp!LeftOpen
        BY <1>6 DEF Cdp!ConnectFails, Cdp!AttemptFails, CdpFlags
    <2>2. ~mixed' => \A s \in Cdp!Sockets : sockets'[s] = "open" => sockets[s] = "open"
        BY <1>6, <2>1, CdpAbandons DEF Cdp!ConnectFails, Cdp!AttemptFails
    <2>3. CASE Cdp!ConnectFails
        BY <2>1, <2>2, <2>3 DEF Cdp!ConnectFails, Cdp!reconnection
    <2>4. CASE Cdp!AttemptFails
        <3>1. ~mixed' => socket = 0
            BY <2>4 DEF Cdp!AttemptFails
        <3> QED
            BY <2>1, <2>2, <2>4, <3>1 DEF Cdp!AttemptFails, Cdp!connection
    <2> QED
        BY <1>6, <2>3, <2>4
<1>7. CASE Cdp!DomainEnabled
    BY <1>7 DEF Cdp!DomainEnabled, Cdp!sockets, Cdp!connection
<1>8. ASSUME NEW s \in Cdp!Sockets, Cdp!SocketCloses(s) PROVE OneConnection'
    <2>1. ~mixed' => ~mixed /\ (s \in heard => disconnectRequested \/ connecting = "none")
        BY <1>8 DEF Cdp!SocketCloses, CdpFlags
    <2>2. \A r \in Cdp!Sockets : sockets'[r] = "open" => sockets[r] = "open" /\ r # s
        BY <1>8 DEF Cdp!SocketCloses
    <2>3. CASE s \in heard
        BY <1>8, <2>1, <2>2, <2>3 DEF Cdp!SocketCloses, Cdp!connection
    <2>4. CASE s \notin heard
        BY <1>8, <2>1, <2>2, <2>4 DEF Cdp!SocketCloses, Cdp!connection
    <2> QED
        BY <2>3, <2>4
<1> QED
    BY <1>1, <1>2, <1>3, <1>4, <1>5, <1>6, <1>7, <1>8, CdpSendKeeps
    DEF Cdp!Next, Cdp!Connection, Cdp!Reconnection, Cdp!AllCommands

LEMMA CdpNextInv == CdpInv /\ [Cdp!Next]_cdpVars => CdpInv'
<1>1. CASE Cdp!Next
    BY <1>1, CdpTypeParts, CdpSocketsKept, CdpFlagsKept, CdpPlacesKept, CdpCommandsKept,
       CdpApartKept, CdpWaitsKept, CdpOneConnectionKept DEF CdpInv
<1>2. CASE UNCHANGED cdpVars
    BY <1>2
    DEF cdpVars, CdpInv, Cdp!TypeOK, DialledApart, Cdp!WaitsOnHeardSocket, OneConnection, Cdp!Pending
<1> QED
    BY <1>1, <1>2

-----------------------------------------------------------------------------
(* The whole: a step of MCServices is a step of the part that runs. *)

LEMMA PartSteps ==
    ASSUME [ServicesNext]_allVars
    PROVE  /\ part' = part
           /\ part = "integration" => [Integration!Next]_integrationVars
           /\ part = "refresh" => [Refresh!Next]_refreshVars
           /\ part = "browser" => [Browser!Next]_browserVars
           /\ part = "cdp" => [Cdp!Next]_cdpVars
<1> SUFFICES ASSUME ServicesNext
             PROVE  /\ part' = part
                    /\ part = "integration" => Integration!Next
                    /\ part = "refresh" => Refresh!Next
                    /\ part = "browser" => Browser!Next
                    /\ part = "cdp" => Cdp!Next
    BY DEF allVars
<1> QED
    BY DEF ServicesNext, Only

\* The queue of one integration runs its operations one at a time.
LEMMA IntegrationAlways == ServicesSpec => [](part = "integration" => IntegrationInv)
<1>1. ServicesInit => (part = "integration" => IntegrationInv)
    BY IntegrationInitInv DEF ServicesInit
<1>2. (part = "integration" => IntegrationInv) /\ [ServicesNext]_allVars
        => (part = "integration" => IntegrationInv)'
    BY PartSteps, IntegrationNextInv
<1> QED
    BY <1>1, <1>2, PTL DEF ServicesSpec

\* Operations on one integration run one at a time, in the order of the calls,
\* whatever fails and however many calls wait.
THEOREM OneAtATimeHolds == ServicesSpec => [](part = "integration" => Integration!OneAtATime)
<1>1. IntegrationInv => Integration!OneAtATime
    BY IntegrationQueueExclusive DEF IntegrationInv
<1> QED
    BY <1>1, IntegrationAlways, PTL

\* The model is offered the operations of an integration only while it is active,
\* and a disable that returned ok leaves nothing of it behind, whatever fails and in
\* whatever order it is used.
THEOREM IntegrationsHeldAlways == ServicesSpec => []IntegrationsHeld
<1>1. (part = "integration" => IntegrationInv) => IntegrationsHeld
    BY DEF IntegrationInv, ToolsInv, DisablesInOrder, IntegrationsHeld,
           Integration!ToolsOnlyWhenActive
<1> QED
    BY <1>1, IntegrationAlways, PTL

LEMMA RefreshAlways == ServicesSpec => [](part = "refresh" => RefreshInv)
<1>1. ServicesInit => (part = "refresh" => RefreshInv)
    BY RefreshInitInv DEF ServicesInit
<1>2. (part = "refresh" => RefreshInv) /\ [ServicesNext]_allVars
        => (part = "refresh" => RefreshInv)'
    BY PartSteps, RefreshNextInv
<1> QED
    BY <1>1, <1>2, PTL DEF ServicesSpec

\* No two refreshes run at once, and at rest the vault holds the token that the
\* provider accepts, but for what OAuthRefresh names: for any number of callers,
\* attempts and tokens.
THEOREM OneRefreshKeepsTokenHolds == ServicesSpec => []OneRefreshKeepsToken
<1>1. RefreshInv => Refresh!OneRefreshKeepsToken
    BY ServicesLimits
    DEF RefreshInv, OneRefresh, Refresh!OneRefreshKeepsToken, Refresh!RefreshLimits
<1> QED
    BY <1>1, RefreshAlways, PTL DEF OneRefreshKeepsToken

LEMMA BrowserAlways == ServicesSpec => [](part = "browser" => BrowserInv)
<1>1. ServicesInit => (part = "browser" => BrowserInv)
    BY BrowserInitInv DEF ServicesInit
<1>2. (part = "browser" => BrowserInv) /\ [ServicesNext]_allVars
        => (part = "browser" => BrowserInv)'
    BY PartSteps, BrowserNextInv
<1> QED
    BY <1>1, <1>2, PTL DEF ServicesSpec

LEMMA CdpAlways == ServicesSpec => [](part = "cdp" => CdpInv)
<1>1. ServicesInit => (part = "cdp" => CdpInv)
    BY CdpInitInv DEF ServicesInit
<1>2. (part = "cdp" => CdpInv) /\ [ServicesNext]_allVars => (part = "cdp" => CdpInv)'
    BY PartSteps, CdpNextInv
<1> QED
    BY <1>1, <1>2, PTL DEF ServicesSpec

\* No Chrome is orphaned and all who joined a launch are served, commands wait on
\* a socket that is listened to and no other is left, but for the overlaps that
\* BrowserService and CdpClient name: for any number of calls, commands, sockets and
\* attempts.
THEOREM BrowserHeldAlways == ServicesSpec => []BrowserHeld
<1>1. BrowserInv => Browser!NoOrphanChrome /\ Browser!JoinedAreServed
    BY DEF BrowserInv, LaunchUnderWay, OneAtWork, Browser!NoOrphanChrome, Browser!JoinedAreServed
<1>2. CdpInv => Cdp!WaitsOnHeardSocket /\ Cdp!NoSocketLeft
    BY DEF CdpInv, OneConnection, Cdp!NoSocketLeft
<1> QED
    BY <1>1, <1>2, BrowserAlways, CdpAlways, PTL DEF BrowserHeld

LEMMA SkillsTyped == SkillsInv => Skills!TypeOK
BY DEF SkillsInv, SkillShapes, SkillFlags, SkillDirs, SkillTables, SkillInHand, Skills!TypeOK

LEMMA PluginsTyped == PluginsInv => Plugins!TypeOK
<1> SUFFICES ASSUME PluginsInv PROVE Plugins!TypeOK
    OBVIOUS
<1>1. MaxLoads \in Nat /\ loads \in 0..MaxLoads
    BY ServicesLimits DEF Plugins!PluginLimits, PluginsInv, PluginShapes, PluginNumbers
<1>2. 1..loads \subseteq Plugins!Sandboxes /\ 0..loads \subseteq 0..MaxLoads
    BY <1>1 DEF Plugins!Sandboxes
<1>3. {running, watchdog, starting, handlers} \subseteq SUBSET Plugins!Sandboxes
    BY <1>2 DEF PluginsInv, PluginShapes, PluginNumbers
<1>4. Plugins!BagToSet(pluginCalls) \subseteq Plugins!Kinds
    <2> SUFFICES ASSUME NEW c \in InProgress PROVE c \in Plugins!Kinds
        BY DEF InProgress
    <2>1. CallShape(c)
        BY DEF PluginsInv, PluginShapes, PluginCalls
    <2> QED
        BY <1>2, <2>1 DEF CallShape, Plugins!Kinds
<1> QED
    BY <1>1, <1>2, <1>3, <1>4
    DEF PluginsInv, PluginShapes, PluginNumbers, PluginThreads, PluginBag, Plugins!TypeOK

\* Every variable of the part that runs has its type, whatever the constants are.
THEOREM ServicesTyped == ServicesSpec => []ServicesTypeOK
<1>1. DaemonInv => TypeOK /\ MainTypeOK
    BY DEF DaemonInv
<1>2. (part = "integration" => IntegrationInv) => (part = "integration" => Integration!TypeOK)
    BY DEF IntegrationInv
<1>3. (part = "refresh" => RefreshInv) => (part = "refresh" => Refresh!TypeOK)
    BY DEF RefreshInv
<1>4. (part = "browser" => BrowserInv) => (part = "browser" => Browser!TypeOK)
    BY DEF BrowserInv
<1>5. (part = "cdp" => CdpInv) => (part = "cdp" => Cdp!TypeOK)
    BY DEF CdpInv
<1>6. (part = "skills" => SkillsInv) => (part = "skills" => Skills!TypeOK)
    BY SkillsTyped
<1>7. (part = "plugins" => PluginsInv) => (part = "plugins" => Plugins!TypeOK)
    BY PluginsTyped
<1> QED
    BY <1>1, <1>2, <1>3, <1>4, <1>5, <1>6, <1>7, ImportTypes, DaemonAlways, IntegrationAlways,
       RefreshAlways, BrowserAlways, CdpAlways, SkillsAlways, PluginsAlways, ImportAlways, PTL
    DEF ServicesTypeOK
=============================================================================
