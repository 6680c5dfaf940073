----------------------------- MODULE StoresProofs -----------------------------
(***************************************************************************)
(* For every value of the constants: what the parts of MCStores promise,   *)
(* one section for each part and its inductive invariant, and then the     *)
(* properties of the whole.                                                *)
(***************************************************************************)
EXTENDS MCStores, CronSchedulerProofs, FiniteSetTheorems, WellFoundedInduction, TLAPS

-----------------------------------------------------------------------------
(* CredentialStore: as long as no call wrote while another held what it    *)
(* had read, the file is what the writes made of it, call by call, and so  *)
(* is what every call that is about to write holds.                        *)

CredentialEnds == {"new", "done", "unconfirmed", "refused", "failed", "lost"}
CredentialTypes ==
    /\ file \in [Records -> Credentials!Contents]
    /\ at \in [CredentialCalls -> CredentialEnds \cup {"loading", "saving", "written"}]
    /\ of \in [CredentialCalls -> Records] /\ op \in [CredentialCalls -> {"set", "update", "revoke"}]
    /\ snap \in [CredentialCalls -> [Records -> Credentials!Contents]]
CredentialFlags == torn \in BOOLEAN /\ overlapped \in BOOLEAN
OnlyWritesAreSuperseded == superseded \subseteq Credentials!Wrote
\* The calls whose change is still in the file.
LastWrites == Credentials!Wrote \ superseded
ReadIsCurrent ==
    ~overlapped =>
        /\ \A c \in CredentialCalls : at[c] = "saving" => snap[c] = file
        /\ \A c \in LastWrites : file[of[c]] = Credentials!Result(c)
        /\ \A r \in Records : file[r] = Absent \/ \E c \in LastWrites :
              of[c] = r /\ file[r] = Credentials!Result(c)

CredentialInv ==
    CredentialTypes /\ CredentialFlags /\ OnlyWritesAreSuperseded /\ ReadIsCurrent

LEMMA CredentialInvTypes == CredentialInv => Credentials!TypeOK /\ Credentials!OnlyOverlapDrops
<1>1. CredentialInv => Credentials!TypeOK
    BY DEF CredentialInv, CredentialTypes, CredentialFlags, OnlyWritesAreSuperseded,
       CredentialEnds, Credentials!TypeOK, Credentials!Wrote, Credentials!UnderWay
<1>2. CredentialInv => Credentials!OnlyOverlapDrops
    BY Zenon DEF CredentialInv, ReadIsCurrent, LastWrites, Credentials!OnlyOverlapDrops
<1> QED
    BY <1>1, <1>2

LEMMA CredentialInitInv == Credentials!Init => CredentialInv
<1> SUFFICES ASSUME Credentials!Init PROVE CredentialInv
    OBVIOUS
<1> USE DEF Credentials!Init
<1>1. (CHOOSE r \in Records : TRUE) \in Records
    BY StoresLimits DEF Credentials!StoreLimits
<1>2. CredentialTypes
    BY <1>1 DEF CredentialTypes, CredentialEnds, Credentials!Contents
<1>3. CredentialFlags
    BY DEF CredentialFlags
<1>4. Credentials!Wrote = {}
    BY DEF Credentials!Wrote
<1>5. OnlyWritesAreSuperseded /\ ReadIsCurrent
    BY <1>4 DEF OnlyWritesAreSuperseded, ReadIsCurrent, LastWrites
<1> QED
    BY <1>2, <1>3, <1>5 DEF CredentialInv

LEMMA CredentialTypesStep ==
    ASSUME CredentialTypes, Credentials!Next
    PROVE  CredentialTypes'
<1> USE DEF CredentialTypes, CredentialEnds, Credentials!Contents
<1>1. CASE \E c \in CredentialCalls : Credentials!Load(c)
    BY <1>1, ZenonT(60) DEF Credentials!Load
<1>2. CASE \E c \in CredentialCalls : Credentials!LoadFails(c)
    BY <1>2 DEF Credentials!LoadFails
<1>3. CASE \E c \in CredentialCalls : Credentials!Save(c)
    BY <1>3 DEF Credentials!Save, Credentials!Result
<1>4. CASE \E c \in CredentialCalls : Credentials!SaveFails(c)
    BY <1>4 DEF Credentials!SaveFails
<1>5. CASE \E c \in CredentialCalls : Credentials!Secured(c)
    BY <1>5 DEF Credentials!Secured
<1>6. CASE \E c \in CredentialCalls, r \in Records, o \in {"set", "update", "revoke"} : Credentials!Call(c, o, r)
    BY <1>6 DEF Credentials!Call
<1>7. CASE Credentials!Crash
    BY <1>7 DEF Credentials!Crash, Credentials!UnderWay
<1> QED
    BY <1>1, <1>2, <1>3, <1>4, <1>5, <1>6, <1>7 DEF Credentials!Next

LEMMA CredentialFlagsStep ==
    ASSUME CredentialFlags, Credentials!Next
    PROVE  CredentialFlags'
<1>1. torn' \in BOOLEAN
    BY Zenon DEF CredentialFlags, Credentials!Next, Credentials!Load, Credentials!LoadFails,
       Credentials!Save, Credentials!SaveFails, Credentials!Secured, Credentials!Call,
       Credentials!Crash
<1>2. overlapped' \in BOOLEAN
    BY Zenon DEF CredentialFlags, Credentials!Next, Credentials!Load, Credentials!LoadFails,
       Credentials!Save, Credentials!SaveFails, Credentials!Secured, Credentials!Call,
       Credentials!Crash
<1> QED
    BY <1>1, <1>2 DEF CredentialFlags

\* Every step but a save leaves the records on disk alone, and takes no call out of
\* those that wrote or into them.
LEMMA OnlySavesWrite ==
    ASSUME CredentialTypes, Credentials!Next,
           \A c \in CredentialCalls : ~Credentials!Save(c)
    PROVE  /\ file' = file /\ superseded' = superseded /\ overlapped' = overlapped
           /\ Credentials!Wrote' = Credentials!Wrote
           /\ \A c \in Credentials!Wrote : of'[c] = of[c] /\ op'[c] = op[c]
           /\ \A c \in CredentialCalls : at'[c] = "saving" => snap'[c] = (IF at[c] = "saving" THEN snap[c] ELSE file)
<1> USE DEF CredentialTypes, Credentials!Wrote
<1>1. CASE \E c \in CredentialCalls : Credentials!Load(c)
    BY <1>1 DEF Credentials!Load
<1>2. CASE \E c \in CredentialCalls : Credentials!LoadFails(c)
    BY <1>2 DEF Credentials!LoadFails
<1>3. CASE \E c \in CredentialCalls : Credentials!SaveFails(c)
    BY <1>3 DEF Credentials!SaveFails
<1>4. CASE \E c \in CredentialCalls : Credentials!Secured(c)
    BY <1>4 DEF Credentials!Secured
<1>5. CASE \E c \in CredentialCalls, r \in Records, o \in {"set", "update", "revoke"} : Credentials!Call(c, o, r)
    BY <1>5 DEF Credentials!Call
<1>6. CASE Credentials!Crash
    BY <1>6 DEF Credentials!Crash, Credentials!UnderWay
<1> QED
    BY <1>1, <1>2, <1>3, <1>4, <1>5, <1>6 DEF Credentials!Next

LEMMA ReadIsCurrentStep ==
    ASSUME CredentialTypes, OnlyWritesAreSuperseded, ReadIsCurrent, Credentials!Next
    PROVE  OnlyWritesAreSuperseded' /\ ReadIsCurrent'
\* A save writes what the file is now, with its record changed; whoever else holds
\* a copy makes it an overlap.
<1>1. ASSUME NEW c \in CredentialCalls, Credentials!Save(c)
      PROVE  OnlyWritesAreSuperseded' /\ ReadIsCurrent'
    <2> DEFINE same == {d \in Credentials!Wrote : of[d] = of[c]}
    <2>1. c \notin Credentials!Wrote /\ Credentials!Wrote' = Credentials!Wrote \cup {c}
        BY <1>1 DEF Credentials!Save, Credentials!Wrote, CredentialTypes
    <2>2. superseded' = superseded \cup same /\ of' = of /\ op' = op
        BY <1>1 DEF Credentials!Save
    <2>3. OnlyWritesAreSuperseded'
        BY <2>1, <2>2 DEF OnlyWritesAreSuperseded
    <2>4. LastWrites' = (LastWrites \ same) \cup {c}
        BY <2>1, <2>2 DEF OnlyWritesAreSuperseded, LastWrites
    <2>5. CASE \E d \in CredentialCalls \ {c} : at[d] = "saving"
        BY <1>1, <2>3, <2>5 DEF Credentials!Save, ReadIsCurrent
    <2>6. CASE ~\E d \in CredentialCalls \ {c} : at[d] = "saving"
        <3>1. CASE overlapped
            BY <1>1, <2>3, <3>1 DEF Credentials!Save, ReadIsCurrent
        <3>2. CASE ~overlapped
            <4>1. file' = [file EXCEPT ![of[c]] = Credentials!Result(c)]
                BY <1>1, <3>2 DEF Credentials!Save, ReadIsCurrent
            <4>2. \A d \in CredentialCalls : at'[d] # "saving"
                BY <1>1, <2>6 DEF Credentials!Save, CredentialTypes
            <4>3. \A d : Credentials!Result(d)' = Credentials!Result(d)
                BY <2>2 DEF Credentials!Result
            <4>4. \A d \in LastWrites : d \in CredentialCalls /\ of[d] \in Records
                BY DEF LastWrites, Credentials!Wrote, CredentialTypes
            <4>5. file \in [Records -> Credentials!Contents] /\ of[c] \in Records
                BY DEF CredentialTypes
            <4>6. \A d \in LastWrites' : file'[of'[d]] = Credentials!Result(d)'
                <5> SUFFICES ASSUME NEW d \in LastWrites'
                             PROVE  file'[of'[d]] = Credentials!Result(d)'
                    OBVIOUS
                <5>1. CASE d = c
                    BY <5>1, <4>1, <4>3, <4>5, <2>2
                <5>2. CASE d \in LastWrites /\ of[d] # of[c]
                    BY <5>2, <4>1, <4>3, <4>4, <4>5, <2>2, <3>2 DEF ReadIsCurrent
                <5> QED
                    BY <5>1, <5>2, <2>4 DEF LastWrites
            <4>7. \A r \in Records : file'[r] = Absent \/ \E d \in LastWrites' :
                     of'[d] = r /\ file'[r] = Credentials!Result(d)'
                <5> SUFFICES ASSUME NEW r \in Records, file'[r] # Absent
                             PROVE  \E d \in LastWrites' :
                                        of'[d] = r /\ file'[r] = Credentials!Result(d)'
                    OBVIOUS
                <5>1. CASE r = of[c]
                    BY <5>1, <4>1, <4>3, <4>5, <2>2, <2>4
                <5>2. CASE r # of[c]
                    <6>1. file'[r] = file[r]
                        BY <5>2, <4>1, <4>5
                    <6>2. PICK d \in LastWrites : of[d] = r /\ file[r] = Credentials!Result(d)
                        BY <6>1, <3>2 DEF ReadIsCurrent
                    <6> QED
                        BY <6>1, <6>2, <5>2, <4>3, <2>2, <2>4
                <5> QED
                    BY <5>1, <5>2
            <4> QED
                BY <2>3, <4>2, <4>6, <4>7 DEF ReadIsCurrent
        <3> QED
            BY <3>1, <3>2
    <2> QED
        BY <2>5, <2>6
<1>2. ASSUME \A c \in CredentialCalls : ~Credentials!Save(c)
      PROVE  OnlyWritesAreSuperseded' /\ ReadIsCurrent'
    <2>1. /\ file' = file /\ superseded' = superseded /\ overlapped' = overlapped
          /\ Credentials!Wrote' = Credentials!Wrote
          /\ \A c \in Credentials!Wrote : of'[c] = of[c] /\ op'[c] = op[c]
          /\ \A c \in CredentialCalls : at'[c] = "saving" => snap'[c] = (IF at[c] = "saving" THEN snap[c] ELSE file)
        BY <1>2, OnlySavesWrite
    <2>2. \A c \in LastWrites : of'[c] = of[c] /\ Credentials!Result(c)' = Credentials!Result(c)
        BY <2>1 DEF LastWrites, Credentials!Result
    <2>3. LastWrites' = LastWrites
        BY <2>1 DEF LastWrites
    <2> QED
        BY <2>1, <2>2, <2>3 DEF OnlyWritesAreSuperseded, ReadIsCurrent
<1> QED
    BY <1>1, <1>2

LEMMA CredentialNextInv == CredentialInv /\ [Credentials!Next]_credentialVars => CredentialInv'
<1> SUFFICES ASSUME CredentialInv, [Credentials!Next]_credentialVars PROVE CredentialInv'
    OBVIOUS
<1>1. CASE Credentials!Next
    BY <1>1, CredentialTypesStep, CredentialFlagsStep, ReadIsCurrentStep DEF CredentialInv
<1>2. CASE UNCHANGED credentialVars
    BY <1>2 DEF credentialVars, CredentialInv, CredentialTypes, CredentialFlags,
       OnlyWritesAreSuperseded, ReadIsCurrent, LastWrites, Credentials!Wrote, Credentials!Result
<1> QED
    BY <1>1, <1>2

-----------------------------------------------------------------------------
(* OAuthSession: while the keepalive is alone, the user is not at work, no *)
(* chat writes, and the pair the keepalive writes is the newest one: only  *)
(* between its two writes does a record hold an older pair.                *)

SessionCounts ==
    /\ latest \in 1..MaxPairs /\ usable \subseteq 1..latest /\ old \in 0..latest
    /\ tokens \in [Session!Copies -> 0..latest] /\ pair \in [Session!Procs -> 0..latest]
    /\ read \in [Session!Procs -> [Session!Copies -> 0..latest]]
SessionPlaces ==
    sessionAt \in [Session!Procs ->
        Session!Quiet \cup {"planning", "refreshing", "readA", "readB", "writeA", "writeB"}]
KeepaliveAlone ==
    alone => /\ latest \in usable
             /\ sessionAt[User] = "idle"
             /\ \A c \in Chats : sessionAt[c] \in {"idle", "refreshing", "done"}
             /\ IF sessionAt[Keepalive] \in {"readA", "writeA", "readB", "writeB"}
                THEN /\ pair[Keepalive] = latest
                     /\ sessionAt[Keepalive] \in {"readB", "writeB"} => tokens["A"] = latest
                     /\ sessionAt[Keepalive] = "writeB" => read[Keepalive]["A"] = latest
                ELSE tokens["A"] = latest /\ tokens["B"] = latest

SessionInv == SessionCounts /\ SessionPlaces /\ alone \in BOOLEAN /\ KeepaliveAlone

LEMMA SessionInvKeeps == SessionInv => Session!TypeOK /\ Session!KeepaliveKeepsSession
<1>1. SessionInv => Session!TypeOK
    BY Zenon DEF SessionInv, SessionCounts, SessionPlaces, Session!TypeOK
<1>2. SessionInv => Session!KeepaliveKeepsSession
    BY DEF SessionInv, KeepaliveAlone, Session!KeepaliveKeepsSession, Session!Copies, Session!Quiet
<1> QED
    BY <1>1, <1>2

LEMMA SessionInitInv == Session!Init => SessionInv
BY StoresLimits DEF Session!Init, SessionInv, SessionCounts, SessionPlaces, KeepaliveAlone,
   Session!NoCopies,
   Session!Copies, Session!Procs, Session!Quiet, Session!SessionLimits

\* What follows a failure of one process.
LEMMA SessionFails ==
    ASSUME SessionPlaces, NEW p \in Session!Procs, Session!Fails(p)
    PROVE  /\ SessionPlaces'
           /\ sessionAt'[p] = IF p = Keepalive THEN "retry" ELSE "done"
           /\ \A q \in Session!Procs \ {p} : sessionAt'[q] = sessionAt[q]
BY DEF Session!Fails, Session!Goes, SessionPlaces, Session!Quiet

LEMMA SessionGoes ==
    ASSUME SessionPlaces, NEW p \in Session!Procs,
           NEW place \in Session!Quiet \cup {"planning", "refreshing", "readA", "readB", "writeA", "writeB"},
           Session!Goes(p, place)
    PROVE  /\ SessionPlaces'
           /\ sessionAt'[p] = place
           /\ \A q \in Session!Procs \ {p} : sessionAt'[q] = sessionAt[q]
BY DEF Session!Goes, SessionPlaces

LEMMA SessionHolds ==
    ASSUME SessionCounts, NEW p \in Session!Procs, NEW g, Session!Holds(p, g)
    PROVE  /\ pair'[p] = g /\ \A q \in Session!Procs \ {p} : pair'[q] = pair[q]
           /\ pair' = [pair EXCEPT ![p] = g]
BY DEF Session!Holds, SessionCounts

\* The endpoint issues a pair, which process p holds or has lost.
LEMMA SessionIssues ==
    ASSUME SessionCounts, NEW p \in Session!Procs, latest < MaxPairs, latest' = latest + 1,
           usable' \in {usable \cup {latest + 1}, {latest + 1}}, UNCHANGED <<old, tokens, read>>,
           Session!Holds(p, latest + 1) \/ UNCHANGED pair
    PROVE  SessionCounts'
<1> USE StoresLimits DEF SessionCounts, Session!SessionLimits
<1>1. latest \in Nat /\ latest' \in 1..MaxPairs /\ old' \in 0..latest' /\ 0..latest \subseteq 0..latest'
    OBVIOUS
<1>2. usable' \subseteq 1..latest'
    <2>1. usable \subseteq 1..latest' /\ latest + 1 \in 1..latest'
        OBVIOUS
    <2> QED
        BY <2>1
<1>3. pair' \in [Session!Procs -> 0..latest']
    BY <1>1 DEF Session!Holds
<1>4. tokens' \in [Session!Copies -> 0..latest'] /\ read' \in [Session!Procs -> [Session!Copies -> 0..latest']]
    <2>1. tokens \in [Session!Copies -> 0..latest']
        BY <1>1
    <2>2. \A q \in Session!Procs : read[q] \in [Session!Copies -> 0..latest']
        BY <1>1
    <2> QED
        BY <2>1, <2>2
<1> QED
    BY <1>1, <1>2, <1>3, <1>4

LEMMA SessionExpire == ASSUME SessionInv, Session!Expire PROVE SessionInv'
<1>1. SessionCounts' /\ SessionPlaces'
    BY DEF Session!Expire, SessionInv, SessionCounts, SessionPlaces
<1>2. KeepaliveAlone' /\ alone' \in BOOLEAN
    BY DEF Session!Expire, SessionInv, KeepaliveAlone
<1> QED
    BY <1>1, <1>2 DEF SessionInv

\* A chat or the keepalive takes a pair that is fresh, or asks for another.
LEMMA SessionUses ==
    ASSUME SessionInv, NEW p \in Chats \cup {Keepalive}, NEW r \in Session!Copies, Session!Uses(p, r),
           p = Keepalive => sessionAt[p] \in {"armed", "retry"}
    PROVE  SessionInv'
<1> DEFINE goes == {"retry", "done", "planning", "refreshing"}
<1>1. p \in Session!Procs /\ p # User /\ Keepalive \in Session!Procs /\ User \in Session!Procs /\ Chats \subseteq Session!Procs
    BY StoresLimits DEF Session!Procs, Session!SessionLimits
<1>2. /\ Session!Holds(p, tokens[r]) /\ UNCHANGED <<latest, usable, old, tokens, read, alone>>
      /\ \E place \in goes : Session!Goes(p, place) /\ (p # Keepalive => place \in {"done", "refreshing"})
    <2>1. /\ Session!Holds(p, tokens[r]) /\ UNCHANGED <<latest, usable, old, tokens, read, alone>>
          /\ \/ Session!Fails(p)
             \/ Session!Goes(p, IF p = Keepalive THEN "planning" ELSE "done")
             \/ Session!Goes(p, "refreshing")
        BY DEF Session!Uses, Session!endpoint
    <2> QED
        BY <2>1 DEF Session!Fails
<1>3. PICK place \in goes : Session!Goes(p, place) /\ (p # Keepalive => place \in {"done", "refreshing"})
    BY <1>2
<1>4. /\ SessionPlaces' /\ sessionAt'[p] = place
      /\ \A q \in Session!Procs \ {p} : sessionAt'[q] = sessionAt[q]
    BY <1>1, <1>3, SessionGoes DEF SessionInv, Session!Quiet
<1>5. SessionCounts'
    BY <1>1, <1>2, SessionHolds DEF SessionInv, SessionCounts
<1>6. KeepaliveAlone'
    <2>1. CASE p = Keepalive
        BY <1>1, <1>2, <1>3, <1>4, <2>1, StoresLimits DEF SessionInv, KeepaliveAlone,
           Session!SessionLimits
    <2>2. CASE p # Keepalive
        <3>1. pair'[Keepalive] = pair[Keepalive] /\ sessionAt'[Keepalive] = sessionAt[Keepalive]
            BY <1>1, <1>2, <1>4, <2>2, SessionHolds DEF SessionInv
        <3> QED
            BY <1>1, <1>2, <1>3, <1>4, <2>2, <3>1, StoresLimits DEF SessionInv, KeepaliveAlone,
               Session!SessionLimits
    <2> QED
        BY <2>1, <2>2
<1> QED
    BY <1>2, <1>4, <1>5, <1>6 DEF SessionInv

LEMMA SessionPlan == ASSUME SessionInv, Session!Plan PROVE SessionInv'
<1>1. /\ Keepalive \in Session!Procs /\ User \in Session!Procs /\ Chats \subseteq Session!Procs
      /\ Keepalive \notin Chats /\ Keepalive # User
    BY StoresLimits DEF Session!Procs, Session!SessionLimits
<1>2. PICK place \in {"unscheduled", "armed"} : Session!Goes(Keepalive, place)
    BY DEF Session!Plan
<1>3. /\ SessionPlaces' /\ sessionAt'[Keepalive] = place
      /\ \A q \in Session!Procs \ {Keepalive} : sessionAt'[q] = sessionAt[q]
    BY <1>1, <1>2, SessionGoes DEF SessionInv, Session!Quiet
<1>4. /\ UNCHANGED <<latest, usable, old, tokens, read>> /\ alone' \in BOOLEAN /\ (alone' => alone)
      /\ UNCHANGED pair \/ Session!Holds(Keepalive, tokens["A"])
    BY DEF Session!Plan, Session!endpoint, SessionInv
<1>5. SessionCounts'
    BY <1>1, <1>4, SessionHolds DEF SessionInv, SessionCounts, Session!Copies
<1>6. KeepaliveAlone'
    BY <1>1, <1>2, <1>3, <1>4 DEF SessionInv, KeepaliveAlone, Session!Plan
<1> QED
    BY <1>3, <1>4, <1>5, <1>6 DEF SessionInv

LEMMA SessionUser == ASSUME SessionInv, Session!SignIn \/ Session!Disconnect PROVE SessionInv'
<1>1. User \in Session!Procs
    BY DEF Session!Procs
<1>2. SessionPlaces' /\ alone' = FALSE
    BY <1>1, SessionGoes DEF Session!SignIn, Session!Disconnect, SessionInv, Session!Quiet
<1>3. SessionCounts'
    <2>1. CASE Session!SignIn
        BY <1>1, <2>1, SessionIssues DEF Session!SignIn, SessionInv
    <2>2. CASE Session!Disconnect
        BY <1>1, <2>2, SessionHolds DEF Session!Disconnect, SessionInv, SessionCounts, Session!endpoint
    <2> QED
        BY <2>1, <2>2
<1> QED
    BY <1>2, <1>3 DEF SessionInv, KeepaliveAlone

LEMMA SessionRefreshed == ASSUME SessionInv, NEW p \in Session!Procs, Session!Refreshed(p) PROVE SessionInv'
<1>1. /\ Keepalive \in Session!Procs /\ User \in Session!Procs /\ Chats \subseteq Session!Procs
      /\ Keepalive \notin Chats /\ User \notin Chats /\ Keepalive # User
    BY StoresLimits DEF Session!Procs, Session!SessionLimits
<1>2. UNCHANGED <<old, tokens, read>> /\ sessionAt[p] = "refreshing"
    BY DEF Session!Refreshed
<1>3. CASE /\ latest < MaxPairs /\ latest' = latest + 1
           /\ usable' \in {usable \cup {latest + 1}, {latest + 1}}
           /\ Session!Holds(p, latest + 1) /\ Session!Goes(p, "readA") /\ alone' = (alone /\ p = Keepalive)
    <2>1. /\ SessionPlaces' /\ sessionAt'[p] = "readA"
          /\ \A q \in Session!Procs \ {p} : sessionAt'[q] = sessionAt[q]
        BY <1>3, SessionGoes DEF SessionInv
    <2>2. SessionCounts' /\ pair'[p] = latest'
        BY <1>2, <1>3, SessionHolds, SessionIssues DEF SessionInv
    <2>3. alone' \in BOOLEAN
        BY <1>3 DEF SessionInv
    <2>4. KeepaliveAlone'
        BY <1>1, <1>2, <1>3, <2>1, <2>2 DEF SessionInv, KeepaliveAlone
    <2> QED
        BY <2>1, <2>2, <2>3, <2>4 DEF SessionInv
<1>4. CASE /\ latest < MaxPairs /\ latest' = latest + 1
           /\ usable' \in {usable \cup {latest + 1}, {latest + 1}}
           /\ Session!Fails(p) /\ alone' = FALSE /\ UNCHANGED pair
    <2>1. SessionPlaces'
        BY <1>4, SessionFails DEF SessionInv
    <2>2. SessionCounts'
        BY <1>2, <1>4, SessionIssues DEF SessionInv
    <2> QED
        BY <1>4, <2>1, <2>2 DEF SessionInv, KeepaliveAlone
<1>5. CASE Session!Fails(p) /\ UNCHANGED <<latest, usable, pair, alone>>
    <2>1. /\ SessionPlaces' /\ sessionAt'[p] = IF p = Keepalive THEN "retry" ELSE "done"
          /\ \A q \in Session!Procs \ {p} : sessionAt'[q] = sessionAt[q]
        BY <1>5, SessionFails DEF SessionInv
    <2>2. SessionCounts'
        BY <1>2, <1>5 DEF SessionInv, SessionCounts
    <2>3. KeepaliveAlone'
        BY <1>1, <1>2, <1>5, <2>1 DEF SessionInv, KeepaliveAlone
    <2> QED
        BY <1>5, <2>1, <2>2, <2>3 DEF SessionInv
<1> QED
    BY <1>3, <1>4, <1>5 DEF Session!Refreshed

LEMMA SessionRead == ASSUME SessionInv, NEW p \in Session!Procs, Session!Read(p) PROVE SessionInv'
<1>1. /\ Keepalive \in Session!Procs /\ User \in Session!Procs /\ Chats \subseteq Session!Procs
      /\ Keepalive \notin Chats /\ User \notin Chats /\ Keepalive # User
    BY StoresLimits DEF Session!Procs, Session!SessionLimits
<1>2. /\ sessionAt[p] \in {"readA", "readB"} /\ read' = [read EXCEPT ![p] = tokens]
      /\ UNCHANGED <<latest, usable, old, tokens, pair, alone>>
      /\ Session!Goes(p, IF sessionAt[p] = "readA" THEN "writeA" ELSE "writeB")
    BY DEF Session!Read, Session!endpoint
<1>3. /\ SessionPlaces' /\ sessionAt'[p] = IF sessionAt[p] = "readA" THEN "writeA" ELSE "writeB"
      /\ \A q \in Session!Procs \ {p} : sessionAt'[q] = sessionAt[q]
    BY <1>2, SessionGoes DEF SessionInv
<1>4. SessionCounts'
    BY <1>2 DEF SessionInv, SessionCounts
<1>5. KeepaliveAlone'
    BY <1>1, <1>2, <1>3 DEF SessionInv, KeepaliveAlone, SessionCounts
<1> QED
    BY <1>2, <1>3, <1>4, <1>5 DEF SessionInv

LEMMA SessionWrite == ASSUME SessionInv, NEW p \in Session!Procs, Session!Write(p) PROVE SessionInv'
<1>1. /\ Keepalive \in Session!Procs /\ User \in Session!Procs /\ Chats \subseteq Session!Procs
      /\ Keepalive \notin Chats /\ User \notin Chats /\ Keepalive # User
    BY StoresLimits DEF Session!Procs, Session!SessionLimits
<1>2. /\ sessionAt[p] \in {"writeA", "writeB"}
      /\ tokens' = [read[p] EXCEPT ![IF sessionAt[p] = "writeA" THEN "A" ELSE "B"] = pair[p]]
      /\ read' = [read EXCEPT ![p] = Session!NoCopies]
      /\ UNCHANGED <<latest, usable, old, pair, alone>>
    BY DEF Session!Write, Session!endpoint
<1>3. PICK place \in {"readB", "planning", "done"} :
           /\ Session!Goes(p, place)
           /\ p = Keepalive => place = IF sessionAt[p] = "writeA" THEN "readB" ELSE "planning"
    <2>1. Session!Goes(p, CASE sessionAt[p] = "writeA" /\ p \notin Chats -> "readB"
                            [] sessionAt[p] = "writeB" /\ p = Keepalive -> "planning"
                            [] OTHER -> "done")
        BY DEF Session!Write
    <2>2. CASE sessionAt[p] = "writeA" /\ p \notin Chats
        BY <2>1, <2>2
    <2>3. CASE sessionAt[p] = "writeB" /\ p = Keepalive
        BY <2>1, <2>3
    <2>4. CASE ~(sessionAt[p] = "writeA" /\ p \notin Chats) /\ ~(sessionAt[p] = "writeB" /\ p = Keepalive)
        BY <1>1, <1>2, <2>1, <2>4
    <2> QED
        BY <2>2, <2>3, <2>4
<1>4. /\ SessionPlaces' /\ sessionAt'[p] = place
      /\ \A q \in Session!Procs \ {p} : sessionAt'[q] = sessionAt[q]
    BY <1>3, SessionGoes DEF SessionInv, Session!Quiet
<1>5. SessionCounts'
    BY <1>2 DEF SessionInv, SessionCounts, Session!NoCopies, Session!Copies
<1>6. ASSUME alone PROVE p = Keepalive
    BY <1>1, <1>2, <1>6 DEF SessionInv, KeepaliveAlone, Session!Procs
<1>7. KeepaliveAlone'
    <2> SUFFICES ASSUME alone PROVE KeepaliveAlone'
        BY <1>2 DEF KeepaliveAlone
    <2>1. p = Keepalive /\ pair[p] = latest
        BY <1>2, <1>6 DEF SessionInv, KeepaliveAlone
    <2>2. /\ latest' = latest /\ latest' \in usable' /\ pair'[Keepalive] = latest'
          /\ sessionAt'[User] = "idle" /\ \A c \in Chats : sessionAt'[c] \in {"idle", "refreshing", "done"}
        BY <1>1, <1>2, <1>4, <2>1 DEF SessionInv, KeepaliveAlone
    <2>3. CASE sessionAt[p] = "writeA"
        <3>1. tokens'["A"] = latest
            BY <1>2, <2>1, <2>3 DEF SessionInv, SessionCounts, Session!Copies
        <3> QED
            BY <1>3, <1>4, <2>1, <2>2, <2>3, <3>1 DEF KeepaliveAlone
    <2>4. CASE sessionAt[p] = "writeB"
        <3>1. tokens'["A"] = latest /\ tokens'["B"] = latest
            BY <1>2, <2>1, <2>4 DEF SessionInv, SessionCounts, Session!Copies, KeepaliveAlone
        <3> QED
            BY <1>3, <1>4, <2>1, <2>2, <2>4, <3>1 DEF KeepaliveAlone
    <2> QED
        BY <1>2, <2>3, <2>4
<1> QED
    BY <1>2, <1>4, <1>5, <1>7 DEF SessionInv

LEMMA SessionStops ==
    ASSUME SessionInv, Session!Restart \/ \E p \in Session!Procs : Session!StoreFails(p)
    PROVE  SessionInv'
<1>1. SessionPlaces' /\ alone' = FALSE
    <2>1. CASE Session!Restart
        BY <2>1 DEF Session!Restart, SessionInv, SessionPlaces, Session!Quiet
    <2>2. CASE \E p \in Session!Procs : Session!StoreFails(p)
        BY <2>2, SessionFails DEF Session!StoreFails, SessionInv
    <2> QED
        BY <2>1, <2>2
<1>2. SessionCounts'
    BY DEF Session!Restart, Session!StoreFails, Session!endpoint, SessionInv, SessionCounts
<1> QED
    BY <1>1, <1>2 DEF SessionInv, KeepaliveAlone

LEMMA SessionNextInv == SessionInv /\ [Session!Next]_sessionVars => SessionInv'
<1> SUFFICES ASSUME SessionInv, [Session!Next]_sessionVars PROVE SessionInv'
    OBVIOUS
<1>1. CASE UNCHANGED sessionVars
    BY <1>1 DEF sessionVars, SessionInv, SessionCounts, SessionPlaces, KeepaliveAlone
<1>2. CASE Session!Fire
    BY <1>2, SessionUses DEF Session!Fire, Session!Copies
<1>3. CASE \E c \in Chats : Session!Chat(c)
    BY <1>3, SessionUses, StoresLimits DEF Session!Chat, Session!Copies, Session!SessionLimits
<1> QED
    BY <1>1, <1>2, <1>3, SessionExpire, SessionPlan, SessionUser, SessionRefreshed, SessionRead,
       SessionWrite,
       SessionStops DEF Session!Next

-----------------------------------------------------------------------------
(* MemoryStore: one call at a time is between BEGIN and COMMIT, and what it *)
(* has written is the only difference between the rows, the rows saved for  *)
(* a rollback and the files.                                                *)

MemoryTables ==
    /\ {rows, saved, files} \subseteq [Memory!Ids -> Memory!Texts \cup {NoText}]
    /\ notes \in [Memory!Ids -> Memory!Texts \cup {NoText, Torn}]
    /\ tx \in Memory!Procs \cup {NoProc}
MemoryProcs ==
    /\ memoryAt \in [Memory!Procs -> {"idle", "reading", "looking", "preparing", "writing", "committing",
                                      "noting", "done", "failed", "lost"}]
    /\ kind \in [Memory!Procs -> {"none", "create", "update", "delete"}]
    /\ id \in [Memory!Procs -> 0..MaxIds]
    /\ text \in [Memory!Procs -> Memory!Texts \cup {NoText}]
    /\ nextId \in 1..(MaxIds + 1)
MemoryRest ==
    /\ sync \in {"off", "scanning", "watching"}
    /\ toScan \subseteq Memory!Ids /\ due \subseteq Memory!Ids
    /\ kept \subseteq Memory!Ids /\ forgotten \subseteq Memory!Texts
    /\ memoryCrashes \in 0..MaxMemoryCrashes /\ troubled \in BOOLEAN

\* What a call is about to write is of one memory, and no text only for a delete,
\* which only the calls of the user make, each once.
MayWrite ==
    /\ \A c \in MemoryCalls : memoryAt[c] = "idle" => kind[c] = "none"
    /\ kind[Ingester] # "delete"
    /\ memoryAt[Ingester] \in {"reading", "looking"} => id[Ingester] # 0
    /\ memoryAt[Ingester] = "looking" => text[Ingester] # NoText
    /\ \A p \in Memory!Procs : memoryAt[p] \in {"preparing", "writing", "committing", "noting"} =>
          /\ id[p] # 0 /\ kind[p] # "none"
          /\ kind[p] = "delete" <=> text[p] = NoText

\* Whoever is between BEGIN and COMMIT has the transaction, and has written one row.
Writer ==
    /\ \A p \in Memory!Procs : memoryAt[p] \in {"writing", "committing"} <=> tx = p
    /\ tx # NoProc => rows = [saved EXCEPT ![id[tx]] = text[tx]]

FilesAgree ==
    ~troubled =>
        /\ tx = NoProc => files = rows
        /\ \A p \in Memory!Procs : /\ memoryAt[p] = "writing" => files = saved
                                   /\ memoryAt[p] = "committing" => files = rows

MemoryShapes == MemoryTables /\ MemoryProcs /\ MemoryRest
MemoryInv == MemoryShapes /\ MayWrite /\ Writer /\ FilesAgree /\ Memory!AcknowledgedIsKept

LEMMA MemoryBounds ==
    /\ NoText # Torn /\ {NoText, Torn} \cap Memory!Texts = {}
    /\ Ingester \in Memory!Procs /\ Ingester \notin MemoryCalls /\ NoProc \notin Memory!Procs
    /\ MemoryCalls \subseteq Memory!Procs /\ MemoryCalls \cup {Edited, First} = Memory!Texts
    /\ MaxIds \in Nat \ {0} /\ Memory!Ids = 1..MaxIds /\ MaxMemoryCrashes \in Nat
BY StoresLimits DEF Memory!MemoryLimits, Memory!Texts, Memory!Procs, Memory!Ids

USE DEF Memory!db, Memory!disk, Memory!procs, Memory!watching
USE DEF Memory!Goes, Memory!Ended, Memory!Prepares, Memory!Creates, Memory!Updates, Memory!Rollback, Memory!Noticed

\* A step of one process, p, outside its transaction, and of the notes.
LEMMA MemoryMoves ==
    ASSUME MemoryInv, NEW p \in Memory!Procs,
           UNCHANGED <<rows, tx, saved, files, kept, forgotten, memoryCrashes, troubled>>,
           notes' \in [Memory!Ids -> Memory!Texts \cup {NoText, Torn}],
           sync' \in {"off", "scanning", "watching"}, toScan' \subseteq Memory!Ids, due' \subseteq Memory!Ids,
           MemoryProcs', MayWrite',
           \A q \in Memory!Procs \ {p} : /\ memoryAt'[q] = memoryAt[q] /\ kind'[q] = kind[q]
                                        /\ id'[q] = id[q] /\ text'[q] = text[q],
           {memoryAt[p], memoryAt'[p]} \cap {"writing", "committing"} = {},
           p \in MemoryCalls /\ kind[p] = "delete" => kind'[p] = "delete" /\ id'[p] = id[p]
    PROVE  MemoryInv'
<1>1. MemoryTables' /\ MemoryRest'
    BY Zenon DEF MemoryInv, MemoryShapes, MemoryTables, MemoryRest
<1>2. Writer'
    BY DEF MemoryInv, MemoryShapes, Writer, MemoryTables
<1>3. FilesAgree'
    BY DEF MemoryInv, FilesAgree
<1>4. Memory!AcknowledgedIsKept'
    BY MemoryBounds DEF MemoryInv, Memory!AcknowledgedIsKept, Memory!Committed
<1> QED
    BY <1>1, <1>2, <1>3, <1>4, Zenon DEF MemoryInv, MemoryShapes

\* A step of the notes alone.
LEMMA MemoryNotes ==
    ASSUME MemoryInv, UNCHANGED <<rows, tx, saved, files, memoryAt, kind, id, text, nextId, kept, forgotten, memoryCrashes, troubled>>,
           notes' \in [Memory!Ids -> Memory!Texts \cup {NoText, Torn}],
           sync' \in {"off", "scanning", "watching"}, toScan' \subseteq Memory!Ids, due' \subseteq Memory!Ids
    PROVE  MemoryInv'
<1>1. MemoryShapes'
    BY Zenon DEF MemoryInv, MemoryShapes, MemoryTables, MemoryProcs, MemoryRest
<1>2. MayWrite' /\ Writer' /\ FilesAgree' /\ Memory!AcknowledgedIsKept'
    BY DEF MemoryInv, MayWrite, Writer, FilesAgree, Memory!AcknowledgedIsKept, Memory!Committed
<1> QED
    BY <1>1, <1>2, Zenon DEF MemoryInv

LEMMA MemoryRemember == ASSUME MemoryInv, NEW c \in MemoryCalls, Memory!Remember(c) PROVE MemoryInv'
<1> USE DEF Memory!Remember
<1>1. MemoryProcs'
    BY MemoryBounds DEF MemoryInv, MemoryShapes, MemoryProcs, MemoryTables, MayWrite
<1>2. MayWrite'
    BY MemoryBounds DEF MemoryInv, MemoryShapes, MayWrite, MemoryTables, MemoryProcs
<1>3. /\ notes' \in [Memory!Ids -> Memory!Texts \cup {NoText, Torn}]
      /\ sync' \in {"off", "scanning", "watching"} /\ toScan' \subseteq Memory!Ids /\ due' \subseteq Memory!Ids
    BY MemoryBounds DEF MemoryInv, MemoryShapes, MemoryTables, MemoryProcs, MemoryRest, MayWrite
<1>4. /\ \A q \in Memory!Procs \ {c} : /\ memoryAt'[q] = memoryAt[q] /\ kind'[q] = kind[q]
                                             /\ id'[q] = id[q] /\ text'[q] = text[q]
      /\ c \in Memory!Procs /\ {memoryAt[c], memoryAt'[c]} \cap {"writing", "committing"} = {}
      /\ UNCHANGED <<rows, tx, saved, files, kept, forgotten, memoryCrashes, troubled>>
    BY MemoryBounds DEF MemoryInv, MemoryShapes, MemoryProcs
<1>5. c \in MemoryCalls /\ kind[c] = "delete" => kind'[c] = "delete" /\ id'[c] = id[c]
    BY MemoryBounds DEF MemoryInv, MemoryShapes, MemoryProcs, MayWrite
<1> QED
    BY <1>1, <1>2, <1>3, <1>4, <1>5, MemoryMoves

LEMMA MemoryUpdate == ASSUME MemoryInv, NEW c \in MemoryCalls, NEW i \in Memory!Ids, Memory!Update(c, i) PROVE MemoryInv'
<1> USE DEF Memory!Update
<1>1. MemoryProcs'
    BY MemoryBounds DEF MemoryInv, MemoryShapes, MemoryProcs, MemoryTables, MayWrite
<1>2. MayWrite'
    BY MemoryBounds DEF MemoryInv, MemoryShapes, MayWrite, MemoryTables, MemoryProcs
<1>3. /\ notes' \in [Memory!Ids -> Memory!Texts \cup {NoText, Torn}]
      /\ sync' \in {"off", "scanning", "watching"} /\ toScan' \subseteq Memory!Ids /\ due' \subseteq Memory!Ids
    BY MemoryBounds DEF MemoryInv, MemoryShapes, MemoryTables, MemoryProcs, MemoryRest, MayWrite
<1>4. /\ \A q \in Memory!Procs \ {c} : /\ memoryAt'[q] = memoryAt[q] /\ kind'[q] = kind[q]
                                             /\ id'[q] = id[q] /\ text'[q] = text[q]
      /\ c \in Memory!Procs /\ {memoryAt[c], memoryAt'[c]} \cap {"writing", "committing"} = {}
      /\ UNCHANGED <<rows, tx, saved, files, kept, forgotten, memoryCrashes, troubled>>
    BY MemoryBounds DEF MemoryInv, MemoryShapes, MemoryProcs
<1>5. c \in MemoryCalls /\ kind[c] = "delete" => kind'[c] = "delete" /\ id'[c] = id[c]
    BY MemoryBounds DEF MemoryInv, MemoryShapes, MemoryProcs, MayWrite
<1> QED
    BY <1>1, <1>2, <1>3, <1>4, <1>5, MemoryMoves

LEMMA MemoryForget == ASSUME MemoryInv, NEW c \in MemoryCalls, NEW i \in Memory!Ids, Memory!Forget(c, i) PROVE MemoryInv'
<1> USE DEF Memory!Forget
<1>1. MemoryProcs'
    BY MemoryBounds DEF MemoryInv, MemoryShapes, MemoryProcs, MemoryTables, MayWrite
<1>2. MayWrite'
    BY MemoryBounds DEF MemoryInv, MemoryShapes, MayWrite, MemoryTables, MemoryProcs
<1>3. /\ notes' \in [Memory!Ids -> Memory!Texts \cup {NoText, Torn}]
      /\ sync' \in {"off", "scanning", "watching"} /\ toScan' \subseteq Memory!Ids /\ due' \subseteq Memory!Ids
    BY MemoryBounds DEF MemoryInv, MemoryShapes, MemoryTables, MemoryProcs, MemoryRest, MayWrite
<1>4. /\ \A q \in Memory!Procs \ {c} : /\ memoryAt'[q] = memoryAt[q] /\ kind'[q] = kind[q]
                                             /\ id'[q] = id[q] /\ text'[q] = text[q]
      /\ c \in Memory!Procs /\ {memoryAt[c], memoryAt'[c]} \cap {"writing", "committing"} = {}
      /\ UNCHANGED <<rows, tx, saved, files, kept, forgotten, memoryCrashes, troubled>>
    BY MemoryBounds DEF MemoryInv, MemoryShapes, MemoryProcs
<1>5. c \in MemoryCalls /\ kind[c] = "delete" => kind'[c] = "delete" /\ id'[c] = id[c]
    BY MemoryBounds DEF MemoryInv, MemoryShapes, MemoryProcs, MayWrite
<1> QED
    BY <1>1, <1>2, <1>3, <1>4, <1>5, MemoryMoves

LEMMA MemoryBegin == ASSUME MemoryInv, NEW p \in Memory!Procs, Memory!Begin(p) PROVE MemoryInv'
<1> USE DEF Memory!Begin
<1> DEFINE ok == tx = NoProc /\ (kind[p] = "update" => rows[id[p]] # NoText)
<1>a. id[p] \in Memory!Ids /\ text[p] \in Memory!Texts \cup {NoText} /\ memoryAt[p] = "preparing"
    BY MemoryBounds DEF MemoryInv, MemoryShapes, MemoryProcs, MayWrite
<1>b. ok => MemoryTables' /\ Writer' /\ FilesAgree' /\ Memory!AcknowledgedIsKept'
    <2>0. SUFFICES ASSUME ok PROVE MemoryTables' /\ Writer' /\ FilesAgree' /\ Memory!AcknowledgedIsKept'
        OBVIOUS
    <2>1. MemoryTables'
        BY <1>a, <2>0, MemoryBounds, SMTT(30) DEF MemoryInv, MemoryShapes, MemoryTables
    <2>a. /\ tx' = p /\ saved' = rows /\ rows' = [rows EXCEPT ![id[p]] = text[p]]
          /\ memoryAt' = [memoryAt EXCEPT ![p] = "writing"] /\ UNCHANGED <<id, text>>
        BY <2>0
    <2>2. Writer'
        <3>1. \A q \in Memory!Procs : memoryAt'[q] \in {"writing", "committing"} <=> tx' = q
            BY <1>a, <2>0, <2>a, MemoryBounds DEF MemoryInv, MemoryShapes, Writer, MemoryProcs
        <3> QED
            BY <2>a, <3>1 DEF Writer
    <2>4. FilesAgree'
        BY <1>a, <2>0, MemoryBounds DEF MemoryInv, MemoryShapes, FilesAgree, Writer, MemoryProcs
    <2>3. Memory!AcknowledgedIsKept'
        BY <1>a, <2>0, MemoryBounds DEF MemoryInv, Memory!AcknowledgedIsKept, Memory!Committed
    <2> QED
        BY <2>1, <2>2, <2>3, <2>4
<1>c. ~ok => MemoryTables' /\ Writer' /\ FilesAgree' /\ Memory!AcknowledgedIsKept'
    <2>0. SUFFICES ASSUME ~ok PROVE MemoryTables' /\ Writer' /\ FilesAgree' /\ Memory!AcknowledgedIsKept'
        OBVIOUS
    <2>1. UNCHANGED <<rows, tx, saved>>
        BY <2>0
    <2>2. memoryAt' = [memoryAt EXCEPT ![p] = IF p = Ingester THEN "idle" ELSE "failed"]
        BY <2>0
    <2> HIDE DEF ok
    <2>3. MemoryTables'
        BY <2>1, MemoryBounds DEF MemoryInv, MemoryShapes, MemoryTables
    <2>4. Writer' /\ FilesAgree'
        BY <1>a, <2>1, <2>2, MemoryBounds DEF MemoryInv, MemoryShapes, Writer, FilesAgree, MemoryProcs
    <2>5. Memory!AcknowledgedIsKept'
        BY <2>1 DEF MemoryInv, Memory!AcknowledgedIsKept, Memory!Committed
    <2> QED
        BY <2>3, <2>4, <2>5
<1>1. MemoryTables'
    BY <1>b, <1>c
<1>2. MemoryProcs'
    BY MemoryBounds, ZenonT(60) DEF MemoryInv, MemoryShapes, MemoryProcs, MemoryTables, MayWrite
<1>3. MemoryRest'
    BY MemoryBounds DEF MemoryInv, MemoryShapes, MemoryRest, MemoryTables, MayWrite
<1>4. MayWrite'
    BY MemoryBounds DEF MemoryInv, MemoryShapes, MayWrite, MemoryTables, MemoryProcs
<1>5. Writer'
    BY <1>b, <1>c
<1>6. FilesAgree'
    BY <1>b, <1>c
<1>7. Memory!AcknowledgedIsKept'
    BY <1>b, <1>c
<1> QED
    BY <1>1, <1>2, <1>3, <1>4, <1>5, <1>6, <1>7, Zenon DEF MemoryInv, MemoryShapes

LEMMA MemoryFileSettles == ASSUME MemoryInv, NEW p \in Memory!Procs, Memory!FileSettles(p) PROVE MemoryInv'
<1> USE DEF Memory!FileSettles
<1>a. id[p] \in Memory!Ids /\ text[p] \in Memory!Texts \cup {NoText} /\ memoryAt[p] = "writing" /\ tx = p
    BY MemoryBounds DEF MemoryInv, MemoryShapes, MemoryProcs, MayWrite, Writer
<1>b. ASSUME files' = [files EXCEPT ![id[p]] = text[p]] /\ Memory!Goes(p, "committing") /\ UNCHANGED Memory!db
      PROVE  MemoryTables' /\ Writer' /\ FilesAgree' /\ Memory!AcknowledgedIsKept'
    <2>1. MemoryTables'
        BY <1>a, <1>b, MemoryBounds DEF MemoryInv, MemoryShapes, MemoryTables
    <2>2. Writer' /\ FilesAgree'
        BY <1>a, <1>b, MemoryBounds DEF MemoryInv, MemoryShapes, Writer, FilesAgree, MemoryTables,
           MemoryProcs
    <2>3. Memory!AcknowledgedIsKept'
        BY <1>b DEF MemoryInv, Memory!AcknowledgedIsKept, Memory!Committed
    <2> QED
        BY <2>1, <2>2, <2>3
<1>c. ASSUME Memory!Rollback /\ Memory!Ended(p, "failed") /\ UNCHANGED files
      PROVE  MemoryTables' /\ Writer' /\ FilesAgree' /\ Memory!AcknowledgedIsKept'
    <2>1. MemoryTables'
        BY <1>c, MemoryBounds DEF MemoryInv, MemoryShapes, MemoryTables
    <2>2. Writer' /\ FilesAgree'
        BY <1>a, <1>c, MemoryBounds DEF MemoryInv, MemoryShapes, Writer, FilesAgree, MemoryTables,
           MemoryProcs
    <2>3. Memory!AcknowledgedIsKept'
        BY <1>a, <1>c, MemoryBounds DEF MemoryInv, Memory!AcknowledgedIsKept, Memory!Committed
    <2> QED
        BY <2>1, <2>2, <2>3
<1>1. MemoryTables'
    BY <1>b, <1>c
<1>2. MemoryProcs'
    BY MemoryBounds DEF MemoryInv, MemoryShapes, MemoryProcs, MemoryTables, MayWrite
<1>3. MemoryRest'
    BY MemoryBounds DEF MemoryInv, MemoryShapes, MemoryRest, MemoryTables, MayWrite
<1>4. MayWrite'
    BY MemoryBounds DEF MemoryInv, MemoryShapes, MayWrite, MemoryTables, MemoryProcs
<1>5. Writer'
    BY <1>b, <1>c
<1>6. FilesAgree'
    BY <1>b, <1>c
<1>7. Memory!AcknowledgedIsKept'
    BY <1>b, <1>c
<1> QED
    BY <1>1, <1>2, <1>3, <1>4, <1>5, <1>6, <1>7, Zenon DEF MemoryInv, MemoryShapes

LEMMA MemoryCommit == ASSUME MemoryInv, NEW p \in Memory!Procs, Memory!Commit(p) PROVE MemoryInv'
<1> USE DEF Memory!Commit
<1>a. id[p] \in Memory!Ids /\ text[p] \in Memory!Texts \cup {NoText} /\ memoryAt[p] = "committing" /\ tx = p
    BY MemoryBounds DEF MemoryInv, MemoryShapes, MemoryProcs, MayWrite, Writer
<1>b. \E place \in {"idle", "noting", "done"} : memoryAt' = [memoryAt EXCEPT ![p] = place]
    BY MemoryBounds
<1>1. MemoryTables'
    BY MemoryBounds DEF MemoryInv, MemoryShapes, MemoryTables, MemoryProcs
<1>2. MemoryProcs'
    BY MemoryBounds, ZenonT(60) DEF MemoryInv, MemoryShapes, MemoryProcs, MemoryTables, MayWrite
<1>3. MemoryRest'
    <2>1. saved[id[p]] \in Memory!Texts \cup {NoText}
        BY <1>a DEF MemoryInv, MemoryShapes, MemoryTables
    <2>2. kept' \subseteq Memory!Ids
        BY <1>a DEF MemoryInv, MemoryShapes, MemoryRest
    <2>3. forgotten' \subseteq Memory!Texts
        BY <2>1 DEF MemoryInv, MemoryShapes, MemoryRest
    <2> QED
        BY <2>2, <2>3, Zenon DEF MemoryInv, MemoryShapes, MemoryRest
<1>4. MayWrite'
    BY MemoryBounds DEF MemoryInv, MemoryShapes, MayWrite, MemoryTables, MemoryProcs
<1>5. Writer'
    BY <1>a, <1>b, MemoryBounds DEF MemoryInv, MemoryShapes, Writer, MemoryProcs
<1>6. FilesAgree'
    BY MemoryBounds DEF MemoryInv, MemoryShapes, FilesAgree, MemoryTables, MemoryProcs, MayWrite
<1>7. Memory!AcknowledgedIsKept'
    <2>1. Memory!Committed = saved /\ Memory!Committed' = rows
        BY <1>a, MemoryBounds DEF Memory!Committed
    <2>2. rows = [saved EXCEPT ![id[p]] = text[p]] /\ saved \in [Memory!Ids -> Memory!Texts \cup {NoText}]
        BY <1>a, MemoryBounds DEF MemoryInv, MemoryShapes, Writer, MemoryTables
    <2>3. /\ kind[p] = "delete" => p \in MemoryCalls
          /\ kind[p] # "delete" => text[p] # NoText
        BY <1>a, MemoryBounds DEF MemoryInv, MayWrite, Memory!Procs
    <2> QED
        BY <1>a, <2>1, <2>2, <2>3 DEF MemoryInv, MemoryShapes, MemoryRest, Memory!AcknowledgedIsKept
<1> QED
    BY <1>1, <1>2, <1>3, <1>4, <1>5, <1>6, <1>7, Zenon DEF MemoryInv, MemoryShapes

LEMMA MemoryCommitFails == ASSUME MemoryInv, NEW p \in Memory!Procs, Memory!CommitFails(p) PROVE MemoryInv'
<1> USE DEF Memory!CommitFails
<1>a. memoryAt[p] = "committing" /\ tx = p
    BY MemoryBounds DEF MemoryInv, Writer
<1>1. MemoryTables'
    BY MemoryBounds DEF MemoryInv, MemoryShapes, MemoryTables, MemoryProcs
<1>2. MemoryProcs'
    BY MemoryBounds DEF MemoryInv, MemoryShapes, MemoryProcs, MemoryTables, MayWrite
<1>3. MemoryRest'
    BY MemoryBounds DEF MemoryInv, MemoryShapes, MemoryRest, MemoryTables, MayWrite
<1>4. MayWrite'
    BY MemoryBounds DEF MemoryInv, MemoryShapes, MayWrite, MemoryTables, MemoryProcs
<1>5. Writer'
    BY MemoryBounds DEF MemoryInv, MemoryShapes, Writer, MemoryTables, MemoryProcs, MayWrite
<1>6. FilesAgree'
    BY MemoryBounds DEF MemoryInv, MemoryShapes, FilesAgree, MemoryTables, MemoryProcs, MayWrite
<1>7. Memory!AcknowledgedIsKept'
    BY <1>a, MemoryBounds DEF MemoryInv, Memory!AcknowledgedIsKept, Memory!Committed
<1> QED
    BY <1>1, <1>2, <1>3, <1>4, <1>5, <1>6, <1>7, Zenon DEF MemoryInv, MemoryShapes

LEMMA MemoryWriteNote == ASSUME MemoryInv, NEW c \in MemoryCalls, Memory!WriteNote(c) PROVE MemoryInv'
<1> USE DEF Memory!WriteNote
<1>1. MemoryProcs'
    BY MemoryBounds DEF MemoryInv, MemoryShapes, MemoryProcs, MemoryTables, MayWrite
<1>2. MayWrite'
    BY MemoryBounds DEF MemoryInv, MemoryShapes, MayWrite, MemoryTables, MemoryProcs
<1>3. /\ notes' \in [Memory!Ids -> Memory!Texts \cup {NoText, Torn}]
      /\ sync' \in {"off", "scanning", "watching"} /\ toScan' \subseteq Memory!Ids /\ due' \subseteq Memory!Ids
    <2>1. id[c] \in Memory!Ids
        BY MemoryBounds DEF MemoryInv, MemoryShapes, MemoryProcs, MayWrite
    <2>2. due' \subseteq Memory!Ids
        BY <2>1 DEF MemoryInv, MemoryShapes, MemoryRest
    <2>3. notes' \in [Memory!Ids -> Memory!Texts \cup {NoText, Torn}]
        BY <2>1, MemoryBounds DEF MemoryInv, MemoryShapes, MemoryTables, MemoryProcs, Memory!Texts
    <2> QED
        BY <2>2, <2>3, Zenon DEF MemoryInv, MemoryShapes, MemoryRest
<1>4. /\ \A q \in Memory!Procs \ {c} : /\ memoryAt'[q] = memoryAt[q] /\ kind'[q] = kind[q]
                                             /\ id'[q] = id[q] /\ text'[q] = text[q]
      /\ c \in Memory!Procs /\ {memoryAt[c], memoryAt'[c]} \cap {"writing", "committing"} = {}
      /\ UNCHANGED <<rows, tx, saved, files, kept, forgotten, memoryCrashes, troubled>>
    BY MemoryBounds DEF MemoryInv, MemoryShapes, MemoryProcs
<1>5. c \in MemoryCalls /\ kind[c] = "delete" => kind'[c] = "delete" /\ id'[c] = id[c]
    BY MemoryBounds DEF MemoryInv, MemoryShapes, MemoryProcs, MayWrite
<1> QED
    BY <1>1, <1>2, <1>3, <1>4, <1>5, MemoryMoves

LEMMA MemoryEditNote == ASSUME MemoryInv, NEW i \in Memory!Ids, Memory!EditNote(i) PROVE MemoryInv'
BY MemoryNotes, MemoryBounds DEF Memory!EditNote, MemoryInv, MemoryShapes, MemoryTables, MemoryRest,
   Memory!Texts

LEMMA MemoryStartSync == ASSUME MemoryInv, Memory!StartSync PROVE MemoryInv'
BY MemoryNotes, MemoryBounds DEF Memory!StartSync, MemoryInv, MemoryShapes, MemoryTables,
   MemoryRest, Memory!Texts

LEMMA MemoryScanNext == ASSUME MemoryInv, NEW i \in Memory!Ids, Memory!ScanNext(i) PROVE MemoryInv'
<1> USE DEF Memory!ScanNext
<1>1. MemoryProcs'
    BY MemoryBounds DEF MemoryInv, MemoryShapes, MemoryProcs, MemoryTables, MayWrite
<1>2. MayWrite'
    BY MemoryBounds DEF MemoryInv, MemoryShapes, MayWrite, MemoryTables, MemoryProcs
<1>3. /\ notes' \in [Memory!Ids -> Memory!Texts \cup {NoText, Torn}]
      /\ sync' \in {"off", "scanning", "watching"} /\ toScan' \subseteq Memory!Ids /\ due' \subseteq Memory!Ids
    BY MemoryBounds DEF MemoryInv, MemoryShapes, MemoryTables, MemoryProcs, MemoryRest, MayWrite
<1>4. /\ \A q \in Memory!Procs \ {Ingester} : /\ memoryAt'[q] = memoryAt[q] /\ kind'[q] = kind[q]
                                             /\ id'[q] = id[q] /\ text'[q] = text[q]
      /\ Ingester \in Memory!Procs /\ {memoryAt[Ingester], memoryAt'[Ingester]} \cap {"writing", "committing"} = {}
      /\ UNCHANGED <<rows, tx, saved, files, kept, forgotten, memoryCrashes, troubled>>
    BY MemoryBounds DEF MemoryInv, MemoryShapes, MemoryProcs
<1>5. Ingester \in MemoryCalls /\ kind[Ingester] = "delete" => kind'[Ingester] = "delete" /\ id'[Ingester] = id[Ingester]
    BY MemoryBounds DEF MemoryInv, MemoryShapes, MemoryProcs, MayWrite
<1> QED
    BY <1>1, <1>2, <1>3, <1>4, <1>5, MemoryMoves

LEMMA MemoryStartWatching == ASSUME MemoryInv, Memory!StartWatching PROVE MemoryInv'
BY MemoryNotes, MemoryBounds DEF Memory!StartWatching, MemoryInv, MemoryShapes, MemoryTables,
   MemoryRest, Memory!Texts

LEMMA MemoryStopSync == ASSUME MemoryInv, Memory!StopSync PROVE MemoryInv'
BY MemoryNotes, MemoryBounds DEF Memory!StopSync, MemoryInv, MemoryShapes, MemoryTables, MemoryRest,
   Memory!Texts

LEMMA MemoryTimer == ASSUME MemoryInv, NEW i \in Memory!Ids, Memory!Timer(i) PROVE MemoryInv'
<1> USE DEF Memory!Timer
<1>1. MemoryProcs'
    BY MemoryBounds DEF MemoryInv, MemoryShapes, MemoryProcs, MemoryTables, MayWrite
<1>2. MayWrite'
    BY MemoryBounds DEF MemoryInv, MemoryShapes, MayWrite, MemoryTables, MemoryProcs
<1>3. /\ notes' \in [Memory!Ids -> Memory!Texts \cup {NoText, Torn}]
      /\ sync' \in {"off", "scanning", "watching"} /\ toScan' \subseteq Memory!Ids /\ due' \subseteq Memory!Ids
    BY MemoryBounds DEF MemoryInv, MemoryShapes, MemoryTables, MemoryProcs, MemoryRest, MayWrite
<1>4. /\ \A q \in Memory!Procs \ {Ingester} : /\ memoryAt'[q] = memoryAt[q] /\ kind'[q] = kind[q]
                                             /\ id'[q] = id[q] /\ text'[q] = text[q]
      /\ Ingester \in Memory!Procs /\ {memoryAt[Ingester], memoryAt'[Ingester]} \cap {"writing", "committing"} = {}
      /\ UNCHANGED <<rows, tx, saved, files, kept, forgotten, memoryCrashes, troubled>>
    BY MemoryBounds DEF MemoryInv, MemoryShapes, MemoryProcs
<1>5. Ingester \in MemoryCalls /\ kind[Ingester] = "delete" => kind'[Ingester] = "delete" /\ id'[Ingester] = id[Ingester]
    BY MemoryBounds DEF MemoryInv, MemoryShapes, MemoryProcs, MayWrite
<1> QED
    BY <1>1, <1>2, <1>3, <1>4, <1>5, MemoryMoves

LEMMA MemoryReadNote == ASSUME MemoryInv, Memory!ReadNote PROVE MemoryInv'
<1> USE DEF Memory!ReadNote
<1>1. MemoryProcs'
    <2>1. Ingester \in Memory!Procs /\ notes \in [Memory!Ids -> Memory!Texts \cup {NoText, Torn}] /\ id[Ingester] \in Memory!Ids
        BY MemoryBounds DEF MemoryInv, MemoryShapes, MemoryTables, MemoryProcs, MayWrite
    <2>2. \E place \in {"idle", "looking"} : memoryAt' = [memoryAt EXCEPT ![Ingester] = place]
        BY <2>1
    <2>3. text' \in [Memory!Procs -> Memory!Texts \cup {NoText}]
        BY <2>1 DEF MemoryInv, MemoryShapes, MemoryProcs
    <2> QED
        BY <2>1, <2>2, <2>3 DEF MemoryInv, MemoryShapes, MemoryProcs
<1>2. MayWrite'
    BY MemoryBounds DEF MemoryInv, MemoryShapes, MayWrite, MemoryTables, MemoryProcs
<1>3. /\ notes' \in [Memory!Ids -> Memory!Texts \cup {NoText, Torn}]
      /\ sync' \in {"off", "scanning", "watching"} /\ toScan' \subseteq Memory!Ids /\ due' \subseteq Memory!Ids
    <2>1. id[Ingester] \in Memory!Ids
        BY MemoryBounds DEF MemoryInv, MemoryShapes, MemoryProcs, MayWrite
    <2>2. due' \subseteq Memory!Ids
        BY <2>1 DEF MemoryInv, MemoryShapes, MemoryRest
    <2>3. notes' \in [Memory!Ids -> Memory!Texts \cup {NoText, Torn}]
        BY <2>1 DEF MemoryInv, MemoryShapes, MemoryTables
    <2> QED
        BY <2>2, <2>3, Zenon DEF MemoryInv, MemoryShapes, MemoryRest
<1>4. /\ \A q \in Memory!Procs \ {Ingester} : /\ memoryAt'[q] = memoryAt[q] /\ kind'[q] = kind[q]
                                             /\ id'[q] = id[q] /\ text'[q] = text[q]
      /\ Ingester \in Memory!Procs /\ {memoryAt[Ingester], memoryAt'[Ingester]} \cap {"writing", "committing"} = {}
      /\ UNCHANGED <<rows, tx, saved, files, kept, forgotten, memoryCrashes, troubled>>
    BY MemoryBounds DEF MemoryInv, MemoryShapes, MemoryProcs
<1>5. Ingester \in MemoryCalls /\ kind[Ingester] = "delete" => kind'[Ingester] = "delete" /\ id'[Ingester] = id[Ingester]
    BY MemoryBounds DEF MemoryInv, MemoryShapes, MemoryProcs, MayWrite
<1> QED
    BY <1>1, <1>2, <1>3, <1>4, <1>5, MemoryMoves

LEMMA MemoryLookUp == ASSUME MemoryInv, Memory!LookUp PROVE MemoryInv'
<1> USE DEF Memory!LookUp
<1>a. id[Ingester] \in Memory!Ids /\ text[Ingester] \in Memory!Texts /\ Ingester \in Memory!Procs
    BY MemoryBounds DEF MemoryInv, MemoryShapes, MemoryProcs, MayWrite
<1>b. nextId' \in 1..(MaxIds + 1) /\ nextId \in Int
    BY MemoryBounds DEF MemoryInv, MemoryShapes, MemoryProcs
\* The Ingester has what it wants to write, or stops.
<1>c. \/ /\ memoryAt' = [memoryAt EXCEPT ![Ingester] = "idle"]
         /\ UNCHANGED <<kind, id, text>>
      \/ \E k \in {"create", "update"}, i \in Memory!Ids :
            /\ memoryAt' = [memoryAt EXCEPT ![Ingester] = "preparing"]
            /\ kind' = [kind EXCEPT ![Ingester] = k]
            /\ id' = [id EXCEPT ![Ingester] = i]
            /\ text' = [text EXCEPT ![Ingester] = text[Ingester]]
    <2>1. CASE rows[id[Ingester]] = text[Ingester] /\ Memory!Goes(Ingester, "idle") /\ UNCHANGED <<kind, id, text, nextId>>
        BY <2>1
    <2>2. CASE Memory!Creates(Ingester, text[Ingester])
        <3>1. nextId \in Memory!Ids
            BY <2>2, MemoryBounds DEF MemoryInv, MemoryShapes, MemoryProcs
        <3> QED
            BY <2>2, <3>1
    <2>3. CASE Memory!Updates(Ingester, id[Ingester], text[Ingester])
        BY <1>a, <2>3
    <2> QED
        BY <2>1, <2>2, <2>3
<1>d. UNCHANGED <<rows, tx, saved, files, notes, sync, toScan, due, kept, forgotten, memoryCrashes, troubled>>
    OBVIOUS
<1>e. memoryAt[Ingester] = "looking"
    OBVIOUS
<1>f. Ingester \notin MemoryCalls /\ 0 \notin Memory!Ids /\ Memory!Ids \subseteq 0..MaxIds /\ NoText \notin Memory!Texts /\ MemoryCalls \subseteq Memory!Procs
    BY MemoryBounds
<1> HIDE DEF Memory!LookUp, Memory!Creates, Memory!Updates, Memory!Prepares, Memory!Goes
<1>1. MemoryProcs'
    BY <1>a, <1>b, <1>c, <1>f DEF MemoryInv, MemoryShapes, MemoryProcs
<1>2. MayWrite'
    BY <1>a, <1>c, <1>e, <1>f DEF MemoryInv, MemoryShapes, MayWrite, MemoryProcs
<1>4. /\ \A q \in Memory!Procs \ {Ingester} : /\ memoryAt'[q] = memoryAt[q] /\ kind'[q] = kind[q]
                                             /\ id'[q] = id[q] /\ text'[q] = text[q]
      /\ {memoryAt[Ingester], memoryAt'[Ingester]} \cap {"writing", "committing"} = {}
    BY <1>a, <1>c, <1>e DEF MemoryInv, MemoryShapes, MemoryProcs
<1>5. /\ notes' \in [Memory!Ids -> Memory!Texts \cup {NoText, Torn}]
      /\ sync' \in {"off", "scanning", "watching"} /\ toScan' \subseteq Memory!Ids /\ due' \subseteq Memory!Ids
    BY <1>d DEF MemoryInv, MemoryShapes, MemoryTables, MemoryRest
<1> QED
    BY <1>1, <1>2, <1>4, <1>5, <1>a, <1>d, <1>f, MemoryMoves

LEMMA MemoryCrash == ASSUME MemoryInv, Memory!Crash PROVE MemoryInv'
<1> USE DEF Memory!Crash
<1>1. MemoryTables'
    <2>1. PICK lost \in SUBSET {id[p] : p \in {q \in MemoryCalls : memoryAt[q] = "noting"}} :
              notes' = [i \in Memory!Ids |-> IF i \in lost THEN Torn ELSE notes[i]]
        OBVIOUS
    <2>2. notes' \in [Memory!Ids -> Memory!Texts \cup {NoText, Torn}]
        BY <2>1 DEF MemoryInv, MemoryShapes, MemoryTables
    <2> QED
        BY <2>2 DEF MemoryInv, MemoryShapes, MemoryTables, Memory!Committed
<1>2. MemoryProcs'
    BY MemoryBounds DEF MemoryInv, MemoryShapes, MemoryProcs, MemoryTables, MayWrite
<1>3. MemoryRest'
    BY MemoryBounds DEF MemoryInv, MemoryShapes, MemoryRest, MemoryTables, MayWrite
<1>4. MayWrite'
    BY MemoryBounds DEF MemoryInv, MemoryShapes, MayWrite, MemoryTables, MemoryProcs
<1>5. Writer'
    BY MemoryBounds DEF MemoryInv, MemoryShapes, Writer, MemoryTables, MemoryProcs, MayWrite
<1>6. FilesAgree'
    <2>1. CASE tx = NoProc
        BY <2>1 DEF MemoryInv, FilesAgree, Memory!Committed
    <2>2. CASE tx # NoProc
        <3>1. tx \in Memory!Procs /\ memoryAt[tx] \in {"writing", "committing"}
            BY <2>2 DEF MemoryInv, MemoryShapes, MemoryTables, Writer
        <3>2. ~troubled' => ~troubled /\ memoryAt[tx] = "writing"
            BY <3>1
        <3> QED
            BY <2>2, <3>1, <3>2, MemoryBounds DEF MemoryInv, FilesAgree, Memory!Committed
    <2> QED
        BY <2>1, <2>2
<1>7. Memory!AcknowledgedIsKept'
    BY MemoryBounds DEF MemoryInv, MemoryShapes, Memory!AcknowledgedIsKept, MemoryTables,
       MemoryProcs, Memory!Committed, MayWrite
<1> QED
    BY <1>1, <1>2, <1>3, <1>4, <1>5, <1>6, <1>7, Zenon DEF MemoryInv, MemoryShapes

LEMMA MemoryInitInv == Memory!Init => MemoryInv
<1> SUFFICES ASSUME Memory!Init PROVE MemoryInv
    OBVIOUS
<1> USE MemoryBounds DEF Memory!Init
<1>1. MemoryTables
    BY DEF MemoryTables, Memory!Texts
<1>2. MemoryProcs
    BY DEF MemoryProcs
<1>3. MemoryRest
    <2>1. kept \subseteq Memory!Ids /\ memoryCrashes \in 0..MaxMemoryCrashes
        OBVIOUS
    <2> QED
        BY <2>1, Zenon DEF MemoryRest
<1>4. MayWrite /\ Writer /\ FilesAgree
    BY DEF MayWrite, Writer, FilesAgree
<1>5. Memory!AcknowledgedIsKept
    <2>1. First # NoText
        BY DEF Memory!Texts
    <2>2. 1 \in Memory!Ids /\ tx = NoProc /\ rows[1] = First /\ kept = {1}
        OBVIOUS
    <2> QED
        BY <2>1, <2>2, Zenon DEF Memory!AcknowledgedIsKept, Memory!Committed
<1> QED
    BY <1>1, <1>2, <1>3, <1>4, <1>5 DEF MemoryInv, MemoryShapes

LEMMA MemoryNextInv == MemoryInv /\ [Memory!Next]_memoryVars => MemoryInv'
<1> SUFFICES ASSUME MemoryInv, [Memory!Next]_memoryVars PROVE MemoryInv'
    OBVIOUS
<1>1. CASE \E c \in MemoryCalls : Memory!Remember(c) \/ Memory!WriteNote(c) \/ \E i \in Memory!Ids : Memory!Update(c, i) \/ Memory!Forget(c, i)
    BY <1>1, MemoryRemember, MemoryWriteNote, MemoryUpdate, MemoryForget
<1>2. CASE \E p \in Memory!Procs : Memory!Step(p)
    BY <1>2, MemoryBegin, MemoryFileSettles, MemoryCommit, MemoryCommitFails DEF Memory!Step
<1>3. CASE \E i \in Memory!Ids : Memory!EditNote(i) \/ Memory!ScanNext(i) \/ Memory!Timer(i)
    BY <1>3, MemoryEditNote, MemoryScanNext, MemoryTimer
<1>4. CASE Memory!StartSync \/ Memory!StartWatching \/ Memory!StopSync \/ Memory!ReadNote \/ Memory!LookUp \/ Memory!Crash
    BY <1>4, MemoryStartSync, MemoryStartWatching, MemoryStopSync, MemoryReadNote, MemoryLookUp,
       MemoryCrash
<1>5. CASE UNCHANGED memoryVars
    BY <1>5 DEF memoryVars, MemoryInv, MemoryShapes, MemoryTables, MemoryProcs, MemoryRest,
       MayWrite, Writer, FilesAgree,
       Memory!AcknowledgedIsKept, Memory!Committed
<1> QED
    BY <1>1, <1>2, <1>3, <1>4, <1>5 DEF Memory!Next

LEMMA MemoryInvKeeps == MemoryInv => Memory!TypeOK /\ Memory!AcknowledgedIsKept /\ Memory!FilesMatchRows
<1>1. MemoryInv => Memory!TypeOK
    BY Zenon DEF MemoryInv, MemoryShapes, MemoryTables, MemoryProcs, MemoryRest, Memory!TypeOK
<1>2. MemoryInv => Memory!FilesMatchRows
    BY DEF MemoryInv, FilesAgree, Memory!FilesMatchRows
<1> QED
    BY <1>1, <1>2 DEF MemoryInv

HIDE DEF Memory!db, Memory!disk, Memory!procs, Memory!watching, Memory!Goes, Memory!Ended,
    Memory!Prepares, Memory!Creates, Memory!Updates, Memory!Rollback, Memory!Noticed

-----------------------------------------------------------------------------
(* EnvironmentRuntime: unless switches overlapped, one fiber at most stops  *)
(* and starts what runs for an environment, and the three fields of the     *)
(* daemon say what that is; and, unless renewals overlapped, one at most    *)
(* holds a prompt, so that a stale one is followed by another renewal.      *)

Rebinders == EnvCalls \cup {Main}
EnvFibers == EnvCalls \cup {Main, Reload}
Tracked(e) == IF e = NoEnv THEN Environment!None ELSE Environment!Only(e)

EnvTypes ==
    /\ config \in Envs \cup {Torn} /\ prose \in [Envs -> Nat] /\ \A e \in Envs : prose[e] <= edits
    /\ goal \in [EnvFibers -> Envs]
    /\ {syncs, writers, summaries, watching, timers} \subseteq [Envs -> Nat]
    /\ fileSync \in Envs \cup {NoEnv} /\ watcher \in Envs \cup {NoEnv}
    /\ switches \in 0..MaxSwitches /\ edits \in 0..MaxEdits
    /\ faultsMet \in 0..MaxFaults /\ lives \in 0..MaxStarts
EnvPrompts == prompt \in Envs \X (0..MaxEdits) /\ held \in [EnvFibers -> Envs \X (0..MaxEdits)]
EnvFlags == met \in BOOLEAN /\ failed \in BOOLEAN /\ unseen \in BOOLEAN /\ crossed \in BOOLEAN
EnvPlaces ==
    /\ life \in {"down", "starting", "up", "stopped"}
    /\ envAt \in [EnvFibers -> {"idle", "current", "list", "write", "written", "resolve", "sync",
                                "summary", "load", "name", "docs", "put"}]
    /\ envAt[Main] \in {"idle", "sync", "summary"} /\ (envAt[Main] # "idle" <=> life = "starting")
    /\ envAt[Reload] \in {"idle", "load", "name", "docs", "put"}
    /\ life \in {"down", "starting"} =>
         /\ \A f \in EnvCalls \cup {Reload} : envAt[f] = "idle"
         /\ ~met /\ timers = Environment!None
    /\ life = "starting" => unseen

\* What is to be stopped next runs, and a timer is of a watcher that runs.
EnvCounts ==
    /\ fileSync # NoEnv => syncs[fileSync] > 0
    /\ watcher # NoEnv => watching[watcher] > 0
    /\ \A e \in Envs : timers[e] <= watching[e]

EnvTracked ==
    ~met =>
        /\ \A c, d \in Rebinders : envAt[c] # "idle" /\ envAt[d] # "idle" => c = d
        /\ syncs = Tracked(fileSync) /\ writers = Tracked(fileSync) /\ watching = Tracked(watcher)
        /\ summaries \in {Environment!None} \cup {Environment!Only(e) : e \in Envs}
        /\ \A c \in Rebinders :
             /\ envAt[c] = "sync" => fileSync = NoEnv
             /\ envAt[c] \in {"sync", "summary"} => watcher = NoEnv /\ summaries = Environment!None
        /\ life \in {"down", "stopped"} =>
             /\ fileSync = NoEnv /\ watcher = NoEnv /\ summaries = Environment!None
             /\ \A c \in Rebinders : envAt[c] = "idle"

\* Calls whose switch has begun to change the file.
Changing == {c \in Rebinders : envAt[c] \in {"written", "resolve", "sync", "summary"}}
EnvAimed ==
    ~met =>
        /\ \A c \in Rebinders :
             /\ envAt[c] = "written" => config = Torn
             /\ envAt[c] \in {"resolve", "sync", "summary"} => config = goal[c]
             /\ envAt[c] = "summary" /\ ~failed => fileSync = goal[c]
        /\ ~failed /\ life = "up" /\ Changing = {} =>
             /\ config \in Envs /\ fileSync = config /\ watcher = config
             /\ summaries = Environment!Only(config)

\* A renewal that has still to read the name and the text, or will be asked for.
Again == Changing # {} \/ \E f \in EnvFibers : envAt[f] = "load"
Waited == config \in Envs /\ timers[config] > 0
Late == {f \in EnvFibers : envAt[f] \in {"name", "docs", "put"}}
EnvAlone ==
    ~crossed => /\ \A f, g \in Late : f = g
                /\ \A f \in Late : envAt[f] \in {"name", "docs"} => held[f] = prompt
Renewed ==
    /\ \A f \in Late : envAt[f] = "docs" => goal[f] = config
    /\ ~unseen /\ ~Waited => /\ \A f \in Late : envAt[f] = "put" => held[f] = Environment!Current
                             /\ Late = {} => prompt = Environment!Current
EnvFresh == life = "up" /\ ~met /\ ~failed /\ ~crossed /\ ~Again => Renewed

EnvShapes == EnvTypes /\ EnvPrompts /\ EnvFlags /\ EnvPlaces
EnvInv == EnvShapes /\ EnvCounts /\ EnvTracked /\ EnvAimed /\ EnvAlone /\ EnvFresh

LEMMA EnvBounds ==
    /\ First \in Envs /\ NoEnv \notin Envs /\ Torn \notin Envs
    /\ Main \notin EnvCalls /\ Reload \notin EnvCalls /\ Main # Reload
    /\ Rebinders = EnvCalls \cup {Main} /\ EnvFibers = EnvCalls \cup {Main, Reload}
    /\ MaxSwitches \in Nat /\ MaxEdits \in Nat /\ MaxFaults \in Nat /\ MaxStarts \in Nat
BY StoresLimits DEF Environment!EnvironmentBounds, Rebinders, EnvFibers

USE DEF Environment!running, Environment!fibers, Environment!counters, Environment!history,
        Environment!Fibers, Environment!Goes, Environment!Aims, Environment!Leaves, Environment!Fault

LEMMA EnvFree ==
    /\ Environment!Rebinding = {} <=> \A c \in Rebinders : envAt[c] = "idle"
    /\ Environment!Rebinding \subseteq Environment!Renewing <=>
          \A c \in Rebinders : envAt[c] \in {"idle", "load", "name", "docs", "put"}
    /\ \A f \in EnvFibers : Environment!Renewing = {f} => /\ envAt[f] \in {"load", "name", "docs", "put"}
          /\ \A g \in EnvFibers : g # f => envAt[g] \notin {"load", "name", "docs", "put"}
BY EnvBounds DEF Environment!Rebinding, Environment!Renewing

LEMMA EnvOnly ==
    /\ Environment!None \in [Envs -> Nat]
    /\ \A e \in Envs : /\ Environment!Only(e) \in [Envs -> Nat]
                       /\ Environment!More(Environment!None, e) = Environment!Only(e)
                       /\ [Environment!Only(e) EXCEPT ![e] = @ - 1] = Environment!None
                       /\ Environment!None[e] = 0 /\ Environment!Only(e)[e] = 1
BY DEF Environment!None, Environment!Only, Environment!More

LEMMA EnvTypesStep == ASSUME EnvTypes, EnvPlaces, EnvCounts, Environment!Next PROVE EnvTypes'
<1>1. CASE \E c \in EnvCalls : Environment!Reads(c) \/ Environment!NotRead(c)
    BY <1>1, EnvBounds DEF EnvTypes, EnvCounts, EnvPlaces, Environment!None, Environment!Reads,
       Environment!NotRead
<1>2. CASE \E e \in Envs, c \in EnvCalls : Environment!Switch(c, e)
    BY <1>2, EnvBounds DEF EnvTypes, EnvCounts, EnvPlaces, Environment!None, Environment!Switch
<1>3. CASE \E c \in EnvCalls : Environment!Write(c) \/ Environment!Written(c)
    BY <1>3, EnvBounds DEF EnvTypes, EnvCounts, EnvPlaces, Environment!None, Environment!Write,
       Environment!Written
<1>4. CASE \E c \in EnvCalls : Environment!NotResolved(c)
    BY <1>4, EnvBounds DEF EnvTypes, EnvCounts, EnvPlaces, Environment!None, Environment!NotResolved
<1>5. CASE \E c \in EnvCalls : Environment!Rebind(c)
    BY <1>5, EnvBounds DEF EnvTypes, EnvCounts, EnvPlaces, Environment!None, Environment!Rebind,
       Environment!Stops
<1>6. CASE \E c \in Rebinders : Environment!Synced(c) \/ Environment!NotSynced(c)
    BY <1>6, EnvBounds DEF EnvTypes, EnvCounts, EnvPlaces, Environment!None, Environment!Synced,
       Environment!NotSynced, Environment!More
<1>7. CASE \E c \in Rebinders : Environment!Bound(c)
    BY <1>7, EnvBounds DEF EnvTypes, EnvCounts, EnvPlaces, Environment!None, Environment!Bound,
       Environment!More
<1>8. CASE \E e \in Envs : Environment!Edit(e)
    BY <1>8, EnvBounds DEF EnvTypes, EnvCounts, EnvPlaces, Environment!None, Environment!Edit,
       Environment!More
<1>9. CASE \E e \in Envs : Environment!Fire(e)
    BY <1>9, EnvBounds DEF EnvTypes, EnvCounts, EnvPlaces, Environment!None, Environment!Fire
<1>10. CASE \E f \in EnvCalls \cup {Reload} : Environment!Load(f) \/ Environment!Names(f)
    BY <1>10, EnvBounds DEF EnvTypes, EnvCounts, EnvPlaces, Environment!None, Environment!Load,
       Environment!Names
<1>11. CASE \E f \in EnvCalls \cup {Reload} : Environment!NotNamed(f)
    BY <1>11, EnvBounds DEF EnvTypes, EnvCounts, EnvPlaces, Environment!None, Environment!NotNamed
<1>12. CASE \E f \in EnvCalls \cup {Reload} : Environment!Builds(f) \/ Environment!Puts(f)
    BY <1>12, EnvBounds DEF EnvTypes, EnvCounts, EnvPlaces, Environment!None, Environment!Builds,
       Environment!Puts
<1>13. CASE Environment!Start
    BY <1>13, EnvBounds DEF EnvTypes, EnvCounts, EnvPlaces, Environment!None, Environment!Start
<1>14. CASE Environment!Stop
    BY <1>14, EnvBounds DEF EnvTypes, EnvCounts, EnvPlaces, Environment!None, Environment!Stop,
       Environment!Stops
<1>15. CASE Environment!Ends
    BY <1>15, EnvBounds DEF EnvTypes, EnvCounts, EnvPlaces, Environment!None, Environment!Ends,
       Environment!Nothing, Environment!None
<1> QED
    BY <1>1, <1>2, <1>3, <1>4, <1>5, <1>6, <1>7, <1>8, <1>9, <1>10, <1>11, <1>12, <1>13, <1>14,
       <1>15, EnvBounds, Zenon DEF Environment!Next

LEMMA EnvFlagsStep == ASSUME EnvFlags, Environment!Next PROVE EnvFlags'
<1>1. met' \in BOOLEAN
    BY Zenon DEF EnvFlags, Environment!Next, Environment!Reads, Environment!NotRead,
       Environment!Switch, Environment!Write, Environment!Written, Environment!NotResolved,
       Environment!Rebind, Environment!Synced, Environment!NotSynced, Environment!Bound,
       Environment!Edit, Environment!Fire, Environment!Load, Environment!Names,
       Environment!NotNamed, Environment!Builds, Environment!Puts, Environment!Start,
       Environment!Stop, Environment!Ends
<1>2. failed' \in BOOLEAN
    BY Zenon DEF EnvFlags, Environment!Next, Environment!Reads, Environment!NotRead,
       Environment!Switch, Environment!Write, Environment!Written, Environment!NotResolved,
       Environment!Rebind, Environment!Synced, Environment!NotSynced, Environment!Bound,
       Environment!Edit, Environment!Fire, Environment!Load, Environment!Names,
       Environment!NotNamed, Environment!Builds, Environment!Puts, Environment!Start,
       Environment!Stop, Environment!Ends
<1>3. unseen' \in BOOLEAN
    BY Zenon DEF EnvFlags, Environment!Next, Environment!Reads, Environment!NotRead,
       Environment!Switch, Environment!Write, Environment!Written, Environment!NotResolved,
       Environment!Rebind, Environment!Synced, Environment!NotSynced, Environment!Bound,
       Environment!Edit, Environment!Fire, Environment!Load, Environment!Names,
       Environment!NotNamed, Environment!Builds, Environment!Puts, Environment!Start,
       Environment!Stop, Environment!Ends
<1>4. crossed' \in BOOLEAN
    BY Zenon DEF EnvFlags, Environment!Next, Environment!Reads, Environment!NotRead,
       Environment!Switch, Environment!Write, Environment!Written, Environment!NotResolved,
       Environment!Rebind, Environment!Synced, Environment!NotSynced, Environment!Bound,
       Environment!Edit, Environment!Fire, Environment!Load, Environment!Names,
       Environment!NotNamed, Environment!Builds, Environment!Puts, Environment!Start,
       Environment!Stop, Environment!Ends
<1> QED
    BY <1>1, <1>2, <1>3, <1>4 DEF EnvFlags

LEMMA EnvPromptsStep == ASSUME EnvTypes, EnvPlaces, EnvPrompts, Environment!Next PROVE EnvPrompts'
<1>1. CASE \E c \in EnvCalls : Environment!Reads(c) \/ Environment!NotRead(c)
    BY <1>1, EnvBounds DEF EnvPrompts, Environment!Reads, Environment!NotRead
<1>2. CASE \E e \in Envs, c \in EnvCalls : Environment!Switch(c, e)
    BY <1>2, EnvBounds DEF EnvPrompts, Environment!Switch
<1>3. CASE \E c \in EnvCalls : Environment!Write(c) \/ Environment!Written(c)
    BY <1>3, EnvBounds DEF EnvPrompts, Environment!Write, Environment!Written
<1>4. CASE \E c \in EnvCalls : Environment!NotResolved(c)
    BY <1>4, EnvBounds DEF EnvPrompts, Environment!NotResolved
<1>5. CASE \E c \in EnvCalls : Environment!Rebind(c)
    BY <1>5, EnvBounds DEF EnvPrompts, Environment!Rebind, Environment!Stops
<1>6. CASE \E c \in Rebinders : Environment!Synced(c) \/ Environment!NotSynced(c)
    BY <1>6, EnvBounds DEF EnvPrompts, Environment!Synced, Environment!NotSynced, Environment!More
<1>7. CASE \E c \in Rebinders : Environment!Bound(c)
    BY <1>7, EnvBounds DEF EnvPrompts, Environment!Bound, Environment!More
<1>8. CASE \E e \in Envs : Environment!Edit(e)
    BY <1>8, EnvBounds DEF EnvPrompts, Environment!Edit, Environment!More
<1>9. CASE \E e \in Envs : Environment!Fire(e)
    BY <1>9, EnvBounds DEF EnvPrompts, Environment!Fire
<1>10. CASE \E f \in EnvCalls \cup {Reload} : Environment!Load(f) \/ Environment!Names(f)
    BY <1>10, EnvBounds DEF EnvPrompts, Environment!Load, Environment!Names
<1>11. CASE \E f \in EnvCalls \cup {Reload} : Environment!NotNamed(f)
    BY <1>11, EnvBounds DEF EnvPrompts, Environment!NotNamed
<1>12. CASE \E f \in EnvCalls \cup {Reload} : Environment!Builds(f) \/ Environment!Puts(f)
    BY <1>12, EnvBounds DEF EnvPrompts, EnvTypes, Environment!Builds, Environment!Puts
<1>13. CASE Environment!Start
    BY <1>13, EnvBounds DEF EnvPrompts, Environment!Start
<1>14. CASE Environment!Stop
    BY <1>14, EnvBounds DEF EnvPrompts, Environment!Stop, Environment!Stops
<1>15. CASE Environment!Ends
    BY <1>15, EnvBounds DEF EnvPrompts, Environment!Ends, Environment!Nothing, Environment!None
<1> QED
    BY <1>1, <1>2, <1>3, <1>4, <1>5, <1>6, <1>7, <1>8, <1>9, <1>10, <1>11, <1>12, <1>13, <1>14,
       <1>15, EnvBounds, Zenon DEF Environment!Next

LEMMA EnvPlacesStep == ASSUME EnvTypes, EnvPlaces, EnvFlags, EnvTracked, Environment!Next PROVE EnvPlaces'
<1>1. CASE \E c \in EnvCalls : Environment!Reads(c) \/ Environment!NotRead(c)
    BY <1>1, EnvBounds DEF EnvPlaces, EnvTypes, EnvFlags, Environment!None, Environment!Rebinding,
       Environment!Reads, Environment!NotRead
<1>2. CASE \E e \in Envs, c \in EnvCalls : Environment!Switch(c, e)
    BY <1>2, EnvBounds DEF EnvPlaces, EnvTypes, EnvFlags, Environment!None, Environment!Rebinding,
       Environment!Switch
<1>3. CASE \E c \in EnvCalls : Environment!Write(c) \/ Environment!Written(c)
    BY <1>3, EnvBounds DEF EnvPlaces, EnvTypes, EnvFlags, Environment!None, Environment!Rebinding,
       Environment!Write, Environment!Written
<1>4. CASE \E c \in EnvCalls : Environment!NotResolved(c)
    BY <1>4, EnvBounds DEF EnvPlaces, EnvTypes, EnvFlags, Environment!None, Environment!Rebinding,
       Environment!NotResolved
<1>5. CASE \E c \in EnvCalls : Environment!Rebind(c)
    BY <1>5, EnvBounds DEF EnvPlaces, EnvTypes, EnvFlags, Environment!None, Environment!Rebinding,
       Environment!Rebind, Environment!Stops
<1>6. CASE \E c \in Rebinders : Environment!Synced(c) \/ Environment!NotSynced(c)
    BY <1>6, EnvBounds DEF EnvPlaces, EnvTypes, EnvFlags, Environment!None, Environment!Rebinding,
       Environment!Synced, Environment!NotSynced, Environment!More
<1>7. CASE \E c \in Rebinders : Environment!Bound(c)
    BY <1>7, EnvBounds DEF EnvPlaces, EnvTypes, EnvFlags, Environment!None, Environment!Rebinding,
       Environment!Bound, Environment!More
<1>8. CASE \E e \in Envs : Environment!Edit(e)
    <2>1. PICK e \in Envs : Environment!Edit(e)
        BY <1>8
    <2>2. life \in {"down", "starting"} => watching = Environment!None
        BY EnvBounds DEF EnvPlaces, EnvTracked, Tracked
    <2>3. life \in {"down", "starting"} => timers' = Environment!None
        BY <2>1, <2>2, EnvOnly DEF Environment!Edit, EnvPlaces, EnvTypes
    <2> QED
        BY <2>1, <2>3, EnvBounds DEF EnvPlaces, EnvFlags, Environment!Edit
<1>9. CASE \E e \in Envs : Environment!Fire(e)
    BY <1>9, EnvBounds DEF EnvPlaces, EnvTypes, EnvFlags, Environment!None, Environment!Rebinding,
       Environment!Fire
<1>10. CASE \E f \in EnvCalls \cup {Reload} : Environment!Load(f) \/ Environment!Names(f)
    BY <1>10, EnvBounds DEF EnvPlaces, EnvTypes, EnvFlags, Environment!None, Environment!Rebinding,
       Environment!Load, Environment!Names
<1>11. CASE \E f \in EnvCalls \cup {Reload} : Environment!NotNamed(f)
    BY <1>11, EnvBounds DEF EnvPlaces, EnvTypes, EnvFlags, Environment!None, Environment!Rebinding,
       Environment!NotNamed
<1>12. CASE \E f \in EnvCalls \cup {Reload} : Environment!Builds(f) \/ Environment!Puts(f)
    BY <1>12, EnvBounds DEF EnvPlaces, EnvTypes, EnvFlags, Environment!None, Environment!Rebinding,
       Environment!Builds, Environment!Puts
<1>13. CASE Environment!Start
    BY <1>13, EnvBounds DEF EnvPlaces, EnvTypes, EnvFlags, Environment!None, Environment!Rebinding,
       Environment!Start
<1>14. CASE Environment!Stop
    BY <1>14, EnvBounds DEF EnvPlaces, EnvTypes, EnvFlags, Environment!None, Environment!Rebinding,
       Environment!Stop, Environment!Stops
<1>15. CASE Environment!Ends
    BY <1>15, EnvBounds DEF EnvPlaces, EnvTypes, EnvFlags, Environment!None, Environment!Rebinding,
       Environment!Ends, Environment!Nothing, Environment!None
<1> QED
    BY <1>1, <1>2, <1>3, <1>4, <1>5, <1>6, <1>7, <1>8, <1>9, <1>10, <1>11, <1>12, <1>13, <1>14,
       <1>15, EnvBounds, Zenon DEF Environment!Next

LEMMA EnvCountsStep == ASSUME EnvTypes, EnvPlaces, EnvCounts, Environment!Next PROVE EnvCounts'
<1>1. CASE \E c \in EnvCalls : Environment!Reads(c) \/ Environment!NotRead(c)
    BY <1>1, EnvBounds DEF EnvTypes, EnvCounts, EnvPlaces, Environment!None, Environment!Reads,
       Environment!NotRead
<1>2. CASE \E e \in Envs, c \in EnvCalls : Environment!Switch(c, e)
    BY <1>2, EnvBounds DEF EnvTypes, EnvCounts, EnvPlaces, Environment!None, Environment!Switch
<1>3. CASE \E c \in EnvCalls : Environment!Write(c) \/ Environment!Written(c)
    BY <1>3, EnvBounds DEF EnvTypes, EnvCounts, EnvPlaces, Environment!None, Environment!Write,
       Environment!Written
<1>4. CASE \E c \in EnvCalls : Environment!NotResolved(c)
    BY <1>4, EnvBounds DEF EnvTypes, EnvCounts, EnvPlaces, Environment!None, Environment!NotResolved
<1>5. CASE \E c \in EnvCalls : Environment!Rebind(c)
    BY <1>5, EnvBounds DEF EnvTypes, EnvCounts, EnvPlaces, Environment!None, Environment!Rebind,
       Environment!Stops
<1>6. CASE \E c \in Rebinders : Environment!Synced(c) \/ Environment!NotSynced(c)
    BY <1>6, EnvBounds DEF EnvTypes, EnvCounts, EnvPlaces, Environment!None, Environment!Synced,
       Environment!NotSynced, Environment!More
<1>7. CASE \E c \in Rebinders : Environment!Bound(c)
    BY <1>7, EnvBounds DEF EnvTypes, EnvCounts, EnvPlaces, Environment!None, Environment!Bound,
       Environment!More
<1>8. CASE \E e \in Envs : Environment!Edit(e)
    BY <1>8, EnvBounds DEF EnvTypes, EnvCounts, EnvPlaces, Environment!None, Environment!Edit,
       Environment!More
<1>9. CASE \E e \in Envs : Environment!Fire(e)
    BY <1>9, EnvBounds DEF EnvTypes, EnvCounts, EnvPlaces, Environment!None, Environment!Fire
<1>10. CASE \E f \in EnvCalls \cup {Reload} : Environment!Load(f) \/ Environment!Names(f)
    BY <1>10, EnvBounds DEF EnvTypes, EnvCounts, EnvPlaces, Environment!None, Environment!Load,
       Environment!Names
<1>11. CASE \E f \in EnvCalls \cup {Reload} : Environment!NotNamed(f)
    BY <1>11, EnvBounds DEF EnvTypes, EnvCounts, EnvPlaces, Environment!None, Environment!NotNamed
<1>12. CASE \E f \in EnvCalls \cup {Reload} : Environment!Builds(f) \/ Environment!Puts(f)
    BY <1>12, EnvBounds DEF EnvTypes, EnvCounts, EnvPlaces, Environment!None, Environment!Builds,
       Environment!Puts
<1>13. CASE Environment!Start
    BY <1>13, EnvBounds DEF EnvTypes, EnvCounts, EnvPlaces, Environment!None, Environment!Start
<1>14. CASE Environment!Stop
    BY <1>14, EnvBounds DEF EnvTypes, EnvCounts, EnvPlaces, Environment!None, Environment!Stop,
       Environment!Stops
<1>15. CASE Environment!Ends
    BY <1>15, EnvBounds DEF EnvTypes, EnvCounts, EnvPlaces, Environment!None, Environment!Ends,
       Environment!Nothing, Environment!None
<1> QED
    BY <1>1, <1>2, <1>3, <1>4, <1>5, <1>6, <1>7, <1>8, <1>9, <1>10, <1>11, <1>12, <1>13, <1>14,
       <1>15, EnvBounds, Zenon DEF Environment!Next

LEMMA EnvTrackedStep == ASSUME EnvTypes, EnvPlaces, EnvCounts, EnvTracked, Environment!Next PROVE EnvTracked'
<1>1. CASE \E c \in EnvCalls : Environment!Reads(c) \/ Environment!NotRead(c)
    BY <1>1, EnvBounds DEF EnvTypes, EnvPlaces, EnvTracked, Environment!Reads, Environment!NotRead
<1>2. CASE \E e \in Envs, c \in EnvCalls : Environment!Switch(c, e)
    <2>1. PICK e \in Envs, c \in EnvCalls : Environment!Switch(c, e)
        BY <1>2
    <2>2. ~met' => ~met /\ \A d \in Rebinders : envAt[d] = "idle"
        BY <2>1, EnvFree DEF Environment!Switch
    <2>3. /\ envAt' = [envAt EXCEPT ![c] = "current"] /\ life = "up" /\ envAt[c] = "idle"
          /\ UNCHANGED <<syncs, fileSync, writers, summaries, watching, watcher, life, config, failed>>
        BY <2>1 DEF Environment!Switch
    <2> QED
        BY <2>2, <2>3, EnvBounds DEF EnvTracked, EnvPlaces
<1>3. CASE \E c \in EnvCalls : Environment!Write(c) \/ Environment!Written(c)
    BY <1>3, EnvBounds DEF EnvTypes, EnvPlaces, EnvTracked, Environment!Write, Environment!Written
<1>4. CASE \E c \in EnvCalls : Environment!NotResolved(c)
    BY <1>4, EnvBounds DEF EnvTypes, EnvPlaces, EnvTracked, Environment!NotResolved
<1>5. CASE \E c \in EnvCalls : Environment!Rebind(c)
    BY <1>5, EnvBounds, EnvOnly, SMTT(30) DEF EnvTypes, EnvPlaces, EnvTracked, Tracked,
       Environment!Rebind, Environment!Stops
<1>6. CASE \E c \in Rebinders : Environment!Synced(c) \/ Environment!NotSynced(c)
    <2>1. PICK c \in Rebinders : Environment!Synced(c) \/ Environment!NotSynced(c)
        BY <1>6
    <2>2. envAt' = [envAt EXCEPT ![c] = "summary"] /\ UNCHANGED <<summaries, watching, watcher, life, met, goal>>
        BY <2>1 DEF Environment!Synced, Environment!NotSynced
    <2>3. ~met => /\ syncs' = Tracked(fileSync') /\ writers' = Tracked(fileSync') /\ goal[c] \in Envs
                  /\ fileSync' = goal[c] \/ (failed' /\ UNCHANGED fileSync)
        <3>a. goal[c] \in Envs /\ goal[c] # NoEnv
            BY EnvBounds DEF EnvTypes
        <3>b. ~met => syncs = Environment!None /\ writers = Environment!None
            BY <2>1 DEF Environment!Synced, Environment!NotSynced, EnvTracked, Tracked
        <3>1. CASE Environment!Synced(c)
            BY <3>1, <3>a, <3>b, EnvOnly DEF Environment!Synced, Tracked
        <3>2. CASE Environment!NotSynced(c)
            BY <3>2, <3>a DEF Environment!NotSynced, EnvTracked
        <3> QED
            BY <2>1, <3>1, <3>2
    <2>4. envAt[c] = "sync"
        BY <2>1 DEF Environment!Synced, Environment!NotSynced
    <2> QED
        BY <2>2, <2>3, <2>4, EnvBounds DEF EnvTracked, EnvPlaces, EnvTypes
<1>7. CASE \E c \in Rebinders : Environment!Bound(c)
    <2>1. PICK c \in Rebinders : Environment!Bound(c)
        BY <1>7
    <2>2. \E place \in {"idle", "load"} : envAt' = [envAt EXCEPT ![c] = place]
        BY <2>1 DEF Environment!Bound
    <2>3. goal[c] \in Envs /\ envAt[c] = "summary" /\ life' \in {life, "up"}
        BY <2>1, EnvBounds DEF Environment!Bound, EnvTypes
    <2>4. ~met => summaries' = Environment!Only(goal[c]) /\ watching' = Tracked(watcher')
        BY <2>1, <2>3, EnvBounds, EnvOnly DEF Environment!Bound, EnvTracked, Tracked
    <2>5. UNCHANGED <<syncs, fileSync, writers, met>>
        BY <2>1 DEF Environment!Bound
    <2>6. ~met => life # "down" /\ life # "stopped"
        BY <2>3 DEF EnvTracked
    <2> QED
        BY <2>2, <2>3, <2>4, <2>5, <2>6, EnvBounds DEF EnvTracked, EnvPlaces
<1>8. CASE \E e \in Envs : Environment!Edit(e)
    BY <1>8 DEF EnvTracked, Environment!Edit
<1>9. CASE \E e \in Envs : Environment!Fire(e)
    BY <1>9, EnvBounds DEF EnvTypes, EnvPlaces, EnvTracked, Environment!Fire
<1>10. CASE \E f \in EnvCalls \cup {Reload} : Environment!Load(f) \/ Environment!Names(f)
    BY <1>10, EnvBounds DEF EnvTypes, EnvPlaces, EnvTracked, Environment!Load, Environment!Names
<1>11. CASE \E f \in EnvCalls \cup {Reload} : Environment!NotNamed(f)
    BY <1>11, EnvBounds DEF EnvTypes, EnvPlaces, EnvTracked, Environment!NotNamed
<1>12. CASE \E f \in EnvCalls \cup {Reload} : Environment!Builds(f) \/ Environment!Puts(f)
    BY <1>12, EnvBounds DEF EnvTypes, EnvPlaces, EnvTracked, Environment!Builds, Environment!Puts
<1>13. CASE Environment!Start
    BY <1>13, EnvBounds, EnvOnly DEF EnvTypes, EnvPlaces, EnvTracked, Tracked, Environment!Start
<1>14. CASE Environment!Stop
    <2>1. ~met' => ~met /\ \A d \in Rebinders : envAt[d] = "idle"
        BY <1>14, EnvFree DEF Environment!Stop
    <2>2. fileSync' = NoEnv /\ watcher' = NoEnv /\ writers' = Environment!None /\ summaries' = Environment!None /\ UNCHANGED envAt
        BY <1>14 DEF Environment!Stop, Environment!Stops
    <2>3. ~met' => syncs' = Environment!None /\ watching' = Environment!None
        BY <1>14, <2>1, EnvBounds, EnvOnly DEF Environment!Stop, Environment!Stops, EnvTracked,
           Tracked, EnvTypes
    <2> QED
        BY <2>1, <2>2, <2>3, EnvBounds DEF EnvTracked, Tracked
<1>15. CASE Environment!Ends
    BY <1>15, EnvBounds, EnvOnly DEF EnvTypes, EnvPlaces, EnvTracked, Tracked, Environment!Ends,
       Environment!Nothing, Environment!None
<1> QED
    BY <1>1, <1>2, <1>3, <1>4, <1>5, <1>6, <1>7, <1>8, <1>9, <1>10, <1>11, <1>12, <1>13, <1>14,
       <1>15, EnvBounds, Zenon DEF Environment!Next

LEMMA EnvAimedStep == ASSUME EnvTypes, EnvPlaces, EnvFlags, EnvTracked, EnvAimed, Environment!Next PROVE EnvAimed'
<1>1. CASE \E c \in EnvCalls : Environment!Reads(c) \/ Environment!NotRead(c)
    BY <1>1, EnvBounds, EnvOnly DEF EnvTypes, EnvPlaces, EnvTracked, EnvAimed, Changing,
       Environment!Rebinding, Environment!Reads, Environment!NotRead
<1>2. CASE \E e \in Envs, c \in EnvCalls : Environment!Switch(c, e)
    <2>1. PICK e \in Envs, c \in EnvCalls : Environment!Switch(c, e)
        BY <1>2
    <2>2. ~met' => ~met /\ \A d \in Rebinders : envAt[d] = "idle"
        BY <2>1, EnvFree DEF Environment!Switch
    <2>3. /\ envAt' = [envAt EXCEPT ![c] = "current"] /\ life = "up" /\ envAt[c] = "idle"
          /\ UNCHANGED <<syncs, fileSync, writers, summaries, watching, watcher, life, config, failed>>
        BY <2>1 DEF Environment!Switch
    <2> QED
        BY <2>2, <2>3, EnvBounds DEF EnvAimed, Changing, EnvPlaces, EnvTypes
<1>3. CASE \E c \in EnvCalls : Environment!Write(c) \/ Environment!Written(c)
    BY <1>3, EnvBounds, EnvOnly, SMTT(30) DEF EnvTypes, EnvPlaces, EnvTracked, EnvAimed, Changing,
       Environment!Rebinding, Environment!Write, Environment!Written
<1>4. CASE \E c \in EnvCalls : Environment!NotResolved(c)
    BY <1>4, EnvBounds, EnvOnly DEF EnvTypes, EnvPlaces, EnvTracked, EnvAimed, Changing,
       Environment!Rebinding, Environment!NotResolved
<1>5. CASE \E c \in EnvCalls : Environment!Rebind(c)
    BY <1>5, EnvBounds, EnvOnly DEF EnvTypes, EnvPlaces, EnvTracked, EnvAimed, Changing,
       Environment!Rebinding, Environment!Rebind, Environment!Stops
<1>6. CASE \E c \in Rebinders : Environment!Synced(c) \/ Environment!NotSynced(c)
    <2>1. PICK c \in Rebinders : Environment!Synced(c) \/ Environment!NotSynced(c)
        BY <1>6
    <2>2. envAt' = [envAt EXCEPT ![c] = "summary"] /\ envAt[c] = "sync" /\ UNCHANGED <<config, met, goal, life>>
        BY <2>1 DEF Environment!Synced, Environment!NotSynced
    <2>3. (fileSync' = goal[c] /\ failed' = failed) \/ failed'
        BY <2>1 DEF Environment!Synced, Environment!NotSynced
    <2>4. life = "up" => Changing' # {}
        BY <2>2, EnvBounds DEF Changing, EnvPlaces
    <2> QED
        BY <2>2, <2>3, <2>4, EnvBounds DEF EnvAimed, EnvTracked, EnvPlaces
<1>7. CASE \E c \in Rebinders : Environment!Bound(c)
    <2>1. PICK c \in Rebinders : Environment!Bound(c)
        BY <1>7
    <2>2. envAt[c] = "summary" /\ goal[c] \in Envs /\ UNCHANGED <<config, fileSync, met>> /\ (failed' = failed \/ failed')
        BY <2>1, EnvBounds DEF Environment!Bound, EnvTypes, EnvFlags
    <2>3. ~met => summaries' = Environment!Only(goal[c]) /\ (watcher' = goal[c] \/ failed')
        BY <2>1, <2>2, EnvBounds, EnvOnly DEF Environment!Bound, EnvTracked
    <2>4. envAt'[c] \in {"idle", "load"} /\ \A d \in Rebinders \ {c} : envAt'[d] = envAt[d] /\ goal'[d] = goal[d]
        BY <2>1, EnvBounds DEF Environment!Bound, EnvPlaces, EnvTypes
    <2> QED
        BY <2>2, <2>3, <2>4 DEF EnvAimed, EnvTracked
<1>8. CASE \E e \in Envs : Environment!Edit(e)
    BY <1>8 DEF EnvAimed, Changing, Environment!Edit
<1>9. CASE \E e \in Envs : Environment!Fire(e)
    BY <1>9, EnvBounds, EnvOnly DEF EnvTypes, EnvPlaces, EnvTracked, EnvAimed, Changing,
       Environment!Rebinding, Environment!Fire
<1>10. CASE \E f \in EnvCalls \cup {Reload} : Environment!Load(f) \/ Environment!Names(f)
    BY <1>10, EnvBounds, EnvOnly DEF EnvTypes, EnvPlaces, EnvTracked, EnvAimed, Changing,
       Environment!Rebinding, Environment!Load, Environment!Names
<1>11. CASE \E f \in EnvCalls \cup {Reload} : Environment!NotNamed(f)
    BY <1>11, EnvBounds, EnvOnly DEF EnvTypes, EnvPlaces, EnvTracked, EnvAimed, Changing,
       Environment!Rebinding, Environment!NotNamed
<1>12. CASE \E f \in EnvCalls \cup {Reload} : Environment!Builds(f) \/ Environment!Puts(f)
    BY <1>12, EnvBounds, EnvOnly DEF EnvTypes, EnvPlaces, EnvTracked, EnvAimed, Changing,
       Environment!Rebinding, Environment!Builds, Environment!Puts
<1>13. CASE Environment!Start
    <2>1. \A c \in EnvCalls : envAt'[c] = "idle"
        BY <1>13, EnvBounds DEF Environment!Start, EnvPlaces
    <2>2. CASE config = Torn
        BY <1>13, <2>1, <2>2, EnvBounds DEF Environment!Start, EnvAimed, EnvPlaces
    <2>3. CASE config # Torn
        BY <1>13, <2>1, <2>3, EnvBounds DEF Environment!Start, EnvAimed, EnvPlaces, EnvTypes
    <2> QED
        BY <2>2, <2>3
<1>14. CASE Environment!Stop
    BY <1>14, EnvBounds, EnvOnly DEF EnvTypes, EnvPlaces, EnvTracked, EnvAimed, Changing,
       Environment!Rebinding, Environment!Stop, Environment!Stops
<1>15. CASE Environment!Ends
    BY <1>15, EnvBounds, EnvOnly DEF EnvTypes, EnvPlaces, EnvTracked, EnvAimed, Changing,
       Environment!Rebinding, Environment!Ends, Environment!Nothing, Environment!None
<1> QED
    BY <1>1, <1>2, <1>3, <1>4, <1>5, <1>6, <1>7, <1>8, <1>9, <1>10, <1>11, <1>12, <1>13, <1>14,
       <1>15, EnvBounds, Zenon DEF Environment!Next

LEMMA EnvAloneStep == ASSUME EnvTypes, EnvPrompts, EnvPlaces, EnvFlags, EnvAlone, Environment!Next PROVE EnvAlone'
<1>1. CASE \E c \in EnvCalls : Environment!Reads(c) \/ Environment!NotRead(c)
    <2>1. PICK c \in EnvCalls : Environment!Reads(c) \/ Environment!NotRead(c)
        BY <1>1
    <2>2. /\ envAt[c] \notin {"name", "docs", "put"} /\ UNCHANGED <<prompt, crossed>>
          /\ \A f \in EnvFibers \ {c} : envAt'[f] = envAt[f] /\ held'[f] = held[f]
        BY <2>1, EnvBounds DEF Environment!Reads, Environment!NotRead, EnvPlaces, EnvPrompts
    <2>3. envAt'[c] \notin {"name", "docs", "put"}
        BY <2>1, EnvBounds DEF Environment!Reads, Environment!NotRead, EnvPlaces
    <2> QED
        BY <2>2, <2>3 DEF EnvAlone, Late
<1>2. CASE \E e \in Envs, c \in EnvCalls : Environment!Switch(c, e)
    BY <1>2, EnvBounds DEF EnvPlaces, EnvTypes, EnvAlone, Late, Environment!Renewing, Environment!Switch
<1>3. CASE \E c \in EnvCalls : Environment!Write(c) \/ Environment!Written(c)
    BY <1>3, EnvBounds DEF EnvPlaces, EnvTypes, EnvAlone, Late, Environment!Renewing,
       Environment!Write, Environment!Written
<1>4. CASE \E c \in EnvCalls : Environment!NotResolved(c)
    BY <1>4, EnvBounds DEF EnvPlaces, EnvTypes, EnvAlone, Late, Environment!Renewing,
       Environment!NotResolved
<1>5. CASE \E c \in EnvCalls : Environment!Rebind(c)
    BY <1>5, EnvBounds DEF EnvPlaces, EnvTypes, EnvAlone, Late, Environment!Renewing,
       Environment!Rebind, Environment!Stops
<1>6. CASE \E c \in Rebinders : Environment!Synced(c) \/ Environment!NotSynced(c)
    BY <1>6, EnvBounds DEF EnvPlaces, EnvTypes, EnvAlone, Late, Environment!Renewing,
       Environment!Synced, Environment!NotSynced, Environment!More
<1>7. CASE \E c \in Rebinders : Environment!Bound(c)
    BY <1>7, EnvBounds DEF EnvPlaces, EnvTypes, EnvAlone, Late, Environment!Renewing,
       Environment!Bound, Environment!More
<1>8. CASE \E e \in Envs : Environment!Edit(e)
    BY <1>8, EnvBounds DEF EnvPlaces, EnvTypes, EnvAlone, Late, Environment!Renewing,
       Environment!Edit, Environment!More
<1>9. CASE \E e \in Envs : Environment!Fire(e)
    BY <1>9, EnvBounds DEF EnvPlaces, EnvTypes, EnvAlone, Late, Environment!Renewing, Environment!Fire
<1>10. CASE \E f \in EnvCalls \cup {Reload} : Environment!Load(f) \/ Environment!Names(f)
    <2>1. PICK f \in EnvCalls \cup {Reload} : Environment!Load(f) \/ Environment!Names(f)
        BY <1>10
    <2>2. CASE Environment!Load(f)
        <3>1. ~crossed' => \A g \in EnvFibers : g # f => envAt[g] \notin {"name", "docs", "put"}
            BY <2>2, EnvFree, EnvBounds DEF Environment!Load
        <3>2. /\ \A g \in EnvFibers : g # f => envAt'[g] = envAt[g]
              /\ envAt'[f] = "name" => held'[f] = prompt'
              /\ envAt'[f] \in {"idle", "name"}
            BY <2>2, EnvBounds DEF Environment!Load, EnvPlaces, EnvPrompts
        <3> QED
            BY <3>1, <3>2 DEF EnvAlone, Late
    <2>3. CASE Environment!Names(f)
        BY <2>3, EnvBounds DEF Environment!Names, EnvPlaces, EnvAlone, Late
    <2> QED
        BY <2>1, <2>2, <2>3
<1>11. CASE \E f \in EnvCalls \cup {Reload} : Environment!NotNamed(f)
    BY <1>11, EnvBounds DEF EnvPlaces, EnvTypes, EnvAlone, Late, Environment!Renewing,
       Environment!NotNamed
<1>12. CASE \E f \in EnvCalls \cup {Reload} : Environment!Builds(f) \/ Environment!Puts(f)
    BY <1>12, EnvBounds DEF EnvPlaces, EnvTypes, EnvAlone, Late, Environment!Renewing,
       Environment!Builds, Environment!Puts
<1>13. CASE Environment!Start
    BY <1>13, EnvBounds DEF EnvPlaces, EnvTypes, EnvAlone, Late, Environment!Renewing, Environment!Start
<1>14. CASE Environment!Stop
    BY <1>14, EnvBounds DEF EnvPlaces, EnvTypes, EnvAlone, Late, Environment!Renewing,
       Environment!Stop, Environment!Stops
<1>15. CASE Environment!Ends
    BY <1>15, EnvBounds DEF EnvPlaces, EnvTypes, EnvAlone, Late, Environment!Renewing,
       Environment!Ends, Environment!Nothing, Environment!None
<1> QED
    BY <1>1, <1>2, <1>3, <1>4, <1>5, <1>6, <1>7, <1>8, <1>9, <1>10, <1>11, <1>12, <1>13, <1>14,
       <1>15, EnvBounds, Zenon DEF Environment!Next

LEMMA EnvFreshStep == ASSUME EnvTypes, EnvPrompts, EnvPlaces, EnvFlags, EnvCounts, EnvTracked, EnvAimed, EnvAlone, EnvFresh, Environment!Next PROVE EnvFresh'
<1>1. CASE \E c \in EnvCalls : Environment!Reads(c) \/ Environment!NotRead(c)
    <2>1. PICK c \in EnvCalls : Environment!Reads(c) \/ Environment!NotRead(c)
        BY <1>1
    <2>2. /\ \A f \in EnvFibers : envAt'[f] # envAt[f] => {envAt'[f], envAt[f]} \subseteq {"idle", "current", "list", "write"}
          /\ UNCHANGED <<config, prose, timers, prompt, life, failed, unseen, crossed>>
          /\ \A f \in EnvFibers \ {c} : goal'[f] = goal[f] /\ held'[f] = held[f]
        BY <2>1, EnvBounds DEF EnvPlaces, EnvTypes, EnvPrompts, Environment!Reads, Environment!NotRead
    <2>3. /\ Late' = Late /\ Changing' = Changing /\ (Again' <=> Again) /\ (Waited' <=> Waited) /\ c \notin Late
          /\ Environment!Current' = Environment!Current
        <3>1. Late' = Late /\ c \notin Late
            BY <2>1, <2>2 DEF Late, Environment!Reads, Environment!NotRead
        <3>2. Changing' = Changing
            BY <2>2, EnvBounds DEF Changing
        <3>3. (Again' <=> Again) /\ (Waited' <=> Waited)
            BY <2>2, <3>2 DEF Again, Waited
        <3>4. Environment!Current' = Environment!Current
            BY <2>2 DEF Environment!Current
        <3> QED
            BY <3>1, <3>2, <3>3, <3>4
    <2>4. \A f \in Late : envAt'[f] = envAt[f] /\ goal'[f] = goal[f] /\ held'[f] = held[f]
        BY <2>2, <2>3 DEF Late
    <2>5. ~met' => ~met
        BY <2>1 DEF Environment!Reads, Environment!NotRead
    <2> QED
        BY <2>2, <2>3, <2>4, <2>5 DEF EnvFresh, Renewed
<1>2. CASE \E e \in Envs, c \in EnvCalls : Environment!Switch(c, e)
    <2>1. PICK e \in Envs, c \in EnvCalls : Environment!Switch(c, e)
        BY <1>2
    <2>2. /\ \A f \in EnvFibers : envAt'[f] # envAt[f] => {envAt'[f], envAt[f]} \subseteq {"idle", "current", "list", "write"}
          /\ UNCHANGED <<config, prose, timers, prompt, life, failed, unseen, crossed>>
          /\ \A f \in EnvFibers \ {c} : goal'[f] = goal[f] /\ held'[f] = held[f]
        BY <2>1, EnvBounds DEF EnvPlaces, EnvTypes, EnvPrompts, Environment!Switch
    <2>3. /\ Late' = Late /\ Changing' = Changing /\ (Again' <=> Again) /\ (Waited' <=> Waited) /\ c \notin Late
          /\ Environment!Current' = Environment!Current
        <3>1. Late' = Late /\ c \notin Late
            BY <2>1, <2>2 DEF Late, Environment!Switch
        <3>2. Changing' = Changing
            BY <2>2, EnvBounds DEF Changing
        <3>3. (Again' <=> Again) /\ (Waited' <=> Waited)
            BY <2>2, <3>2 DEF Again, Waited
        <3>4. Environment!Current' = Environment!Current
            BY <2>2 DEF Environment!Current
        <3> QED
            BY <3>1, <3>2, <3>3, <3>4
    <2>4. \A f \in Late : envAt'[f] = envAt[f] /\ goal'[f] = goal[f] /\ held'[f] = held[f]
        BY <2>2, <2>3 DEF Late
    <2>5. ~met' => ~met
        BY <2>1 DEF Environment!Switch
    <2> QED
        BY <2>2, <2>3, <2>4, <2>5 DEF EnvFresh, Renewed
<1>3. CASE \E c \in EnvCalls : Environment!Write(c) \/ Environment!Written(c)
    <2>1. PICK c \in EnvCalls : Environment!Write(c) \/ Environment!Written(c)
        BY <1>3
    <2>2. Again'
        BY <2>1, EnvBounds DEF Again, Changing, EnvPlaces, Environment!Write, Environment!Written
    <2> QED
        BY <2>2 DEF EnvFresh, Renewed
<1>4. CASE \E c \in EnvCalls : Environment!NotResolved(c)
    BY <1>4 DEF EnvFresh, Renewed, Environment!NotResolved
<1>5. CASE \E c \in EnvCalls : Environment!Rebind(c)
    <2>1. PICK c \in EnvCalls : Environment!Rebind(c)
        BY <1>5
    <2>2. Again'
        BY <2>1, EnvBounds DEF Again, Changing, EnvPlaces, Environment!Rebind
    <2> QED
        BY <2>2 DEF EnvFresh, Renewed
<1>6. CASE \E c \in Rebinders : Environment!Synced(c) \/ Environment!NotSynced(c)
    <2>1. PICK c \in Rebinders : Environment!Synced(c) \/ Environment!NotSynced(c)
        BY <1>6
    <2>2. Again'
        BY <2>1, EnvBounds DEF Again, Changing, EnvPlaces, Environment!Synced, Environment!NotSynced
    <2> QED
        BY <2>2 DEF EnvFresh, Renewed
<1>7. CASE \E c \in Rebinders : Environment!Bound(c)
    <2>1. PICK c \in Rebinders : Environment!Bound(c)
        BY <1>7
    <2>2. CASE c = Main
        <3>1. Late' = {} /\ unseen'
            BY <2>1, <2>2, EnvBounds DEF Late, EnvPlaces, Environment!Bound
        <3> QED
            BY <3>1 DEF EnvFresh, Renewed
    <2>3. CASE c # Main
        <3>1. Again'
            BY <2>1, <2>3, EnvBounds DEF Again, EnvPlaces, Environment!Bound
        <3> QED
            BY <3>1 DEF EnvFresh, Renewed
    <2> QED
        BY <2>2, <2>3
<1>8. CASE \E e \in Envs : Environment!Edit(e)
    <2>1. PICK e \in Envs : Environment!Edit(e)
        BY <1>8
    <2>2. UNCHANGED <<life, met, failed, crossed, config, envAt, goal, held, prompt>> /\ (unseen => unseen')
        BY <2>1 DEF Environment!Edit
    <2>3. (Again' <=> Again) /\ Late' = Late
        BY <2>2 DEF Again, Changing, Late
    <2>4. CASE e = config
        <3>a. /\ timers'[config] = watching[config] /\ watching[config] \in Nat /\ config \in Envs
              /\ watching[config] = 0 => unseen'
            BY <2>1, <2>4 DEF EnvTypes, Environment!Edit
        <3>1. Waited' \/ unseen'
            BY <2>2, <3>a DEF Waited
        <3> QED
            BY <2>2, <2>3, <3>1 DEF EnvFresh, Renewed
    <2>5. CASE e # config
        <3>1. (Waited' <=> Waited) /\ (config \in Envs => Environment!Current' = Environment!Current)
            BY <2>1, <2>2, <2>5, EnvBounds DEF Environment!Edit, EnvTypes, Environment!More, Waited,
               Environment!Current
        <3>2. life = "up" /\ ~met /\ ~failed /\ ~Again => config \in Envs
            BY DEF EnvAimed, Again
        <3> QED
            BY <2>2, <2>3, <3>1, <3>2 DEF EnvFresh, Renewed
    <2> QED
        BY <2>4, <2>5
<1>9. CASE \E e \in Envs : Environment!Fire(e)
    <2>1. PICK e \in Envs : Environment!Fire(e)
        BY <1>9
    <2>2. CASE envAt' = [envAt EXCEPT ![Reload] = "load"]
        <3>1. Again'
            BY <2>2, EnvBounds DEF Again, EnvPlaces
        <3> QED
            BY <3>1 DEF EnvFresh, Renewed
    <2>3. CASE unseen' /\ UNCHANGED envAt
        <3>1. UNCHANGED <<life, met, failed, crossed, config, goal>> /\ (Again' <=> Again) /\ Late' = Late
            BY <2>1, <2>3 DEF Environment!Fire, Again, Changing, Late
        <3> QED
            BY <2>3, <3>1 DEF EnvFresh, Renewed
    <2> QED
        BY <2>1, <2>2, <2>3 DEF Environment!Fire
<1>10. CASE \E f \in EnvCalls \cup {Reload} : Environment!Load(f) \/ Environment!Names(f)
    <2>1. PICK f \in EnvCalls \cup {Reload} : Environment!Load(f) \/ Environment!Names(f)
        BY <1>10
    <2>2. UNCHANGED <<life, met, failed, unseen, config, prompt>> /\ Environment!Current' = Environment!Current /\ (Waited' <=> Waited)
        BY <2>1 DEF Environment!Load, Environment!Names, Environment!Current, Waited
    <2>3. ASSUME Environment!Load(f), ~crossed', life = "up" PROVE Late' = {f} /\ envAt'[f] = "name"
        <3>1. Environment!Renewing = {f} /\ envAt' = [envAt EXCEPT ![f] = "name"]
            BY <2>3 DEF Environment!Load
        <3> QED
            BY <3>1, EnvFree, EnvBounds DEF Late, EnvPlaces
    <2>4. CASE Environment!Load(f)
        BY <2>2, <2>3, <2>4 DEF EnvFresh, Renewed
    <2>5. CASE Environment!Names(f)
        <3>1. Late' = Late /\ f \in Late /\ envAt'[f] = "docs" /\ goal'[f] = config' /\ UNCHANGED crossed
            BY <2>5, EnvBounds DEF Environment!Names, Late, EnvPlaces, EnvTypes
        <3>2. Again' <=> Again
            <4>1. Changing' = Changing /\ \A g \in EnvFibers : envAt'[g] = "load" <=> envAt[g] = "load"
                BY <2>5, EnvBounds DEF Environment!Names, Changing, EnvPlaces
            <4> QED
                BY <2>2, <4>1 DEF Again
        <3>3. ~crossed => Late = {f}
            BY <3>1 DEF EnvAlone
        <3> QED
            BY <2>2, <3>1, <3>2, <3>3 DEF EnvFresh, Renewed
    <2> QED
        BY <2>1, <2>4, <2>5
<1>11. CASE \E f \in EnvCalls \cup {Reload} : Environment!NotNamed(f)
    <2>1. PICK f \in EnvCalls \cup {Reload} : Environment!NotNamed(f)
        BY <1>11
    <2>2. unseen' /\ UNCHANGED <<life, met, failed, crossed, config, timers>> /\ envAt' = [envAt EXCEPT ![f] = "idle"] /\ envAt[f] = "name"
        BY <2>1 DEF Environment!NotNamed
    <2>3. \A g \in EnvFibers \ {f} : goal'[g] = goal[g]
        BY <2>1, EnvBounds DEF Environment!NotNamed, EnvTypes
    <2>4. Again' <=> Again
        <3>1. Changing' = Changing /\ \A g \in EnvFibers : envAt'[g] = "load" <=> envAt[g] = "load"
            BY <2>2, EnvBounds DEF Changing, EnvPlaces
        <3> QED
            BY <2>2, <3>1 DEF Again
    <2> QED
        BY <2>2, <2>3, <2>4, EnvBounds DEF EnvFresh, Renewed, Late, EnvPlaces
<1>12. CASE \E f \in EnvCalls \cup {Reload} : Environment!Builds(f) \/ Environment!Puts(f)
    <2>1. PICK f \in EnvCalls \cup {Reload} : Environment!Builds(f) \/ Environment!Puts(f)
        BY <1>12
    <2>2. UNCHANGED <<life, met, failed, config>> /\ Environment!Current' = Environment!Current /\ (Waited' <=> Waited)
        BY <2>1 DEF Environment!Builds, Environment!Puts, Environment!Current, Waited
    <2>3. /\ f \in Late /\ envAt'[f] \in {"idle", "put"} /\ \A g \in EnvFibers \ {f} : envAt'[g] = envAt[g]
          /\ UNCHANGED crossed
        BY <2>1, EnvBounds DEF Environment!Builds, Environment!Puts, Late, EnvPlaces
    <2>4. Again' <=> Again
        <3>1. Changing' = Changing /\ \A g \in EnvFibers : envAt'[g] = "load" <=> envAt[g] = "load"
            BY <2>1, <2>3, EnvBounds DEF Changing, EnvPlaces, Environment!Builds, Environment!Puts
        <3> QED
            BY <2>2, <3>1 DEF Again
    <2>5. SUFFICES ASSUME life = "up", ~met, ~failed, ~crossed, ~Again PROVE Renewed'
        BY <2>2, <2>3, <2>4 DEF EnvFresh
    <2>6. Late = {f}
        BY <2>3, <2>5 DEF EnvAlone
    <2>7. Late' \subseteq {f}
        BY <2>3, <2>6 DEF Late
    <2>8. CASE Environment!Builds(f)
        <3>1. goal[f] = config /\ held[f] = prompt /\ <<goal[f], prose[goal[f]]>> = Environment!Current
            BY <2>3, <2>5, <2>8 DEF EnvFresh, Renewed, EnvAlone, Environment!Builds, Environment!Current
        <3>2. \/ envAt'[f] = "idle" /\ prompt = Environment!Current
              \/ envAt'[f] = "put" /\ held'[f] = Environment!Current
            BY <2>8, <3>1, EnvBounds DEF Environment!Builds, EnvPrompts, EnvPlaces
        <3>3. UNCHANGED prompt
            BY <2>8 DEF Environment!Builds
        <3>4. f \in EnvFibers
            BY <2>3 DEF Late
        <3>5. CASE envAt'[f] = "idle" /\ prompt = Environment!Current
            <4>1. Late' = {}
                BY <2>7, <3>5 DEF Late
            <4> QED
                BY <2>2, <3>3, <3>5, <4>1 DEF Renewed
        <3>6. CASE envAt'[f] = "put" /\ held'[f] = Environment!Current
            <4>1. Late' # {}
                BY <3>4, <3>6 DEF Late
            <4> QED
                BY <2>2, <2>7, <3>6, <4>1 DEF Renewed
        <3> QED
            BY <3>2, <3>5, <3>6
    <2>9. CASE Environment!Puts(f)
        <3>1. Late' = {} /\ prompt' = held[f] /\ UNCHANGED unseen /\ envAt[f] = "put"
            BY <2>5, <2>7, <2>9, EnvBounds DEF Environment!Puts, Late, EnvPlaces
        <3> QED
            BY <2>2, <2>3, <2>5, <3>1 DEF EnvFresh, Renewed
    <2> QED
        BY <2>1, <2>8, <2>9
<1>13. CASE Environment!Start
    BY <1>13 DEF EnvFresh, Renewed, Environment!Start
<1>14. CASE Environment!Stop
    BY <1>14 DEF EnvFresh, Renewed, Environment!Stop
<1>15. CASE Environment!Ends
    BY <1>15 DEF EnvFresh, Renewed, Environment!Ends
<1> QED
    BY <1>1, <1>2, <1>3, <1>4, <1>5, <1>6, <1>7, <1>8, <1>9, <1>10, <1>11, <1>12, <1>13, <1>14,
       <1>15, EnvBounds, Zenon DEF Environment!Next

LEMMA EnvNextInv == EnvInv /\ [Environment!Next]_environmentVars => EnvInv'
<1> SUFFICES ASSUME EnvInv, [Environment!Next]_environmentVars PROVE EnvInv'
    OBVIOUS
<1>1. CASE Environment!Next
    BY <1>1, EnvTypesStep, EnvPromptsStep, EnvFlagsStep, EnvPlacesStep, EnvCountsStep,
       EnvTrackedStep, EnvAimedStep, EnvAloneStep,
       EnvFreshStep, Zenon DEF EnvInv, EnvShapes
<1>2. CASE UNCHANGED environmentVars
    <2>1. EnvShapes' /\ EnvCounts' /\ EnvTracked'
        BY <1>2 DEF environmentVars, EnvInv, EnvShapes, EnvTypes, EnvPrompts, EnvFlags, EnvPlaces,
           EnvCounts, EnvTracked
    <2>2. EnvAimed' /\ EnvAlone' /\ EnvFresh'
        BY <1>2 DEF environmentVars, EnvInv, EnvAimed, EnvAlone, EnvFresh, Renewed, Again, Waited,
           Late, Changing, Environment!Current
    <2> QED
        BY <2>1, <2>2 DEF EnvInv
<1> QED
    BY <1>1, <1>2

LEMMA EnvInitInv == Environment!Init => EnvInv
<1> SUFFICES ASSUME Environment!Init PROVE EnvInv
    OBVIOUS
<1> USE EnvBounds, EnvOnly DEF Environment!Init
<1>1. EnvTypes
    BY DEF EnvTypes, Environment!None
<1>2. EnvPrompts
    BY DEF EnvPrompts, Environment!Nothing
<1>3. EnvFlags /\ EnvPlaces
    BY DEF EnvFlags, EnvPlaces
<1>4. EnvCounts /\ EnvTracked
    BY DEF EnvCounts, EnvTracked, Tracked, Environment!None
<1>5. EnvAimed /\ EnvAlone /\ EnvFresh
    BY DEF EnvAimed, EnvAlone, EnvFresh, Renewed, Late
<1> QED
    BY <1>1, <1>2, <1>3, <1>4, <1>5, Zenon DEF EnvInv, EnvShapes

LEMMA EnvInvKeeps == EnvInv => Environment!TypeOK /\ Environment!EnvironmentHeld
<1> SUFFICES ASSUME EnvInv PROVE Environment!TypeOK /\ Environment!EnvironmentHeld
    OBVIOUS
<1>1. Environment!TypeOK
    <2>1. prose \in [Envs -> 0..MaxEdits]
        BY EnvBounds DEF EnvInv, EnvShapes, EnvTypes
    <2> QED
        BY <2>1, EnvBounds, Zenon DEF EnvInv, EnvShapes, EnvTypes, EnvPrompts, EnvFlags, EnvPlaces,
           Environment!TypeOK, Environment!Counts,
           Environment!Prompts, Environment!Fibers
<1>2. (fileSync # NoEnv => syncs[fileSync] > 0) /\ (watcher # NoEnv => watching[watcher] > 0)
    BY DEF EnvInv, EnvCounts
<1>3. ~met => {syncs, watching, writers, summaries} \subseteq {Environment!None} \cup {Environment!Only(e) : e \in Envs}
    BY DEF EnvInv, EnvShapes, EnvTypes, EnvTracked, Tracked
<1>4. ~met /\ ~failed /\ life = "up" /\ Environment!Rebinding \subseteq Environment!Renewing =>
          {syncs, watching, writers, summaries} = {Environment!Only(config)}
    <2>1. SUFFICES ASSUME ~met, ~failed, life = "up", Environment!Rebinding \subseteq Environment!Renewing
                   PROVE  {syncs, watching, writers, summaries} = {Environment!Only(config)}
        OBVIOUS
    <2>2. Changing = {}
        BY <2>1, EnvFree DEF Changing
    <2> QED
        BY <2>1, <2>2, EnvBounds DEF EnvInv, EnvTracked, EnvAimed, Tracked
<1>5. ~met /\ life = "stopped" /\ Environment!Rebinding = {} => {syncs, watching, writers, summaries} = {Environment!None}
    BY DEF EnvInv, EnvTracked, Tracked
<1>6. life = "up" /\ ~met /\ ~failed /\ ~unseen /\ ~crossed /\ timers = Environment!None
      /\ Environment!Rebinding \cup Environment!Renewing = {} => prompt = Environment!Current
    <2>1. SUFFICES ASSUME life = "up", ~met, ~failed, ~unseen, ~crossed, timers = Environment!None,
                          Environment!Rebinding \cup Environment!Renewing = {}
                   PROVE  prompt = Environment!Current
        OBVIOUS
    <2>2. ~Again /\ Late = {}
        BY <2>1, EnvBounds DEF Again, Late, Changing, Environment!Rebinding, Environment!Renewing,
           Environment!Fibers
    <2>3. ~Waited
        BY <2>1, EnvOnly DEF Waited
    <2> QED
        BY <2>1, <2>2, <2>3 DEF EnvInv, EnvFresh, Renewed
<1>7. Environment!EnvironmentHeld
    BY <1>2, <1>3, <1>4, <1>5, <1>6, Zenon DEF Environment!EnvironmentHeld
<1> QED
    BY <1>1, <1>7

HIDE DEF Environment!running, Environment!fibers, Environment!counters, Environment!history,
    Environment!Fibers, Environment!Goes, Environment!Aims, Environment!Leaves, Environment!Fault

-----------------------------------------------------------------------------
(* DocumentIndex: one call at most puts in the chunks of a file, and those  *)
(* that are there are the whole of one text when none does; a file whose    *)
(* chunks are not those of its text has a change in the queue or in the     *)
(* hands of a call, or is yet to be read or scanned.                        *)

DocEvents == {"none", "add", "update", "delete"}
DocTypes ==
    /\ texts \in [Documents -> 0..MaxChanges] /\ changes \in 0..MaxChanges /\ blank \subseteq Index!Texts
    /\ chunks \subseteq Documents \X Index!Texts \X (1..2)
    /\ source \in {"none", "registered", "indexing", "indexed", "error", "removed"}
    /\ queue \in [Documents -> DocEvents]
    /\ documentAt \in [DocumentCalls -> {"idle", "file", "scan", "files", "queue", "event", "compare"}]
    /\ events \in [DocumentCalls -> [Documents -> DocEvents]]
    /\ indexing \in [DocumentCalls -> [Documents -> 0..MaxChanges]]
    /\ reading \in [DocumentCalls -> SUBSET Documents] /\ listing \in [DocumentCalls -> SUBSET Documents]
    /\ requests \in 0..MaxRequests /\ mixed \subseteq Documents /\ missed \subseteq Documents
DocFlags == watched \in BOOLEAN /\ dropped \in BOOLEAN

\* Who holds files or changes.
DocCalls ==
    \A c \in DocumentCalls :
        /\ documentAt[c] \in {"idle", "scan", "queue", "compare"} =>
             reading[c] = {} /\ \A f \in Documents : indexing[c][f] = 0
        /\ documentAt[c] \in {"idle", "file", "compare"} => \A f \in Documents : events[c][f] = "none"

\* The chunks of f are those of the text v, none for 0.
Holds(f, v) == \A u \in Index!Texts, n \in 1..2 : <<f, u, n>> \in chunks <=> u = v
Quiet == {f \in Documents : \A c \in DocumentCalls : indexing[c][f] = 0}
Empty == {f \in Documents : Holds(f, 0)}
Right == {f \in Documents : Holds(f, texts[f])}
DocWhole ==
    \A f \in Documents \ mixed :
        /\ \A c, d \in DocumentCalls : indexing[c][f] # 0 /\ indexing[d][f] # 0 => c = d
        /\ \A c \in DocumentCalls : indexing[c][f] # 0 =>
             \A u \in Index!Texts, n \in 1..2 : <<f, u, n>> \in chunks => u = indexing[c][f] /\ n = 1
        /\ f \in Quiet => \E v \in 0..MaxChanges : Holds(f, v)

\* Of which the index, the queue or a call knows what they are, or the history
\* that none does.
Known ==
    {f \in Documents :
        \/ f \in mixed \cup missed \/ queue[f] # "none" \/ f \in Quiet \cap Right
        \/ \E c \in DocumentCalls :
             \/ events[c][f] # "none" \/ f \in reading[c]
             \/ indexing[c][f] # 0 /\ indexing[c][f] = texts[f]
             \/ documentAt[c] = "scan" /\ f \in Quiet \cap Empty}
DocCovered == Documents \subseteq Known
DocDropped ==
    dropped => source = "removed" /\ chunks = {} /\ \A c \in DocumentCalls : documentAt[c] \in {"idle", "queue"}

DocInv == DocTypes /\ DocFlags /\ DocCalls /\ DocWhole /\ DocCovered /\ DocDropped

LEMMA DocBounds == MaxChanges \in Nat /\ MaxRequests \in Nat /\ QueueSize \in Nat /\ Index!Texts = 1..MaxChanges
BY StoresLimits DEF Index!IndexBounds, Index!Texts

USE DEF Index!user, Index!index, Index!watch, Index!call, Index!history, Index!NoEvents, Index!Begins, Index!Reads

LEMMA DocFlagsStep == ASSUME DocFlags, Index!Next PROVE DocFlags'
<1>1. CASE \/ \E f \in Documents : Index!Unlink(f)
           \/ \E f \in Documents, empty \in BOOLEAN : Index!Edit(f, empty)
           \/ Index!Watch \/ Index!Unwatch
           \/ \E c \in DocumentCalls : Index!Process(c)
           \/ \E c \in DocumentCalls : Index!Compared(c)
    BY <1>1, Zenon DEF DocFlags, Index!Unlink, Index!Change, Index!Edit, Index!Watch, Index!Unwatch,
       Index!Waiting, Index!Process, Index!Compared
<1>2. CASE \/ \E c \in DocumentCalls, f \in Documents : Index!IndexDocument(c, f)
           \/ \E c \in DocumentCalls : Index!Reindex(c)
           \/ \E c \in DocumentCalls : Index!QueueDone(c)
           \/ \E c \in DocumentCalls : Index!Recover(c)
           \/ \E c \in DocumentCalls : Index!Scanned(c)
           \/ \E c \in DocumentCalls : Index!ScanFails(c)
           \/ \E c \in DocumentCalls : Index!FilesDone(c)
    BY <1>2, Zenon DEF DocFlags, Index!IndexDocument, Index!Reindex, Index!QueueDone, Index!Recover,
       Index!Scanned, Index!ScanFails, Index!Waiting, Index!FilesDone
<1>3. CASE \/ \E c \in DocumentCalls : Index!RemoveSource(c)
    BY <1>3, Zenon DEF DocFlags, Index!RemoveSource, Index!Removed, Index!Busy, Index!InProgress
<1>4. CASE \/ \E c \in DocumentCalls, f \in Documents : Index!TakeEvent(c, f)
    BY <1>4, Zenon DEF DocFlags, Index!TakeEvent, Index!Removed, Index!InProgress
<1>5. CASE \/ \E c \in DocumentCalls, f \in Documents : Index!Read(c, f)
           \/ \E c \in DocumentCalls, f \in Documents : Index!ReadNothing(c, f)
           \/ \E c \in DocumentCalls, f \in Documents : Index!ReadFails(c, f)
           \/ \E c \in DocumentCalls, f \in Documents : Index!Embedded(c, f)
           \/ \E c \in DocumentCalls, f \in Documents : Index!EmbeddingFails(c, f)
    BY <1>5, Zenon DEF DocFlags, Index!Read, Index!InProgress, Index!ReadNothing, Index!ReadFails,
       Index!Embedded, Index!EmbeddingFails
<1> QED
    BY <1>1, <1>2, <1>3, <1>4, <1>5, Zenon DEF Index!Next

\* Which steps concern the chunks.
LEMMA DocMoves ==
    ASSUME Index!Next
    PROVE  \/ UNCHANGED <<chunks, indexing, mixed>>
           \/ Index!Removed /\ UNCHANGED indexing
           \/ \E c \in DocumentCalls, f \in Documents :
                Index!Read(c, f) \/ Index!Embedded(c, f) \/ Index!EmbeddingFails(c, f)
<1>1. CASE \/ \E f \in Documents : Index!Unlink(f)
           \/ \E f \in Documents, empty \in BOOLEAN : Index!Edit(f, empty)
           \/ Index!Watch \/ Index!Unwatch
           \/ \E c \in DocumentCalls : Index!Process(c)
           \/ \E c \in DocumentCalls : Index!Compared(c)
    BY <1>1 DEF Index!Unlink, Index!Change, Index!Edit, Index!Watch, Index!Unwatch, Index!Process,
       Index!Compared
<1>2. CASE \/ \E c \in DocumentCalls, f \in Documents : Index!IndexDocument(c, f)
           \/ \E c \in DocumentCalls : Index!Reindex(c)
           \/ \E c \in DocumentCalls : Index!QueueDone(c)
           \/ \E c \in DocumentCalls : Index!Recover(c)
           \/ \E c \in DocumentCalls : Index!Scanned(c)
           \/ \E c \in DocumentCalls : Index!ScanFails(c)
           \/ \E c \in DocumentCalls : Index!FilesDone(c)
    BY <1>2 DEF Index!IndexDocument, Index!Reindex, Index!QueueDone, Index!Recover, Index!Scanned,
       Index!ScanFails, Index!FilesDone
<1>3. CASE \/ \E c \in DocumentCalls : Index!RemoveSource(c)
    BY <1>3 DEF Index!RemoveSource
<1>4. CASE \/ \E c \in DocumentCalls, f \in Documents : Index!TakeEvent(c, f)
    BY <1>4 DEF Index!TakeEvent
<1>5. CASE \/ \E c \in DocumentCalls, f \in Documents : Index!Read(c, f)
           \/ \E c \in DocumentCalls, f \in Documents : Index!ReadNothing(c, f)
           \/ \E c \in DocumentCalls, f \in Documents : Index!ReadFails(c, f)
           \/ \E c \in DocumentCalls, f \in Documents : Index!Embedded(c, f)
           \/ \E c \in DocumentCalls, f \in Documents : Index!EmbeddingFails(c, f)
    BY <1>5 DEF Index!ReadNothing, Index!ReadFails
<1> QED
    BY <1>1, <1>2, <1>3, <1>4, <1>5, Zenon DEF Index!Next

LEMMA DocTypesStep == ASSUME DocTypes, Index!Next PROVE DocTypes'
<1>0. CASE \E f \in Documents : Index!Unlink(f)
    BY <1>0, DocBounds DEF DocTypes, DocEvents, Index!Unlink, Index!Change
<1>1. CASE \E f \in Documents, empty \in BOOLEAN : Index!Edit(f, empty)
    <2>1. PICK f \in Documents, empty \in BOOLEAN : Index!Edit(f, empty)
        BY <1>1
    <2>2. changes' \in 0..MaxChanges /\ changes' \in Index!Texts /\ changes' \in Nat
        BY <2>1, DocBounds DEF DocTypes, Index!Edit
    <2>3. blank' \subseteq Index!Texts
        BY <2>1, <2>2 DEF DocTypes, Index!Edit
    <2>4. Index!Change(f, changes', IF texts[f] = 0 THEN "add" ELSE "update")
        BY <2>1 DEF Index!Edit
    <2> QED
        BY <2>2, <2>3, <2>4 DEF DocTypes, DocEvents, Index!Change
<1>2. CASE Index!Watch \/ Index!Unwatch
    BY <1>2, DocBounds DEF DocTypes, DocEvents, Index!Watch, Index!Unwatch, Index!Waiting
<1>3. CASE \E c \in DocumentCalls, f \in Documents : Index!IndexDocument(c, f)
    BY <1>3, DocBounds DEF DocTypes, DocEvents, Index!IndexDocument
<1>4. CASE \E c \in DocumentCalls : Index!Reindex(c)
    BY <1>4, DocBounds DEF DocTypes, DocEvents, Index!Reindex
<1>17. CASE \E c \in DocumentCalls : Index!QueueDone(c)
    BY <1>17, DocBounds DEF DocTypes, DocEvents, Index!QueueDone
<1>5. CASE \E c \in DocumentCalls : Index!RemoveSource(c)
    BY <1>5, DocBounds DEF DocTypes, DocEvents, Index!RemoveSource, Index!Removed, Index!Busy,
       Index!InProgress
<1>6. CASE \E c \in DocumentCalls : Index!Process(c)
    BY <1>6, DocBounds DEF DocTypes, DocEvents, Index!Process, Index!Waiting
<1>7. CASE \E c \in DocumentCalls : Index!Recover(c)
    BY <1>7, DocBounds DEF DocTypes, DocEvents, Index!Recover
<1>8. CASE \E c \in DocumentCalls : Index!Compared(c)
    BY <1>8, DocBounds DEF DocTypes, DocEvents, Index!Compared
<1>9. CASE \E c \in DocumentCalls : Index!Scanned(c)
    BY <1>9, DocBounds DEF DocTypes, DocEvents, Index!Scanned
<1>10. CASE \E c \in DocumentCalls : Index!ScanFails(c)
    BY <1>10, DocBounds DEF DocTypes, DocEvents, Index!ScanFails, Index!Waiting
<1>11. CASE \E c \in DocumentCalls : Index!FilesDone(c)
    BY <1>11, DocBounds DEF DocTypes, DocEvents, Index!FilesDone, Index!Waiting
<1>12. CASE \E c \in DocumentCalls, f \in Documents : Index!TakeEvent(c, f)
    <2>1. PICK c \in DocumentCalls, f \in Documents : Index!TakeEvent(c, f)
        BY <1>12
    <2>2. events' \in [DocumentCalls -> [Documents -> DocEvents]]
        BY <2>1 DEF DocTypes, DocEvents, Index!TakeEvent
    <2>3. documentAt' \in [DocumentCalls -> {"idle", "file", "scan", "files", "queue", "event", "compare"}]
        BY <2>1 DEF DocTypes, Index!TakeEvent
    <2>4. /\ chunks' \subseteq Documents \X Index!Texts \X (1..2)
          /\ source' \in {"none", "registered", "indexing", "indexed", "error", "removed"}
          /\ mixed' \subseteq Documents /\ missed' \subseteq Documents
        BY <2>1 DEF DocTypes, Index!TakeEvent, Index!Removed
    <2>5. reading' \in [DocumentCalls -> SUBSET Documents]
        BY <2>1 DEF DocTypes, Index!TakeEvent
    <2> QED
        BY <2>1, <2>2, <2>3, <2>4, <2>5 DEF DocTypes, Index!TakeEvent
<1>13. CASE \E c \in DocumentCalls, f \in Documents : Index!Read(c, f)
    BY <1>13, DocBounds, SMTT(30) DEF DocTypes, DocEvents, Index!Read, Index!InProgress
<1>14. CASE \E c \in DocumentCalls, f \in Documents : Index!ReadNothing(c, f)
    BY <1>14, DocBounds DEF DocTypes, DocEvents, Index!ReadNothing
<1>18. CASE \E c \in DocumentCalls, f \in Documents : Index!ReadFails(c, f)
    BY <1>18, DocBounds DEF DocTypes, DocEvents, Index!ReadFails
<1>15. CASE \E c \in DocumentCalls, f \in Documents : Index!Embedded(c, f)
    BY <1>15, DocBounds DEF DocTypes, DocEvents, Index!Embedded
<1>16. CASE \E c \in DocumentCalls, f \in Documents : Index!EmbeddingFails(c, f)
    BY <1>16, DocBounds DEF DocTypes, DocEvents, Index!EmbeddingFails
<1> QED
    BY <1>0, <1>1, <1>2, <1>3, <1>4, <1>17, <1>5, <1>6, <1>7, <1>8, <1>9, <1>10, <1>11, <1>12,
       <1>13, <1>14, <1>18, <1>15, <1>16, Zenon DEF Index!Next

LEMMA DocCallsStep == ASSUME DocTypes, DocCalls, Index!Next PROVE DocCalls'
<1>0. CASE \E f \in Documents : Index!Unlink(f)
    BY <1>0, DocBounds DEF DocTypes, DocCalls, Index!Unlink, Index!Change
<1>1. CASE \E f \in Documents, empty \in BOOLEAN : Index!Edit(f, empty)
    BY <1>1, DocBounds DEF DocTypes, DocCalls, Index!Edit, Index!Change
<1>2. CASE Index!Watch \/ Index!Unwatch
    BY <1>2, DocBounds DEF DocTypes, DocCalls, Index!Watch, Index!Unwatch, Index!Waiting
<1>3. CASE \E c \in DocumentCalls, f \in Documents : Index!IndexDocument(c, f)
    BY <1>3, DocBounds DEF DocTypes, DocCalls, Index!IndexDocument
<1>4. CASE \E c \in DocumentCalls : Index!Reindex(c)
    BY <1>4, DocBounds DEF DocTypes, DocCalls, Index!Reindex
<1>17. CASE \E c \in DocumentCalls : Index!QueueDone(c)
    <2> SUFFICES ASSUME NEW c \in DocumentCalls, Index!QueueDone(c) PROVE DocCalls'
        BY <1>17
    <2>1. \A f \in Documents : events[c][f] = "none"
        BY DEF Index!QueueDone, Index!Waiting
    <2> QED
        BY <2>1 DEF DocTypes, DocCalls, Index!QueueDone
<1>5. CASE \E c \in DocumentCalls : Index!RemoveSource(c)
    BY <1>5, DocBounds DEF DocTypes, DocCalls, Index!RemoveSource, Index!Removed, Index!Busy,
       Index!InProgress
<1>6. CASE \E c \in DocumentCalls : Index!Process(c)
    BY <1>6, DocBounds DEF DocTypes, DocCalls, Index!Process, Index!Waiting
<1>7. CASE \E c \in DocumentCalls : Index!Recover(c)
    BY <1>7, DocBounds DEF DocTypes, DocCalls, Index!Recover
<1>8. CASE \E c \in DocumentCalls : Index!Compared(c)
    BY <1>8, DocBounds DEF DocTypes, DocCalls, Index!Compared
<1>9. CASE \E c \in DocumentCalls : Index!Scanned(c)
    BY <1>9, DocBounds DEF DocTypes, DocCalls, Index!Scanned
<1>10. CASE \E c \in DocumentCalls : Index!ScanFails(c)
    BY <1>10, DocBounds DEF DocTypes, DocCalls, Index!ScanFails, Index!Waiting
<1>11. CASE \E c \in DocumentCalls : Index!FilesDone(c)
    BY <1>11, DocBounds DEF DocTypes, DocCalls, Index!FilesDone, Index!Waiting
<1>12. CASE \E c \in DocumentCalls, f \in Documents : Index!TakeEvent(c, f)
    BY <1>12, DocBounds DEF DocTypes, DocCalls, Index!TakeEvent, Index!Removed, Index!InProgress
<1>13. CASE \E c \in DocumentCalls, f \in Documents : Index!Read(c, f)
    BY <1>13, DocBounds DEF DocTypes, DocCalls, Index!Read, Index!InProgress
<1>14. CASE \E c \in DocumentCalls, f \in Documents : Index!ReadNothing(c, f)
    BY <1>14, DocBounds DEF DocTypes, DocCalls, Index!ReadNothing
<1>18. CASE \E c \in DocumentCalls, f \in Documents : Index!ReadFails(c, f)
    BY <1>18, DocBounds DEF DocTypes, DocCalls, Index!ReadFails
<1>15. CASE \E c \in DocumentCalls, f \in Documents : Index!Embedded(c, f)
    BY <1>15, DocBounds DEF DocTypes, DocCalls, Index!Embedded
<1>16. CASE \E c \in DocumentCalls, f \in Documents : Index!EmbeddingFails(c, f)
    BY <1>16, DocBounds DEF DocTypes, DocCalls, Index!EmbeddingFails
<1> QED
    BY <1>0, <1>1, <1>2, <1>3, <1>4, <1>17, <1>5, <1>6, <1>7, <1>8, <1>9, <1>10, <1>11, <1>12,
       <1>13, <1>14, <1>18, <1>15, <1>16, Zenon DEF Index!Next

LEMMA DocDroppedStep == ASSUME DocTypes, DocFlags, DocCalls, DocDropped, Index!Next PROVE DocDropped'
<1>0. CASE \E f \in Documents : Index!Unlink(f)
    BY <1>0, DocBounds DEF DocTypes, DocFlags, DocCalls, DocDropped, Index!Unlink, Index!Change
<1>1. CASE \E f \in Documents, empty \in BOOLEAN : Index!Edit(f, empty)
    BY <1>1, DocBounds DEF DocTypes, DocFlags, DocCalls, DocDropped, Index!Edit, Index!Change
<1>2. CASE Index!Watch \/ Index!Unwatch
    BY <1>2, DocBounds DEF DocTypes, DocFlags, DocCalls, DocDropped, Index!Watch, Index!Unwatch,
       Index!Waiting
<1>3. CASE \E c \in DocumentCalls, f \in Documents : Index!IndexDocument(c, f)
    BY <1>3, DocBounds DEF DocTypes, DocFlags, DocCalls, DocDropped, Index!IndexDocument
<1>4. CASE \E c \in DocumentCalls : Index!Reindex(c)
    BY <1>4, DocBounds DEF DocTypes, DocFlags, DocCalls, DocDropped, Index!Reindex
<1>17. CASE \E c \in DocumentCalls : Index!QueueDone(c)
    BY <1>17, DocBounds DEF DocTypes, DocFlags, DocCalls, DocDropped, Index!QueueDone
<1>5. CASE \E c \in DocumentCalls : Index!RemoveSource(c)
    BY <1>5, DocBounds DEF DocTypes, DocFlags, DocCalls, DocDropped, Index!RemoveSource,
       Index!Removed, Index!Busy, Index!InProgress
<1>6. CASE \E c \in DocumentCalls : Index!Process(c)
    BY <1>6, DocBounds DEF DocTypes, DocFlags, DocCalls, DocDropped, Index!Process, Index!Waiting
<1>7. CASE \E c \in DocumentCalls : Index!Recover(c)
    BY <1>7, DocBounds DEF DocTypes, DocFlags, DocCalls, DocDropped, Index!Recover
<1>8. CASE \E c \in DocumentCalls : Index!Compared(c)
    BY <1>8, DocBounds DEF DocTypes, DocFlags, DocCalls, DocDropped, Index!Compared
<1>9. CASE \E c \in DocumentCalls : Index!Scanned(c)
    BY <1>9, DocBounds DEF DocTypes, DocFlags, DocCalls, DocDropped, Index!Scanned
<1>10. CASE \E c \in DocumentCalls : Index!ScanFails(c)
    BY <1>10, DocBounds DEF DocTypes, DocFlags, DocCalls, DocDropped, Index!ScanFails, Index!Waiting
<1>11. CASE \E c \in DocumentCalls : Index!FilesDone(c)
    <2> SUFFICES ASSUME NEW c \in DocumentCalls, Index!FilesDone(c) PROVE DocDropped'
        BY <1>11
    <2>1. CASE dropped
        BY <2>1, Zenon DEF DocDropped, Index!FilesDone
    <2>2. CASE ~dropped
        BY <2>2 DEF DocDropped, Index!FilesDone
    <2> QED
        BY <2>1, <2>2
<1>12. CASE \E c \in DocumentCalls, f \in Documents : Index!TakeEvent(c, f)
    BY <1>12, DocBounds DEF DocTypes, DocFlags, DocCalls, DocDropped, Index!TakeEvent,
       Index!Removed, Index!InProgress
<1>13. CASE \E c \in DocumentCalls, f \in Documents : Index!Read(c, f)
    BY <1>13, DocBounds DEF DocTypes, DocFlags, DocCalls, DocDropped, Index!Read, Index!InProgress
<1>14. CASE \E c \in DocumentCalls, f \in Documents : Index!ReadNothing(c, f)
    BY <1>14, DocBounds DEF DocTypes, DocFlags, DocCalls, DocDropped, Index!ReadNothing
<1>18. CASE \E c \in DocumentCalls, f \in Documents : Index!ReadFails(c, f)
    BY <1>18, DocBounds DEF DocTypes, DocFlags, DocCalls, DocDropped, Index!ReadFails
<1>15. CASE \E c \in DocumentCalls, f \in Documents : Index!Embedded(c, f)
    <2> SUFFICES ASSUME NEW c \in DocumentCalls, NEW f \in Documents, Index!Embedded(c, f) PROVE DocDropped'
        BY <1>15
    <2>1. ~dropped
        BY DEF DocDropped, DocCalls, Index!Embedded
    <2> QED
        BY <2>1 DEF DocDropped, Index!Embedded
<1>16. CASE \E c \in DocumentCalls, f \in Documents : Index!EmbeddingFails(c, f)
    BY <1>16, DocBounds DEF DocTypes, DocFlags, DocCalls, DocDropped, Index!EmbeddingFails
<1> QED
    BY <1>0, <1>1, <1>2, <1>3, <1>4, <1>17, <1>5, <1>6, <1>7, <1>8, <1>9, <1>10, <1>11, <1>12,
       <1>13, <1>14, <1>18, <1>15, <1>16, Zenon DEF Index!Next

\* What reading a file, the embedding of a batch and its failure do to the chunks.
LEMMA Triples ==
    ASSUME NEW S, NEW x, NEW y, NEW z, NEW a, NEW b, NEW c
    PROVE  <<a, b, c>> \in S \cup {<<x, y, z>>} <=> <<a, b, c>> \in S \/ (a = x /\ b = y /\ c = z)
OBVIOUS
LEMMA DocReads ==
    ASSUME DocTypes, NEW c \in DocumentCalls, NEW f \in Documents, Index!Read(c, f)
    PROVE  /\ \A g \in Documents, u \in Index!Texts, n \in 1..2 :
                <<g, u, n>> \in chunks' <=> <<g, u, n>> \in chunks /\ g # f
           /\ \A d \in DocumentCalls, g \in Documents :
                indexing'[d][g] = IF d = c /\ g = f THEN texts[f] ELSE indexing[d][g]
           /\ texts[f] \in Index!Texts
           /\ f \in Quiet \/ f \in mixed'
<1>1. \A g \in Documents, u \in Index!Texts, n \in 1..2 :
        <<g, u, n>> \in chunks' <=> <<g, u, n>> \in chunks /\ g # f
    BY DEF Index!Read, Index!Of
<1>2. \A d \in DocumentCalls, g \in Documents :
        indexing'[d][g] = IF d = c /\ g = f THEN texts[f] ELSE indexing[d][g]
    BY DEF DocTypes, Index!Read
<1>3. texts[f] \in Index!Texts
    BY DocBounds DEF DocTypes, Index!Read
<1>4. f \in Quiet \/ f \in mixed'
    BY DEF Index!Read, Index!InProgress, Quiet
<1> QED
    BY <1>1, <1>2, <1>3, <1>4
Puts(c, f, k) ==
    /\ \A g \in Documents, u \in Index!Texts, n \in 1..2 :
         <<g, u, n>> \in chunks' <=> <<g, u, n>> \in chunks \/ (g = f /\ u = indexing[c][f] /\ n = k)
    /\ \A d \in DocumentCalls, g \in Documents :
         indexing'[d][g] = IF d = c /\ g = f /\ k = 2 THEN 0 ELSE indexing[d][g]
    /\ f \in mixed \/ (k = 2 <=> <<f, indexing[c][f], 1>> \in chunks)
LEMMA DocEmbeds ==
    ASSUME DocTypes, NEW c \in DocumentCalls, NEW f \in Documents, Index!Embedded(c, f)
    PROVE  indexing[c][f] \in Index!Texts /\ \E k \in 1..2 : Puts(c, f, k)
<1>1. PICK k \in 1..2 :
        /\ chunks' = chunks \cup {<<f, indexing[c][f], k>>}
        /\ indexing' = IF k = 2 THEN [indexing EXCEPT ![c][f] = 0] ELSE indexing
        /\ f \in mixed \/ (k = 2 <=> <<f, indexing[c][f], 1>> \in chunks)
    BY DEF Index!Embedded
<1>2. indexing[c][f] \in Index!Texts
    BY DocBounds DEF DocTypes, Index!Embedded
<1>3. ASSUME NEW g \in Documents, NEW u \in Index!Texts, NEW n \in 1..2
      PROVE  <<g, u, n>> \in chunks' <=> <<g, u, n>> \in chunks \/ (g = f /\ u = indexing[c][f] /\ n = k)
    BY <1>1, Triples
<1>4. \A d \in DocumentCalls, g \in Documents :
        indexing'[d][g] = IF d = c /\ g = f /\ k = 2 THEN 0 ELSE indexing[d][g]
    BY <1>1 DEF DocTypes
<1> QED
    BY <1>1, <1>2, <1>3, <1>4 DEF Puts
LEMMA DocFails ==
    ASSUME DocTypes, NEW c \in DocumentCalls, NEW f \in Documents, Index!EmbeddingFails(c, f)
    PROVE  /\ \A d \in DocumentCalls, g \in Documents : g # f => indexing'[d][g] = indexing[d][g]
           /\ mixed' = mixed \cup {f} /\ chunks' = chunks
BY DEF DocTypes, Index!EmbeddingFails

\* Of a file that is not concerned.
LEMMA DocSame ==
    ASSUME UNCHANGED <<chunks, indexing>>
    PROVE  /\ Quiet' = Quiet /\ Empty' = Empty
           /\ UNCHANGED texts => Right' = Right
<1>1. Quiet' = Quiet
    BY DEF Quiet
<1>2. Empty' = Empty
    BY DEF Empty, Holds
<1>3. UNCHANGED texts => Right' = Right
    BY DEF Right, Holds
<1> QED
    BY <1>1, <1>2, <1>3
LEMMA DocOther ==
    ASSUME NEW g \in Documents, \A d \in DocumentCalls : indexing'[d][g] = indexing[d][g],
           \A u \in Index!Texts, n \in 1..2 : <<g, u, n>> \in chunks' <=> <<g, u, n>> \in chunks
    PROVE  /\ g \in Quiet' <=> g \in Quiet
           /\ \A v : Holds(g, v)' <=> Holds(g, v)
           /\ g \in Empty' <=> g \in Empty
           /\ texts'[g] = texts[g] => (g \in Right' <=> g \in Right)
<1>1. g \in Quiet' <=> g \in Quiet
    BY DEF Quiet
<1>2. \A v : Holds(g, v)' <=> Holds(g, v)
    BY DEF Holds
<1>3. g \in Empty' <=> g \in Empty
    BY DEF Empty, Holds
<1>4. texts'[g] = texts[g] => (g \in Right' <=> g \in Right)
    BY DEF Right, Holds
<1> QED
    BY <1>1, <1>2, <1>3, <1>4

LEMMA DocWholeStep == ASSUME DocTypes, DocCalls, DocWhole, Index!Next PROVE DocWhole'
<1>1. CASE UNCHANGED <<chunks, indexing, mixed>>
    BY <1>1 DEF DocWhole, Holds, Quiet
<1>2. CASE Index!Removed /\ UNCHANGED indexing
    BY <1>2, DocBounds DEF DocWhole, Holds, Quiet, Index!Removed, Index!InProgress
<1>3. CASE \E c \in DocumentCalls, f \in Documents : Index!Read(c, f)
    <2> SUFFICES ASSUME NEW c \in DocumentCalls, NEW f \in Documents, Index!Read(c, f) PROVE DocWhole'
        BY <1>3
    <2>1. \A g \in Documents \ mixed' : g # f => g \notin mixed
        BY DEF Index!Read
    <2> SUFFICES ASSUME NEW g \in Documents \ mixed'
                 PROVE  /\ \A a, d \in DocumentCalls : indexing'[a][g] # 0 /\ indexing'[d][g] # 0 => a = d
                        /\ \A a \in DocumentCalls : indexing'[a][g] # 0 =>
                             \A u \in Index!Texts, n \in 1..2 : <<g, u, n>> \in chunks' => u = indexing'[a][g] /\ n = 1
                        /\ (\A a \in DocumentCalls : indexing'[a][g] = 0) =>
                             \E v \in 0..MaxChanges : \A u \in Index!Texts, n \in 1..2 : <<g, u, n>> \in chunks' <=> u = v
        BY DEF DocWhole, Holds, Quiet
    <2>2. CASE g = f
        BY <2>1, <2>2, DocReads, DocBounds DEF Quiet
    <2>3. CASE g # f
        BY <2>1, <2>3, DocReads DEF DocWhole, Holds, Quiet
    <2> QED
        BY <2>2, <2>3
<1>4. CASE \E c \in DocumentCalls, f \in Documents : Index!Embedded(c, f)
    <2> SUFFICES ASSUME NEW c \in DocumentCalls, NEW f \in Documents, Index!Embedded(c, f) PROVE DocWhole'
        BY <1>4
    <2>1. mixed' = mixed
        BY DEF Index!Embedded
    <2> SUFFICES ASSUME NEW g \in Documents \ mixed'
                 PROVE  /\ \A a, d \in DocumentCalls : indexing'[a][g] # 0 /\ indexing'[d][g] # 0 => a = d
                        /\ \A a \in DocumentCalls : indexing'[a][g] # 0 =>
                             \A u \in Index!Texts, n \in 1..2 : <<g, u, n>> \in chunks' => u = indexing'[a][g] /\ n = 1
                        /\ (\A a \in DocumentCalls : indexing'[a][g] = 0) =>
                             \E v \in 0..MaxChanges : \A u \in Index!Texts, n \in 1..2 : <<g, u, n>> \in chunks' <=> u = v
        BY DEF DocWhole, Holds, Quiet
    <2>2. PICK k \in 1..2 : Puts(c, f, k)
        BY DocEmbeds
    <2>3. CASE g = f
        <3>1. /\ \A d \in DocumentCalls : indexing[d][f] # 0 => d = c
              /\ \A u \in Index!Texts, n \in 1..2 : <<f, u, n>> \in chunks => u = indexing[c][f] /\ n = 1
            BY <2>1, <2>3, DocEmbeds, DocBounds DEF DocWhole
        <3>2. indexing[c][f] \in Index!Texts /\ f \notin mixed
            BY <2>1, <2>3, DocEmbeds
        <3>3. \A u \in Index!Texts, n \in 1..2 :
                <<f, u, n>> \in chunks' <=> <<f, u, n>> \in chunks \/ (u = indexing[c][f] /\ n = k)
            BY <2>2, Zenon DEF Puts
        <3>4. /\ \A d \in DocumentCalls : indexing'[d][f] = IF d = c /\ k = 2 THEN 0 ELSE indexing[d][f]
              /\ k = 2 <=> <<f, indexing[c][f], 1>> \in chunks
            BY <2>2, <3>2 DEF Puts
        <3>5. CASE k = 1
            <4>1. \A u \in Index!Texts, n \in 1..2 : <<f, u, n>> \in chunks' => u = indexing[c][f] /\ n = 1
                BY <3>1, <3>3, <3>5
            <4>2. \A d \in DocumentCalls : indexing'[d][f] = indexing[d][f]
                BY <3>4, <3>5
            <4>3. indexing[c][f] # 0
                BY <3>2, DocBounds
            <4> QED
                BY <2>3, <3>1, <4>1, <4>2, <4>3
        <3>6. CASE k = 2
            <4>1. \A u \in Index!Texts, n \in 1..2 : <<f, u, n>> \in chunks' <=> u = indexing[c][f]
                <5> TAKE u \in Index!Texts, n \in 1..2
                <5>1. CASE n = 1
                    BY <3>1, <3>2, <3>3, <3>4, <3>6, <5>1, Zenon
                <5>2. CASE n = 2
                    BY <3>1, <3>3, <3>6, <5>2
                <5> QED
                    BY <5>1, <5>2
            <4>2. \A d \in DocumentCalls : indexing'[d][f] = 0
                BY <3>1, <3>4, <3>6
            <4>3. indexing[c][f] \in 0..MaxChanges
                BY DocBounds, <3>2
            <4> QED
                BY <2>3, <4>1, <4>2, <4>3, Zenon
        <3> QED
            BY <3>5, <3>6
    <2>4. CASE g # f
        <3>1. \A d \in DocumentCalls : indexing'[d][g] = indexing[d][g]
            BY <2>2, <2>4 DEF Puts
        <3>2. \A u \in Index!Texts, n \in 1..2 : <<g, u, n>> \in chunks' <=> <<g, u, n>> \in chunks
            BY <2>2, <2>4, Zenon DEF Puts
        <3> QED
            BY <2>1, <3>1, <3>2 DEF DocWhole, Holds, Quiet
    <2> QED
        BY <2>3, <2>4
<1>5. CASE \E c \in DocumentCalls, f \in Documents : Index!EmbeddingFails(c, f)
    BY <1>5, DocFails DEF DocWhole, Holds, Quiet
<1> QED
    BY <1>1, <1>2, <1>3, <1>4, <1>5, DocMoves

LEMMA DocChange ==
    ASSUME DocTypes, DocCovered, NEW f \in Documents, NEW v, NEW k, k # "none", Index!Change(f, v, k)
    PROVE  DocCovered'
<1>1. f \in missed' \/ queue'[f] # "none"
    BY DEF DocTypes, Index!Change
<1>2. /\ \A g \in Documents : g # f => texts'[g] = texts[g] /\ queue'[g] = queue[g]
      /\ missed \subseteq missed'
    BY DEF DocTypes, Index!Change
<1>3. UNCHANGED <<chunks, indexing, events, reading, documentAt, mixed>>
    BY Zenon DEF Index!Change
<1>4. Quiet' = Quiet /\ Empty' = Empty
    BY <1>3, DocSame, Zenon
<1>5. \A g \in Documents : g # f => (g \in Right' <=> g \in Right)
    BY <1>2, <1>3, DocOther
<1> QED
    BY <1>1, <1>2, <1>3, <1>4, <1>5 DEF DocCovered, Known

\* Whatever happens to other files.
LEMMA DocStays ==
    ASSUME DocCovered, NEW g \in Documents,
           UNCHANGED <<texts, queue, events, documentAt>>,
           g \in mixed \cup missed => g \in mixed' \cup missed',
           \A d \in DocumentCalls : indexing'[d][g] = indexing[d][g] /\ (g \in reading[d] => g \in reading'[d]),
           \A u \in Index!Texts, n \in 1..2 : <<g, u, n>> \in chunks' <=> <<g, u, n>> \in chunks
    PROVE  g \in Known'
<1>1. /\ g \in Quiet' <=> g \in Quiet
      /\ g \in Empty' <=> g \in Empty
      /\ g \in Right' <=> g \in Right
    BY DocOther
<1> QED
    BY <1>1 DEF DocCovered, Known

LEMMA DocTakes ==
    ASSUME DocTypes, DocCalls, DocCovered, NEW c \in DocumentCalls, NEW f \in Documents, Index!TakeEvent(c, f)
    PROVE  DocCovered'
<1>1. /\ UNCHANGED <<texts, indexing, queue>>
      /\ documentAt[c] = "queue" /\ reading[c] = {} /\ c \in DocumentCalls
      /\ \A d \in DocumentCalls, g \in Documents : events[d][g] # "none" => events'[d][g] # "none" \/ g = f
    BY DEF DocTypes, DocCalls, Index!TakeEvent
<1>2. CASE ~watched
    <2>1. missed' = missed \cup {f} /\ UNCHANGED <<chunks, documentAt, reading, mixed>>
        BY <1>2 DEF Index!TakeEvent
    <2>2. Quiet' = Quiet /\ Empty' = Empty /\ Right' = Right
        BY <1>1, <2>1, DocSame
    <2> QED
        BY <1>1, <2>1, <2>2 DEF DocCovered, Known
<1>3. CASE watched /\ events[c][f] # "delete"
    <2>1. /\ documentAt' = [documentAt EXCEPT ![c] = "event"] /\ reading' = [reading EXCEPT ![c] = {f}]
          /\ UNCHANGED <<chunks, mixed, missed>>
        BY <1>3 DEF Index!TakeEvent
    <2>2. Quiet' = Quiet /\ Empty' = Empty /\ Right' = Right
        BY <1>1, <2>1, DocSame
    <2> QED
        BY <1>1, <2>1, <2>2, ZenonT(60) DEF DocTypes, DocCovered, Known
<1>4. CASE watched /\ events[c][f] = "delete"
    <2>1. /\ Index!Removed
          /\ missed' = Documents \/ documentAt'[c] = "scan"
        BY <1>4 DEF DocTypes, Index!TakeEvent
    <2>2. \A g \in Documents : g \in mixed' \/ g \in Quiet' \cap Empty'
        BY <1>1, <2>1, DocBounds DEF Index!Removed, Index!InProgress, Quiet, Empty, Holds
    <2> QED
        BY <1>1, <2>1, <2>2, Zenon DEF DocCovered, Known
<1> QED
    BY <1>2, <1>3, <1>4

LEMMA DocCoveredStep == ASSUME DocTypes, DocCalls, DocWhole, DocCovered, Index!Next PROVE DocCovered'
<1>0. CASE \E f \in Documents : Index!Unlink(f)
    BY <1>0, DocChange DEF Index!Unlink
<1>1. CASE \E f \in Documents, empty \in BOOLEAN : Index!Edit(f, empty)
    BY <1>1, DocChange DEF Index!Edit
<1>2. CASE Index!Watch \/ Index!Unwatch
    <2>1. UNCHANGED <<texts, chunks, indexing>>
        BY <1>2, Zenon DEF Index!Watch, Index!Unwatch
    <2>2. Quiet' = Quiet /\ Empty' = Empty /\ Right' = Right
        BY <2>1, DocSame, Zenon
    <2> QED
        BY <1>2, <2>1, <2>2 DEF DocTypes, DocCalls, DocCovered, Known, Index!Watch, Index!Unwatch,
           Index!Waiting
<1>3. CASE \E c \in DocumentCalls, f \in Documents : Index!IndexDocument(c, f)
    <2>1. UNCHANGED <<texts, chunks, indexing>>
        BY <1>3, Zenon DEF Index!IndexDocument
    <2>2. Quiet' = Quiet /\ Empty' = Empty /\ Right' = Right
        BY <2>1, DocSame, Zenon
    <2> QED
        BY <1>3, <2>1, <2>2 DEF DocTypes, DocCalls, DocCovered, Known, Index!IndexDocument
<1>4. CASE \E c \in DocumentCalls : Index!Reindex(c)
    <2>1. UNCHANGED <<texts, chunks, indexing>>
        BY <1>4, Zenon DEF Index!Reindex
    <2>2. Quiet' = Quiet /\ Empty' = Empty /\ Right' = Right
        BY <2>1, DocSame, Zenon
    <2> QED
        BY <1>4, <2>1, <2>2 DEF DocTypes, DocCalls, DocCovered, Known, Index!Reindex
<1>17. CASE \E c \in DocumentCalls : Index!QueueDone(c)
    <2>1. UNCHANGED <<texts, chunks, indexing>>
        BY <1>17, Zenon DEF Index!QueueDone
    <2>2. Quiet' = Quiet /\ Empty' = Empty /\ Right' = Right
        BY <2>1, DocSame, Zenon
    <2> QED
        BY <1>17, <2>1, <2>2 DEF DocTypes, DocCalls, DocCovered, Known, Index!QueueDone
<1>5. CASE \E c \in DocumentCalls : Index!RemoveSource(c)
    BY <1>5 DEF DocCovered, Known, Index!RemoveSource
<1>6. CASE \E c \in DocumentCalls : Index!Process(c)
    <2>1. UNCHANGED <<texts, chunks, indexing>>
        BY <1>6, Zenon DEF Index!Process
    <2>2. Quiet' = Quiet /\ Empty' = Empty /\ Right' = Right
        BY <2>1, DocSame, Zenon
    <2> QED
        BY <1>6, <2>1, <2>2 DEF DocTypes, DocCalls, DocCovered, Known, Index!Process, Index!Waiting
<1>7. CASE \E c \in DocumentCalls : Index!Recover(c)
    <2>1. UNCHANGED <<texts, chunks, indexing>>
        BY <1>7, Zenon DEF Index!Recover
    <2>2. Quiet' = Quiet /\ Empty' = Empty /\ Right' = Right
        BY <2>1, DocSame, Zenon
    <2> QED
        BY <1>7, <2>1, <2>2 DEF DocTypes, DocCalls, DocCovered, Known, Index!Recover
<1>8. CASE \E c \in DocumentCalls : Index!Compared(c)
    <2>1. UNCHANGED <<texts, chunks, indexing>>
        BY <1>8, Zenon DEF Index!Compared
    <2>2. Quiet' = Quiet /\ Empty' = Empty /\ Right' = Right
        BY <2>1, DocSame, Zenon
    <2> QED
        BY <1>8, <2>1, <2>2 DEF DocTypes, DocCalls, DocCovered, Known, Index!Compared
<1>9. CASE \E c \in DocumentCalls : Index!Scanned(c)
    <2> SUFFICES ASSUME NEW c \in DocumentCalls, Index!Scanned(c) PROVE DocCovered'
        BY <1>9
    <2>1. UNCHANGED <<texts, chunks, indexing, events, queue, mixed, missed>>
        BY Zenon DEF Index!Scanned
    <2>2. Quiet' = Quiet /\ Empty' = Empty /\ Right' = Right
        BY <2>1, DocSame, Zenon
    <2>3. reading[c] = {}
        BY DEF DocCalls, Index!Scanned
    <2>4. /\ \A d \in DocumentCalls, g \in Documents : g \in reading[d] => g \in reading'[d]
          /\ \A g \in Documents : texts[g] # 0 => g \in reading'[c]
        BY <2>3 DEF DocTypes, Index!Scanned
    <2>5. \A g \in Documents : g \in Quiet \cap Empty => g \in Quiet \cap Right \/ g \in reading'[c]
        BY <2>4 DEF Empty, Right
    <2>6. DocCovered => \A g \in Documents : g \in Known'
        BY <2>1, <2>2, <2>4, <2>5 DEF Known, DocCovered
    <2> QED
        BY <2>6, Zenon DEF DocCovered
<1>10. CASE \E c \in DocumentCalls : Index!ScanFails(c)
    <2>1. UNCHANGED <<texts, chunks, indexing>>
        BY <1>10, Zenon DEF Index!ScanFails
    <2>2. Quiet' = Quiet /\ Empty' = Empty /\ Right' = Right
        BY <2>1, DocSame, Zenon
    <2>3. \A g \in Documents : g \in Empty => Index!Of(g) = {}
        <3> SUFFICES ASSUME NEW g \in Empty, NEW k \in chunks, k[1] = g PROVE FALSE
            BY DEF Index!Of
        <3>1. /\ k = <<g, k[2], k[3]>>
              /\ k[2] \in Index!Texts /\ k[3] \in 1..2
            BY DEF DocTypes
        <3>2. k[2] = 0
            BY <3>1, Zenon DEF Empty, Holds
        <3> QED
            BY <3>1, <3>2, DocBounds
    <2> QED
        BY <1>10, <2>1, <2>2, <2>3 DEF DocTypes, DocCovered, Known, Index!ScanFails
<1>11. CASE \E c \in DocumentCalls : Index!FilesDone(c)
    <2>1. UNCHANGED <<texts, chunks, indexing>>
        BY <1>11, Zenon DEF Index!FilesDone
    <2>2. Quiet' = Quiet /\ Empty' = Empty /\ Right' = Right
        BY <2>1, DocSame, Zenon
    <2> QED
        BY <1>11, <2>1, <2>2 DEF DocTypes, DocCalls, DocCovered, Known, Index!FilesDone, Index!Waiting
<1>12. CASE \E c \in DocumentCalls, f \in Documents : Index!TakeEvent(c, f)
    BY <1>12, DocTakes
<1>13. CASE \E c \in DocumentCalls, f \in Documents : Index!Read(c, f)
    <2> SUFFICES ASSUME NEW c \in DocumentCalls, NEW f \in Documents, Index!Read(c, f), NEW g \in Documents
                 PROVE  g \in Known'
        BY <1>13 DEF DocCovered
    <2>1. CASE g = f
        <3>1. texts' = texts /\ texts[f] # 0
            BY DEF Index!Read
        <3>2. indexing'[c][f] = texts[f]
            BY DocReads
        <3> QED
            BY <2>1, <3>1, <3>2, Zenon DEF Known
    <2>2. CASE g # f
        <3>1. /\ UNCHANGED <<texts, queue, events, documentAt>>
              /\ g \in mixed \cup missed => g \in mixed' \cup missed'
              /\ \A d \in DocumentCalls : g \in reading[d] => g \in reading'[d]
            BY <2>2 DEF DocTypes, Index!Read
        <3> QED
            BY <2>2, <3>1, DocReads, DocStays
    <2> QED
        BY <2>1, <2>2
<1>14. CASE \E c \in DocumentCalls, f \in Documents : Index!ReadNothing(c, f)
    <2>1. UNCHANGED <<texts, chunks, indexing>>
        BY <1>14, Zenon DEF Index!ReadNothing
    <2>2. Quiet' = Quiet /\ Empty' = Empty /\ Right' = Right
        BY <2>1, DocSame, Zenon
    <2> QED
        BY <1>14, <2>1, <2>2 DEF DocTypes, DocCalls, DocCovered, Known, Index!ReadNothing
<1>18. CASE \E c \in DocumentCalls, f \in Documents : Index!ReadFails(c, f)
    <2>1. UNCHANGED <<texts, chunks, indexing>>
        BY <1>18, Zenon DEF Index!ReadFails
    <2>2. Quiet' = Quiet /\ Empty' = Empty /\ Right' = Right
        BY <2>1, DocSame, Zenon
    <2> QED
        BY <1>18, <2>1, <2>2 DEF DocTypes, DocCalls, DocCovered, Known, Index!ReadFails
<1>15. CASE \E c \in DocumentCalls, f \in Documents : Index!Embedded(c, f)
    <2> SUFFICES ASSUME NEW c \in DocumentCalls, NEW f \in Documents, Index!Embedded(c, f), NEW g \in Documents
                 PROVE  g \in Known'
        BY <1>15 DEF DocCovered
    <2>1. UNCHANGED <<texts, queue, events, documentAt, reading, mixed, missed>>
        BY Zenon DEF Index!Embedded
    <2>2. PICK k \in 1..2 : Puts(c, f, k)
        BY DocEmbeds
    <2>3. CASE g # f
        <3>1. \A d \in DocumentCalls : indexing'[d][g] = indexing[d][g]
            BY <2>2, <2>3 DEF Puts
        <3>2. \A u \in Index!Texts, n \in 1..2 : <<g, u, n>> \in chunks' <=> <<g, u, n>> \in chunks
            BY <2>2, <2>3, Zenon DEF Puts
        <3> QED
            BY <2>1, <3>1, <3>2, DocStays
    <2>4. CASE g = f /\ g \notin mixed
        <3>1. indexing[c][f] \in Index!Texts /\ indexing[c][f] # 0
            BY DocEmbeds, DocBounds
        <3>2. \A d \in DocumentCalls : indexing[d][f] # 0 => d = c
            BY <2>4, <3>1 DEF DocWhole
        <3>3. CASE k = 1
            <4>1. \A d \in DocumentCalls : indexing'[d][f] = indexing[d][f]
                BY <2>2, <3>3 DEF Puts
            <4>2. f \notin Quiet
                BY <3>1 DEF Quiet
            <4> QED
                BY <2>1, <2>4, <4>1, <4>2 DEF DocCovered, Known
        <3>4. CASE k = 2
            <4>1. \A d \in DocumentCalls : indexing'[d][f] = 0
                BY <2>2, <3>2, <3>4 DEF Puts
            <4>2. f \in Quiet' /\ f \notin Quiet
                BY <3>1, <4>1 DEF Quiet
            <4>3. \A u \in Index!Texts, n \in 1..2 : <<f, u, n>> \in chunks' <=> u = indexing[c][f]
                <5> TAKE u \in Index!Texts, n \in 1..2
                <5>1. /\ <<f, u, n>> \in chunks => u = indexing[c][f] /\ n = 1
                    BY <2>4, <3>1 DEF DocWhole
                <5>2. <<f, indexing[c][f], 1>> \in chunks
                    BY <2>2, <2>4, <3>4, Zenon DEF Puts
                <5>3. <<f, u, n>> \in chunks' <=> <<f, u, n>> \in chunks \/ (u = indexing[c][f] /\ n = k)
                    BY <2>2, Zenon DEF Puts
                <5>4. CASE n = 1
                    BY <5>1, <5>2, <5>3, <5>4, Zenon
                <5>5. CASE n = 2
                    BY <3>4, <5>1, <5>3, <5>5
                <5> QED
                    BY <5>4, <5>5
            <4>4. indexing[c][f] = texts[f] => f \in Right'
                BY <2>1, <4>3, Zenon DEF Right, Holds
            <4> QED
                BY <2>1, <2>4, <3>2, <4>2, <4>4, Zenon DEF DocCovered, Known
        <3> QED
            BY <3>3, <3>4
    <2> QED
        BY <2>1, <2>3, <2>4 DEF DocCovered, Known
<1>16. CASE \E c \in DocumentCalls, f \in Documents : Index!EmbeddingFails(c, f)
    <2> SUFFICES ASSUME NEW c \in DocumentCalls, NEW f \in Documents, Index!EmbeddingFails(c, f), NEW g \in Documents
                 PROVE  g \in Known'
        BY <1>16 DEF DocCovered
    <2>1. CASE g = f
        BY <2>1, DocFails DEF Known
    <2>2. CASE g # f
        <3>1. UNCHANGED <<texts, queue, events, documentAt, reading>> /\ missed \subseteq missed'
            BY DEF Index!EmbeddingFails
        <3> QED
            BY <2>2, <3>1, DocFails, DocStays
    <2> QED
        BY <2>1, <2>2
<1> QED
    BY <1>0, <1>1, <1>2, <1>3, <1>4, <1>17, <1>5, <1>6, <1>7, <1>8, <1>9, <1>10, <1>11, <1>12,
       <1>13, <1>14, <1>18, <1>15, <1>16, Zenon DEF Index!Next

LEMMA DocInitInv == Index!Init => DocInv
<1> SUFFICES ASSUME Index!Init PROVE DocInv
    OBVIOUS
<1> USE DEF Index!Init
<1>1. DocTypes /\ DocFlags
    <2>1. DocTypes
        BY DocBounds DEF DocTypes, DocEvents
    <2> QED
        BY <2>1 DEF DocFlags
<1>2. DocCalls /\ DocDropped
    BY DEF DocCalls, DocDropped
<1>3. Quiet = Documents /\ Right = Documents /\ \A f \in Documents : Holds(f, 0)
    BY DocBounds DEF Quiet, Right, Holds
<1>4. DocWhole
    <2>1. 0 \in 0..MaxChanges /\ \A c \in DocumentCalls, f \in Documents : indexing[c][f] = 0
        BY DocBounds
    <2> QED
        BY <1>3, <2>1, Zenon DEF DocWhole
<1>5. DocCovered
    BY <1>3, Zenon DEF DocCovered, Known
<1> QED
    BY <1>1, <1>2, <1>4, <1>5 DEF DocInv

LEMMA DocNextInv == DocInv /\ [Index!Next]_documentVars => DocInv'
<1>1. CASE Index!Next
    BY <1>1, DocTypesStep, DocFlagsStep, DocCallsStep, DocWholeStep, DocCoveredStep, DocDroppedStep,
       Zenon DEF DocInv
<1>2. CASE UNCHANGED documentVars
    <2>1. (DocTypes => DocTypes') /\ (DocFlags => DocFlags') /\ (DocCalls => DocCalls') /\ (DocDropped => DocDropped')
        BY <1>2, Zenon DEF documentVars, DocTypes, DocFlags, DocCalls, DocDropped
    <2>2. UNCHANGED <<texts, chunks, indexing, mixed, missed, queue, events, reading, documentAt>>
        BY <1>2, Zenon DEF documentVars
    <2>3. DocWhole => DocWhole'
        BY <2>2 DEF DocWhole, Holds, Quiet
    <2>4. Quiet' = Quiet /\ Empty' = Empty /\ Right' = Right
        BY <2>2, DocSame
    <2>5. DocCovered => DocCovered'
        BY <2>2, <2>4 DEF DocCovered, Known
    <2> QED
        BY <2>1, <2>3, <2>5 DEF DocInv
<1> QED
    BY <1>1, <1>2

LEMMA DocChunks ==
    ASSUME DocTypes, NEW f \in Documents, NEW v \in 0..MaxChanges, Holds(f, v)
    PROVE  Index!Of(f) = IF v = 0 THEN {} ELSE {<<f, v, 1>>, <<f, v, 2>>}
<1>1. ASSUME NEW k \in Index!Of(f) PROVE v # 0 /\ (k = <<f, v, 1>> \/ k = <<f, v, 2>>)
    <2>1. k = <<f, k[2], k[3]>> /\ k \in chunks /\ k[2] \in Index!Texts /\ k[3] \in 1..2
        BY DEF DocTypes, Index!Of
    <2>2. k[2] = v
        BY <2>1, Zenon DEF Holds
    <2> QED
        BY <2>1, <2>2, DocBounds
<1>2. v # 0 => <<f, v, 1>> \in Index!Of(f) /\ <<f, v, 2>> \in Index!Of(f)
    <2>1. v # 0 => v \in Index!Texts /\ 1 \in 1..2 /\ 2 \in 1..2
        BY DocBounds
    <2>2. v # 0 => <<f, v, 1>> \in chunks /\ <<f, v, 2>> \in chunks
        BY <2>1, Zenon DEF Holds
    <2> QED
        BY <2>2 DEF Index!Of
<1> QED
    BY <1>1, <1>2

LEMMA DocInvKeeps == DocInv => Index!TypeOK /\ Index!DocumentsHeld
<1> SUFFICES ASSUME DocInv PROVE Index!TypeOK /\ Index!DocumentsHeld
    OBVIOUS
<1>1. Index!TypeOK
    <2>1. {reading[c] : c \in DocumentCalls} \cup {listing[c] : c \in DocumentCalls} \subseteq SUBSET Documents
        BY DEF DocInv, DocTypes
    <2>2. {mixed, missed} \subseteq SUBSET Documents
        BY DEF DocInv, DocTypes
    <2> QED
        BY <2>1, <2>2, Zenon DEF DocInv, DocTypes, DocFlags, DocEvents, Index!TypeOK, Index!Kinds
<1>2. ASSUME NEW f \in Documents \ mixed, Index!InProgress(f) = {}
      PROVE  Index!Of(f) = {} \/ \E v \in Index!Texts : Index!Of(f) = {<<f, v, 1>>, <<f, v, 2>>}
    <2>1. f \in Quiet
        BY <1>2 DEF Index!InProgress, Quiet
    <2>2. PICK v \in 0..MaxChanges : Holds(f, v)
        BY <2>1, Zenon DEF DocInv, DocWhole
    <2>3. Index!Of(f) = IF v = 0 THEN {} ELSE {<<f, v, 1>>, <<f, v, 2>>}
        BY <2>2, DocChunks DEF DocInv
    <2>4. v = 0 \/ v \in Index!Texts
        BY DocBounds
    <2> QED
        BY <2>3, <2>4
<1>3. ASSUME ~Index!Busy, NEW f \in Documents \ (mixed \cup missed \cup Index!Waiting(queue))
      PROVE  Index!Of(f) = IF texts[f] = 0 THEN {} ELSE {<<f, texts[f], 1>>, <<f, texts[f], 2>>}
    <2>1. \A c \in DocumentCalls : documentAt[c] = "idle" /\ events[c][f] = "none" /\ reading[c] = {} /\ indexing[c][f] = 0
        BY <1>3 DEF Index!Busy, DocInv, DocCalls
    <2>2. f \notin mixed \cup missed /\ queue[f] = "none"
        BY DEF Index!Waiting
    <2>3. f \in Right
        BY <2>1, <2>2 DEF DocInv, DocCovered, Known
    <2> QED
        BY <2>3, DocChunks DEF DocInv, DocTypes, Right
<1>4. dropped => source = "removed" /\ chunks = {}
    BY Zenon DEF DocInv, DocDropped
<1> QED
    BY <1>1, <1>2, <1>3, <1>4, Zenon DEF Index!DocumentsHeld

HIDE DEF Index!user, Index!index, Index!watch, Index!call, Index!history, Index!NoEvents,
    Index!Begins, Index!Reads

-----------------------------------------------------------------------------
(* BrowserWatchers: while no save met another or failed, the file holds     *)
(* every watcher whose creation returned and none whose removal did, and so *)
(* does what the one call that saves is about to write; numbers given in a  *)
(* process are those of no other call and of no watcher that is lasting.    *)

WatchPlaces == {"idle", "baseline", "job", "unjob", "mkdir", "write", "rename"}
WatchSets ==
    /\ based \subseteq registry /\ registry \subseteq Watchers!Ids /\ watcherJobs \subseteq Watchers!Ids
    /\ ahead \subseteq Watchers!Ids /\ lasting \subseteq Watchers!Ids /\ gone \subseteq Watchers!Ids
    /\ bare \subseteq Watchers!Ids
WatchFiles ==
    watcherFile \in (SUBSET Watchers!Ids) \cup {NoFile, Torn} /\ tmp \in (SUBSET Watchers!Ids) \cup {NoFile, Torn}
WatchAt ==
    /\ phase \in {"down", "resuming", "up", "stopping"} /\ nextNumber \in 1..MaxNumbers + 1
    /\ watcherAt \in [WatcherCalls -> WatchPlaces]
    /\ number \in [WatcherCalls -> 0..MaxNumbers] /\ list \in [WatcherCalls -> SUBSET Watchers!Ids]
    /\ checking \in 0..MaxNumbers /\ failures \in 0..MaxFaults /\ starts \in 0..MaxStarts
WatchTypes == WatchSets /\ WatchFiles /\ WatchAt
WatchFlags == unsafe \in BOOLEAN /\ crowd \in BOOLEAN
WatchUnsafe == phase = "down" => ~unsafe

\* Whose number a call has: a creation's is its own, a removal's is that of a watcher
\* that is no longer there.
WatchNumbers ==
    /\ phase = "down" => registry = {}
    /\ \A i \in registry : i < nextNumber
    /\ \A c \in WatcherCalls : watcherAt[c] # "idle" =>
         /\ phase \in {"up", "stopping"} /\ number[c] \in Watchers!Ids /\ number[c] < nextNumber
         /\ watcherAt[c] \in {"baseline", "job"} => c \notin removers /\ number[c] \notin lasting
         /\ watcherAt[c] = "baseline" => number[c] \notin registry \cup gone
         /\ watcherAt[c] = "unjob" => c \in removers
         /\ c \in removers => number[c] \notin registry
    /\ \A c, d \in WatcherCalls :
         c # d /\ c \notin removers /\ watcherAt[c] # "idle" /\ watcherAt[d] # "idle" =>
             /\ d \notin removers => number[c] # number[d]
             /\ watcherAt[c] = "baseline" => number[c] # number[d]
WatchHistory == phase # "down" => lasting \subseteq registry /\ gone \cap registry = {}
WatchRead == lasting \subseteq Watchers!Read /\ gone \cap Watchers!Read = {}
WatchAlone == \A c, d \in Watchers!Saving : c = d
WatchSaved ==
    \A c \in Watchers!Saving :
        /\ lasting \subseteq list[c] /\ gone \cap list[c] = {}
        /\ watcherAt[c] = "write" => tmp = Torn
        /\ watcherAt[c] = "rename" => tmp = list[c]
        /\ c \in removers => number[c] \notin list[c]
        /\ c \notin removers /\ number[c] \in registry => number[c] \in list[c]
WatchFile == ~unsafe => WatchRead /\ WatchAlone /\ WatchSaved
WatchJobs ==
    phase \in {"resuming", "up"} =>
        \A i \in registry : \/ i \in watcherJobs \cup bare
                            \/ phase = "resuming" /\ i \in ahead
                            \/ \E c \in WatcherCalls : watcherAt[c] = "job" /\ number[c] = i
WatchFit == Cardinality(registry) <= MaxWatchers
WatchFitFiles ==
    /\ watcherFile \notin {NoFile, Torn} => Cardinality(watcherFile) <= MaxWatchers
    /\ tmp \notin {NoFile, Torn} => Cardinality(tmp) <= MaxWatchers
WatchFitLists == \A c \in WatcherCalls : Cardinality(list[c]) <= MaxWatchers
WatchNext ==
    /\ \A c \in WatcherCalls : watcherAt[c] = "baseline" => Cardinality(registry) < MaxWatchers
    /\ \A c, d \in WatcherCalls : watcherAt[c] = "baseline" /\ watcherAt[d] = "baseline" => c = d
WatchRoom == ~crowd => WatchFit /\ WatchFitFiles /\ WatchFitLists /\ WatchNext

WatchInv ==
    WatchTypes /\ WatchFlags /\ WatchUnsafe /\ WatchNumbers /\ WatchHistory /\ WatchFile /\ WatchJobs /\ WatchRoom

USE DEF Watchers!memory, Watchers!files, Watchers!process, Watchers!call, Watchers!history, Watchers!Fault, Watchers!Goes

LEMMA WatchBounds ==
    /\ MaxWatchers \in Nat /\ MaxNumbers \in Nat /\ MaxFaults \in Nat /\ MaxStarts \in Nat
    /\ Watchers!Ids = 1..MaxNumbers
BY StoresLimits DEF Watchers!WatcherBounds, Watchers!Ids
LEMMA WatchLists == NoFile # Torn /\ \A S \in SUBSET Watchers!Ids : S \notin {NoFile, Torn}
BY StoresLimits DEF Watchers!WatcherBounds, Watchers!Ids

LEMMA LeastNumber == ASSUME NEW T, T \subseteq Nat, T # {} PROVE \E n \in T : \A m \in T : n <= m
<1> DEFINE R == OpToRel(<, Nat)
<1>1. IsWellFoundedOn(R, Nat)
    BY NatLessThanWellFounded, Zenon
<1>2. \A m, n \in Nat : <<m, n>> \in R <=> m < n
    BY DEF OpToRel
<1> HIDE DEF R
<1>3. PICK n \in T : \A m \in T : <<m, n>> \notin R
    BY <1>1, WFMin, Zenon
<1>4. ASSUME NEW m \in T PROVE n <= m
    <2>1. ~(m < n)
        BY <1>2, <1>3, Zenon
    <2> QED
        BY <2>1
<1> QED
    BY <1>4

LEMMA WatchLast ==
    ASSUME NEW S \in SUBSET Watchers!Ids
    PROVE  /\ Watchers!LastOf(S) \in 0..MaxNumbers
           /\ \A i \in S : i <= Watchers!LastOf(S)
<1> DEFINE T == {n \in Nat : \A i \in S : i <= n}
<1>1. CASE S = {}
    BY <1>1, WatchBounds DEF Watchers!LastOf
<1>2. CASE S # {}
    <2>1. MaxNumbers \in T
        BY WatchBounds
    <2>2. PICK n \in T : \A m \in T : n <= m
        BY <2>1, LeastNumber
    <2>3. n \in S
        <3>1. CASE n = 0
            <4>1. PICK i \in S : TRUE
                BY <1>2
            <4>2. i \in 1..MaxNumbers /\ i <= n
                BY <2>2, <4>1, WatchBounds
            <4> QED
                BY <3>1, <4>2, WatchBounds
        <3>2. CASE n # 0 /\ n \notin S
            <4>1. ASSUME NEW i \in S PROVE i <= n - 1
                <5>1. i \in Nat /\ i <= n /\ i # n
                    BY <2>2, <3>2, WatchBounds
                <5> QED
                    BY <2>2, <5>1
            <4>2. n - 1 \in T
                BY <2>2, <3>2, <4>1
            <4> QED
                BY <2>2, <4>2
        <3> QED
            BY <3>1, <3>2
    <2>4. \E k \in S : \A m \in S : m <= k
        BY <2>2, <2>3
    <2>5. Watchers!LastOf(S) \in S /\ \A m \in S : m <= Watchers!LastOf(S)
        BY <1>2, <2>4, Zenon DEF Watchers!LastOf
    <2>6. Watchers!LastOf(S) \in Watchers!Ids
        BY <2>5
    <2> QED
        BY <2>5, <2>6, WatchBounds
<1> QED
    BY <1>1, <1>2

\* What resumeWatchers reads.
LEMMA WatchReads ==
    ASSUME WatchTypes
    PROVE  /\ Watchers!Read \subseteq Watchers!Ids
           /\ Watchers!LastOf(Watchers!Read) \in 0..MaxNumbers
           /\ \A i \in Watchers!Read : i <= Watchers!LastOf(Watchers!Read)
<1>1. Watchers!Read \in SUBSET Watchers!Ids
    <2>1. CASE watcherFile \in {NoFile, Torn}
        BY <2>1 DEF Watchers!Read
    <2>2. CASE watcherFile \notin {NoFile, Torn}
        <3>1. Watchers!Read = watcherFile
            BY <2>2, Zenon DEF Watchers!Read
        <3>2. watcherFile \in SUBSET Watchers!Ids
            BY <2>2, Zenon DEF WatchTypes, WatchFiles
        <3> QED
            BY <3>1, <3>2
    <2> QED
        BY <2>1, <2>2
<1> QED
    BY <1>1, WatchLast

LEMMA WatchSetsStep == ASSUME WatchTypes, WatchNumbers, Watchers!Next PROVE WatchSets'
<1>1. CASE \E c \in WatcherCalls : Watchers!Create(c)
    BY <1>1, WatchBounds DEF WatchTypes, WatchSets, WatchAt, WatchNumbers, Watchers!Create
<1>2. CASE \E c \in WatcherCalls : Watchers!Baseline(c)
    <2> SUFFICES ASSUME NEW c \in WatcherCalls, Watchers!Baseline(c) PROVE WatchSets'
        BY <1>2
    <2>1. number[c] \in Watchers!Ids
        BY DEF WatchNumbers, Watchers!Baseline
    <2> QED
        BY <2>1 DEF WatchTypes, WatchSets, Watchers!Baseline
<1>3. CASE \E c \in WatcherCalls : Watchers!BaselineFails(c)
    BY <1>3, WatchBounds DEF WatchTypes, WatchSets, WatchAt, WatchNumbers, Watchers!BaselineFails
<1>4. CASE \E c \in WatcherCalls : Watchers!Scheduled(c)
    <2> SUFFICES ASSUME NEW c \in WatcherCalls, Watchers!Scheduled(c) PROVE WatchSets'
        BY <1>4
    <2>1. number[c] \in Watchers!Ids
        BY DEF WatchNumbers, Watchers!Scheduled
    <2> QED
        BY <2>1 DEF WatchTypes, WatchSets, Watchers!Scheduled
<1>5. CASE \E c \in WatcherCalls : Watchers!NotScheduled(c)
    BY <1>5, WatchBounds DEF WatchTypes, WatchSets, WatchAt, WatchNumbers, Watchers!NotScheduled
<1>6. CASE \E c \in WatcherCalls, w \in Watchers!Ids : Watchers!Remove(c, w)
    BY <1>6, WatchBounds DEF WatchTypes, WatchSets, WatchAt, WatchNumbers, Watchers!Remove
<1>7. CASE \E c \in WatcherCalls : Watchers!Unscheduled(c)
    BY <1>7, WatchBounds DEF WatchTypes, WatchSets, WatchAt, WatchNumbers, Watchers!Unscheduled,
       Watchers!Saves
<1>8. CASE \E c \in WatcherCalls : Watchers!Write(c)
    BY <1>8, WatchBounds DEF WatchTypes, WatchSets, WatchAt, WatchNumbers, Watchers!Write
<1>9. CASE \E c \in WatcherCalls : Watchers!Written(c)
    BY <1>9, WatchBounds DEF WatchTypes, WatchSets, WatchAt, WatchNumbers, Watchers!Written
<1>10. CASE \E c \in WatcherCalls : Watchers!Renamed(c)
    <2> SUFFICES ASSUME NEW c \in WatcherCalls, Watchers!Renamed(c) PROVE WatchSets'
        BY <1>10
    <2>1. number[c] \in Watchers!Ids
        BY DEF WatchNumbers, Watchers!Renamed
    <2> QED
        BY <2>1 DEF WatchTypes, WatchSets, Watchers!Renamed, Watchers!Returns
<1>11. CASE \E c \in WatcherCalls : Watchers!SaveFails(c)
    <2> SUFFICES ASSUME NEW c \in WatcherCalls, Watchers!SaveFails(c) PROVE WatchSets'
        BY <1>11
    <2>1. number[c] \in Watchers!Ids
        BY DEF WatchNumbers, Watchers!SaveFails, Watchers!Saving
    <2> QED
        BY <2>1 DEF WatchTypes, WatchSets, Watchers!SaveFails, Watchers!Returns
<1>12. CASE \E w \in Watchers!Ids : Watchers!Check(w) \/ Watchers!Resume(w) \/ Watchers!StopJob(w)
    BY <1>12, WatchBounds DEF WatchTypes, WatchSets, WatchAt, WatchNumbers, Watchers!Check,
       Watchers!Resume, Watchers!StopJob
<1>13. CASE Watchers!Checked \/ Watchers!Resumed \/ Watchers!Stop
    <2>1. checking # 0 => checking \in Watchers!Ids
        BY WatchBounds DEF WatchTypes, WatchAt
    <2> QED
        BY <1>13, <2>1 DEF WatchTypes, WatchSets, Watchers!Checked, Watchers!Resumed, Watchers!Stop
<1>14. CASE Watchers!Start
    BY <1>14, WatchReads DEF WatchTypes, WatchSets, Watchers!Start
<1>15. CASE Watchers!Ends
    BY <1>15, WatchBounds DEF WatchTypes, WatchSets, WatchAt, WatchNumbers, Watchers!Ends, Watchers!Idle
<1> QED
    BY <1>1, <1>2, <1>3, <1>4, <1>5, <1>6, <1>7, <1>8, <1>9, <1>10, <1>11, <1>12, <1>13, <1>14,
       <1>15, Zenon DEF Watchers!Next

LEMMA WatchFilesStep == ASSUME WatchTypes, Watchers!Next PROVE WatchFiles'
<1>1. CASE \E c \in WatcherCalls : Watchers!Create(c)
    BY <1>1, WatchBounds DEF WatchTypes, WatchFiles, WatchAt, Watchers!Create
<1>2. CASE \E c \in WatcherCalls : Watchers!Baseline(c)
    BY <1>2, WatchBounds DEF WatchTypes, WatchFiles, WatchAt, Watchers!Baseline
<1>3. CASE \E c \in WatcherCalls : Watchers!BaselineFails(c)
    BY <1>3, WatchBounds DEF WatchTypes, WatchFiles, WatchAt, Watchers!BaselineFails
<1>4. CASE \E c \in WatcherCalls : Watchers!Scheduled(c)
    BY <1>4, WatchBounds DEF WatchTypes, WatchFiles, WatchAt, Watchers!Scheduled, Watchers!Saves
<1>5. CASE \E c \in WatcherCalls : Watchers!NotScheduled(c)
    BY <1>5, WatchBounds DEF WatchTypes, WatchFiles, WatchAt, Watchers!NotScheduled
<1>6. CASE \E c \in WatcherCalls, w \in Watchers!Ids : Watchers!Remove(c, w)
    BY <1>6, WatchBounds DEF WatchTypes, WatchFiles, WatchAt, Watchers!Remove
<1>7. CASE \E c \in WatcherCalls : Watchers!Unscheduled(c)
    BY <1>7, WatchBounds DEF WatchTypes, WatchFiles, WatchAt, Watchers!Unscheduled, Watchers!Saves
<1>8. CASE \E c \in WatcherCalls : Watchers!Write(c)
    <2>1. tmp' = Torn /\ UNCHANGED watcherFile
        BY <1>8 DEF Watchers!Write
    <2> QED
        BY <2>1, Zenon DEF WatchTypes, WatchFiles
<1>9. CASE \E c \in WatcherCalls : Watchers!Written(c)
    <2> SUFFICES ASSUME NEW c \in WatcherCalls, Watchers!Written(c) PROVE WatchFiles'
        BY <1>9
    <2>1. list[c] \in SUBSET Watchers!Ids
        BY DEF WatchTypes, WatchAt
    <2>2. (tmp' = list[c] /\ watcherFile' = watcherFile) \/ (watcherFile' = list[c] /\ tmp' = tmp)
        BY Zenon DEF Watchers!Written
    <2>3. CASE tmp' = list[c] /\ watcherFile' = watcherFile
        BY <2>1, <2>3, Zenon DEF WatchTypes, WatchFiles
    <2>4. CASE watcherFile' = list[c] /\ tmp' = tmp
        BY <2>1, <2>4, Zenon DEF WatchTypes, WatchFiles
    <2> QED
        BY <2>2, <2>3, <2>4
<1>10. CASE \E c \in WatcherCalls : Watchers!Renamed(c)
    <2>1. tmp' = NoFile
        BY <1>10 DEF Watchers!Renamed
    <2>2. (watcherFile' = watcherFile) \/ (watcherFile' = tmp)
        BY <1>10 DEF Watchers!Renamed
    <2>3. CASE watcherFile' = watcherFile
        BY <2>1, <2>3, Zenon DEF WatchTypes, WatchFiles
    <2>4. CASE watcherFile' = tmp
        BY <2>1, <2>4, Zenon DEF WatchTypes, WatchFiles
    <2> QED
        BY <2>2, <2>3, <2>4
<1>11. CASE \E c \in WatcherCalls : Watchers!SaveFails(c)
    BY <1>11, WatchBounds DEF WatchTypes, WatchFiles, WatchAt, Watchers!SaveFails, Watchers!Returns,
       Watchers!Saving
<1>12. CASE \E w \in Watchers!Ids : Watchers!Check(w) \/ Watchers!Resume(w) \/ Watchers!StopJob(w)
    BY <1>12, WatchBounds DEF WatchTypes, WatchFiles, WatchAt, Watchers!Check, Watchers!Resume,
       Watchers!StopJob
<1>13. CASE Watchers!Checked \/ Watchers!Resumed \/ Watchers!Stop
    BY <1>13, WatchBounds DEF WatchTypes, WatchFiles, WatchAt, Watchers!Checked, Watchers!Resumed,
       Watchers!Stop
<1>14. CASE Watchers!Start
    BY <1>14, WatchBounds DEF WatchTypes, WatchFiles, WatchAt, Watchers!Start
<1>15. CASE Watchers!Ends
    BY <1>15, WatchBounds DEF WatchTypes, WatchFiles, WatchAt, Watchers!Ends, Watchers!Idle
<1> QED
    BY <1>1, <1>2, <1>3, <1>4, <1>5, <1>6, <1>7, <1>8, <1>9, <1>10, <1>11, <1>12, <1>13, <1>14,
       <1>15, Zenon DEF Watchers!Next

LEMMA WatchAtStep == ASSUME WatchTypes, Watchers!Next PROVE WatchAt'
<1>1. CASE \E c \in WatcherCalls : Watchers!Create(c)
    BY <1>1, WatchBounds DEF WatchTypes, WatchAt, WatchPlaces, Watchers!Create
<1>2. CASE \E c \in WatcherCalls : Watchers!Baseline(c)
    BY <1>2, WatchBounds DEF WatchTypes, WatchAt, WatchPlaces, Watchers!Baseline
<1>3. CASE \E c \in WatcherCalls : Watchers!BaselineFails(c)
    BY <1>3, WatchBounds DEF WatchTypes, WatchAt, WatchPlaces, Watchers!BaselineFails
<1>4. CASE \E c \in WatcherCalls : Watchers!Scheduled(c)
    <2> SUFFICES ASSUME NEW c \in WatcherCalls, Watchers!Scheduled(c) PROVE WatchAt'
        BY <1>4
    <2>1. /\ watcherAt' = [watcherAt EXCEPT ![c] = "mkdir"] /\ list' = [list EXCEPT ![c] = registry]
          /\ UNCHANGED <<phase, nextNumber, number, checking, failures, starts>>
        BY Zenon DEF Watchers!Scheduled, Watchers!Saves
    <2> QED
        BY <2>1 DEF WatchTypes, WatchSets, WatchAt, WatchPlaces
<1>5. CASE \E c \in WatcherCalls : Watchers!NotScheduled(c)
    BY <1>5, WatchBounds DEF WatchTypes, WatchAt, WatchPlaces, Watchers!NotScheduled
<1>6. CASE \E c \in WatcherCalls, w \in Watchers!Ids : Watchers!Remove(c, w)
    BY <1>6, WatchBounds DEF WatchTypes, WatchAt, WatchPlaces, Watchers!Remove
<1>7. CASE \E c \in WatcherCalls : Watchers!Unscheduled(c)
    <2> SUFFICES ASSUME NEW c \in WatcherCalls, Watchers!Unscheduled(c) PROVE WatchAt'
        BY <1>7
    <2>1. /\ watcherAt' = [watcherAt EXCEPT ![c] = "mkdir"] /\ list' = [list EXCEPT ![c] = registry]
          /\ UNCHANGED <<phase, nextNumber, number, checking, starts>>
        BY Zenon DEF Watchers!Unscheduled, Watchers!Saves
    <2>2. failures' \in 0..MaxFaults
        BY WatchBounds DEF Watchers!Unscheduled, WatchTypes, WatchAt
    <2> QED
        BY <2>1, <2>2 DEF WatchTypes, WatchSets, WatchAt, WatchPlaces
<1>8. CASE \E c \in WatcherCalls : Watchers!Write(c)
    BY <1>8, WatchBounds DEF WatchTypes, WatchAt, WatchPlaces, Watchers!Write
<1>9. CASE \E c \in WatcherCalls : Watchers!Written(c)
    BY <1>9, WatchBounds DEF WatchTypes, WatchAt, WatchPlaces, Watchers!Written
<1>10. CASE \E c \in WatcherCalls : Watchers!Renamed(c)
    BY <1>10, WatchBounds DEF WatchTypes, WatchAt, WatchPlaces, Watchers!Renamed, Watchers!Returns
<1>11. CASE \E c \in WatcherCalls : Watchers!SaveFails(c)
    BY <1>11, WatchBounds DEF WatchTypes, WatchAt, WatchPlaces, Watchers!SaveFails,
       Watchers!Returns, Watchers!Saving
<1>12. CASE \E w \in Watchers!Ids : Watchers!Check(w) \/ Watchers!Resume(w) \/ Watchers!StopJob(w)
    BY <1>12, WatchBounds DEF WatchTypes, WatchAt, WatchPlaces, Watchers!Check, Watchers!Resume,
       Watchers!StopJob
<1>13. CASE Watchers!Checked \/ Watchers!Resumed \/ Watchers!Stop
    BY <1>13, WatchBounds DEF WatchTypes, WatchAt, WatchPlaces, Watchers!Checked, Watchers!Resumed,
       Watchers!Stop
<1>14. CASE Watchers!Start
    <2>1. nextNumber' = Watchers!LastOf(Watchers!Read) + 1 /\ starts' = starts + 1 /\ starts < MaxStarts /\ phase' = "resuming"
        BY <1>14 DEF Watchers!Start
    <2>2. UNCHANGED <<watcherAt, number, list, checking, failures>>
        BY <1>14 DEF Watchers!Start
    <2> QED
        BY <2>1, <2>2, WatchReads, WatchBounds DEF WatchTypes, WatchAt
<1>15. CASE Watchers!Ends
    BY <1>15, WatchBounds DEF WatchTypes, WatchAt, WatchPlaces, Watchers!Ends, Watchers!Idle
<1> QED
    BY <1>1, <1>2, <1>3, <1>4, <1>5, <1>6, <1>7, <1>8, <1>9, <1>10, <1>11, <1>12, <1>13, <1>14,
       <1>15, Zenon DEF Watchers!Next

LEMMA WatchFlagsStep == ASSUME WatchFlags, Watchers!Next PROVE WatchFlags'
<1>1. CASE \E c \in WatcherCalls : Watchers!Create(c)
    BY <1>1, Zenon DEF WatchFlags, Watchers!Create
<1>2. CASE \E c \in WatcherCalls : Watchers!Baseline(c)
    BY <1>2, Zenon DEF WatchFlags, Watchers!Baseline
<1>3. CASE \E c \in WatcherCalls : Watchers!BaselineFails(c)
    BY <1>3, Zenon DEF WatchFlags, Watchers!BaselineFails
<1>4. CASE \E c \in WatcherCalls : Watchers!Scheduled(c)
    BY <1>4, Zenon DEF WatchFlags, Watchers!Scheduled, Watchers!Saves
<1>5. CASE \E c \in WatcherCalls : Watchers!NotScheduled(c)
    BY <1>5, Zenon DEF WatchFlags, Watchers!NotScheduled
<1>6. CASE \E c \in WatcherCalls, w \in Watchers!Ids : Watchers!Remove(c, w)
    BY <1>6, Zenon DEF WatchFlags, Watchers!Remove
<1>7. CASE \E c \in WatcherCalls : Watchers!Unscheduled(c)
    BY <1>7, Zenon DEF WatchFlags, Watchers!Unscheduled, Watchers!Saves
<1>8. CASE \E c \in WatcherCalls : Watchers!Write(c)
    BY <1>8, Zenon DEF WatchFlags, Watchers!Write
<1>9. CASE \E c \in WatcherCalls : Watchers!Written(c)
    BY <1>9, Zenon DEF WatchFlags, Watchers!Written
<1>10. CASE \E c \in WatcherCalls : Watchers!Renamed(c)
    BY <1>10, Zenon DEF WatchFlags, Watchers!Renamed, Watchers!Returns
<1>11. CASE \E c \in WatcherCalls : Watchers!SaveFails(c)
    BY <1>11, Zenon DEF WatchFlags, Watchers!SaveFails, Watchers!Returns, Watchers!Saving
<1>12. CASE \E w \in Watchers!Ids : Watchers!Check(w) \/ Watchers!Resume(w) \/ Watchers!StopJob(w)
    BY <1>12, Zenon DEF WatchFlags, Watchers!Check, Watchers!Resume, Watchers!StopJob
<1>13. CASE Watchers!Checked \/ Watchers!Resumed \/ Watchers!Stop
    BY <1>13, Zenon DEF WatchFlags, Watchers!Checked, Watchers!Resumed, Watchers!Stop
<1>14. CASE Watchers!Start
    BY <1>14, Zenon DEF WatchFlags, Watchers!Start
<1>15. CASE Watchers!Ends
    BY <1>15, Zenon DEF WatchFlags, Watchers!Ends, Watchers!Idle
<1> QED
    BY <1>1, <1>2, <1>3, <1>4, <1>5, <1>6, <1>7, <1>8, <1>9, <1>10, <1>11, <1>12, <1>13, <1>14,
       <1>15, Zenon DEF Watchers!Next

LEMMA WatchNumbersStep == ASSUME WatchTypes, WatchNumbers, WatchHistory, Watchers!Next PROVE WatchNumbers'
<1>1. CASE \E c \in WatcherCalls : Watchers!Create(c)
    <2> SUFFICES ASSUME NEW c \in WatcherCalls, Watchers!Create(c) PROVE WatchNumbers'
        BY <1>1
    <2>1. /\ phase = "up" /\ watcherAt[c] = "idle" /\ nextNumber \in Watchers!Ids
          /\ watcherAt' = [watcherAt EXCEPT ![c] = "baseline"] /\ number' = [number EXCEPT ![c] = nextNumber]
          /\ nextNumber' = nextNumber + 1 /\ removers' = removers \ {c} /\ gone' = gone \ {nextNumber}
          /\ UNCHANGED <<registry, phase, lasting>>
        BY DEF Watchers!Create
    <2>2. nextNumber \notin registry /\ nextNumber \notin lasting
        BY <2>1, WatchBounds DEF WatchNumbers, WatchHistory
    <2>3. watcherAt'[c] = "baseline" /\ number'[c] = nextNumber /\ c \notin removers'
        BY <2>1 DEF WatchTypes, WatchAt
    <2>4. \A d \in WatcherCalls \ {c} : watcherAt'[d] = watcherAt[d] /\ number'[d] = number[d] /\ (d \in removers' <=> d \in removers)
        BY <2>1 DEF WatchTypes, WatchAt
    <2>5. \A i \in registry' : i < nextNumber'
        BY <2>1, WatchBounds DEF WatchNumbers, WatchTypes, WatchSets
    <2>6. ASSUME NEW d \in WatcherCalls, watcherAt'[d] # "idle"
          PROVE  /\ phase' \in {"up", "stopping"} /\ number'[d] \in Watchers!Ids /\ number'[d] < nextNumber'
                 /\ watcherAt'[d] \in {"baseline", "job"} => d \notin removers' /\ number'[d] \notin lasting'
                 /\ watcherAt'[d] = "baseline" => number'[d] \notin registry' \cup gone'
                 /\ watcherAt'[d] = "unjob" => d \in removers'
                 /\ d \in removers' => number'[d] \notin registry'
        <3>1. CASE d = c
            BY <3>1, <2>1, <2>2, <2>3, WatchBounds
        <3>2. CASE d # c
            BY <3>2, <2>1, <2>4, <2>6, WatchBounds DEF WatchNumbers
        <3> QED
            BY <3>1, <3>2
    <2>7. \A d \in WatcherCalls \ {c} : watcherAt[d] # "idle" => number[d] # nextNumber
        BY <2>1, WatchBounds DEF WatchNumbers
    <2>8. ASSUME NEW d \in WatcherCalls, NEW e \in WatcherCalls,
                 d # e, d \notin removers', watcherAt'[d] # "idle", watcherAt'[e] # "idle"
          PROVE  /\ e \notin removers' => number'[d] # number'[e]
                 /\ watcherAt'[d] = "baseline" => number'[d] # number'[e]
        <3>1. CASE d = c
            BY <3>1, <2>3, <2>4, <2>7, <2>8
        <3>2. CASE e = c
            BY <3>2, <2>3, <2>4, <2>7, <2>8
        <3>3. CASE d # c /\ e # c
            BY <3>3, <2>4, <2>8, Zenon DEF WatchNumbers
        <3> QED
            BY <3>1, <3>2, <3>3
    <2> QED
        BY <2>1, <2>5, <2>6, <2>8, Zenon DEF WatchNumbers
<1>2. CASE \E c \in WatcherCalls : Watchers!Baseline(c)
    BY <1>2, WatchBounds DEF WatchTypes, WatchSets, WatchAt, WatchPlaces, WatchNumbers,
       Watchers!Baseline
<1>3. CASE \E c \in WatcherCalls : Watchers!BaselineFails(c)
    BY <1>3, WatchBounds DEF WatchTypes, WatchSets, WatchAt, WatchPlaces, WatchNumbers,
       Watchers!BaselineFails
<1>4. CASE \E c \in WatcherCalls : Watchers!Scheduled(c)
    BY <1>4, WatchBounds DEF WatchTypes, WatchSets, WatchAt, WatchPlaces, WatchNumbers,
       Watchers!Scheduled, Watchers!Saves
<1>5. CASE \E c \in WatcherCalls : Watchers!NotScheduled(c)
    BY <1>5, WatchBounds DEF WatchTypes, WatchSets, WatchAt, WatchPlaces, WatchNumbers,
       Watchers!NotScheduled
<1>6. CASE \E c \in WatcherCalls, w \in Watchers!Ids : Watchers!Remove(c, w)
    BY <1>6, WatchBounds DEF WatchTypes, WatchSets, WatchAt, WatchPlaces, WatchNumbers, Watchers!Remove
<1>7. CASE \E c \in WatcherCalls : Watchers!Unscheduled(c)
    BY <1>7, WatchBounds DEF WatchTypes, WatchSets, WatchAt, WatchPlaces, WatchNumbers,
       Watchers!Unscheduled, Watchers!Saves
<1>8. CASE \E c \in WatcherCalls : Watchers!Write(c)
    BY <1>8, WatchBounds DEF WatchTypes, WatchSets, WatchAt, WatchPlaces, WatchNumbers, Watchers!Write
<1>9. CASE \E c \in WatcherCalls : Watchers!Written(c)
    BY <1>9, WatchBounds DEF WatchTypes, WatchSets, WatchAt, WatchPlaces, WatchNumbers, Watchers!Written
<1>10. CASE \E c \in WatcherCalls : Watchers!Renamed(c)
    BY <1>10, WatchBounds DEF WatchTypes, WatchSets, WatchAt, WatchPlaces, WatchNumbers,
       Watchers!Renamed, Watchers!Returns
<1>11. CASE \E c \in WatcherCalls : Watchers!SaveFails(c)
    BY <1>11, WatchBounds DEF WatchTypes, WatchSets, WatchAt, WatchPlaces, WatchNumbers,
       Watchers!SaveFails, Watchers!Returns, Watchers!Saving
<1>12. CASE \E w \in Watchers!Ids : Watchers!Check(w) \/ Watchers!Resume(w) \/ Watchers!StopJob(w)
    BY <1>12, WatchBounds DEF WatchTypes, WatchSets, WatchAt, WatchPlaces, WatchNumbers,
       Watchers!Check, Watchers!Resume, Watchers!StopJob
<1>13. CASE Watchers!Checked \/ Watchers!Resumed \/ Watchers!Stop
    BY <1>13, WatchBounds DEF WatchTypes, WatchSets, WatchAt, WatchPlaces, WatchNumbers,
       Watchers!Checked, Watchers!Resumed, Watchers!Stop
<1>14. CASE Watchers!Start
    <2>1. /\ phase = "down" /\ registry' = Watchers!Read /\ nextNumber' = Watchers!LastOf(Watchers!Read) + 1
          /\ phase' = "resuming" /\ watcherAt' = watcherAt
        BY <1>14 DEF Watchers!Start
    <2>2. \A c \in WatcherCalls : watcherAt'[c] = "idle"
        BY <2>1 DEF WatchNumbers
    <2>3. \A i \in registry' : i < nextNumber'
        BY <2>1, WatchReads, WatchBounds
    <2> QED
        BY <2>1, <2>2, <2>3, Zenon DEF WatchNumbers
<1>15. CASE Watchers!Ends
    BY <1>15, WatchBounds DEF WatchTypes, WatchSets, WatchAt, WatchPlaces, WatchNumbers,
       Watchers!Ends, Watchers!Idle
<1> QED
    BY <1>1, <1>2, <1>3, <1>4, <1>5, <1>6, <1>7, <1>8, <1>9, <1>10, <1>11, <1>12, <1>13, <1>14,
       <1>15, Zenon DEF Watchers!Next

LEMMA WatchUnsafeStep == ASSUME WatchNumbers, WatchUnsafe, Watchers!Next PROVE WatchUnsafe'
<1>1. CASE \E c \in WatcherCalls : Watchers!Create(c)
    BY <1>1, Zenon DEF WatchUnsafe, Watchers!Create
<1>2. CASE \E c \in WatcherCalls : Watchers!Baseline(c)
    <2>1. UNCHANGED <<phase, unsafe>>
        BY <1>2, Zenon DEF Watchers!Baseline
    <2> QED
        BY <2>1, Zenon DEF WatchUnsafe
<1>3. CASE \E c \in WatcherCalls : Watchers!BaselineFails(c)
    <2>1. UNCHANGED <<phase, unsafe>>
        BY <1>3, Zenon DEF Watchers!BaselineFails
    <2> QED
        BY <2>1, Zenon DEF WatchUnsafe
<1>4. CASE \E c \in WatcherCalls : Watchers!Scheduled(c)
    <2>1. phase' = phase /\ phase # "down"
        BY <1>4 DEF WatchNumbers, Watchers!Saving, Watchers!Scheduled
    <2> QED
        BY <2>1, Zenon DEF WatchUnsafe
<1>5. CASE \E c \in WatcherCalls : Watchers!NotScheduled(c)
    <2>1. UNCHANGED <<phase, unsafe>>
        BY <1>5, Zenon DEF Watchers!NotScheduled
    <2> QED
        BY <2>1, Zenon DEF WatchUnsafe
<1>6. CASE \E c \in WatcherCalls, w \in Watchers!Ids : Watchers!Remove(c, w)
    BY <1>6, Zenon DEF WatchUnsafe, Watchers!Remove
<1>7. CASE \E c \in WatcherCalls : Watchers!Unscheduled(c)
    <2>1. phase' = phase /\ phase # "down"
        BY <1>7 DEF WatchNumbers, Watchers!Saving, Watchers!Unscheduled
    <2> QED
        BY <2>1, Zenon DEF WatchUnsafe
<1>8. CASE \E c \in WatcherCalls : Watchers!Write(c)
    <2>1. UNCHANGED <<phase, unsafe>>
        BY <1>8, Zenon DEF Watchers!Write
    <2> QED
        BY <2>1, Zenon DEF WatchUnsafe
<1>9. CASE \E c \in WatcherCalls : Watchers!Written(c)
    <2>1. UNCHANGED <<phase, unsafe>>
        BY <1>9, Zenon DEF Watchers!Written
    <2> QED
        BY <2>1, Zenon DEF WatchUnsafe
<1>10. CASE \E c \in WatcherCalls : Watchers!Renamed(c)
    <2>1. UNCHANGED <<phase, unsafe>>
        BY <1>10, Zenon DEF Watchers!Renamed
    <2> QED
        BY <2>1, Zenon DEF WatchUnsafe
<1>11. CASE \E c \in WatcherCalls : Watchers!SaveFails(c)
    <2>1. phase' = phase /\ phase # "down"
        BY <1>11 DEF WatchNumbers, Watchers!Saving, Watchers!SaveFails
    <2> QED
        BY <2>1, Zenon DEF WatchUnsafe
<1>12. CASE \E w \in Watchers!Ids : Watchers!Check(w) \/ Watchers!Resume(w) \/ Watchers!StopJob(w)
    BY <1>12, Zenon DEF WatchUnsafe, Watchers!Check, Watchers!Resume, Watchers!StopJob
<1>13. CASE Watchers!Checked \/ Watchers!Resumed \/ Watchers!Stop
    BY <1>13, Zenon DEF WatchUnsafe, Watchers!Checked, Watchers!Resumed, Watchers!Stop
<1>14. CASE Watchers!Start
    BY <1>14, Zenon DEF WatchUnsafe, Watchers!Start
<1>15. CASE Watchers!Ends
    BY <1>15, Zenon DEF WatchUnsafe, Watchers!Ends, Watchers!Idle
<1> QED
    BY <1>1, <1>2, <1>3, <1>4, <1>5, <1>6, <1>7, <1>8, <1>9, <1>10, <1>11, <1>12, <1>13, <1>14,
       <1>15, Zenon DEF Watchers!Next

LEMMA WatchHistoryStep == ASSUME WatchTypes, WatchUnsafe, WatchFlags, WatchNumbers, WatchHistory, WatchFile, Watchers!Next PROVE WatchHistory'
<1>1. CASE \E c \in WatcherCalls : Watchers!Create(c)
    BY <1>1, WatchBounds DEF WatchTypes, WatchSets, WatchAt, WatchNumbers, WatchHistory, Watchers!Create
<1>2. CASE \E c \in WatcherCalls : Watchers!Baseline(c)
    <2> SUFFICES ASSUME NEW c \in WatcherCalls, Watchers!Baseline(c) PROVE WatchHistory'
        BY <1>2
    <2>1. number[c] \notin gone /\ phase # "down"
        BY DEF Watchers!Baseline, WatchNumbers
    <2>2. registry' = registry \cup {number[c]} /\ UNCHANGED <<phase, lasting, gone>>
        BY DEF Watchers!Baseline
    <2> QED
        BY <2>1, <2>2 DEF WatchHistory
<1>3. CASE \E c \in WatcherCalls : Watchers!BaselineFails(c)
    BY <1>3, WatchBounds DEF WatchTypes, WatchSets, WatchAt, WatchNumbers, WatchHistory,
       Watchers!BaselineFails
<1>4. CASE \E c \in WatcherCalls : Watchers!Scheduled(c)
    BY <1>4, WatchBounds DEF WatchTypes, WatchSets, WatchAt, WatchNumbers, WatchHistory,
       Watchers!Scheduled, Watchers!Saves
<1>5. CASE \E c \in WatcherCalls : Watchers!NotScheduled(c)
    <2> SUFFICES ASSUME NEW c \in WatcherCalls, Watchers!NotScheduled(c) PROVE WatchHistory'
        BY <1>5
    <2>1. number[c] \notin lasting /\ phase # "down"
        BY DEF Watchers!NotScheduled, WatchNumbers
    <2>2. registry' = registry \ {number[c]} /\ UNCHANGED <<phase, lasting, gone>>
        BY Zenon DEF Watchers!NotScheduled
    <2> QED
        BY <2>1, <2>2 DEF WatchHistory
<1>6. CASE \E c \in WatcherCalls, w \in Watchers!Ids : Watchers!Remove(c, w)
    BY <1>6, WatchBounds DEF WatchTypes, WatchSets, WatchAt, WatchNumbers, WatchHistory, Watchers!Remove
<1>7. CASE \E c \in WatcherCalls : Watchers!Unscheduled(c)
    BY <1>7, WatchBounds DEF WatchTypes, WatchSets, WatchAt, WatchNumbers, WatchHistory,
       Watchers!Unscheduled, Watchers!Saves
<1>8. CASE \E c \in WatcherCalls : Watchers!Write(c)
    BY <1>8, WatchBounds DEF WatchTypes, WatchSets, WatchAt, WatchNumbers, WatchHistory, Watchers!Write
<1>9. CASE \E c \in WatcherCalls : Watchers!Written(c)
    BY <1>9, WatchBounds DEF WatchTypes, WatchSets, WatchAt, WatchNumbers, WatchHistory,
       Watchers!Written
<1>10. CASE \E c \in WatcherCalls : Watchers!Renamed(c)
    <2> SUFFICES ASSUME NEW c \in WatcherCalls, Watchers!Renamed(c) PROVE WatchHistory'
        BY <1>10
    <2>1. UNCHANGED <<registry, phase>> /\ watcherAt[c] # "idle"
        BY DEF Watchers!Renamed, Watchers!Saving
    <2>2. CASE c \in removers
        <3>1. gone' = gone \cup {number[c]} /\ lasting' = lasting
            BY <2>2 DEF Watchers!Renamed, Watchers!Returns
        <3>2. number[c] \notin registry
            BY <2>1, <2>2 DEF WatchNumbers
        <3> QED
            BY <2>1, <3>1, <3>2 DEF WatchHistory
    <2>3. CASE c \notin removers
        <3>1. lasting' = lasting \cup ({number[c]} \cap registry) /\ gone' = gone
            BY <2>3 DEF Watchers!Renamed, Watchers!Returns
        <3> QED
            BY <2>1, <3>1 DEF WatchHistory
    <2> QED
        BY <2>2, <2>3
<1>11. CASE \E c \in WatcherCalls : Watchers!SaveFails(c)
    <2> SUFFICES ASSUME NEW c \in WatcherCalls, Watchers!SaveFails(c) PROVE WatchHistory'
        BY <1>11
    <2>1. UNCHANGED <<registry, phase>> /\ watcherAt[c] # "idle"
        BY DEF Watchers!SaveFails, Watchers!Saving
    <2>2. CASE c \in removers
        <3>1. gone' = gone \cup {number[c]} /\ lasting' = lasting
            BY <2>2 DEF Watchers!SaveFails, Watchers!Returns
        <3>2. number[c] \notin registry
            BY <2>1, <2>2 DEF WatchNumbers
        <3> QED
            BY <2>1, <3>1, <3>2 DEF WatchHistory
    <2>3. CASE c \notin removers
        <3>1. lasting' = lasting \cup ({number[c]} \cap registry) /\ gone' = gone
            BY <2>3 DEF Watchers!SaveFails, Watchers!Returns
        <3> QED
            BY <2>1, <3>1 DEF WatchHistory
    <2> QED
        BY <2>2, <2>3
<1>12. CASE \E w \in Watchers!Ids : Watchers!Check(w) \/ Watchers!Resume(w) \/ Watchers!StopJob(w)
    BY <1>12, WatchBounds DEF WatchTypes, WatchSets, WatchAt, WatchNumbers, WatchHistory,
       Watchers!Check, Watchers!Resume, Watchers!StopJob
<1>13. CASE Watchers!Checked \/ Watchers!Resumed \/ Watchers!Stop
    BY <1>13, WatchBounds DEF WatchTypes, WatchSets, WatchAt, WatchNumbers, WatchHistory,
       Watchers!Checked, Watchers!Resumed, Watchers!Stop
<1>14. CASE Watchers!Start
    <2>1. ~unsafe
        BY <1>14 DEF Watchers!Start, WatchUnsafe
    <2>2. registry' = Watchers!Read /\ UNCHANGED <<lasting, gone>>
        BY <1>14 DEF Watchers!Start
    <2> QED
        BY <2>1, <2>2 DEF WatchFile, WatchRead, WatchHistory
<1>15. CASE Watchers!Ends
    BY <1>15, WatchBounds DEF WatchTypes, WatchSets, WatchAt, WatchNumbers, WatchHistory,
       Watchers!Ends, Watchers!Idle
<1> QED
    BY <1>1, <1>2, <1>3, <1>4, <1>5, <1>6, <1>7, <1>8, <1>9, <1>10, <1>11, <1>12, <1>13, <1>14,
       <1>15, Zenon DEF Watchers!Next

LEMMA WatchFileStep == ASSUME WatchTypes, WatchFlags, WatchUnsafe, WatchNumbers, WatchHistory, WatchFile, Watchers!Next PROVE WatchFile'
<1>1. CASE \E c \in WatcherCalls : Watchers!Create(c)
    BY <1>1, WatchBounds DEF WatchTypes, WatchSets, WatchAt, WatchFile, WatchRead, WatchAlone,
       WatchSaved, Watchers!Create, Watchers!Saving, Watchers!Read
<1>2. CASE \E c \in WatcherCalls : Watchers!Baseline(c)
    <2> SUFFICES ASSUME NEW c \in WatcherCalls, Watchers!Baseline(c) PROVE WatchFile'
        BY <1>2
    <2>1. /\ watcherAt[c] = "baseline" /\ watcherAt' = [watcherAt EXCEPT ![c] = "job"]
          /\ registry' = registry \cup {number[c]}
          /\ UNCHANGED <<unsafe, lasting, gone, watcherFile, tmp, number, removers, list>>
        BY Zenon DEF Watchers!Baseline
    <2>2. Watchers!Saving' = Watchers!Saving /\ c \notin Watchers!Saving /\ \A d \in Watchers!Saving : watcherAt'[d] = watcherAt[d]
        BY <2>1 DEF WatchTypes, WatchAt, Watchers!Saving
    <2>3. \A d \in Watchers!Saving : number[d] # number[c]
        BY <2>1, <2>2 DEF WatchNumbers, Watchers!Saving
    <2>4. WatchSaved => WatchSaved'
        BY <2>1, <2>2, <2>3 DEF WatchSaved
    <2>5. (WatchRead => WatchRead') /\ (WatchAlone => WatchAlone')
        BY <2>1, <2>2 DEF WatchRead, WatchAlone, Watchers!Read
    <2> QED
        BY <2>1, <2>4, <2>5, Zenon DEF WatchFile
<1>3. CASE \E c \in WatcherCalls : Watchers!BaselineFails(c)
    BY <1>3, WatchBounds DEF WatchTypes, WatchSets, WatchAt, WatchFile, WatchRead, WatchAlone,
       WatchSaved, Watchers!BaselineFails, Watchers!Saving, Watchers!Read
<1>4. CASE \E c \in WatcherCalls : Watchers!Scheduled(c)
    <2> SUFFICES ASSUME NEW c \in WatcherCalls, Watchers!Scheduled(c) PROVE WatchFile'
        BY <1>4
    <2>1. /\ watcherAt' = [watcherAt EXCEPT ![c] = "mkdir"] /\ list' = [list EXCEPT ![c] = registry]
          /\ unsafe' = (unsafe \/ Watchers!Saving # {}) /\ watcherAt[c] \in {"job", "unjob"}
          /\ UNCHANGED <<registry, lasting, gone, watcherFile, tmp, number, removers>>
        BY Zenon DEF Watchers!Scheduled, Watchers!Saves
    <2>2. CASE unsafe'
        BY <2>2, Zenon DEF WatchFile
    <2>3. CASE ~unsafe'
        <3>1. ~unsafe /\ Watchers!Saving = {}
            BY <2>1, <2>3, Zenon
        <3>2. Watchers!Saving' = {c} /\ watcherAt'[c] = "mkdir" /\ list'[c] = registry
            BY <2>1, <3>1 DEF WatchTypes, WatchAt, Watchers!Saving
        <3>3. WatchRead'
            BY <2>1, <3>1 DEF WatchFile, WatchRead, Watchers!Read
        <3>4. lasting \subseteq registry /\ gone \cap registry = {} /\ (c \in removers => number[c] \notin registry)
            BY <2>1 DEF WatchNumbers, WatchHistory
        <3>5. WatchSaved'
            BY <2>1, <3>2, <3>4 DEF WatchSaved
        <3>6. WatchAlone'
            BY <3>2 DEF WatchAlone
        <3> QED
            BY <3>3, <3>5, <3>6 DEF WatchFile
    <2> QED
        BY <2>2, <2>3
<1>5. CASE \E c \in WatcherCalls : Watchers!NotScheduled(c)
    BY <1>5, WatchBounds DEF WatchTypes, WatchSets, WatchAt, WatchFile, WatchRead, WatchAlone,
       WatchSaved, Watchers!NotScheduled, Watchers!Saving, Watchers!Read
<1>6. CASE \E c \in WatcherCalls, w \in Watchers!Ids : Watchers!Remove(c, w)
    BY <1>6, WatchBounds DEF WatchTypes, WatchSets, WatchAt, WatchFile, WatchRead, WatchAlone,
       WatchSaved, Watchers!Remove, Watchers!Saving, Watchers!Read
<1>7. CASE \E c \in WatcherCalls : Watchers!Unscheduled(c)
    <2> SUFFICES ASSUME NEW c \in WatcherCalls, Watchers!Unscheduled(c) PROVE WatchFile'
        BY <1>7
    <2>1. /\ watcherAt' = [watcherAt EXCEPT ![c] = "mkdir"] /\ list' = [list EXCEPT ![c] = registry]
          /\ unsafe' = (unsafe \/ Watchers!Saving # {}) /\ watcherAt[c] \in {"job", "unjob"}
          /\ UNCHANGED <<registry, lasting, gone, watcherFile, tmp, number, removers>>
        BY Zenon DEF Watchers!Unscheduled, Watchers!Saves
    <2>2. CASE unsafe'
        BY <2>2, Zenon DEF WatchFile
    <2>3. CASE ~unsafe'
        <3>1. ~unsafe /\ Watchers!Saving = {}
            BY <2>1, <2>3, Zenon
        <3>2. Watchers!Saving' = {c} /\ watcherAt'[c] = "mkdir" /\ list'[c] = registry
            BY <2>1, <3>1 DEF WatchTypes, WatchAt, Watchers!Saving
        <3>3. WatchRead'
            BY <2>1, <3>1 DEF WatchFile, WatchRead, Watchers!Read
        <3>4. lasting \subseteq registry /\ gone \cap registry = {} /\ (c \in removers => number[c] \notin registry)
            BY <2>1 DEF WatchNumbers, WatchHistory
        <3>5. WatchSaved'
            BY <2>1, <3>2, <3>4 DEF WatchSaved
        <3>6. WatchAlone'
            BY <3>2 DEF WatchAlone
        <3> QED
            BY <3>3, <3>5, <3>6 DEF WatchFile
    <2> QED
        BY <2>2, <2>3
<1>8. CASE \E c \in WatcherCalls : Watchers!Write(c)
    BY <1>8, WatchBounds DEF WatchTypes, WatchSets, WatchAt, WatchFile, WatchRead, WatchAlone,
       WatchSaved, Watchers!Write, Watchers!Saving, Watchers!Read
<1>9. CASE \E c \in WatcherCalls : Watchers!Written(c)
    <2> SUFFICES ASSUME NEW c \in WatcherCalls, Watchers!Written(c) PROVE WatchFile'
        BY <1>9
    <2>1. /\ watcherAt[c] = "write" /\ watcherAt' = [watcherAt EXCEPT ![c] = "rename"]
          /\ IF tmp # NoFile THEN tmp' = list[c] /\ watcherFile' = watcherFile ELSE watcherFile' = list[c] /\ tmp' = tmp
          /\ UNCHANGED <<unsafe, lasting, gone, registry, number, removers, list>>
        BY Zenon DEF Watchers!Written
    <2>2. CASE unsafe
        BY <2>1, <2>2, Zenon DEF WatchFile
    <2>3. CASE ~unsafe
        <3>1. WatchRead /\ WatchAlone /\ WatchSaved
            BY <2>3, Zenon DEF WatchFile
        <3>2. Watchers!Saving = {c} /\ Watchers!Saving' = {c}
            BY <2>1, <3>1 DEF WatchAlone, WatchTypes, WatchAt, Watchers!Saving
        <3>3. tmp' = list[c] /\ watcherFile' = watcherFile
            BY <2>1, <3>1, <3>2, WatchLists DEF WatchSaved
        <3>4. WatchSaved'
            BY <2>1, <3>1, <3>2, <3>3 DEF WatchSaved, WatchTypes, WatchAt
        <3>5. WatchRead' /\ WatchAlone'
            BY <2>1, <3>1, <3>2, <3>3 DEF WatchRead, WatchAlone, Watchers!Read
        <3> QED
            BY <3>4, <3>5 DEF WatchFile
    <2> QED
        BY <2>2, <2>3
<1>10. CASE \E c \in WatcherCalls : Watchers!Renamed(c)
    <2> SUFFICES ASSUME NEW c \in WatcherCalls, Watchers!Renamed(c) PROVE WatchFile'
        BY <1>10
    <2>1. /\ watcherAt[c] = "rename" /\ watcherAt' = [watcherAt EXCEPT ![c] = "idle"]
          /\ IF tmp # NoFile THEN watcherFile' = tmp ELSE watcherFile' = watcherFile
          /\ UNCHANGED <<unsafe, registry, number, removers, list>>
        BY Zenon DEF Watchers!Renamed, Watchers!Returns
    <2>2. CASE unsafe
        BY <2>1, <2>2, Zenon DEF WatchFile
    <2>3. CASE ~unsafe
        <3>1. WatchRead /\ WatchAlone /\ WatchSaved
            BY <2>3, Zenon DEF WatchFile
        <3>2. Watchers!Saving = {c} /\ Watchers!Saving' = {}
            BY <2>1, <3>1 DEF WatchAlone, WatchTypes, WatchAt, Watchers!Saving
        <3>3. tmp = list[c] /\ list[c] \in SUBSET Watchers!Ids
            BY <2>1, <3>1, <3>2 DEF WatchSaved, WatchTypes, WatchAt
        <3>4. watcherFile' = list[c]
            BY <2>1, <3>3, WatchLists
        <3>5. Watchers!Read' = list[c]
            BY <3>3, <3>4, WatchLists DEF Watchers!Read
        <3>6. lasting' \subseteq list[c] /\ gone' \cap list[c] = {}
            <4>1. CASE c \in removers
                <5>1. gone' = gone \cup {number[c]} /\ lasting' = lasting
                    BY <4>1 DEF Watchers!Renamed, Watchers!Returns
                <5> QED
                    BY <5>1, <4>1, <3>1, <3>2 DEF WatchSaved
            <4>2. CASE c \notin removers
                <5>1. lasting' = lasting \cup ({number[c]} \cap registry) /\ gone' = gone
                    BY <4>2 DEF Watchers!Renamed, Watchers!Returns
                <5> QED
                    BY <5>1, <4>2, <3>1, <3>2 DEF WatchSaved
            <4> QED
                BY <4>1, <4>2
        <3> QED
            BY <3>2, <3>5, <3>6 DEF WatchFile, WatchRead, WatchAlone, WatchSaved
    <2> QED
        BY <2>2, <2>3
<1>11. CASE \E c \in WatcherCalls : Watchers!SaveFails(c)
    BY <1>11, WatchBounds DEF WatchTypes, WatchSets, WatchAt, WatchFile, WatchRead, WatchAlone,
       WatchSaved, Watchers!SaveFails, Watchers!Returns, Watchers!Saving, Watchers!Read
<1>12. CASE \E w \in Watchers!Ids : Watchers!Check(w) \/ Watchers!Resume(w) \/ Watchers!StopJob(w)
    <2>1. UNCHANGED <<unsafe, registry, lasting, gone, watcherFile, tmp, number, removers, list, watcherAt>>
        BY <1>12, Zenon DEF Watchers!Check, Watchers!Resume, Watchers!StopJob
    <2>2. WatchRead' <=> WatchRead
        BY <2>1 DEF WatchRead, Watchers!Read
    <2>3. (WatchAlone' <=> WatchAlone) /\ (WatchSaved' <=> WatchSaved)
        BY <2>1 DEF WatchAlone, WatchSaved, Watchers!Saving
    <2> QED
        BY <2>1, <2>2, <2>3, Zenon DEF WatchFile
<1>13. CASE Watchers!Checked \/ Watchers!Resumed \/ Watchers!Stop
    <2>1. UNCHANGED <<unsafe, registry, lasting, gone, watcherFile, tmp, number, removers, list, watcherAt>>
        BY <1>13, Zenon DEF Watchers!Checked, Watchers!Resumed, Watchers!Stop
    <2>2. WatchRead' <=> WatchRead
        BY <2>1 DEF WatchRead, Watchers!Read
    <2>3. (WatchAlone' <=> WatchAlone) /\ (WatchSaved' <=> WatchSaved)
        BY <2>1 DEF WatchAlone, WatchSaved, Watchers!Saving
    <2> QED
        BY <2>1, <2>2, <2>3, Zenon DEF WatchFile
<1>14. CASE Watchers!Start
    <2>1. UNCHANGED <<unsafe, lasting, gone, watcherFile, watcherAt>> /\ phase = "down"
        BY <1>14, Zenon DEF Watchers!Start
    <2>2. WatchRead /\ WatchRead' = WatchRead
        BY <1>14, <2>1 DEF WatchUnsafe, WatchFile, WatchRead, Watchers!Read
    <2>3. Watchers!Saving' = {}
        BY <2>1 DEF WatchNumbers, Watchers!Saving
    <2> QED
        BY <2>2, <2>3 DEF WatchFile, WatchAlone, WatchSaved
<1>15. CASE Watchers!Ends
    BY <1>15, WatchBounds DEF WatchTypes, WatchSets, WatchAt, WatchFile, WatchRead, WatchAlone,
       WatchSaved, Watchers!Ends, Watchers!Idle, Watchers!Saving, Watchers!Read
<1> QED
    BY <1>1, <1>2, <1>3, <1>4, <1>5, <1>6, <1>7, <1>8, <1>9, <1>10, <1>11, <1>12, <1>13, <1>14,
       <1>15, Zenon DEF Watchers!Next

LEMMA WatchJobsStep == ASSUME WatchTypes, WatchSets, WatchAt, WatchNumbers, WatchJobs, Watchers!Next PROVE WatchJobs'
<1>1. CASE \E c \in WatcherCalls : Watchers!Create(c)
    BY <1>1, WatchBounds DEF WatchTypes, WatchSets, WatchAt, WatchNumbers, WatchJobs, Watchers!Create
<1>2. CASE \E c \in WatcherCalls : Watchers!Baseline(c)
    BY <1>2, WatchBounds DEF WatchTypes, WatchSets, WatchAt, WatchNumbers, WatchJobs, Watchers!Baseline
<1>3. CASE \E c \in WatcherCalls : Watchers!BaselineFails(c)
    BY <1>3, WatchBounds DEF WatchTypes, WatchSets, WatchAt, WatchNumbers, WatchJobs,
       Watchers!BaselineFails
<1>4. CASE \E c \in WatcherCalls : Watchers!Scheduled(c)
    BY <1>4, WatchBounds DEF WatchTypes, WatchSets, WatchAt, WatchNumbers, WatchJobs,
       Watchers!Scheduled, Watchers!Saves
<1>5. CASE \E c \in WatcherCalls : Watchers!NotScheduled(c)
    BY <1>5, WatchBounds DEF WatchTypes, WatchSets, WatchAt, WatchNumbers, WatchJobs,
       Watchers!NotScheduled
<1>6. CASE \E c \in WatcherCalls, w \in Watchers!Ids : Watchers!Remove(c, w)
    BY <1>6, WatchBounds DEF WatchTypes, WatchSets, WatchAt, WatchNumbers, WatchJobs, Watchers!Remove
<1>7. CASE \E c \in WatcherCalls : Watchers!Unscheduled(c)
    BY <1>7, WatchBounds DEF WatchTypes, WatchSets, WatchAt, WatchNumbers, WatchJobs,
       Watchers!Unscheduled, Watchers!Saves
<1>8. CASE \E c \in WatcherCalls : Watchers!Write(c)
    BY <1>8, WatchBounds DEF WatchTypes, WatchSets, WatchAt, WatchNumbers, WatchJobs, Watchers!Write
<1>9. CASE \E c \in WatcherCalls : Watchers!Written(c)
    BY <1>9, WatchBounds DEF WatchTypes, WatchSets, WatchAt, WatchNumbers, WatchJobs, Watchers!Written
<1>10. CASE \E c \in WatcherCalls : Watchers!Renamed(c)
    BY <1>10, WatchBounds DEF WatchTypes, WatchSets, WatchAt, WatchNumbers, WatchJobs,
       Watchers!Renamed, Watchers!Returns
<1>11. CASE \E c \in WatcherCalls : Watchers!SaveFails(c)
    BY <1>11, WatchBounds DEF WatchTypes, WatchSets, WatchAt, WatchNumbers, WatchJobs,
       Watchers!SaveFails, Watchers!Returns, Watchers!Saving
<1>12. CASE \E w \in Watchers!Ids : Watchers!Check(w) \/ Watchers!Resume(w) \/ Watchers!StopJob(w)
    BY <1>12, WatchBounds DEF WatchTypes, WatchSets, WatchAt, WatchNumbers, WatchJobs,
       Watchers!Check, Watchers!Resume, Watchers!StopJob
<1>13. CASE Watchers!Checked \/ Watchers!Resumed \/ Watchers!Stop
    BY <1>13, WatchBounds DEF WatchTypes, WatchSets, WatchAt, WatchNumbers, WatchJobs,
       Watchers!Checked, Watchers!Resumed, Watchers!Stop
<1>14. CASE Watchers!Start
    BY <1>14, WatchBounds DEF WatchTypes, WatchSets, WatchAt, WatchNumbers, WatchJobs, Watchers!Start
<1>15. CASE Watchers!Ends
    BY <1>15, WatchBounds DEF WatchTypes, WatchSets, WatchAt, WatchNumbers, WatchJobs,
       Watchers!Ends, Watchers!Idle
<1> QED
    BY <1>1, <1>2, <1>3, <1>4, <1>5, <1>6, <1>7, <1>8, <1>9, <1>10, <1>11, <1>12, <1>13, <1>14,
       <1>15, Zenon DEF Watchers!Next

LEMMA WatchCounts == \A S : Watchers!Cardinality(S) = Cardinality(S)
BY DEF Watchers!Cardinality, Cardinality

LEMMA WatchFinite ==
    ASSUME NEW S \in SUBSET Watchers!Ids
    PROVE  /\ Cardinality(S) \in Nat
           /\ \A x : Cardinality(S \cup {x}) <= Cardinality(S) + 1 /\ Cardinality(S \ {x}) <= Cardinality(S)
<1>1. IsFiniteSet(1..MaxNumbers)
    BY WatchBounds, FS_Interval
<1>2. IsFiniteSet(S)
    BY <1>1, WatchBounds, FS_Subset
<1>3. Cardinality(S) \in Nat
    BY <1>2, FS_CardinalityType
<1>4. ASSUME NEW x PROVE Cardinality(S \cup {x}) <= Cardinality(S) + 1
    BY <1>2, <1>3, FS_AddElement
<1>5. ASSUME NEW x PROVE Cardinality(S \ {x}) <= Cardinality(S)
    <2>1. Cardinality(S \ {x}) = IF x \in S THEN Cardinality(S) - 1 ELSE Cardinality(S)
        BY <1>2, FS_RemoveElement, Zenon
    <2> QED
        BY <1>3, <2>1
<1> QED
    BY <1>3, <1>4, <1>5

LEMMA WatchRoomStep == ASSUME WatchTypes, WatchNumbers, WatchFlags, WatchRoom, Watchers!Next PROVE WatchRoom'
<1>1. CASE \E c \in WatcherCalls : Watchers!Create(c)
    <2> SUFFICES ASSUME NEW c \in WatcherCalls, Watchers!Create(c) PROVE WatchRoom'
        BY <1>1
    <2>1. /\ watcherAt' = [watcherAt EXCEPT ![c] = "baseline"] /\ Cardinality(registry) < MaxWatchers
          /\ UNCHANGED <<registry, list, watcherFile, tmp>>
        BY WatchCounts DEF Watchers!Create
    <2>4. crowd' = (crowd \/ \E d \in WatcherCalls : watcherAt[d] = "baseline")
        BY Zenon DEF Watchers!Create
    <2>2. CASE crowd'
        BY <2>2, Zenon DEF WatchRoom
    <2>3. CASE ~crowd'
        <3>1. ~crowd /\ \A d \in WatcherCalls : watcherAt[d] # "baseline"
            BY <2>4, <2>3, Zenon
        <3>2. WatchNext'
            BY <2>1, <3>1 DEF WatchNext, WatchTypes, WatchAt
        <3>3. WatchFit' /\ WatchFitFiles' /\ WatchFitLists'
            BY <2>1, <3>1 DEF WatchRoom, WatchFit, WatchFitFiles, WatchFitLists
        <3> QED
            BY <3>2, <3>3 DEF WatchRoom
    <2> QED
        BY <2>2, <2>3
<1>2. CASE \E c \in WatcherCalls : Watchers!Baseline(c)
    <2> SUFFICES ASSUME NEW c \in WatcherCalls, Watchers!Baseline(c) PROVE WatchRoom'
        BY <1>2
    <2>1. /\ watcherAt[c] = "baseline" /\ watcherAt' = [watcherAt EXCEPT ![c] = "job"]
          /\ registry' = registry \cup {number[c]} /\ UNCHANGED <<list, crowd, watcherFile, tmp>>
        BY Zenon DEF Watchers!Baseline
    <2>2. Cardinality(registry) \in Nat /\ Cardinality(registry') <= Cardinality(registry) + 1 /\ Cardinality(registry') \in Nat
        <3>1. registry \in SUBSET Watchers!Ids /\ number[c] \in Watchers!Ids
            BY <2>1 DEF WatchTypes, WatchSets, WatchNumbers
        <3>2. registry' \in SUBSET Watchers!Ids
            BY <2>1, <3>1
        <3> QED
            BY <2>1, <3>1, <3>2, WatchFinite
    <2>3. WatchNext => WatchFit'
        BY <2>1, <2>2, WatchBounds DEF WatchNext, WatchFit
    <2>4. WatchNext => WatchNext'
        BY <2>1 DEF WatchNext, WatchTypes, WatchAt
    <2>5. (WatchFitFiles => WatchFitFiles') /\ (WatchFitLists => WatchFitLists')
        BY <2>1 DEF WatchFitFiles, WatchFitLists
    <2> QED
        BY <2>1, <2>3, <2>4, <2>5, Zenon DEF WatchRoom
<1>3. CASE \E c \in WatcherCalls : Watchers!BaselineFails(c)
    BY <1>3, WatchBounds DEF WatchTypes, WatchSets, WatchAt, WatchRoom, WatchFit, WatchFitFiles,
       WatchFitLists, WatchNext, Watchers!BaselineFails
<1>4. CASE \E c \in WatcherCalls : Watchers!Scheduled(c)
    <2> SUFFICES ASSUME NEW c \in WatcherCalls, Watchers!Scheduled(c) PROVE WatchRoom'
        BY <1>4
    <2>1. /\ watcherAt' = [watcherAt EXCEPT ![c] = "mkdir"] /\ list' = [list EXCEPT ![c] = registry]
          /\ UNCHANGED <<registry, crowd, watcherFile, tmp>>
        BY Zenon DEF Watchers!Scheduled, Watchers!Saves
    <2>2. WatchFit /\ WatchFitLists => WatchFitLists'
        BY <2>1 DEF WatchFit, WatchFitLists, WatchTypes, WatchAt
    <2>3. (WatchFit => WatchFit') /\ (WatchFitFiles => WatchFitFiles')
        BY <2>1 DEF WatchFit, WatchFitFiles
    <2>4. WatchNext => WatchNext'
        BY <2>1 DEF WatchNext, WatchTypes, WatchAt
    <2> QED
        BY <2>1, <2>2, <2>3, <2>4, Zenon DEF WatchRoom
<1>5. CASE \E c \in WatcherCalls : Watchers!NotScheduled(c)
    <2> SUFFICES ASSUME NEW c \in WatcherCalls, Watchers!NotScheduled(c) PROVE WatchRoom'
        BY <1>5
    <2>1. /\ watcherAt' = [watcherAt EXCEPT ![c] = "idle"]
          /\ registry' = registry \ {number[c]} /\ UNCHANGED <<list, crowd, watcherFile, tmp>>
        BY Zenon DEF Watchers!NotScheduled
    <2>2. Cardinality(registry) \in Nat /\ Cardinality(registry') <= Cardinality(registry) /\ Cardinality(registry') \in Nat
        <3>1. registry \in SUBSET Watchers!Ids
            BY DEF WatchTypes, WatchSets
        <3>2. registry' \in SUBSET Watchers!Ids
            BY <2>1, <3>1
        <3> QED
            BY <2>1, <3>1, <3>2, WatchFinite
    <2>3. WatchFit => WatchFit'
        BY <2>1, <2>2, WatchBounds DEF WatchFit
    <2>4. WatchNext => WatchNext'
        BY <2>1, <2>2, WatchBounds DEF WatchNext, WatchTypes, WatchAt
    <2>5. (WatchFitFiles => WatchFitFiles') /\ (WatchFitLists => WatchFitLists')
        BY <2>1 DEF WatchFitFiles, WatchFitLists
    <2> QED
        BY <2>1, <2>3, <2>4, <2>5, Zenon DEF WatchRoom
<1>6. CASE \E c \in WatcherCalls, w \in Watchers!Ids : Watchers!Remove(c, w)
    <2> SUFFICES ASSUME NEW c \in WatcherCalls, NEW w \in Watchers!Ids, Watchers!Remove(c, w) PROVE WatchRoom'
        BY <1>6
    <2>1. /\ watcherAt' = [watcherAt EXCEPT ![c] = "unjob"]
          /\ registry' = registry \ {w} /\ UNCHANGED <<list, crowd, watcherFile, tmp>>
        BY Zenon DEF Watchers!Remove
    <2>2. Cardinality(registry) \in Nat /\ Cardinality(registry') <= Cardinality(registry) /\ Cardinality(registry') \in Nat
        <3>1. registry \in SUBSET Watchers!Ids
            BY DEF WatchTypes, WatchSets
        <3>2. registry' \in SUBSET Watchers!Ids
            BY <2>1, <3>1
        <3> QED
            BY <2>1, <3>1, <3>2, WatchFinite
    <2>3. WatchFit => WatchFit'
        BY <2>1, <2>2, WatchBounds DEF WatchFit
    <2>4. WatchNext => WatchNext'
        BY <2>1, <2>2, WatchBounds DEF WatchNext, WatchTypes, WatchAt
    <2>5. (WatchFitFiles => WatchFitFiles') /\ (WatchFitLists => WatchFitLists')
        BY <2>1 DEF WatchFitFiles, WatchFitLists
    <2> QED
        BY <2>1, <2>3, <2>4, <2>5, Zenon DEF WatchRoom
<1>7. CASE \E c \in WatcherCalls : Watchers!Unscheduled(c)
    <2> SUFFICES ASSUME NEW c \in WatcherCalls, Watchers!Unscheduled(c) PROVE WatchRoom'
        BY <1>7
    <2>1. /\ watcherAt' = [watcherAt EXCEPT ![c] = "mkdir"] /\ list' = [list EXCEPT ![c] = registry]
          /\ UNCHANGED <<registry, crowd, watcherFile, tmp>>
        BY Zenon DEF Watchers!Unscheduled, Watchers!Saves
    <2>2. WatchFit /\ WatchFitLists => WatchFitLists'
        BY <2>1 DEF WatchFit, WatchFitLists, WatchTypes, WatchAt
    <2>3. (WatchFit => WatchFit') /\ (WatchFitFiles => WatchFitFiles')
        BY <2>1 DEF WatchFit, WatchFitFiles
    <2>4. WatchNext => WatchNext'
        BY <2>1 DEF WatchNext, WatchTypes, WatchAt
    <2> QED
        BY <2>1, <2>2, <2>3, <2>4, Zenon DEF WatchRoom
<1>8. CASE \E c \in WatcherCalls : Watchers!Write(c)
    BY <1>8, WatchBounds DEF WatchTypes, WatchSets, WatchAt, WatchRoom, WatchFit, WatchFitFiles,
       WatchFitLists, WatchNext, Watchers!Write
<1>9. CASE \E c \in WatcherCalls : Watchers!Written(c)
    BY <1>9, WatchBounds DEF WatchTypes, WatchSets, WatchAt, WatchRoom, WatchFit, WatchFitFiles,
       WatchFitLists, WatchNext, Watchers!Written
<1>10. CASE \E c \in WatcherCalls : Watchers!Renamed(c)
    BY <1>10, WatchBounds DEF WatchTypes, WatchSets, WatchAt, WatchRoom, WatchFit, WatchFitFiles,
       WatchFitLists, WatchNext, Watchers!Renamed, Watchers!Returns
<1>11. CASE \E c \in WatcherCalls : Watchers!SaveFails(c)
    BY <1>11, WatchBounds DEF WatchTypes, WatchSets, WatchAt, WatchRoom, WatchFit, WatchFitFiles,
       WatchFitLists, WatchNext, Watchers!SaveFails, Watchers!Returns, Watchers!Saving
<1>12. CASE \E w \in Watchers!Ids : Watchers!Check(w) \/ Watchers!Resume(w) \/ Watchers!StopJob(w)
    BY <1>12, WatchBounds DEF WatchTypes, WatchSets, WatchAt, WatchRoom, WatchFit, WatchFitFiles,
       WatchFitLists, WatchNext, Watchers!Check, Watchers!Resume, Watchers!StopJob
<1>13. CASE Watchers!Checked \/ Watchers!Resumed \/ Watchers!Stop
    BY <1>13, WatchBounds DEF WatchTypes, WatchSets, WatchAt, WatchRoom, WatchFit, WatchFitFiles,
       WatchFitLists, WatchNext, Watchers!Checked, Watchers!Resumed, Watchers!Stop
<1>14. CASE Watchers!Start
    <2>1. UNCHANGED <<list, crowd, watcherFile, tmp, watcherAt>> /\ phase = "down" /\ registry' = Watchers!Read
        BY <1>14, Zenon DEF Watchers!Start
    <2>2. WatchNext'
        BY <2>1 DEF WatchNumbers, WatchNext
    <2>3. WatchFitFiles => WatchFit'
        BY <2>1, WatchBounds, FS_EmptySet DEF WatchFit, WatchFitFiles, Watchers!Read
    <2>4. (WatchFitFiles => WatchFitFiles') /\ (WatchFitLists => WatchFitLists')
        BY <2>1 DEF WatchFitFiles, WatchFitLists
    <2> QED
        BY <2>1, <2>2, <2>3, <2>4, Zenon DEF WatchRoom
<1>15. CASE Watchers!Ends
    <2>1. /\ UNCHANGED <<crowd, watcherFile, tmp>> /\ registry' = {}
          /\ watcherAt' = [c \in WatcherCalls |-> "idle"] /\ list' = [c \in WatcherCalls |-> {}]
        BY <1>15, Zenon DEF Watchers!Ends, Watchers!Idle
    <2>2. WatchNext' /\ WatchFit' /\ WatchFitLists'
        BY <2>1, WatchBounds, FS_EmptySet DEF WatchNext, WatchFit, WatchFitLists
    <2>3. WatchFitFiles => WatchFitFiles'
        BY <2>1 DEF WatchFitFiles
    <2> QED
        BY <2>1, <2>2, <2>3, Zenon DEF WatchRoom
<1> QED
    BY <1>1, <1>2, <1>3, <1>4, <1>5, <1>6, <1>7, <1>8, <1>9, <1>10, <1>11, <1>12, <1>13, <1>14,
       <1>15, Zenon DEF Watchers!Next

LEMMA WatchInitInv == Watchers!Init => WatchInv
<1> SUFFICES ASSUME Watchers!Init PROVE WatchInv
    OBVIOUS
<1> USE DEF Watchers!Init, Watchers!Idle
<1>1. WatchSets /\ WatchFiles
    BY DEF WatchSets, WatchFiles
<1>2. WatchAt
    BY WatchBounds DEF WatchAt, WatchPlaces
<1>3. WatchFlags /\ WatchUnsafe /\ WatchHistory
    BY DEF WatchFlags, WatchUnsafe, WatchHistory
<1>4. WatchNumbers /\ WatchJobs
    BY DEF WatchNumbers, WatchJobs
<1>5. WatchFile
    BY DEF WatchFile, WatchRead, WatchAlone, WatchSaved, Watchers!Read, Watchers!Saving
<1>6. WatchRoom
    BY WatchBounds, FS_EmptySet DEF WatchRoom, WatchFit, WatchFitFiles, WatchFitLists, WatchNext
<1> QED
    BY <1>1, <1>2, <1>3, <1>4, <1>5, <1>6 DEF WatchInv, WatchTypes

LEMMA WatchNextInv == WatchInv /\ [Watchers!Next]_watcherVars => WatchInv'
<1> SUFFICES ASSUME WatchInv, [Watchers!Next]_watcherVars PROVE WatchInv'
    OBVIOUS
<1>1. CASE Watchers!Next
    <2>1. WatchTypes'
        BY <1>1, WatchSetsStep, WatchFilesStep, WatchAtStep, Zenon DEF WatchInv, WatchTypes
    <2>2. WatchFlags' /\ WatchUnsafe' /\ WatchNumbers' /\ WatchHistory'
        BY <1>1, WatchFlagsStep, WatchUnsafeStep, WatchNumbersStep, WatchHistoryStep, Zenon DEF WatchInv
    <2>3. WatchFile' /\ WatchJobs' /\ WatchRoom'
        BY <1>1, WatchFileStep, WatchJobsStep, WatchRoomStep, Zenon DEF WatchInv, WatchTypes
    <2> QED
        BY <2>1, <2>2, <2>3 DEF WatchInv
<1>2. CASE UNCHANGED watcherVars
    <2> USE <1>2 DEF watcherVars
    <2>1. WatchTypes'
        BY DEF WatchInv, WatchTypes, WatchSets, WatchFiles, WatchAt
    <2>2. WatchFlags' /\ WatchUnsafe' /\ WatchNumbers' /\ WatchHistory'
        BY Zenon DEF WatchInv, WatchFlags, WatchUnsafe, WatchNumbers, WatchHistory
    <2>3. WatchFile'
        BY Zenon DEF WatchInv, WatchFile, WatchRead, WatchAlone, WatchSaved, Watchers!Saving,
           Watchers!Read
    <2>4. WatchJobs' /\ WatchRoom'
        BY Zenon DEF WatchInv, WatchJobs, WatchRoom, WatchFit, WatchFitFiles, WatchFitLists, WatchNext
    <2> QED
        BY <2>1, <2>2, <2>3, <2>4 DEF WatchInv
<1> QED
    BY <1>1, <1>2

LEMMA WatchInvKeeps == WatchInv => Watchers!TypeOK /\ Watchers!WatchersKept
<1> SUFFICES ASSUME WatchInv PROVE Watchers!TypeOK /\ Watchers!WatchersKept
    OBVIOUS
<1>1. Watchers!TypeOK
    BY WatchBounds DEF WatchInv, WatchTypes, WatchSets, WatchFiles, WatchAt, WatchPlaces,
       WatchFlags, Watchers!TypeOK
<1>2. phase = "up" /\ (\A c \in WatcherCalls : watcherAt[c] \notin {"baseline", "job"})
        => registry \subseteq watcherJobs \cup bare
    BY DEF WatchInv, WatchJobs
<1>3. WatchHistory /\ (~crowd => Cardinality(registry) <= MaxWatchers)
    BY Zenon DEF WatchInv, WatchRoom, WatchFit
<1>4. /\ phase \in {"resuming", "up", "stopping"} => lasting \subseteq registry
      /\ phase # "down" => gone \cap registry = {}
    BY <1>3 DEF WatchHistory
<1> QED
    BY <1>1, <1>2, <1>3, <1>4, WatchCounts, Zenon DEF Watchers!WatchersKept

HIDE DEF Watchers!memory, Watchers!files, Watchers!process, Watchers!call, Watchers!history,
    Watchers!Fault, Watchers!Goes

-----------------------------------------------------------------------------
(* The whole: a step of MCStores is a step of the part that runs.          *)

LEMMA PartSteps ==
    ASSUME [StoresNext]_allVars
    PROVE  /\ part' = part
           /\ part = "cron" => [Next]_vars
           /\ part # "cron" => UNCHANGED vars
           /\ part = "memory" => [Memory!Next]_memoryVars
           /\ part = "credentials" => [Credentials!Next]_credentialVars
           /\ part = "session" => [Session!Next]_sessionVars
           /\ part = "documents" => [Index!Next]_documentVars
           /\ part = "watchers" => [Watchers!Next]_watcherVars
           /\ part = "environment" => [Environment!Next]_environmentVars
BY Zenon DEF StoresNext, allVars

\* The part that runs keeps its own inductive invariant.
StoresInv ==
    /\ part = "cron" => Inv
    /\ part = "memory" => MemoryInv
    /\ part = "credentials" => CredentialInv
    /\ part = "session" => SessionInv
    /\ part = "documents" => DocInv
    /\ part = "watchers" => WatchInv
    /\ part = "environment" => EnvInv

LEMMA StoresInvHolds == StoresSpec => []StoresInv
<1>1. StoresInit => StoresInv
    BY InitInv, MemoryInitInv, CredentialInitInv, SessionInitInv, DocInitInv, WatchInitInv,
       EnvInitInv, Zenon
       DEF StoresInit, StoresInv
<1>2. StoresInv /\ [StoresNext]_allVars => StoresInv'
    BY PartSteps, NextInv, MemoryNextInv, CredentialNextInv, SessionNextInv, DocNextInv, WatchNextInv,
       EnvNextInv, Zenon DEF StoresInv
<1> QED
    BY <1>1, <1>2, PTL DEF StoresSpec

\* Every variable of the part that runs keeps its type, for any jobs, calls, documents,
\* watchers and environments and under every bound.
THEOREM StoresTyped == StoresSpec => []StoresTypeOK
<1>1. StoresInv => StoresTypeOK
    BY InvTypes, MemoryInvKeeps, CredentialInvTypes, SessionInvKeeps, DocInvKeeps, WatchInvKeeps,
       EnvInvKeeps, Zenon
       DEF StoresInv, StoresTypeOK
<1> QED
    BY <1>1, StoresInvHolds, PTL

\* An acknowledged memory stays and every row has its file; the chunks of a document
\* are those of one text, and a change is not lost; a watcher stays until it is removed;
\* and what runs is for the environment that is active: for any number of calls that go
\* on side by side, and of memories, documents, watchers, environments, failures, crashes
\* and starts.
THEOREM RecordsKeptAlways == StoresSpec => []RecordsKept
<1>1. StoresInv => RecordsKept
    BY MemoryInvKeeps, DocInvKeeps, WatchInvKeeps, EnvInvKeeps, Zenon DEF StoresInv, RecordsKept
<1> QED
    BY <1>1, StoresInvHolds, PTL

\* Only calls that overlap lose one another's records: otherwise each record is what the
\* last call that wrote it made of it, whatever fails or crashes, for any calls and
\* records; and while the keepalive alone refreshes, both records hold
\* the newest pair and the endpoint accepts it, for any chats and number of pairs.
THEOREM CredentialsHeldAlways == StoresSpec => []CredentialsHeld
<1>1. StoresInv => CredentialsHeld
    BY CredentialInvTypes, SessionInvKeeps, Zenon DEF StoresInv, CredentialsHeld
<1> QED
    BY <1>1, StoresInvHolds, PTL

\* Every execution of a job since its creation shows in its file, but for the one in
\* progress and those a crash or a failed save lost, unless a call held a copy of the job
\* while it was executed: for any jobs, schedules and overlapping calls of any users.
THEOREM RunsAccountedAlways == StoresSpec => []RunsAccounted
<1>1. StoresInit => RunsInv
    BY RunsInitInv DEF StoresInit
<1>2. RunsInv /\ [StoresNext]_allVars => RunsInv'
    BY PartSteps, RunsNextInv
<1> QED
    BY <1>1, <1>2, RunsInvCounts, PTL DEF StoresSpec
=============================================================================
