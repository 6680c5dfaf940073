----------------------------- MODULE UpkeepProofs -----------------------------
(***************************************************************************)
(* For every value of the constants: what the parts of MCUpkeep promise,   *)
(* one section for each part and its inductive invariant, and then the     *)
(* properties of the whole.                                                *)
(***************************************************************************)
EXTENDS MCUpkeep, CronSchedulerProofs, Sequences, FiniteSetTheorems, TLAPS

-----------------------------------------------------------------------------
(* OAuthConnect: a server that listens is that of the pending sign-in or   *)
(* of one being begun; and as long as no sign-in was begun or completed    *)
(* while another was under way, one call at a time works, on the pending   *)
(* sign-in, which only it can settle.                                      *)

ConnectCounts ==
    /\ provider \in {"local", "anthropic"} /\ begun \in 0..MaxSignIns /\ pending \in 0..MaxSignIns
    /\ entry \in [SignInCalls -> 0..MaxSignIns] /\ code \in [SignInCalls -> 0..MaxSignIns]
ConnectSets ==
    /\ open \subseteq Connect!SignIns /\ listening \subseteq Connect!SignIns /\ settled \subseteq Connect!SignIns
    /\ approved \subseteq Connect!SignIns /\ spent \subseteq Connect!SignIns /\ refused \subseteq Connect!SignIns
ConnectPlaces ==
    /\ heard \in [Connect!SignIns -> {"nothing", "code", "error"}]
    /\ waiter \in [Connect!SignIns -> SignInCalls \cup {NoCall}]
    /\ connectAt \in [SignInCalls -> {"idle", "waiting", "answered", "rejected", "exchanging"}]
ConnectFlags == given \in [SignInCalls -> BOOLEAN] /\ disturbed \in BOOLEAN
ConnectTypes == ConnectCounts /\ ConnectSets /\ ConnectPlaces /\ ConnectFlags

\* The servers there are, and what a call works on.
Servers ==
    /\ open \cup listening \cup settled \subseteq 1..begun
    /\ pending \in open \cup {0} /\ approved \subseteq open
    /\ listening \cap open \subseteq {pending}
    /\ settled \cap listening \subseteq open
    /\ provider = "local" => open \ listening \subseteq settled
    /\ provider = "anthropic" =>
          /\ listening = {} /\ settled = {}
          /\ \A c \in SignInCalls : \/ connectAt[c] = "idle"
                                    \/ connectAt[c] = "exchanging" /\ code[c] \in open
Waiters ==
    /\ \A c \in SignInCalls : connectAt[c] \in {"waiting", "answered", "rejected"} => entry[c] \in open
    /\ \A c \in SignInCalls : connectAt[c] = "exchanging" => code[c] \in open
    /\ \A s \in Connect!SignIns \ settled :
         waiter[s] # NoCall => connectAt[waiter[s]] = "waiting" /\ entry[waiter[s]] = s

\* As long as none was begun or completed while another was under way.
OneSignIn ==
    /\ refused = {}
    /\ \A s, t \in listening : s = t
    /\ listening \subseteq open \/ pending = 0
    /\ provider = "anthropic" => open \ spent \subseteq {pending}
OnPending ==
    /\ \A c, d \in SignInCalls : connectAt[c] # "idle" /\ connectAt[d] # "idle" => c = d
    /\ \A c \in SignInCalls : connectAt[c] # "idle" =>
         \/ entry[c] = pending
         \/ provider = "local" /\ entry[c] = 0 /\ connectAt[c] = "exchanging"
CanBeAnswered ==
    \A c \in SignInCalls : connectAt[c] = "waiting" =>
         waiter[entry[c]] = c /\ entry[c] \in listening \ settled /\ heard[entry[c]] = "nothing"
NoCodeLost ==
    \A c \in SignInCalls : connectAt[c] = "rejected" => entry[c] \in settled /\ heard[entry[c]] # "code"
SettledByCall ==
    pending \in settled =>
         \E c \in SignInCalls : connectAt[c] \in {"answered", "rejected", "exchanging"} /\ entry[c] = pending
OneCall == OnPending /\ CanBeAnswered /\ NoCodeLost /\ SettledByCall

ConnectInv == ConnectTypes /\ Servers /\ Waiters /\ (~disturbed => OneSignIn /\ OneCall)

LEMMA ConnectTypesHold == ConnectTypes => Connect!TypeOK
<1> SUFFICES ASSUME ConnectTypes PROVE Connect!TypeOK
    OBVIOUS
<1>1. {open, listening, settled, approved, spent, refused} \subseteq SUBSET Connect!SignIns
    BY DEF ConnectTypes, ConnectSets
<1> QED
    BY <1>1, Zenon DEF ConnectTypes, ConnectCounts, ConnectPlaces, ConnectFlags, Connect!TypeOK

LEMMA ConnectInitInv == Connect!Init => ConnectInv
<1> SUFFICES ASSUME Connect!Init PROVE ConnectInv
    OBVIOUS
<1> USE DEF Connect!Init
<1>1. ConnectCounts /\ ConnectSets
    BY UpkeepLimits DEF ConnectCounts, ConnectSets, Connect!SignInLimits
<1>2. ConnectPlaces
    BY DEF ConnectPlaces
<1>3. ConnectFlags
    BY Zenon DEF ConnectFlags
<1>4. Servers /\ Waiters
    BY DEF Servers, Waiters
<1>5. OneSignIn /\ OneCall
    BY DEF OneSignIn, OneCall, OnPending, CanBeAnswered, NoCodeLost, SettledByCall
<1> QED
    BY <1>1, <1>2, <1>3, <1>4, <1>5 DEF ConnectInv, ConnectTypes

LEMMA ConnectInvHeld == ConnectInv => Connect!ConnectHeld
BY DEF ConnectInv, Servers, OneSignIn, OneCall, CanBeAnswered, Connect!ConnectHeld

\* What stop() of a server does: its waiter is rejected, if it still waits.
LEMMA ConnectStops ==
    ASSUME ConnectSets, ConnectPlaces, NEW s \in 0..MaxSignIns,
           NEW place \in [SignInCalls -> {"idle", "waiting", "answered", "rejected", "exchanging"}],
           Connect!Stops(s, place)
    PROVE  /\ listening' = listening \ {s} /\ settled' = settled \cup ({s} \ {0})
           /\ listening' \subseteq Connect!SignIns /\ settled' \subseteq Connect!SignIns
           /\ connectAt' \in [SignInCalls -> {"idle", "waiting", "answered", "rejected", "exchanging"}]
           /\ \A c \in SignInCalls : connectAt'[c] = IF s # 0 /\ s \notin settled /\ waiter[s] = c
                                                   THEN "rejected" ELSE place[c]
BY UpkeepLimits DEF Connect!Stops, ConnectSets, Connect!SignIns, Connect!SignInLimits

LEMMA ConnectInitiate == ASSUME ConnectInv, Connect!Initiate PROVE ConnectInv'
<1> USE UpkeepLimits DEF Connect!SignInLimits
<1>1. /\ begun' = begun + 1 /\ begun' \in 1..MaxSignIns
      /\ \/ provider = "local" /\ listening' = listening \cup {begun'} /\ open' = open /\ pending' = pending
         \/ provider = "anthropic" /\ listening' = listening /\ open' = open \cup {begun'} /\ pending' = begun'
    BY DEF Connect!Initiate, ConnectInv, ConnectTypes, ConnectCounts
<1>2. UNCHANGED <<provider, settled, heard, waiter, connectAt, entry, code, given, approved, spent, refused>>
    BY DEF Connect!Initiate, Connect!call, Connect!user
<1>3. /\ disturbed' \in BOOLEAN
      /\ ~disturbed' => /\ ~disturbed /\ pending = 0 /\ listening = {}
                         /\ \A c \in SignInCalls : connectAt[c] = "idle"
    BY Zenon DEF Connect!Initiate, Connect!Busy, ConnectInv, ConnectTypes, ConnectFlags
<1>8. begun' \in Connect!SignIns /\ 1..begun \subseteq 1..begun' /\ begun' \in 1..begun' /\ begun' \notin 1..begun
    BY <1>1 DEF ConnectInv, ConnectTypes, ConnectCounts, Connect!SignIns
<1>4. ConnectTypes'
    <2>0. ConnectCounts'
        BY <1>1, <1>2 DEF ConnectInv, ConnectTypes, ConnectCounts
    <2>1. ConnectSets'
        BY <1>1, <1>2, <1>8 DEF ConnectInv, ConnectTypes, ConnectSets
    <2>2. ConnectPlaces'
        BY <1>2 DEF ConnectInv, ConnectTypes, ConnectPlaces
    <2>3. ConnectFlags'
        BY <1>2, <1>3, Zenon DEF ConnectInv, ConnectTypes, ConnectFlags
    <2> QED
        BY <2>0, <2>1, <2>2, <2>3 DEF ConnectTypes
<1>5. Servers'
    BY <1>1, <1>2, <1>8 DEF ConnectInv, Servers
<1>6. Waiters'
    BY <1>1, <1>2 DEF ConnectInv, Waiters
<1>7. ASSUME ~disturbed' PROVE (OneSignIn /\ OneCall)'
    <2>1. ~disturbed /\ pending = 0 /\ listening = {} /\ \A c \in SignInCalls : connectAt[c] = "idle"
        BY <1>3, <1>7
    <2>2. OneSignIn'
        BY <1>1, <1>2, <2>1 DEF ConnectInv, OneSignIn, Servers
    <2>3. OneCall'
        BY <1>1, <1>2, <2>1 DEF ConnectInv, OneCall, OnPending, CanBeAnswered, NoCodeLost, SettledByCall, Servers
    <2> QED
        BY <2>2, <2>3
<1> QED
    BY <1>4, <1>5, <1>6, <1>7 DEF ConnectInv

\* A pending server that is stopped by another sign-in.
LEMMA ConnectInitiated == ASSUME ConnectInv, NEW s \in Connect!SignIns, Connect!Initiated(s) PROVE ConnectInv'
<1>1. /\ provider = "local" /\ s \in listening /\ s \notin open /\ pending' = s /\ open' = open \cup {s}
      /\ UNCHANGED <<provider, begun, heard, waiter, entry, code, given, approved, spent, disturbed, refused>>
    BY DEF Connect!Initiated, Connect!user
<1>2. /\ listening' = listening \ {pending} /\ settled' = settled \cup ({pending} \ {0})
      /\ listening' \subseteq Connect!SignIns /\ settled' \subseteq Connect!SignIns
      /\ connectAt' \in [SignInCalls -> {"idle", "waiting", "answered", "rejected", "exchanging"}]
      /\ \A c \in SignInCalls : connectAt'[c] = IF pending # 0 /\ pending \notin settled /\ waiter[pending] = c
                                              THEN "rejected" ELSE connectAt[c]
    BY ConnectStops DEF Connect!Initiated, ConnectInv, ConnectTypes, ConnectCounts, ConnectPlaces
<1>3. ConnectTypes'
    <2>1. ConnectCounts' /\ ConnectSets'
        BY <1>1, <1>2 DEF ConnectInv, ConnectTypes, ConnectCounts, ConnectSets, Connect!SignIns
    <2>2. ConnectPlaces'
        BY <1>1, <1>2 DEF ConnectInv, ConnectTypes, ConnectPlaces
    <2>3. ConnectFlags'
        BY <1>1, Zenon DEF ConnectInv, ConnectTypes, ConnectFlags
    <2> QED
        BY <2>1, <2>2, <2>3 DEF ConnectTypes
<1>4. Servers'
    BY <1>1, <1>2 DEF ConnectInv, Servers
<1>5. Waiters'
    <2>1. ASSUME NEW c \in SignInCalls, connectAt'[c] \in {"waiting", "answered", "rejected"}
          PROVE  entry'[c] \in open'
        <3>1. connectAt[c] \in {"waiting", "answered", "rejected"}
            <4>1. CASE pending # 0 /\ pending \notin settled /\ waiter[pending] = c
                BY <4>1, UpkeepLimits DEF ConnectInv, ConnectTypes, ConnectCounts, Waiters, Connect!SignIns, Connect!SignInLimits
            <4> QED
                BY <1>2, <2>1, <4>1
        <3> QED
            BY <1>1, <3>1 DEF ConnectInv, Waiters
    <2>2. ASSUME NEW t \in Connect!SignIns \ settled', waiter'[t] # NoCall
          PROVE  connectAt'[waiter'[t]] = "waiting" /\ entry'[waiter'[t]] = t
        <3>1. /\ waiter'[t] = waiter[t] /\ entry' = entry /\ t \notin settled /\ (pending # 0 => t # pending)
              /\ waiter[t] \in SignInCalls
            BY <1>1, <1>2, <2>2 DEF ConnectInv, ConnectTypes, ConnectPlaces
        <3>2. connectAt[waiter[t]] = "waiting" /\ entry[waiter[t]] = t
            BY <2>2, <3>1 DEF ConnectInv, Waiters
        <3>3. ~(pending # 0 /\ pending \notin settled /\ waiter[pending] = waiter[t])
            BY <2>2, <3>1, <3>2 DEF ConnectInv, ConnectTypes, ConnectCounts, Waiters, Connect!SignIns
        <3> QED
            BY <1>2, <3>1, <3>2, <3>3
    <2>3. \A d \in SignInCalls : connectAt'[d] = "exchanging" => code'[d] \in open'
        BY <1>1, <1>2 DEF ConnectInv, Waiters
    <2> QED
        BY <2>1, <2>2, <2>3 DEF Waiters
<1>6. ASSUME ~disturbed' PROVE (OneSignIn /\ OneCall)'
    <2>1. OneSignIn /\ OneCall /\ pending = 0
        BY <1>1, <1>6 DEF ConnectInv, OneSignIn
    <2>2. OneSignIn'
        BY <1>1, <1>2, <2>1 DEF ConnectInv, OneSignIn
    <2>3. \A c \in SignInCalls : connectAt'[c] = connectAt[c]
        BY <1>2, <2>1
    <2>4. pending' \notin settled' /\ settled' = settled /\ listening' = listening
        BY <1>1, <1>2, <2>1 DEF ConnectInv, Servers
    <2>5. \A c \in SignInCalls : connectAt[c] # "idle" => entry[c] = 0 /\ connectAt[c] = "exchanging"
        <3>1. 0 \notin open
            BY DEF ConnectInv, Servers
        <3> QED
            BY <2>1, <3>1 DEF ConnectInv, ConnectTypes, ConnectPlaces, OneCall, OnPending, CanBeAnswered, NoCodeLost, SettledByCall, Waiters
    <2>6. OneCall'
        BY <1>1, <2>1, <2>3, <2>4, <2>5 DEF OneCall, OnPending, CanBeAnswered, NoCodeLost, SettledByCall
    <2> QED
        BY <2>2, <2>6
<1> QED
    BY <1>3, <1>4, <1>5, <1>6 DEF ConnectInv

LEMMA ConnectInitiateFails ==
    ASSUME ConnectInv, NEW s \in Connect!SignIns, Connect!InitiateFails(s) \/ Connect!Approve(s)
    PROVE  ConnectInv'
<1>1. /\ UNCHANGED <<provider, begun, open, heard, waiter, pending, connectAt, entry, code, given, spent, disturbed, refused>>
      /\ \/ /\ s \in listening \ open /\ listening' = listening \ {s} /\ settled' = settled \cup {s}
            /\ approved' = approved
         \/ s \in open /\ approved' = approved \cup {s} /\ UNCHANGED <<listening, settled>>
    BY DEF Connect!InitiateFails, Connect!Approve, Connect!call, Connect!user, Connect!server
<1>3. ConnectTypes'
    <2>1. ConnectCounts' /\ ConnectSets'
        BY <1>1 DEF ConnectInv, ConnectTypes, ConnectCounts, ConnectSets
    <2>2. ConnectPlaces'
        BY <1>1 DEF ConnectInv, ConnectTypes, ConnectPlaces
    <2>3. ConnectFlags'
        BY <1>1, Zenon DEF ConnectInv, ConnectTypes, ConnectFlags
    <2> QED
        BY <2>1, <2>2, <2>3 DEF ConnectTypes
<1>4. Servers'
    BY <1>1 DEF ConnectInv, Servers
<1>5. Waiters'
    BY <1>1 DEF ConnectInv, Waiters
<1>6. ASSUME ~disturbed' PROVE (OneSignIn /\ OneCall)'
    <2>1. OneSignIn /\ OneCall
        BY <1>1, <1>6 DEF ConnectInv
    <2>2. OneSignIn'
        BY <1>1, <2>1 DEF OneSignIn
    <2>3. OneCall'
        BY <1>1, <2>1 DEF ConnectInv, OneCall, OnPending, CanBeAnswered, NoCodeLost, SettledByCall, Servers, Waiters
    <2> QED
        BY <2>2, <2>3
<1> QED
    BY <1>3, <1>4, <1>5, <1>6 DEF ConnectInv

LEMMA ConnectCallBack ==
    ASSUME ConnectInv, NEW s \in Connect!SignIns, NEW what \in {"code", "error"}, Connect!CallBack(s, what)
    PROVE  ConnectInv'
<1> USE UpkeepLimits DEF Connect!SignInLimits
<1>1. /\ s \in listening /\ s \in open /\ s \notin settled /\ heard' = [heard EXCEPT ![s] = what]
      /\ UNCHANGED <<provider, begun, open, listening, waiter, pending, entry, code, given, approved, spent, disturbed, refused>>
      /\ \/ waiter[s] = NoCall /\ UNCHANGED <<settled, connectAt>>
         \/ /\ waiter[s] \in SignInCalls /\ settled' = settled \cup {s}
            /\ connectAt' = [connectAt EXCEPT ![waiter[s]] = IF what = "code" THEN "answered" ELSE "rejected"]
    BY DEF Connect!CallBack, Connect!user, ConnectInv, ConnectTypes, ConnectPlaces
<1>3. ConnectTypes'
    <2>1. ConnectCounts' /\ ConnectSets'
        BY <1>1 DEF ConnectInv, ConnectTypes, ConnectCounts, ConnectSets
    <2>2. ConnectPlaces'
        BY <1>1 DEF ConnectInv, ConnectTypes, ConnectPlaces
    <2>3. ConnectFlags'
        BY <1>1, Zenon DEF ConnectInv, ConnectTypes, ConnectFlags
    <2> QED
        BY <2>1, <2>2, <2>3 DEF ConnectTypes
<1>4. Servers'
    BY <1>1 DEF ConnectInv, ConnectTypes, ConnectPlaces, Servers
<1>5. Waiters'
    BY <1>1 DEF ConnectInv, ConnectTypes, ConnectPlaces, Waiters
<1>6. ASSUME ~disturbed' PROVE (OneSignIn /\ OneCall)'
    <2>1. OneSignIn /\ OneCall /\ s = pending
        BY <1>1, <1>6 DEF ConnectInv, Servers
    <2>2. OneSignIn'
        BY <1>1, <2>1 DEF OneSignIn
    <2>3. CASE waiter[s] = NoCall
        <3>1. settled' = settled /\ connectAt' = connectAt
            BY <1>1, <2>3
        <3>2. \A c \in SignInCalls : connectAt[c] \in {"waiting", "rejected"} => heard'[entry[c]] = heard[entry[c]]
            <4>1. \A c \in SignInCalls : connectAt[c] \in {"waiting", "rejected"} => entry[c] # s /\ entry[c] \in Connect!SignIns
                BY <1>1, <2>1, <2>3, UpkeepLimits DEF ConnectInv, ConnectTypes, ConnectSets, Waiters, OneCall, CanBeAnswered, NoCodeLost, Connect!SignInLimits
            <4> QED
                BY <1>1, <4>1 DEF ConnectInv, ConnectTypes, ConnectPlaces
        <3>3. OnPending' /\ SettledByCall'
            BY <1>1, <2>1, <3>1 DEF OneCall, OnPending, SettledByCall
        <3>4. CanBeAnswered' /\ NoCodeLost'
            BY <1>1, <2>1, <3>1, <3>2 DEF OneCall, CanBeAnswered, NoCodeLost
        <3> QED
            BY <2>2, <3>3, <3>4 DEF OneCall
    <2>4. CASE waiter[s] \in SignInCalls
        <3>1. connectAt[waiter[s]] = "waiting" /\ entry[waiter[s]] = s
            BY <1>1, <2>4 DEF ConnectInv, Waiters
        <3>2. \A c \in SignInCalls \ {waiter[s]} : connectAt[c] = "idle"
            BY <2>1, <2>4, <3>1 DEF OneCall, OnPending, CanBeAnswered, NoCodeLost, SettledByCall
        <3>3. /\ connectAt'[waiter[s]] = IF what = "code" THEN "answered" ELSE "rejected"
              /\ \A c \in SignInCalls \ {waiter[s]} : connectAt'[c] = "idle"
              /\ heard'[s] = what /\ s \in settled'
            BY <1>1, <2>4, <3>2 DEF ConnectInv, ConnectTypes, ConnectPlaces
        <3> QED
            <4>1. \A c \in SignInCalls : connectAt'[c] # "idle" => c = waiter[s]
                BY <3>3
            <4>2. connectAt'[waiter[s]] \in {"answered", "rejected"} /\ (what = "code" => connectAt'[waiter[s]] = "answered")
                BY <3>3
            <4>3. CanBeAnswered' /\ NoCodeLost'
                BY <1>1, <3>1, <3>3, <4>1, <4>2 DEF CanBeAnswered, NoCodeLost
            <4>4. OnPending'
                BY <1>1, <2>1, <3>1, <4>1 DEF OnPending
            <4>5. SettledByCall'
                BY <1>1, <2>1, <2>4, <3>1, <4>2 DEF SettledByCall
            <4> QED
                BY <2>2, <4>3, <4>4, <4>5 DEF OneCall
    <2> QED
        BY <1>1, <2>2, <2>3, <2>4
<1> QED
    BY <1>3, <1>4, <1>5, <1>6 DEF ConnectInv

LEMMA ConnectWait == ASSUME ConnectInv, NEW c \in SignInCalls, Connect!Wait(c) PROVE ConnectInv'
<1> USE UpkeepLimits DEF Connect!SignInLimits
<1>1. /\ provider = "local" /\ pending # 0 /\ connectAt[c] = "idle"
      /\ UNCHANGED <<provider, begun, open, listening, heard, pending, code, given, approved, spent, refused>>
      /\ entry' = [entry EXCEPT ![c] = pending]
    BY DEF Connect!Wait, Connect!Begins, Connect!Finds, Connect!user
<1>2. /\ disturbed' \in BOOLEAN
      /\ ~disturbed' => ~disturbed /\ \A d \in SignInCalls : connectAt[d] = "idle"
    BY Zenon DEF Connect!Wait, Connect!Begins, Connect!Busy, ConnectInv, ConnectTypes, ConnectFlags
<1>3. /\ pending \in Connect!SignIns /\ pending \in open
      /\ heard[pending] \in {"nothing", "code", "error"}
    BY <1>1 DEF ConnectInv, ConnectTypes, ConnectCounts, ConnectPlaces, Connect!SignIns, Servers
<1>4. \/ /\ pending \in settled /\ UNCHANGED <<settled, waiter>>
         /\ connectAt' = [connectAt EXCEPT ![c] = "rejected"]
      \/ /\ pending \notin settled /\ waiter' = [waiter EXCEPT ![pending] = c] /\ heard[pending] = "nothing"
         /\ connectAt' = [connectAt EXCEPT ![c] = "waiting"] /\ settled' = settled
      \/ /\ pending \notin settled /\ waiter' = [waiter EXCEPT ![pending] = c] /\ heard[pending] # "nothing"
         /\ connectAt' = [connectAt EXCEPT ![c] = IF heard[pending] = "code" THEN "answered" ELSE "rejected"]
         /\ settled' = settled \cup {pending}
    BY DEF Connect!Wait, Connect!Finds
<1>5. ConnectTypes'
    <2>1. ConnectCounts' /\ ConnectSets'
        BY <1>1, <1>3, <1>4 DEF ConnectInv, ConnectTypes, ConnectCounts, ConnectSets
    <2>2. ConnectPlaces'
        BY <1>1, <1>3, <1>4 DEF ConnectInv, ConnectTypes, ConnectPlaces
    <2>3. ConnectFlags'
        BY <1>1, <1>2, Zenon DEF ConnectInv, ConnectTypes, ConnectFlags
    <2> QED
        BY <2>1, <2>2, <2>3 DEF ConnectTypes
<1>6. Servers'
    BY <1>1, <1>3, <1>4 DEF ConnectInv, ConnectTypes, ConnectPlaces, Servers
<1>7. /\ connectAt'[c] \in {"waiting", "answered", "rejected"} /\ entry'[c] = pending
      /\ \A d \in SignInCalls \ {c} : connectAt'[d] = connectAt[d] /\ entry'[d] = entry[d]
      /\ \A t \in Connect!SignIns \ {pending} : waiter'[t] = waiter[t]
    BY <1>1, <1>3, <1>4 DEF ConnectInv, ConnectTypes, ConnectCounts, ConnectPlaces
<1>8. Waiters'
    <2>1. \A d \in SignInCalls : connectAt'[d] \in {"waiting", "answered", "rejected"} => entry'[d] \in open'
        BY <1>1, <1>3, <1>7 DEF ConnectInv, Waiters
    <2>2. ASSUME NEW t \in Connect!SignIns \ settled', waiter'[t] # NoCall
          PROVE  connectAt'[waiter'[t]] = "waiting" /\ entry'[waiter'[t]] = t
        <3>1. CASE t = pending
            BY <1>3, <1>4, <1>7, <2>2, <3>1 DEF ConnectInv, ConnectTypes, ConnectPlaces
        <3>2. CASE t # pending
            <4>1. waiter'[t] = waiter[t] /\ t \notin settled /\ waiter[t] \in SignInCalls
                BY <1>4, <1>7, <2>2, <3>2 DEF ConnectInv, ConnectTypes, ConnectPlaces
            <4>2. connectAt[waiter[t]] = "waiting" /\ entry[waiter[t]] = t
                BY <2>2, <4>1 DEF ConnectInv, Waiters
            <4> QED
                BY <1>1, <1>7, <4>1, <4>2
        <3> QED
            BY <3>1, <3>2
    <2>3. \A d \in SignInCalls : connectAt'[d] = "exchanging" => code'[d] \in open'
        BY <1>1, <1>7 DEF ConnectInv, Waiters
    <2> QED
        BY <2>1, <2>2, <2>3 DEF Waiters
<1>9. ASSUME ~disturbed' PROVE (OneSignIn /\ OneCall)'
    <2>1. OneSignIn /\ OneCall /\ \A d \in SignInCalls : connectAt[d] = "idle"
        BY <1>2, <1>9 DEF ConnectInv
    <2>2. OneSignIn'
        BY <1>1, <2>1 DEF OneSignIn
    <2>3. pending \notin settled
        BY <2>1 DEF OneCall, SettledByCall
    <2>4. pending \in listening /\ \A d \in SignInCalls \ {c} : connectAt'[d] = "idle"
        BY <1>1, <1>3, <1>7, <2>1, <2>3 DEF ConnectInv, Servers
    <2>5. OnPending'
        BY <1>1, <1>7, <2>4 DEF OnPending
    <2>6. connectAt'[c] = IF heard[pending] = "nothing" THEN "waiting" ELSE IF heard[pending] = "code" THEN "answered" ELSE "rejected"
        BY <1>4, <2>3 DEF ConnectInv, ConnectTypes, ConnectPlaces
    <2>7. CanBeAnswered'
        BY <1>1, <1>3, <1>4, <1>7, <2>3, <2>4, <2>6 DEF CanBeAnswered, ConnectInv, ConnectTypes, ConnectPlaces
    <2>8. NoCodeLost'
        BY <1>1, <1>3, <1>4, <1>7, <2>3, <2>4, <2>6 DEF NoCodeLost
    <2>9. SettledByCall'
        BY <1>1, <1>3, <1>4, <1>7, <2>3, <2>6 DEF SettledByCall
    <2> QED
        BY <2>2, <2>5, <2>7, <2>8, <2>9 DEF OneCall
<1> QED
    BY <1>5, <1>6, <1>8, <1>9 DEF ConnectInv

LEMMA ConnectWaited ==
    ASSUME ConnectInv, NEW c \in SignInCalls, Connect!Answered(c) \/ Connect!Timeout(c)
    PROVE  ConnectInv'
<1> USE UpkeepLimits DEF Connect!SignInLimits
<1>1. /\ UNCHANGED <<provider, begun, open, listening, heard, waiter, pending, given, approved, spent, disturbed, refused>>
      /\ entry' = [entry EXCEPT ![c] = entry[c]]
      /\ \/ /\ connectAt[c] = "answered" /\ connectAt' = [connectAt EXCEPT ![c] = "exchanging"]
            /\ code' = [code EXCEPT ![c] = entry[c]] /\ settled' = settled
         \/ /\ connectAt[c] = "waiting" /\ connectAt' = [connectAt EXCEPT ![c] = "rejected"]
            /\ code' = code /\ settled' = settled \cup {entry[c]} /\ entry[c] \notin settled
    BY DEF Connect!Answered, Connect!Timeout, Connect!Finds, Connect!user, Connect!server
<1>2. entry' = entry /\ entry[c] \in open /\ entry[c] \in Connect!SignIns
    BY <1>1 DEF ConnectInv, ConnectTypes, ConnectCounts, ConnectSets, Waiters
<1>3. /\ connectAt'[c] = IF connectAt[c] = "answered" THEN "exchanging" ELSE "rejected"
      /\ \A d \in SignInCalls \ {c} : connectAt'[d] = connectAt[d]
    BY <1>1 DEF ConnectInv, ConnectTypes, ConnectPlaces
<1>4. ConnectTypes'
    <2>1. ConnectCounts' /\ ConnectSets'
        BY <1>1, <1>2 DEF ConnectInv, ConnectTypes, ConnectCounts, ConnectSets
    <2>2. ConnectPlaces'
        BY <1>1 DEF ConnectInv, ConnectTypes, ConnectPlaces
    <2>3. ConnectFlags'
        BY <1>1, Zenon DEF ConnectInv, ConnectTypes, ConnectFlags
    <2> QED
        BY <2>1, <2>2, <2>3 DEF ConnectTypes
<1>5. Servers'
    BY <1>1, <1>2 DEF ConnectInv, Servers
<1>6. Waiters'
    <2>1. \A d \in SignInCalls : connectAt'[d] \in {"waiting", "answered", "rejected"} => entry'[d] \in open'
        BY <1>1, <1>2, <1>3 DEF ConnectInv, Waiters
    <2>2. ASSUME NEW t \in Connect!SignIns \ settled', waiter'[t] # NoCall
          PROVE  connectAt'[waiter'[t]] = "waiting" /\ entry'[waiter'[t]] = t
        <3>1. waiter'[t] = waiter[t] /\ t \notin settled /\ waiter[t] \in SignInCalls
            BY <1>1, <2>2 DEF ConnectInv, ConnectTypes, ConnectPlaces
        <3>2. connectAt[waiter[t]] = "waiting" /\ entry[waiter[t]] = t
            BY <2>2, <3>1 DEF ConnectInv, Waiters
        <3>3. waiter[t] # c
            BY <1>1, <2>2, <3>2
        <3> QED
            BY <1>2, <1>3, <3>1, <3>2, <3>3
    <2>3. \A d \in SignInCalls : connectAt'[d] = "exchanging" => code'[d] \in open'
        BY <1>1, <1>2, <1>3 DEF ConnectInv, ConnectTypes, ConnectCounts, Waiters
    <2> QED
        BY <2>1, <2>2, <2>3 DEF Waiters
<1>7. ASSUME ~disturbed' PROVE (OneSignIn /\ OneCall)'
    <2>1. OneSignIn /\ OneCall
        BY <1>1, <1>7 DEF ConnectInv
    <2>2. OneSignIn'
        BY <1>1, <2>1 DEF OneSignIn
    <2>3. \A d \in SignInCalls \ {c} : connectAt[d] = "idle" /\ connectAt'[d] = "idle"
        BY <1>1, <1>3, <2>1 DEF OneCall, OnPending
    <2>4. entry[c] = pending
        BY <1>1, <2>1 DEF OneCall, OnPending
    <2>5. OnPending'
        BY <1>1, <1>2, <2>3, <2>4 DEF OnPending
    <2>6. connectAt[c] = "waiting" => heard[entry[c]] = "nothing"
        BY <2>1 DEF OneCall, CanBeAnswered
    <2>7. CanBeAnswered' /\ NoCodeLost'
        BY <1>1, <1>2, <1>3, <2>3, <2>6 DEF CanBeAnswered, NoCodeLost
    <2>8. SettledByCall'
        BY <1>1, <1>2, <1>3, <2>4 DEF SettledByCall
    <2> QED
        BY <2>2, <2>5, <2>7, <2>8 DEF OneCall
<1> QED
    BY <1>4, <1>5, <1>6, <1>7 DEF ConnectInv

LEMMA ConnectPaste ==
    ASSUME ConnectInv, NEW c \in SignInCalls, NEW s \in Connect!SignIns, NEW v \in BOOLEAN, Connect!Paste(c, s, v)
    PROVE  ConnectInv'
<1> USE UpkeepLimits DEF Connect!SignInLimits
<1>1. /\ connectAt[c] = "idle" /\ s \in approved
      /\ UNCHANGED <<provider, begun, open, listening, settled, heard, waiter, pending, approved, spent, refused>>
      /\ entry' = [entry EXCEPT ![c] = pending] /\ connectAt' = [connectAt EXCEPT ![c] = "exchanging"]
      /\ code' = [code EXCEPT ![c] = s] /\ given' = [given EXCEPT ![c] = v]
    BY DEF Connect!Paste, Connect!Begins, Connect!Finds, Connect!user, Connect!server
<1>2. /\ disturbed' \in BOOLEAN
      /\ ~disturbed' => ~disturbed /\ \A d \in SignInCalls : connectAt[d] = "idle"
    BY Zenon DEF Connect!Paste, Connect!Begins, Connect!Busy, ConnectInv, ConnectTypes, ConnectFlags
<1>3. /\ connectAt'[c] = "exchanging" /\ entry'[c] = pending /\ code'[c] = s
      /\ \A d \in SignInCalls \ {c} : connectAt'[d] = connectAt[d] /\ entry'[d] = entry[d] /\ code'[d] = code[d]
    BY <1>1 DEF ConnectInv, ConnectTypes, ConnectCounts, ConnectPlaces
<1>4. ConnectTypes'
    <2>1. ConnectCounts' /\ ConnectSets'
        BY <1>1 DEF ConnectInv, ConnectTypes, ConnectCounts, ConnectSets, Connect!SignIns
    <2>2. ConnectPlaces'
        BY <1>1 DEF ConnectInv, ConnectTypes, ConnectPlaces
    <2>3. given' \in [SignInCalls -> BOOLEAN]
        BY <1>1, Zenon DEF ConnectInv, ConnectTypes, ConnectFlags
    <2> QED
        BY <1>2, <2>1, <2>2, <2>3 DEF ConnectTypes, ConnectFlags
<1>5. Servers'
    BY <1>1, <1>3 DEF ConnectInv, Servers
<1>6. Waiters'
    <2>1. \A d \in SignInCalls : connectAt'[d] \in {"waiting", "answered", "rejected"} => entry'[d] \in open'
        BY <1>1, <1>3 DEF ConnectInv, Waiters
    <2>2. ASSUME NEW t \in Connect!SignIns \ settled', waiter'[t] # NoCall
          PROVE  connectAt'[waiter'[t]] = "waiting" /\ entry'[waiter'[t]] = t
        <3>1. waiter'[t] = waiter[t] /\ t \notin settled /\ waiter[t] \in SignInCalls
            BY <1>1, <2>2 DEF ConnectInv, ConnectTypes, ConnectPlaces
        <3>2. connectAt[waiter[t]] = "waiting" /\ entry[waiter[t]] = t
            BY <2>2, <3>1 DEF ConnectInv, Waiters
        <3> QED
            BY <1>1, <1>3, <3>1, <3>2
    <2>3. \A d \in SignInCalls : connectAt'[d] = "exchanging" => code'[d] \in open'
        BY <1>1, <1>3 DEF ConnectInv, Waiters, Servers
    <2> QED
        BY <2>1, <2>2, <2>3 DEF Waiters
<1>7. ASSUME ~disturbed' PROVE (OneSignIn /\ OneCall)'
    <2>1. OneSignIn /\ OneCall /\ \A d \in SignInCalls : connectAt[d] = "idle"
        BY <1>2, <1>7 DEF ConnectInv
    <2>2. OneSignIn'
        BY <1>1, <2>1 DEF OneSignIn
    <2>3. OnPending' /\ CanBeAnswered' /\ NoCodeLost'
        BY <1>1, <1>3, <2>1 DEF OnPending, CanBeAnswered, NoCodeLost
    <2>4. SettledByCall'
        BY <1>1, <1>3 DEF SettledByCall
    <2> QED
        BY <2>2, <2>3, <2>4 DEF OneCall
<1> QED
    BY <1>4, <1>5, <1>6, <1>7 DEF ConnectInv

LEMMA ConnectExpired ==
    ASSUME ConnectInv, NEW c \in SignInCalls, NEW s \in Connect!SignIns, Connect!Expired(c, s)
    PROVE  ConnectInv'
<1>1. /\ provider = "anthropic" /\ pending' = 0 /\ disturbed' = TRUE
      /\ UNCHANGED <<provider, begun, open, listening, settled, heard, waiter, connectAt, entry, code, given, approved, spent, refused>>
    BY DEF Connect!Expired, Connect!call, Connect!user, Connect!server
<1>2. ConnectTypes'
    <2>1. ConnectCounts' /\ ConnectSets'
        BY <1>1, UpkeepLimits DEF ConnectInv, ConnectTypes, ConnectCounts, ConnectSets, Connect!SignInLimits
    <2>2. ConnectPlaces' /\ ConnectFlags'
        BY <1>1 DEF ConnectInv, ConnectTypes, ConnectPlaces, ConnectFlags
    <2> QED
        BY <2>1, <2>2 DEF ConnectTypes
<1>3. Servers' /\ Waiters'
    BY <1>1 DEF ConnectInv, Servers, Waiters
<1> QED
    BY <1>1, <1>2, <1>3 DEF ConnectInv

\* A call ends, and has stopped the pending sign-in or left it alone.
LEMMA ConnectEnds ==
    ASSUME ConnectInv, NEW c \in SignInCalls, connectAt[c] \in {"rejected", "exchanging"},
           Connect!Clears(c), UNCHANGED <<provider, begun, open, heard, waiter, approved, disturbed>>,
           spent \subseteq spent', spent' \subseteq Connect!SignIns, refused' \subseteq Connect!SignIns,
           \/ /\ Connect!Stops(pending, Connect!EndsAs(c, connectAt)) /\ pending' = 0
              /\ provider = "local" /\ entry[c] # 0
           \/ /\ connectAt' = Connect!EndsAs(c, connectAt) /\ UNCHANGED <<listening, settled>>
              /\ pending' \in {0, pending} /\ (provider = "local" => pending' = pending /\ entry[c] = 0),
           ~disturbed /\ OneSignIn /\ OneCall =>
              refused' = {} /\ (provider = "anthropic" /\ pending' # pending => pending \in spent')
    PROVE  ConnectInv'
<1> USE UpkeepLimits DEF Connect!SignInLimits
<1> DEFINE place == [connectAt EXCEPT ![c] = "idle"]
           stops == provider = "local" /\ entry[c] # 0
<1>0. /\ place \in [SignInCalls -> {"idle", "waiting", "answered", "rejected", "exchanging"}]
      /\ place[c] = "idle" /\ \A d \in SignInCalls \ {c} : place[d] = connectAt[d]
    BY DEF ConnectInv, ConnectTypes, ConnectPlaces
<1>1. /\ connectAt' \in [SignInCalls -> {"idle", "waiting", "answered", "rejected", "exchanging"}]
      /\ listening' \subseteq Connect!SignIns /\ settled' \subseteq Connect!SignIns
      /\ \/ /\ stops /\ pending' = 0
            /\ listening' = listening \ {pending} /\ settled' = settled \cup ({pending} \ {0})
            /\ \A d \in SignInCalls : connectAt'[d] = IF pending # 0 /\ pending \notin settled /\ waiter[pending] = d
                                                 THEN "rejected" ELSE place[d]
         \/ /\ ~stops /\ pending' \in {0, pending} /\ (provider = "local" => pending' = pending /\ entry[c] = 0)
            /\ UNCHANGED <<listening, settled>> /\ connectAt' = place
    <2>1. CASE stops
        <3>1. Connect!Stops(pending, Connect!EndsAs(c, connectAt)) /\ pending' = 0
            BY <2>1
        <3>2. Connect!EndsAs(c, connectAt) = place
            BY DEF Connect!EndsAs
        <3>3. ConnectSets /\ ConnectPlaces /\ pending \in 0..MaxSignIns
            BY DEF ConnectInv, ConnectTypes, ConnectCounts
        <3> HIDE DEF place
        <3>4. Connect!Stops(pending, place)
            BY <3>1, <3>2
        <3> QED
            BY <1>0, <2>1, <3>1, <3>3, <3>4, ConnectStops
    <2>2. CASE ~stops
        BY <1>0, <2>2 DEF ConnectInv, ConnectTypes, ConnectSets, Connect!EndsAs
    <2> QED
        BY <2>1, <2>2
<1>2. /\ entry' = [entry EXCEPT ![c] = 0] /\ code' = [code EXCEPT ![c] = 0] /\ given' = [given EXCEPT ![c] = FALSE]
      /\ entry'[c] = 0 /\ \A d \in SignInCalls \ {c} : entry'[d] = entry[d] /\ code'[d] = code[d]
    BY DEF Connect!Clears, ConnectInv, ConnectTypes, ConnectCounts
<1>3. ConnectTypes'
    <2>1. ConnectCounts'
        BY <1>1, <1>2 DEF ConnectInv, ConnectTypes, ConnectCounts
    <2>2. ConnectSets'
        BY <1>1 DEF ConnectInv, ConnectTypes, ConnectSets
    <2>3. ConnectPlaces'
        BY <1>1 DEF ConnectInv, ConnectTypes, ConnectPlaces
    <2>4. ConnectFlags'
        BY <1>2, Zenon DEF ConnectInv, ConnectTypes, ConnectFlags
    <2> QED
        BY <2>1, <2>2, <2>3, <2>4 DEF ConnectTypes
\* Whoever waits on the pending server is in progress on it.
<1>4. ASSUME NEW d \in SignInCalls, pending # 0, pending \notin settled, waiter[pending] = d
      PROVE  connectAt[d] = "waiting" /\ entry[d] = pending /\ d # c
    BY <1>4 DEF ConnectInv, ConnectTypes, ConnectCounts, Waiters, Connect!SignIns
<1>5. Servers'
    <2>1. CASE stops
        BY <1>1, <2>1 DEF ConnectInv, Servers
    <2>2. CASE ~stops
        <3>1. \A d \in SignInCalls : connectAt'[d] \in {"idle", connectAt[d]} /\ (connectAt'[d] # "idle" => code'[d] = code[d])
            BY <1>0, <1>1, <1>2, <2>2
        <3>2. pending' \in open \cup {0} /\ (pending' # pending => provider = "anthropic")
            BY <1>1, <2>2 DEF ConnectInv, ConnectTypes, ConnectCounts, Servers
        <3> QED
            BY <1>1, <2>2, <3>1, <3>2 DEF ConnectInv, Servers
    <2> QED
        BY <2>1, <2>2
<1>6. Waiters'
    <2>1. ASSUME NEW d \in SignInCalls, connectAt'[d] \in {"waiting", "answered", "rejected"}
          PROVE  entry'[d] \in open'
        <3>1. d # c /\ connectAt[d] \in {"waiting", "answered", "rejected"}
            BY <1>0, <1>1, <1>4, <2>1
        <3> QED
            BY <1>2, <3>1 DEF ConnectInv, Waiters
    <2>2. ASSUME NEW t \in Connect!SignIns \ settled', waiter'[t] # NoCall
          PROVE  connectAt'[waiter'[t]] = "waiting" /\ entry'[waiter'[t]] = t
        <3>1. waiter'[t] = waiter[t] /\ t \notin settled /\ waiter[t] \in SignInCalls
            BY <1>1, <2>2 DEF ConnectInv, ConnectTypes, ConnectPlaces
        <3>2. connectAt[waiter[t]] = "waiting" /\ entry[waiter[t]] = t
            BY <2>2, <3>1 DEF ConnectInv, Waiters
        <3>3. waiter[t] # c
            BY <3>2
        <3>4. ~(stops /\ pending # 0 /\ pending \notin settled /\ waiter[pending] = waiter[t])
            BY <1>1, <1>4, <2>2, <3>1, <3>2
        <3>5. connectAt'[waiter[t]] = connectAt[waiter[t]]
            BY <1>0, <1>1, <3>1, <3>3, <3>4
        <3> QED
            BY <1>2, <3>1, <3>2, <3>3, <3>5
    <2>3. \A d \in SignInCalls : connectAt'[d] = "exchanging" => code'[d] \in open'
        BY <1>0, <1>1, <1>2 DEF ConnectInv, Waiters
    <2> QED
        BY <2>1, <2>2, <2>3 DEF Waiters
<1>7. ASSUME ~disturbed' PROVE (OneSignIn /\ OneCall)'
    <2>1. OneSignIn /\ OneCall
        BY <1>7 DEF ConnectInv
    <2>2. \A d \in SignInCalls \ {c} : connectAt[d] = "idle"
        BY <2>1 DEF OneCall, OnPending
    <2>3. \A d \in SignInCalls : connectAt'[d] = "idle"
        BY <1>0, <1>1, <1>4, <2>2
    <2>4. OneSignIn'
        <3>1. refused' = {} /\ (provider = "anthropic" /\ pending' # pending => pending \in spent')
            BY <1>7, <2>1
        <3>2. (\A s, t \in listening' : s = t) /\ (listening' \subseteq open' \/ pending' = 0)
            BY <1>1, <2>1 DEF OneSignIn
        <3>3. provider = "anthropic" => open' \ spent' \subseteq {pending'}
            BY <1>1, <2>1, <3>1 DEF OneSignIn
        <3> QED
            BY <3>1, <3>2, <3>3 DEF OneSignIn
    <2>5. pending' \notin settled'
        <3>1. CASE stops
            BY <1>1, <3>1 DEF ConnectInv, Servers
        <3>2. CASE ~stops
            <4>1. provider = "local" => pending \notin settled
                BY <1>1, <2>1, <2>2, <3>2 DEF OneCall, SettledByCall, ConnectInv, ConnectTypes, ConnectSets, Connect!SignIns
            <4> QED
                BY <1>1, <3>2, <4>1 DEF ConnectInv, ConnectTypes, ConnectCounts, Servers
        <3> QED
            BY <3>1, <3>2
    <2>6. OneCall'
        BY <2>3, <2>5 DEF OneCall, OnPending, CanBeAnswered, NoCodeLost, SettledByCall
    <2> QED
        BY <2>4, <2>6
<1> QED
    BY <1>3, <1>5, <1>6, <1>7 DEF ConnectInv

LEMMA ConnectFinished ==
    ASSUME ConnectInv, NEW c \in SignInCalls,
           Connect!Rejected(c) \/ Connect!Exchanged(c) \/ Connect!ExchangeFails(c)
    PROVE  ConnectInv'
<1>1. CASE Connect!Rejected(c)
    <2>1. /\ connectAt[c] = "rejected" /\ Connect!Stops(pending, Connect!EndsAs(c, connectAt)) /\ pending' = 0
          /\ Connect!Clears(c)
          /\ UNCHANGED <<provider, begun, open, heard, waiter, approved, spent, disturbed>>
          /\ refused' = refused \cup (IF heard[entry[c]] = "code" THEN {entry[c]} ELSE {})
        BY <1>1 DEF Connect!Rejected, Connect!user
    <2>2. entry[c] \in open /\ entry[c] \in Connect!SignIns /\ entry[c] # 0 /\ provider = "local"
        BY <2>1 DEF ConnectInv, ConnectTypes, ConnectCounts, ConnectSets, Waiters, Servers, Connect!SignIns
    <2>3. spent \subseteq spent' /\ spent' \subseteq Connect!SignIns /\ refused' \subseteq Connect!SignIns
        BY <2>1, <2>2 DEF ConnectInv, ConnectTypes, ConnectSets
    <2>4. OneSignIn /\ OneCall => refused' = {}
        BY <2>1 DEF OneSignIn, OneCall, NoCodeLost
    <2> QED
        BY <2>1, <2>2, <2>3, <2>4, ConnectEnds
<1>2. CASE Connect!Exchanged(c)
    <2>1. /\ connectAt[c] = "exchanging" /\ Connect!Clears(c) /\ spent' = spent \cup {code[c]}
          /\ UNCHANGED <<provider, begun, open, heard, waiter, approved, disturbed, refused>>
          /\ code[c] \notin spent
          /\ IF provider = "local" /\ entry[c] # 0
             THEN Connect!Stops(pending, Connect!EndsAs(c, connectAt)) /\ pending' = 0
             ELSE /\ connectAt' = Connect!EndsAs(c, connectAt) /\ UNCHANGED <<listening, settled>>
                  /\ pending' \in IF provider = "anthropic" THEN {0, pending} ELSE {pending}
        BY <1>2 DEF Connect!Exchanged
    <2>2. code[c] \in open /\ code[c] \in Connect!SignIns
        BY <2>1 DEF ConnectInv, ConnectTypes, ConnectSets, Waiters
    <2>3. spent \subseteq spent' /\ spent' \subseteq Connect!SignIns /\ refused' \subseteq Connect!SignIns
        BY <2>1, <2>2 DEF ConnectInv, ConnectTypes, ConnectSets
    <2>4. provider = "anthropic" /\ OneSignIn => pending \in spent'
        BY <2>1, <2>2 DEF OneSignIn
    <2>5. OneSignIn => refused' = {}
        BY <2>1 DEF OneSignIn
    <2>6. ~(provider = "local" /\ entry[c] # 0) => pending' \in {0, pending} /\ (provider = "local" => pending' = pending /\ entry[c] = 0)
        BY <2>1
    <2> QED
        BY <2>1, <2>3, <2>4, <2>5, <2>6, ConnectEnds
<1>3. CASE Connect!ExchangeFails(c)
    <2>1. /\ connectAt[c] = "exchanging" /\ Connect!Clears(c)
          /\ UNCHANGED <<provider, begun, open, heard, waiter, approved, spent, disturbed>>
          /\ IF provider = "local" /\ entry[c] # 0
             THEN Connect!Stops(pending, Connect!EndsAs(c, connectAt)) /\ pending' = 0
             ELSE /\ connectAt' = Connect!EndsAs(c, connectAt) /\ UNCHANGED <<listening, settled, pending>>
          /\ refused' = refused \cup (IF provider = "anthropic" /\ ~(given[c] \/ (entry[c] # 0 /\ entry[c] = code[c]))
                                     THEN {code[c]} \ spent ELSE {})
        BY <1>3 DEF Connect!ExchangeFails, Connect!Verifies, Connect!user
    <2>2. code[c] \in open /\ code[c] \in Connect!SignIns /\ code[c] # 0
        BY <2>1 DEF ConnectInv, ConnectTypes, ConnectSets, Waiters, Connect!SignIns
    <2>3. spent \subseteq spent' /\ spent' \subseteq Connect!SignIns /\ refused' \subseteq Connect!SignIns
        BY <2>1, <2>2 DEF ConnectInv, ConnectTypes, ConnectSets
    <2>4. OneSignIn /\ OneCall => refused' = {}
        <3> SUFFICES ASSUME OneSignIn, OneCall PROVE refused' = {}
            OBVIOUS
        <3>1. provider = "anthropic" => code[c] \in spent \/ (entry[c] # 0 /\ entry[c] = code[c])
            BY <2>1, <2>2 DEF OneSignIn, OneCall, OnPending
        <3>2. refused = {}
            BY DEF OneSignIn
        <3> QED
            BY <2>1, <3>1, <3>2
    <2>5. ~(provider = "local" /\ entry[c] # 0) => pending' = pending /\ (provider = "local" => entry[c] = 0)
        BY <2>1
    <2>6. provider = "anthropic" => pending' = pending
        BY <2>5
    <2> QED
        BY <2>1, <2>3, <2>4, <2>5, <2>6, ConnectEnds
<1> QED
    BY <1>1, <1>2, <1>3

LEMMA ConnectNextInv == ConnectInv /\ [Connect!Next]_connectVars => ConnectInv'
<1> SUFFICES ASSUME ConnectInv, [Connect!Next]_connectVars PROVE ConnectInv'
    OBVIOUS
<1>1. CASE UNCHANGED connectVars
    BY <1>1 DEF connectVars, ConnectInv, ConnectTypes, ConnectCounts, ConnectSets, ConnectPlaces, ConnectFlags,
        Servers, Waiters, OneSignIn, OneCall, OnPending, CanBeAnswered, NoCodeLost, SettledByCall
<1>2. CASE Connect!Next
    BY <1>2, ConnectInitiate, ConnectInitiated, ConnectInitiateFails, ConnectCallBack, ConnectWait, ConnectWaited,
       ConnectPaste, ConnectExpired, ConnectFinished DEF Connect!Next
<1> QED
    BY <1>1, <1>2

-----------------------------------------------------------------------------
(* SessionRepository: whatever overlaps, every call in progress has in its *)
(* hands all sessions that are there for sure and none that is gone; and   *)
(* as long as no calls overlap, what a call has agrees with what was last  *)
(* answered, but for the session it is about to answer of.                 *)

MayBeNormal(state) == Sessions!Has(state) # {}
IsNormal(state) == state.main \in Sessions!Has(state) /\ state.mains = {state.main}

RepoTypes ==
    /\ sessions \in Sessions!States /\ repoSaid \in Sessions!States
    /\ mem \in [SessionCalls -> Sessions!States]
    /\ repoAt \in [SessionCalls -> {"idle", "loaded", "saving"}]
    /\ reply \in [SessionCalls -> [main : 0..MaxSessions, ids : SUBSET Sessions!Ids]]
    /\ made \in 0..MaxSessions /\ loads \in 0..MaxLoads
    /\ sure \subseteq Sessions!Ids /\ gone \subseteq Sessions!Ids

\* What the file says of the sessions that there are, and what a call has in hand.
RepoFile ==
    /\ sessions = Sessions!NoFile \/ IsNormal(sessions)
    /\ Sessions!Has(sessions) \subseteq 1..made
    /\ sure \subseteq Sessions!Has(sessions)
    /\ gone \subseteq 1..made /\ gone \cap Sessions!Has(sessions) = {}
    /\ repoSaid.main \in 0..made /\ \A c \in SessionCalls : reply[c].main \in 0..made
RepoInHand ==
    \A c \in SessionCalls : repoAt[c] # "idle" =>
        /\ MayBeNormal(mem[c]) /\ Sessions!Has(mem[c]) \subseteq 1..made
        /\ repoAt[c] = "loaded" => IsNormal(mem[c])
        /\ sure \subseteq Sessions!Has(mem[c]) /\ gone \cap Sessions!Has(mem[c]) = {}

\* State f has of every session what was answered, and the main one if it is still there.
Agrees(answer, f) ==
    /\ \A i \in Sessions!Ids : answer.status[i] # "none" => f.status[i] = answer.status[i]
    /\ answer.main \in Sessions!Has(f) => f.main = answer.main
\* What will have been answered once call c returns.
WillSay(c) ==
    [main |-> IF reply[c].main # 0 THEN reply[c].main ELSE repoSaid.main, mains |-> {},
     status |-> [i \in Sessions!Ids |-> IF i \in reply[c].ids THEN mem[c].status[i] ELSE repoSaid.status[i]]]

RepoOneByOne ==
    /\ \A c, d \in SessionCalls : repoAt[c] # "idle" /\ repoAt[d] # "idle" => c = d
    /\ Agrees(repoSaid, sessions)
    /\ \A c \in SessionCalls : repoAt[c] = "loaded" => Agrees(repoSaid, mem[c])
    /\ \A c \in SessionCalls : repoAt[c] = "saving" => Agrees(WillSay(c), mem[c])

RepoInv ==
    /\ RepoTypes /\ repoOverlapped \in BOOLEAN /\ RepoFile /\ RepoInHand
    /\ ~repoOverlapped => RepoOneByOne

\* Every set of numbers that is not empty has a least one.
LEMMA LeastNumber == ASSUME NEW S, S \subseteq Nat, S # {} PROVE \E m \in S : \A j \in S : m <= j
<1> DEFINE Below(m) == {j \in S : j < m}
           Family == {Below(m) : m \in S}
<1>1. Family \subseteq FiniteSubsetsOf(S) /\ Family # {}
    <2>1. ASSUME NEW m \in S PROVE IsFiniteSet(Below(m)) /\ Below(m) \subseteq S
        <3>1. m \in Nat /\ Below(m) \in SUBSET Nat
            OBVIOUS
        <3>2. ASSUME NEW j \in Below(m) PROVE j <= m
            <4>1. j \in Nat /\ j < m
                BY <3>2
            <4> QED
                BY <3>1, <4>1
        <3> QED
            BY <3>1, <3>2, FS_BoundedSetOfNaturals
    <2> QED
        BY <2>1 DEF FiniteSubsetsOf
<1> HIDE DEF Family
<1>2. PICK T \in Family : \A U \in Family : <<U, T>> \notin StrictSubsetOrdering(S)
    BY <1>1, FS_StrictSubsetOrderingWellFounded, WFMin
<1>3. PICK m \in S : T = Below(m)
    BY <1>2 DEF Family
<1>4. ASSUME NEW j \in S, ~(m <= j) PROVE FALSE
    <2>1. j \in Nat /\ m \in Nat /\ j < m
        BY <1>4
    <2>2. Below(j) \subseteq Below(m) /\ j \in Below(m) /\ j \notin Below(j) /\ Below(m) \subseteq S
        <3>1. ASSUME NEW n \in Below(j) PROVE n \in Below(m)
            <4>1. n \in S /\ n \in Nat /\ n < j
                BY <3>1
            <4>2. n < m
                BY <2>1, <4>1
            <4> QED
                BY <4>1, <4>2
        <3>2. j \in Below(m) /\ j \notin Below(j)
            BY <2>1
        <3>3. Below(m) \subseteq S
            OBVIOUS
        <3> QED
            BY <3>1, <3>2, <3>3
    <2>3. <<Below(j), Below(m)>> \in StrictSubsetOrdering(S)
        BY <2>2 DEF StrictSubsetOrdering
    <2> QED
        BY <1>2, <1>3, <2>3 DEF Family
<1> QED
    BY <1>4

\* normalizeMain keeps the sessions, and the main one where that is among them.
LEMMA Normalizes ==
    ASSUME NEW state \in Sessions!States, MayBeNormal(state)
    PROVE  LET normal == Sessions!NormalMain(state)
           IN  /\ normal \in Sessions!States /\ IsNormal(normal) /\ normal.status = state.status
               /\ Sessions!Has(normal) = Sessions!Has(state)
               /\ state.main \in Sessions!Has(state) => normal.main = state.main
<1> DEFINE has == Sessions!Has(state)
           main == IF state.main \in has THEN state.main ELSE Sessions!First(has)
           normal == Sessions!NormalMain(state)
<1>1. has \subseteq Sessions!Ids /\ has # {} /\ has \subseteq Nat
    BY DEF Sessions!Has, Sessions!Ids, MayBeNormal
<1>2. Sessions!First(has) \in has
    <2>1. \E i \in has : \A j \in has : i <= j
        BY <1>1, LeastNumber
    <2> QED
        BY <2>1 DEF Sessions!First
<1>3. normal = [state EXCEPT !.main = main, !.mains = {main}]
    BY DEF Sessions!NormalMain
<1>4. main \in has
    BY <1>2
<1> HIDE DEF main
<1>5. normal \in Sessions!States /\ normal.main = main /\ normal.mains = {main} /\ normal.status = state.status
    <2>1. main \in 0..MaxSessions /\ {main} \in SUBSET Sessions!Ids
        BY <1>1, <1>4, UpkeepLimits DEF Sessions!Ids, Sessions!SessionLimits
    <2> HIDE DEF has, normal
    <2> QED
        BY <1>3, <2>1 DEF Sessions!States
<1>6. Sessions!Has(normal) = has
    BY <1>5 DEF Sessions!Has
<1> QED
    BY <1>4, <1>5, <1>6 DEF IsNormal, main

LEMMA AgreesNormal ==
    ASSUME NEW answer, NEW state \in Sessions!States, MayBeNormal(state), Agrees(answer, state)
    PROVE  Agrees(answer, Sessions!NormalMain(state))
<1>1. /\ Sessions!NormalMain(state).status = state.status /\ Sessions!Has(Sessions!NormalMain(state)) = Sessions!Has(state)
      /\ state.main \in Sessions!Has(state) => Sessions!NormalMain(state).main = state.main
    BY Normalizes
<1> QED
    BY <1>1 DEF Agrees

LEMMA RepoInvKept == RepoInv => Sessions!TypeOK /\ Sessions!SessionsKept
<1>1. RepoInv => Sessions!TypeOK
    BY Zenon DEF RepoInv, RepoTypes, Sessions!TypeOK
<1>2. RepoInv => Sessions!SessionsKept
    <2> SUFFICES ASSUME RepoInv PROVE Sessions!SessionsKept
        OBVIOUS
    <2>1. sessions # Sessions!NoFile => sessions.main \in Sessions!Has(sessions) /\ sessions.mains = {sessions.main}
        BY DEF RepoInv, RepoFile, IsNormal
    <2>2. sure \subseteq Sessions!Has(sessions) /\ gone \cap Sessions!Has(sessions) = {}
        BY DEF RepoInv, RepoFile
    <2>3. ASSUME ~repoOverlapped
          PROVE  /\ repoSaid.main # 0 /\ repoSaid.status[repoSaid.main] # "none" => sessions.main = repoSaid.main
                 /\ \A i \in Sessions!Ids : repoSaid.status[i] # "none" => sessions.status[i] = repoSaid.status[i]
        <3>1. Agrees(repoSaid, sessions) /\ repoSaid.main \in 0..MaxSessions
            BY <2>3 DEF RepoInv, RepoTypes, RepoOneByOne, Sessions!States
        <3>2. repoSaid.main # 0 => repoSaid.main \in Sessions!Ids
            BY <3>1, UpkeepLimits DEF Sessions!Ids, Sessions!SessionLimits
        <3> QED
            BY <3>1, <3>2 DEF Agrees, Sessions!Has
    <2> QED
        BY <2>1, <2>2, <2>3 DEF Sessions!SessionsKept
<1> QED
    BY <1>1, <1>2

LEMMA RepoInitInv == Sessions!Init => RepoInv
<1> SUFFICES ASSUME Sessions!Init PROVE RepoInv
    OBVIOUS
<1> USE UpkeepLimits DEF Sessions!Init, Sessions!SessionLimits
<1>1. Sessions!NoFile \in Sessions!States /\ Sessions!Has(Sessions!NoFile) = {} /\ Sessions!NoFile.main = 0
    BY DEF Sessions!NoFile, Sessions!States, Sessions!Has, Sessions!Ids
<1>2. RepoTypes
    BY <1>1 DEF RepoTypes, Sessions!NoReply
<1>3. RepoFile
    BY <1>1 DEF RepoFile, Sessions!NoReply
<1>4. RepoInHand
    BY DEF RepoInHand
<1>5. RepoOneByOne
    BY <1>1 DEF RepoOneByOne, Agrees
<1> QED
    BY <1>2, <1>3, <1>4, <1>5 DEF RepoInv

\* A write replaces the file by what the call has in hand.
LEMMA RepoWrites ==
    ASSUME RepoInv, NEW c \in SessionCalls, repoAt[c] # "idle", NEW deleted \in SUBSET Sessions!Ids,
           Sessions!Writes(c, deleted)
    PROVE  /\ sessions' = Sessions!NormalMain(mem[c]) /\ sessions' \in Sessions!States /\ IsNormal(sessions')
           /\ Sessions!Has(sessions') = Sessions!Has(mem[c]) /\ Sessions!Has(mem[c]) \subseteq 1..made
           /\ sure' \subseteq Sessions!Has(mem[c]) \ deleted
           /\ gone' \subseteq 1..made /\ gone' \cap Sessions!Has(mem[c]) = {} /\ gone' \subseteq Sessions!Ids
           /\ \A d \in SessionCalls \ {c} : repoAt[d] # "idle" => sure' \subseteq sure /\ gone' = gone
           /\ sure' \subseteq Sessions!Ids
<1>1. mem[c] \in Sessions!States /\ MayBeNormal(mem[c]) /\ Sessions!Has(mem[c]) \subseteq 1..made
    BY DEF RepoInv, RepoTypes, RepoInHand
<1>2. /\ sessions' = Sessions!NormalMain(mem[c])
      /\ sure' = (IF Sessions!Others(c) THEN sure ELSE sure \cup Sessions!Has(mem[c])) \ deleted
      /\ gone' = IF Sessions!Others(c) THEN gone ELSE gone \cup ((1..made) \ Sessions!Has(mem[c]))
    BY DEF Sessions!Writes
<1>3. sure \subseteq Sessions!Has(mem[c]) /\ gone \cap Sessions!Has(mem[c]) = {} /\ gone \subseteq 1..made
    BY DEF RepoInv, RepoInHand, RepoFile
<1>4. Sessions!Has(mem[c]) \subseteq Sessions!Ids /\ 1..made \subseteq Sessions!Ids
    BY UpkeepLimits DEF Sessions!Has, RepoInv, RepoTypes, Sessions!Ids, Sessions!SessionLimits
<1>5. \A d \in SessionCalls \ {c} : repoAt[d] # "idle" => Sessions!Others(c)
    BY DEF Sessions!Others
<1>6. /\ sessions' \in Sessions!States /\ IsNormal(sessions') /\ Sessions!Has(sessions') = Sessions!Has(mem[c])
    BY <1>1, <1>2, Normalizes
<1>7. sure' \subseteq Sessions!Has(mem[c]) \ deleted /\ gone' \subseteq 1..made /\ gone' \cap Sessions!Has(mem[c]) = {}
    BY <1>2, <1>3
<1>8. \A d \in SessionCalls \ {c} : repoAt[d] # "idle" => sure' \subseteq sure /\ gone' = gone
    BY <1>2, <1>5
<1> QED
    BY <1>1, <1>2, <1>4, <1>6, <1>7, <1>8

LEMMA RepoEnds ==
    ASSUME RepoTypes, NEW c \in SessionCalls, Sessions!Ends(c)
    PROVE  /\ repoAt' \in [SessionCalls -> {"idle", "loaded", "saving"}] /\ mem' \in [SessionCalls -> Sessions!States]
           /\ reply' \in [SessionCalls -> [main : 0..MaxSessions, ids : SUBSET Sessions!Ids]]
           /\ repoAt'[c] = "idle" /\ reply'[c].main = 0
           /\ \A d \in SessionCalls \ {c} : repoAt'[d] = repoAt[d] /\ mem'[d] = mem[d] /\ reply'[d] = reply[d]
<1>1. /\ Sessions!NoFile \in Sessions!States /\ Sessions!NoReply \in [main : 0..MaxSessions, ids : SUBSET Sessions!Ids]
      /\ Sessions!NoReply.main = 0
    BY UpkeepLimits DEF Sessions!NoFile, Sessions!States, Sessions!Ids, Sessions!NoReply, Sessions!SessionLimits
<1> QED
    BY <1>1 DEF Sessions!Ends, RepoTypes

LEMMA RepoNoFile ==
    /\ Sessions!NoFile \in Sessions!States /\ Sessions!Has(Sessions!NoFile) = {} /\ Sessions!NoFile.main = 0
    /\ \A f : Agrees(Sessions!NoFile, f)
<1>1. Sessions!NoFile \in Sessions!States /\ Sessions!Has(Sessions!NoFile) = {} /\ Sessions!NoFile.main = 0
      /\ \A i \in Sessions!Ids : Sessions!NoFile.status[i] = "none"
    BY UpkeepLimits DEF Sessions!NoFile, Sessions!States, Sessions!Has, Sessions!Ids, Sessions!SessionLimits
<1>2. \A f : 0 \notin Sessions!Has(f)
    BY DEF Sessions!Has, Sessions!Ids
<1> QED
    BY <1>1, <1>2 DEF Agrees

\* What a call has in hand once it has loaded the file.
LEMMA RepoLoads ==
    ASSUME RepoInv, NEW c \in SessionCalls, Sessions!Load(c)
    PROVE  /\ mem' = [mem EXCEPT ![c] = mem'[c]] /\ mem'[c] \in Sessions!States /\ IsNormal(mem'[c])
           /\ made' \in made..MaxSessions /\ Sessions!Has(mem'[c]) \subseteq 1..made'
           /\ sure \subseteq Sessions!Has(mem'[c]) /\ gone \cap Sessions!Has(mem'[c]) = {}
           /\ Agrees(repoSaid, sessions) => Agrees(repoSaid, mem'[c])
<1> USE UpkeepLimits DEF Sessions!SessionLimits
<1>1. CASE sessions # Sessions!NoFile
    <2>1. mem' = [mem EXCEPT ![c] = Sessions!NormalMain(sessions)] /\ made' = made
        BY <1>1 DEF Sessions!Load
    <2>2. mem'[c] = Sessions!NormalMain(sessions)
        BY <2>1 DEF RepoInv, RepoTypes
    <2>3. sessions \in Sessions!States /\ MayBeNormal(sessions) /\ made \in 0..MaxSessions
        BY <1>1 DEF RepoInv, RepoTypes, RepoFile, IsNormal, MayBeNormal
    <2>4. mem'[c] \in Sessions!States /\ IsNormal(mem'[c]) /\ Sessions!Has(mem'[c]) = Sessions!Has(sessions)
        BY <2>2, <2>3, Normalizes
    <2>5. Agrees(repoSaid, sessions) => Agrees(repoSaid, mem'[c])
        BY <2>2, <2>3, AgreesNormal
    <2>6. mem' = [mem EXCEPT ![c] = mem'[c]]
        BY <2>1, <2>2, Zenon
    <2>8. made' \in made..MaxSessions
        BY <2>1, <2>3
    <2>7. /\ Sessions!Has(mem'[c]) \subseteq 1..made'
          /\ sure \subseteq Sessions!Has(mem'[c]) /\ gone \cap Sessions!Has(mem'[c]) = {}
        BY <2>1, <2>4 DEF RepoInv, RepoFile
    <2> QED
        BY <2>4, <2>5, <2>6, <2>7, <2>8
<1>2. CASE sessions = Sessions!NoFile
    <2>1. /\ mem' = [mem EXCEPT ![c] = Sessions!Adds(Sessions!NoFile, made + 1, TRUE)]
          /\ made < MaxSessions /\ made' = made + 1
        BY <1>2 DEF Sessions!Load
    <2>2. made \in 0..MaxSessions /\ made + 1 \in Sessions!Ids /\ made + 1 \in 0..MaxSessions
        BY <2>1 DEF RepoInv, RepoTypes, Sessions!Ids
    <2>3. mem'[c] = Sessions!Adds(Sessions!NoFile, made + 1, TRUE)
        BY <2>1 DEF RepoInv, RepoTypes
    <2>4. /\ mem'[c].main = made + 1 /\ mem'[c].mains = {made + 1} /\ mem'[c] \in Sessions!States
          /\ Sessions!Has(mem'[c]) = {made + 1}
        <3>1. mem'[c] = [main |-> made + 1, mains |-> {made + 1},
                         status |-> [[i \in Sessions!Ids |-> "none"] EXCEPT ![made + 1] = "active"]]
            BY <2>3 DEF Sessions!Adds, Sessions!NoFile
        <3>2. mem'[c].status \in [Sessions!Ids -> Sessions!Statuses \cup {"none"}]
            BY <2>2, <3>1 DEF Sessions!Statuses
        <3>3. Sessions!Has(mem'[c]) = {made + 1}
            BY <2>2, <3>1 DEF Sessions!Has
        <3> QED
            BY <2>2, <3>1, <3>2, <3>3 DEF Sessions!States
    <2>5. sure = {} /\ gone \subseteq 1..made /\ repoSaid.main \in 0..made
        BY <1>2, RepoNoFile DEF RepoInv, RepoFile
    <2>6. Agrees(repoSaid, sessions) => Agrees(repoSaid, mem'[c])
        <3> SUFFICES ASSUME Agrees(repoSaid, sessions) PROVE Agrees(repoSaid, mem'[c])
            OBVIOUS
        <3>1. \A i \in Sessions!Ids : Sessions!NoFile.status[i] = "none"
            BY DEF Sessions!NoFile
        <3>2. \A i \in Sessions!Ids : repoSaid.status[i] = "none"
            BY <1>2, <3>1 DEF Agrees
        <3>3. repoSaid.main # made + 1
            BY <2>2, <2>5
        <3> QED
            BY <2>4, <3>2, <3>3 DEF Agrees
    <2>7. mem' = [mem EXCEPT ![c] = mem'[c]]
        BY <2>1, <2>3, Zenon
    <2>9. made' \in made..MaxSessions /\ made' = made + 1 /\ made + 1 \in 1..made' /\ made + 1 \notin 1..made
        BY <2>1, <2>2
    <2>8. /\ Sessions!Has(mem'[c]) \subseteq 1..made' /\ IsNormal(mem'[c])
          /\ sure \subseteq Sessions!Has(mem'[c]) /\ gone \cap Sessions!Has(mem'[c]) = {}
        BY <2>4, <2>5, <2>9 DEF IsNormal
    <2> QED
        BY <2>4, <2>6, <2>7, <2>8, <2>9
<1> QED
    BY <1>1, <1>2

LEMMA RepoLoad == ASSUME RepoInv, NEW c \in SessionCalls, Sessions!Load(c) PROVE RepoInv'
<1> USE UpkeepLimits DEF Sessions!SessionLimits
<1>1. /\ repoAt[c] = "idle" /\ repoAt' = [repoAt EXCEPT ![c] = "loaded"]
      /\ loads < MaxLoads /\ loads' = loads + 1
      /\ UNCHANGED <<sessions, reply, sure, gone>>
    BY DEF Sessions!Load
<1>2. /\ repoOverlapped' \in BOOLEAN
      /\ ~repoOverlapped' => ~repoOverlapped /\ repoSaid' = repoSaid /\ \A d \in SessionCalls \ {c} : repoAt[d] = "idle"
      /\ repoSaid' \in {repoSaid, Sessions!NoFile}
    <2>1. /\ repoOverlapped' = (repoOverlapped \/ Sessions!Others(c))
          /\ repoSaid' = (IF repoOverlapped' THEN Sessions!NoFile ELSE repoSaid)
        BY DEF Sessions!Load
    <2>2. repoOverlapped' \in BOOLEAN /\ (~repoOverlapped' => ~repoOverlapped /\ ~Sessions!Others(c))
        BY <2>1, Zenon DEF RepoInv
    <2> QED
        BY <2>1, <2>2 DEF Sessions!Others
<1>3. /\ mem' = [mem EXCEPT ![c] = mem'[c]] /\ mem'[c] \in Sessions!States /\ IsNormal(mem'[c])
      /\ made' \in made..MaxSessions /\ Sessions!Has(mem'[c]) \subseteq 1..made'
      /\ sure \subseteq Sessions!Has(mem'[c]) /\ gone \cap Sessions!Has(mem'[c]) = {}
      /\ Agrees(repoSaid, sessions) => Agrees(repoSaid, mem'[c])
    BY RepoLoads
<1>4. /\ repoAt'[c] = "loaded"
      /\ \A d \in SessionCalls \ {c} : repoAt'[d] = repoAt[d] /\ mem'[d] = mem[d]
    BY <1>1, <1>3 DEF RepoInv, RepoTypes
<1>5. made \in 0..made' /\ 1..made \subseteq 1..made' /\ 0..made \subseteq 0..made' /\ made' \in 0..MaxSessions
    BY <1>3 DEF RepoInv, RepoTypes
<1>6. RepoTypes'
    <2>1. repoSaid' \in Sessions!States
        BY <1>2, RepoNoFile DEF RepoInv, RepoTypes
    <2>2. mem' \in [SessionCalls -> Sessions!States] /\ repoAt' \in [SessionCalls -> {"idle", "loaded", "saving"}]
        BY <1>1, <1>3 DEF RepoInv, RepoTypes
    <2>3. loads' \in 0..MaxLoads
        BY <1>1 DEF RepoInv, RepoTypes
    <2> QED
        BY <1>1, <1>5, <2>1, <2>2, <2>3 DEF RepoInv, RepoTypes
<1>7. RepoFile'
    <2>1. repoSaid'.main \in 0..made'
        BY <1>2, <1>5, RepoNoFile DEF RepoInv, RepoFile
    <2> QED
        BY <1>1, <1>5, <2>1 DEF RepoInv, RepoFile
<1>8. RepoInHand'
    <2> SUFFICES ASSUME NEW d \in SessionCalls, repoAt'[d] # "idle"
                 PROVE  /\ MayBeNormal(mem'[d]) /\ Sessions!Has(mem'[d]) \subseteq 1..made'
                        /\ repoAt'[d] = "loaded" => IsNormal(mem'[d])
                        /\ sure' \subseteq Sessions!Has(mem'[d]) /\ gone' \cap Sessions!Has(mem'[d]) = {}
        BY DEF RepoInHand, MayBeNormal, IsNormal, Sessions!Has, Sessions!Ids
    <2>1. CASE d = c
        BY <1>1, <1>3, <2>1 DEF MayBeNormal, IsNormal
    <2>2. CASE d # c
        BY <1>1, <1>4, <1>5, <2>2 DEF RepoInv, RepoInHand
    <2> QED
        BY <2>1, <2>2
<1>9. ASSUME ~repoOverlapped' PROVE RepoOneByOne'
    <2>1. RepoOneByOne /\ repoSaid' = repoSaid /\ \A d \in SessionCalls \ {c} : repoAt'[d] = "idle"
        BY <1>2, <1>4, <1>9 DEF RepoInv
    <2>2. Agrees(repoSaid', sessions') /\ Agrees(repoSaid', mem'[c])
        BY <1>1, <1>3, <2>1 DEF RepoOneByOne
    <2>3. \A d \in SessionCalls : repoAt'[d] # "idle" => d = c
        BY <2>1
    <2>4. /\ (Agrees(repoSaid, sessions))'
          /\ \A d \in SessionCalls : repoAt'[d] = "loaded" => (Agrees(repoSaid, mem[d]))'
        BY <2>2, <2>3 DEF Agrees, Sessions!Has, Sessions!Ids
    <2> QED
        BY <1>4, <2>3, <2>4 DEF RepoOneByOne
<1> QED
    BY <1>2, <1>6, <1>7, <1>8, <1>9 DEF RepoInv

\* A call writes what it loaded, changes what it has in hand and begins to write that.
LEMMA RepoChanges ==
    ASSUME RepoInv, NEW c \in SessionCalls, NEW state \in Sessions!States, NEW main \in 0..MaxSessions,
           NEW ids \in SUBSET Sessions!Ids, Sessions!Changes(c, state, main, ids),
           made' \in made..MaxSessions, main \in 0..made', MayBeNormal(state),
           Sessions!Has(state) \subseteq Sessions!Has(mem[c]) \cup ((made + 1)..made'),
           \A i \in Sessions!Ids \ ids : state.status[i] = mem[c].status[i],
           main # 0 => state.main = main,
           main = 0 => (mem[c].main \in Sessions!Has(state) => state.main = mem[c].main)
    PROVE  RepoInv'
<1> USE UpkeepLimits DEF Sessions!SessionLimits
<1> DEFINE deleted == Sessions!Has(mem[c]) \ Sessions!Has(state)
<1>1. /\ repoAt[c] = "loaded" /\ Sessions!Writes(c, deleted)
      /\ repoAt' = [repoAt EXCEPT ![c] = "saving"] /\ mem' = [mem EXCEPT ![c] = state]
      /\ reply' = [reply EXCEPT ![c] = [main |-> main, ids |-> ids]]
      /\ UNCHANGED <<loads, repoSaid, repoOverlapped>>
    BY DEF Sessions!Changes
<1>2. deleted \in SUBSET Sessions!Ids
    BY DEF Sessions!Has
<1>3. /\ sessions' = Sessions!NormalMain(mem[c]) /\ sessions' \in Sessions!States /\ IsNormal(sessions')
      /\ Sessions!Has(sessions') = Sessions!Has(mem[c]) /\ Sessions!Has(mem[c]) \subseteq 1..made
      /\ sure' \subseteq Sessions!Has(mem[c]) \ deleted
      /\ gone' \subseteq 1..made /\ gone' \cap Sessions!Has(mem[c]) = {} /\ gone' \subseteq Sessions!Ids
      /\ \A d \in SessionCalls \ {c} : repoAt[d] # "idle" => sure' \subseteq sure /\ gone' = gone
      /\ sure' \subseteq Sessions!Ids
    BY <1>1, <1>2, RepoWrites
<1>4. /\ repoAt'[c] = "saving" /\ mem'[c] = state /\ reply'[c] = [main |-> main, ids |-> ids]
      /\ \A d \in SessionCalls \ {c} : repoAt'[d] = repoAt[d] /\ mem'[d] = mem[d] /\ reply'[d] = reply[d]
    BY <1>1 DEF RepoInv, RepoTypes
<1>5. /\ made \in 0..MaxSessions /\ made' \in 0..MaxSessions /\ 1..made \subseteq 1..made' /\ 0..made \subseteq 0..made'
      /\ (made + 1)..made' \subseteq 1..made' /\ (1..made) \cap ((made + 1)..made') = {}
    BY DEF RepoInv, RepoTypes
<1>6. mem[c] \in Sessions!States /\ MayBeNormal(mem[c]) /\ IsNormal(mem[c])
    BY <1>1 DEF RepoInv, RepoTypes, RepoInHand
<1>7. RepoTypes'
    <2>1. mem' \in [SessionCalls -> Sessions!States] /\ repoAt' \in [SessionCalls -> {"idle", "loaded", "saving"}]
          /\ reply' \in [SessionCalls -> [main : 0..MaxSessions, ids : SUBSET Sessions!Ids]]
        BY <1>1 DEF RepoInv, RepoTypes
    <2> QED
        BY <1>1, <1>3, <1>5, <2>1 DEF RepoInv, RepoTypes
<1>8. RepoFile'
    <2>1. \A d \in SessionCalls : reply'[d].main \in 0..made'
        BY <1>4, <1>5 DEF RepoInv, RepoFile
    <2> QED
        BY <1>1, <1>3, <1>5, <2>1 DEF RepoInv, RepoFile
<1>9. RepoInHand'
    <2> SUFFICES ASSUME NEW d \in SessionCalls, repoAt'[d] # "idle"
                 PROVE  /\ MayBeNormal(mem'[d]) /\ Sessions!Has(mem'[d]) \subseteq 1..made'
                        /\ repoAt'[d] = "loaded" => IsNormal(mem'[d])
                        /\ sure' \subseteq Sessions!Has(mem'[d]) /\ gone' \cap Sessions!Has(mem'[d]) = {}
        BY DEF RepoInHand, MayBeNormal, IsNormal, Sessions!Has, Sessions!Ids
    <2>1. CASE d = c
        BY <1>3, <1>4, <1>5, <2>1
    <2>2. CASE d # c
        BY <1>3, <1>4, <1>5, <2>2 DEF RepoInv, RepoInHand
    <2> QED
        BY <2>1, <2>2
<1>10. ASSUME ~repoOverlapped PROVE RepoOneByOne'
    <2>1. RepoOneByOne /\ \A d \in SessionCalls \ {c} : repoAt'[d] = "idle"
        BY <1>1, <1>4, <1>10 DEF RepoInv, RepoOneByOne
    <2>2. Agrees(repoSaid, mem[c])
        BY <1>1, <2>1 DEF RepoOneByOne
    <2>3. Agrees(repoSaid, sessions')
        BY <1>3, <1>6, <2>2, AgreesNormal
    <2>4. LET says == [main |-> IF main # 0 THEN main ELSE repoSaid.main, mains |-> {},
                       status |-> [i \in Sessions!Ids |-> IF i \in ids THEN state.status[i] ELSE repoSaid.status[i]]]
          IN  Agrees(says, state)
        <3> DEFINE says == [main |-> IF main # 0 THEN main ELSE repoSaid.main, mains |-> {},
                            status |-> [i \in Sessions!Ids |-> IF i \in ids THEN state.status[i] ELSE repoSaid.status[i]]]
        <3>1. \A i \in Sessions!Ids : says.status[i] # "none" => state.status[i] = says.status[i]
            BY <2>2 DEF Agrees
        <3>2. says.main \in Sessions!Has(state) => state.main = says.main
            <4>1. CASE main # 0
                BY <4>1
            <4>2. CASE main = 0
                <5>1. repoSaid.main \in Sessions!Has(state) => repoSaid.main \in Sessions!Has(mem[c])
                    BY <1>5 DEF RepoInv, RepoFile
                <5> QED
                    BY <2>2, <4>2, <5>1 DEF Agrees
            <4> QED
                BY <4>1, <4>2
        <3> QED
            BY <3>1, <3>2 DEF Agrees
    <2>5. WillSay(c)' = [main |-> IF main # 0 THEN main ELSE repoSaid.main, mains |-> {},
                         status |-> [i \in Sessions!Ids |-> IF i \in ids THEN state.status[i] ELSE repoSaid.status[i]]]
        <3>1. reply'[c].main = main /\ reply'[c].ids = ids /\ repoSaid' = repoSaid /\ mem'[c] = state
            BY <1>1, <1>4
        <3>2. WillSay(c)' = [main |-> IF reply'[c].main # 0 THEN reply'[c].main ELSE repoSaid'.main, mains |-> {},
                             status |-> [i \in Sessions!Ids |-> IF i \in reply'[c].ids THEN mem'[c].status[i]
                                                                ELSE repoSaid'.status[i]]]
            BY DEF WillSay, Sessions!Ids
        <3> QED
            BY <3>1, <3>2
    <2>6. (Agrees(repoSaid, sessions))' /\ (Agrees(WillSay(c), mem[c]))'
        BY <1>1, <1>4, <2>3, <2>4, <2>5 DEF Agrees, Sessions!Has, Sessions!Ids
    <2>7. \A d \in SessionCalls : repoAt'[d] # "idle" => d = c /\ repoAt'[d] = "saving"
        BY <1>4, <2>1
    <2> QED
        BY <2>6, <2>7 DEF RepoOneByOne
<1> QED
    BY <1>1, <1>7, <1>8, <1>9, <1>10 DEF RepoInv

\* A call ends: what it wrote is what it has in hand, what it answers is in it.
LEMMA RepoReturns ==
    ASSUME RepoInv, NEW c \in SessionCalls, Sessions!Answers(c) \/ Sessions!Saved(c)
    PROVE  RepoInv'
<1> USE UpkeepLimits DEF Sessions!SessionLimits
<1>1. /\ repoAt[c] # "idle" /\ Sessions!Writes(c, {}) /\ Sessions!Ends(c)
      /\ UNCHANGED <<made, loads, repoOverlapped>>
    BY DEF Sessions!Answers, Sessions!Saved
<1>2. /\ sessions' = Sessions!NormalMain(mem[c]) /\ sessions' \in Sessions!States /\ IsNormal(sessions')
      /\ Sessions!Has(sessions') = Sessions!Has(mem[c]) /\ Sessions!Has(mem[c]) \subseteq 1..made
      /\ sure' \subseteq Sessions!Has(mem[c])
      /\ gone' \subseteq 1..made /\ gone' \cap Sessions!Has(mem[c]) = {} /\ gone' \subseteq Sessions!Ids
      /\ \A d \in SessionCalls \ {c} : repoAt[d] # "idle" => sure' \subseteq sure /\ gone' = gone
      /\ sure' \subseteq Sessions!Ids
    BY <1>1, RepoWrites
<1>3. /\ repoAt' \in [SessionCalls -> {"idle", "loaded", "saving"}] /\ mem' \in [SessionCalls -> Sessions!States]
      /\ reply' \in [SessionCalls -> [main : 0..MaxSessions, ids : SUBSET Sessions!Ids]]
      /\ repoAt'[c] = "idle" /\ reply'[c].main = 0
      /\ \A d \in SessionCalls \ {c} : repoAt'[d] = repoAt[d] /\ mem'[d] = mem[d] /\ reply'[d] = reply[d]
    BY <1>1, RepoEnds DEF RepoInv
<1>4. mem[c] \in Sessions!States /\ MayBeNormal(mem[c])
    BY <1>1 DEF RepoInv, RepoTypes, RepoInHand
<1>5. /\ repoSaid' \in Sessions!States /\ repoSaid'.main \in 0..made
      /\ ~repoOverlapped => Agrees(repoSaid', sessions')
    <2>1. CASE repoOverlapped
        <3>1. repoSaid' = Sessions!NoFile
            BY <2>1 DEF Sessions!Answers, Sessions!Saved
        <3> QED
            BY <2>1, <3>1, RepoNoFile DEF RepoInv, RepoTypes
    <2>2. CASE ~repoOverlapped /\ Sessions!Answers(c)
        <3>1. repoSaid' = [Sessions!NormalMain(mem[c]) EXCEPT !.mains = {}]
            BY <2>2 DEF Sessions!Answers
        <3>2. /\ repoSaid' \in Sessions!States /\ repoSaid'.main = sessions'.main /\ repoSaid'.status = sessions'.status
            BY <1>2, <3>1 DEF Sessions!States
        <3>3. sessions'.main \in 1..made
            BY <1>2 DEF IsNormal
        <3> QED
            BY <3>2, <3>3 DEF Agrees, RepoInv, RepoTypes
    <2>3. CASE ~repoOverlapped /\ Sessions!Saved(c)
        <3>1. repoSaid' = WillSay(c) /\ repoAt[c] = "saving"
            BY <2>3 DEF Sessions!Saved, WillSay
        <3>2. Agrees(WillSay(c), mem[c])
            BY <2>3, <3>1 DEF RepoInv, RepoOneByOne
        <3>3. Agrees(repoSaid', sessions')
            BY <1>2, <1>4, <3>1, <3>2, AgreesNormal
        <3>4. repoSaid'.main = IF reply[c].main # 0 THEN reply[c].main ELSE repoSaid.main
            BY <3>1 DEF WillSay
        <3>6. repoSaid'.main \in 0..made
            <4>1. reply[c].main \in 0..made /\ repoSaid.main \in 0..made
                BY DEF RepoInv, RepoFile
            <4> QED
                BY <3>4, <4>1
        <3>5. repoSaid' \in Sessions!States
            BY <1>4, <3>1 DEF WillSay, RepoInv, RepoTypes, Sessions!States
        <3> QED
            BY <3>3, <3>5, <3>6
    <2> QED
        BY <1>1, <2>1, <2>2, <2>3 DEF RepoInv
<1>6. RepoTypes'
    BY <1>1, <1>2, <1>3, <1>5 DEF RepoInv, RepoTypes
<1>7. RepoFile'
    <2>1. \A d \in SessionCalls : reply'[d].main \in 0..made
        BY <1>3 DEF RepoInv, RepoTypes, RepoFile
    <2> QED
        BY <1>1, <1>2, <1>5, <2>1 DEF RepoFile
<1>8. RepoInHand'
    <2> SUFFICES ASSUME NEW d \in SessionCalls, repoAt'[d] # "idle"
                 PROVE  /\ MayBeNormal(mem'[d]) /\ Sessions!Has(mem'[d]) \subseteq 1..made'
                        /\ repoAt'[d] = "loaded" => IsNormal(mem'[d])
                        /\ sure' \subseteq Sessions!Has(mem'[d]) /\ gone' \cap Sessions!Has(mem'[d]) = {}
        BY DEF RepoInHand, MayBeNormal, IsNormal, Sessions!Has, Sessions!Ids
    <2> QED
        BY <1>1, <1>2, <1>3 DEF RepoInv, RepoInHand
<1>9. ASSUME ~repoOverlapped PROVE RepoOneByOne'
    <2>1. \A d \in SessionCalls : repoAt'[d] = "idle"
        BY <1>1, <1>3, <1>9 DEF RepoInv, RepoOneByOne
    <2>2. (Agrees(repoSaid, sessions))'
        BY <1>5, <1>9 DEF Agrees, Sessions!Has, Sessions!Ids
    <2> QED
        BY <2>1, <2>2 DEF RepoOneByOne
<1> QED
    BY <1>1, <1>6, <1>7, <1>8, <1>9 DEF RepoInv

LEMMA RepoStops ==
    ASSUME RepoInv, Sessions!Restart \/ \E c \in SessionCalls : Sessions!WriteFails(c)
    PROVE  RepoInv'
<1>1. UNCHANGED <<sessions, made, loads, repoSaid, repoOverlapped, sure, gone>>
    BY DEF Sessions!Restart, Sessions!WriteFails
<1> DEFINE Left ==
      /\ repoAt' \in [SessionCalls -> {"idle", "loaded", "saving"}] /\ mem' \in [SessionCalls -> Sessions!States]
      /\ reply' \in [SessionCalls -> [main : 0..MaxSessions, ids : SUBSET Sessions!Ids]]
      /\ \A d \in SessionCalls : reply'[d].main \in {0, reply[d].main}
      /\ \A d \in SessionCalls :
            repoAt'[d] # "idle" => repoAt'[d] = repoAt[d] /\ mem'[d] = mem[d] /\ reply'[d] = reply[d]
<1>2. Left
    <2>1. CASE Sessions!Restart
        BY <2>1, RepoNoFile, UpkeepLimits DEF Sessions!Restart, Sessions!NoReply, Sessions!Ids, Sessions!SessionLimits
    <2>2. ASSUME NEW c \in SessionCalls, Sessions!WriteFails(c) PROVE Left
        BY <2>2, RepoEnds DEF Sessions!WriteFails, RepoInv
    <2> QED
        BY <2>1, <2>2
<1>3. RepoTypes'
    BY <1>1, <1>2 DEF RepoInv, RepoTypes
<1>4. RepoFile'
    BY <1>1, <1>2 DEF RepoInv, RepoFile, RepoTypes
<1>5. RepoInHand'
    BY <1>1, <1>2 DEF RepoInv, RepoInHand, MayBeNormal, IsNormal, Sessions!Has, Sessions!Ids
<1>6. ASSUME ~repoOverlapped PROVE RepoOneByOne'
    <2>1. RepoOneByOne
        BY <1>6 DEF RepoInv
    <2>2. \A d \in SessionCalls : repoAt'[d] # "idle" =>
              repoAt'[d] = repoAt[d] /\ mem'[d] = mem[d] /\ reply'[d] = reply[d]
        BY <1>2
    <2>3. \A c, d \in SessionCalls : repoAt'[c] # "idle" /\ repoAt'[d] # "idle" => c = d
        BY <2>1, <2>2 DEF RepoOneByOne
    <2>4. (Agrees(repoSaid, sessions))'
        BY <1>1, <2>1 DEF RepoOneByOne, Agrees, Sessions!Has, Sessions!Ids
    <2>5. ASSUME NEW d \in SessionCalls, repoAt'[d] = "loaded"
          PROVE  (Agrees(repoSaid, mem[d]))'
        <3>1. Agrees(repoSaid, mem[d]) /\ mem'[d] = mem[d] /\ repoSaid' = repoSaid
            BY <1>1, <2>1, <2>2, <2>5 DEF RepoOneByOne
        <3> QED
            BY <3>1 DEF Agrees, Sessions!Has, Sessions!Ids
    <2>6. ASSUME NEW d \in SessionCalls, repoAt'[d] = "saving"
          PROVE  (Agrees(WillSay(d), mem[d]))'
        <3>1. Agrees(WillSay(d), mem[d]) /\ mem'[d] = mem[d] /\ reply'[d] = reply[d]
                /\ repoSaid' = repoSaid
            BY <1>1, <2>1, <2>2, <2>6 DEF RepoOneByOne
        <3>2. WillSay(d)' = WillSay(d)
            BY <3>1 DEF WillSay, Sessions!Ids
        <3> QED
            BY <3>1, <3>2 DEF Agrees, Sessions!Has, Sessions!Ids
    <2> QED
        BY <2>3, <2>4, <2>5, <2>6 DEF RepoOneByOne
<1> QED
    BY <1>1, <1>3, <1>4, <1>5, <1>6 DEF RepoInv

\* create and newSession.
LEMMA RepoMakes ==
    ASSUME RepoInv, NEW c \in SessionCalls,
           Sessions!NewSession(c) \/ \E asMain \in BOOLEAN : Sessions!Create(c, asMain)
    PROVE  RepoInv'
<1> USE UpkeepLimits DEF Sessions!SessionLimits
<1>1. made < MaxSessions /\ made' = made + 1 /\ repoAt[c] = "loaded"
    BY DEF Sessions!NewSession, Sessions!Create, Sessions!Changes
<1>2. /\ made' \in made..MaxSessions /\ made + 1 \in Sessions!Ids /\ made + 1 \in 0..MaxSessions /\ made + 1 \in 0..made'
      /\ (made + 1)..made' = {made + 1} /\ made + 1 # 0
    BY <1>1 DEF RepoInv, RepoTypes, Sessions!Ids
<1>3. /\ mem[c] \in Sessions!States /\ IsNormal(mem[c]) /\ mem[c].main \in Sessions!Has(mem[c])
      /\ Sessions!Has(mem[c]) \subseteq 1..made /\ Sessions!Has(mem[c]) \subseteq Sessions!Ids
    BY <1>1 DEF RepoInv, RepoTypes, RepoInHand, IsNormal, Sessions!Has
<1>4. ASSUME NEW asMain \in BOOLEAN, Sessions!Create(c, asMain) PROVE RepoInv'
    <2> DEFINE state == Sessions!Adds(mem[c], made + 1, asMain)
               main == IF asMain THEN made + 1 ELSE 0
    <2>1. Sessions!Changes(c, state, main, {made + 1})
        BY <1>4 DEF Sessions!Create
    <2>2. /\ state.main = IF asMain THEN made + 1 ELSE mem[c].main
          /\ state.status = [mem[c].status EXCEPT ![made + 1] = "active"] /\ state \in Sessions!States
        BY <1>2, <1>3 DEF Sessions!Adds, Sessions!States, Sessions!Statuses
    <2>3. /\ state \in Sessions!States /\ Sessions!Has(state) = Sessions!Has(mem[c]) \cup {made + 1}
          /\ \A i \in Sessions!Ids \ {made + 1} : state.status[i] = mem[c].status[i]
        BY <1>2, <1>3, <2>2 DEF Sessions!States, Sessions!Statuses, Sessions!Has
    <2>4. /\ main \in 0..MaxSessions /\ main \in 0..made' /\ (main # 0 => state.main = main)
          /\ main = 0 => state.main = mem[c].main
        BY <1>2, <2>2
    <2>5. MayBeNormal(state)
        BY <2>3 DEF MayBeNormal
    <2> HIDE DEF state, main
    <2> QED
        BY <1>2, <2>1, <2>3, <2>4, <2>5, RepoChanges
<1>5. ASSUME Sessions!NewSession(c) PROVE RepoInv'
    <2> DEFINE old == [mem[c] EXCEPT !.status[mem[c].main] = "archived", !.mains = {}]
               state == Sessions!Adds(old, made + 1, TRUE)
    <2>1. Sessions!Changes(c, state, made + 1, {mem[c].main, made + 1})
        BY <1>5 DEF Sessions!NewSession
    <2>2. old.status = [mem[c].status EXCEPT ![mem[c].main] = "archived"] /\ old \in Sessions!States
        BY <1>3 DEF Sessions!States, Sessions!Statuses
    <2> HIDE DEF old
    <2>3. /\ state.main = made + 1 /\ state.status = [old.status EXCEPT ![made + 1] = "active"]
          /\ state \in Sessions!States
        BY <1>2, <2>2 DEF Sessions!Adds, Sessions!States, Sessions!Statuses
    <2>4. /\ state \in Sessions!States /\ Sessions!Has(state) = Sessions!Has(mem[c]) \cup {made + 1}
          /\ \A i \in Sessions!Ids \ {mem[c].main, made + 1} : state.status[i] = mem[c].status[i]
          /\ state.main = made + 1
        <3> HIDE DEF state
        <3>1. /\ mem[c].status \in [Sessions!Ids -> Sessions!Statuses \cup {"none"}] /\ mem[c].main \in Sessions!Ids
              /\ made + 1 # mem[c].main
            <4>1. made \in Nat /\ mem[c].main \in 1..made
                BY <1>3 DEF RepoInv, RepoTypes
            <4>2. made + 1 # mem[c].main
                BY <4>1
            <4> QED
                BY <1>3, <4>2 DEF Sessions!States
        <3>2. /\ \A i \in Sessions!Ids \ {mem[c].main, made + 1} : state.status[i] = mem[c].status[i]
              /\ state.status[made + 1] = "active" /\ state.status[mem[c].main] = "archived"
            BY <1>2, <2>2, <2>3, <3>1
        <3>3. Sessions!Has(state) = Sessions!Has(mem[c]) \cup {made + 1}
            BY <1>2, <1>3, <3>2 DEF Sessions!Has
        <3> QED
            BY <2>3, <3>2, <3>3
    <2>5. MayBeNormal(state) /\ {mem[c].main, made + 1} \in SUBSET Sessions!Ids
        BY <1>2, <1>3, <2>4 DEF MayBeNormal
    <2> HIDE DEF state
    <2> QED
        BY <1>2, <2>1, <2>4, <2>5, RepoChanges
<1> QED
    BY <1>4, <1>5

LEMMA RepoSame == ASSUME NEW S PROVE Sessions!Cardinality(S) = Cardinality(S)
BY DEF Sessions!Cardinality, Cardinality

\* update, setMain and delete of session i.
LEMMA RepoEdits ==
    ASSUME RepoInv, NEW c \in SessionCalls, NEW i \in Sessions!Ids,
           \/ Sessions!SetMain(c, i) \/ Sessions!Delete(c, i)
           \/ \E s \in Sessions!Statuses \ {"archived"} : Sessions!Update(c, i, s)
    PROVE  RepoInv'
<1> USE UpkeepLimits DEF Sessions!SessionLimits
<1>1. i \in Sessions!Has(mem[c]) /\ made' = made /\ repoAt[c] = "loaded"
    <2>1. CASE Sessions!SetMain(c, i) \/ \E s \in Sessions!Statuses \ {"archived"} : Sessions!Update(c, i, s)
        BY <2>1 DEF Sessions!SetMain, Sessions!Update, Sessions!Changes
    <2>2. CASE Sessions!Delete(c, i)
        <3>1. i \in Sessions!Has(mem[c]) /\ made' = made
            BY <2>2 DEF Sessions!Delete
        <3>2. repoAt[c] = "loaded"
            BY <2>2 DEF Sessions!Delete, Sessions!Changes
        <3> QED
            BY <3>1, <3>2
    <2> QED
        BY <2>1, <2>2
<1>2. /\ made' \in made..MaxSessions /\ {i} \in SUBSET Sessions!Ids /\ i # 0 /\ 0 \in 0..made /\ 0 \in 0..MaxSessions
      /\ (made + 1)..made' = {}
    BY <1>1 DEF RepoInv, RepoTypes, Sessions!Ids
<1>3. /\ mem[c] \in Sessions!States /\ mem[c].mains = {mem[c].main} /\ mem[c].main \in Sessions!Has(mem[c])
      /\ \A m \in Sessions!Has(mem[c]) : m \in 0..made' /\ m # 0 /\ m \in 0..MaxSessions /\ m \in Sessions!Ids
    <2>1. mem[c] \in Sessions!States /\ IsNormal(mem[c]) /\ Sessions!Has(mem[c]) \subseteq 1..made
        BY <1>1, Zenon DEF RepoInv, RepoTypes, RepoInHand
    <2>2. mem[c].mains = {mem[c].main} /\ mem[c].main \in Sessions!Has(mem[c])
        BY <2>1 DEF IsNormal
    <2>3. made' = made /\ made \in 0..MaxSessions /\ Sessions!Has(mem[c]) \subseteq Sessions!Ids
        BY <1>1, Zenon DEF RepoInv, RepoTypes, Sessions!Has
    <2> QED
        BY <2>1, <2>2, <2>3
<1>4. ASSUME NEW s \in Sessions!Statuses, Sessions!Update(c, i, s) PROVE RepoInv'
    <2> DEFINE state == [mem[c] EXCEPT !.status[i] = s]
               main == IF i \in mem[c].mains THEN i ELSE 0
    <2>1. Sessions!Changes(c, state, main, {i})
        BY <1>4 DEF Sessions!Update
    <2>2. /\ state.main = mem[c].main /\ state.status = [mem[c].status EXCEPT ![i] = s] /\ state \in Sessions!States
        BY <1>3 DEF Sessions!States
    <2>3. /\ state \in Sessions!States /\ Sessions!Has(state) = Sessions!Has(mem[c])
          /\ \A j \in Sessions!Ids \ {i} : state.status[j] = mem[c].status[j]
          /\ state.main = mem[c].main
        BY <1>1, <1>3, <2>2 DEF Sessions!States, Sessions!Statuses, Sessions!Has
    <2>4. main \in 0..MaxSessions /\ main \in 0..made' /\ (main # 0 => state.main = main)
        BY <1>1, <1>2, <1>3, <2>3
    <2>5. MayBeNormal(state)
        BY <1>1, <2>3 DEF MayBeNormal
    <2> HIDE DEF state, main
    <2> QED
        BY <1>2, <2>1, <2>3, <2>4, <2>5, RepoChanges
<1>5. ASSUME Sessions!SetMain(c, i) PROVE RepoInv'
    <2> DEFINE state == [mem[c] EXCEPT !.mains = {i}, !.main = i]
    <2>1. Sessions!Changes(c, state, i, {i})
        BY <1>5 DEF Sessions!SetMain
    <2>2. state.main = i /\ state.status = mem[c].status /\ state \in Sessions!States
        BY <1>1, <1>3 DEF Sessions!States
    <2>3. /\ state \in Sessions!States /\ Sessions!Has(state) = Sessions!Has(mem[c])
          /\ \A j \in Sessions!Ids \ {i} : state.status[j] = mem[c].status[j]
          /\ state.main = i
        BY <1>1, <1>3, <2>2 DEF Sessions!States, Sessions!Has
    <2>5. MayBeNormal(state)
        BY <1>1, <2>3 DEF MayBeNormal
    <2> HIDE DEF state
    <2> QED
        BY <1>1, <1>2, <1>3, <2>1, <2>3, <2>5, RepoChanges
<1>6. ASSUME Sessions!Delete(c, i) PROVE RepoInv'
    <2>1. ASSUME NEW m \in Sessions!Has(mem[c])
          PROVE  /\ Sessions!Drops(mem[c], i, m) \in Sessions!States /\ Sessions!Has(Sessions!Drops(mem[c], i, m)) = Sessions!Has(mem[c]) \ {i}
                 /\ \A j \in Sessions!Ids \ {i} : Sessions!Drops(mem[c], i, m).status[j] = mem[c].status[j]
                 /\ Sessions!Drops(mem[c], i, m).main = m
        <3>2. m \in 0..MaxSessions /\ (mem[c].mains \cup {m}) \ {0} \in SUBSET Sessions!Ids
            BY <1>3
        <3>1. Sessions!Drops(mem[c], i, m).main = m /\ Sessions!Drops(mem[c], i, m).status = [mem[c].status EXCEPT ![i] = "none"] /\ Sessions!Drops(mem[c], i, m) \in Sessions!States
            BY <1>3, <3>2 DEF Sessions!States, Sessions!Drops
        <3> QED
            BY <1>3, <3>1 DEF Sessions!States, Sessions!Has
    <2>2. CASE i \notin mem[c].mains
        <3>1. Sessions!Changes(c, Sessions!Drops(mem[c], i, mem[c].main), 0, {i})
            BY <1>6, <2>2 DEF Sessions!Delete
        <3>2. MayBeNormal(Sessions!Drops(mem[c], i, mem[c].main))
            <4>1. mem[c].main # i
                BY <1>3, <2>2
            <4> QED
                BY <1>3, <2>1, <4>1 DEF MayBeNormal
        <3> QED
            BY <1>1, <1>2, <1>3, <2>1, <3>1, <3>2, RepoChanges
    <2>3. CASE i \in mem[c].mains
        <3>1. PICK m \in Sessions!Has(mem[c]) : Sessions!Changes(c, Sessions!Drops(mem[c], i, m), IF m = i THEN 0 ELSE m, {i})
            BY <1>6, <2>3 DEF Sessions!Delete
        <3>2. Cardinality(Sessions!Has(mem[c])) > 1
            <4>1. Sessions!Cardinality(Sessions!Has(mem[c])) > 1
                BY <1>6, <2>3 DEF Sessions!Delete
            <4> QED
                BY <4>1, RepoSame
        <3>3. Sessions!Has(mem[c]) \ {i} # {}
            <4> SUFFICES ASSUME Sessions!Has(mem[c]) = {i} PROVE FALSE
                BY <1>1
            <4>1. Cardinality({i}) = 1
                BY FS_Singleton
            <4> QED
                BY <3>2, <4>1
        <3>4. MayBeNormal(Sessions!Drops(mem[c], i, m))
            BY <2>1, <3>3 DEF MayBeNormal
        <3>5. mem[c].main = i
            BY <1>3, <2>3
        <3>6. CASE m = i
            <4>1. Sessions!Changes(c, Sessions!Drops(mem[c], i, m), 0, {i})
                BY <3>1, <3>6
            <4> QED
                BY <1>1, <1>2, <2>1, <3>4, <3>5, <4>1, RepoChanges
        <3>7. CASE m # i
            <4>1. Sessions!Changes(c, Sessions!Drops(mem[c], i, m), m, {i})
                BY <3>1, <3>7
            <4> QED
                BY <1>1, <1>2, <1>3, <2>1, <3>4, <4>1, RepoChanges
        <3> QED
            BY <3>6, <3>7
    <2> QED
        BY <2>2, <2>3
<1> QED
    BY <1>4, <1>5, <1>6

LEMMA RepoNextInv == RepoInv /\ [Sessions!Next]_sessionVars => RepoInv'
<1> SUFFICES ASSUME RepoInv, [Sessions!Next]_sessionVars PROVE RepoInv'
    OBVIOUS
<1>1. CASE UNCHANGED sessionVars
    BY <1>1 DEF sessionVars, RepoInv, RepoTypes, RepoFile, RepoInHand, RepoOneByOne, WillSay, Agrees, MayBeNormal, IsNormal, Sessions!Has, Sessions!Ids
<1>2. CASE Sessions!Next
    BY <1>2, RepoLoad, RepoReturns, RepoStops, RepoMakes, RepoEdits DEF Sessions!Next
<1> QED
    BY <1>1, <1>2

-----------------------------------------------------------------------------
(* Onboarding: as long as no key is pressed during a call, the call that   *)
(* works answers the step the wizard is at, what it saves is where the     *)
(* wizard is, and a file is where the wizard was.                          *)

WizardTypes ==
    /\ index \in 0..NumSteps /\ done \subseteq Wizard!Steps /\ checkpoint \in Wizard!Files
    /\ wizardAt \in [WizardCalls -> {"idle", "executing", "saving"}] /\ step \in [WizardCalls -> 0..NumSteps]
    /\ config \in [WizardCalls -> Wizard!Files]

OneKey == \A c, d \in WizardCalls : wizardAt[c] # "idle" /\ wizardAt[d] # "idle" => c = d

KeyInHand ==
    \A c \in WizardCalls :
        /\ wizardAt[c] = "executing" => index < NumSteps /\ step[c] = index + 1
        /\ wizardAt[c] = "saving" =>
               config[c] = Wizard!Config(index, done) /\ (step[c] # 0 => step[c] \in done)

AnsweredSoFar ==
    /\ 1..index \subseteq answered
    /\ \/ checkpoint = Wizard!NoFile
       \/ \E i \in 0..NumSteps : checkpoint = Wizard!Config(i, checkpoint.done) /\ 1..i \subseteq answered

Acknowledged == ~lost => acked \subseteq done /\ acked \subseteq checkpoint.done

Straight ==
    ~strayed =>
        /\ done = 1..index
        /\ checkpoint = Wizard!NoFile \/ \E i \in 0..NumSteps : checkpoint = Wizard!Config(i, 1..i)
        /\ announced => index = NumSteps /\ checkpoint = Wizard!Config(NumSteps, 1..NumSteps)

WizardOrder == WizardTypes /\ OneKey /\ KeyInHand /\ AnsweredSoFar /\ Acknowledged /\ Straight
WizardInv == ~wizardOverlapped => WizardOrder

LEMMA LeastIs == ASSUME NEW S, NEW m \in S, S \subseteq Nat, \A j \in S : m <= j PROVE Wizard!Least(S) = m
<1>1. \A i \in S : (\A j \in S : i <= j) => i = m
    <2> SUFFICES ASSUME NEW i \in S, \A j \in S : i <= j PROVE i = m
        OBVIOUS
    <2>1. i \in Nat /\ m \in Nat /\ i <= m /\ m <= i
        OBVIOUS
    <2> QED
        BY <2>1
<1> QED
    BY <1>1 DEF Wizard!Least

\* What a checkpoint made at index i says.
LEMMA ConfigOf ==
    ASSUME NEW i \in 0..NumSteps, NEW d
    PROVE  /\ Wizard!Config(i, d).done = d
           /\ Wizard!Config(i, d).current = IF i = NumSteps THEN 0 ELSE i + 1
           /\ Wizard!Config(i, d).complete <=> i = NumSteps
           /\ Wizard!ResumeIndex(Wizard!Config(i, d)) = i
           /\ Wizard!Before(Wizard!Config(i, d)) = 1..i
           /\ d \subseteq Wizard!Steps => Wizard!Config(i, d) \in Wizard!Files
<1> USE UpkeepLimits DEF Wizard!WizardLimits
<1>1. Wizard!Complete(i) \in BOOLEAN /\ (Wizard!Complete(i) <=> i = NumSteps)
    BY DEF Wizard!Complete
<1>2. Wizard!Current(i) = IF i = NumSteps THEN 0 ELSE i + 1
    BY <1>1 DEF Wizard!Current
<1>3. /\ Wizard!Config(i, d).done = d /\ Wizard!Config(i, d).current = Wizard!Current(i)
      /\ Wizard!Config(i, d).complete <=> Wizard!Complete(i)
    BY DEF Wizard!Config
<1>4. Wizard!ResumeIndex(Wizard!Config(i, d)) = i
    <2>1. CASE i = NumSteps
        BY <1>1, <1>3, <2>1 DEF Wizard!ResumeIndex
    <2>2. CASE i # NumSteps
        <3>1. ~Wizard!Config(i, d).complete /\ Wizard!Config(i, d).current = i + 1 /\ i + 1 # 0
            BY <1>1, <1>2, <1>3, <2>2
        <3>2. Wizard!ResumeIndex(Wizard!Config(i, d)) = (i + 1) - 1
            BY <3>1 DEF Wizard!ResumeIndex
        <3> QED
            BY <3>2
    <2> QED
        BY <2>1, <2>2
<1>5. Wizard!Before(Wizard!Config(i, d)) = 1..i
    <2>1. CASE i = NumSteps
        BY <1>1, <1>3, <2>1 DEF Wizard!Before, Wizard!Steps
    <2>2. CASE i # NumSteps
        <3>1. ~Wizard!Config(i, d).complete /\ Wizard!Config(i, d).current = i + 1
            BY <1>1, <1>2, <1>3, <2>2
        <3>2. Wizard!Before(Wizard!Config(i, d)) = {s \in Wizard!Steps : s < i + 1}
            BY <3>1 DEF Wizard!Before
        <3> QED
            BY <3>2 DEF Wizard!Steps
    <2> QED
        BY <2>1, <2>2
<1>6. ASSUME d \subseteq Wizard!Steps PROVE Wizard!Config(i, d) \in Wizard!Files
    <2>1. Wizard!Current(i) \in 0..NumSteps
        BY <1>2
    <2> QED
        BY <1>1, <1>6, <2>1 DEF Wizard!Config, Wizard!Files
<1> QED
    BY <1>1, <1>2, <1>3, <1>4, <1>5, <1>6

LEMMA NoCheckpoint ==
    /\ Wizard!NoFile \in Wizard!Files /\ Wizard!ResumeIndex(Wizard!NoFile) = 0
    /\ Wizard!Before(Wizard!NoFile) = {} /\ Wizard!NoFile.done = {}
<1> USE UpkeepLimits DEF Wizard!WizardLimits
<1>1. ~Wizard!NoFile.complete /\ Wizard!NoFile.current = 0 /\ Wizard!NoFile.done = {}
    BY DEF Wizard!NoFile
<1>2. Wizard!NoFile \in Wizard!Files
    BY DEF Wizard!NoFile, Wizard!Files
<1>3. Wizard!Before(Wizard!NoFile) = {}
    <2>1. Wizard!Before(Wizard!NoFile) = {s \in Wizard!Steps : s < 0}
        BY <1>1 DEF Wizard!Before
    <2> QED
        BY <2>1 DEF Wizard!Steps
<1>4. Wizard!Least(Wizard!Steps \ {}) = 1 /\ Wizard!Steps # {}
    <2>1. 1 \in Wizard!Steps \ {} /\ Wizard!Steps \ {} \subseteq Nat /\ \A j \in Wizard!Steps \ {} : 1 <= j
        BY DEF Wizard!Steps
    <2>2. Wizard!Least(Wizard!Steps \ {}) = 1
        BY <2>1, LeastIs
    <2> QED
        BY <2>1, <2>2
<1>5. Wizard!ResumeIndex(Wizard!NoFile) = Wizard!Least(Wizard!Steps \ {}) - 1
    BY <1>1, <1>4 DEF Wizard!ResumeIndex
<1> QED
    BY <1>1, <1>2, <1>3, <1>4, <1>5

LEMMA WizardInvHolds == WizardInv => Wizard!OnboardingHeld
<1> SUFFICES ASSUME ~wizardOverlapped, WizardOrder
             PROVE  /\ ~lost => acked \subseteq checkpoint.done
                    /\ 1..index \subseteq answered /\ Wizard!Before(checkpoint) \subseteq answered
                    /\ ~strayed /\ checkpoint # Wizard!NoFile =>
                           checkpoint.current \notin checkpoint.done /\ checkpoint.current = Wizard!Detected(checkpoint)
                    /\ ~strayed /\ announced => checkpoint.complete
    BY DEF WizardInv, Wizard!OnboardingHeld
<1> USE UpkeepLimits DEF Wizard!WizardLimits
<1>1. Wizard!Before(checkpoint) \subseteq answered
    BY ConfigOf, NoCheckpoint DEF WizardOrder, AnsweredSoFar
<1>2. ASSUME ~strayed, checkpoint # Wizard!NoFile
      PROVE  checkpoint.current \notin checkpoint.done /\ checkpoint.current = Wizard!Detected(checkpoint)
    <2>1. PICK i \in 0..NumSteps : checkpoint = Wizard!Config(i, 1..i)
        BY <1>2 DEF WizardOrder, Straight
    <2>2. checkpoint.done = 1..i /\ checkpoint.current = IF i = NumSteps THEN 0 ELSE i + 1
        BY <2>1, ConfigOf
    <2>3. Wizard!Least(Wizard!Steps \ (1..i)) = IF i = NumSteps THEN 0 ELSE i + 1
        <3>1. CASE i = NumSteps
            <4>1. Wizard!Steps \ (1..i) = {}
                BY <3>1 DEF Wizard!Steps
            <4> QED
                BY <3>1, <4>1 DEF Wizard!Least
        <3>2. CASE i # NumSteps
            <4>1. /\ i + 1 \in Wizard!Steps \ (1..i) /\ Wizard!Steps \ (1..i) \subseteq Nat
                  /\ \A j \in Wizard!Steps \ (1..i) : i + 1 <= j
                BY <3>2 DEF Wizard!Steps
            <4>2. Wizard!Least(Wizard!Steps \ (1..i)) = i + 1
                BY <4>1, LeastIs
            <4> QED
                BY <3>2, <4>2
        <3> QED
            BY <3>1, <3>2
    <2> QED
        BY <2>2, <2>3 DEF Wizard!Detected
<1>3. ASSUME ~strayed, announced PROVE checkpoint.complete
    <2>1. checkpoint = Wizard!Config(NumSteps, 1..NumSteps) /\ NumSteps \in 0..NumSteps
        BY <1>3 DEF WizardOrder, Straight
    <2>2. Wizard!Config(NumSteps, 1..NumSteps).complete
        BY <2>1, ConfigOf
    <2> QED
        BY <2>1, <2>2
<1> QED
    BY <1>1, <1>2, <1>3 DEF WizardOrder, AnsweredSoFar, Acknowledged

LEMMA WizardInitInv == Wizard!Init => WizardInv
<1> SUFFICES ASSUME Wizard!Init PROVE WizardOrder
    BY DEF WizardInv
<1> USE UpkeepLimits DEF Wizard!WizardLimits
<1>1. /\ index = 0 /\ done = {} /\ checkpoint = Wizard!NoFile /\ acked = {} /\ 0..NumSteps \subseteq Nat /\ 0 \in 0..NumSteps
      /\ \A c \in WizardCalls : wizardAt[c] = "idle"
      /\ 1..index = {}
    BY DEF Wizard!Init
<1>2. WizardTypes
    BY <1>1, NoCheckpoint DEF Wizard!Init, WizardTypes
<1>3. ~announced
    BY DEF Wizard!Init
<1> QED
    BY <1>1, <1>2, <1>3 DEF WizardOrder, OneKey, KeyInHand, AnsweredSoFar, Acknowledged, Straight

\* A key that is not pressed during a call finds every call idle.
LEMMA WizardKey ==
    ASSUME Wizard!Key, ~wizardOverlapped'
    PROVE  ~wizardOverlapped /\ \A c \in WizardCalls : wizardAt[c] = "idle"
BY DEF Wizard!Key, Wizard!Busy

\* A call that ends was the only one.
LEMMA WizardEnds ==
    ASSUME WizardTypes, OneKey, NEW c \in WizardCalls, wizardAt[c] # "idle", Wizard!Ends(c)
    PROVE  /\ wizardAt' \in [WizardCalls -> {"idle", "executing", "saving"}]
           /\ step' \in [WizardCalls -> 0..NumSteps] /\ config' \in [WizardCalls -> Wizard!Files]
           /\ OneKey' /\ KeyInHand'
<1> USE UpkeepLimits DEF Wizard!WizardLimits
<1>1. /\ wizardAt' \in [WizardCalls -> {"idle", "executing", "saving"}]
      /\ step' \in [WizardCalls -> 0..NumSteps] /\ config' \in [WizardCalls -> Wizard!Files]
    BY NoCheckpoint DEF WizardTypes, Wizard!Ends
<1>2. \A d \in WizardCalls : wizardAt'[d] = "idle"
    BY DEF WizardTypes, OneKey, Wizard!Ends
<1> QED
    BY <1>1, <1>2 DEF OneKey, KeyInHand

\* Call c, the only one, answers the step the wizard is at.
LEMMA WizardAnswers ==
    ASSUME WizardOrder, NEW c \in WizardCalls, \A d \in WizardCalls \ {c} : wizardAt[d] = "idle",
           index < NumSteps, NEW ends \in SUBSET (done \cup {index + 1}), done \subseteq ends,
           Wizard!Answers(c, index + 1, ends),
           step' \in [WizardCalls -> 0..NumSteps], step'[c] # 0 => step'[c] \in ends,
           UNCHANGED <<checkpoint, announced, acked, lost>>,
           ~strayed' => ~strayed /\ ends = done \cup {index + 1}
    PROVE  WizardOrder'
<1> USE UpkeepLimits DEF Wizard!WizardLimits
<1>1. /\ done' = ends /\ index' = index + 1 /\ answered' = answered \cup {index + 1}
      /\ wizardAt' = [wizardAt EXCEPT ![c] = "saving"]
      /\ config' = [config EXCEPT ![c] = Wizard!Config(index + 1, ends)]
    BY DEF Wizard!Answers
<1>2. index + 1 \in 0..NumSteps /\ ends \subseteq Wizard!Steps /\ 1..(index + 1) = 1..index \cup {index + 1} /\ index \in Nat
    BY DEF WizardOrder, WizardTypes, Wizard!Steps
<1>3. WizardTypes'
    <2>1. Wizard!Config(index + 1, ends) \in Wizard!Files
        BY <1>2, ConfigOf
    <2>2. /\ wizardAt' \in [WizardCalls -> {"idle", "executing", "saving"}]
          /\ config' \in [WizardCalls -> Wizard!Files]
        BY <1>1, <2>1 DEF WizardOrder, WizardTypes
    <2> QED
        BY <1>1, <1>2, <2>2 DEF WizardOrder, WizardTypes, Wizard!Steps, Wizard!Files
<1>4. OneKey' /\ KeyInHand'
    <2>1. /\ \A d \in WizardCalls \ {c} : wizardAt'[d] = "idle"
          /\ wizardAt'[c] = "saving" /\ config'[c] = Wizard!Config(index + 1, ends)
        BY <1>1 DEF WizardOrder, WizardTypes
    <2>2. config'[c] = Wizard!Config(index, done)'
        BY <1>1, <2>1 DEF Wizard!Config, Wizard!Complete, Wizard!Current
    <2> QED
        BY <1>1, <2>1, <2>2 DEF OneKey, KeyInHand
<1>5. AnsweredSoFar'
    BY <1>1, <1>2 DEF WizardOrder, AnsweredSoFar, Wizard!NoFile, Wizard!Config, Wizard!Complete, Wizard!Current
<1>6. Acknowledged'
    BY <1>1 DEF WizardOrder, Acknowledged
<1>7. Straight'
    <2> SUFFICES ASSUME ~strayed'
                 PROVE  /\ done' = 1..index'
                        /\ \/ checkpoint' = Wizard!NoFile
                           \/ \E i \in 0..NumSteps : checkpoint' = Wizard!Config(i, 1..i)
                        /\ ~announced'
        BY DEF Straight, Wizard!NoFile, Wizard!Config, Wizard!Complete, Wizard!Current
    <2>1. ~strayed /\ ends = done \cup {index + 1}
        OBVIOUS
    <2>2. /\ done = 1..index /\ index # NumSteps
          /\ checkpoint = Wizard!NoFile \/ \E i \in 0..NumSteps : checkpoint = Wizard!Config(i, 1..i)
        BY <1>2, <2>1 DEF WizardOrder, Straight
    <2>3. ~announced
        BY <2>1, <2>2 DEF WizardOrder, Straight
    <2> QED
        BY <1>1, <1>2, <2>1, <2>2, <2>3
<1> QED
    BY <1>3, <1>4, <1>5, <1>6, <1>7 DEF WizardOrder

\* The keys: next, back, skip, and the one that asks the handler of a step.
LEMMA WizardKeys ==
    ASSUME WizardInv, \/ Wizard!NextStep \/ Wizard!Back
                      \/ \E c \in WizardCalls : Wizard!Skip(c) \/ Wizard!Ask(c)
    PROVE  WizardInv'
<1> SUFFICES ASSUME ~wizardOverlapped' PROVE WizardOrder'
    BY DEF WizardInv
<1> USE UpkeepLimits DEF Wizard!WizardLimits
<1>0. WizardOrder /\ \A c \in WizardCalls : wizardAt[c] = "idle"
    BY WizardKey DEF Wizard!NextStep, Wizard!Back, Wizard!Skip, Wizard!Ask, WizardInv
<1>1. CASE Wizard!NextStep \/ Wizard!Back
    <2>1. /\ UNCHANGED <<done, checkpoint, wizardAt, step, config, acked, lost>> /\ strayed'
          /\ \/ index' = index + 1 /\ index < NumSteps /\ answered' = answered \cup {index + 1}
             \/ index' = index - 1 /\ index > 0 /\ answered' = answered
        <3>1. CASE Wizard!NextStep
            <4>1. ~Wizard!Complete(index)
                BY <3>1 DEF Wizard!NextStep
            <4>2. index < NumSteps /\ Wizard!Current(index) = index + 1
                BY <1>0, <4>1 DEF Wizard!Complete, Wizard!Current, WizardOrder, WizardTypes
            <4> QED
                BY <3>1, <4>2 DEF Wizard!NextStep, Wizard!procs
        <3>2. CASE Wizard!Back
            BY <3>2 DEF Wizard!Back, Wizard!procs
        <3> QED
            BY <1>1, <3>1, <3>2
    <2>2. index' \in 0..NumSteps /\ 1..index' \subseteq answered' /\ answered \subseteq answered'
        BY <1>0, <2>1 DEF WizardOrder, WizardTypes, AnsweredSoFar
    <2>3. WizardTypes'
        BY <1>0, <2>1, <2>2 DEF WizardOrder, WizardTypes, Wizard!Files, Wizard!Steps
    <2>4. OneKey' /\ KeyInHand'
        BY <1>0, <2>1 DEF OneKey, KeyInHand
    <2>5. AnsweredSoFar'
        BY <1>0, <2>1, <2>2 DEF WizardOrder, AnsweredSoFar, Wizard!NoFile, Wizard!Config, Wizard!Complete, Wizard!Current
    <2>6. Acknowledged' /\ Straight'
        BY <1>0, <2>1 DEF WizardOrder, Acknowledged, Straight
    <2> QED
        BY <2>3, <2>4, <2>5, <2>6 DEF WizardOrder
<1>2. ASSUME NEW c \in WizardCalls, Wizard!Skip(c) PROVE WizardOrder'
    <2>1. Wizard!Current(index) \in Skippable /\ Wizard!Current(index) \in Wizard!Steps
        BY <1>2 DEF Wizard!Skip
    <2>2. index < NumSteps /\ Wizard!Current(index) = index + 1 /\ done \subseteq Wizard!Steps
        BY <1>0, <2>1 DEF Wizard!Complete, Wizard!Current, Wizard!Steps, WizardOrder, WizardTypes
    <2>3. /\ Wizard!Answers(c, index + 1, done) /\ step' = [step EXCEPT ![c] = 0] /\ strayed'
          /\ UNCHANGED <<checkpoint, announced, acked, lost>>
        BY <1>2, <2>2 DEF Wizard!Skip
    <2>4. step' \in [WizardCalls -> 0..NumSteps] /\ step'[c] = 0
        BY <1>0, <2>3 DEF WizardOrder, WizardTypes
    <2> QED
        BY <1>0, <2>2, <2>3, <2>4, WizardAnswers
<1>3. ASSUME NEW c \in WizardCalls, Wizard!Ask(c) PROVE WizardOrder'
    <2>1. /\ Wizard!Current(index) # 0 /\ wizardAt' = [wizardAt EXCEPT ![c] = "executing"]
          /\ step' = [step EXCEPT ![c] = Wizard!Current(index)]
          /\ UNCHANGED <<index, done, checkpoint, config, announced, answered, acked, strayed, lost>>
        BY <1>3 DEF Wizard!Ask, Wizard!engine
    <2>2. index < NumSteps /\ Wizard!Current(index) = index + 1 /\ index + 1 \in 0..NumSteps
        BY <1>0, <2>1 DEF Wizard!Complete, Wizard!Current, WizardOrder, WizardTypes
    <2>3. /\ wizardAt' \in [WizardCalls -> {"idle", "executing", "saving"}] /\ step' \in [WizardCalls -> 0..NumSteps]
          /\ wizardAt'[c] = "executing" /\ step'[c] = index + 1
          /\ \A d \in WizardCalls \ {c} : wizardAt'[d] = "idle"
        BY <1>0, <2>1, <2>2 DEF WizardOrder, WizardTypes
    <2>4. WizardTypes'
        BY <1>0, <2>1, <2>3 DEF WizardOrder, WizardTypes, Wizard!Files, Wizard!Steps
    <2>5. OneKey' /\ KeyInHand'
        BY <2>1, <2>2, <2>3 DEF OneKey, KeyInHand
    <2>6. AnsweredSoFar' /\ Acknowledged' /\ Straight'
        BY <1>0, <2>1 DEF WizardOrder, AnsweredSoFar, Acknowledged, Straight, Wizard!NoFile, Wizard!Config,
                          Wizard!Complete, Wizard!Current
    <2> QED
        BY <2>4, <2>5, <2>6 DEF WizardOrder
<1> QED
    BY <1>1, <1>2, <1>3

\* The handler of the step has answered.
LEMMA WizardHandled ==
    ASSUME WizardInv, NEW c \in WizardCalls,
           Wizard!Completed(c) \/ Wizard!Skipped(c) \/ Wizard!SaidBack(c) \/ Wizard!Refused(c)
    PROVE  WizardInv'
<1> SUFFICES ASSUME ~wizardOverlapped' PROVE WizardOrder'
    BY DEF WizardInv
<1> USE UpkeepLimits DEF Wizard!WizardLimits
<1>0. WizardOrder /\ wizardAt[c] = "executing"
    BY DEF Wizard!Completed, Wizard!Skipped, Wizard!SaidBack, Wizard!Refused, Wizard!history, WizardInv
<1>1. /\ index < NumSteps /\ step[c] = index + 1 /\ \A d \in WizardCalls \ {c} : wizardAt[d] = "idle"
      /\ step \in [WizardCalls -> 0..NumSteps]
    BY <1>0 DEF WizardOrder, WizardTypes, OneKey, KeyInHand
<1>2. CASE Wizard!Completed(c)
    <2>1. /\ Wizard!Answers(c, index + 1, done \cup {index + 1})
          /\ UNCHANGED <<checkpoint, step, announced, acked, strayed, lost>>
        BY <1>1, <1>2 DEF Wizard!Completed
    <2>2. step' \in [WizardCalls -> 0..NumSteps] /\ step'[c] \in done \cup {index + 1}
        BY <1>1, <2>1
    <2> QED
        BY <1>0, <1>1, <2>1, <2>2, WizardAnswers
<1>3. CASE Wizard!Skipped(c)
    <2>1. /\ Wizard!Answers(c, index + 1, done) /\ step' = [step EXCEPT ![c] = 0] /\ strayed'
          /\ UNCHANGED <<checkpoint, announced, acked, lost>>
        BY <1>1, <1>3 DEF Wizard!Skipped
    <2>2. step' \in [WizardCalls -> 0..NumSteps] /\ step'[c] = 0
        BY <1>1, <2>1
    <2> QED
        BY <1>0, <1>1, <2>1, <2>2, WizardAnswers
<1>4. CASE Wizard!SaidBack(c) \/ Wizard!Refused(c)
    <2>1. /\ Wizard!Ends(c) /\ UNCHANGED <<done, checkpoint, answered, acked, announced, lost>>
          /\ index' \in 0..index /\ index \in 0..NumSteps
        <3>1. index \in 0..NumSteps
            BY <1>0 DEF WizardOrder, WizardTypes
        <3> QED
            BY <1>4, <3>1 DEF Wizard!SaidBack, Wizard!Refused, Wizard!engine, Wizard!history
    <2>2. ~strayed' => ~strayed /\ index' = index
        BY <1>4 DEF Wizard!SaidBack, Wizard!Refused, Wizard!engine, Wizard!history
    <2>3. /\ wizardAt' \in [WizardCalls -> {"idle", "executing", "saving"}]
          /\ step' \in [WizardCalls -> 0..NumSteps] /\ config' \in [WizardCalls -> Wizard!Files]
          /\ OneKey' /\ KeyInHand'
        BY <1>0, <2>1, WizardEnds DEF WizardOrder
    <2>4. WizardTypes'
        BY <1>0, <2>1, <2>3 DEF WizardOrder, WizardTypes, Wizard!Files, Wizard!Steps
    <2>5. AnsweredSoFar' /\ Acknowledged'
        <3>1. 1..index' \subseteq 1..index
            BY <2>1
        <3> QED
            BY <1>0, <2>1, <3>1 DEF WizardOrder, AnsweredSoFar, Acknowledged, Wizard!NoFile, Wizard!Config,
                                    Wizard!Complete, Wizard!Current
    <2>6. Straight'
        BY <1>0, <2>1, <2>2 DEF WizardOrder, Straight, Wizard!NoFile, Wizard!Config, Wizard!Complete, Wizard!Current
    <2> QED
        BY <2>3, <2>4, <2>5, <2>6 DEF WizardOrder
<1> QED
    BY <1>2, <1>3, <1>4

\* A checkpoint has been written, or has not.
LEMMA WizardSaved ==
    ASSUME WizardInv, NEW c \in WizardCalls, Wizard!Saved(c) \/ Wizard!SaveFails(c)
    PROVE  WizardInv'
<1> SUFFICES ASSUME ~wizardOverlapped' PROVE WizardOrder'
    BY DEF WizardInv
<1> USE UpkeepLimits DEF Wizard!WizardLimits
<1>0. WizardOrder /\ wizardAt[c] = "saving" /\ Wizard!Ends(c)
    BY DEF Wizard!Saved, Wizard!SaveFails, Wizard!history, WizardInv
<1>1. /\ UNCHANGED <<index, done, answered, strayed, lost>>
      /\ index \in 0..NumSteps /\ done \subseteq Wizard!Steps
    BY <1>0 DEF Wizard!Saved, Wizard!SaveFails, Wizard!engine, Wizard!history, WizardOrder, WizardTypes
<1>2. /\ wizardAt' \in [WizardCalls -> {"idle", "executing", "saving"}]
      /\ step' \in [WizardCalls -> 0..NumSteps] /\ config' \in [WizardCalls -> Wizard!Files]
      /\ OneKey' /\ KeyInHand'
    BY <1>0, WizardEnds DEF WizardOrder
<1>3. config[c] = Wizard!Config(index, done) /\ (step[c] # 0 => step[c] \in done)
    BY <1>0 DEF WizardOrder, KeyInHand
<1>4. CASE Wizard!Saved(c)
    <2>1. checkpoint' = Wizard!Config(index, done) /\ checkpoint'.done = done /\ checkpoint' \in Wizard!Files
        BY <1>1, <1>3, <1>4, ConfigOf DEF Wizard!Saved
    <2>2. acked' \subseteq acked \cup done /\ (announced' => announced \/ Wizard!Complete(index))
        BY <1>3, <1>4 DEF Wizard!Saved
    <2>3. WizardTypes'
        BY <1>1, <1>2, <2>1 DEF WizardTypes, Wizard!Files, Wizard!Steps
    <2>4. AnsweredSoFar'
        <3>1. 1..index \subseteq answered
            BY <1>0 DEF WizardOrder, AnsweredSoFar
        <3> QED
            BY <1>1, <2>1, <3>1 DEF AnsweredSoFar, Wizard!Config, Wizard!Complete, Wizard!Current
    <2>5. Acknowledged'
        BY <1>0, <1>1, <2>1, <2>2 DEF WizardOrder, Acknowledged
    <2>6. Straight'
        <3> SUFFICES ASSUME ~strayed'
                     PROVE  /\ done' = 1..index' /\ checkpoint' = Wizard!Config(index, 1..index)
                            /\ announced' => index' = NumSteps /\ checkpoint' = Wizard!Config(NumSteps, 1..NumSteps)
            BY <1>1 DEF Straight, Wizard!NoFile, Wizard!Config, Wizard!Complete, Wizard!Current
        <3>1. done = 1..index /\ (announced => index = NumSteps)
            BY <1>0, <1>1 DEF WizardOrder, Straight
        <3>2. Wizard!Complete(index) => index = NumSteps
            BY <1>1 DEF Wizard!Complete
        <3>3. announced' => index = NumSteps
            BY <2>2, <3>1, <3>2
        <3> QED
            BY <1>1, <2>1, <3>1, <3>3
    <2> QED
        BY <1>2, <2>3, <2>4, <2>5, <2>6 DEF WizardOrder
<1>5. CASE Wizard!SaveFails(c)
    <2>1. UNCHANGED <<checkpoint, announced, acked>>
        BY <1>5 DEF Wizard!SaveFails, Wizard!history
    <2>2. WizardTypes'
        BY <1>0, <1>1, <1>2, <2>1 DEF WizardOrder, WizardTypes, Wizard!Files, Wizard!Steps
    <2>3. AnsweredSoFar' /\ Acknowledged' /\ Straight'
        BY <1>0, <1>1, <2>1 DEF WizardOrder, AnsweredSoFar, Acknowledged, Straight, Wizard!NoFile, Wizard!Config,
                                Wizard!Complete, Wizard!Current
    <2> QED
        BY <1>2, <2>2, <2>3 DEF WizardOrder
<1> QED
    BY <1>4, <1>5

\* The program starts again, with a file that was there, that was being written, or
\* with none.
LEMMA WizardRestart == ASSUME WizardInv, Wizard!Restart PROVE WizardInv'
<1> SUFFICES ASSUME ~wizardOverlapped' PROVE WizardOrder'
    BY DEF WizardInv
<1> USE UpkeepLimits DEF Wizard!WizardLimits
<1>1. WizardOrder
    BY DEF Wizard!Restart, WizardInv
<1>2. PICK f \in {checkpoint} \cup {config[c] : c \in {d \in WizardCalls : wizardAt[d] = "saving"}} \cup {Wizard!NoFile} :
           /\ checkpoint' = f /\ index' = Wizard!ResumeIndex(f) /\ done' = f.done
           /\ lost' = (lost \/ ~(acked \subseteq f.done))
    BY DEF Wizard!Restart
<1>3. /\ UNCHANGED <<answered, acked, strayed>> /\ ~announced'
      /\ wizardAt' = [c \in WizardCalls |-> "idle"] /\ step' = [c \in WizardCalls |-> 0]
      /\ config' = [c \in WizardCalls |-> Wizard!NoFile]
    BY DEF Wizard!Restart
<1>4. \/ f = Wizard!NoFile
      \/ \E i \in 0..NumSteps : f = Wizard!Config(i, f.done) /\ 1..i \subseteq answered
    <2>1. ASSUME NEW c \in WizardCalls, wizardAt[c] = "saving", f = config[c]
          PROVE  index \in 0..NumSteps /\ f = Wizard!Config(index, f.done) /\ 1..index \subseteq answered
        <3>1. index \in 0..NumSteps /\ config[c] = Wizard!Config(index, done) /\ 1..index \subseteq answered
            BY <1>1, <2>1 DEF WizardOrder, WizardTypes, KeyInHand, AnsweredSoFar
        <3>2. f.done = done
            BY <2>1, <3>1, ConfigOf
        <3> QED
            BY <2>1, <3>1, <3>2
    <2>2. CASE f = checkpoint
        BY <1>1, <2>2 DEF WizardOrder, AnsweredSoFar
    <2> QED
        BY <1>2, <2>1, <2>2
<1>5. f \in Wizard!Files
    BY <1>1, <1>2, NoCheckpoint DEF WizardOrder, WizardTypes
<1>6. index' \in 0..NumSteps /\ 1..index' \subseteq answered
    <2>1. CASE f = Wizard!NoFile
        <3>1. index' = 0
            BY <1>2, <2>1, NoCheckpoint
        <3> QED
            BY <3>1
    <2>2. CASE \E i \in 0..NumSteps : f = Wizard!Config(i, f.done) /\ 1..i \subseteq answered
        <3>1. PICK i \in 0..NumSteps : f = Wizard!Config(i, f.done) /\ 1..i \subseteq answered
            BY <2>2
        <3>2. index' = i
            BY <1>2, <3>1, ConfigOf
        <3> QED
            BY <3>1, <3>2
    <2> QED
        BY <1>4, <2>1, <2>2
<1>7. WizardTypes'
    <2>1. done' \subseteq Wizard!Steps
        BY <1>2, <1>5 DEF Wizard!Files
    <2>2. /\ wizardAt' \in [WizardCalls -> {"idle", "executing", "saving"}]
          /\ step' \in [WizardCalls -> 0..NumSteps] /\ config' \in [WizardCalls -> Wizard!Files]
        BY <1>3, NoCheckpoint
    <2> QED
        BY <1>2, <1>5, <1>6, <2>1, <2>2 DEF WizardTypes, Wizard!Files, Wizard!Steps
<1>8. OneKey' /\ KeyInHand'
    BY <1>3 DEF OneKey, KeyInHand
<1>9. AnsweredSoFar'
    BY <1>2, <1>3, <1>4, <1>6 DEF AnsweredSoFar, Wizard!NoFile, Wizard!Config, Wizard!Complete, Wizard!Current
<1>10. Acknowledged'
    BY <1>2, <1>3 DEF Acknowledged
<1>11. Straight'
    <2> SUFFICES ASSUME ~strayed
                 PROVE  /\ done' = 1..index'
                        /\ f = Wizard!NoFile \/ \E i \in 0..NumSteps : f = Wizard!Config(i, 1..i)
        BY <1>2, <1>3 DEF Straight, Wizard!NoFile, Wizard!Config, Wizard!Complete, Wizard!Current
    <2>1. f = Wizard!NoFile \/ \E i \in 0..NumSteps : f = Wizard!Config(i, 1..i)
        <3>1. ASSUME NEW c \in WizardCalls, wizardAt[c] = "saving", f = config[c]
              PROVE  index \in 0..NumSteps /\ f = Wizard!Config(index, 1..index)
            BY <1>1, <3>1 DEF WizardOrder, WizardTypes, KeyInHand, Straight
        <3>2. CASE f = checkpoint
            BY <1>1, <3>2 DEF WizardOrder, Straight
        <3> QED
            BY <1>2, <3>1, <3>2
    <2>2. CASE f = Wizard!NoFile
        <3>1. index' = 0 /\ done' = {}
            BY <1>2, <2>2, NoCheckpoint
        <3> QED
            BY <2>1, <3>1
    <2>3. CASE \E i \in 0..NumSteps : f = Wizard!Config(i, 1..i)
        <3>1. PICK i \in 0..NumSteps : f = Wizard!Config(i, 1..i)
            BY <2>3
        <3>2. index' = i /\ done' = 1..i
            BY <1>2, <3>1, ConfigOf
        <3> QED
            BY <2>1, <3>2
    <2> QED
        BY <2>1, <2>2, <2>3
<1> QED
    BY <1>7, <1>8, <1>9, <1>10, <1>11 DEF WizardOrder

LEMMA WizardNextInv == WizardInv /\ [Wizard!Next]_wizardVars => WizardInv'
<1> SUFFICES ASSUME WizardInv, [Wizard!Next]_wizardVars PROVE WizardInv'
    OBVIOUS
<1>1. CASE UNCHANGED wizardVars
    BY <1>1 DEF wizardVars, WizardInv, WizardOrder, WizardTypes, OneKey, KeyInHand, AnsweredSoFar, Acknowledged, Straight,
                Wizard!Files, Wizard!Steps, Wizard!NoFile, Wizard!Config, Wizard!Complete, Wizard!Current
<1>2. CASE Wizard!Next
    BY <1>2, WizardKeys, WizardHandled, WizardSaved, WizardRestart DEF Wizard!Next
<1> QED
    BY <1>1, <1>2

-----------------------------------------------------------------------------
(* SkillInstall: as long as no two installs overlap, the directory holds   *)
(* what the one in progress has put in place, or what was there when it    *)
(* began, and only a migration in progress has taken over the callback.    *)

InstallTypes ==
    /\ form \in [Install!Versions -> {"native", "foreign", "invalid"}]
    /\ files \in [Install!Versions -> SUBSET Install!Files] /\ dir \in [Install!Files -> 0..MaxVersion]
    /\ installAt \in [InstallCalls -> {"idle", "extracted", "converting", "copying", "migrated"}]
    /\ want \in [InstallCalls -> 0..MaxVersion] /\ placed \in [InstallCalls -> SUBSET Install!Files]
    /\ progress \in Seq(InstallCalls) /\ prev \in [InstallCalls -> Seq(InstallCalls)]
    /\ good \in 0..MaxVersion

Migrating(c) == installAt[c] \in {"converting", "migrated"}
Placing(c) == installAt[c] \in {"converting", "migrated", "copying"}

OneInstall == \A c, d \in InstallCalls : installAt[c] # "idle" /\ installAt[d] # "idle" => c = d

InPlace ==
    \A c \in InstallCalls :
        /\ installAt[c] # "idle" => want[c] \in Install!Versions
        /\ installAt[c] \in {"idle", "extracted"} => placed[c] = {}
        /\ Placing(c) =>
               /\ good = 0 /\ placed[c] \subseteq Install!Result(want[c])
               /\ \A f \in Install!Files : dir[f] = IF f \in placed[c] THEN want[c] ELSE 0

Callback ==
    /\ \A c \in InstallCalls : Migrating(c) => prev[c] = <<>>
    /\ (\A c \in InstallCalls : ~Migrating(c)) => progress = <<>>

OneVersion ==
    /\ good # 0 => dir = Install!Contents(good)
    /\ \A f, g \in Install!Files : dir[f] # 0 /\ dir[g] # 0 => dir[f] = dir[g]

InstallOrder == InstallTypes /\ OneInstall /\ InPlace /\ Callback /\ OneVersion
InstallInv == ~installOverlapped => InstallOrder

LEMMA InstallInvHolds == InstallInv => Install!InstallHeld
BY DEF InstallInv, InstallOrder, OneVersion, Callback, Migrating, Install!InstallHeld

LEMMA InstallInitInv == Install!Init => InstallInv
<1> SUFFICES ASSUME Install!Init PROVE InstallOrder
    BY DEF InstallInv
<1> USE UpkeepLimits DEF Install!InstallLimits
<1>1. /\ installAt = [c \in InstallCalls |-> "idle"] /\ want = [c \in InstallCalls |-> 0]
      /\ placed = [c \in InstallCalls |-> {}] /\ progress = <<>> /\ prev = [c \in InstallCalls |-> <<>>]
      /\ dir = [f \in Install!Files |-> 0] /\ good = 0
    BY DEF Install!Init, Install!Empty
<1>2. InstallTypes
    BY <1>1 DEF Install!Init, InstallTypes
<1>3. OneInstall /\ InPlace /\ Callback /\ OneVersion
    BY <1>1 DEF OneInstall, InPlace, Callback, OneVersion, Migrating, Placing
<1> QED
    BY <1>2, <1>3 DEF InstallOrder

\* An install begins; alone, when none overlap.
LEMMA InstallStart ==
    ASSUME InstallInv, NEW c \in InstallCalls, NEW v \in Install!Versions, Install!Start(c, v)
    PROVE  InstallInv'
<1> SUFFICES ASSUME ~installOverlapped' PROVE InstallOrder'
    BY DEF InstallInv
<1> USE UpkeepLimits DEF Install!InstallLimits
<1>1. /\ InstallOrder /\ \A d \in InstallCalls : installAt[d] = "idle"
      /\ installAt' = [installAt EXCEPT ![c] = "extracted"] /\ want' = [want EXCEPT ![c] = v]
      /\ UNCHANGED <<form, files, dir, placed, progress, prev, good>>
    BY DEF Install!Start, Install!package, InstallInv
<1>2. /\ installAt' \in [InstallCalls -> {"idle", "extracted", "converting", "copying", "migrated"}]
      /\ want' \in [InstallCalls -> 0..MaxVersion] /\ installAt'[c] = "extracted" /\ want'[c] = v
      /\ \A d \in InstallCalls \ {c} : installAt'[d] = "idle"
    BY <1>1 DEF InstallOrder, InstallTypes, Install!Versions
<1>3. InstallTypes'
    BY <1>1, <1>2 DEF InstallOrder, InstallTypes, Install!Versions, Install!Files
<1>4. OneInstall' /\ Callback'
    BY <1>1, <1>2 DEF InstallOrder, OneInstall, Callback, Migrating
<1>5. InPlace'
    BY <1>1, <1>2 DEF InstallOrder, InPlace, Placing, Install!Versions
<1>6. OneVersion'
    BY <1>1 DEF InstallOrder, OneVersion, Install!Contents, Install!Files, Install!Result
<1> QED
    BY <1>3, <1>4, <1>5, <1>6 DEF InstallOrder

\* What is installed is removed.
LEMMA InstallPrepare ==
    ASSUME InstallInv, NEW c \in InstallCalls, Install!Prepare(c) PROVE InstallInv'
<1> SUFFICES ASSUME ~installOverlapped' PROVE InstallOrder'
    BY DEF InstallInv
<1> USE UpkeepLimits DEF Install!InstallLimits
<1>1. InstallOrder /\ installAt[c] = "extracted" /\ dir' = [f \in Install!Files |-> 0] /\ good' = 0
    BY DEF Install!Prepare, Install!Empty, InstallInv
<1>2. /\ \A d \in InstallCalls \ {c} : installAt[d] = "idle"
      /\ want[c] \in Install!Versions /\ placed[c] = {} /\ progress = <<>>
    BY <1>1 DEF InstallOrder, OneInstall, InPlace, Callback, Migrating
<1>3. /\ UNCHANGED <<form, files, want, placed>>
      /\ \/ /\ installAt' = [installAt EXCEPT ![c] = "converting"]
            /\ prev' = [prev EXCEPT ![c] = progress] /\ progress' = <<c>> \o progress
         \/ installAt' = [installAt EXCEPT ![c] = "copying"] /\ UNCHANGED <<progress, prev>>
    BY DEF Install!Prepare, Install!package
<1>4. /\ installAt' \in [InstallCalls -> {"idle", "extracted", "converting", "copying", "migrated"}]
      /\ progress' \in Seq(InstallCalls) /\ prev' \in [InstallCalls -> Seq(InstallCalls)]
      /\ \A d \in InstallCalls \ {c} : installAt'[d] = "idle"
      /\ installAt'[c] \in {"converting", "copying"}
      /\ installAt'[c] = "converting" => prev'[c] = <<>>
      /\ installAt'[c] = "copying" => progress' = <<>>
    <2>1. CASE installAt' = [installAt EXCEPT ![c] = "copying"] /\ UNCHANGED <<progress, prev>>
        BY <1>1, <1>2, <2>1 DEF InstallOrder, InstallTypes
    <2>2. CASE /\ installAt' = [installAt EXCEPT ![c] = "converting"]
               /\ prev' = [prev EXCEPT ![c] = progress] /\ progress' = <<c>> \o progress
        <3>1. <<c>> \o progress \in Seq(InstallCalls)
            BY <1>1 DEF InstallOrder, InstallTypes
        <3> QED
            BY <1>1, <1>2, <2>2, <3>1 DEF InstallOrder, InstallTypes
    <2> QED
        BY <1>3, <2>1, <2>2
<1>5. InstallTypes'
    <2>1. dir' \in [Install!Files -> 0..MaxVersion] /\ good' \in 0..MaxVersion
        BY <1>1
    <2> QED
        BY <1>1, <1>3, <1>4, <2>1 DEF InstallOrder, InstallTypes, Install!Versions, Install!Files
<1>6. OneInstall' /\ Callback'
    BY <1>4 DEF OneInstall, Callback, Migrating
<1>7. InPlace'
    BY <1>1, <1>2, <1>3, <1>4 DEF InstallOrder, InPlace, Placing, Install!Versions
<1>8. OneVersion'
    BY <1>1 DEF OneVersion
<1> QED
    BY <1>5, <1>6, <1>7, <1>8 DEF InstallOrder

LEMMA InstallConvert ==
    ASSUME InstallInv, NEW c \in InstallCalls, Install!Convert(c) PROVE InstallInv'
<1> SUFFICES ASSUME ~installOverlapped' PROVE InstallOrder'
    BY DEF InstallInv
<1>1. /\ InstallOrder /\ installAt[c] = "converting" /\ installAt' = [installAt EXCEPT ![c] = "migrated"]
      /\ UNCHANGED <<form, files, dir, want, placed, progress, prev, good>>
    BY DEF Install!Convert, Install!package, InstallInv
<1>2. /\ installAt' \in [InstallCalls -> {"idle", "extracted", "converting", "copying", "migrated"}]
      /\ installAt'[c] = "migrated" /\ \A d \in InstallCalls \ {c} : installAt'[d] = installAt[d]
    BY <1>1 DEF InstallOrder, InstallTypes
<1>3. InstallTypes'
    BY <1>1, <1>2 DEF InstallOrder, InstallTypes, Install!Versions, Install!Files
<1>4. OneInstall'
    BY <1>1, <1>2 DEF InstallOrder, OneInstall
<1>5. Callback'
    <2>1. Migrating(c) /\ Migrating(c)' /\ prev[c] = <<>>
        BY <1>1, <1>2 DEF InstallOrder, Callback, Migrating
    <2> QED
        BY <1>1, <1>2, <2>1 DEF InstallOrder, Callback, Migrating
<1>6. InPlace'
    BY <1>1, <1>2 DEF InstallOrder, InPlace, Placing, Install!Versions, Install!Result, Install!Files
<1>7. OneVersion'
    BY <1>1 DEF InstallOrder, OneVersion, Install!Contents, Install!Files, Install!Result
<1> QED
    BY <1>3, <1>4, <1>5, <1>6, <1>7 DEF InstallOrder

LEMMA InstallPlace ==
    ASSUME InstallInv, NEW c \in InstallCalls, NEW f \in Install!Files, Install!Place(c, f)
    PROVE  InstallInv'
<1> SUFFICES ASSUME ~installOverlapped' PROVE InstallOrder'
    BY DEF InstallInv
<1>1. /\ InstallOrder /\ installAt[c] \in {"migrated", "copying"} /\ f \in Install!Result(want[c])
      /\ dir' = [dir EXCEPT ![f] = want[c]] /\ placed' = [placed EXCEPT ![c] = placed[c] \cup {f}]
      /\ UNCHANGED <<form, files, installAt, want, progress, prev, good>>
    BY DEF Install!Place, Install!package, InstallInv
<1>2. /\ want[c] \in Install!Versions /\ good = 0 /\ placed[c] \subseteq Install!Result(want[c])
      /\ \A g \in Install!Files : dir[g] = IF g \in placed[c] THEN want[c] ELSE 0
      /\ \A d \in InstallCalls \ {c} : installAt[d] = "idle"
    BY <1>1 DEF InstallOrder, OneInstall, InPlace, Placing
<1>3. /\ placed' \in [InstallCalls -> SUBSET Install!Files] /\ dir' \in [Install!Files -> 0..MaxVersion]
      /\ placed'[c] = placed[c] \cup {f} /\ \A d \in InstallCalls \ {c} : placed'[d] = placed[d]
      /\ \A g \in Install!Files : dir'[g] = IF g \in placed'[c] THEN want[c] ELSE 0
    BY <1>1, <1>2 DEF InstallOrder, InstallTypes
<1>4. InstallTypes'
    BY <1>1, <1>3 DEF InstallOrder, InstallTypes, Install!Versions, Install!Files
<1>5. OneInstall' /\ Callback'
    BY <1>1 DEF InstallOrder, OneInstall, Callback, Migrating
<1>6. InPlace'
    <2>1. Install!Result(want[c])' = Install!Result(want[c])
        BY <1>1 DEF Install!Result
    <2> QED
        BY <1>1, <1>2, <1>3, <2>1 DEF InstallOrder, InPlace, Placing, Install!Versions, Install!Files, Install!Result
<1>7. OneVersion'
    BY <1>1, <1>2, <1>3 DEF OneVersion, Install!Files
<1> QED
    BY <1>4, <1>5, <1>6, <1>7 DEF InstallOrder

\* An install ends: it was the only one, and gives the callback back.
LEMMA InstallEnds ==
    ASSUME InstallOrder, NEW c \in InstallCalls, installAt[c] # "idle", Install!Ends(c), UNCHANGED <<form, files, dir>>,
           good' \in 0..MaxVersion, good' # 0 => dir = Install!Contents(good')
    PROVE  InstallOrder'
<1> USE UpkeepLimits DEF Install!InstallLimits
<1>1. /\ \A d \in InstallCalls : installAt'[d] = "idle" /\ placed'[d] = {}
      /\ installAt' \in [InstallCalls -> {"idle", "extracted", "converting", "copying", "migrated"}]
      /\ want' \in [InstallCalls -> 0..MaxVersion] /\ placed' \in [InstallCalls -> SUBSET Install!Files]
    BY DEF InstallOrder, InstallTypes, OneInstall, InPlace, Install!Ends
<1>2. progress' = <<>> /\ prev' \in [InstallCalls -> Seq(InstallCalls)] /\ <<>> \in Seq(InstallCalls)
    <2>1. prev' \in [InstallCalls -> Seq(InstallCalls)] /\ <<>> \in Seq(InstallCalls)
        BY DEF InstallOrder, InstallTypes, Install!Ends
    <2>2. CASE Migrating(c)
        BY <2>1, <2>2 DEF InstallOrder, Callback, Migrating, Install!Ends
    <2>3. CASE ~Migrating(c)
        <3>1. \A d \in InstallCalls : ~Migrating(d)
            BY <2>3 DEF InstallOrder, OneInstall, Migrating
        <3> QED
            BY <2>1, <2>3, <3>1 DEF InstallOrder, Callback, Migrating, Install!Ends
    <2> QED
        BY <2>2, <2>3
<1>3. InstallTypes'
    BY <1>1, <1>2 DEF InstallOrder, InstallTypes, Install!Versions, Install!Files
<1>4. OneInstall' /\ InPlace' /\ Callback'
    BY <1>1, <1>2 DEF OneInstall, InPlace, Callback, Migrating, Placing
<1>5. OneVersion'
    <2>1. good' # 0 => dir' = Install!Contents(good)'
        BY DEF Install!Contents, Install!Result, Install!Files
    <2> QED
        BY <2>1 DEF InstallOrder, OneVersion, Install!Files
<1> QED
    BY <1>3, <1>4, <1>5 DEF InstallOrder

LEMMA InstallDone ==
    ASSUME InstallInv, NEW c \in InstallCalls, Install!Done(c) \/ Install!Fails(c)
    PROVE  InstallInv'
<1> SUFFICES ASSUME ~installOverlapped' PROVE InstallOrder'
    BY DEF InstallInv
<1> USE UpkeepLimits DEF Install!InstallLimits
<1>1. InstallOrder /\ Install!Ends(c) /\ UNCHANGED <<form, files, dir>>
    BY DEF Install!Done, Install!Fails, Install!package, InstallInv
<1>2. CASE Install!Fails(c)
    <2>1. installAt[c] # "idle" /\ good' = good
        BY <1>2 DEF Install!Fails
    <2>2. good \in 0..MaxVersion /\ (good # 0 => dir = Install!Contents(good))
        BY <1>1 DEF InstallOrder, InstallTypes, OneVersion
    <2> QED
        BY <1>1, <2>1, <2>2, InstallEnds
<1>3. CASE Install!Done(c)
    <2>1. placed[c] # {} /\ placed[c] = Install!Result(want[c]) /\ good' = want[c]
        BY <1>3 DEF Install!Done
    <2>2. Placing(c) /\ installAt[c] # "idle"
        BY <1>1, <2>1 DEF InstallOrder, InstallTypes, InPlace, Placing
    <2>3. /\ want[c] \in 0..MaxVersion /\ dir \in [Install!Files -> 0..MaxVersion]
          /\ \A f \in Install!Files : dir[f] = IF f \in placed[c] THEN want[c] ELSE 0
        BY <1>1, <2>2 DEF InstallOrder, InstallTypes, InPlace
    <2>4. dir = [f \in Install!Files |-> IF f \in Install!Result(want[c]) THEN want[c] ELSE 0]
        BY <2>1, <2>3
    <2>5. dir = Install!Contents(want[c])
        BY <2>4 DEF Install!Contents
    <2> QED
        BY <1>1, <2>1, <2>2, <2>3, <2>5, InstallEnds
<1> QED
    BY <1>2, <1>3

LEMMA InstallRestart == ASSUME InstallInv, Install!Restart PROVE InstallInv'
<1> SUFFICES ASSUME ~installOverlapped' PROVE InstallOrder'
    BY DEF InstallInv
<1> USE UpkeepLimits DEF Install!InstallLimits
<1>1. /\ InstallOrder /\ UNCHANGED <<form, files, dir, good>>
      /\ installAt' = [c \in InstallCalls |-> "idle"] /\ want' = [c \in InstallCalls |-> 0]
      /\ placed' = [c \in InstallCalls |-> {}] /\ prev' = [c \in InstallCalls |-> <<>>] /\ progress' = <<>>
    BY DEF Install!Restart, Install!package, InstallInv
<1>2. InstallTypes'
    BY <1>1 DEF InstallOrder, InstallTypes, Install!Versions, Install!Files
<1>3. OneInstall' /\ InPlace' /\ Callback'
    BY <1>1 DEF OneInstall, InPlace, Callback, Migrating, Placing
<1>4. OneVersion'
    BY <1>1 DEF InstallOrder, OneVersion, Install!Contents, Install!Files, Install!Result
<1> QED
    BY <1>2, <1>3, <1>4 DEF InstallOrder

LEMMA InstallNextInv == InstallInv /\ [Install!Next]_installVars => InstallInv'
<1> SUFFICES ASSUME InstallInv, [Install!Next]_installVars PROVE InstallInv'
    OBVIOUS
<1>1. CASE UNCHANGED installVars
    BY <1>1 DEF installVars, InstallInv, InstallOrder, InstallTypes, OneInstall, InPlace, Callback, OneVersion, Migrating,
                Placing, Install!Versions, Install!Files, Install!Result, Install!Contents
<1>2. CASE Install!Next
    BY <1>2, InstallStart, InstallPrepare, InstallConvert, InstallPlace, InstallDone, InstallRestart DEF Install!Next
<1> QED
    BY <1>1, <1>2

-----------------------------------------------------------------------------
(* Consolidation: what the merge makes of the records is kept of each fact  *)
(* merged, one after the other; and while it is written, what is not yet    *)
(* written of it is a record that is to be created, all later ones with it, *)
(* or says of a record only that it is not superseded yet.                  *)

ConsTexts == {TextA, TextB, TextC}
ConsIds == Consolidating!Ids
ConsEntry ==
    [text : ConsTexts \cup {NoText}, supersedes : 0..MaxLtm, by : 0..MaxLtm, updated : 0..MaxRuns]
ConsMerge ==
    [view : [ConsIds -> ConsEntry], created : Seq(ConsIds), updated : Seq(ConsIds),
     superseded : Seq(ConsIds), next : 1..(MaxLtm + 1), skipped : SUBSET ConsTexts]
ConsFact == [text : ConsTexts, from : SUBSET Consolidating!Records]
Members(s) == {s[k] : k \in 1..Len(s)}

\* Records v of which those from n on are free: a superseded one names the one that
\* supersedes it, and a text that is there twice was superseded before the second.
Backed(v) == \A i \in ConsIds : v[i].by # 0 => v[v[i].by].supersedes = i
Single(v) ==
    \A i, j \in ConsIds : i < j /\ v[i].text = v[j].text /\ v[j].text # NoText
                            => \E k \in 1..(j - 1) : v[k].supersedes = i
Blank(v, n) == \A i \in ConsIds : i >= n => v[i] = Consolidating!NoEntry
Sound(v, n) == Backed(v) /\ Single(v) /\ Blank(v, n)

\* A merge under way: what it has of the records that were there, and what it lists.
MergeKeeps(m) ==
    /\ \A i \in ConsIds : i < nextId => m.view[i].text = ltm[i].text /\ m.view[i].supersedes = ltm[i].supersedes
    /\ \A i \in ConsIds : i < nextId /\ i \notin Members(m.updated) \cup Members(m.superseded) => m.view[i] = ltm[i]
    /\ \A i \in Members(m.updated) \cup Members(m.superseded) : i < m.next /\ (i < nextId => ltm[i].by = 0)
    /\ \A i \in ConsIds : i >= nextId \/ i \in Members(m.updated) => i \in Members(m.superseded) \/ m.view[i].by = 0
MergeLists(m) ==
    m.next = nextId + Len(m.created) /\ \A k \in 1..Len(m.created) : m.created[k] = nextId + k - 1
MergeKnows(m, n) ==
    /\ m.next <= nextId + n
    /\ \A k \in 1..n : facts[k].text \in m.skipped \cup {m.view[i].text : i \in ConsIds}
MergeGood(m, n) ==
    m \in ConsMerge /\ Sound(m.view, m.next) /\ MergeKeeps(m) /\ MergeLists(m) /\ MergeKnows(m, n)

\* Of the result while it is written: a record has what the merge made of it but for
\* who supersedes it, or is still to be created, and so are all that come later.
ConsListed(m) == Members(m.created) \cup Members(m.updated) \cup Members(m.superseded)
ToWrite(m, next, fs) ==
    /\ m \in ConsMerge /\ Sound(m.view, m.next) /\ next = m.next
    /\ \A k, l \in 1..Len(m.created) : k < l => m.created[k] < m.created[l]
    /\ \A i \in ConsListed(m) : i < m.next /\ (i \in Members(m.superseded) \/ m.view[i].by = 0)
    /\ \A k \in 1..Len(fs) : fs[k].text \in m.skipped \cup {m.view[i].text : i \in ConsIds}
AsMerged(v, m, i) == v[i].text = m.view[i].text /\ v[i].supersedes = m.view[i].supersedes
HalfWritten(v, m) ==
    /\ \A i \in ConsIds : v[i].by \in {0, m.view[i].by} /\ (v[i].by # 0 => AsMerged(v, m, v[i].by))
    /\ \A i \in ConsIds : AsMerged(v, m, i) \/ (i \in Members(m.created) /\ v[i] = Consolidating!NoEntry)
    /\ \A i \in ConsIds : i \in ConsListed(m) \/ v[i] = m.view[i]
    /\ \A i, j \in ConsIds : i < j /\ v[j].text # NoText => AsMerged(v, m, i)
WrittenSoFar(v, m, w, n) ==
    /\ n \in Nat
    /\ \A k \in 1..n :
            /\ AsMerged(v, m, w[k].id) /\ v[w[k].id].updated = m.view[w[k].id].updated
            /\ k > Len(m.created) + Len(m.updated) => v[w[k].id].by = m.view[w[k].id].by
TextsOf(v) == {v[i].text : i \in ConsIds}
\* What there is to write.
WritesOf(m, w) ==
    /\ Len(w) = Len(m.created) + Len(m.updated) + Len(m.superseded)
    /\ \A n \in 1..Len(w) :
            /\ w[n].id \in ConsListed(m) /\ w[n].entry \in ConsEntry
            /\ w[n].entry.text = m.view[w[n].id].text /\ w[n].entry.supersedes = m.view[w[n].id].supersedes
            /\ w[n].entry.updated = m.view[w[n].id].updated
            /\ w[n].entry.by = IF n <= Len(m.created) + Len(m.updated) THEN 0 ELSE m.view[w[n].id].by
            /\ n <= Len(m.created) => w[n].id = m.created[n]
    /\ \A i \in ConsListed(m) : \E n \in 1..Len(w) : w[n].id = i
    /\ \A i \in Members(m.superseded) :
            \E n \in 1..Len(w) : n > Len(m.created) + Len(m.updated) /\ w[n].id = i

\* The candidates and the run.
ConsCandidates ==
    /\ stm \subseteq Consolidating!Records /\ resting \subseteq Consolidating!Records
    /\ batch \subseteq Consolidating!Records
    /\ status \in [Consolidating!Records -> {"none", "processing", "consolidated", "failed", "skipped"}]
    /\ retries \in [Consolidating!Records -> 0..MaxRetries]
    /\ \A r \in Consolidating!Records :
            /\ status[r] # "skipped" => retries[r] < MaxRetries
            /\ status[r] = "processing" => r \in batch \/ thrown
    /\ thrown \in BOOLEAN
ConsRunning ==
    /\ phase \in {"idle", "distilling", "merging", "writing"} /\ attempt \in 0..Attempts /\ runs \in 0..MaxRuns
    /\ nextId \in 1..(MaxLtm + 1)
    /\ phase = "idle" => batch = {}
    /\ phase \in {"merging", "writing"} => facts \in Seq(ConsFact)
    /\ phase = "merging" => nextId + Len(facts) <= MaxLtm + 1
ConsKnown ==
    /\ ltm \in [ConsIds -> ConsEntry] /\ Sound(ltm, nextId)
    /\ told \subseteq ConsTexts /\ told \subseteq {ltm[i].text : i \in ConsIds}
ConsInv ==
    /\ ConsCandidates /\ ConsRunning /\ ConsKnown
    /\ phase = "writing" => /\ ToWrite(merged, nextId, facts) /\ HalfWritten(ltm, merged)
                            /\ WrittenSoFar(ltm, merged, Consolidating!Writes, written)

LEMMA ConsBounds ==
    /\ NoText \notin ConsTexts /\ ConsIds = 1..MaxLtm /\ MaxLtm \in Nat /\ MaxRuns \in Nat /\ MaxFacts \in Nat
    /\ MaxRecords \in Nat /\ BatchSize \in Nat /\ MaxRetries \in Nat \ {0} /\ Attempts \in Nat \ {0}
BY UpkeepLimits DEF Consolidating!ConsolidationLimits, ConsTexts, ConsIds, Consolidating!Ids

LEMMA GreatestNumber ==
    ASSUME NEW T, T \subseteq Nat, T # {}, NEW b \in Nat, \A n \in T : n <= b
    PROVE  \E n \in T : \A m \in T : m <= n
<1> DEFINE U == {b - n : n \in T}
<1>1. U \subseteq Nat /\ U # {}
    <2>1. \A n \in T : b - n \in Nat
        OBVIOUS
    <2> QED
        BY <2>1
<1>2. PICK u \in U : \A w \in U : u <= w
    BY <1>1, LeastNumber
<1>3. PICK n \in T : u = b - n
    BY <1>2
<1>4. ASSUME NEW m \in T PROVE m <= n
    <2>1. u <= b - m
        BY <1>2
    <2> QED
        BY <1>3, <2>1
<1> QED
    BY <1>4

LEMMA ConsMin == ASSUME NEW S \in SUBSET ConsIds, S # {} PROVE Consolidating!Min(S) \in S
<1>1. S \subseteq Nat
    BY ConsBounds
<1>2. \E x \in S : \A y \in S : x <= y
    BY <1>1, LeastNumber
<1> QED
    BY <1>2, Zenon DEF Consolidating!Min

LEMMA ConsLatest ==
    ASSUME NEW m \in ConsMerge, NEW S \in SUBSET ConsIds, S # {}
    PROVE  Consolidating!Latest(m, S) \in S
<1> DEFINE T == {m.view[i].updated : i \in S}
           L == {i \in S : \A j \in S : m.view[j].updated <= m.view[i].updated}
<1>1. \A i \in S : m.view[i].updated \in 0..MaxRuns
    BY DEF ConsMerge, ConsEntry
<1>2. T \subseteq Nat /\ T # {} /\ \A n \in T : n <= MaxRuns
    <2>1. \A i \in S : m.view[i].updated \in Nat /\ m.view[i].updated <= MaxRuns
        BY <1>1, ConsBounds
    <2>2. T # {}
        OBVIOUS
    <2> QED
        BY <2>1, <2>2
<1>3. PICK n \in T : \A k \in T : k <= n
    BY <1>2, ConsBounds, GreatestNumber
<1>4. L # {}
    BY <1>3
<1>5. Consolidating!Min(L) \in L
    BY <1>4, ConsMin
<1> QED
    BY <1>5 DEF Consolidating!Latest

LEMMA MembersAppend == ASSUME NEW S, NEW s \in Seq(S), NEW x \in S PROVE Members(Append(s, x)) = Members(s) \cup {x}
<1>1. Len(Append(s, x)) = Len(s) + 1 /\ Len(s) \in Nat
    OBVIOUS
<1>2. \A k \in 1..(Len(s) + 1) : Append(s, x)[k] = IF k = Len(s) + 1 THEN x ELSE s[k]
    OBVIOUS
<1> QED
    BY <1>1, <1>2 DEF Members

LEMMA MembersIn == ASSUME NEW S, NEW s \in Seq(S) PROVE Members(s) \in SUBSET S
BY DEF Members

LEMMA ConsMergeType ==
    ASSUME NEW m \in ConsMerge
    PROVE  /\ \A i \in ConsIds : /\ m.view[i] \in ConsEntry
                                /\ m.view[i].text \in ConsTexts \cup {NoText} /\ m.view[i].supersedes \in 0..MaxLtm
                                /\ m.view[i].by \in 0..MaxLtm /\ m.view[i].updated \in 0..MaxRuns
           /\ m.view \in [ConsIds -> ConsEntry]
           /\ m.created \in Seq(ConsIds) /\ m.updated \in Seq(ConsIds) /\ m.superseded \in Seq(ConsIds)
           /\ m.next \in 1..(MaxLtm + 1) /\ m.skipped \in SUBSET ConsTexts
<1>1. /\ m.view \in [ConsIds -> ConsEntry]
      /\ m.created \in Seq(ConsIds) /\ m.updated \in Seq(ConsIds) /\ m.superseded \in Seq(ConsIds)
      /\ m.next \in 1..(MaxLtm + 1) /\ m.skipped \in SUBSET ConsTexts
    BY DEF ConsMerge
<1>2. \A i \in ConsIds : m.view[i] \in ConsEntry
    BY <1>1
<1>3. \A e \in ConsEntry : /\ e.text \in ConsTexts \cup {NoText} /\ e.supersedes \in 0..MaxLtm
                           /\ e.by \in 0..MaxLtm /\ e.updated \in 0..MaxRuns
    BY DEF ConsEntry
<1> QED
    BY <1>1, <1>2, <1>3

LEMMA ConsFactText ==
    ASSUME facts \in Seq(ConsFact), NEW k \in 1..Len(facts) PROVE facts[k] \in ConsFact /\ facts[k].text \in ConsTexts
<1>1. facts[k] \in ConsFact
    OBVIOUS
<1>2. \A f \in ConsFact : f.text \in ConsTexts
    BY DEF ConsFact
<1> QED
    BY <1>1, <1>2

\* What a merge under way has said of a fact it still says when no text is lost.
LEMMA ConsKnows ==
    ASSUME NEW m, NEW r, NEW n \in Nat, MergeKnows(m, n), facts \in Seq(ConsFact), n + 1 <= Len(facts),
           r.next <= nextId + (n + 1), m.skipped \subseteq r.skipped,
           \A i \in ConsIds : m.view[i].text \in ConsTexts => r.view[i].text = m.view[i].text,
           facts[n + 1].text \in r.skipped \cup {r.view[i].text : i \in ConsIds}
    PROVE  MergeKnows(r, n + 1)
<1>1. ASSUME NEW k \in 1..(n + 1) PROVE facts[k].text \in r.skipped \cup {r.view[i].text : i \in ConsIds}
    <2>1. CASE k = n + 1
        BY <2>1
    <2>2. CASE k # n + 1
        <3>1. k \in 1..n /\ k \in 1..Len(facts)
            BY <2>2
        <3>2. facts[k].text \in ConsTexts
            BY <3>1, ConsFactText
        <3>3. CASE facts[k].text \in m.skipped
            BY <3>3
        <3>4. CASE facts[k].text \notin m.skipped
            <4>1. PICK i \in ConsIds : facts[k].text = m.view[i].text
                BY <3>1, <3>4 DEF MergeKnows
            <4> QED
                BY <4>1, <3>2
        <3> QED
            BY <3>3, <3>4
    <2> QED
        BY <2>1, <2>2
<1> QED
    BY <1>1 DEF MergeKnows

\* The fact is one of those that are known: its record is dated anew.
LEMMA ConsReinforces ==
    ASSUME NEW m, NEW n \in Nat, MergeGood(m, n), nextId \in 1..(MaxLtm + 1),
           facts \in Seq(ConsFact), n + 1 <= Len(facts),
           NEW i \in ConsIds, m.view[i].text = facts[n + 1].text, m.view[i].by = 0,
           NEW r \in ConsMerge, \A j \in ConsIds : j # i => r.view[j] = m.view[j],
           r.view[i].text = m.view[i].text, r.view[i].supersedes = m.view[i].supersedes, r.view[i].by = 0,
           r.created = m.created, r.superseded = m.superseded, r.next = m.next, r.skipped = m.skipped,
           Members(r.updated) = Members(m.updated) \cup {i}
    PROVE  MergeGood(r, n + 1)
<1>0. facts[n + 1].text \in ConsTexts
    BY ConsFactText
<1>1. /\ m \in ConsMerge /\ Backed(m.view) /\ Single(m.view) /\ Blank(m.view, m.next)
      /\ MergeKeeps(m) /\ MergeLists(m) /\ MergeKnows(m, n)
    BY DEF MergeGood, Sound
<1>2. /\ m.next \in 1..(MaxLtm + 1) /\ \A j \in ConsIds : m.view[j].by \in 0..MaxLtm
      /\ \A j \in ConsIds : r.view[j].by \in 0..MaxLtm
    BY <1>1, ConsMergeType
<1>3. \A j \in ConsIds : /\ r.view[j].text = m.view[j].text /\ r.view[j].supersedes = m.view[j].supersedes
                          /\ r.view[j].by = m.view[j].by
    OBVIOUS
<1>4. i < m.next
    <2>1. m.view[i].text # NoText
        BY <1>0, ConsBounds
    <2> QED
        BY <1>1, <1>2, <2>1, ConsBounds DEF Blank, Consolidating!NoEntry
<1>5. Backed(r.view)
    <2> SUFFICES ASSUME NEW j \in ConsIds, r.view[j].by # 0 PROVE r.view[r.view[j].by].supersedes = j
        BY DEF Backed
    <2>1. r.view[j].by \in ConsIds
        BY <1>2, ConsBounds
    <2>2. m.view[r.view[j].by].supersedes = j
        BY <1>1, <1>3 DEF Backed
    <2> QED
        BY <1>3, <2>1, <2>2
<1>6. Single(r.view)
    <2> SUFFICES ASSUME NEW j \in ConsIds, NEW k \in ConsIds, j < k, r.view[j].text = r.view[k].text,
                        r.view[k].text # NoText
                 PROVE  \E l \in 1..(k - 1) : r.view[l].supersedes = j
        BY DEF Single
    <2>1. PICK l \in 1..(k - 1) : m.view[l].supersedes = j
        BY <1>1, <1>3 DEF Single
    <2>2. l \in ConsIds
        BY ConsBounds
    <2> QED
        BY <1>3, <2>1, <2>2
<1>7. Blank(r.view, r.next)
    BY <1>1, <1>2, <1>4, ConsBounds DEF Blank
<1>8. MergeKeeps(r)
    <2>1. i < nextId => ltm[i].by = 0
        BY <1>1 DEF MergeKeeps
    <2>2. \A j \in ConsIds : j < nextId => r.view[j].text = ltm[j].text /\ r.view[j].supersedes = ltm[j].supersedes
        BY <1>1, <1>3 DEF MergeKeeps
    <2>3. \A j \in ConsIds : j < nextId /\ j \notin Members(r.updated) \cup Members(r.superseded) => r.view[j] = ltm[j]
        BY <1>1 DEF MergeKeeps
    <2>4. \A j \in Members(r.updated) \cup Members(r.superseded) : j < r.next /\ (j < nextId => ltm[j].by = 0)
        BY <1>1, <1>4, <2>1 DEF MergeKeeps
    <2>5. \A j \in ConsIds : j >= nextId \/ j \in Members(r.updated) => j \in Members(r.superseded) \/ r.view[j].by = 0
        BY <1>1, <1>3 DEF MergeKeeps
    <2> QED
        BY <2>2, <2>3, <2>4, <2>5 DEF MergeKeeps
<1>9. MergeLists(r)
    BY <1>1 DEF MergeLists
<1>10. MergeKnows(r, n + 1)
    <2>1. r.next <= nextId + (n + 1)
        BY <1>1, <1>2 DEF MergeKnows
    <2>2. facts[n + 1].text \in {r.view[j].text : j \in ConsIds}
        OBVIOUS
    <2> QED
        BY <1>1, <1>3, <2>1, <2>2, ConsKnows
<1> QED
    BY <1>5, <1>6, <1>7, <1>8, <1>9, <1>10 DEF MergeGood, Sound

\* The fact is new, and supersedes the record of another one if there is an older one.
LEMMA ConsCreates ==
    ASSUME NEW m, NEW n \in Nat, MergeGood(m, n), nextId \in 1..(MaxLtm + 1),
           facts \in Seq(ConsFact), n + 1 <= Len(facts), nextId + Len(facts) <= MaxLtm + 1,
           \A i \in ConsIds : m.view[i].text = facts[n + 1].text => m.view[i].by # 0,
           NEW old \in 0..MaxLtm, old # 0 => m.view[old].text # NoText /\ m.view[old].by = 0,
           NEW r \in ConsMerge, \A j \in ConsIds : j # old /\ j # m.next => r.view[j] = m.view[j],
           r.view[m.next].text = facts[n + 1].text, r.view[m.next].supersedes = old, r.view[m.next].by = 0,
           old # 0 => /\ r.view[old].text = m.view[old].text /\ r.view[old].supersedes = m.view[old].supersedes
                      /\ r.view[old].by = m.next,
           r.created = Append(m.created, m.next), r.updated = m.updated, r.next = m.next + 1, r.skipped = m.skipped,
           Members(r.superseded) = Members(m.superseded) \cup (IF old = 0 THEN {} ELSE {old})
    PROVE  MergeGood(r, n + 1)
<1> DEFINE k == m.next
<1>0. facts[n + 1].text \in ConsTexts
    BY ConsFactText
<1>1. /\ m \in ConsMerge /\ Backed(m.view) /\ Single(m.view) /\ Blank(m.view, k)
      /\ MergeKeeps(m) /\ MergeLists(m) /\ MergeKnows(m, n)
    BY DEF MergeGood, Sound
<1>2. /\ k \in 1..(MaxLtm + 1) /\ \A j \in ConsIds : m.view[j].by \in 0..MaxLtm
      /\ \A j \in ConsIds : r.view[j].by \in 0..MaxLtm
    BY <1>1, ConsMergeType
<1>3. k \in ConsIds /\ nextId <= k
    <2>1. k <= nextId + n
        BY <1>1 DEF MergeKnows
    <2>2. Len(m.created) \in Nat /\ k = nextId + Len(m.created)
        BY <1>1, ConsMergeType DEF MergeLists
    <2> QED
        BY <1>2, <2>1, <2>2, ConsBounds
<1>4. \A j \in ConsIds : j >= k => m.view[j].text = NoText /\ m.view[j].supersedes = 0 /\ m.view[j].by = 0
    <2>1. \A j \in ConsIds : j >= k => m.view[j] = Consolidating!NoEntry
        BY <1>1, Zenon DEF Blank
    <2>2. LET e == Consolidating!NoEntry IN e.text = NoText /\ e.supersedes = 0 /\ e.by = 0
        BY DEF Consolidating!NoEntry
    <2> QED
        BY <2>1, <2>2, Zenon
<1>5. old < k
    <2>1. old \in Nat /\ k \in Nat /\ (old # 0 => old \in ConsIds)
        BY <1>2, ConsBounds
    <2>2. old # 0 => ~(old >= k)
        BY <1>4, <2>1
    <2>3. k # 0
        BY <1>2
    <2> QED
        BY <2>1, <2>2, <2>3
<1>6. \A j \in ConsIds : j # k => r.view[j].text = m.view[j].text /\ r.view[j].supersedes = m.view[j].supersedes
    <2> SUFFICES ASSUME NEW j \in ConsIds, j # k
                 PROVE  r.view[j].text = m.view[j].text /\ r.view[j].supersedes = m.view[j].supersedes
        OBVIOUS
    <2>1. j # 0
        BY ConsBounds
    <2> QED
        BY <2>1
<1>7. Backed(r.view)
    <2> SUFFICES ASSUME NEW j \in ConsIds, r.view[j].by # 0 PROVE r.view[r.view[j].by].supersedes = j
        BY DEF Backed
    <2>1. j # k /\ j # 0
        BY <1>2, ConsBounds, SMTT(30)
    <2>2. CASE j = old
        BY <2>1, <2>2
    <2>3. CASE j # old
        <3>1. r.view[j] = m.view[j]
            BY <2>1, <2>3
        <3> DEFINE b == m.view[j].by
        <3>2. b \in ConsIds /\ m.view[b].supersedes = j
            BY <1>1, <1>2, <3>1, ConsBounds, SMTT(30) DEF Backed
        <3>3. b # k
            BY <1>2, <1>4, <2>1, <3>2
        <3> QED
            BY <1>6, <3>1, <3>2, <3>3
    <2> QED
        BY <2>2, <2>3
<1>8. Single(r.view)
    <2> SUFFICES ASSUME NEW j \in ConsIds, NEW h \in ConsIds, j < h, r.view[j].text = r.view[h].text,
                        r.view[h].text # NoText
                 PROVE  \E l \in 1..(h - 1) : r.view[l].supersedes = j
        BY DEF Single
    <2>0. j \in Nat /\ h \in Nat /\ j # 0
        BY ConsBounds
    <2>1. h <= k
        <3>1. CASE h = k
            BY <3>1, <2>0
        <3>2. CASE h # k
            <4>1. m.view[h].text # NoText
                BY <1>6, <3>2
            <4> QED
                BY <1>2, <1>4, <4>1, <2>0
        <3> QED
            BY <3>1, <3>2
    <2>2. CASE h = k
        <3>1. j # k /\ m.view[j].text = facts[n + 1].text
            BY <1>6, <2>0, <2>2
        <3> DEFINE b == m.view[j].by
        <3>2. b \in ConsIds /\ m.view[b].supersedes = j
            BY <1>1, <1>2, <3>1, ConsBounds, SMTT(30) DEF Backed
        <3>3. ~(b >= k)
            <4>1. b >= k => m.view[b].supersedes = 0
                BY <1>4, <3>2
            <4> QED
                BY <2>0, <3>2, <4>1
        <3>4. b \in Nat /\ b < k /\ b # k
            BY <1>2, <3>2, <3>3, ConsBounds, SMTT(30)
        <3>5. r.view[b].supersedes = j
            BY <1>6, <3>2, <3>4
        <3> QED
            <4>1. b \in 1..(h - 1)
                BY <1>2, <2>2, <3>2, <3>4, ConsBounds
            <4> QED
                BY <3>5, <4>1
    <2>3. CASE h # k
        <3>1. h < k
            BY <1>2, <2>0, <2>1, <2>3
        <3>2. m.view[j].text = m.view[h].text /\ m.view[h].text # NoText
            <4>1. j # k /\ h # k
                BY <1>2, <2>0, <3>1
            <4>2. r.view[j].text = m.view[j].text /\ r.view[h].text = m.view[h].text
                BY <1>6, <4>1
            <4> QED
                BY <4>2
        <3>3. PICK l \in 1..(h - 1) : m.view[l].supersedes = j
            BY <1>1, <3>2 DEF Single
        <3>4. l \in ConsIds /\ l # k
            BY <1>2, <2>0, <3>1, ConsBounds
        <3> QED
            BY <1>6, <3>3, <3>4
    <2> QED
        BY <2>2, <2>3
<1>9. Blank(r.view, r.next)
    <2> SUFFICES ASSUME NEW j \in ConsIds, j >= k + 1 PROVE r.view[j] = Consolidating!NoEntry
        BY DEF Blank
    <2>1. j # k /\ j # old /\ j >= k
        BY <1>2, <1>5, ConsBounds
    <2> QED
        BY <1>1, <2>1 DEF Blank
<1>10. MergeKeeps(r)
    <2>1. old # 0 => old \in ConsIds /\ (old < nextId => ltm[old].by = 0)
        <3> SUFFICES ASSUME old # 0 PROVE old \in ConsIds /\ (old < nextId => ltm[old].by = 0)
            OBVIOUS
        <3>1. old \in ConsIds
            BY ConsBounds
        <3>2. CASE old \in Members(m.updated) \cup Members(m.superseded)
            BY <1>1, <3>1, <3>2 DEF MergeKeeps
        <3>3. CASE old \notin Members(m.updated) \cup Members(m.superseded)
            BY <1>1, <3>1, <3>3 DEF MergeKeeps
        <3> QED
            BY <3>1, <3>2, <3>3
    <2>2. \A j \in ConsIds : j < nextId => r.view[j].text = ltm[j].text /\ r.view[j].supersedes = ltm[j].supersedes
        <3> SUFFICES ASSUME NEW j \in ConsIds, j < nextId
                     PROVE  r.view[j].text = ltm[j].text /\ r.view[j].supersedes = ltm[j].supersedes
            OBVIOUS
        <3>1. j # k
            BY <1>2, <1>3, ConsBounds
        <3> QED
            BY <1>1, <1>6, <3>1 DEF MergeKeeps
    <2>3. \A j \in ConsIds : j < nextId /\ j \notin Members(r.updated) \cup Members(r.superseded) => r.view[j] = ltm[j]
        <3> SUFFICES ASSUME NEW j \in ConsIds, j < nextId, j \notin Members(r.updated) \cup Members(r.superseded)
                     PROVE  r.view[j] = ltm[j]
            OBVIOUS
        <3>1. j # k /\ j # 0
            BY <1>2, <1>3, ConsBounds
        <3>2. j # old /\ j \notin Members(m.updated) \cup Members(m.superseded)
            BY <3>1
        <3> QED
            BY <1>1, <3>1, <3>2 DEF MergeKeeps
    <2>4. \A j \in Members(r.updated) \cup Members(r.superseded) : j < r.next /\ (j < nextId => ltm[j].by = 0)
        <3> SUFFICES ASSUME NEW j \in Members(r.updated) \cup Members(r.superseded)
                     PROVE  j < r.next /\ (j < nextId => ltm[j].by = 0)
            OBVIOUS
        <3>1. CASE j \in Members(m.updated) \cup Members(m.superseded)
            <4>1. j < k /\ (j < nextId => ltm[j].by = 0)
                BY <1>1, <3>1 DEF MergeKeeps
            <4>2. j \in ConsIds
                BY <1>1, <3>1, MembersIn, ConsMergeType
            <4> QED
                BY <1>2, <4>1, <4>2, ConsBounds
        <3>2. CASE j \notin Members(m.updated) \cup Members(m.superseded)
            <4>1. j = old /\ old # 0
                BY <3>2
            <4> QED
                BY <1>2, <1>5, <2>1, <4>1
        <3> QED
            BY <3>1, <3>2
    <2>5. \A j \in ConsIds : j >= nextId \/ j \in Members(r.updated) => j \in Members(r.superseded) \/ r.view[j].by = 0
        <3> SUFFICES ASSUME NEW j \in ConsIds, j >= nextId \/ j \in Members(m.updated)
                     PROVE  j \in Members(r.superseded) \/ r.view[j].by = 0
            OBVIOUS
        <3>1. CASE j = k
            BY <3>1
        <3>2. CASE j = old /\ j # k
            <4>1. old # 0
                BY <3>2, ConsBounds
            <4> QED
                BY <3>2, <4>1
        <3>3. CASE j # old /\ j # k
            <4>1. j \in Members(m.superseded) \/ m.view[j].by = 0
                BY <1>1 DEF MergeKeeps
            <4> QED
                BY <3>3, <4>1
        <3> QED
            BY <3>1, <3>2, <3>3
    <2> QED
        BY <2>2, <2>3, <2>4, <2>5 DEF MergeKeeps
<1>11. MergeLists(r)
    <2>1. /\ Len(r.created) = Len(m.created) + 1 /\ Len(m.created) \in Nat
          /\ \A l \in 1..Len(r.created) : r.created[l] = IF l = Len(m.created) + 1 THEN k ELSE m.created[l]
        BY <1>1, <1>3, ConsMergeType, SMTT(30)
    <2>2. k = nextId + Len(m.created) /\ \A l \in 1..Len(m.created) : m.created[l] = nextId + l - 1
        BY <1>1 DEF MergeLists
    <2>3. r.next = nextId + Len(r.created)
        BY <2>1, <2>2
    <2>4. \A l \in 1..Len(r.created) : r.created[l] = nextId + l - 1
        <3> SUFFICES ASSUME NEW l \in 1..Len(r.created) PROVE r.created[l] = nextId + l - 1
            OBVIOUS
        <3>1. CASE l = Len(m.created) + 1
            <4>1. r.created[l] = k
                BY <2>1, <3>1
            <4> QED
                BY <2>1, <2>2, <3>1, <4>1
        <3>2. CASE l # Len(m.created) + 1
            <4>1. r.created[l] = m.created[l] /\ l \in 1..Len(m.created)
                BY <2>1, <3>2
            <4> QED
                BY <2>2, <4>1
        <3> QED
            BY <3>1, <3>2
    <2> QED
        BY <2>3, <2>4 DEF MergeLists
<1>12. MergeKnows(r, n + 1)
    <2>1. r.next <= nextId + (n + 1)
        BY <1>1, <1>2 DEF MergeKnows
    <2>2. facts[n + 1].text \in {r.view[j].text : j \in ConsIds}
        BY <1>3
    <2>3. ASSUME NEW j \in ConsIds, m.view[j].text \in ConsTexts PROVE r.view[j].text = m.view[j].text
        <3>1. m.view[k].text = NoText /\ NoText \notin ConsTexts
            BY <1>3, <1>4, ConsBounds
        <3> QED
            BY <1>6, <2>3, <3>1
    <2>4. m.skipped \subseteq r.skipped
        OBVIOUS
    <2>5. facts[n + 1].text \in r.skipped \cup {r.view[j].text : j \in ConsIds}
        BY <2>2
    <2>6. MergeKnows(m, n)
        BY <1>1
    <2> QED
        BY <2>1, <2>3, <2>4, <2>5, <2>6, ConsKnows
<1> QED
    BY <1>7, <1>8, <1>9, <1>10, <1>11, <1>12 DEF MergeGood, Sound

\* The fact contradicts what was superseded too often before.
LEMMA ConsSkips ==
    ASSUME NEW m, NEW n \in Nat, MergeGood(m, n), nextId \in 1..(MaxLtm + 1),
           facts \in Seq(ConsFact), n + 1 <= Len(facts),
           NEW r \in ConsMerge, r.view = m.view,
           r.created = m.created, r.updated = m.updated, r.superseded = m.superseded, r.next = m.next,
           r.skipped = m.skipped \cup {facts[n + 1].text}
    PROVE  MergeGood(r, n + 1)
<1>1. MergeKeeps(r) /\ MergeLists(r)
    BY SMTT(30) DEF MergeGood, MergeKeeps, MergeLists
<1>2. MergeKnows(r, n + 1)
    <2>1. r.next <= nextId + (n + 1)
        BY ConsMergeType DEF MergeGood, MergeKnows
    <2> QED
        BY <2>1, ConsKnows DEF MergeGood
<1> QED
    BY <1>1, <1>2 DEF MergeGood

ConsShape(r) ==
    r = [view |-> r.view, created |-> r.created, updated |-> r.updated, superseded |-> r.superseded,
         next |-> r.next, skipped |-> r.skipped]
LEMMA ConsShaped ==
    ASSUME NEW r, ConsShape(r), r.view \in [ConsIds -> ConsEntry],
           r.created \in Seq(ConsIds), r.updated \in Seq(ConsIds), r.superseded \in Seq(ConsIds),
           r.next \in 1..(MaxLtm + 1), r.skipped \in SUBSET ConsTexts
    PROVE  r \in ConsMerge
BY DEF ConsMerge, ConsShape

LEMMA ReinforcesGood ==
    ASSUME NEW m, NEW n \in Nat, MergeGood(m, n), nextId \in 1..(MaxLtm + 1), runs \in 0..MaxRuns,
           facts \in Seq(ConsFact), n + 1 <= Len(facts),
           NEW i \in ConsIds, m.view[i].text = facts[n + 1].text, m.view[i].by = 0
    PROVE  MergeGood(Consolidating!Reinforces(m, i), n + 1)
<1> DEFINE r == Consolidating!Reinforces(m, i)
           e == [m.view[i] EXCEPT !.updated = runs]
<1>1. m \in ConsMerge
    BY DEF MergeGood
<1>2. /\ m.view \in [ConsIds -> ConsEntry]
      /\ m.created \in Seq(ConsIds) /\ m.updated \in Seq(ConsIds) /\ m.superseded \in Seq(ConsIds)
      /\ m.next \in 1..(MaxLtm + 1) /\ m.skipped \in SUBSET ConsTexts
    BY <1>1, ConsMergeType
<1>3. /\ e \in ConsEntry /\ e.text = m.view[i].text /\ e.supersedes = m.view[i].supersedes
      /\ e.by = m.view[i].by
    BY <1>2 DEF ConsEntry
<1>4. /\ r.view = [m.view EXCEPT ![i] = e] /\ r.created = m.created /\ r.superseded = m.superseded
      /\ r.next = m.next /\ r.skipped = m.skipped
      /\ r.updated = IF Consolidating!Contains(m.updated, i) THEN m.updated ELSE Append(m.updated, i)
      /\ ConsShape(r)
    <2>1. r = [m EXCEPT !.view[i].updated = runs,
                        !.updated = IF Consolidating!Contains(@, i) THEN @ ELSE Append(@, i)]
        BY DEF Consolidating!Reinforces
    <2> HIDE DEF r
    <2> QED
        BY <1>1, <2>1 DEF ConsMerge, ConsShape
<1> HIDE DEF r, e
<1>5. Members(r.updated) = Members(m.updated) \cup {i} /\ r.updated \in Seq(ConsIds)
    <2>1. CASE Consolidating!Contains(m.updated, i)
        <3>1. i \in Members(m.updated)
            BY <2>1 DEF Consolidating!Contains, Members
        <3> QED
            BY <1>2, <1>4, <2>1, <3>1
    <2>2. CASE ~Consolidating!Contains(m.updated, i)
        <3>1. r.updated = Append(m.updated, i)
            BY <1>4, <2>2
        <3> QED
            BY <1>2, <3>1, MembersAppend
    <2> QED
        BY <2>1, <2>2
<1>6. /\ r.view \in [ConsIds -> ConsEntry] /\ r.view[i] = e
      /\ \A j \in ConsIds : j # i => r.view[j] = m.view[j]
    BY <1>2, <1>3, <1>4
<1>7. r \in ConsMerge
    BY <1>2, <1>4, <1>5, <1>6, ConsShaped
<1>8. r.view[i].text = m.view[i].text /\ r.view[i].supersedes = m.view[i].supersedes /\ r.view[i].by = 0
    BY <1>3, <1>6
<1> QED
    BY <1>4, <1>5, <1>6, <1>7, <1>8, ConsReinforces DEF r

LEMMA SkipsGood ==
    ASSUME NEW m, NEW n \in Nat, MergeGood(m, n), nextId \in 1..(MaxLtm + 1),
           facts \in Seq(ConsFact), n + 1 <= Len(facts)
    PROVE  MergeGood(Consolidating!Skips(m, facts[n + 1]), n + 1)
<1> DEFINE r == Consolidating!Skips(m, facts[n + 1])
<1>1. m \in ConsMerge /\ facts[n + 1].text \in ConsTexts
    BY ConsFactText DEF MergeGood
<1>2. /\ r.view = m.view /\ r.created = m.created /\ r.superseded = m.superseded /\ r.updated = m.updated
      /\ r.next = m.next /\ r.skipped = m.skipped \cup {facts[n + 1].text} /\ ConsShape(r)
    <2>1. r = [m EXCEPT !.skipped = @ \cup {facts[n + 1].text}]
        BY DEF Consolidating!Skips
    <2> HIDE DEF r
    <2> QED
        BY <1>1, <2>1 DEF ConsMerge, ConsShape
<1> HIDE DEF r
<1>3. r \in ConsMerge
    BY <1>1, <1>2, ConsMergeType, ConsShaped
<1> QED
    BY <1>2, <1>3, ConsSkips DEF r

LEMMA CreatesShape ==
    ASSUME NEW m \in ConsMerge, NEW f \in ConsFact, NEW old \in 0..MaxLtm, m.next \in ConsIds, runs \in 0..MaxRuns,
           NEW r, r = Consolidating!Creates(m, f, old)
    PROVE  /\ r \in ConsMerge /\ \A j \in ConsIds : j # m.next => r.view[j] = m.view[j]
           /\ r.view[m.next].text = f.text /\ r.view[m.next].supersedes = old /\ r.view[m.next].by = 0
           /\ r.created = Append(m.created, m.next) /\ r.superseded = m.superseded /\ r.updated = m.updated
           /\ r.next = m.next + 1 /\ r.skipped = m.skipped
<1> DEFINE e == [text |-> f.text, supersedes |-> old, by |-> 0, updated |-> runs]
<1>1. /\ m.view \in [ConsIds -> ConsEntry]
      /\ m.created \in Seq(ConsIds) /\ m.updated \in Seq(ConsIds) /\ m.superseded \in Seq(ConsIds)
      /\ m.next \in 1..(MaxLtm + 1) /\ m.skipped \in SUBSET ConsTexts
    BY ConsMergeType
<1>2. e \in ConsEntry
    BY ConsBounds DEF ConsEntry, ConsFact
<1>3. /\ r.view = [m.view EXCEPT ![m.next] = e] /\ r.created = Append(m.created, m.next)
      /\ r.superseded = m.superseded /\ r.updated = m.updated /\ r.next = m.next + 1 /\ r.skipped = m.skipped
      /\ ConsShape(r)
    BY DEF ConsMerge, Consolidating!Creates, ConsShape
<1>4. e.text = f.text /\ e.supersedes = old /\ e.by = 0
    OBVIOUS
<1> HIDE DEF e
<1>5. /\ r.view \in [ConsIds -> ConsEntry] /\ r.view[m.next] = e
      /\ \A j \in ConsIds : j # m.next => r.view[j] = m.view[j]
    BY <1>1, <1>2, <1>3
<1>6. r.created \in Seq(ConsIds)
    BY <1>1, <1>3
<1>7. r.next \in 1..(MaxLtm + 1)
    BY <1>1, <1>3, ConsBounds
<1>8. r \in ConsMerge
    BY <1>1, <1>3, <1>5, <1>6, <1>7, ConsShaped
<1> QED
    BY <1>3, <1>4, <1>5, <1>8

LEMMA CreatesGood ==
    ASSUME NEW m, NEW n \in Nat, MergeGood(m, n), nextId \in 1..(MaxLtm + 1), runs \in 0..MaxRuns,
           facts \in Seq(ConsFact), n + 1 <= Len(facts), nextId + Len(facts) <= MaxLtm + 1, m.next \in ConsIds,
           \A i \in ConsIds : m.view[i].text = facts[n + 1].text => m.view[i].by # 0
    PROVE  MergeGood(Consolidating!Creates(m, facts[n + 1], 0), n + 1)
<1> DEFINE r == Consolidating!Creates(m, facts[n + 1], 0)
<1>1. m \in ConsMerge /\ facts[n + 1] \in ConsFact /\ 0 \in 0..MaxLtm
    BY ConsFactText, ConsBounds DEF MergeGood
<1>2. /\ r \in ConsMerge /\ \A j \in ConsIds : j # m.next => r.view[j] = m.view[j]
      /\ r.view[m.next].text = facts[n + 1].text /\ r.view[m.next].supersedes = 0 /\ r.view[m.next].by = 0
      /\ r.created = Append(m.created, m.next) /\ r.superseded = m.superseded /\ r.updated = m.updated
      /\ r.next = m.next + 1 /\ r.skipped = m.skipped
    BY <1>1, CreatesShape, SMTT(30)
<1> HIDE DEF r
<1>3. PICK old \in 0..MaxLtm : old = 0
    BY <1>1
<1>4. Members(r.superseded) = Members(m.superseded) \cup (IF old = 0 THEN {} ELSE {old})
    BY <1>2, <1>3
<1>5. r.view[m.next].supersedes = old /\ \A j \in ConsIds : j # old /\ j # m.next => r.view[j] = m.view[j]
    BY <1>2, <1>3
<1>6. MergeGood(r, n + 1)
    BY <1>2, <1>3, <1>4, <1>5, ConsCreates
<1> QED
    BY <1>6 DEF r

LEMMA SupersedesGood ==
    ASSUME NEW m, NEW n \in Nat, MergeGood(m, n), nextId \in 1..(MaxLtm + 1), runs \in 0..MaxRuns,
           facts \in Seq(ConsFact), n + 1 <= Len(facts), nextId + Len(facts) <= MaxLtm + 1, m.next \in ConsIds,
           \A i \in ConsIds : m.view[i].text = facts[n + 1].text => m.view[i].by # 0,
           NEW old \in ConsIds, m.view[old].text # NoText, m.view[old].by = 0
    PROVE  MergeGood(Consolidating!Supersedes(m, facts[n + 1], old), n + 1)
<1>1. m \in ConsMerge /\ facts[n + 1] \in ConsFact /\ old \in 0..MaxLtm /\ old # 0
    BY ConsFactText, ConsBounds DEF MergeGood
<1> PICK f \in ConsFact : f = facts[n + 1]
    BY <1>1
<1> PICK c : c = Consolidating!Creates(m, f, old)
    OBVIOUS
<1>2. /\ c \in ConsMerge /\ \A j \in ConsIds : j # m.next => c.view[j] = m.view[j]
      /\ c.view[m.next].text = f.text /\ c.view[m.next].supersedes = old /\ c.view[m.next].by = 0
      /\ c.created = Append(m.created, m.next) /\ c.superseded = m.superseded /\ c.updated = m.updated
      /\ c.next = m.next + 1 /\ c.skipped = m.skipped
    <2>1. PICK o \in 0..MaxLtm : o = old
        BY <1>1
    <2>2. c = Consolidating!Creates(m, f, o)
        BY <2>1
    <2>3. /\ c \in ConsMerge /\ \A j \in ConsIds : j # m.next => c.view[j] = m.view[j]
          /\ c.view[m.next].text = f.text /\ c.view[m.next].supersedes = o /\ c.view[m.next].by = 0
          /\ c.created = Append(m.created, m.next) /\ c.superseded = m.superseded /\ c.updated = m.updated
          /\ c.next = m.next + 1 /\ c.skipped = m.skipped
        BY <1>1, <2>2, CreatesShape, SMTT(150)
    <2> QED
        BY <2>1, <2>3, Zenon
<1> DEFINE r == Consolidating!Supersedes(m, f, old)
           e == [c.view[old] EXCEPT !.by = m.next, !.updated = runs]
<1>3. old # m.next
    <2>1. m.view[m.next] = Consolidating!NoEntry
        <3>1. m.next >= m.next
            BY <1>1, ConsMergeType
        <3> QED
            BY <3>1 DEF MergeGood, Sound, Blank
    <2> QED
        BY <2>1 DEF Consolidating!NoEntry
<1>4. /\ r.view = [c.view EXCEPT ![old] = e] /\ r.created = c.created
      /\ r.superseded = Append(c.superseded, old) /\ r.updated = c.updated /\ r.next = c.next
      /\ r.skipped = c.skipped /\ ConsShape(r)
    <2>1. r = [c EXCEPT !.view[old] = [@ EXCEPT !.by = m.next, !.updated = runs], !.superseded = Append(@, old)]
        BY DEF Consolidating!Supersedes
    <2> HIDE DEF r
    <2> QED
        BY <1>2, <2>1 DEF ConsMerge, ConsShape
<1> HIDE DEF r
<1>5. /\ c.view \in [ConsIds -> ConsEntry] /\ c.created \in Seq(ConsIds) /\ c.updated \in Seq(ConsIds)
      /\ c.superseded \in Seq(ConsIds) /\ c.next \in 1..(MaxLtm + 1) /\ c.skipped \in SUBSET ConsTexts
      /\ m.next \in 1..MaxLtm /\ m.superseded \in Seq(ConsIds)
    BY <1>1, <1>2, ConsMergeType, ConsBounds
<1>6. c.view[old] \in ConsEntry /\ c.view[old] = m.view[old]
    BY <1>2, <1>3, <1>5
<1>7. /\ e \in ConsEntry /\ e.text = m.view[old].text /\ e.supersedes = m.view[old].supersedes
      /\ e.by = m.next
    <2>1. m.next \in 0..MaxLtm
        BY <1>5, ConsBounds, SMTT(30)
    <2> QED
        BY <1>6, <2>1 DEF ConsEntry
<1> HIDE DEF e
<1>8. /\ r.view \in [ConsIds -> ConsEntry] /\ r.view[old] = e /\ r.view[m.next] = c.view[m.next]
      /\ \A j \in ConsIds : j # old /\ j # m.next => r.view[j] = m.view[j]
    BY <1>2, <1>3, <1>4, <1>5, <1>7, SMTT(30)
<1>9. r.superseded \in Seq(ConsIds)
    BY <1>4, <1>5
<1>10. r \in ConsMerge
    BY <1>4, <1>5, <1>8, <1>9, ConsShaped
<1>11. Members(r.superseded) = Members(m.superseded) \cup (IF old = 0 THEN {} ELSE {old})
    <2>1. r.superseded = Append(m.superseded, old) /\ m.superseded \in Seq(ConsIds)
        BY <1>2, <1>4, <1>5
    <2>2. Members(r.superseded) = Members(m.superseded) \cup {old}
        BY <2>1, MembersAppend
    <2> QED
        BY <1>1, <2>2
<1>12. /\ r.view[m.next].text = facts[n + 1].text /\ r.view[m.next].supersedes = old /\ r.view[m.next].by = 0
       /\ r.created = Append(m.created, m.next) /\ r.updated = m.updated /\ r.next = m.next + 1
       /\ r.skipped = m.skipped
    BY <1>2, <1>4, <1>8
<1>13. /\ r.view[old].text = m.view[old].text /\ r.view[old].supersedes = m.view[old].supersedes
       /\ r.view[old].by = m.next
    BY <1>7, <1>8
<1>14. MergeGood(r, n + 1)
    BY <1>1, <1>8, <1>10, <1>11, <1>12, <1>13, ConsCreates, ZenonT(60)
<1> QED
    BY <1>14 DEF r

\* Merging one more fact keeps what a merge under way keeps.
LEMMA ConsMergeFact ==
    ASSUME NEW m, NEW n \in Nat, MergeGood(m, n), nextId \in 1..(MaxLtm + 1), runs \in 0..MaxRuns,
           facts \in Seq(ConsFact), n + 1 <= Len(facts), nextId + Len(facts) <= MaxLtm + 1
    PROVE  MergeGood(Consolidating!MergeFact(m, facts[n + 1]), n + 1)
<1> DEFINE f == facts[n + 1]
           live == Consolidating!Live(m)
           same == {i \in live : m.view[i].text = f.text}
           against == {i \in live : {m.view[i].text, f.text} \in {{TextA, TextB}, {TextB, TextC}}}
           old == Consolidating!Latest(m, against)
           i == Consolidating!Min(same)
           r == Consolidating!MergeFact(m, f)
<1>1. f \in ConsFact /\ f.text \in ConsTexts
    BY ConsFactText
<1>2. m \in ConsMerge /\ MergeKnows(m, n) /\ Blank(m.view, m.next)
    BY DEF MergeGood, Sound
<1>3. /\ m.view \in [ConsIds -> ConsEntry]
      /\ m.created \in Seq(ConsIds) /\ m.updated \in Seq(ConsIds) /\ m.superseded \in Seq(ConsIds)
      /\ m.next \in 1..(MaxLtm + 1) /\ m.skipped \in SUBSET ConsTexts
    BY <1>2, ConsMergeType
<1>4. m.next \in ConsIds
    <2>1. m.next <= nextId + n
        BY <1>2 DEF MergeKnows
    <2> QED
        BY <1>3, <2>1, ConsBounds
<1>5. live = {j \in ConsIds : m.view[j].text # NoText /\ m.view[j].by = 0}
    BY DEF Consolidating!Live, ConsIds
<1>6. r = IF same # {} THEN Consolidating!Reinforces(m, i)
          ELSE IF against = {} THEN Consolidating!Creates(m, f, 0)
          ELSE IF Consolidating!Depth(m, old) >= MaxDepth THEN Consolidating!Skips(m, f)
          ELSE Consolidating!Supersedes(m, f, old)
    BY DEF Consolidating!MergeFact
<1> HIDE DEF f, live, r
<1>7. ASSUME same # {} PROVE MergeGood(r, n + 1)
    <2>1. i \in same
        <3>1. same \in SUBSET ConsIds
            BY <1>5
        <3> QED
            BY <1>7, <3>1, ConsMin
    <2>2. r = Consolidating!Reinforces(m, i)
        BY <1>6, <1>7
    <2> HIDE DEF i
    <2>3. i \in ConsIds /\ m.view[i].text = f.text /\ m.view[i].by = 0
        BY <1>5, <2>1
    <2> QED
        BY <1>1, <1>3, <2>2, <2>3, ReinforcesGood DEF f
<1>8. \A j \in ConsIds : same = {} /\ m.view[j].text = f.text => m.view[j].by # 0
    BY <1>1, <1>5, ConsBounds
<1>9. ASSUME same = {}, against = {} PROVE MergeGood(r, n + 1)
    <2>1. r = Consolidating!Creates(m, f, 0)
        BY <1>6, <1>9
    <2> QED
        BY <1>4, <1>8, <1>9, <2>1, CreatesGood DEF f
<1>10. ASSUME same = {}, against # {} PROVE MergeGood(r, n + 1)
    <2>1. old \in against
        <3>1. against \in SUBSET ConsIds
            BY <1>5
        <3> QED
            BY <1>2, <1>10, <3>1, ConsLatest
    <2>2. r = IF Consolidating!Depth(m, old) >= MaxDepth THEN Consolidating!Skips(m, f)
              ELSE Consolidating!Supersedes(m, f, old)
        BY <1>6, <1>10
    <2> HIDE DEF old
    <2>3. old \in ConsIds /\ m.view[old].text # NoText /\ m.view[old].by = 0
        BY <1>5, <2>1
    <2>4. CASE Consolidating!Depth(m, old) >= MaxDepth
        <3>1. r = Consolidating!Skips(m, f)
            BY <2>2, <2>4
        <3> QED
            BY <3>1, SkipsGood DEF f
    <2>5. CASE ~(Consolidating!Depth(m, old) >= MaxDepth)
        <3>1. r = Consolidating!Supersedes(m, f, old)
            BY <2>2, <2>5
        <3> QED
            BY <1>4, <1>8, <1>10, <2>3, <3>1, SupersedesGood DEF f
    <2> QED
        BY <2>4, <2>5
<1> QED
    BY <1>7, <1>9, <1>10 DEF r, f

ConsBase == [Consolidating!Nothing EXCEPT !.view = ltm, !.next = nextId]
MergingUpTo(k, g) ==
    g = [n \in 0..k |-> IF n = 0 THEN ConsBase ELSE Consolidating!MergeFact(g[n - 1], facts[n])]

LEMMA MergingExists == ASSUME NEW k \in Nat PROVE \E g : MergingUpTo(k, g)
<1> DEFINE T == {n \in Nat : ~ \E g : MergingUpTo(n, g)}
<1> SUFFICES ASSUME T # {} PROVE FALSE
    OBVIOUS
<1>1. PICK n \in T : \A l \in T : n <= l
    <2>1. T \subseteq Nat
        OBVIOUS
    <2> HIDE DEF T
    <2> QED
        BY <2>1, LeastNumber
<1>2. n # 0
    <2> SUFFICES ASSUME n = 0 PROVE FALSE
        OBVIOUS
    <2> DEFINE g == [l \in 0..0 |-> ConsBase]
    <2>1. MergingUpTo(0, g)
        BY DEF MergingUpTo
    <2> QED
        BY <1>1, <2>1
<1>3. n - 1 \in Nat /\ n - 1 \notin T
    BY <1>1, <1>2
<1>4. PICK h : MergingUpTo(n - 1, h)
    BY <1>3
<1> DEFINE g == [l \in 0..n |-> IF l = n THEN Consolidating!MergeFact(h[n - 1], facts[n]) ELSE h[l]]
           F(l) == IF l = 0 THEN ConsBase ELSE Consolidating!MergeFact(g[l - 1], facts[l])
<1>5. \A l \in 0..(n - 1) : h[l] = IF l = 0 THEN ConsBase ELSE Consolidating!MergeFact(h[l - 1], facts[l])
    BY <1>4, <1>3, Zenon DEF MergingUpTo
<1>6. \A l \in 0..(n - 1) : g[l] = h[l]
    BY <1>1, <1>3
<1>7. ASSUME NEW l \in 0..n PROVE g[l] = F(l)
    <2>1. CASE l = n
        <3>1. g[l] = Consolidating!MergeFact(h[n - 1], facts[n])
            BY <2>1
        <3>2. g[n - 1] = h[n - 1]
            BY <1>3, <1>6
        <3> HIDE DEF g
        <3> QED
            BY <1>2, <2>1, <3>1, <3>2
    <2>2. CASE l # n
        <3>1. l \in 0..(n - 1)
            BY <1>1, <2>2
        <3>2. l # 0 => l - 1 \in 0..(n - 1)
            BY <3>1
        <3>3. g[l] = h[l] /\ (l # 0 => g[l - 1] = h[l - 1])
            BY <1>6, <3>1, <3>2
        <3> HIDE DEF g
        <3> QED
            BY <1>5, <3>1, <3>3
    <2> QED
        BY <2>1, <2>2
<1>8. g = [l \in 0..n |-> F(l)]
    <2>1. g = [l \in 0..n |-> g[l]]
        OBVIOUS
    <2> HIDE DEF g, F
    <2> QED
        BY <1>7, <2>1
<1>9. MergingUpTo(n, g)
    <2>1. g = [l \in 0..n |-> IF l = 0 THEN ConsBase ELSE Consolidating!MergeFact(g[l - 1], facts[l])]
        BY <1>8
    <2> HIDE DEF g
    <2> QED
        BY <2>1, Zenon DEF MergingUpTo
<1> QED
    BY <1>1, <1>9

LEMMA MergingIs ==
    ASSUME facts \in Seq(ConsFact)
    PROVE  \A n \in 0..Len(facts) :
               Consolidating!Merging[n] =
                   IF n = 0 THEN ConsBase ELSE Consolidating!MergeFact(Consolidating!Merging[n - 1], facts[n])
<1>1. \E g : MergingUpTo(Len(facts), g)
    BY MergingExists
<1>2. Consolidating!Merging = CHOOSE g : MergingUpTo(Len(facts), g)
    BY Zenon DEF Consolidating!Merging, MergingUpTo, ConsBase
<1>3. MergingUpTo(Len(facts), Consolidating!Merging)
    BY <1>1, <1>2, Zenon
<1> HIDE DEF Consolidating!Merging
<1> QED
    BY <1>3, Zenon DEF MergingUpTo

LEMMA MergedGood ==
    ASSUME facts \in Seq(ConsFact), nextId \in 1..(MaxLtm + 1), runs \in 0..MaxRuns,
           nextId + Len(facts) <= MaxLtm + 1, ltm \in [ConsIds -> ConsEntry], Sound(ltm, nextId)
    PROVE  MergeGood(Consolidating!Merged, Len(facts))
<1> DEFINE M(n) == Consolidating!Merging[n]
           T == {n \in 0..Len(facts) : ~MergeGood(M(n), n)}
<1>0. Len(facts) \in Nat
    OBVIOUS
<1> SUFFICES ASSUME T # {} PROVE FALSE
    <2>1. Consolidating!Merged = M(Len(facts))
        BY DEF Consolidating!Merged
    <2>2. Len(facts) \in 0..Len(facts)
        BY <1>0
    <2> HIDE DEF M
    <2> QED
        BY <2>1, <2>2, Zenon
<1>1. PICK n \in T : \A l \in T : n <= l
    <2>1. T \subseteq Nat
        OBVIOUS
    <2> HIDE DEF T
    <2> QED
        BY <2>1, LeastNumber
<1>2. CASE n = 0
    <2>1. M(0) = ConsBase
        BY <1>0, MergingIs
    <2>2. MergeGood(ConsBase, 0)
        <3>1. /\ ConsBase.view = ltm /\ ConsBase.next = nextId /\ ConsBase.created = <<>> /\ ConsBase.updated = <<>>
              /\ ConsBase.superseded = <<>> /\ ConsBase.skipped = {} /\ ConsShape(ConsBase)
            <4>1. ConsBase = [view |-> ltm, created |-> <<>>, updated |-> <<>>, superseded |-> <<>>,
                              next |-> nextId, skipped |-> {}]
                <5>1. PICK v : Consolidating!Nothing =
                          [view |-> v, created |-> <<>>, updated |-> <<>>, superseded |-> <<>>, next |-> 0,
                           skipped |-> {}]
                    BY Zenon DEF Consolidating!Nothing
                <5>2. ConsBase = [Consolidating!Nothing EXCEPT !.view = ltm, !.next = nextId]
                    BY DEF ConsBase
                <5> QED
                    BY <5>1, <5>2
            <4> QED
                BY <4>1, Zenon DEF ConsShape
        <3> HIDE DEF ConsBase
        <3>2. ConsBase \in ConsMerge
            <4>1. <<>> \in Seq(ConsIds) /\ {} \in SUBSET ConsTexts
                OBVIOUS
            <4> QED
                BY <3>1, <4>1, ConsShaped
        <3>3. Members(ConsBase.updated) \cup Members(ConsBase.superseded) = {}
            BY <3>1 DEF Members
        <3>4. MergeKeeps(ConsBase)
            <4>1. \A i \in ConsIds : i >= nextId => ltm[i].by = 0
                BY DEF Sound, Blank, Consolidating!NoEntry
            <4> QED
                BY <3>1, <3>3, <4>1 DEF MergeKeeps
        <3>5. MergeLists(ConsBase) /\ MergeKnows(ConsBase, 0)
            BY <3>1 DEF MergeLists, MergeKnows
        <3> QED
            BY <3>1, <3>2, <3>4, <3>5 DEF MergeGood
    <2> QED
        BY <1>1, <1>2, <2>1, <2>2
<1>3. CASE n # 0
    <2>1. n - 1 \in Nat /\ n - 1 \in 0..Len(facts) /\ n \in 0..Len(facts) /\ n <= Len(facts)
        BY <1>1, <1>3
    <2>2. MergeGood(M(n - 1), n - 1)
        BY <1>1, <2>1
    <2>3. M(n) = Consolidating!MergeFact(M(n - 1), facts[n])
        BY <1>3, <2>1, MergingIs
    <2>4. ~MergeGood(M(n), n)
        BY <1>1
    <2> HIDE DEF M
    <2>5. PICK k \in Nat : k = n - 1
        BY <2>1
    <2>6. n = k + 1
        BY <2>1, <2>5
    <2>7. MergeGood(Consolidating!MergeFact(M(k), facts[k + 1]), k + 1)
        BY <2>1, <2>2, <2>5, <2>6, ConsMergeFact
    <2> QED
        BY <2>3, <2>4, <2>5, <2>6, <2>7
<1> QED
    BY <1>2, <1>3

LEMMA ConcatOfThree ==
    ASSUME NEW S, NEW a \in Seq(S), NEW b \in Seq(S), NEW d \in Seq(S), NEW w, w = (a \o b) \o d
    PROVE  /\ Len(w) = Len(a) + Len(b) + Len(d)
           /\ \A n \in 1..Len(w) :
                  w[n] = IF n <= Len(a) THEN a[n] ELSE IF n <= Len(a) + Len(b) THEN b[n - Len(a)]
                         ELSE d[n - Len(a) - Len(b)]
<1> DEFINE x == a \o b
<1>1. /\ x \in Seq(S) /\ Len(x) = Len(a) + Len(b)
      /\ \A n \in 1..Len(x) : x[n] = IF n <= Len(a) THEN a[n] ELSE b[n - Len(a)]
    OBVIOUS
<1>2. w = x \o d /\ x \in Seq(S)
    OBVIOUS
<1> HIDE DEF x
<1>3. /\ Len(w) = Len(x) + Len(d)
      /\ \A n \in 1..Len(w) : w[n] = IF n <= Len(x) THEN x[n] ELSE d[n - Len(x)]
    BY <1>2
<1>4. Len(a) \in Nat /\ Len(b) \in Nat /\ Len(d) \in Nat /\ Len(x) \in Nat
    BY <1>1
<1>5. ASSUME NEW n \in 1..Len(w)
      PROVE  w[n] = IF n <= Len(a) THEN a[n] ELSE IF n <= Len(a) + Len(b) THEN b[n - Len(a)]
                    ELSE d[n - Len(a) - Len(b)]
    <2>1. CASE n <= Len(x)
        <3>1. w[n] = x[n] /\ n \in 1..Len(x)
            BY <1>3, <1>4, <2>1
        <3> QED
            BY <1>1, <2>1, <3>1
    <2>2. CASE ~(n <= Len(x))
        <3>1. w[n] = d[n - Len(x)]
            BY <1>3, <2>2
        <3>2. n - Len(x) = n - Len(a) - Len(b) /\ ~(n <= Len(a)) /\ ~(n <= Len(a) + Len(b))
            BY <1>1, <1>4, <2>2
        <3> QED
            BY <3>1, <3>2
    <2> QED
        BY <2>1, <2>2
<1> QED
    BY <1>1, <1>3, <1>4, <1>5

\* A record of the result as it is written.
LEMMA ConsRecord ==
    ASSUME merged \in ConsMerge, NEW i \in ConsIds, NEW by \in 0..MaxLtm, NEW r, r = Consolidating!Record(i, by)
    PROVE  /\ r \in [id : ConsIds, entry : ConsEntry] /\ r.id = i /\ r.entry \in ConsEntry
           /\ r.entry.text = merged.view[i].text /\ r.entry.supersedes = merged.view[i].supersedes
           /\ r.entry.updated = merged.view[i].updated /\ r.entry.by = by
<1> PICK e : e = [merged.view[i] EXCEPT !.by = by]
    OBVIOUS
<1>1. merged.view[i] \in ConsEntry
    BY ConsMergeType
<1>2. /\ e \in ConsEntry /\ e.text = merged.view[i].text /\ e.supersedes = merged.view[i].supersedes
      /\ e.updated = merged.view[i].updated /\ e.by = by
    BY <1>1 DEF ConsEntry
<1>3. r = [id |-> i, entry |-> e]
    BY Zenon DEF Consolidating!Record
<1>4. r.id = i /\ r.entry = e
    BY <1>3
<1>5. r \in [id : ConsIds, entry : ConsEntry]
    BY <1>2, <1>3
<1> QED
    BY <1>2, <1>4, <1>5

LEMMA WritesAre == ASSUME merged \in ConsMerge PROVE WritesOf(merged, Consolidating!Writes)
<1> DEFINE R == [id : ConsIds, entry : ConsEntry]
           a == Consolidating!Unsuperseded(merged.created)
           b == Consolidating!Unsuperseded(merged.updated)
           d == Consolidating!Superseded(merged.superseded)
           w == Consolidating!Writes
           c == Len(merged.created)
           u == Len(merged.updated)
           s == Len(merged.superseded)
<1>1. /\ merged.created \in Seq(ConsIds) /\ merged.updated \in Seq(ConsIds) /\ merged.superseded \in Seq(ConsIds)
      /\ \A i \in ConsIds : merged.view[i].by \in 0..MaxLtm
    BY ConsMergeType
<1>2. c \in Nat /\ u \in Nat /\ s \in Nat /\ 0 \in 0..MaxLtm
    BY <1>1, ConsBounds
<1> HIDE DEF w, R
<1>3. /\ \A n \in 1..c : merged.created[n] \in ConsIds
      /\ \A n \in 1..u : merged.updated[n] \in ConsIds
      /\ \A n \in 1..s : merged.superseded[n] \in ConsIds
    BY <1>1
<1>4. /\ \A n \in 1..c : merged.created[n] \in ConsListed(merged)
      /\ \A n \in 1..u : merged.updated[n] \in ConsListed(merged)
      /\ \A n \in 1..s : merged.superseded[n] \in ConsListed(merged)
    BY DEF ConsListed, Members
<1>5. /\ \A i \in Members(merged.created) : \E n \in 1..c : i = merged.created[n]
      /\ \A i \in Members(merged.updated) : \E n \in 1..u : i = merged.updated[n]
      /\ \A i \in Members(merged.superseded) : \E n \in 1..s : i = merged.superseded[n]
    BY DEF Members
<1>6. /\ a = [n \in 1..c |-> Consolidating!Record(merged.created[n], 0)]
      /\ b = [n \in 1..u |-> Consolidating!Record(merged.updated[n], 0)]
      /\ d = [n \in 1..s |-> Consolidating!Record(merged.superseded[n], merged.view[merged.superseded[n]].by)]
    BY Zenon DEF Consolidating!Unsuperseded, Consolidating!Superseded
<1> HIDE DEF a, b, d
<1>7. a \in Seq(R) /\ Len(a) = c /\ \A n \in 1..c : a[n] = Consolidating!Record(merged.created[n], 0)
    <2>1. \A n \in 1..c : Consolidating!Record(merged.created[n], 0) \in R
        BY <1>2, <1>3, ConsRecord DEF R
    <2> QED
        BY <1>2, <1>6, <2>1
<1>8. b \in Seq(R) /\ Len(b) = u /\ \A n \in 1..u : b[n] = Consolidating!Record(merged.updated[n], 0)
    <2>1. \A n \in 1..u : Consolidating!Record(merged.updated[n], 0) \in R
        BY <1>2, <1>3, ConsRecord DEF R
    <2> QED
        BY <1>2, <1>6, <2>1
<1>9. /\ d \in Seq(R) /\ Len(d) = s
      /\ \A n \in 1..s : d[n] = Consolidating!Record(merged.superseded[n], merged.view[merged.superseded[n]].by)
    <2>1. \A n \in 1..s : Consolidating!Record(merged.superseded[n], merged.view[merged.superseded[n]].by) \in R
        BY <1>1, <1>2, <1>3, ConsRecord DEF R
    <2> QED
        BY <1>2, <1>6, <2>1
<1>10. /\ Len(w) = c + u + s
       /\ \A n \in 1..Len(w) : w[n] = IF n <= c THEN a[n] ELSE IF n <= c + u THEN b[n - c] ELSE d[n - c - u]
    <2>1. w = (a \o b) \o d
        BY Zenon DEF Consolidating!Writes, a, b, d, w
    <2>2. a \in Seq(R) /\ b \in Seq(R) /\ d \in Seq(R)
        BY <1>7, <1>8, <1>9
    <2>3. /\ Len(w) = Len(a) + Len(b) + Len(d)
          /\ \A n \in 1..Len(w) :
                 w[n] = IF n <= Len(a) THEN a[n] ELSE IF n <= Len(a) + Len(b) THEN b[n - Len(a)]
                        ELSE d[n - Len(a) - Len(b)]
        BY <2>1, <2>2, ConcatOfThree
    <2>4. Len(a) = c /\ Len(b) = u /\ Len(d) = s
        BY <1>7, <1>8, <1>9
    <2> HIDE DEF c, u, s
    <2> QED
        BY <2>3, <2>4
<1> HIDE DEF c, u, s
<1>11. ASSUME NEW n \in 1..Len(w)
       PROVE  \E i \in ConsIds :
                  /\ w[n] = Consolidating!Record(i, IF n <= c + u THEN 0 ELSE merged.view[i].by)
                  /\ i \in ConsListed(merged) /\ (n <= c => i = merged.created[n])
    <2>1. CASE n <= c
        <3>1. n \in 1..c
            BY <2>1
        <3>2. w[n] = Consolidating!Record(merged.created[n], 0) /\ n <= c + u
            BY <1>2, <1>7, <1>10, <2>1, <3>1
        <3>3. merged.created[n] \in ConsIds /\ merged.created[n] \in ConsListed(merged)
            BY <1>3, <1>4, <3>1
        <3> QED
            BY <3>2, <3>3
    <2>2. CASE ~(n <= c) /\ n <= c + u
        <3>1. n - c \in 1..u
            BY <1>2, <2>2
        <3>2. w[n] = Consolidating!Record(merged.updated[n - c], 0)
            BY <1>8, <1>10, <2>2, <3>1
        <3>3. merged.updated[n - c] \in ConsIds /\ merged.updated[n - c] \in ConsListed(merged)
            BY <1>3, <1>4, <3>1
        <3> QED
            BY <2>2, <3>2, <3>3
    <2>3. CASE ~(n <= c + u)
        <3>1. n - c - u \in 1..s /\ ~(n <= c)
            BY <1>2, <1>10, <2>3
        <3> DEFINE i == merged.superseded[n - c - u]
        <3>2. w[n] = Consolidating!Record(i, merged.view[i].by)
            BY <1>9, <1>10, <2>3, <3>1
        <3>3. i \in ConsIds /\ i \in ConsListed(merged)
            BY <1>3, <1>4, <3>1
        <3> QED
            BY <2>3, <3>1, <3>2, <3>3
    <2> QED
        BY <2>1, <2>2, <2>3
<1>12. ASSUME NEW n \in 1..Len(w)
       PROVE  /\ w[n].id \in ConsListed(merged) /\ w[n].entry \in ConsEntry
              /\ w[n].entry.text = merged.view[w[n].id].text /\ w[n].entry.supersedes = merged.view[w[n].id].supersedes
              /\ w[n].entry.updated = merged.view[w[n].id].updated
              /\ w[n].entry.by = IF n <= c + u THEN 0 ELSE merged.view[w[n].id].by
              /\ n <= c => w[n].id = merged.created[n]
    <2>1. PICK i \in ConsIds : /\ w[n] = Consolidating!Record(i, IF n <= c + u THEN 0 ELSE merged.view[i].by)
                               /\ i \in ConsListed(merged) /\ (n <= c => i = merged.created[n])
        BY <1>11
    <2>2. PICK by \in 0..MaxLtm : by = IF n <= c + u THEN 0 ELSE merged.view[i].by
        BY <1>1, <1>2
    <2>3. w[n] = Consolidating!Record(i, by)
        BY <2>1, <2>2
    <2>4. /\ w[n].id = i /\ w[n].entry \in ConsEntry
          /\ w[n].entry.text = merged.view[i].text /\ w[n].entry.supersedes = merged.view[i].supersedes
          /\ w[n].entry.updated = merged.view[i].updated /\ w[n].entry.by = by
        BY <2>3, ConsRecord
    <2> QED
        BY <2>1, <2>2, <2>4
<1>13. \A n \in 1..c : n \in 1..Len(w) /\ w[n].id = merged.created[n]
    BY <1>2, <1>10, <1>12
<1>14. ASSUME NEW k \in 1..u PROVE c + k \in 1..Len(w) /\ w[c + k].id = merged.updated[k]
    <2>1. c + k \in 1..Len(w) /\ ~(c + k <= c) /\ c + k <= c + u /\ (c + k) - c = k
        <3>1. Len(w) = c + u + s
            BY <1>10
        <3> QED
            BY <1>2, <3>1
    <2>2. w[c + k] = Consolidating!Record(merged.updated[k], 0)
        BY <1>8, <1>10, <2>1
    <2> QED
        BY <1>2, <1>3, <2>1, <2>2, ConsRecord
<1>15. ASSUME NEW k \in 1..s PROVE c + u + k \in 1..Len(w) /\ w[c + u + k].id = merged.superseded[k]
    <2>1. c + u + k \in 1..Len(w) /\ ~(c + u + k <= c) /\ ~(c + u + k <= c + u) /\ (c + u + k) - c - u = k
        <3>1. Len(w) = c + u + s
            BY <1>10
        <3> QED
            BY <1>2, <3>1
    <2>2. w[c + u + k] = Consolidating!Record(merged.superseded[k], merged.view[merged.superseded[k]].by)
        BY <1>9, <1>10, <2>1
    <2> QED
        BY <1>1, <1>3, <2>1, <2>2, ConsRecord
<1>16. \A i \in Members(merged.superseded) : \E n \in 1..Len(w) : n > c + u /\ w[n].id = i
    <2> SUFFICES ASSUME NEW i \in Members(merged.superseded) PROVE \E n \in 1..Len(w) : n > c + u /\ w[n].id = i
        OBVIOUS
    <2>1. PICK k \in 1..s : i = merged.superseded[k]
        BY <1>5
    <2>2. c + u + k > c + u
        BY <1>2
    <2> QED
        BY <1>15, <2>1, <2>2
<1>17. \A i \in ConsListed(merged) : \E n \in 1..Len(w) : w[n].id = i
    <2> SUFFICES ASSUME NEW i \in ConsListed(merged) PROVE \E n \in 1..Len(w) : w[n].id = i
        OBVIOUS
    <2>1. CASE i \in Members(merged.created)
        BY <1>13, <1>5, <2>1
    <2>2. CASE i \in Members(merged.updated)
        BY <1>14, <1>5, <2>2
    <2>3. CASE i \in Members(merged.superseded)
        BY <1>16, <2>3
    <2> QED
        BY <2>1, <2>2, <2>3 DEF ConsListed
<1>18. WritesOf(merged, w)
    BY <1>10, <1>12, <1>16, <1>17, Zenon DEF WritesOf, c, u, s
<1> QED
    BY <1>18 DEF w

\* What the merge has made is what there is to write, and nothing is written yet.
LEMMA ConsMergeStep ==
    ASSUME NEW m, facts \in Seq(ConsFact), nextId \in 1..(MaxLtm + 1), MergeGood(m, Len(facts)),
           ltm \in [ConsIds -> ConsEntry], Sound(ltm, nextId)
    PROVE  ToWrite(m, m.next, facts) /\ HalfWritten(ltm, m)
<1>1. /\ m \in ConsMerge /\ Sound(m.view, m.next) /\ MergeKeeps(m) /\ MergeLists(m) /\ MergeKnows(m, Len(facts))
      /\ Blank(m.view, m.next) /\ Blank(ltm, nextId) /\ Backed(ltm)
    BY DEF MergeGood, Sound
<1>2. /\ m.created \in Seq(ConsIds) /\ Len(m.created) \in Nat /\ m.next = nextId + Len(m.created) /\ m.next \in Nat
      /\ \A k \in 1..Len(m.created) : m.created[k] = nextId + k - 1
    BY <1>1, ConsMergeType DEF MergeLists
<1>3. \A i \in ConsIds : i \in Nat /\ i # 0
    BY ConsBounds
<1>4. \A i \in ConsIds : i < nextId => ltm[i].text = m.view[i].text /\ ltm[i].supersedes = m.view[i].supersedes
    BY <1>1 DEF MergeKeeps
<1>5. \A i \in ConsIds : i >= nextId => ltm[i] = Consolidating!NoEntry
    BY <1>1 DEF Blank
<1>6. \A i \in ConsIds : i >= m.next => m.view[i] = Consolidating!NoEntry
    BY <1>1 DEF Blank
<1>7. \A i \in ConsIds : i >= nextId /\ i < m.next => i \in Members(m.created)
    <2> SUFFICES ASSUME NEW i \in ConsIds, i >= nextId, i < m.next PROVE i \in Members(m.created)
        OBVIOUS
    <2>1. PICK k \in Int : k = i - nextId + 1
        BY <1>3
    <2>2. k \in 1..Len(m.created) /\ i = nextId + k - 1
        BY <1>2, <1>3, <2>1
    <2> QED
        BY <1>2, <2>2 DEF Members
<1>8. \A i \in Members(m.created) : i >= nextId
    <2> SUFFICES ASSUME NEW i \in Members(m.created) PROVE i >= nextId
        OBVIOUS
    <2>1. PICK k \in 1..Len(m.created) : i = m.created[k]
        BY DEF Members
    <2> QED
        BY <1>2, <2>1
<1>9. LET e == Consolidating!NoEntry IN e.text = NoText /\ e.supersedes = 0 /\ e.by = 0
    BY DEF Consolidating!NoEntry
<1>10. ToWrite(m, m.next, facts)
    <2>1. \A k, l \in 1..Len(m.created) : k < l => m.created[k] < m.created[l]
        <3> SUFFICES ASSUME NEW k \in 1..Len(m.created), NEW l \in 1..Len(m.created), k < l
                     PROVE  m.created[k] < m.created[l]
            OBVIOUS
        <3>1. m.created[k] = nextId + k - 1 /\ m.created[l] = nextId + l - 1
            BY <1>2
        <3> QED
            BY <3>1
    <2>2. \A i \in ConsListed(m) : i < m.next /\ (i \in Members(m.superseded) \/ m.view[i].by = 0)
        <3> SUFFICES ASSUME NEW i \in ConsListed(m)
                     PROVE  i < m.next /\ (i \in Members(m.superseded) \/ m.view[i].by = 0)
            OBVIOUS
        <3>1. i \in ConsIds
            BY <1>1, ConsMergeType, MembersIn DEF ConsListed
        <3>2. i < m.next
            <4>1. CASE i \in Members(m.created)
                <5>1. PICK k \in 1..Len(m.created) : i = m.created[k]
                    BY <4>1 DEF Members
                <5> QED
                    BY <1>2, <5>1
            <4>2. CASE i \in Members(m.updated) \cup Members(m.superseded)
                BY <1>1, <4>2 DEF MergeKeeps
            <4> QED
                BY <4>1, <4>2 DEF ConsListed
        <3>3. i \in Members(m.superseded) \/ m.view[i].by = 0
            BY <1>1, <1>8, <3>1 DEF ConsListed, MergeKeeps
        <3> QED
            BY <3>2, <3>3
    <2> QED
        BY <1>1, <2>1, <2>2, Zenon DEF ToWrite, MergeKnows
<1>11. \A i \in ConsIds : AsMerged(ltm, m, i) \/ (i \in Members(m.created) /\ ltm[i] = Consolidating!NoEntry)
    <2> SUFFICES ASSUME NEW i \in ConsIds
                 PROVE  AsMerged(ltm, m, i) \/ (i \in Members(m.created) /\ ltm[i] = Consolidating!NoEntry)
        OBVIOUS
    <2>1. CASE i < nextId
        BY <1>4, <2>1 DEF AsMerged
    <2>2. CASE ~(i < nextId) /\ i < m.next
        <3>1. i >= nextId
            BY <1>3, <2>2
        <3> QED
            BY <1>5, <1>7, <2>2, <3>1
    <2>3. CASE ~(i < nextId) /\ ~(i < m.next)
        <3>1. i >= nextId /\ i >= m.next
            BY <1>2, <1>3, <2>3
        <3>2. ltm[i] = m.view[i]
            BY <1>5, <1>6, <3>1
        <3> QED
            BY <3>2 DEF AsMerged
    <2> QED
        BY <2>1, <2>2, <2>3
<1>12. \A i \in ConsIds : ltm[i].by # 0 \/ ltm[i].text # NoText \/ ltm[i].supersedes # 0 => i < nextId
    <2>1. \A i \in ConsIds : ~(i >= nextId) => i < nextId
        BY <1>3
    <2> QED
        BY <1>5, <1>9, <2>1
<1>13. \A i \in ConsIds : i \in ConsListed(m) \/ ltm[i] = m.view[i]
    <2> SUFFICES ASSUME NEW i \in ConsIds, i \notin ConsListed(m) PROVE ltm[i] = m.view[i]
        OBVIOUS
    <2>1. CASE i < nextId
        BY <1>1, <2>1 DEF ConsListed, MergeKeeps
    <2>2. CASE ~(i < nextId)
        <3>1. i >= nextId
            BY <1>3, <2>2
        <3>2. ~(i < m.next)
            BY <1>7, <3>1 DEF ConsListed
        <3>3. i >= m.next
            BY <1>2, <1>3, <3>2
        <3> QED
            BY <1>5, <1>6, <3>1, <3>3
    <2> QED
        BY <2>1, <2>2
<1>14. \A i \in ConsIds : ltm[i].by \in {0, m.view[i].by}
    <2> SUFFICES ASSUME NEW i \in ConsIds, ltm[i].by # 0 PROVE ltm[i].by = m.view[i].by
        OBVIOUS
    <2>1. i < nextId
        BY <1>12
    <2>2. i \notin Members(m.updated) \cup Members(m.superseded)
        BY <1>1, <2>1 DEF MergeKeeps
    <2> QED
        BY <1>1, <2>1, <2>2 DEF MergeKeeps
<1>15. \A i \in ConsIds : ltm[i].by # 0 => AsMerged(ltm, m, ltm[i].by)
    <2> SUFFICES ASSUME NEW i \in ConsIds, ltm[i].by # 0 PROVE AsMerged(ltm, m, ltm[i].by)
        OBVIOUS
    <2> DEFINE b == ltm[i].by
    <2>1. b \in 0..MaxLtm
        <3>1. ltm[i] \in ConsEntry
            OBVIOUS
        <3> QED
            BY <3>1 DEF ConsEntry
    <2>2. b \in ConsIds
        BY <2>1, ConsBounds
    <2>3. ltm[b].supersedes = i
        BY <1>1 DEF Backed
    <2>4. b < nextId
        BY <1>3, <1>12, <2>2, <2>3
    <2> QED
        BY <1>4, <2>2, <2>4 DEF AsMerged
<1>16. \A i, j \in ConsIds : i < j /\ ltm[j].text # NoText => AsMerged(ltm, m, i)
    <2> SUFFICES ASSUME NEW i \in ConsIds, NEW j \in ConsIds, i < j, ltm[j].text # NoText PROVE AsMerged(ltm, m, i)
        OBVIOUS
    <2>1. j < nextId
        BY <1>12
    <2>2. i < nextId
        BY <1>3, <2>1
    <2> QED
        BY <1>4, <2>2 DEF AsMerged
<1> QED
    BY <1>10, <1>11, <1>13, <1>14, <1>15, <1>16 DEF HalfWritten

\* Half-written records are sound.
LEMMA HalfSound ==
    ASSUME NEW m \in ConsMerge, NEW v \in [ConsIds -> ConsEntry], NEW fs, NEW next, ToWrite(m, next, fs), HalfWritten(v, m)
    PROVE  Sound(v, next)
<1>1. /\ Backed(m.view) /\ Single(m.view) /\ Blank(m.view, m.next) /\ next = m.next
    BY DEF ToWrite, Sound
<1>2. \A i \in ConsIds : v[i].by \in 0..MaxLtm /\ i \in Nat
    BY ConsBounds DEF ConsEntry
<1>3. /\ \A i \in ConsIds : v[i].by \in {0, m.view[i].by} /\ (v[i].by # 0 => AsMerged(v, m, v[i].by))
      /\ \A i \in ConsIds : AsMerged(v, m, i) \/ (i \in Members(m.created) /\ v[i] = Consolidating!NoEntry)
      /\ \A i \in ConsIds : i \in ConsListed(m) \/ v[i] = m.view[i]
      /\ \A i, j \in ConsIds : i < j /\ v[j].text # NoText => AsMerged(v, m, i)
    BY DEF HalfWritten
<1>4. Consolidating!NoEntry.text = NoText
    BY DEF Consolidating!NoEntry
<1>5. Backed(v)
    <2> SUFFICES ASSUME NEW i \in ConsIds, v[i].by # 0 PROVE v[v[i].by].supersedes = i
        BY DEF Backed
    <2>1. v[i].by = m.view[i].by
        BY <1>3
    <2>2. m.view[v[i].by].supersedes = i
        BY <1>1, <2>1 DEF Backed
    <2> QED
        BY <1>3, <2>2 DEF AsMerged
<1>6. Single(v)
    <2> SUFFICES ASSUME NEW i \in ConsIds, NEW j \in ConsIds, i < j, v[i].text = v[j].text, v[j].text # NoText
                 PROVE  \E k \in 1..(j - 1) : v[k].supersedes = i
        BY DEF Single
    <2>1. m.view[i].text = v[i].text /\ m.view[j].text = v[j].text
        BY <1>3, <1>4 DEF AsMerged
    <2>2. PICK k \in 1..(j - 1) : m.view[k].supersedes = i
        BY <1>1, <2>1 DEF Single
    <2>3. k \in ConsIds /\ k < j
        BY <1>2, <2>2, ConsBounds
    <2>4. v[k].supersedes = m.view[k].supersedes
        BY <1>3, <2>3 DEF AsMerged
    <2> QED
        BY <2>2, <2>4
<1>7. Blank(v, m.next)
    <2> SUFFICES ASSUME NEW i \in ConsIds, i >= m.next PROVE v[i] = Consolidating!NoEntry
        BY DEF Blank
    <2>1. m.view[i] = Consolidating!NoEntry
        BY <1>1 DEF Blank
    <2>2. CASE i \notin ConsListed(m)
        BY <1>3, <2>1, <2>2
    <2>3. CASE i \in ConsListed(m)
        <3>1. i < m.next
            BY <2>3 DEF ToWrite
        <3> QED
            BY <1>2, <3>1, ConsMergeType
    <2> QED
        BY <2>2, <2>3
<1> QED
    BY <1>1, <1>5, <1>6, <1>7 DEF Sound

\* One more record is written.
OneMore(v, w, n, x) ==
    n + 1 \in 1..Len(w) /\ x = [v EXCEPT ![w[n + 1].id] = w[n + 1].entry]
LEMMA ConsWriteStep ==
    ASSUME NEW m \in ConsMerge, NEW v \in [ConsIds -> ConsEntry], NEW w, NEW n \in Nat, NEW fs, NEW next, NEW x,
           ToWrite(m, next, fs), WritesOf(m, w), HalfWritten(v, m), WrittenSoFar(v, m, w, n), OneMore(v, w, n, x)
    PROVE  /\ x \in [ConsIds -> ConsEntry] /\ HalfWritten(x, m) /\ WrittenSoFar(x, m, w, n + 1)
           /\ \A t \in ConsTexts : t \in TextsOf(v) => t \in TextsOf(x)
<1> PICK h : h = n + 1
    OBVIOUS
<1> PICK i : i = w[h].id
    OBVIOUS
<1> PICK e : e = w[h].entry
    OBVIOUS
<1> DEFINE c == Len(m.created)
           cu == Len(m.created) + Len(m.updated)
<1>1. c \in Nat /\ cu \in Nat /\ c <= cu /\ Len(m.superseded) \in Nat /\ Len(w) \in Nat
    <2>1. Len(m.created) \in Nat /\ Len(m.updated) \in Nat /\ Len(m.superseded) \in Nat
        BY ConsMergeType
    <2>2. Len(w) = Len(m.created) + Len(m.updated) + Len(m.superseded)
        BY Zenon DEF WritesOf
    <2>3. c \in Nat /\ cu \in Nat /\ c <= cu
        <3>1. \A a, b \in Nat : a \in Nat /\ a + b \in Nat /\ a <= a + b
            OBVIOUS
        <3> QED
            BY <2>1, <3>1, Zenon
    <2>4. Len(m.created) + Len(m.updated) + Len(m.superseded) \in Nat
        <3>1. \A a, b, d \in Nat : a + b + d \in Nat
            OBVIOUS
        <3> QED
            BY <2>1, <3>1, Zenon
    <2> HIDE DEF c, cu
    <2> QED
        BY <2>1, <2>2, <2>3, <2>4, Zenon
<1>2. n \in Nat /\ h \in 1..Len(w) /\ h \in Nat /\ \A k \in 1..h : k = h \/ k \in 1..n
    BY <1>1 DEF OneMore
<1>3. \A j \in ConsListed(m) : j \in ConsIds
    BY ConsMergeType, MembersIn DEF ConsListed
<1>4. /\ i \in ConsListed(m) /\ i \in ConsIds /\ e \in ConsEntry
      /\ e.text = m.view[i].text /\ e.supersedes = m.view[i].supersedes /\ e.updated = m.view[i].updated
      /\ e.by = (IF h <= cu THEN 0 ELSE m.view[i].by) /\ (h <= c => i = m.created[h])
    BY <1>2, <1>3 DEF WritesOf
<1>5. \A k \in 1..c : k \in 1..Len(w) /\ w[k].id = m.created[k]
    <2>1. Len(w) = cu + Len(m.superseded)
        BY Zenon DEF WritesOf
    <2>2. \A k \in 1..c : k \in 1..Len(w) /\ k <= c
        <3>1. \A a, b, d \in Nat : a <= b => \A k \in 1..a : k \in 1..(b + d) /\ k <= a
            OBVIOUS
        <3> HIDE DEF c, cu
        <3> QED
            BY <1>1, <2>1, <3>1, Zenon
    <2>3. \A k \in 1..Len(w) : k <= c => w[k].id = m.created[k]
        BY Zenon DEF WritesOf
    <2> QED
        BY <2>2, <2>3, Zenon
<1> HIDE DEF c, cu
<1>6. /\ \A j \in ConsIds : v[j].by \in {0, m.view[j].by} /\ (v[j].by # 0 => AsMerged(v, m, v[j].by))
      /\ \A j \in ConsIds : AsMerged(v, m, j) \/ (j \in Members(m.created) /\ v[j] = Consolidating!NoEntry)
      /\ \A j \in ConsIds : j \in ConsListed(m) \/ v[j] = m.view[j]
      /\ \A j, k \in ConsIds : j < k /\ v[k].text # NoText => AsMerged(v, m, j)
    BY DEF HalfWritten
<1>7. \A k \in 1..n : /\ AsMerged(v, m, w[k].id) /\ v[w[k].id].updated = m.view[w[k].id].updated
                      /\ (k > cu => v[w[k].id].by = m.view[w[k].id].by)
    BY Zenon DEF WrittenSoFar, cu
<1>8. x \in [ConsIds -> ConsEntry] /\ x[i] = e /\ \A j \in ConsIds : j # i => x[j] = v[j]
    <2>1. x = [v EXCEPT ![i] = e]
        BY DEF OneMore
    <2> QED
        BY <1>4, <2>1
<1>9. \A j \in ConsIds : AsMerged(v, m, j) \/ j = i => AsMerged(x, m, j)
    BY <1>4, <1>8 DEF AsMerged
<1>10. ASSUME NEW j \in ConsIds, j < i \/ h > c PROVE AsMerged(v, m, j)
    <2> SUFFICES ASSUME j \in Members(m.created) PROVE AsMerged(v, m, j)
        BY <1>6
    <2>1. PICK k \in 1..c : j = m.created[k]
        BY DEF Members, c
    <2>2. k < h
        <3>1. CASE h > c
            BY <1>1, <1>2, <3>1
        <3>2. CASE ~(h > c) /\ j < i
            <4>1. h \in 1..c /\ i = m.created[h]
                BY <1>1, <1>2, <1>4, <3>2
            <4>2. ~(h < k) /\ h # k
                <5>1. j \in Nat /\ i \in Nat
                    BY <1>4, ConsBounds
                <5>2. h < k => i < j
                    BY <2>1, <4>1 DEF ToWrite, c
                <5> QED
                    BY <2>1, <3>2, <4>1, <5>1, <5>2
            <4> QED
                BY <1>2, <4>2
        <3> QED
            BY <1>10, <3>1, <3>2
    <2>3. k \in 1..n
        BY <1>1, <1>2, <2>2
    <2> QED
        BY <1>5, <1>7, <2>1, <2>3
<1>11. \A j \in ConsIds : x[j].by \in {0, m.view[j].by}
    BY <1>4, <1>6, <1>8
<1>12. \A j \in ConsIds : x[j].by # 0 => AsMerged(x, m, x[j].by)
    <2> SUFFICES ASSUME NEW j \in ConsIds, x[j].by # 0 PROVE AsMerged(x, m, x[j].by)
        OBVIOUS
    <2>1. x[j].by \in ConsIds
        <3>1. x[j] \in ConsEntry
            BY <1>8
        <3>2. x[j].by \in 0..MaxLtm
            BY <3>1 DEF ConsEntry
        <3> QED
            BY <3>2, ConsBounds
    <2>2. CASE j = i
        <3>1. h > cu
            BY <1>1, <1>2, <1>4, <1>8, <2>2
        <3>2. h > c
            BY <1>1, <1>2, <3>1
        <3> QED
            BY <1>9, <1>10, <2>1, <3>2
    <2>3. CASE j # i
        <3>1. x[j] = v[j]
            BY <1>8, <2>3
        <3> QED
            BY <1>6, <1>9, <2>1, <3>1
    <2> QED
        BY <2>2, <2>3
<1>13. \A j \in ConsIds : AsMerged(x, m, j) \/ (j \in Members(m.created) /\ x[j] = Consolidating!NoEntry)
    BY <1>6, <1>8, <1>9
<1>14. \A j \in ConsIds : j \in ConsListed(m) \/ x[j] = m.view[j]
    BY <1>4, <1>6, <1>8
<1>15. \A j, k \in ConsIds : j < k /\ x[k].text # NoText => AsMerged(x, m, j)
    <2> SUFFICES ASSUME NEW j \in ConsIds, NEW k \in ConsIds, j < k, x[k].text # NoText PROVE AsMerged(x, m, j)
        OBVIOUS
    <2>1. CASE k = i
        BY <1>9, <1>10, <2>1
    <2>2. CASE k # i
        BY <1>6, <1>8, <1>9, <2>2
    <2> QED
        BY <2>1, <2>2
<1>16. HalfWritten(x, m)
    BY <1>11, <1>12, <1>13, <1>14, <1>15 DEF HalfWritten
<1>17. ASSUME NEW k \in 1..h
       PROVE  /\ AsMerged(x, m, w[k].id) /\ x[w[k].id].updated = m.view[w[k].id].updated
              /\ (k > cu => x[w[k].id].by = m.view[w[k].id].by)
    <2>1. w[k].id \in ConsIds
        <3>1. k \in 1..Len(w)
            BY <1>1, <1>2
        <3> QED
            BY <1>3, <3>1 DEF WritesOf
    <2>2. CASE w[k].id = i
        <3>1. k > cu => ~(h <= cu)
            BY <1>1, <1>2
        <3> QED
            BY <1>4, <1>8, <1>9, <2>2, <3>1
    <2>3. CASE w[k].id # i
        <3>1. k \in 1..n
            BY <1>2, <2>3
        <3>2. x[w[k].id] = v[w[k].id]
            BY <1>8, <2>1, <2>3
        <3> QED
            BY <1>7, <1>9, <2>1, <3>1, <3>2
    <2> QED
        BY <2>2, <2>3
<1>18. WrittenSoFar(x, m, w, h)
    <2>1. h \in Nat
        BY <1>2
    <2> QED
        BY <1>17, <2>1 DEF WrittenSoFar, cu
<1>19. ASSUME NEW t \in ConsTexts, t \in TextsOf(v) PROVE t \in TextsOf(x)
    <2>1. PICK j \in ConsIds : t = v[j].text
        BY <1>19 DEF TextsOf
    <2>2. t # NoText
        BY ConsBounds
    <2>3. CASE j # i
        BY <1>8, <2>1, <2>3 DEF TextsOf
    <2>4. CASE j = i
        <3>1. v[i] # Consolidating!NoEntry
            BY <2>1, <2>2, <2>4 DEF Consolidating!NoEntry
        <3>2. v[i].text = m.view[i].text
            BY <1>4, <1>6, <3>1, SMTT(30) DEF AsMerged
        <3> QED
            BY <1>4, <1>8, <2>1, <2>4, <3>2 DEF TextsOf
    <2> QED
        BY <2>3, <2>4
<1>20. WrittenSoFar(x, m, w, n + 1)
    BY <1>18
<1> QED
    BY <1>8, <1>16, <1>19, <1>20

\* Once all is written it is what the merge has made.
LEMMA ConsAllWritten ==
    ASSUME NEW m \in ConsMerge, NEW v \in [ConsIds -> ConsEntry], NEW w, NEW fs, NEW next, ToWrite(m, next, fs),
           WritesOf(m, w), HalfWritten(v, m), WrittenSoFar(v, m, w, Len(w))
    PROVE  v = m.view
<1>1. m.view \in [ConsIds -> ConsEntry]
    BY ConsMergeType
<1>2. ASSUME NEW i \in ConsIds PROVE v[i] = m.view[i]
    <2>1. v[i] \in ConsEntry /\ m.view[i] \in ConsEntry
        BY <1>1
    <2> SUFFICES ASSUME i \in ConsListed(m) PROVE v[i] = m.view[i]
        BY DEF HalfWritten
    <2>2. PICK n \in 1..Len(w) : w[n].id = i
        BY DEF WritesOf
    <2>3. AsMerged(v, m, i) /\ v[i].updated = m.view[i].updated
        BY <2>2 DEF WrittenSoFar
    <2>4. v[i].by = m.view[i].by
        <3>1. CASE i \in Members(m.superseded)
            <4>1. PICK k \in 1..Len(w) : k > Len(m.created) + Len(m.updated) /\ w[k].id = i
                BY <3>1 DEF WritesOf
            <4> QED
                BY <4>1 DEF WrittenSoFar
        <3>2. CASE i \notin Members(m.superseded)
            <4>1. m.view[i].by = 0
                BY <3>2 DEF ToWrite
            <4>2. v[i].by \in {0, m.view[i].by}
                BY DEF HalfWritten
            <4> QED
                BY <4>1, <4>2
        <3> QED
            BY <3>1, <3>2
    <2>5. \A e \in ConsEntry :
              e = [text |-> e.text, supersedes |-> e.supersedes, by |-> e.by, updated |-> e.updated]
        BY DEF ConsEntry
    <2> QED
        BY <2>1, <2>3, <2>4, <2>5 DEF AsMerged
<1> QED
    BY <1>1, <1>2

LEMMA ConsInitInv == Consolidating!Init => ConsInv
<1> SUFFICES ASSUME Consolidating!Init PROVE ConsInv
    OBVIOUS
<1> DEFINE none == Consolidating!NoEntry
<1>1. none.text = NoText /\ none.supersedes = 0 /\ none.by = 0 /\ none \in ConsEntry
    BY ConsBounds DEF Consolidating!NoEntry, ConsEntry
<1>2. ltm = [i \in ConsIds |-> none] /\ nextId = 1 /\ told = {}
    BY DEF Consolidating!Init, Consolidating!Nothing, ConsIds
<1>3. ltm \in [ConsIds -> ConsEntry] /\ \A i \in ConsIds : ltm[i] = none
    BY <1>1, <1>2
<1> HIDE DEF none
<1>4. Sound(ltm, nextId)
    BY <1>1, <1>3 DEF Sound, Backed, Single, Blank, none
<1>5. ConsKnown
    BY <1>2, <1>3, <1>4 DEF ConsKnown
<1>6. ConsCandidates
    <2>1. /\ stm = Consolidating!Records /\ resting = {} /\ batch = {} /\ thrown = FALSE
          /\ status = [r \in Consolidating!Records |-> "none"] /\ retries = [r \in Consolidating!Records |-> 0]
        BY Zenon DEF Consolidating!Init
    <2>2. 0 \in 0..MaxRetries /\ 0 < MaxRetries
        BY ConsBounds
    <2> QED
        BY <2>1, <2>2 DEF ConsCandidates
<1>7. ConsRunning
    BY ConsBounds DEF Consolidating!Init, ConsRunning
<1>8. phase # "writing"
    BY DEF Consolidating!Init
<1> QED
    BY <1>5, <1>6, <1>7, <1>8 DEF ConsInv

LEMMA ConsInvHolds == ConsInv => Consolidating!TypeOK /\ Consolidating!ConsolidationHeld
<1> SUFFICES ASSUME ConsInv PROVE Consolidating!TypeOK /\ Consolidating!ConsolidationHeld
    OBVIOUS
<1>1. ConsCandidates /\ ConsRunning /\ ConsKnown
    BY DEF ConsInv
<1>2. Consolidating!TypeOK
    <2>1. ltm \in [Consolidating!Ids -> [text : {TextA, TextB, TextC} \cup {NoText}, supersedes : 0..MaxLtm,
                                         by : 0..MaxLtm, updated : 0..MaxRuns]]
        BY <1>1, Zenon DEF ConsKnown, ConsEntry, ConsTexts, ConsIds
    <2>2. told \subseteq {TextA, TextB, TextC}
        BY <1>1 DEF ConsKnown, ConsTexts
    <2> QED
        BY <1>1, <2>1, <2>2, Zenon DEF ConsCandidates, ConsRunning, Consolidating!TypeOK
<1>3. told \subseteq {ltm[i].text : i \in Consolidating!Ids}
    BY <1>1, Zenon DEF ConsKnown, ConsIds
<1>4. \A i \in Consolidating!Ids : ltm[i].by # 0 => ltm[ltm[i].by].supersedes = i
    BY <1>1, Zenon DEF ConsKnown, Sound, Backed, ConsIds
<1>5. \A i, j \in Consolidating!Ids : i < j /\ ltm[i].text = ltm[j].text /\ ltm[j].text # NoText
                                          => \E k \in 1..(j - 1) : ltm[k].supersedes = i
    BY <1>1, Zenon DEF ConsKnown, Sound, Single, ConsIds
<1>6. phase = "writing" /\ written = Len(Consolidating!Writes) => ltm = merged.view
    <2> SUFFICES ASSUME phase = "writing", written = Len(Consolidating!Writes) PROVE ltm = merged.view
        OBVIOUS
    <2>1. /\ ToWrite(merged, nextId, facts) /\ HalfWritten(ltm, merged) /\ merged \in ConsMerge
          /\ WrittenSoFar(ltm, merged, Consolidating!Writes, Len(Consolidating!Writes))
        BY DEF ConsInv, ToWrite
    <2>2. WritesOf(merged, Consolidating!Writes) /\ ltm \in [ConsIds -> ConsEntry]
        BY <1>1, <2>1, WritesAre DEF ConsKnown
    <2> QED
        BY <2>1, <2>2, ConsAllWritten
<1>7. \A r \in Consolidating!Records : status[r] = "processing" => r \in batch \/ thrown
    BY <1>1, Zenon DEF ConsCandidates
<1> QED
    BY <1>2, <1>3, <1>4, <1>5, <1>6, <1>7, Zenon DEF Consolidating!ConsolidationHeld

\* A candidate that has failed is not in progress any more.
LEMMA ConsFails ==
    ASSUME ConsCandidates, NEW S, S \subseteq Consolidating!Records, Consolidating!Fails(S)
    PROVE  /\ resting' \subseteq Consolidating!Records
           /\ status' \in [Consolidating!Records -> {"none", "processing", "consolidated", "failed", "skipped"}]
           /\ retries' \in [Consolidating!Records -> 0..MaxRetries]
           /\ \A r \in Consolidating!Records :
                  /\ status'[r] # "skipped" => retries'[r] < MaxRetries
                  /\ status'[r] = "processing" => status[r] = "processing" /\ r \notin S
<1> DEFINE hit == {r \in S : status[r] = "processing"}
           last == {r \in hit : retries[r] + 1 >= MaxRetries}
<1>1. /\ status' = [r \in Consolidating!Records |->
                       IF r \in last THEN "skipped" ELSE IF r \in hit THEN "failed" ELSE status[r]]
      /\ retries' = [r \in Consolidating!Records |-> retries[r] + (IF r \in hit THEN 1 ELSE 0)]
      /\ resting' = resting \cup (hit \ last)
    BY DEF Consolidating!Fails
<1>2. /\ status \in [Consolidating!Records -> {"none", "processing", "consolidated", "failed", "skipped"}]
      /\ retries \in [Consolidating!Records -> 0..MaxRetries] /\ resting \subseteq Consolidating!Records
      /\ \A r \in Consolidating!Records : status[r] # "skipped" => retries[r] < MaxRetries
      /\ MaxRetries \in Nat
    BY ConsBounds DEF ConsCandidates
<1>3. \A r \in hit : r \in Consolidating!Records /\ r \in S /\ status[r] = "processing"
    OBVIOUS
<1>4. \A r \in hit : r \notin last => retries[r] + 1 < MaxRetries
    BY <1>2, <1>3
<1>5. last \subseteq hit
    OBVIOUS
<1>6. \A r \in Consolidating!Records : r \notin hit => ~(r \in S /\ status[r] = "processing")
    OBVIOUS
<1> HIDE DEF hit, last
<1>7. resting' \subseteq Consolidating!Records
    BY <1>1, <1>2, <1>3
<1>8. status' \in [Consolidating!Records -> {"none", "processing", "consolidated", "failed", "skipped"}]
    BY <1>1, <1>2
<1>9. ASSUME NEW r \in Consolidating!Records
      PROVE  /\ retries'[r] \in 0..MaxRetries
             /\ status'[r] # "skipped" => retries'[r] < MaxRetries
             /\ status'[r] = "processing" => status[r] = "processing" /\ r \notin S
    <2>1. retries'[r] = retries[r] + (IF r \in hit THEN 1 ELSE 0) /\ retries[r] \in 0..MaxRetries
        BY <1>1, <1>2
    <2>2. status'[r] = IF r \in last THEN "skipped" ELSE IF r \in hit THEN "failed" ELSE status[r]
        BY <1>1
    <2>3. CASE r \in hit
        <3>1. retries'[r] = retries[r] + 1 /\ retries[r] < MaxRetries
            BY <1>2, <1>3, <2>1, <2>3
        <3> QED
            BY <1>2, <1>4, <2>1, <2>2, <2>3, <3>1
    <2>4. CASE r \notin hit
        <3>1. retries'[r] = retries[r] /\ status'[r] = status[r]
            BY <1>5, <2>1, <2>2, <2>4
        <3> QED
            BY <1>2, <1>6, <2>1, <2>4, <3>1
    <2> QED
        BY <2>3, <2>4
<1>10. retries' \in [Consolidating!Records -> 0..MaxRetries]
    <2>1. retries' = [r \in Consolidating!Records |-> retries'[r]]
        BY <1>1
    <2> QED
        BY <1>9, <2>1, Zenon
<1> QED
    BY <1>7, <1>8, <1>9, <1>10

\* A run that ends leaves memory as it is.
LEMMA ConsEnds ==
    ASSUME ConsInv, Consolidating!EndsRun, ConsCandidates', ltm' = ltm, nextId' = nextId, runs' = runs,
           told' \subseteq ConsTexts, told' \subseteq {ltm[i].text : i \in ConsIds}
    PROVE  ConsInv'
<1>1. phase' = "idle" /\ batch' = {} /\ attempt' = 0
    BY DEF Consolidating!EndsRun
<1>2. ConsKnown'
    BY DEF ConsInv, ConsKnown, Sound, Backed, Single, Blank
<1>3. ConsRunning'
    BY <1>1, ConsBounds DEF ConsInv, ConsRunning
<1> QED
    BY <1>1, <1>2, <1>3 DEF ConsInv

\* A step that leaves what is known and to be written.
LEMMA ConsLeaves ==
    ASSUME ConsInv, ConsCandidates', ConsRunning', phase' # "writing",
           UNCHANGED <<ltm, nextId, told>>
    PROVE  ConsInv'
<1>1. ConsKnown'
    BY DEF ConsInv, ConsKnown, Sound, Backed, Single, Blank
<1> QED
    BY <1>1 DEF ConsInv

LEMMA ConsSelect == ASSUME ConsInv, Consolidating!Select PROVE ConsInv'
<1>1. /\ phase = "idle" /\ runs < MaxRuns /\ runs' = runs + 1 /\ phase' = "distilling"
      /\ batch' = Consolidating!Oldest(Consolidating!Eligible)
      /\ status' = [r \in Consolidating!Records |-> IF r \in batch' THEN "processing" ELSE status[r]]
      /\ UNCHANGED <<stm, retries, resting, attempt, ltm, nextId, told, thrown>>
    BY Zenon DEF Consolidating!Select
<1>2. ConsCandidates /\ ConsRunning
    BY DEF ConsInv
<1>3. batch' \subseteq Consolidating!Eligible
    BY <1>1 DEF Consolidating!Oldest
<1>4. \A r \in batch' : r \in Consolidating!Records /\ status[r] # "skipped"
    BY <1>2, <1>3 DEF Consolidating!Eligible, ConsCandidates
<1>5. batch = {}
    BY <1>1, <1>2 DEF ConsRunning
<1>6. ConsCandidates'
    BY <1>1, <1>2, <1>4, <1>5 DEF ConsCandidates
<1>7. ConsRunning'
    BY <1>1, <1>2, ConsBounds DEF ConsRunning
<1> QED
    BY <1>1, <1>6, <1>7, ConsLeaves

LEMMA ConsDistilled == ASSUME ConsInv, Consolidating!Distilled PROVE ConsInv'
<1>1. ConsCandidates /\ ConsRunning /\ \A r \in batch : r \in Consolidating!Records
    BY DEF ConsInv, ConsCandidates
<1>2. UNCHANGED <<stm, attempt, ltm, nextId, runs, told, thrown>>
    BY Zenon DEF Consolidating!Distilled
<1> PICK n \in 0..MaxFacts : \E fs \in [1..n -> Consolidating!FactsOf(batch)] :
          /\ nextId + n <= MaxLtm + 1 /\ facts' = fs
          /\ Consolidating!Fails(batch \ UNION {fs[i].from : i \in 1..n})
          /\ IF n = 0 THEN phase' = "idle" /\ batch' = {} ELSE phase' = "merging" /\ UNCHANGED batch
    BY Zenon DEF Consolidating!Distilled
<1>3. PICK fs \in [1..n -> Consolidating!FactsOf(batch)] :
          /\ nextId + n <= MaxLtm + 1 /\ facts' = fs
          /\ Consolidating!Fails(batch \ UNION {fs[i].from : i \in 1..n})
          /\ IF n = 0 THEN phase' = "idle" /\ batch' = {} ELSE phase' = "merging" /\ UNCHANGED batch
    OBVIOUS
<1>4. n \in Nat
    BY ConsBounds
<1> PICK S : S = batch \ UNION {fs[i].from : i \in 1..n}
    OBVIOUS
<1>5. S \subseteq batch /\ (n = 0 => S = batch) /\ S \subseteq Consolidating!Records
    BY <1>1, <1>4
<1>6. /\ resting' \subseteq Consolidating!Records
      /\ status' \in [Consolidating!Records -> {"none", "processing", "consolidated", "failed", "skipped"}]
      /\ retries' \in [Consolidating!Records -> 0..MaxRetries]
      /\ \A r \in Consolidating!Records :
             /\ status'[r] # "skipped" => retries'[r] < MaxRetries
             /\ status'[r] = "processing" => status[r] = "processing" /\ r \notin S
    BY <1>1, <1>3, <1>5, ConsFails
<1>7. batch' \subseteq batch /\ (batch' = batch \/ n = 0)
    BY <1>3
<1>8. ConsCandidates'
    <2>1. \A r \in Consolidating!Records : status'[r] = "processing" => r \in batch' \/ thrown'
        BY <1>1, <1>2, <1>5, <1>6, <1>7 DEF ConsCandidates
    <2> QED
        BY <1>1, <1>2, <1>6, <1>7, <2>1 DEF ConsCandidates
<1>9. facts' \in Seq(ConsFact) /\ Len(facts') = n
    <2>1. \A f \in Consolidating!FactsOf(batch) : f \in ConsFact
        BY <1>1 DEF Consolidating!FactsOf, ConsFact, ConsTexts
    <2> HIDE DEF Consolidating!FactsOf
    <2>2. fs \in [1..n -> ConsFact]
        BY <2>1
    <2> QED
        BY <1>3, <1>4, <2>2
<1>10. ConsRunning'
    <2>1. phase' \in {"idle", "merging"} /\ (phase' = "idle" => batch' = {})
        BY <1>3
    <2> QED
        BY <1>1, <1>2, <1>3, <1>9, <2>1 DEF ConsRunning
<1>11. phase' # "writing"
    BY <1>3
<1> QED
    BY <1>2, <1>8, <1>10, <1>11, ConsLeaves

LEMMA ConsMergeInv == ASSUME ConsInv, Consolidating!Merge PROVE ConsInv'
<1>1. /\ phase = "merging" /\ phase' = "writing" /\ merged' = Consolidating!Merged
      /\ nextId' = Consolidating!Merged.next /\ written' = 0 /\ attempt' = 1
      /\ UNCHANGED <<stm, status, retries, resting, batch, facts, ltm, runs, told, thrown>>
    BY Zenon DEF Consolidating!Merge, Consolidating!candidates
<1>2. ConsCandidates /\ ConsRunning /\ ConsKnown
    BY DEF ConsInv
<1>3. /\ facts \in Seq(ConsFact) /\ nextId \in 1..(MaxLtm + 1) /\ runs \in 0..MaxRuns
      /\ nextId + Len(facts) <= MaxLtm + 1
    BY <1>1, <1>2 DEF ConsRunning
<1>4. ltm \in [ConsIds -> ConsEntry] /\ Sound(ltm, nextId)
    BY <1>2 DEF ConsKnown
<1> PICK m : m = Consolidating!Merged
    OBVIOUS
<1>5. MergeGood(m, Len(facts))
    BY <1>3, <1>4, MergedGood
<1>6. m \in ConsMerge /\ m.next \in 1..(MaxLtm + 1)
    BY <1>5, ConsMergeType DEF MergeGood
<1>7. ToWrite(m, m.next, facts) /\ HalfWritten(ltm, m)
    BY <1>3, <1>4, <1>5, ConsMergeStep
<1>8. Sound(ltm, m.next)
    BY <1>4, <1>6, <1>7, HalfSound
<1>9. ConsCandidates'
    BY <1>1, <1>2, Zenon DEF ConsCandidates
<1>10. ConsRunning'
    BY <1>1, <1>2, <1>3, <1>6, ConsBounds DEF ConsRunning
<1>11. ConsKnown'
    BY <1>1, <1>2, <1>8, Zenon DEF ConsKnown
<1>12. WrittenSoFar(ltm', merged', (Consolidating!Writes)', written')
    BY <1>1 DEF WrittenSoFar
<1>13. ToWrite(merged', nextId', facts') /\ HalfWritten(ltm', merged')
    BY <1>1, <1>7, Zenon
<1> QED
    BY <1>9, <1>10, <1>11, <1>12, <1>13, Zenon DEF ConsInv

LEMMA ConsSameWrites == ASSUME merged' = merged PROVE (Consolidating!Writes)' = Consolidating!Writes
BY Zenon DEF Consolidating!Writes, Consolidating!Unsuperseded, Consolidating!Superseded, Consolidating!Record

LEMMA WritesCounted ==
    ASSUME NEW m \in ConsMerge, NEW w, WritesOf(m, w)
    PROVE  Len(w) \in Nat
<1>1. Len(m.created) \in Nat /\ Len(m.updated) \in Nat /\ Len(m.superseded) \in Nat
    BY ConsMergeType
<1>2. Len(w) = Len(m.created) + Len(m.updated) + Len(m.superseded)
    BY Zenon DEF WritesOf
<1> DEFINE a == Len(m.created)
<1> DEFINE b == Len(m.updated)
<1> DEFINE c == Len(m.superseded)
<1>3. a \in Nat /\ b \in Nat /\ c \in Nat /\ Len(w) = a + b + c
    BY <1>1, <1>2
<1> HIDE DEF a, b, c
<1> QED
    BY <1>3

LEMMA ConsWrite == ASSUME ConsInv, Consolidating!Write PROVE ConsInv'
<1>1. /\ phase = "writing" /\ written < Len(Consolidating!Writes) /\ written' = written + 1
      /\ ltm' = [ltm EXCEPT ![Consolidating!Writes[written'].id] = Consolidating!Writes[written'].entry]
      /\ UNCHANGED <<stm, status, retries, resting, phase, batch, facts, merged, attempt, nextId, runs, told, thrown>>
    BY Zenon DEF Consolidating!Write, Consolidating!candidates
<1>2. ConsCandidates /\ ConsRunning /\ ConsKnown
    BY DEF ConsInv
<1> PICK w : w = Consolidating!Writes
    OBVIOUS
<1>3. /\ ToWrite(merged, nextId, facts) /\ HalfWritten(ltm, merged) /\ WrittenSoFar(ltm, merged, w, written)
      /\ merged \in ConsMerge
    BY <1>1, Zenon DEF ConsInv, ToWrite
<1>4. WritesOf(merged, w)
    BY <1>3, WritesAre
<1>5. written \in Nat /\ written + 1 \in 1..Len(w)
    <2>1. Len(w) \in Nat
        BY <1>3, <1>4, WritesCounted
    <2>2. written \in Nat
        BY <1>3 DEF WrittenSoFar
    <2> QED
        BY <1>1, <2>1, <2>2
<1>6. ltm \in [ConsIds -> ConsEntry] /\ told \subseteq ConsTexts /\ told \subseteq TextsOf(ltm)
    BY <1>2 DEF ConsKnown, TextsOf
<1>7. /\ ltm' \in [ConsIds -> ConsEntry] /\ HalfWritten(ltm', merged) /\ WrittenSoFar(ltm', merged, w, written + 1)
      /\ \A t \in ConsTexts : t \in TextsOf(ltm) => t \in TextsOf(ltm')
    <2> PICK n \in Nat : n = written
        BY <1>5
    <2> PICK x : x = ltm'
        OBVIOUS
    <2>1. OneMore(ltm, w, n, x) /\ WrittenSoFar(ltm, merged, w, n)
        BY <1>1, <1>3, <1>5, Zenon DEF OneMore
    <2>2. /\ x \in [ConsIds -> ConsEntry] /\ HalfWritten(x, merged) /\ WrittenSoFar(x, merged, w, n + 1)
          /\ \A t \in ConsTexts : t \in TextsOf(ltm) => t \in TextsOf(x)
        BY <1>3, <1>4, <1>6, <2>1, ConsWriteStep
    <2> QED
        BY <2>2
<1>8. Sound(ltm', nextId)
    BY <1>3, <1>7, HalfSound
<1>9. ConsKnown'
    <2>1. ltm' \in [ConsIds -> ConsEntry] /\ Sound(ltm', nextId')
        BY <1>1, <1>7, <1>8
    <2>2. told' \subseteq ConsTexts /\ told' \subseteq {ltm'[i].text : i \in ConsIds}
        BY <1>1, <1>6, <1>7 DEF TextsOf
    <2> QED
        BY <2>1, <2>2, Zenon DEF ConsKnown
<1>10. ConsCandidates'
    BY <1>1, <1>2, Zenon DEF ConsCandidates
<1>11. ConsRunning'
    BY <1>1, <1>2, Zenon DEF ConsRunning
<1>12. (Consolidating!Writes)' = w
    BY <1>1, ConsSameWrites
<1> QED
    BY <1>1, <1>3, <1>7, <1>9, <1>10, <1>11, <1>12, Zenon DEF ConsInv

LEMMA ConsWriteFails == ASSUME ConsInv, Consolidating!WriteFails PROVE ConsInv'
<1>1. /\ phase = "writing" /\ attempt < Attempts /\ attempt' = attempt + 1 /\ written' = 0
      /\ UNCHANGED <<stm, status, retries, resting, phase, batch, facts, merged, ltm, nextId, runs, told, thrown>>
    BY Zenon DEF Consolidating!WriteFails, Consolidating!candidates
<1>2. ConsCandidates /\ ConsRunning /\ ConsKnown
    BY DEF ConsInv
<1>3. ConsCandidates' /\ ConsKnown'
    BY <1>1, <1>2, Zenon DEF ConsCandidates, ConsKnown
<1>4. attempt' \in 0..Attempts
    BY <1>1, <1>2, ConsBounds DEF ConsRunning
<1>5. ConsRunning'
    BY <1>1, <1>2, <1>4, Zenon DEF ConsRunning
<1>6. WrittenSoFar(ltm', merged', (Consolidating!Writes)', written')
    BY <1>1 DEF WrittenSoFar
<1>7. ToWrite(merged', nextId', facts') /\ HalfWritten(ltm', merged')
    BY <1>1, Zenon DEF ConsInv
<1> QED
    BY <1>3, <1>5, <1>6, <1>7, Zenon DEF ConsInv

LEMMA ConsCompletes == ASSUME ConsInv, Consolidating!Completes PROVE ConsInv'
<1>1. /\ phase = "writing" /\ written = Len(Consolidating!Writes)
      /\ status' = [r \in Consolidating!Records |-> IF r \in batch /\ status[r] = "processing"
                                                    THEN "consolidated" ELSE status[r]]
      /\ told' = told \cup ({f.text : f \in Consolidating!ToSet(facts)} \ merged.skipped)
      /\ Consolidating!EndsRun
      /\ UNCHANGED <<stm, retries, resting, ltm, nextId, runs, thrown>>
    BY Zenon DEF Consolidating!Completes
<1>2. ConsCandidates /\ ConsRunning /\ ConsKnown
    BY DEF ConsInv
<1>3. ltm = merged.view
    BY <1>1, ConsInvHolds DEF Consolidating!ConsolidationHeld
<1>4. ConsCandidates'
    <2>1. batch' = {}
        BY <1>1 DEF Consolidating!EndsRun
    <2>2. \A r \in Consolidating!Records :
              /\ status'[r] \in {"none", "processing", "consolidated", "failed", "skipped"}
              /\ status'[r] # "skipped" => retries[r] < MaxRetries
              /\ status'[r] = "processing" => thrown
        BY <1>1, <1>2 DEF ConsCandidates
    <2>3. status' \in [Consolidating!Records -> {"none", "processing", "consolidated", "failed", "skipped"}]
        BY <1>1, <1>2 DEF ConsCandidates
    <2> QED
        BY <1>1, <1>2, <2>1, <2>2, <2>3 DEF ConsCandidates
<1>5. ASSUME NEW t \in told' PROVE t \in ConsTexts /\ t \in {ltm[i].text : i \in ConsIds}
    <2>1. CASE t \in told
        BY <1>2, <2>1 DEF ConsKnown
    <2>2. CASE t \notin told
        <3>1. PICK f \in Consolidating!ToSet(facts) : t = f.text /\ t \notin merged.skipped
            BY <1>1, <2>2
        <3>2. PICK k \in 1..Len(facts) : f = facts[k]
            BY <3>1 DEF Consolidating!ToSet
        <3>3. facts \in Seq(ConsFact)
            BY <1>1, <1>2 DEF ConsRunning
        <3>4. t \in ConsTexts
            BY <3>1, <3>2, <3>3, ConsFactText
        <3>5. facts[k].text \in merged.skipped \cup {merged.view[i].text : i \in ConsIds}
            BY <1>1 DEF ConsInv, ToWrite
        <3> QED
            BY <1>3, <3>1, <3>2, <3>4, <3>5
    <2> QED
        BY <2>1, <2>2
<1> QED
    BY <1>1, <1>4, <1>5, ConsEnds

LEMMA ConsGivesUp == ASSUME ConsInv, Consolidating!GivesUp \/ Consolidating!Throws \/ Consolidating!Restart PROVE ConsInv'
<1>1. ConsCandidates /\ ConsRunning /\ ConsKnown
    BY DEF ConsInv
<1>2. Consolidating!EndsRun /\ UNCHANGED <<stm, ltm, nextId, runs, told>>
    BY Zenon DEF Consolidating!GivesUp, Consolidating!Throws, Consolidating!Restart
<1>3. batch' = {}
    BY <1>2 DEF Consolidating!EndsRun
<1>4. told' \subseteq ConsTexts /\ told' \subseteq {ltm[i].text : i \in ConsIds}
    BY <1>1, <1>2 DEF ConsKnown
<1>5. CASE Consolidating!GivesUp
    <2>1. Consolidating!Fails(batch) /\ thrown' = thrown
        BY <1>5, Zenon DEF Consolidating!GivesUp
    <2>2. batch \subseteq Consolidating!Records
        BY <1>1 DEF ConsCandidates
    <2>3. /\ resting' \subseteq Consolidating!Records
          /\ status' \in [Consolidating!Records -> {"none", "processing", "consolidated", "failed", "skipped"}]
          /\ retries' \in [Consolidating!Records -> 0..MaxRetries]
          /\ \A r \in Consolidating!Records :
                 /\ status'[r] # "skipped" => retries'[r] < MaxRetries
                 /\ status'[r] = "processing" => status[r] = "processing" /\ r \notin batch
        BY <1>1, <2>1, <2>2, ConsFails
    <2>4. ConsCandidates'
        BY <1>1, <1>2, <1>3, <2>1, <2>3 DEF ConsCandidates
    <2> QED
        BY <1>2, <1>4, <2>4, ConsEnds
<1>6. CASE Consolidating!Throws
    <2>1. thrown' = TRUE /\ UNCHANGED <<status, retries, resting>>
        BY <1>6, Zenon DEF Consolidating!Throws, Consolidating!candidates
    <2>2. ConsCandidates'
        BY <1>1, <1>2, <1>3, <2>1 DEF ConsCandidates
    <2> QED
        BY <1>2, <1>4, <2>2, ConsEnds
<1>7. CASE Consolidating!Restart
    <2>1. /\ status' = [r \in Consolidating!Records |-> "none"] /\ retries' = [r \in Consolidating!Records |-> 0]
          /\ resting' = {} /\ thrown' = FALSE
        BY <1>7, Zenon DEF Consolidating!Restart
    <2>2. 0 \in 0..MaxRetries /\ 0 < MaxRetries
        BY ConsBounds
    <2>3. ConsCandidates'
        BY <1>1, <1>2, <1>3, <2>1, <2>2 DEF ConsCandidates
    <2> QED
        BY <1>2, <1>4, <2>3, ConsEnds
<1> QED
    BY <1>5, <1>6, <1>7

LEMMA ConsBeside ==
    ASSUME ConsInv, stm' \subseteq stm, resting' \subseteq resting,
           UNCHANGED <<status, retries, phase, batch, facts, merged, written, attempt, ltm, nextId, runs, told, thrown>>
    PROVE  ConsInv'
<1>1. ConsCandidates /\ ConsRunning /\ ConsKnown
    BY DEF ConsInv
<1>2. stm' \subseteq Consolidating!Records /\ resting' \subseteq Consolidating!Records
    BY <1>1 DEF ConsCandidates
<1>3. ConsCandidates'
    BY <1>1, <1>2, Zenon DEF ConsCandidates
<1>4. ConsRunning' /\ ConsKnown'
    BY <1>1, Zenon DEF ConsRunning, ConsKnown
<1>5. (Consolidating!Writes)' = Consolidating!Writes
    BY ConsSameWrites
<1> QED
    BY <1>3, <1>4, <1>5, Zenon DEF ConsInv

LEMMA ConsNextInv == ConsInv /\ [Consolidating!Next]_consolidationVars => ConsInv'
<1> SUFFICES ASSUME ConsInv, [Consolidating!Next]_consolidationVars PROVE ConsInv'
    OBVIOUS
<1>1. CASE UNCHANGED consolidationVars
    BY <1>1, ConsBeside DEF consolidationVars
<1>2. ASSUME NEW r \in Consolidating!Records, Consolidating!WindowEnds(r) \/ Consolidating!Forget(r) PROVE ConsInv'
    BY <1>2, ConsBeside DEF Consolidating!WindowEnds, Consolidating!Forget, Consolidating!run, Consolidating!candidates
<1> QED
    BY <1>1, <1>2, ConsSelect, ConsDistilled, ConsMergeInv, ConsWrite, ConsWriteFails, ConsCompletes, ConsGivesUp
       DEF Consolidating!Next

-----------------------------------------------------------------------------
(* Types of the wizard and of an installation, also when calls overlap: the *)
(* wizard goes past its last step once at most for each call that executes. *)

Executing == {c \in WizardCalls : wizardAt[c] = "executing"}

WizardPlaces ==
    /\ wizardAt \in [WizardCalls -> {"idle", "executing", "saving"}] /\ step \in [WizardCalls -> 0..NumSteps]
    /\ config \in [WizardCalls -> Wizard!Files]
    /\ \A c \in Executing : step[c] \in Wizard!Steps
WizardReach == index \in Nat /\ index + Cardinality(Executing) <= NumSteps + Cardinality(WizardCalls)
WizardSteps == {done, answered, acked} \subseteq SUBSET Wizard!Steps /\ checkpoint \in Wizard!Files
WizardFlags ==
    /\ restarts \in 0..MaxRestarts /\ acts \in 0..MaxActs
    /\ {announced, strayed, wizardOverlapped, lost} \subseteq BOOLEAN
WizardBounds == WizardPlaces /\ WizardReach /\ WizardSteps /\ WizardFlags

LEMMA WizardCounts == ASSUME NEW S PROVE Wizard!Cardinality(S) = Cardinality(S)
BY DEF Wizard!Cardinality, Cardinality

\* Calls that execute are counted.
LEMMA CallsCounted ==
    /\ Cardinality(WizardCalls) \in Nat
    /\ \A S \in SUBSET WizardCalls :
           /\ Cardinality(S) \in Nat /\ Cardinality(S) <= Cardinality(WizardCalls)
           /\ \A c \in WizardCalls :
                  /\ Cardinality(S \cup {c}) = IF c \in S THEN Cardinality(S) ELSE Cardinality(S) + 1
                  /\ Cardinality(S \ {c}) = IF c \in S THEN Cardinality(S) - 1 ELSE Cardinality(S)
<1>1. IsFiniteSet(WizardCalls)
    <2>1. Wizard!IsFiniteSet(WizardCalls)
        BY UpkeepLimits DEF Wizard!WizardLimits
    <2> QED
        BY <2>1 DEF Wizard!IsFiniteSet, IsFiniteSet
<1>2. Cardinality(WizardCalls) \in Nat
    BY <1>1, FS_CardinalityType
<1> SUFFICES ASSUME NEW S \in SUBSET WizardCalls
             PROVE  /\ Cardinality(S) \in Nat /\ Cardinality(S) <= Cardinality(WizardCalls)
                    /\ \A c \in WizardCalls :
                          /\ Cardinality(S \cup {c}) = IF c \in S THEN Cardinality(S) ELSE Cardinality(S) + 1
                          /\ Cardinality(S \ {c}) = IF c \in S THEN Cardinality(S) - 1 ELSE Cardinality(S)
    BY <1>2
<1>3. IsFiniteSet(S) /\ Cardinality(S) <= Cardinality(WizardCalls)
    BY <1>1, FS_Subset
<1>4. Cardinality(S) \in Nat
    BY <1>3, FS_CardinalityType
<1>5. \A c \in WizardCalls :
          /\ Cardinality(S \cup {c}) = IF c \in S THEN Cardinality(S) ELSE Cardinality(S) + 1
          /\ Cardinality(S \ {c}) = IF c \in S THEN Cardinality(S) - 1 ELSE Cardinality(S)
    BY <1>3, FS_AddElement, FS_RemoveElement
<1> QED
    BY <1>3, <1>4, <1>5

LEMMA WizardBoundsHold == WizardBounds => Wizard!TypeOK
<1> SUFFICES ASSUME WizardBounds PROVE Wizard!TypeOK
    OBVIOUS
<1>1. Executing \in SUBSET WizardCalls
    BY DEF Executing
<1>2. Cardinality(Executing) \in Nat /\ Cardinality(WizardCalls) \in Nat /\ NumSteps \in Nat
    BY <1>1, CallsCounted, UpkeepLimits DEF Wizard!WizardLimits
<1>3. index \in 0..(NumSteps + Wizard!Cardinality(WizardCalls))
    <2>1. Wizard!Cardinality(WizardCalls) = Cardinality(WizardCalls)
        BY WizardCounts
    <2>2. index \in Nat /\ index <= NumSteps + Cardinality(WizardCalls)
        BY <1>2 DEF WizardBounds, WizardReach
    <2> QED
        BY <1>2, <2>1, <2>2
<1>4. done \subseteq Wizard!Steps /\ answered \subseteq Wizard!Steps /\ acked \subseteq Wizard!Steps /\ checkpoint \in Wizard!Files
    BY DEF WizardBounds, WizardSteps
<1> QED
    BY <1>3, <1>4, Zenon DEF WizardBounds, WizardPlaces, WizardFlags, Wizard!TypeOK

\* What a checkpoint made at any index says, and where a checkpoint resumes.
LEMMA ConfigTyped ==
    ASSUME NEW i \in Nat, NEW d \in SUBSET Wizard!Steps
    PROVE  Wizard!Config(i, d) \in Wizard!Files
<1> USE UpkeepLimits DEF Wizard!WizardLimits
<1>1. Wizard!Complete(i) \in BOOLEAN /\ Wizard!Current(i) \in 0..NumSteps
    BY DEF Wizard!Complete, Wizard!Current
<1> QED
    BY <1>1 DEF Wizard!Config, Wizard!Files

LEMMA ResumeTyped ==
    ASSUME NEW f \in Wizard!Files
    PROVE  Wizard!ResumeIndex(f) \in 0..NumSteps
<1> USE UpkeepLimits DEF Wizard!WizardLimits
<1>1. f.complete \in BOOLEAN /\ f.current \in 0..NumSteps /\ f.done \in SUBSET Wizard!Steps
    BY DEF Wizard!Files
<1>2. ASSUME f.done # Wizard!Steps PROVE Wizard!Least(Wizard!Steps \ f.done) \in 1..NumSteps
    <2>1. Wizard!Steps \ f.done # {}
        BY <1>1, <1>2
    <2>2. Wizard!Steps \ f.done \subseteq 1..NumSteps /\ Wizard!Steps \ f.done \subseteq Nat
        BY DEF Wizard!Steps
    <2>3. PICK m \in Wizard!Steps \ f.done : \A j \in Wizard!Steps \ f.done : m <= j
        BY <2>1, <2>2, LeastNumber
    <2>4. Wizard!Least(Wizard!Steps \ f.done) = m
        BY <2>2, <2>3, LeastIs
    <2> QED
        BY <2>2, <2>4
<1> QED
    BY <1>1, <1>2 DEF Wizard!ResumeIndex

LEMMA WizardInitTyped == Wizard!Init => WizardBounds
<1> SUFFICES ASSUME Wizard!Init PROVE WizardBounds
    OBVIOUS
<1> USE UpkeepLimits DEF Wizard!WizardLimits
<1>1. Executing = {} /\ index = 0 /\ Cardinality(Executing) = 0
    <2>1. Executing = {} /\ index = 0
        BY DEF Executing, Wizard!Init
    <2> QED
        BY <2>1, FS_EmptySet
<1>2. WizardPlaces
    BY <1>1, NoCheckpoint DEF Wizard!Init, WizardPlaces
<1>3. WizardReach
    BY <1>1, CallsCounted DEF WizardReach
<1>4. WizardSteps
    BY NoCheckpoint DEF Wizard!Init, WizardSteps
<1>5. WizardFlags
    <2>1. MaxRestarts \in Nat /\ MaxActs \in Nat
        OBVIOUS
    <2>2. restarts = 0 /\ acts = 0
        BY DEF Wizard!Init
    <2>3. {announced, strayed, wizardOverlapped, lost} \subseteq BOOLEAN
        BY DEF Wizard!Init
    <2> QED
        BY <2>1, <2>2, <2>3 DEF WizardFlags
<1> QED
    BY <1>2, <1>3, <1>4, <1>5 DEF WizardBounds

\* Call c ends.
LEMMA EndsTyped ==
    ASSUME WizardBounds, NEW c \in WizardCalls, Wizard!Ends(c)
    PROVE  WizardPlaces' /\ Executing' = Executing \ {c}
<1> USE UpkeepLimits DEF Wizard!WizardLimits
<1>1. /\ wizardAt' \in [WizardCalls -> {"idle", "executing", "saving"}] /\ wizardAt'[c] = "idle"
      /\ step' \in [WizardCalls -> 0..NumSteps] /\ config' \in [WizardCalls -> Wizard!Files]
      /\ \A d \in WizardCalls \ {c} : wizardAt'[d] = wizardAt[d] /\ step'[d] = step[d]
    BY NoCheckpoint DEF WizardBounds, WizardPlaces, Wizard!Ends
<1>2. Executing' = Executing \ {c} /\ Executing \subseteq WizardCalls
    BY <1>1 DEF Executing
<1>3. \A d \in Executing' : step'[d] \in Wizard!Steps
    BY <1>1, <1>2 DEF WizardBounds, WizardPlaces
<1> QED
    BY <1>1, <1>2, <1>3 DEF WizardPlaces, Wizard!Steps, Wizard!Files

\* Call c answers step s; it is one of those that execute, or a step is left.
LEMMA AnswersTyped ==
    ASSUME WizardBounds, NEW c \in WizardCalls, NEW s \in Wizard!Steps, NEW d \in SUBSET Wizard!Steps,
           Wizard!Answers(c, s, d), step' \in [WizardCalls -> 0..NumSteps],
           \A b \in WizardCalls \ {c} : step'[b] = step[b],
           c \in Executing \/ index < NumSteps
    PROVE  WizardPlaces' /\ WizardReach' /\ done' \subseteq Wizard!Steps /\ answered' \subseteq Wizard!Steps
<1> USE UpkeepLimits DEF Wizard!WizardLimits
<1>1. /\ done' = d /\ index' = index + 1 /\ answered' = answered \cup {s}
      /\ wizardAt' = [wizardAt EXCEPT ![c] = "saving"]
      /\ config' = [config EXCEPT ![c] = Wizard!Config(index + 1, d)]
    BY DEF Wizard!Answers
<1>2. index \in Nat /\ Wizard!Config(index + 1, d) \in Wizard!Files
    BY ConfigTyped DEF WizardBounds, WizardReach
<1>3. /\ wizardAt' \in [WizardCalls -> {"idle", "executing", "saving"}] /\ wizardAt'[c] = "saving"
      /\ config' \in [WizardCalls -> Wizard!Files]
      /\ \A b \in WizardCalls \ {c} : wizardAt'[b] = wizardAt[b]
    BY <1>1, <1>2 DEF WizardBounds, WizardPlaces
<1>4. Executing' = Executing \ {c}
    BY <1>3 DEF Executing
<1>5. WizardPlaces'
    <2>1. \A b \in Executing' : step'[b] \in Wizard!Steps
        BY <1>4 DEF Executing, WizardBounds, WizardPlaces
    <2> QED
        BY <1>3, <2>1 DEF WizardPlaces, Wizard!Files, Wizard!Steps
<1>6. WizardReach'
    <2>1. Executing \in SUBSET WizardCalls
        BY DEF Executing
    <2>2. /\ Cardinality(Executing) \in Nat /\ Cardinality(WizardCalls) \in Nat
          /\ Cardinality(Executing \ {c}) = IF c \in Executing THEN Cardinality(Executing) - 1 ELSE Cardinality(Executing)
          /\ Cardinality(Executing) <= Cardinality(WizardCalls)
        BY <2>1, CallsCounted
    <2>3. index + Cardinality(Executing) <= NumSteps + Cardinality(WizardCalls)
        BY DEF WizardBounds, WizardReach
    <2>4. index' \in Nat /\ index' + Cardinality(Executing') <= NumSteps + Cardinality(WizardCalls)
        BY <1>1, <1>2, <1>4, <2>2, <2>3
    <2> QED
        BY <2>4 DEF WizardReach
<1> QED
    BY <1>1, <1>5, <1>6 DEF WizardBounds, WizardSteps

\* The calls stay where they are, and the wizard is moved to a step or its end.
LEMMA MovesTyped ==
    ASSUME WizardBounds, UNCHANGED <<wizardAt, step, config>>, index' \in 0..NumSteps
    PROVE  WizardPlaces' /\ WizardReach'
<1>1. Executing' = Executing /\ Executing \in SUBSET WizardCalls
    BY DEF Executing
<1>2. WizardPlaces'
    BY <1>1 DEF WizardBounds, WizardPlaces, Wizard!Files, Wizard!Steps
<1>3. WizardReach'
    <2>1. /\ Cardinality(Executing) \in Nat /\ Cardinality(WizardCalls) \in Nat
          /\ Cardinality(Executing) <= Cardinality(WizardCalls) /\ NumSteps \in Nat
        BY <1>1, CallsCounted, UpkeepLimits DEF Wizard!WizardLimits
    <2>2. index' \in Nat /\ index' + Cardinality(Executing') <= NumSteps + Cardinality(WizardCalls)
        BY <1>1, <2>1
    <2> QED
        BY <2>2 DEF WizardReach
<1> QED
    BY <1>2, <1>3

\* next(), back(), skip() and the handler that is asked.
LEMMA KeysTyped ==
    ASSUME WizardBounds,
           \/ Wizard!NextStep \/ Wizard!Back
           \/ \E c \in WizardCalls : Wizard!Skip(c) \/ Wizard!Ask(c)
    PROVE  WizardBounds'
<1> USE UpkeepLimits DEF Wizard!WizardLimits
<1>1. ASSUME Wizard!Key PROVE acts' \in 0..MaxActs /\ wizardOverlapped' \in BOOLEAN
    BY <1>1 DEF WizardBounds, WizardFlags, Wizard!Key
<1>2. index \in Nat /\ (index < NumSteps => Wizard!Current(index) = index + 1 /\ index + 1 \in Wizard!Steps)
      /\ (~(index < NumSteps) => Wizard!Current(index) = 0)
      /\ (Wizard!Complete(index) <=> ~(index < NumSteps))
    BY DEF WizardBounds, WizardReach, Wizard!Current, Wizard!Complete, Wizard!Steps
<1>3. CASE Wizard!NextStep
    <2>1. index' \in 0..NumSteps /\ answered' \subseteq Wizard!Steps
        BY <1>2, <1>3 DEF WizardBounds, WizardSteps, Wizard!NextStep
    <2>2. WizardPlaces' /\ WizardReach'
        BY <1>3, <2>1, MovesTyped DEF Wizard!NextStep, Wizard!procs
    <2>3. announced' \in BOOLEAN
        BY <1>3 DEF WizardBounds, WizardFlags, Wizard!NextStep, Wizard!Complete
    <2> QED
        BY <1>1, <1>3, <2>1, <2>2, <2>3
        DEF WizardBounds, WizardSteps, WizardFlags, Wizard!NextStep, Wizard!Files, Wizard!Steps
<1>4. CASE Wizard!Back
    <2>1. index' = index - 1 /\ index' \in Nat
        BY <1>2, <1>4 DEF Wizard!Back
    <2>2. Executing' = Executing /\ Executing \in SUBSET WizardCalls
        BY <1>4 DEF Executing, Wizard!Back, Wizard!procs
    <2>3. WizardReach'
        <3>1. Cardinality(Executing) \in Nat /\ Cardinality(WizardCalls) \in Nat
            BY <2>2, CallsCounted
        <3>2. index' + Cardinality(Executing') <= NumSteps + Cardinality(WizardCalls)
            BY <1>2, <2>1, <2>2, <3>1 DEF WizardBounds, WizardReach
        <3> QED
            BY <2>1, <3>2 DEF WizardReach
    <2>4. WizardPlaces'
        BY <1>4, <2>2 DEF WizardBounds, WizardPlaces, Wizard!Back, Wizard!procs, Wizard!Files, Wizard!Steps
    <2> QED
        BY <1>1, <1>4, <2>3, <2>4
        DEF WizardBounds, WizardSteps, WizardFlags, Wizard!Back, Wizard!Files, Wizard!Steps
<1>5. ASSUME NEW c \in WizardCalls, Wizard!Skip(c) PROVE WizardBounds'
    <2>1. index < NumSteps /\ Wizard!Current(index) = index + 1 /\ index + 1 \in Wizard!Steps
        BY <1>2, <1>5 DEF Wizard!Skip, Wizard!Steps
    <2>2. /\ step' \in [WizardCalls -> 0..NumSteps] /\ \A b \in WizardCalls \ {c} : step'[b] = step[b]
        BY <1>5 DEF WizardBounds, WizardPlaces, Wizard!Skip
    <2>3. WizardPlaces' /\ WizardReach' /\ done' \subseteq Wizard!Steps /\ answered' \subseteq Wizard!Steps
        BY <1>5, <2>1, <2>2, AnswersTyped DEF Wizard!Skip, WizardBounds, WizardSteps
    <2> QED
        BY <1>1, <1>5, <2>3
        DEF WizardBounds, WizardSteps, WizardFlags, Wizard!Skip, Wizard!Files, Wizard!Steps
<1>6. ASSUME NEW c \in WizardCalls, Wizard!Ask(c) PROVE WizardBounds'
    <2>1. index < NumSteps /\ Wizard!Current(index) = index + 1 /\ index + 1 \in Wizard!Steps
        BY <1>2, <1>6 DEF Wizard!Ask
    <2>2. /\ wizardAt' = [wizardAt EXCEPT ![c] = "executing"] /\ step' = [step EXCEPT ![c] = index + 1]
          /\ wizardAt[c] = "idle" /\ config' = config /\ index' = index
        BY <1>6, <2>1 DEF Wizard!Ask, Wizard!engine
    <2>3. /\ wizardAt' \in [WizardCalls -> {"idle", "executing", "saving"}] /\ step' \in [WizardCalls -> 0..NumSteps]
          /\ \A b \in WizardCalls : wizardAt'[b] = IF b = c THEN "executing" ELSE wizardAt[b]
          /\ \A b \in WizardCalls : step'[b] = IF b = c THEN index + 1 ELSE step[b]
        BY <2>1, <2>2 DEF WizardBounds, WizardPlaces, Wizard!Steps
    <2>4. Executing' = Executing \cup {c} /\ c \notin Executing /\ Executing \in SUBSET WizardCalls
        BY <2>2, <2>3 DEF Executing
    <2>5. WizardPlaces'
        BY <2>1, <2>2, <2>3, <2>4 DEF WizardBounds, WizardPlaces, Wizard!Files, Wizard!Steps
    <2>6. WizardReach'
        <3>1. Executing' \in SUBSET WizardCalls
            BY <2>4
        <3>2. /\ Cardinality(Executing') \in Nat /\ Cardinality(Executing') <= Cardinality(WizardCalls)
              /\ Cardinality(WizardCalls) \in Nat
            BY <3>1, CallsCounted
        <3>3. index' \in Nat /\ index' + Cardinality(Executing') <= NumSteps + Cardinality(WizardCalls)
            BY <1>2, <2>1, <2>2, <3>2
        <3> QED
            BY <3>3 DEF WizardReach
    <2> QED
        BY <1>1, <1>6, <2>5, <2>6
        DEF WizardBounds, WizardSteps, WizardFlags, Wizard!Ask, Wizard!engine, Wizard!Files, Wizard!Steps
<1> QED
    BY <1>3, <1>4, <1>5, <1>6

\* The handler answers, and the checkpoint is written or not.
LEMMA HandledTyped ==
    ASSUME WizardBounds, NEW c \in WizardCalls,
           \/ Wizard!Completed(c) \/ Wizard!Skipped(c) \/ Wizard!SaidBack(c) \/ Wizard!Refused(c)
           \/ Wizard!Saved(c) \/ Wizard!SaveFails(c)
    PROVE  WizardBounds'
<1> USE UpkeepLimits DEF Wizard!WizardLimits
<1>1. ASSUME wizardAt[c] = "executing" PROVE c \in Executing /\ step[c] \in Wizard!Steps
    BY <1>1 DEF Executing, WizardBounds, WizardPlaces
<1>2. CASE Wizard!Completed(c)
    <2>1. c \in Executing /\ step[c] \in Wizard!Steps /\ step' = step
        BY <1>1, <1>2 DEF Wizard!Completed
    <2>2. done \cup {step[c]} \in SUBSET Wizard!Steps
        BY <2>1 DEF WizardBounds, WizardSteps
    <2>3. WizardPlaces' /\ WizardReach' /\ done' \subseteq Wizard!Steps /\ answered' \subseteq Wizard!Steps
        BY <1>2, <2>1, <2>2, AnswersTyped DEF Wizard!Completed, WizardBounds, WizardPlaces
    <2> QED
        BY <1>2, <2>3 DEF WizardBounds, WizardSteps, WizardFlags, Wizard!Completed, Wizard!Files, Wizard!Steps
<1>3. CASE Wizard!Skipped(c)
    <2>1. c \in Executing /\ step[c] \in Wizard!Steps /\ done \in SUBSET Wizard!Steps
        BY <1>1, <1>3 DEF Wizard!Skipped, WizardBounds, WizardSteps
    <2>2. step' \in [WizardCalls -> 0..NumSteps] /\ \A b \in WizardCalls \ {c} : step'[b] = step[b]
        BY <1>3 DEF WizardBounds, WizardPlaces, Wizard!Skipped
    <2>3. WizardPlaces' /\ WizardReach' /\ done' \subseteq Wizard!Steps /\ answered' \subseteq Wizard!Steps
        BY <1>3, <2>1, <2>2, AnswersTyped DEF Wizard!Skipped
    <2> QED
        BY <1>3, <2>3 DEF WizardBounds, WizardSteps, WizardFlags, Wizard!Skipped, Wizard!Files, Wizard!Steps
<1>4. ASSUME Wizard!Ends(c), index' \in Nat, index' <= index PROVE WizardPlaces' /\ WizardReach'
    <2>1. Executing' = Executing \ {c} /\ WizardPlaces' /\ Executing \in SUBSET WizardCalls
        BY <1>4, EndsTyped DEF Executing
    <2>2. /\ Cardinality(Executing) \in Nat /\ Cardinality(WizardCalls) \in Nat
          /\ Cardinality(Executing \ {c}) = IF c \in Executing THEN Cardinality(Executing) - 1 ELSE Cardinality(Executing)
        BY <2>1, CallsCounted
    <2>3. index \in Nat /\ index + Cardinality(Executing) <= NumSteps + Cardinality(WizardCalls)
        BY DEF WizardBounds, WizardReach
    <2>4. index' + Cardinality(Executing') <= NumSteps + Cardinality(WizardCalls)
        BY <1>4, <2>1, <2>2, <2>3
    <2> QED
        BY <1>4, <2>1, <2>4 DEF WizardReach
<1>5. index \in Nat /\ index <= index
    BY DEF WizardBounds, WizardReach
<1>6. CASE Wizard!SaidBack(c)
    <2>1. Wizard!Ends(c) /\ index' = IF index > 0 THEN index - 1 ELSE 0
        BY <1>6 DEF Wizard!SaidBack
    <2>2. index' \in Nat /\ index' <= index
        BY <1>5, <2>1
    <2> QED
        BY <1>4, <1>6, <2>1, <2>2
        DEF WizardBounds, WizardSteps, WizardFlags, Wizard!SaidBack, Wizard!Files, Wizard!Steps
<1>7. CASE Wizard!Refused(c) \/ Wizard!SaveFails(c)
    <2>1. Wizard!Ends(c) /\ index' = index
          /\ UNCHANGED <<done, checkpoint, restarts, acts, announced, answered, acked, strayed, wizardOverlapped, lost>>
        BY <1>7 DEF Wizard!Refused, Wizard!SaveFails, Wizard!engine, Wizard!history
    <2> QED
        BY <1>4, <1>5, <2>1
        DEF WizardBounds, WizardSteps, WizardFlags, Wizard!Files, Wizard!Steps
<1>8. CASE Wizard!Saved(c)
    <2>1. /\ Wizard!Ends(c) /\ index' = index /\ checkpoint' = config[c] /\ acked' = acked \cup ({step[c]} \ {0})
          /\ announced' = (announced \/ Wizard!Complete(index))
          /\ UNCHANGED <<done, restarts, acts, answered, strayed, wizardOverlapped, lost>>
        BY <1>8 DEF Wizard!Saved, Wizard!engine
    <2>2. config[c] \in Wizard!Files /\ {step[c]} \ {0} \subseteq Wizard!Steps
        BY DEF WizardBounds, WizardPlaces, Wizard!Steps
    <2>3. announced' \in BOOLEAN
        BY <2>1 DEF WizardBounds, WizardFlags, Wizard!Complete
    <2>4. WizardPlaces' /\ WizardReach'
        BY <1>4, <1>5, <2>1
    <2>5. WizardSteps'
        BY <2>1, <2>2 DEF WizardBounds, WizardSteps, Wizard!Files, Wizard!Steps
    <2> QED
        BY <2>1, <2>3, <2>4, <2>5 DEF WizardBounds, WizardFlags
<1> QED
    BY <1>2, <1>3, <1>6, <1>7, <1>8

LEMMA RestartTyped == ASSUME WizardBounds, Wizard!Restart PROVE WizardBounds'
<1> USE UpkeepLimits DEF Wizard!WizardLimits
<1>1. PICK f \in {checkpoint} \cup {config[c] : c \in {d \in WizardCalls : wizardAt[d] = "saving"}}
                 \cup (IF \E c \in WizardCalls : wizardAt[c] = "saving" THEN {Wizard!NoFile} ELSE {}) :
          /\ checkpoint' = f /\ index' = Wizard!ResumeIndex(f) /\ done' = f.done
          /\ lost' = (lost \/ ~(acked \subseteq f.done))
    BY DEF Wizard!Restart
<1>2. f \in Wizard!Files
    BY <1>1, NoCheckpoint DEF WizardBounds, WizardPlaces, WizardSteps
<1>3. /\ wizardAt' = [c \in WizardCalls |-> "idle"] /\ step' = [c \in WizardCalls |-> 0]
      /\ config' = [c \in WizardCalls |-> Wizard!NoFile] /\ announced' = FALSE
      /\ restarts < MaxRestarts /\ restarts' = restarts + 1
      /\ UNCHANGED <<acts, answered, acked, strayed, wizardOverlapped>>
    BY DEF Wizard!Restart
<1>4. index' \in 0..NumSteps /\ done' \subseteq Wizard!Steps /\ lost' \in BOOLEAN
    <2>1. index' \in 0..NumSteps
        BY <1>1, <1>2, ResumeTyped
    <2>2. done' \subseteq Wizard!Steps
        BY <1>1, <1>2 DEF Wizard!Files
    <2>3. lost' \in BOOLEAN
        BY <1>1 DEF WizardBounds, WizardFlags
    <2> QED
        BY <2>1, <2>2, <2>3
<1>5. Executing' = {}
    BY <1>3 DEF Executing
<1>6. WizardPlaces'
    BY <1>3, <1>5, NoCheckpoint DEF WizardPlaces, Wizard!Files, Wizard!Steps
<1>7. WizardReach'
    <2>1. Cardinality(Executing') = 0 /\ Cardinality(WizardCalls) \in Nat
        BY <1>5, FS_EmptySet, CallsCounted
    <2> QED
        BY <1>4, <2>1 DEF WizardReach
<1>8. WizardSteps'
    BY <1>1, <1>2, <1>3, <1>4 DEF WizardBounds, WizardSteps, Wizard!Files, Wizard!Steps
<1>9. WizardFlags'
    <2>1. restarts' \in 0..MaxRestarts /\ acts' \in 0..MaxActs
        BY <1>3 DEF WizardBounds, WizardFlags
    <2>2. {announced', strayed', wizardOverlapped', lost'} \subseteq BOOLEAN
        BY <1>3, <1>4 DEF WizardBounds, WizardFlags
    <2> QED
        BY <2>1, <2>2 DEF WizardFlags
<1> QED
    BY <1>6, <1>7, <1>8, <1>9 DEF WizardBounds

LEMMA WizardNextTyped == WizardBounds /\ [Wizard!Next]_wizardVars => WizardBounds'
<1> SUFFICES ASSUME WizardBounds, [Wizard!Next]_wizardVars PROVE WizardBounds'
    OBVIOUS
<1>1. CASE UNCHANGED wizardVars
    BY <1>1 DEF wizardVars, WizardBounds, WizardPlaces, WizardReach, WizardSteps, WizardFlags, Executing,
                Wizard!Files, Wizard!Steps
<1>2. CASE Wizard!Next
    BY <1>2, KeysTyped, HandledTyped, RestartTyped DEF Wizard!Next
<1> QED
    BY <1>1, <1>2

InstallTyped == InstallTypes /\ installs \in 0..MaxInstalls /\ installOverlapped \in BOOLEAN

LEMMA InstallTypedHolds == InstallTyped => Install!TypeOK
BY Zenon DEF InstallTyped, InstallTypes, Install!TypeOK

LEMMA InstallInitTyped == Install!Init => InstallTyped
<1> SUFFICES ASSUME Install!Init PROVE InstallTyped
    OBVIOUS
<1>1. /\ form \in [Install!Versions -> {"native", "foreign", "invalid"}]
      /\ files \in [Install!Versions -> SUBSET Install!Files]
    <2>1. files \in [Install!Versions -> {F \in SUBSET Install!Files : "skill" \in F}]
        BY DEF Install!Init
    <2> QED
        BY <2>1 DEF Install!Init
<1>2. <<>> \in Seq(InstallCalls)
    OBVIOUS
<1>3. /\ MaxVersion \in Nat /\ MaxInstalls \in Nat
      /\ Install!Empty \in [Install!Files -> 0..MaxVersion]
    BY UpkeepLimits DEF Install!InstallLimits, Install!Empty
<1>4. /\ dir \in [Install!Files -> 0..MaxVersion] /\ good \in 0..MaxVersion
      /\ installs \in 0..MaxInstalls /\ installOverlapped \in BOOLEAN
    <2>1. dir = Install!Empty /\ good = 0 /\ installs = 0 /\ installOverlapped = FALSE
        BY DEF Install!Init
    <2>2. 0 \in 0..MaxVersion /\ 0 \in 0..MaxInstalls
        BY <1>3
    <2> QED
        BY <1>3, <2>1, <2>2
<1>5. /\ installAt \in [InstallCalls -> {"idle", "extracted", "converting", "copying", "migrated"}]
      /\ want \in [InstallCalls -> 0..MaxVersion] /\ placed \in [InstallCalls -> SUBSET Install!Files]
      /\ progress \in Seq(InstallCalls) /\ prev \in [InstallCalls -> Seq(InstallCalls)]
    BY <1>2, <1>3 DEF Install!Init
<1> QED
    BY <1>1, <1>4, <1>5 DEF InstallTyped, InstallTypes

LEMMA InstallNextTyped == InstallTyped /\ [Install!Next]_installVars => InstallTyped'
<1> SUFFICES ASSUME InstallTyped, [Install!Next]_installVars PROVE InstallTyped'
    OBVIOUS
<1> USE UpkeepLimits DEF Install!InstallLimits, Install!Versions
<1>1. CASE UNCHANGED installVars
    BY <1>1 DEF installVars, InstallTyped, InstallTypes, Install!Files
<1>2. <<>> \in Seq(InstallCalls)
    OBVIOUS
<1>3. CASE Install!Restart
    BY <1>2, <1>3 DEF InstallTyped, InstallTypes, Install!Restart, Install!package, Install!Files
<1>4. ASSUME NEW c \in InstallCalls, NEW v \in Install!Versions, Install!Start(c, v) PROVE InstallTyped'
    <2>1. installs' \in 0..MaxInstalls /\ installOverlapped' \in BOOLEAN
        BY <1>4 DEF InstallTyped, Install!Start
    <2>2. /\ installAt' \in [InstallCalls -> {"idle", "extracted", "converting", "copying", "migrated"}]
          /\ want' \in [InstallCalls -> 0..MaxVersion]
        BY <1>4 DEF InstallTyped, InstallTypes, Install!Start
    <2> QED
        BY <1>4, <2>1, <2>2 DEF InstallTyped, InstallTypes, Install!Start, Install!package, Install!Files
<1>5. ASSUME NEW c \in InstallCalls, Install!Prepare(c) PROVE InstallTyped'
    <2>1. progress' \in Seq(InstallCalls) /\ prev' \in [InstallCalls -> Seq(InstallCalls)]
        <3>1. <<c>> \in Seq(InstallCalls) /\ progress \in Seq(InstallCalls) /\ prev \in [InstallCalls -> Seq(InstallCalls)]
            BY DEF InstallTyped, InstallTypes
        <3>2. <<c>> \o progress \in Seq(InstallCalls)
            BY <3>1
        <3>3. [prev EXCEPT ![c] = progress] \in [InstallCalls -> Seq(InstallCalls)]
            BY <3>1
        <3>4. \/ prev' = [prev EXCEPT ![c] = progress] /\ progress' = <<c>> \o progress
              \/ UNCHANGED <<progress, prev>>
            BY <1>5 DEF Install!Prepare
        <3> QED
            BY <3>1, <3>2, <3>3, <3>4
    <2>2. /\ dir' \in [Install!Files -> 0..MaxVersion] /\ good' \in 0..MaxVersion
        <3>1. Install!Empty \in [Install!Files -> 0..MaxVersion] /\ 0 \in 0..MaxVersion
            BY DEF Install!Empty
        <3> QED
            BY <1>5, <3>1 DEF Install!Prepare
    <2>3. installAt' \in [InstallCalls -> {"idle", "extracted", "converting", "copying", "migrated"}]
        <3>1. installAt' = [installAt EXCEPT ![c] = "converting"] \/ installAt' = [installAt EXCEPT ![c] = "copying"]
            BY <1>5 DEF Install!Prepare
        <3> QED
            BY <3>1 DEF InstallTyped, InstallTypes
    <2> QED
        BY <1>5, <2>1, <2>2, <2>3 DEF InstallTyped, InstallTypes, Install!Prepare, Install!package, Install!Files
<1>6. ASSUME NEW c \in InstallCalls, Install!Convert(c) PROVE InstallTyped'
    BY <1>6 DEF InstallTyped, InstallTypes, Install!Convert, Install!package, Install!Files
<1>7. ASSUME NEW c \in InstallCalls, NEW f \in Install!Files, Install!Place(c, f) PROVE InstallTyped'
    <2>1. dir' \in [Install!Files -> 0..MaxVersion] /\ placed' \in [InstallCalls -> SUBSET Install!Files]
        BY <1>7 DEF InstallTyped, InstallTypes, Install!Place
    <2> QED
        BY <1>7, <2>1 DEF InstallTyped, InstallTypes, Install!Place, Install!package, Install!Files
<1>8. ASSUME NEW c \in InstallCalls, Install!Done(c) \/ Install!Fails(c) PROVE InstallTyped'
    <2>1. Install!Ends(c) /\ good' \in 0..MaxVersion /\ UNCHANGED <<form, files, dir, installs, installOverlapped>>
        BY <1>8 DEF InstallTyped, InstallTypes, Install!Done, Install!Fails, Install!package
    <2>2. /\ installAt' \in [InstallCalls -> {"idle", "extracted", "converting", "copying", "migrated"}]
          /\ want' \in [InstallCalls -> 0..MaxVersion] /\ placed' \in [InstallCalls -> SUBSET Install!Files]
          /\ prev' \in [InstallCalls -> Seq(InstallCalls)] /\ progress' \in Seq(InstallCalls)
        BY <1>2, <2>1 DEF InstallTyped, InstallTypes, Install!Ends
    <2> QED
        BY <2>1, <2>2 DEF InstallTyped, InstallTypes, Install!Files
<1>9. CASE Install!Next
    BY <1>3, <1>4, <1>5, <1>6, <1>7, <1>8, <1>9 DEF Install!Next
<1> QED
    BY <1>1, <1>9

-----------------------------------------------------------------------------
(* The whole: a step of MCUpkeep is a step of the part that runs.          *)

LEMMA PartSteps ==
    ASSUME [UpkeepNext]_allVars
    PROVE  /\ part' = part
           /\ part = "sessions" => [Sessions!Next]_sessionVars
           /\ part = "cron" => [Next]_vars
           /\ part # "cron" => UNCHANGED vars
           /\ part = "connect" => [Connect!Next]_connectVars
           /\ part = "wizard" => [Wizard!Next]_wizardVars
           /\ part = "install" => [Install!Next]_installVars
           /\ part = "consolidation" => [Consolidating!Next]_consolidationVars
BY DEF UpkeepNext, allVars, Rest, Parts

\* However sign-ins overlap, a server that listens is that of the pending sign-in or of
\* one being begun; and when none was begun or completed while another was under way, no
\* call waits for nothing and none the user approved is refused, for any calls and sign-ins.
THEOREM ConnectHeldAlways == UpkeepSpec => []ConnectHeld
<1> DEFINE AllInv == part = "connect" => ConnectInv
<1>1. UpkeepInit => AllInv
    BY ConnectInitInv DEF UpkeepInit
<1>2. AllInv /\ [UpkeepNext]_allVars => AllInv'
    BY PartSteps, ConnectNextInv
<1>3. AllInv => ConnectHeld
    BY ConnectInvHeld DEF ConnectHeld
<1> QED
    BY <1>1, <1>2, <1>3, PTL DEF UpkeepSpec

\* A session made while no other call held the file stays until it is deleted, and one
\* deleted so does not come back; as long as no calls overlap the file holds what was
\* last answered, whichever writes failed and wherever the process ended, for any calls
\* and sessions.
THEOREM SessionsKeptAlways == UpkeepSpec => []SessionsKept
<1> DEFINE AllInv == part = "sessions" => RepoInv
<1>1. UpkeepInit => AllInv
    BY RepoInitInv DEF UpkeepInit
<1>2. AllInv /\ [UpkeepNext]_allVars => AllInv'
    BY PartSteps, RepoNextInv
<1>3. AllInv => SessionsKept
    BY RepoInvKept DEF SessionsKept
<1> QED
    BY <1>1, <1>2, <1>3, PTL DEF UpkeepSpec

\* While no key is pressed during a call, the wizard loses no acknowledged step, skips and
\* repeats none, and says it ended only when the file does; and an installed skill is that
\* of one package, for any steps, calls and versions.
THEOREM SetupHeldAlways == UpkeepSpec => []SetupHeld
<1> DEFINE AllInv == /\ part = "wizard" => WizardInv
                     /\ part = "install" => InstallInv
<1>1. UpkeepInit => AllInv
    BY WizardInitInv, InstallInitInv DEF UpkeepInit
<1>2. AllInv /\ [UpkeepNext]_allVars => AllInv'
    BY PartSteps, WizardNextInv, InstallNextInv
<1>3. AllInv => SetupHeld
    BY WizardInvHolds, InstallInvHolds DEF SetupHeld
<1> QED
    BY <1>1, <1>2, <1>3, PTL DEF UpkeepSpec

\* A record that was superseded names the one that supersedes it, a text is there twice
\* only when a record older than the second superseded the first, and no fact of a batch
\* still under way is lost, whichever writes fail and wherever the process ends, for any
\* records, texts, retries and runs.
THEOREM ConsolidationHeldAlways == UpkeepSpec => []ConsolidationHeld
<1> DEFINE AllInv == part = "consolidation" => ConsInv
<1>1. UpkeepInit => AllInv
    BY ConsInitInv DEF UpkeepInit
<1>2. AllInv /\ [UpkeepNext]_allVars => AllInv'
    BY PartSteps, ConsNextInv
<1>3. AllInv => ConsolidationHeld
    BY ConsInvHolds DEF ConsolidationHeld
<1> QED
    BY <1>1, <1>2, <1>3, PTL DEF UpkeepSpec

\* Every part keeps its types, however its calls overlap, for any values of the constants:
\* the wizard, too, which keys pressed during a call take past its last step.
THEOREM UpkeepTyped == UpkeepSpec => []UpkeepTypeOK
<1> DEFINE AllInv == /\ part = "cron" => Inv
                     /\ part = "consolidation" => ConsInv
                     /\ part = "sessions" => RepoInv
                     /\ part = "connect" => ConnectInv
                     /\ part = "wizard" => WizardBounds
                     /\ part = "install" => InstallTyped
<1>1. UpkeepInit => AllInv
    BY InitInv, ConsInitInv, RepoInitInv, ConnectInitInv, WizardInitTyped, InstallInitTyped DEF UpkeepInit
<1>2. AllInv /\ [UpkeepNext]_allVars => AllInv'
    BY NextInv, PartSteps, ConsNextInv, RepoNextInv, ConnectNextInv, WizardNextTyped, InstallNextTyped
<1>3. AllInv => UpkeepTypeOK
    BY InvTypes, ConsInvHolds, RepoInvKept, ConnectTypesHold, WizardBoundsHold, InstallTypedHolds
    DEF UpkeepTypeOK, ConnectInv
<1> QED
    BY <1>1, <1>2, <1>3, PTL DEF UpkeepSpec
=============================================================================
