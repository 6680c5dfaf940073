------------------------------ MODULE OAuthSession ------------------------------
(***************************************************************************)
(* The daemon's Anthropic sign-in.  Its tokens are kept as two records of  *)
(* the credential store: "oauth_anthropic" (A), from which the provider    *)
(* takes the token of a chat request, and "auth_anthropic_oauth" (B), from *)
(* which ProviderAuthService.getOAuthAccessToken takes it for the          *)
(* keepalive.  Either refreshes an expired pair on its own.  Token pairs   *)
(* are numbered in the order the token endpoint (external) issues them,    *)
(* and expire in that order; the endpoint may or may not retire the        *)
(* refresh tokens it issued before.                                        *)
(***************************************************************************)
EXTENDS Naturals

CONSTANTS
    Chats,       \* chat requests, each made at most once
    Keepalive, User,   \* the keepalive, and the user's sign-in or disconnect
    MaxPairs     \* bound: token pairs ever issued

VARIABLES
    latest,    \* pairs issued so far
    usable,    \* pairs whose refresh token the endpoint still accepts
    old,       \* pairs up to this one are expired, or will within five minutes
    file,      \* record -> the pair it holds, 0 when absent or revoked
    at,        \* per process: where it is
    pair,      \* per process: the pair it works with
    snap,      \* per process: the records it read before writing
    alone      \* no one but the keepalive has refreshed or written so far, and
               \* neither an answer, a read, a write nor the process was lost

SessionLimits ==
    /\ MaxPairs \in Nat \ {0}
    /\ Keepalive \notin Chats /\ User \notin Chats /\ Keepalive # User

endpoint == <<latest, usable, old>>
vars == <<endpoint, file, at, pair, snap, alone>>

Procs == Chats \cup {Keepalive, User}
Copies == {"A", "B"}
NoCopies == [r \in Copies |-> 0]
Quiet == {"idle", "armed", "retry", "unscheduled", "done"}

Init ==
    /\ latest = 1 /\ usable = {1} /\ old = 0
    /\ file = [r \in Copies |-> 1]
    /\ at = [p \in Procs |-> "idle"]
    /\ pair = [p \in Procs |-> 0]
    /\ snap = [p \in Procs |-> NoCopies]
    /\ alone = TRUE

Goes(p, place) == at' = [at EXCEPT ![p] = place]
Holds(p, g) == pair' = [pair EXCEPT ![p] = g]
\* What follows a failure: the keepalive's backoff timer, the caller's error.
Fails(p) == Goes(p, IF p = Keepalive THEN "retry" ELSE "done")

Expire == old < latest /\ old' = old + 1 /\ UNCHANGED <<latest, usable, file, at, pair, snap, alone>>

\* A process reads record r and goes on with its pair: not there, an error;
\* fresh, good as it is; expired, it asks the endpoint.
Uses(p, r) ==
    /\ Holds(p, file[r])
    /\ CASE file[r] = 0 -> Fails(p)
         [] file[r] > old -> Goes(p, IF p = Keepalive THEN "planning" ELSE "done")
         [] OTHER -> Goes(p, "refreshing")
    /\ UNCHANGED <<endpoint, file, snap, alone>>

\* provider.getAccessToken, for a chat.
Chat(c) == at[c] = "idle" /\ Uses(c, "A")

\* scheduleNextRefresh: the timer is set for the pair in A; with no tokens, or
\* when they cannot be read, none is set.
Plan ==
    /\ at[Keepalive] \in {"idle", "planning"}
    /\ \/ IF file["A"] = 0
          THEN Goes(Keepalive, "unscheduled") /\ UNCHANGED <<pair, alone>>
          ELSE Goes(Keepalive, "armed") /\ Holds(Keepalive, file["A"]) /\ UNCHANGED alone
       \/ Goes(Keepalive, "unscheduled") /\ alone' = FALSE /\ UNCHANGED pair
    /\ UNCHANGED <<endpoint, file, snap>>
\* doRefresh, when the timer fires: five minutes before the pair's expiry, or
\* after a backoff.
Fire ==
    /\ at[Keepalive] = "retry" \/ (at[Keepalive] = "armed" /\ pair[Keepalive] <= old)
    /\ Uses(Keepalive, "B")

\* completeOAuthCallback: the code is exchanged for a new pair.
SignIn ==
    /\ at[User] = "idle" /\ latest < MaxPairs
    /\ latest' = latest + 1
    /\ usable' \in {usable \cup {latest + 1}, {latest + 1}}
    /\ Holds(User, latest + 1) /\ Goes(User, "readA") /\ alone' = FALSE
    /\ UNCHANGED <<old, file, snap>>
\* revokeProvider: of the two records it revokes B.
Disconnect ==
    /\ at[User] = "idle"
    /\ Holds(User, 0) /\ Goes(User, "readB") /\ alone' = FALSE
    /\ UNCHANGED <<endpoint, file, snap>>

\* The endpoint answers a refresh; the answer may be lost.
Refreshed(p) ==
    /\ at[p] = "refreshing"
    /\ \/ /\ pair[p] \in usable /\ latest < MaxPairs
          /\ latest' = latest + 1
          /\ usable' \in {usable \cup {latest + 1}, {latest + 1}}
          /\ \/ Holds(p, latest + 1) /\ Goes(p, "readA") /\ alone' = (alone /\ p = Keepalive)
             \/ Fails(p) /\ alone' = FALSE /\ UNCHANGED pair
       \/ Fails(p) /\ UNCHANGED <<latest, usable, pair, alone>>
    /\ UNCHANGED <<old, file, snap>>

\* The store reads its whole file before it writes a record, and writes it back.
Read(p) ==
    /\ at[p] \in {"readA", "readB"}
    /\ snap' = [snap EXCEPT ![p] = file]
    /\ Goes(p, IF at[p] = "readA" THEN "writeA" ELSE "writeB")
    /\ UNCHANGED <<endpoint, file, pair, alone>>
\* A written, the auth service goes on to B; a chat is done with A.
Write(p) ==
    /\ at[p] \in {"writeA", "writeB"}
    /\ file' = [snap[p] EXCEPT ![IF at[p] = "writeA" THEN "A" ELSE "B"] = pair[p]]
    /\ Goes(p, CASE at[p] = "writeA" /\ p \notin Chats -> "readB"
                 [] at[p] = "writeB" /\ p = Keepalive -> "planning"
                 [] OTHER -> "done")
    /\ snap' = [snap EXCEPT ![p] = NoCopies]
    /\ UNCHANGED <<endpoint, pair, alone>>
StoreFails(p) ==
    /\ at[p] \in {"readA", "readB", "writeA", "writeB"}
    /\ Fails(p) /\ alone' = FALSE
    /\ UNCHANGED <<endpoint, file, pair, snap>>

\* The daemon restarts: what was in progress is lost, the keepalive starts anew.
Restart ==
    /\ \E p \in Procs : at[p] \notin Quiet
    /\ at' = [p \in Procs |-> IF p = Keepalive THEN "idle"
                              ELSE IF at[p] \in Quiet THEN at[p] ELSE "done"]
    /\ alone' = FALSE
    /\ UNCHANGED <<endpoint, file, pair, snap>>

Next ==
    \/ Expire \/ Plan \/ Fire \/ SignIn \/ Disconnect \/ Restart
    \/ \E c \in Chats : Chat(c)
    \/ \E p \in Procs : Refreshed(p) \/ Read(p) \/ Write(p) \/ StoreFails(p)

Spec == Init /\ [][Next]_vars

----------------------------------------------------------------------------

TypeOK ==
    /\ latest \in 1..MaxPairs /\ usable \subseteq 1..latest /\ old \in 0..latest
    /\ file \in [Copies -> 0..latest] /\ pair \in [Procs -> 0..latest]
    /\ snap \in [Procs -> [Copies -> 0..latest]]
    /\ at \in [Procs -> Quiet \cup {"planning", "refreshing", "readA", "readB", "writeA", "writeB"}]
    /\ alone \in BOOLEAN

\* As long as the keepalive alone refreshes, the session survives: between its
\* refreshes both records hold the newest pair, and the endpoint accepts it,
\* however often a refresh was refused.
KeepaliveKeepsSession ==
    alone /\ at[Keepalive] \in Quiet => /\ \A r \in Copies : file[r] = latest
                                        /\ latest \in usable

\* The keepalive does not ask for new tokens while a chat request is doing so.
KeepaliveYields ==
    [][at[Keepalive] # "refreshing" /\ at'[Keepalive] = "refreshing"
           => \A c \in Chats : at[c] # "refreshing"]_vars
=============================================================================
