------------------------------ MODULE OAuthRefresh ------------------------------
(***************************************************************************)
(* OAuthRefreshManager (src/src/integrations/credentials/oauth-refresh.ts) *)
(* for one integration: a timer refreshes its token at 80 % of the token's *)
(* life, refreshNow does so on request, whoever comes while a refresh is   *)
(* under way joins it, transient failures are retried, and cancel, which   *)
(* the integration's end calls, forgets timer and refresh but stops        *)
(* nothing.  The provider (external) retires a refresh token when it is    *)
(* used.  Tokens are numbered as the provider issues them.                 *)
(***************************************************************************)
EXTENDS Naturals, FiniteSets

CONSTANTS
    Execs,        \* refreshes that can be started
    NoExec,
    MaxAttempts,  \* attempts of one refresh
    MaxTokens     \* bound: tokens ever issued

RefreshLimits ==
    NoExec \notin Execs /\ MaxAttempts \in Nat \ {0} /\ MaxTokens \in Nat \ {0}

VARIABLES
    latest,     \* the newest token issued: the only one the provider accepts
    vault,      \* the token in the vault, 0 when there is none
    timer,      \* a scheduled refresh
    inFlight,   \* the refresh that callers join
    at, token, attempt,   \* per refresh: where it is, its token, its attempt
    joined,     \* per refresh: how many other callers wait for it
    expired,    \* the integration's status is auth_expired
    cancelled,  \* a cancel found a refresh under way
    lost        \* an answer of the provider or a write of the vault was lost

execVars == <<at, token, attempt, joined>>
vars == <<latest, vault, timer, inFlight, execVars, expired, cancelled, lost>>

Active == {e \in Execs : at[e] \notin {"new", "ok", "failed"}}

Init ==
    /\ latest = 1 /\ vault = 1
    /\ timer = FALSE /\ inFlight = NoExec
    /\ at = [e \in Execs |-> "new"]
    /\ token = [e \in Execs |-> 0] /\ attempt = [e \in Execs |-> 0]
    /\ joined = [e \in Execs |-> 0]
    /\ expired = FALSE /\ cancelled = FALSE /\ lost = FALSE

Goes(e, place) == at' = [at EXCEPT ![e] = place]
\* refreshNow's finally: whichever refresh is registered is forgotten.
Ends(e, how) == Goes(e, how) /\ inFlight' = NoExec

\* scheduleRefresh, of an integration with a token.
Schedule ==
    /\ vault # 0 /\ ~timer /\ timer' = TRUE
    /\ UNCHANGED <<latest, vault, inFlight, execVars, expired, cancelled, lost>>

\* executeRefresh starts by loading the token.
Starts(e) ==
    /\ at[e] = "new"
    /\ inFlight' = e
    /\ token' = [token EXCEPT ![e] = vault]
    /\ attempt' = [attempt EXCEPT ![e] = 1]
    /\ Goes(e, "loading")
    /\ UNCHANGED joined
Joins ==
    /\ joined[inFlight] = 0 /\ joined' = [joined EXCEPT ![inFlight] = 1]
    /\ UNCHANGED <<inFlight, at, token, attempt>>

\* Mutant: the refresh under way is not looked for.
RefreshAlways(e) ==
    /\ Starts(e)
    /\ UNCHANGED <<latest, vault, timer, expired, cancelled, lost>>

\* refreshNow, by a caller or by the timer, which stays registered.
Refresh(e) ==
    /\ IF inFlight = NoExec THEN Starts(e) ELSE at[e] = "new" /\ Joins
    /\ UNCHANGED <<latest, vault, timer, expired, cancelled, lost>>

\* The token is there, or the refresh ends; ended by the timer it also drops it.
Loaded(e) ==
    /\ at[e] = "loading"
    /\ IF token[e] = 0
       THEN Ends(e, "failed") /\ timer' \in {timer, FALSE}
       ELSE Goes(e, "calling") /\ UNCHANGED <<inFlight, timer>>
    /\ UNCHANGED <<latest, vault, token, attempt, joined, expired, cancelled, lost>>

\* The provider accepts the newest token and answers with the next one.
Accepted(e) ==
    /\ at[e] = "calling" /\ token[e] = latest /\ latest < MaxTokens
    /\ latest' = latest + 1 /\ token' = [token EXCEPT ![e] = latest + 1]
    /\ Goes(e, "storing")
    /\ UNCHANGED <<vault, timer, inFlight, attempt, joined, expired, cancelled, lost>>
\* It refuses, cannot be reached, or its answer gets lost: after a transient
\* failure the refresh sleeps and tries again, otherwise the status says so.
Refused(e) ==
    /\ at[e] = "calling"
    /\ \/ UNCHANGED <<latest, lost>>
       \/ token[e] = latest /\ latest < MaxTokens /\ latest' = latest + 1 /\ lost' = TRUE
    /\ \/ attempt[e] < MaxAttempts /\ Goes(e, "sleeping")
       \/ Goes(e, "marking")
    /\ UNCHANGED <<vault, timer, inFlight, token, attempt, joined, expired, cancelled>>
\* The sleep is over: the newest token of the vault is used, if there is one.
Retry(e) ==
    /\ at[e] = "sleeping"
    /\ attempt' = [attempt EXCEPT ![e] = @ + 1]
    /\ token' = [token EXCEPT ![e] = IF vault = 0 THEN @ ELSE vault]
    /\ Goes(e, "calling")
    /\ UNCHANGED <<latest, vault, timer, inFlight, joined, expired, cancelled, lost>>

Store(e) ==
    /\ at[e] = "storing"
    /\ \/ vault' = token[e] /\ Goes(e, "rescheduling") /\ UNCHANGED <<inFlight, lost>>
       \/ Ends(e, "failed") /\ lost' = TRUE /\ UNCHANGED vault
    /\ UNCHANGED <<latest, timer, token, attempt, joined, expired, cancelled>>
\* scheduleRefresh reads the vault again.
Reschedule(e) ==
    /\ at[e] = "rescheduling"
    /\ IF vault = 0 THEN Ends(e, "failed") /\ UNCHANGED timer
                    ELSE Ends(e, "ok") /\ timer' = TRUE
    /\ UNCHANGED <<latest, vault, token, attempt, joined, expired, cancelled, lost>>
Mark(e) ==
    /\ at[e] = "marking"
    /\ Ends(e, "failed") /\ expired' = TRUE /\ timer' = FALSE
    /\ UNCHANGED <<latest, vault, token, attempt, joined, cancelled, lost>>

\* cancel, and the revocation of the credential by the integration that ends.
Cancel ==
    /\ timer' = FALSE /\ inFlight' = NoExec
    /\ cancelled' = (cancelled \/ Active # {})
    /\ vault' \in {vault, 0}
    /\ UNCHANGED <<latest, execVars, expired, lost>>
\* The user signs in again.
SignIn ==
    /\ vault = 0 /\ latest < MaxTokens
    /\ latest' = latest + 1 /\ vault' = latest + 1 /\ expired' = FALSE
    /\ UNCHANGED <<timer, inFlight, execVars, cancelled, lost>>

Progress(e) ==
    \/ Loaded(e) \/ Accepted(e) \/ Refused(e) \/ Retry(e) \/ Store(e) \/ Reschedule(e) \/ Mark(e)

Next ==
    \/ Schedule \/ Cancel \/ SignIn
    \/ \E e \in Execs : Refresh(e) \/ Progress(e)

Spec == Init /\ [][Next]_vars

----------------------------------------------------------------------------

TypeOK ==
    /\ latest \in 1..MaxTokens /\ vault \in 0..latest
    /\ timer \in BOOLEAN /\ inFlight \in Execs \cup {NoExec}
    /\ at \in [Execs -> {"new", "loading", "calling", "sleeping", "storing", "rescheduling",
                         "marking", "ok", "failed"}]
    /\ token \in [Execs -> 0..latest] /\ attempt \in [Execs -> 0..MaxAttempts]
    /\ joined \in [Execs -> 0..1]
    /\ expired \in BOOLEAN /\ cancelled \in BOOLEAN /\ lost \in BOOLEAN

\* Two refreshes never run at once, so that none uses a token the other has
\* retired, and at rest the vault holds the token the provider accepts: unless a
\* cancel let go of a refresh under way, or an answer or a write was lost.
OneRefreshKeepsToken ==
    /\ ~cancelled => Active = (IF inFlight = NoExec THEN {} ELSE {inFlight})
    /\ ~cancelled /\ ~lost /\ Active = {} => vault \in {0, latest}

\* No refresh is under way, and with it nobody waits for one.
Resting == Active = {}
=============================================================================
