------------------------------ MODULE OAuthConnect ------------------------------
(***************************************************************************)
(* Signing in with a provider: ProviderAuthService.initiateOAuth and       *)
(* completeOAuthCallback (src/src/providers/auth-service.ts), up to the    *)
(* tokens being stored (what becomes of them is OAuthSession's).  For most *)
(* providers a server on this machine waits for the browser to bring the   *)
(* code (flow.ts); for Anthropic the user pastes it, and its provider      *)
(* remembers the verifier of the sign-in begun last (anthropic.ts).        *)
(*                                                                         *)
(* Sign-ins are numbered; the code of one is its number.  The page of the  *)
(* provider, its token endpoint and what a provider of the first kind does *)
(* are external: the endpoint takes a code once, with its own verifier.    *)
(***************************************************************************)
EXTENDS Naturals

CONSTANTS
    Calls, NoCall, \* calls of completeOAuthCallback; none of them
    MaxSignIns     \* bound: sign-ins begun

VARIABLES
    kind,      \* of the provider: "local" or "anthropic"
    begun, open, \* sign-ins begun; those whose page the user was given
    listening, settled, heard, waiter, \* per server: runs, is settled, its callback, who waits
    pending,   \* pendingOAuthCallbackSessions of the provider, or pendingSession
    at, entry, code, \* per call: where it is, the pending one it found, its code
    given,     \* per call: it was given the verifier
    approved, spent, \* sign-ins the user approved, and those whose code was taken
    disturbed, \* history: one was begun or completed while another was under way
    refused    \* history: approved sign-ins that the program itself made fail

server == <<listening, settled, heard, waiter>>
call == <<at, entry, code, given>>
user == <<approved, spent>>
vars == <<kind, begun, open, server, pending, call, user, disturbed, refused>>

SignInLimits == MaxSignIns \in Nat /\ NoCall \notin Calls

SignIns == 1..MaxSignIns

Init ==
    /\ kind \in {"local", "anthropic"}
    /\ begun = 0 /\ open = {} /\ pending = 0
    /\ listening = {} /\ settled = {} /\ heard = [s \in SignIns |-> "nothing"]
    /\ waiter = [s \in SignIns |-> NoCall]
    /\ at = [c \in Calls |-> "idle"] /\ entry = [c \in Calls |-> 0]
    /\ code = [c \in Calls |-> 0] /\ given = [c \in Calls |-> FALSE]
    /\ approved = {} /\ spent = {} /\ disturbed = FALSE /\ refused = {}

Busy == \E c \in Calls : at[c] # "idle"

\* stop() of the server of s, if there is one; place is where the calls are.
Stops(s, place) ==
    /\ listening' = listening \ {s}
    /\ settled' = settled \cup ({s} \ {0})
    /\ at' = [c \in Calls |-> IF s # 0 /\ s \notin settled /\ waiter[s] = c
                              THEN "rejected" ELSE place[c]]
Finds(c, s, place) ==
    /\ entry' = [entry EXCEPT ![c] = s]
    /\ at' = [at EXCEPT ![c] = place]
EndsAs(c, place) == [place EXCEPT ![c] = "idle"]
Clears(c) ==
    /\ entry' = [entry EXCEPT ![c] = 0] /\ code' = [code EXCEPT ![c] = 0]
    /\ given' = [given EXCEPT ![c] = FALSE]

----------------------------------------------------------------------------
(* initiateOAuth. *)

Initiate ==
    /\ begun < MaxSignIns /\ begun' = begun + 1
    /\ disturbed' = (disturbed \/ pending # 0 \/ Busy \/ listening # {})
    /\ IF kind = "local"
       THEN listening' = listening \cup {begun'} /\ UNCHANGED <<open, pending>>
       ELSE pending' = begun' /\ open' = open \cup {begun'} /\ UNCHANGED listening
    /\ UNCHANGED <<kind, settled, heard, waiter, call, user, refused>>
\* The strategy has answered with the page: the server that was pending goes.
\* Mutant: it stays.
InitiatedKeeping(s) ==
    /\ kind = "local" /\ s \in listening \ open
    /\ pending' = s /\ open' = open \cup {s} /\ UNCHANGED <<at, listening, settled>>
    /\ UNCHANGED <<kind, begun, heard, waiter, entry, code, given, user, disturbed, refused>>
Initiated(s) ==
    /\ kind = "local" /\ s \in listening \ open
    /\ Stops(pending, at) /\ pending' = s /\ open' = open \cup {s}
    /\ UNCHANGED <<kind, begun, heard, waiter, entry, code, given, user, disturbed, refused>>
InitiateFails(s) ==
    /\ kind = "local" /\ s \in listening \ open
    /\ listening' = listening \ {s} /\ settled' = settled \cup {s}
    /\ UNCHANGED <<kind, begun, open, heard, waiter, pending, call, user, disturbed, refused>>

\* The user approves; the browser calls back, with the code or with an error.
\* What comes when all is settled changes nothing.
Approve(s) ==
    /\ s \in open \ approved /\ approved' = approved \cup {s}
    /\ UNCHANGED <<kind, begun, open, server, pending, call, spent, disturbed, refused>>
CallBack(s, what) ==
    /\ s \in (listening \cap open) \ settled /\ (what = "code" => s \in approved)
    /\ heard' = [heard EXCEPT ![s] = what]
    /\ IF waiter[s] = NoCall THEN UNCHANGED <<settled, at>>
       ELSE /\ settled' = settled \cup {s}
            /\ at' = [at EXCEPT ![waiter[s]] = IF what = "code" THEN "answered" ELSE "rejected"]
    /\ UNCHANGED <<kind, begun, open, listening, waiter, pending, entry, code, given, user,
                   disturbed, refused>>

----------------------------------------------------------------------------
(* completeOAuthCallback. *)

Begins(c) == at[c] = "idle" /\ disturbed' = (disturbed \/ Busy)

\* Without a code: waitForCallback.
Wait(c) ==
    /\ kind = "local" /\ pending # 0 /\ Begins(c)
    /\ IF pending \in settled THEN Finds(c, pending, "rejected") /\ UNCHANGED <<settled, waiter>>
       ELSE /\ waiter' = [waiter EXCEPT ![pending] = c]
            /\ IF heard[pending] = "nothing"
               THEN Finds(c, pending, "waiting") /\ UNCHANGED settled
               ELSE /\ Finds(c, pending, IF heard[pending] = "code" THEN "answered" ELSE "rejected")
                    /\ settled' = settled \cup {pending}
    /\ UNCHANGED <<kind, begun, open, listening, heard, pending, code, given, user, refused>>
Answered(c) ==
    /\ at[c] = "answered" /\ Finds(c, entry[c], "exchanging")
    /\ code' = [code EXCEPT ![c] = entry[c]]
    /\ UNCHANGED <<kind, begun, open, server, pending, given, user, disturbed, refused>>
Timeout(c) ==
    /\ at[c] = "waiting" /\ entry[c] \notin settled
    /\ settled' = settled \cup {entry[c]} /\ Finds(c, entry[c], "rejected")
    /\ UNCHANGED <<kind, begun, open, listening, heard, waiter, pending, code, given, user,
                   disturbed, refused>>
\* The wait has failed: what is pending now is stopped.
Rejected(c) ==
    /\ at[c] = "rejected"
    /\ Stops(pending, EndsAs(c, at)) /\ pending' = 0 /\ Clears(c)
    /\ refused' = refused \cup (IF heard[entry[c]] = "code" THEN {entry[c]} ELSE {})
    /\ UNCHANGED <<kind, begun, open, heard, waiter, user, disturbed>>

\* With the code of sign-in s, and perhaps its verifier.
Paste(c, s, v) ==
    /\ Begins(c) /\ s \in approved /\ (v => kind = "anthropic")
    /\ Finds(c, pending, "exchanging")
    /\ code' = [code EXCEPT ![c] = s] /\ given' = [given EXCEPT ![c] = v]
    /\ UNCHANGED <<kind, begun, open, server, pending, user, refused>>
\* Anthropic's session has grown too old: it is forgotten, and the user told so.
Expired(c, s) ==
    /\ kind = "anthropic" /\ at[c] = "idle" /\ s \in approved
    /\ pending # 0 /\ pending' = 0 /\ disturbed' = TRUE
    /\ UNCHANGED <<kind, begun, open, server, call, user, refused>>

\* PKCE: the verifier given, or the one remembered, is that of the code.
Verifies(c) == given[c] \/ (entry[c] # 0 /\ entry[c] = code[c])

\* The endpoint takes the code; the tokens are stored, or that fails.
Exchanged(c) ==
    /\ at[c] = "exchanging" /\ code[c] \notin spent /\ spent' = spent \cup {code[c]}
    /\ kind = "anthropic" => Verifies(c)
    /\ IF kind = "local" /\ entry[c] # 0 THEN Stops(pending, EndsAs(c, at)) /\ pending' = 0
       ELSE /\ at' = EndsAs(c, at) /\ UNCHANGED <<listening, settled>>
            /\ pending' \in IF kind = "anthropic" THEN {0, pending} ELSE {pending}
    /\ Clears(c)
    /\ UNCHANGED <<kind, begun, open, heard, waiter, approved, disturbed, refused>>
\* It does not, or does not answer.
ExchangeFails(c) ==
    /\ at[c] = "exchanging"
    /\ IF kind = "local" /\ entry[c] # 0 THEN Stops(pending, EndsAs(c, at)) /\ pending' = 0
       ELSE at' = EndsAs(c, at) /\ UNCHANGED <<listening, settled, pending>>
    /\ refused' = refused \cup (IF kind = "anthropic" /\ ~Verifies(c) THEN {code[c]} \ spent ELSE {})
    /\ Clears(c)
    /\ UNCHANGED <<kind, begun, open, heard, waiter, user, disturbed>>

Next ==
    \/ Initiate
    \/ \E s \in SignIns :
         \/ Initiated(s) \/ InitiateFails(s) \/ Approve(s) \/ \E w \in {"code", "error"} : CallBack(s, w)
         \/ \E c \in Calls : Expired(c, s) \/ \E v \in BOOLEAN : Paste(c, s, v)
    \/ \E c \in Calls : Wait(c) \/ Answered(c) \/ Timeout(c) \/ Rejected(c) \/ Exchanged(c) \/ ExchangeFails(c)

Spec == Init /\ [][Next]_vars

----------------------------------------------------------------------------

TypeOK ==
    /\ kind \in {"local", "anthropic"} /\ begun \in 0..MaxSignIns /\ pending \in 0..MaxSignIns
    /\ {open, listening, settled, approved, spent, refused} \subseteq SUBSET SignIns
    /\ heard \in [SignIns -> {"nothing", "code", "error"}]
    /\ waiter \in [SignIns -> Calls \cup {NoCall}]
    /\ at \in [Calls -> {"idle", "waiting", "answered", "rejected", "exchanging"}]
    /\ entry \in [Calls -> 0..MaxSignIns] /\ code \in [Calls -> 0..MaxSignIns]
    /\ given \in [Calls -> BOOLEAN] /\ disturbed \in BOOLEAN

\* However sign-ins overlap, a server that listens is that of the pending sign-in
\* or of one being begun.  When none is begun or completed while another is under
\* way, a call waits only for a server that can still answer it or time out, and a
\* sign-in the user approved is not refused by the program itself.
ConnectHeld ==
    /\ listening \cap open \subseteq {pending}
    /\ ~disturbed =>
          /\ refused = {}
          /\ \A c \in Calls : at[c] = "waiting" => waiter[entry[c]] = c /\ entry[c] \in listening \ settled
=============================================================================
