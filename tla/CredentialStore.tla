---------------------------- MODULE CredentialStore ----------------------------
(***************************************************************************)
(* EncryptedCredentialStore (src/src/providers/credentials/store.ts): one  *)
(* encrypted file for all records.  set, update and revoke read and        *)
(* decrypt the whole file, change their record in what they read, and,     *)
(* after further awaits for the encryption, write the whole file back.  No *)
(* lock keeps two calls, of the daemon or of a CLI beside it, apart, and   *)
(* the write is in place: a crash or a full disk in it leaves a torn file. *)
(* Behind the write a call still awaits a chmod before it returns ok.      *)
(***************************************************************************)
EXTENDS Naturals

CONSTANTS
    Calls,    \* writing calls, each made at most once; a payload is named by its call
    Records,  \* record ids
    Absent, Revoked   \* what a record can be besides a payload

VARIABLES
    file,       \* the records on disk
    torn,       \* the file does not parse
    at, of,     \* per call: where it is and the record it is about
    op,         \* per call: "set", "update", "revoke"
    snap,       \* per call: the records it read
    superseded, \* history: calls whose record a later call wrote
    overlapped  \* history: a call wrote while another held records it had read

callVars == <<at, of, op, snap>>
vars == <<file, torn, callVars, superseded, overlapped>>

StoreLimits == Records # {}

Contents == Calls \cup {Absent, Revoked}
\* Calls whose write was completed: those that returned ok, those that still wait
\* for the chmod, and those that failed or died there.
Wrote == {c \in Calls : at[c] \in {"written", "done", "unconfirmed"}}
UnderWay == {"loading", "saving", "written"}

Init ==
    /\ file = [r \in Records |-> Absent] /\ torn = FALSE
    /\ at = [c \in Calls |-> "new"]
    /\ of = [c \in Calls |-> CHOOSE r \in Records : TRUE]
    /\ op = [c \in Calls |-> "set"]
    /\ snap = [c \in Calls |-> file]
    /\ superseded = {} /\ overlapped = FALSE

\* What a call writes into its record: set replaces whatever is there, update a
\* record that is not revoked, revoke one that is not revoked yet.
Applies(c, old) ==
    CASE op[c] = "set" -> TRUE
      [] OTHER -> old \notin {Absent, Revoked}
Result(c) == IF op[c] = "revoke" THEN Revoked ELSE c

\* loadState is called.
Call(c, o, r) ==
    /\ at[c] = "new"
    /\ at' = [at EXCEPT ![c] = "loading"]
    /\ of' = [of EXCEPT ![c] = r] /\ op' = [op EXCEPT ![c] = o]
    /\ UNCHANGED <<file, torn, snap, superseded, overlapped>>

\* Mutant: a file that does not parse is read as an empty store.
LoadEmpty(c) ==
    /\ at[c] = "loading"
    /\ snap' = [snap EXCEPT ![c] = IF torn THEN [r \in Records |-> Absent] ELSE file]
    /\ at' = [at EXCEPT ![c] =
                 IF Applies(c, snap'[c][of[c]]) THEN "saving" ELSE "refused"]
    /\ UNCHANGED <<file, torn, of, op, superseded, overlapped>>

\* The file is read, decrypted and checked; the record is looked up in it.
Load(c) ==
    /\ at[c] = "loading" /\ ~torn
    /\ snap' = [snap EXCEPT ![c] = file]
    /\ at' = [at EXCEPT ![c] = IF Applies(c, file[of[c]]) THEN "saving" ELSE "refused"]
    /\ UNCHANGED <<file, torn, of, op, superseded, overlapped>>
\* What was read does not parse: the file is torn, or was read during a write.
LoadFails(c) ==
    /\ at[c] = "loading"
    /\ torn \/ \E d \in Calls : at[d] = "saving"
    /\ at' = [at EXCEPT ![c] = "failed"]
    /\ UNCHANGED <<file, torn, of, op, snap, superseded, overlapped>>

\* saveState up to the end of the write: everything read is written back, with the
\* one record changed.
Save(c) ==
    /\ at[c] = "saving"
    /\ file' = [snap[c] EXCEPT ![of[c]] = Result(c)]
    /\ torn' = FALSE
    /\ at' = [at EXCEPT ![c] = "written"]
    /\ superseded' = superseded \cup {d \in Wrote : of[d] = of[c]}
    /\ overlapped' = (overlapped \/ \E d \in Calls \ {c} : at[d] = "saving")
    /\ UNCHANGED <<of, op, snap>>
\* Encryption or the directory fails: nothing is written.  The write itself
\* fails: the file is as it was, or torn.
SaveFails(c) ==
    /\ at[c] = "saving"
    /\ torn' \in {torn, TRUE}
    /\ at' = [at EXCEPT ![c] = "failed"]
    /\ UNCHANGED <<file, of, op, snap, superseded, overlapped>>

\* The chmod: the call returns ok, or an error with its change in the file.
Secured(c) ==
    /\ at[c] = "written"
    /\ \E end \in {"done", "unconfirmed"} : at' = [at EXCEPT ![c] = end]
    /\ UNCHANGED <<file, torn, of, op, snap, superseded, overlapped>>

\* The process stops, maybe in the middle of a write or behind it.
Crash ==
    /\ \E c \in Calls : at[c] \in UnderWay
    /\ torn' \in {torn, torn \/ \E c \in Calls : at[c] = "saving"}
    /\ at' = [c \in Calls |-> CASE at[c] = "written" -> "unconfirmed"
                               [] at[c] \in UnderWay \ {"written"} -> "lost"
                               [] OTHER -> at[c]]
    /\ UNCHANGED <<file, of, op, snap, superseded, overlapped>>

Next ==
    \/ \E c \in Calls : Load(c) \/ LoadFails(c) \/ Save(c) \/ SaveFails(c) \/ Secured(c)
    \/ \E c \in Calls, r \in Records, o \in {"set", "update", "revoke"} : Call(c, o, r)
    \/ Crash

Spec == Init /\ [][Next]_vars

----------------------------------------------------------------------------

TypeOK ==
    /\ file \in [Records -> Contents] /\ torn \in BOOLEAN
    /\ at \in [Calls -> {"new", "done", "unconfirmed", "refused", "failed", "lost"} \cup UnderWay]
    /\ of \in [Calls -> Records] /\ op \in [Calls -> {"set", "update", "revoke"}]
    /\ snap \in [Calls -> [Records -> Contents]]
    /\ superseded \subseteq Calls
    /\ overlapped \in BOOLEAN

\* Only calls that overlap lose one another's work: without an overlap a file that
\* parses holds the change of every call that returned ok until another call writes
\* its record, and nothing else but the changes of calls that failed or died
\* between their write and their answer.  A revoked credential stays revoked, and
\* neither a call that failed before its write nor a crash undoes one that
\* returned.
OnlyOverlapDrops ==
    ~torn /\ ~overlapped =>
        /\ \A c \in Wrote \ superseded : file[of[c]] = Result(c)
        /\ \A r \in Records :
              file[r] = Absent \/ \E c \in Wrote \ superseded : of[c] = r /\ file[r] = Result(c)
=============================================================================
