------------------------------ MODULE SkillInstall ------------------------------
(***************************************************************************)
(* Installing a skill of the marketplace: SkillInstaller.install           *)
(* (src/src/marketplace/install/installer.ts) and, for a package of the    *)
(* other format, MigrationPipeline.migrate (migration/pipeline.ts) with    *)
(* the conversion of migration-service.ts.  All calls are for one skill,   *)
(* of which there are versions, and share one pipeline, whose progress     *)
(* callback a call replaces while it migrates.                             *)
(*                                                                         *)
(* A file is known by the version it is of.  The removal of the installed  *)
(* directory is one step.  To register the result changes nothing: the     *)
(* registry made for it is dropped.                                        *)
(***************************************************************************)
EXTENDS Naturals, Sequences, FiniteSets

CONSTANTS
    Calls, MaxVersion,
    MaxInstalls    \* bound: installs begun

VARIABLES
    form, files,   \* per version: "native", "foreign" or "invalid"; what is in its package
    dir,           \* the installed directory: the version a file is of, 0 when absent
    at, want, placed, \* per call: where it is, its version, what it has put in place
    progress, prev,   \* the callbacks the pipeline reports to; per call: those before it
    installs,
    good,          \* history: the version installed, when that has gone well
    overlapped     \* history: two installs were in progress together

package == <<form, files>>
call == <<at, want, placed>>
vars == <<package, dir, call, progress, prev, installs, good, overlapped>>

InstallLimits == {MaxVersion, MaxInstalls} \subseteq Nat

Versions == 1..MaxVersion
Files == {"skill", "guide", "script"}
Empty == [f \in Files |-> 0]

\* What is installed of a version: of a migrated one its two documents.
Result(v) == IF form[v] = "native" THEN files[v] ELSE files[v] \ {"script"}
Contents(v) == [f \in Files |-> IF f \in Result(v) THEN v ELSE 0]

Init ==
    /\ form \in [Versions -> {"native", "foreign", "invalid"}]
    /\ files \in [Versions -> {F \in SUBSET Files : "skill" \in F}]
    /\ dir = Empty
    /\ at = [c \in Calls |-> "idle"] /\ want = [c \in Calls |-> 0]
    /\ placed = [c \in Calls |-> {}]
    /\ progress = <<>> /\ prev = [c \in Calls |-> <<>>]
    /\ installs = 0 /\ good = 0 /\ overlapped = FALSE

Ends(c) ==
    /\ at' = [at EXCEPT ![c] = "idle"] /\ want' = [want EXCEPT ![c] = 0]
    /\ placed' = [placed EXCEPT ![c] = {}] /\ prev' = [prev EXCEPT ![c] = <<>>]
    /\ progress' = IF at[c] \in {"converting", "migrated"} THEN prev[c] ELSE progress

\* The package is downloaded and extracted, in a directory of the call's own.
Start(c, v) ==
    /\ at[c] = "idle" /\ installs < MaxInstalls /\ installs' = installs + 1
    /\ at' = [at EXCEPT ![c] = "extracted"] /\ want' = [want EXCEPT ![c] = v]
    /\ overlapped' = (overlapped \/ \E d \in Calls : at[d] # "idle")
    /\ UNCHANGED <<package, dir, placed, progress, prev, good>>

Prepare(c) ==
    /\ at[c] = "extracted" /\ dir' = Empty /\ good' = 0
    /\ IF form[want[c]] = "foreign"
       THEN /\ at' = [at EXCEPT ![c] = "converting"]
            /\ prev' = [prev EXCEPT ![c] = progress] /\ progress' = <<c>> \o progress
       ELSE at' = [at EXCEPT ![c] = "copying"] /\ UNCHANGED <<progress, prev>>
    /\ UNCHANGED <<package, want, placed, installs, overlapped>>

\* The model answers, or the fixed mapping is used; the result is staged.
Convert(c) ==
    /\ at[c] = "converting" /\ at' = [at EXCEPT ![c] = "migrated"]
    /\ UNCHANGED <<package, dir, want, placed, progress, prev, installs, good, overlapped>>

\* A file is put in place; a migrated skill before its guide.
Place(c, f) ==
    /\ at[c] = "migrated" \/ (at[c] = "copying" /\ form[want[c]] = "native")
    /\ f \in Result(want[c]) \ placed[c]
    /\ at[c] = "migrated" /\ f = "guide" => "skill" \in placed[c]
    /\ dir' = [dir EXCEPT ![f] = want[c]] /\ placed' = [placed EXCEPT ![c] = @ \cup {f}]
    /\ UNCHANGED <<package, at, want, progress, prev, installs, good, overlapped>>
Done(c) ==
    /\ placed[c] # {} /\ placed[c] = Result(want[c]) /\ Ends(c)
    /\ good' = want[c]
    /\ UNCHANGED <<package, dir, installs, overlapped>>
\* The download, the validation, the conversion or a copy fails; what has been
\* removed or put in place stays so.
Fails(c) ==
    /\ at[c] # "idle" /\ Ends(c)
    /\ UNCHANGED <<package, dir, installs, good, overlapped>>

\* The program ends in the middle, and starts again.
Restart ==
    /\ \E c \in Calls : at[c] # "idle"
    /\ at' = [c \in Calls |-> "idle"] /\ want' = [c \in Calls |-> 0]
    /\ placed' = [c \in Calls |-> {}] /\ prev' = [c \in Calls |-> <<>>] /\ progress' = <<>>
    /\ UNCHANGED <<package, dir, installs, good, overlapped>>

Next ==
    \/ Restart
    \/ \E c \in Calls :
         \/ Prepare(c) \/ Convert(c) \/ Done(c) \/ Fails(c)
         \/ \E v \in Versions : Start(c, v)
         \/ \E f \in Files : Place(c, f)

Spec == Init /\ [][Next]_vars

----------------------------------------------------------------------------

TypeOK ==
    /\ form \in [Versions -> {"native", "foreign", "invalid"}]
    /\ files \in [Versions -> SUBSET Files] /\ dir \in [Files -> 0..MaxVersion]
    /\ at \in [Calls -> {"idle", "extracted", "converting", "copying", "migrated"}]
    /\ want \in [Calls -> 0..MaxVersion] /\ placed \in [Calls -> SUBSET Files]
    /\ progress \in Seq(Calls) /\ prev \in [Calls -> Seq(Calls)]
    /\ installs \in 0..MaxInstalls /\ good \in 0..MaxVersion /\ overlapped \in BOOLEAN

\* When no two installs are in progress together: one that ended well has left
\* exactly its package, until the next begins to replace it; wherever one failed or
\* was cut off, files of two versions are not mixed; and a migration leaves the
\* pipeline reporting to whom it reported before.
InstallHeld ==
    ~overlapped =>
        /\ good # 0 => dir = Contents(good)
        /\ \A f, g \in Files : 0 \notin {dir[f], dir[g]} => dir[f] = dir[g]
        /\ (\A c \in Calls : at[c] \notin {"converting", "migrated"}) => progress = <<>>
=============================================================================
