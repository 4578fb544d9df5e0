------------------------------ MODULE Install ------------------------------
(***************************************************************************)
(* The installation: a staged bundle, its launch, and the elevated helper  *)
(* that replaces the plugin's files once MusicBee has exited.              *)
(*                                                                         *)
(* The helper keeps the bundle and the files it replaces in memory, writes *)
(* them one by one, and puts the old ones back when a write fails.  Its    *)
(* launch asks MusicBee to close, which may minimise instead: MusicBee     *)
(* stays up, and may be asked to install again.                            *)
(***************************************************************************)
EXTENDS Integers, FiniteSets

CONSTANTS Files,       \* the files of a bundle
          Plugin,      \* the one MusicBee loads, and whose version is the plugin's
          Helpers,     \* helper processes
          MaxVersion,  \* releases are 1 .. MaxVersion
          MaxSessions  \* bound on MusicBee's starts

ASSUME InstallAssumption == Plugin \in Files /\ MaxVersion \in Nat \ {0}

Versions == 1 .. MaxVersion
Torn == 0     \* a file whose write failed half way

VARIABLES files,      \* version of each installed file
          session,    \* MusicBee: starts so far, and the version it runs; 0 is down
          marker,     \* pending.json
          bundles,    \* versions whose staged directory is whole
          helper,     \* each helper: its step, and what it holds
          doubled,    \* history: two helpers ran at once
          broken      \* history: a helper was killed, or could not restore

vars == <<files, session, marker, bundles, helper, doubled, broken>>

Gone == [at |-> "none", version |-> 0, session |-> 0, todo |-> {}, backup |-> [f \in Files |-> 0]]
Running == {h \in Helpers : helper[h].at # "none"}

Init ==
    /\ files = [f \in Files |-> 1]
    /\ session = [number |-> 1, runs |-> 1]
    /\ marker = 0 /\ bundles = {}
    /\ helper = [h \in Helpers |-> Gone]
    /\ doubled = FALSE /\ broken = FALSE

-----------------------------------------------------------------------------
(* MusicBee. *)

Exit ==
    /\ session.runs # 0
    /\ session' = [session EXCEPT !.runs = 0]
    /\ UNCHANGED <<files, marker, bundles, helper, doubled, broken>>

\* By hand or by the helper; what no marker names is swept.
Start ==
    /\ session.runs = 0 /\ session.number < MaxSessions /\ files[Plugin] # Torn
    /\ session' = [number |-> session.number + 1, runs |-> files[Plugin]]
    /\ bundles' = IF marker = 0 THEN {} ELSE bundles
    /\ UNCHANGED <<files, marker, helper, doubled, broken>>

\* A download: a check offers only what is newer than the plugin that runs.
Stage(v) ==
    /\ session.runs # 0 /\ v > session.runs /\ v # marker
    /\ bundles' = bundles \cup {v}
    /\ marker' = v
    /\ UNCHANGED <<files, session, helper, doubled, broken>>

\* The installer of a release, run by hand.
Reinstall(v) ==
    /\ session.runs = 0 /\ Running = {}
    /\ files' = [f \in Files |-> v]
    /\ broken' = FALSE
    /\ UNCHANGED <<session, marker, bundles, helper, doubled>>

\* Mutant: any staged bundle is launched.
AnyBundle(staged, installed) == TRUE
is_upgrade(staged, installed) == staged > installed

\* Install and restart.
Launch(h) ==
    /\ session.runs # 0 /\ helper[h] = Gone
    /\ marker \in bundles /\ is_upgrade(marker, session.runs)
    /\ helper' = [helper EXCEPT ![h] = [Gone EXCEPT !.at = "verify", !.version = marker, !.session = session.number]]
    /\ doubled' = (doubled \/ Running # {})
    /\ UNCHANGED <<files, session, marker, bundles, broken>>

-----------------------------------------------------------------------------
(* The helper. *)

\* verify_staged: the whole bundle into memory, or nothing is done.
Verify(h) ==
    /\ helper[h].at = "verify"
    /\ helper' = [helper EXCEPT ![h] = IF @.version \in bundles THEN [@ EXCEPT !.at = "wait"] ELSE Gone]
    /\ UNCHANGED <<files, session, marker, bundles, doubled, broken>>

StillRunning(h) == session.runs # 0 /\ session.number = helper[h].session

\* The process that launched it is still there after EXIT_TIMEOUT.
GivesUp(h) ==
    /\ helper[h].at = "wait" /\ StillRunning(h)
    /\ helper' = [helper EXCEPT ![h] = Gone]
    /\ UNCHANGED <<files, session, marker, bundles, doubled, broken>>

\* back_up reads every file before one is replaced.
BackUp(h) ==
    /\ helper[h].at = "wait" /\ ~StillRunning(h)
    /\ helper' = [helper EXCEPT ![h] = [@ EXCEPT !.at = "write", !.todo = Files, !.backup = files]]
    /\ UNCHANGED <<files, session, marker, bundles, doubled, broken>>

\* A file MusicBee has loaded cannot be written; another write may fail half way.
Writes(f, v) == session.runs = 0 /\ files' = [files EXCEPT ![f] = v]
Fails(f) == UNCHANGED files \/ Writes(f, Torn)

Write(h, f) ==
    /\ helper[h].at = "write" /\ f \in helper[h].todo
    /\ Writes(f, helper[h].version)
    /\ helper' = [helper EXCEPT ![h].todo = @ \ {f}]
    /\ UNCHANGED <<session, marker, bundles, doubled, broken>>

\* Mutant: only the files the swap had replaced are put back.
Replaced(h) == Files \ helper[h].todo
ToRestore(h) == Files

WriteFails(h, f) ==
    /\ helper[h].at = "write" /\ f \in helper[h].todo
    /\ Fails(f)
    /\ helper' = [helper EXCEPT ![h] = [@ EXCEPT !.at = "restore", !.todo = ToRestore(h)]]
    /\ UNCHANGED <<session, marker, bundles, doubled, broken>>

\* restore goes on past a file it cannot write; one that already holds what the
\* backup does is no failure.
Restore(h, f) ==
    /\ helper[h].at = "restore" /\ f \in helper[h].todo
    /\ \/ Writes(f, helper[h].backup[f]) /\ UNCHANGED broken
       \/ Fails(f) /\ broken' = (broken \/ files'[f] # helper[h].backup[f])
    /\ helper' = [helper EXCEPT ![h].todo = @ \ {f}]
    /\ UNCHANGED <<session, marker, bundles, doubled>>

\* Applied, the staged bundle's marker is removed, whichever it names now; rolled
\* back, the bundle is left to retry with.
Ends(h) ==
    /\ helper[h].at \in {"write", "restore"} /\ helper[h].todo = {}
    /\ marker' = IF helper[h].at = "write" THEN 0 ELSE marker
    /\ helper' = [helper EXCEPT ![h] = Gone]
    /\ UNCHANGED <<files, session, bundles, doubled, broken>>

Killed(h) ==
    /\ helper[h].at # "none"
    /\ helper' = [helper EXCEPT ![h] = Gone]
    /\ broken' = (broken \/ helper[h].at \in {"write", "restore"})
    /\ UNCHANGED <<files, session, marker, bundles, doubled>>

Step(h) ==
    \/ Verify(h) \/ GivesUp(h) \/ BackUp(h) \/ Ends(h)
    \/ \E f \in Files : Write(h, f) \/ WriteFails(h, f) \/ Restore(h, f)

Next ==
    \/ Exit \/ Start
    \/ \E v \in Versions : Stage(v) \/ Reinstall(v)
    \/ \E h \in Helpers : Launch(h) \/ Step(h) \/ Killed(h)

Spec == Init /\ [][Next]_vars

-----------------------------------------------------------------------------
(* Properties. *)

TypeOK ==
    /\ files \in [Files -> Versions \cup {Torn}] /\ marker \in Versions \cup {0}
    /\ bundles \subseteq Versions /\ doubled \in BOOLEAN /\ broken \in BOOLEAN
    /\ session \in [number : Nat, runs : Versions \cup {0}]
    /\ helper \in [Helpers -> [at : {"none", "verify", "wait", "write", "restore"}, version : Versions \cup {0},
                               session : Nat, todo : SUBSET Files,
                               backup : [Files -> Versions \cup {Torn}]]]

Whole == \A f, g \in Files : files[f] = files[g] /\ files[f] # Torn

\* Wherever a write fails, and whenever MusicBee is started across it, the files
\* are one version's again once the helper has ended, unless it was killed, could
\* not restore (which it reports as such) or another ran beside it.
InstallWhole == (Running = {} /\ ~broken /\ ~doubled) => Whole

\* A launch never makes the plugin older: a bundle staged before a newer release
\* was installed by hand, or left by a helper killed too late, is refused.  (Two
\* helpers may: the one that waited longer wins.)
NeverOlder ==
    [][\A h \in Helpers, f \in Files : ~doubled /\ ~broken /\ Write(h, f) => files'[f] > files[f]]_vars

\* main.rs: every outcome but a failed restore left the install intact.  (Two
\* helpers back up and restore each other's half-written files.)
RolledBackIntact == (Running = {} /\ ~broken) => Whole
=============================================================================
