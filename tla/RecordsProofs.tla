--------------------------- MODULE RecordsProofs ----------------------------
(***************************************************************************)
(* Proofs about what MCRecords composes.                                   *)
(*                                                                         *)
(* The helper, Install: for any files, helpers, versions and sessions, a   *)
(* helper that runs alone and can put back what it replaced leaves the     *)
(* files of one version, and never an older one. One invariant says of     *)
(* each step of a helper what its backup holds and which files it has      *)
(* replaced so far.                                                        *)
(*                                                                         *)
(* The update service, Updates, as the instance Service: for any number of *)
(* releases, editions and starts, the marker is only ever over a whole     *)
(* bundle, and what the panel offers at rest can be taken and was not      *)
(* skipped. The invariant says what a check, a download and a skip have in *)
(* hand at each step, and what nobody else can have changed.               *)
(*                                                                         *)
(* Permissions and pairing, Party, as the instance Remote: for any number  *)
(* of browsers, installations and requests, who is let in and what they    *)
(* may do outlast every restart, a token is known by its holder, and no    *)
(* client waits unwoken on permissions that changed. The invariant says of *)
(* each operation what it has done and not done of what it does to two     *)
(* maps and two tables, by the steps it has left, as long as no other is   *)
(* on the same one.                                                        *)
(*                                                                         *)
(* A playlist, Playlists, as the instance Listed: for any tracks, page     *)
(* size and number of edits, an edit of slots that is made from rows of    *)
(* the version it carries never reaches a track it did not mean. The       *)
(* invariant says that what is checked and not yet written is the first    *)
(* call without an answer, and was read at the version that call carries.  *)
(*                                                                         *)
(* RecordsCorrect puts the four together.                                  *)
(***************************************************************************)
EXTENDS MCRecords, SequenceTheorems, WellFoundedInduction, TLAPS

(* The helper, Install. *)

Working(h) == helper[h].at \in {"write", "restore"}
BackupWhole(h) == \A f, g \in Files : helper[h].backup[f] = helper[h].backup[g]
        /\ helper[h].backup[f] # Torn

\* Two helpers at once are remembered.
Alone == ~doubled => \A g, h \in Helpers : helper[g].at # "none" /\ helper[h].at # "none" => g = h

\* What MusicBee runs is what is installed: a loaded file cannot be written.
Loaded == session.runs # 0 => session.runs = files[Plugin]

\* A helper about to begin will install something newer than what is there.
BeforeBackUp(h) == helper[h].at \in {"verify", "wait"} => helper[h].version > files[Plugin]

\* The swap: what it has not replaced is the backup, and the rest the new version.
Swapping(h) ==
    helper[h].at = "write" =>
        /\ BackupWhole(h)
        /\ helper[h].version > helper[h].backup[Plugin]
        /\ \A f \in Files : files[f] = IF f \in helper[h].todo THEN helper[h].backup[f]
                ELSE helper[h].version

\* The rollback: what it has been over is the backup again.
PuttingBack(h) ==
    helper[h].at = "restore" =>
        /\ BackupWhole(h)
        /\ \A f \in Files \ helper[h].todo : files[f] = helper[h].backup[f]

Sound ==
    ~doubled /\ ~broken =>
        /\ (\A h \in Helpers : ~Working(h)) => Whole
        /\ \A h \in Helpers : BeforeBackUp(h) /\ Swapping(h) /\ PuttingBack(h)

IInv == TypeOK /\ Alone /\ Loaded /\ Sound

-----------------------------------------------------------------------------
(* Types. *)

HelperType == [at : {"none", "verify", "wait", "write", "restore"}, version : Versions \cup {0},
               session : Nat, todo : SUBSET Files, backup : [Files -> Versions \cup {Torn}]]

\* Every step of MusicBee keeps the types (Install, SettingsDialog.cs).
LEMMA TypeHost ==
    ASSUME TypeOK, Exit \/ Start \/ (\E v \in Versions : Stage(v) \/ Reinstall(v))
           \/ \E h \in Helpers : Launch(h)
    PROVE  TypeOK'
<1> USE InstallAssumption DEF TypeOK, Versions, Torn
<1>1. CASE Exit
  BY <1>1 DEF Exit
<1>2. CASE Start
  <2>1. files[Plugin] \in Versions \cup {0}
    OBVIOUS
  <2>2. session' \in [number : Nat, runs : Versions \cup {0}]
    BY <1>2, <2>1 DEF Start
  <2>3. bundles' \subseteq Versions
    BY <1>2 DEF Start
  <2> QED
    BY <1>2, <2>2, <2>3 DEF Start
<1>3. ASSUME NEW v \in Versions, Stage(v) PROVE TypeOK'
  BY <1>3 DEF Stage
<1>4. ASSUME NEW v \in Versions, Reinstall(v) PROVE TypeOK'
  BY <1>4 DEF Reinstall
<1>5. ASSUME NEW h \in Helpers, Launch(h) PROVE TypeOK'
  BY <1>5 DEF Launch, Gone
<1> QED
  BY <1>1, <1>2, <1>3, <1>4, <1>5

\* Every step of a helper keeps the types (mbrc-helper, update.rs).
LEMMA TypeHelper ==
    ASSUME TypeOK, NEW h \in Helpers, Step(h) \/ Killed(h)
    PROVE  TypeOK'
<1> USE DEF TypeOK, Versions, Torn
<1>1. CASE Verify(h)
  BY <1>1 DEF Verify, Gone
<1>2. CASE GivesUp(h)
  BY <1>2 DEF GivesUp, Gone
<1>3. CASE BackUp(h)
  <2>1. [helper[h] EXCEPT !.at = "write", !.todo = Files, !.backup = files] \in HelperType
    BY DEF HelperType
  <2> QED
    BY <1>3, <2>1 DEF BackUp, HelperType
<1>4. CASE Ends(h)
  BY <1>4 DEF Ends, Gone
<1>5. CASE Killed(h)
  BY <1>5 DEF Killed, Gone
<1>6. ASSUME NEW f \in Files, Write(h, f) PROVE TypeOK'
  BY <1>6 DEF Write, Writes
<1>7. ASSUME NEW f \in Files, WriteFails(h, f) PROVE TypeOK'
  <2>1. files' \in [Files -> Versions \cup {Torn}]
    BY <1>7 DEF WriteFails, Fails, Writes
  <2>2. [helper[h] EXCEPT !.at = "restore", !.todo = Files] \in HelperType
    BY DEF HelperType
  <2> QED
    BY <1>7, <2>1, <2>2 DEF WriteFails, ToRestore, HelperType
<1>8. ASSUME NEW f \in Files, Restore(h, f) PROVE TypeOK'
  <2>1. files' \in [Files -> Versions \cup {Torn}] /\ broken' \in BOOLEAN
    <3>1. helper[h].backup \in [Files -> Versions \cup {Torn}]
      OBVIOUS
    <3>2. CASE Writes(f, helper[h].backup[f]) /\ UNCHANGED broken
      BY <3>1, <3>2 DEF Writes
    <3>3. CASE Fails(f) /\ broken' = (broken \/ files'[f] # helper[h].backup[f])
      BY <3>3 DEF Fails, Writes
    <3> QED
      BY <1>8, <3>2, <3>3 DEF Restore
  <2>2. [helper[h] EXCEPT !.todo = @ \ {f}] \in HelperType
    BY DEF HelperType
  <2> QED
    BY <1>8, <2>1, <2>2 DEF Restore, HelperType
<1> QED
  BY <1>1, <1>2, <1>3, <1>4, <1>5, <1>6, <1>7, <1>8 DEF Step

\* The types of a step of the whole.
LEMMA TypeStep == TypeOK /\ [Next]_vars => TypeOK'
<1> SUFFICES ASSUME TypeOK, [Next]_vars PROVE TypeOK'
  OBVIOUS
<1>1. CASE UNCHANGED vars
  BY <1>1 DEF TypeOK, vars
<1>2. CASE Next
  BY <1>2, TypeHost, TypeHelper DEF Next
<1> QED
  BY <1>1, <1>2

-----------------------------------------------------------------------------
(* One helper at a time. *)

\* What a step of a helper leaves alone.
LEMMA Frame ==
    ASSUME TypeOK, NEW h \in Helpers, Step(h) \/ Killed(h)
    PROVE  /\ helper[h].at # "none"
           /\ doubled' = doubled /\ session' = session
           /\ broken => broken'
           /\ \A g \in Helpers \ {h} : helper'[g] = helper[g]
<1> USE DEF TypeOK
<1>1. CASE Verify(h)
  BY <1>1 DEF Verify
<1>2. CASE GivesUp(h)
  BY <1>2 DEF GivesUp
<1>3. CASE BackUp(h)
  BY <1>3 DEF BackUp
<1>4. CASE Ends(h)
  BY <1>4 DEF Ends
<1>5. CASE Killed(h)
  BY <1>5 DEF Killed
<1>6. ASSUME NEW f \in Files, Write(h, f) \/ WriteFails(h, f) \/ Restore(h, f)
      PROVE  /\ helper[h].at # "none" /\ doubled' = doubled /\ session' = session
             /\ broken => broken'
             /\ \A g \in Helpers \ {h} : helper'[g] = helper[g]
  BY <1>6 DEF Write, WriteFails, Restore
<1> QED
  BY <1>1, <1>2, <1>3, <1>4, <1>5, <1>6 DEF Step

\* A second helper beside a running one is remembered (SettingsDialog.cs,
\* InstallStagedUpdate, looks for none).
LEMMA AloneStep == TypeOK /\ Alone /\ [Next]_vars => Alone'
<1> SUFFICES ASSUME TypeOK, Alone, [Next]_vars PROVE Alone'
  OBVIOUS
<1>1. CASE UNCHANGED <<helper, doubled>>
  BY <1>1 DEF Alone
<1>2. ASSUME NEW h \in Helpers, Launch(h) PROVE Alone'
  BY <1>2 DEF Launch, Alone, Running, TypeOK
<1>3. ASSUME NEW h \in Helpers, Step(h) \/ Killed(h) PROVE Alone'
  BY <1>3, Frame DEF Alone
<1>4. CASE Exit \/ Start \/ \E v \in Versions : Stage(v) \/ Reinstall(v)
  BY <1>1, <1>4 DEF Exit, Start, Stage, Reinstall
<1> QED
  BY <1>1, <1>2, <1>3, <1>4 DEF Next, vars

\* A loaded file cannot be written, so MusicBee runs what is installed.
LEMMA LoadedStep == TypeOK /\ Loaded /\ [Next]_vars => Loaded'
<1> SUFFICES ASSUME TypeOK, Loaded, [Next]_vars PROVE Loaded'
  OBVIOUS
<1> USE DEF Loaded
<1>1. CASE UNCHANGED <<files, session>>
  BY <1>1
<1>2. CASE Exit \/ Start
  BY <1>2 DEF Exit, Start, TypeOK
<1>3. ASSUME NEW v \in Versions, Stage(v) \/ Reinstall(v) PROVE Loaded'
  BY <1>3 DEF Stage, Reinstall
<1>4. ASSUME NEW h \in Helpers, Step(h) \/ Killed(h) PROVE Loaded'
  <2>1. session' = session
    BY <1>4, Frame
  <2>2. session.runs # 0 => files' = files
    BY <1>4 DEF Step, Verify, GivesUp, BackUp, Ends, Killed, Write, WriteFails, Restore, Fails, Writes
  <2> QED
    BY <2>1, <2>2
<1>5. ASSUME NEW h \in Helpers, Launch(h) PROVE Loaded'
  BY <1>1, <1>5 DEF Launch
<1> QED
  BY <1>1, <1>2, <1>3, <1>4, <1>5 DEF Next, vars

-----------------------------------------------------------------------------
(* The swap. *)

\* MusicBee neither touches the files under a helper nor starts one on an older
\* version.
LEMMA SoundHost ==
    ASSUME IInv, Exit \/ Start \/ (\E v \in Versions : Stage(v) \/ Reinstall(v))
           \/ \E h \in Helpers : Launch(h)
    PROVE  Sound'
<1> SUFFICES ASSUME ~doubled', ~broken'
             PROVE  /\ (\A h \in Helpers : ~Working(h)') => Whole'
                    /\ \A h \in Helpers : BeforeBackUp(h)' /\ Swapping(h)' /\ PuttingBack(h)'
  BY DEF Sound
<1> USE DEF Working, Whole, BeforeBackUp, Swapping, PuttingBack, BackupWhole
<1>1. CASE Exit \/ Start \/ \E v \in Versions : Stage(v)
  <2>1. UNCHANGED <<files, helper, doubled, broken>>
    BY <1>1 DEF Exit, Start, Stage
  <2> QED
    BY <2>1 DEF IInv, Sound
<1>2. ASSUME NEW v \in Versions, Reinstall(v) PROVE Sound'
  <2>1. \A h \in Helpers : helper'[h].at = "none"
    BY <1>2 DEF Reinstall, Running
  <2>2. Whole'
    BY <1>2, InstallAssumption DEF Reinstall, Versions, Torn
  <2> QED
    BY <2>1, <2>2 DEF Sound
<1>3. ASSUME NEW h \in Helpers, Launch(h) PROVE Sound'
  <2>1. ~doubled /\ ~broken /\ \A g \in Helpers : helper[g].at = "none"
    BY <1>3 DEF Launch, Running, IInv, TypeOK
  <2>2. Whole
    BY <2>1 DEF IInv, Sound
  <2>3. /\ helper'[h].at = "verify" /\ helper'[h].version = marker /\ files' = files
        /\ \A g \in Helpers \ {h} : helper'[g] = helper[g]
    BY <1>3 DEF Launch, Gone, IInv, TypeOK
  <2>4. marker > files[Plugin]
    BY <1>3 DEF Launch, is_upgrade, IInv, Loaded
  <2> QED
    BY <2>1, <2>2, <2>3, <2>4 DEF Sound
<1> QED
  BY <1>1, <1>2, <1>3 DEF Sound

\* Where a step of a lone helper leaves the files (update.rs, apply_with).
LEMMA SoundHelper ==
    ASSUME IInv, NEW h \in Helpers, Step(h) \/ Killed(h), ~doubled, ~broken'
    PROVE  /\ ~Working(h)' => Whole'
           /\ BeforeBackUp(h)' /\ Swapping(h)' /\ PuttingBack(h)'
<1> USE InstallAssumption
        DEF Working, Whole, BeforeBackUp, Swapping, PuttingBack, BackupWhole, IInv, TypeOK
<1>1. /\ helper[h].at # "none" /\ ~broken
      /\ \A g \in Helpers \ {h} : helper[g].at = "none"
  BY Frame DEF Alone
<1>2. ~Working(h) => Whole
  BY <1>1 DEF Sound
<1>3. BeforeBackUp(h) /\ Swapping(h) /\ PuttingBack(h)
  BY <1>1 DEF Sound
<1>4. CASE Verify(h)
  BY <1>2, <1>3, <1>4 DEF Verify, Gone
<1>5. CASE GivesUp(h)
  BY <1>2, <1>5 DEF GivesUp, Gone
<1>6. CASE BackUp(h)
  BY <1>2, <1>3, <1>6 DEF BackUp
<1>7. CASE Ends(h)
  <2>1. helper'[h].at = "none" /\ files' = files
    BY <1>7 DEF Ends, Gone
  <2>2. Whole
    BY <1>3, <1>7 DEF Ends, Versions, Torn
  <2> QED
    BY <2>1, <2>2
<1>8. CASE Killed(h)
  BY <1>1, <1>2, <1>8 DEF Killed, Gone
<1>9. ASSUME NEW f \in Files, Write(h, f)
      PROVE  (~Working(h)' => Whole') /\ BeforeBackUp(h)' /\ Swapping(h)' /\ PuttingBack(h)'
  BY <1>3, <1>9 DEF Write, Writes
<1>10. ASSUME NEW f \in Files, WriteFails(h, f)
       PROVE  (~Working(h)' => Whole') /\ BeforeBackUp(h)' /\ Swapping(h)' /\ PuttingBack(h)'
  BY <1>3, <1>10 DEF WriteFails, ToRestore
<1>11. ASSUME NEW f \in Files, Restore(h, f)
       PROVE  (~Working(h)' => Whole') /\ BeforeBackUp(h)' /\ Swapping(h)' /\ PuttingBack(h)'
  <2>1. files'[f] = helper[h].backup[f] /\ \A g \in Files \ {f} : files'[g] = files[g]
    BY <1>1, <1>11 DEF Restore, Fails, Writes
  <2> QED
    BY <1>3, <1>11, <2>1 DEF Restore
<1> QED
  BY <1>4, <1>5, <1>6, <1>7, <1>8, <1>9, <1>10, <1>11 DEF Step

\* A step of a helper or of the host leaves the files whole or in one helper's hands.
LEMMA SoundStep == IInv /\ [Next]_vars => Sound'
<1> SUFFICES ASSUME IInv, [Next]_vars PROVE Sound'
  OBVIOUS
<1>1. CASE UNCHANGED vars
  BY <1>1 DEF IInv, Sound, Whole, Working, BeforeBackUp, Swapping, PuttingBack, BackupWhole, vars
<1>2. CASE Exit \/ Start \/ (\E v \in Versions : Stage(v) \/ Reinstall(v)) \/ \E h \in Helpers
        : Launch(h)
  BY <1>2, SoundHost
<1>3. ASSUME NEW h \in Helpers, Step(h) \/ Killed(h) PROVE Sound'
  <2>1. SUFFICES ASSUME ~doubled', ~broken'
                 PROVE  /\ (\A g \in Helpers : ~Working(g)') => Whole'
                        /\ \A g \in Helpers : BeforeBackUp(g)' /\ Swapping(g)' /\ PuttingBack(g)'
    BY DEF Sound
  <2>2. ~doubled /\ helper[h].at # "none" /\ \A g \in Helpers \ {h} : helper'[g] = helper[g]
    BY <1>3, <2>1, Frame DEF IInv
  <2>3. \A g \in Helpers \ {h} : helper'[g].at = "none"
    BY <2>2 DEF IInv, Alone
  <2>4. (~Working(h)' => Whole') /\ BeforeBackUp(h)' /\ Swapping(h)' /\ PuttingBack(h)'
    BY <1>3, <2>1, <2>2, SoundHelper
  <2>5. \A g \in Helpers \ {h} : BeforeBackUp(g)' /\ Swapping(g)' /\ PuttingBack(g)'
    BY <2>3 DEF BeforeBackUp, Swapping, PuttingBack
  <2> QED
    BY <2>4, <2>5
<1> QED
  BY <1>1, <1>2, <1>3 DEF Next

-----------------------------------------------------------------------------
(* The theorems. *)

\* The first install is whole and nobody is updating it.
LEMMA Initially == Init => IInv
<1> SUFFICES ASSUME Init PROVE IInv
  OBVIOUS
<1> USE InstallAssumption DEF Init
<1>1. 1 \in Versions
  BY DEF Versions
<1>2. TypeOK
  BY <1>1 DEF TypeOK, Gone, Torn
<1>3. Alone /\ Loaded
  BY DEF Alone, Loaded, Gone
<1>4. Sound
  BY DEF Sound, Whole, BeforeBackUp, Swapping, PuttingBack, Gone, Torn
<1> QED
  BY <1>2, <1>3, <1>4 DEF IInv

\* The invariant the properties below rest on.
THEOREM SwapCorrect == Spec => []IInv
<1>1. IInv /\ [Next]_vars => IInv'
  BY TypeStep, AloneStep, LoadedStep, SoundStep DEF IInv
<1> QED
  BY <1>1, Initially, PTL DEF Spec

\* Once no helper runs, the installed files are those of one version: a write that
\* fails anywhere is rolled back whole, for any number of files and helpers, unless
\* two ran at once, one was killed, or one could not restore (apply_with, restore).
THEOREM WholeCorrect == Spec => []InstallWhole
<1>1. IInv => InstallWhole
  BY DEF IInv, Sound, InstallWhole, Running, Working
<1> QED
  BY <1>1, SwapCorrect, PTL

\* A helper never replaces a file by an older one: what launches it compares with
\* the version MusicBee runs, which is the version that is installed (is_upgrade).
THEOREM UpgradesOnly == Spec => NeverOlder
<1>1. IInv /\ [Next]_vars =>
        [\A h \in Helpers, f \in Files : ~doubled /\ ~broken /\ Write(h, f)
                => files'[f] > files[f]]_vars
  <2> SUFFICES ASSUME IInv, NEW h \in Helpers, NEW f \in Files, ~doubled, ~broken, Write(h, f)
               PROVE  files'[f] > files[f]
    OBVIOUS
  <2>1. Swapping(h) /\ helper[h].at = "write" /\ f \in helper[h].todo
    BY DEF IInv, Sound, Write
  <2>2. files[f] = helper[h].backup[Plugin] /\ files'[f] = helper[h].version
    BY <2>1, InstallAssumption DEF Swapping, BackupWhole, Write, Writes, IInv, TypeOK
  <2> QED
    BY <2>1, <2>2 DEF Swapping
<1> QED
  BY <1>1, SwapCorrect, PTL DEF Spec, NeverOlder

-----------------------------------------------------------------------------
(* The update service, Updates. *)

\* Types: what is published, saved, in hand of a job and of a skip.
Statuses == [state : Service!Offered \cup {"unknown", "checking", "downloading", "staged",
        "skipped",
                                   "up_to_date", "error"},
             version : Service!Versions \cup {0}]
SavedStates == [etag : Nat, skipped : Service!Versions \cup {0}]
\* The steps of a download.
Staging == {"prepare", "write", "finish", "mark"}
Jobs == [at : Staging \cup {"none", "load", "ask", "save", "learn", "publish"}, force : BOOLEAN,
         version : Service!Versions \cup {0}, loaded : SavedStates,
         outcome : {"none", "no_news", "error", "up_to_date", "skipped", "available"},
         previous : Statuses]
Skips == [at : {"none", "save", "publish"}, version : Service!Versions \cup {0}, loaded
        : SavedStates]

\* What is offered is a release.
Named(s) == s.state \in Service!Offered => s.version \in Service!Versions

\* A check that has found an offer and has not stashed it yet.
Answered == job.at \in {"save", "learn"} /\ job.outcome = "available"

\* Types, a part of the state at a time.
KeptOK ==
    /\ release \in [version : Service!Versions, edition : Nat] /\ saved \in SavedStates
    /\ installed \in Service!Versions /\ running \in [number : Nat, up : BOOLEAN]
    /\ staged \in Service!Versions \cup {0} /\ dirs \in [Service!Versions -> {"none", "part",
            "full"}]
    /\ available \in Service!Versions \cup {0} /\ refused \subseteq Service!Versions

JobOK ==
    /\ job \in Jobs /\ Named(job.previous)
    /\ job.at = "none" <=> job = Service!NoJob
    /\ job.at \in Staging => job.version \in Service!Versions
    /\ job.at \in {"save", "learn"} => job.outcome # "none"
    /\ Answered => job.version \in Service!Versions

PanelOK ==
    /\ status \in Statuses /\ Named(status)
    /\ skip \in Skips
    /\ skip.at = "none" <=> skip = Service!NoSkip
    /\ skip.at # "none" => skip.version \in Service!Versions
    /\ skipMet \in BOOLEAN /\ swept \in BOOLEAN

ServiceTyped == KeptOK /\ JobOK /\ PanelOK

\* What runs, runs in a MusicBee that is up.
DiesWithHost ==
    ~running.up => job = Service!NoJob /\ skip = Service!NoSkip /\ available = 0
            /\ status.state = "unknown"
                   /\ shown = "unknown"

\* A download has the status to itself, and stages what is in the stash.
DownloadAlone ==
    job.at \in Staging =>
        /\ status.state = "downloading" /\ shown = "downloading" /\ skip = Service!NoSkip
        /\ job.previous.state = "unknown"
        /\ available = job.version /\ staged < job.version
        /\ job.at = "mark" => dirs[job.version] # "part"

\* Nothing is staged or stashed that was not released.
Ahead == /\ staged <= release.version /\ available <= release.version
         /\ Answered => staged <= job.version /\ job.version <= release.version

\* An offer is shown, published or about to be.
Offering == shown \in Service!Offered \/ status.state \in Service!Offered
        \/ job.previous.state \in Service!Offered
\* What is offered beside a staged bundle is newer than it.
OffersNewer ==
    (Offering /\ staged # 0) =>
        /\ staged < release.version
        /\ available # 0 => staged < available
        /\ Answered => staged < job.version

\* An offer is of what is in the stash, and the stash is of what is offered.
Backed(s) ==
    /\ s.state \in Service!Offered => available = s.version
    /\ available # 0 => s.state \in Service!Offered \cup {"staged"}

\* A skip and a job that are both under way have crossed.
NoCross == ~skipMet => job = Service!NoJob \/ skip = Service!NoSkip

\* The status at rest, and what a check will publish, are backed by the stash.
OffersBacked ==
    ~skipMet =>
        /\ job = Service!NoJob => Backed(status)
        /\ job # Service!NoJob /\ job.at \notin Staging => Backed(job.previous)

\* What is published as staged is what the marker names.
StagedMarked ==
    ~swept => /\ status.state = "staged" => staged = status.version
              /\ job.previous.state = "staged" => staged = job.previous.version

\* The state file keeps the version that was skipped, and whoever is about to write it
\* has read it since.
SkipsKept ==
    ~skipMet =>
        /\ \A v \in refused : v <= saved.skipped
        /\ saved.skipped <= release.version
        /\ available # 0 => available > saved.skipped \/ skip.at = "publish"
        /\ job.at \in {"ask", "save"} => job.loaded.skipped = saved.skipped
        /\ Answered => job.version > saved.skipped
        /\ skip.at # "none" => status.state \in Service!Offered /\ skip.version = status.version
        /\ skip.at = "save" => skip.loaded = saved
        /\ skip.at = "publish" => saved.skipped = skip.version

ServiceIInv ==
    /\ ServiceTyped /\ DiesWithHost /\ DownloadAlone /\ Ahead /\ OffersNewer /\ MarkerCommits
    /\ NoCross /\ OffersBacked /\ StagedMarked /\ SkipsKept /\ Service!SkipHonoured

-----------------------------------------------------------------------------
\* What the answer of a release document makes of a job (check_for_update).
LEMMA AsksShape ==
    ASSUME ServiceTyped, Service!CheckAsks
    PROVE  /\ job' \in Jobs /\ job.at = "ask" /\ job'.at = "save"
           /\ job'.previous = job.previous /\ job'.outcome # "none"
           /\ job'.loaded.skipped = job.loaded.skipped
           /\ Answered' => job'.version = release.version /\ job.loaded.skipped # release.version
<1> USE DEF ServiceTyped, KeptOK, JobOK
<1>1. job.loaded \in SavedStates /\ release.version \in Service!Versions
        /\ release.edition \in Nat
  BY DEF Jobs
<1>2. [job.loaded EXCEPT !.etag = release.edition] \in SavedStates
      /\ [job.loaded EXCEPT !.etag = release.edition].skipped = job.loaded.skipped
  BY <1>1 DEF SavedStates
<1>3. CASE job' = [job EXCEPT !.at = "save", !.outcome = "no_news"]
  BY <1>1, <1>3 DEF Service!CheckAsks, Jobs, Answered
<1>4. CASE job' = [job EXCEPT !.at = "save", !.outcome = "error"]
  BY <1>1, <1>4 DEF Service!CheckAsks, Jobs, Answered
<1>5. CASE job' = [job EXCEPT !.at = "save", !.version = release.version,
                     !.loaded.etag = release.edition,
                     !.outcome = IF release.version <= installed THEN "up_to_date"
                                 ELSE IF Service!IsSkipped THEN "skipped" ELSE "available"]
  <2>1. job' = [job EXCEPT !.at = "save", !.version = release.version,
                     !.loaded = [job.loaded EXCEPT !.etag = release.edition],
                     !.outcome = IF release.version <= installed THEN "up_to_date"
                                 ELSE IF Service!IsSkipped THEN "skipped" ELSE "available"]
    BY <1>5
  <2> QED
    BY <1>1, <1>2, <2>1 DEF Service!CheckAsks, Jobs, Answered, Service!IsSkipped
<1> QED
  BY <1>3, <1>4, <1>5 DEF Service!CheckAsks, Service!Answer

\* The three writes of a bundle: its files, its manifest, its marker (stage).
LEMMA StagesShape ==
    ASSUME ServiceTyped, Service!Stages
    PROVE  /\ job' \in Jobs /\ job'.version = job.version /\ job'.outcome = job.outcome
           /\ \/ /\ job.at = "write" /\ job'.at = "finish" /\ job'.previous = job.previous
                 /\ staged' = staged /\ dirs' = [dirs EXCEPT ![job.version] = "part"]
              \/ /\ job.at = "finish" /\ job'.at = "mark" /\ job'.previous = job.previous
                 /\ staged' = staged /\ dirs' = [dirs EXCEPT ![job.version] = "full"]
              \/ /\ job.at = "mark" /\ job'.at = "publish"
                 /\ job'.previous = Service!Is("staged", job.version)
                 /\ dirs[job.version] # "none" /\ staged' = job.version /\ dirs' = dirs
<1> USE DEF ServiceTyped, KeptOK, JobOK, Jobs, Staging, Service!Stages, Service!StageWrites,
   Service!After, Service!StageOrder
<1>1. CASE job.at = "write"
  BY <1>1
<1>2. CASE job.at = "finish"
  BY <1>2
<1>3. CASE job.at = "mark"
  <2>1. /\ dirs[job.version] # "none" /\ staged' = job.version /\ dirs' = dirs
        /\ job' = [job EXCEPT !.at = "publish", !.previous = Service!Is("staged", job.version)]
    BY <1>3
  <2>2. Service!Is("staged", job.version) \in Statuses
    BY <1>3 DEF Service!Is, Statuses
  <2> QED
    BY <1>3, <2>1, <2>2
<1> QED
  BY <1>1, <1>2, <1>3

\* What is kept on disk, and what is installed, keeps its types, whatever any thread does.
LEMMA KeptStep == ASSUME ServiceTyped, [Service!Next]_(Service!vars) PROVE KeptOK'
<1> USE InstallAssumption DEF Service!disk, Service!panel, Service!history, Service!Versions,
   Statuses, SavedStates, Staging, Named, Service!Offered, ServiceTyped, KeptOK, JobOK, Jobs,
   PanelOK, Skips
<1>1. CASE Service!Publish
  BY <1>1 DEF Service!Publish
<1>2. CASE Service!Exit
  BY <1>2 DEF Service!Exit, Service!NoJob, Service!NoSkip, Service!NoState, Service!Is
<1>3. CASE Service!Start
  BY <1>3 DEF Service!Start, Service!Quiet, Service!Is
<1>4. CASE Service!Apply
  BY <1>4 DEF Service!Apply
<1>5. CASE Service!SweepReads
  BY <1>5 DEF Service!SweepReads
<1>6. CASE Service!SweepClears
  BY <1>6 DEF Service!SweepClears
<1>7. CASE Service!Refresh
  BY <1>7 DEF Service!Refresh, Service!NoSkip
<1>8. ASSUME NEW f \in BOOLEAN, Service!StartCheck(f) PROVE KeptOK'
  BY <1>8 DEF Service!StartCheck, Service!NoJob, Service!NoSkip, Service!Is
<1>9. CASE Service!StartupBusy
  BY <1>9 DEF Service!StartupBusy, Service!NoJob
<1>10. CASE Service!StartDownload
  BY <1>10 DEF Service!StartDownload, Service!NoJob, Service!Is, Service!NoSkip
<1>11. CASE Service!SkipReads
  BY <1>11 DEF Service!SkipReads, Service!NoSkip
<1>12. CASE Service!SkipSaves
  BY <1>12 DEF Service!SkipSaves
<1>13. CASE Service!SkipPublishes
  BY <1>13 DEF Service!SkipPublishes, Service!Is, Service!NoSkip, Service!NoState
<1>14. CASE Service!CheckLoads
  BY <1>14 DEF Service!CheckLoads
<1>15. CASE Service!CheckAsks
  BY <1>15 DEF Service!CheckAsks, Service!Answer, Service!IsSkipped
<1>16. CASE Service!CheckSaves
  BY <1>16 DEF Service!CheckSaves
<1>17. CASE Service!CheckLearns
  BY <1>17 DEF Service!CheckLearns, Service!Stash, Service!Verdict, Service!NoNews, Service!Quiet,
     Service!Is
<1>18. CASE Service!Publishes
  BY <1>18 DEF Service!Publishes, Service!NoJob
<1>19. CASE Service!StagePrepares
  BY <1>19 DEF Service!StagePrepares
<1>20. CASE Service!Stages
  BY <1>20 DEF Service!Stages, Service!StageWrites, Service!After, Service!StageOrder, Service!Is
<1>21. CASE Service!StageFails
  BY <1>21 DEF Service!StageFails, Service!Failing, Service!Is
<1>22. CASE UNCHANGED Service!vars
  BY <1>22 DEF Service!vars
<1> QED
  BY <1>1, <1>2, <1>3, <1>4, <1>5, <1>6, <1>7, <1>8, <1>9, <1>10, <1>11, <1>12, <1>13, <1>14,
     <1>15, <1>16, <1>17, <1>18, <1>19, <1>20, <1>21, <1>22 DEF Service!Next

\* A job keeps its shape: what it has in hand is named by the step it is at
\* (check_for_update, interpret, stage).
LEMMA JobStep == ASSUME ServiceTyped, [Service!Next]_(Service!vars) PROVE JobOK'
<1> USE InstallAssumption DEF Service!disk, Service!panel, Service!history, Service!Versions,
   Statuses, SavedStates, Staging, Named, Service!Offered, ServiceTyped, KeptOK, JobOK, Jobs,
   PanelOK, Service!NoJob, Answered
<1>1. CASE Service!Publish
  BY <1>1 DEF Service!Publish
<1>2. CASE Service!Exit
  BY <1>2 DEF Service!Exit, Service!NoJob, Service!NoSkip, Service!NoState, Service!Is
<1>3. CASE Service!Start
  BY <1>3 DEF Service!Start, Service!Quiet, Service!Is
<1>4. CASE Service!Apply
  BY <1>4 DEF Service!Apply
<1>5. CASE Service!SweepReads
  BY <1>5 DEF Service!SweepReads
<1>6. CASE Service!SweepClears
  BY <1>6 DEF Service!SweepClears
<1>7. CASE Service!Refresh
  BY <1>7 DEF Service!Refresh, Service!NoSkip
<1>8. ASSUME NEW f \in BOOLEAN, Service!StartCheck(f) PROVE JobOK'
  BY <1>8 DEF Service!StartCheck, Service!NoJob, Service!NoSkip, Service!Is
<1>9. CASE Service!StartupBusy
  BY <1>9 DEF Service!StartupBusy, Service!NoJob
<1>10. CASE Service!StartDownload
  BY <1>10 DEF Service!StartDownload, Service!NoJob, Service!Is, Service!NoSkip
<1>11. CASE Service!SkipReads
  BY <1>11 DEF Service!SkipReads, Service!NoSkip
<1>12. CASE Service!SkipSaves
  BY <1>12 DEF Service!SkipSaves
<1>13. CASE Service!SkipPublishes
  BY <1>13 DEF Service!SkipPublishes, Service!Is, Service!NoSkip, Service!NoState
<1>14. CASE Service!CheckLoads
  BY <1>14 DEF Service!CheckLoads
<1>15. CASE Service!CheckAsks
  <2>1. /\ job' \in Jobs /\ job'.at = "save" /\ job'.previous = job.previous
        /\ job'.outcome # "none" /\ (Answered' => job'.version = release.version)
    BY <1>15, AsksShape
  <2>2. Named(job.previous) /\ release.version \in Service!Versions
    OBVIOUS
  <2>3. Service!NoJob.at = "none"
    OBVIOUS
  <2> HIDE DEF ServiceTyped, KeptOK, PanelOK, Jobs, Statuses, SavedStates, Named, Service!NoJob,
     Answered, Service!Versions
  <2> QED
    BY <2>1, <2>2, <2>3
<1>16. CASE Service!CheckSaves
  BY <1>16 DEF Service!CheckSaves
<1>17. CASE Service!CheckLearns
  <2>1. Service!Quiet("up_to_date") \in Statuses /\ Service!Quiet("error") \in Statuses
        /\ Named(Service!Quiet("up_to_date")) /\ Named(Service!Quiet("error"))
    BY DEF Service!Quiet, Service!Is
  <2>2. Service!NoNews \in Statuses /\ Named(Service!NoNews)
    BY <2>1 DEF Service!NoNews
  <2>3. Service!Verdict \in Statuses /\ Named(Service!Verdict)
    <3> HIDE DEF Service!NoNews, Service!Quiet
    <3>1. CASE job.outcome \in {"no_news", "error"}
      BY <2>1, <2>2, <3>1 DEF Service!Verdict
    <3>2. CASE job.outcome \notin {"no_news", "error"}
      BY <1>17, <3>2 DEF Service!Verdict, Service!Is, Service!CheckLearns
    <3> QED
      BY <3>1, <3>2
  <2> HIDE DEF Named, Statuses, Service!Verdict
  <2> QED
    BY <1>17, <2>3 DEF Service!CheckLearns
<1>18. CASE Service!Publishes
  <2>1. job' = Service!NoJob
    BY <1>18 DEF Service!Publishes
  <2> QED
    BY <2>1 DEF Service!Is, Service!NoState
<1>19. CASE Service!StagePrepares
  BY <1>19 DEF Service!StagePrepares
<1>20. CASE Service!Stages
  BY <1>20, StagesShape DEF Service!Stages, Service!Is
<1>21. CASE Service!StageFails
  BY <1>21 DEF Service!StageFails, Service!Failing, Service!Is
<1>22. CASE UNCHANGED Service!vars
  BY <1>22 DEF Service!vars
<1> QED
  BY <1>1, <1>2, <1>3, <1>4, <1>5, <1>6, <1>7, <1>8, <1>9, <1>10, <1>11, <1>12, <1>13, <1>14,
     <1>15, <1>16, <1>17, <1>18, <1>19, <1>20, <1>21, <1>22 DEF Service!Next

\* What the panel shows, the published status and a skip under way keep their types.
LEMMA PanelStep == ASSUME ServiceTyped, [Service!Next]_(Service!vars) PROVE PanelOK'
<1> USE InstallAssumption DEF Service!disk, Service!panel, Service!history, Service!Versions,
   Statuses, SavedStates, Staging, Named, Service!Offered, ServiceTyped, KeptOK, JobOK, Jobs,
   PanelOK, Skips, Service!NoSkip
<1>1. CASE Service!Publish
  BY <1>1 DEF Service!Publish
<1>2. CASE Service!Exit
  BY <1>2 DEF Service!Exit, Service!NoJob, Service!NoSkip, Service!NoState, Service!Is
<1>3. CASE Service!Start
  BY <1>3 DEF Service!Start, Service!Quiet, Service!Is
<1>4. CASE Service!Apply
  BY <1>4 DEF Service!Apply
<1>5. CASE Service!SweepReads
  BY <1>5 DEF Service!SweepReads
<1>6. CASE Service!SweepClears
  BY <1>6 DEF Service!SweepClears
<1>7. CASE Service!Refresh
  BY <1>7 DEF Service!Refresh, Service!NoSkip
<1>8. ASSUME NEW f \in BOOLEAN, Service!StartCheck(f) PROVE PanelOK'
  BY <1>8 DEF Service!StartCheck, Service!NoJob, Service!NoSkip, Service!Is
<1>9. CASE Service!StartupBusy
  BY <1>9 DEF Service!StartupBusy, Service!NoJob
<1>10. CASE Service!StartDownload
  BY <1>10 DEF Service!StartDownload, Service!NoJob, Service!Is, Service!NoSkip
<1>11. CASE Service!SkipReads
  BY <1>11 DEF Service!SkipReads, Service!NoSkip
<1>12. CASE Service!SkipSaves
  BY <1>12 DEF Service!SkipSaves
<1>13. CASE Service!SkipPublishes
  BY <1>13 DEF Service!SkipPublishes, Service!Is, Service!NoSkip, Service!NoState
<1>14. CASE Service!CheckLoads
  BY <1>14 DEF Service!CheckLoads
<1>15. CASE Service!CheckAsks
  BY <1>15 DEF Service!CheckAsks, Service!Answer, Service!IsSkipped
<1>16. CASE Service!CheckSaves
  BY <1>16 DEF Service!CheckSaves
<1>17. CASE Service!CheckLearns
  BY <1>17 DEF Service!CheckLearns, Service!Stash, Service!Verdict, Service!NoNews, Service!Quiet,
     Service!Is
<1>18. CASE Service!Publishes
  BY <1>18 DEF Service!Publishes, Service!NoJob
<1>19. CASE Service!StagePrepares
  BY <1>19 DEF Service!StagePrepares
<1>20. CASE Service!Stages
  BY <1>20 DEF Service!Stages, Service!StageWrites, Service!After, Service!StageOrder, Service!Is
<1>21. CASE Service!StageFails
  BY <1>21 DEF Service!StageFails, Service!Failing, Service!Is
<1>22. CASE UNCHANGED Service!vars
  BY <1>22 DEF Service!vars
<1> QED
  BY <1>1, <1>2, <1>3, <1>4, <1>5, <1>6, <1>7, <1>8, <1>9, <1>10, <1>11, <1>12, <1>13, <1>14,
     <1>15, <1>16, <1>17, <1>18, <1>19, <1>20, <1>21, <1>22 DEF Service!Next

\* Nothing of a session outlives it: an exit takes the job, the skip and the stash.
LEMMA DiesStep ==
    ASSUME ServiceTyped, DiesWithHost, [Service!Next]_(Service!vars)
    PROVE  DiesWithHost'
<1> USE DEF Service!disk, Service!panel, Service!history, DiesWithHost, ServiceTyped, KeptOK,
   JobOK, PanelOK
<1>1. CASE Service!Publish
  BY <1>1 DEF Service!Publish
<1>2. CASE Service!Exit
  BY <1>2 DEF Service!Exit, Service!NoJob, Service!NoSkip, Service!NoState, Service!Is
<1>3. CASE Service!Start
  BY <1>3 DEF Service!Start, Service!Quiet, Service!Is
<1>4. CASE Service!Apply
  BY <1>4 DEF Service!Apply
<1>5. CASE Service!SweepReads
  BY <1>5 DEF Service!SweepReads
<1>6. CASE Service!SweepClears
  BY <1>6 DEF Service!SweepClears
<1>7. CASE Service!Refresh
  BY <1>7 DEF Service!Refresh, Service!NoSkip
<1>8. ASSUME NEW f \in BOOLEAN, Service!StartCheck(f) PROVE DiesWithHost'
  BY <1>8 DEF Service!StartCheck, Service!NoJob, Service!NoSkip, Service!Is
<1>9. CASE Service!StartupBusy
  BY <1>9 DEF Service!StartupBusy, Service!NoJob
<1>10. CASE Service!StartDownload
  BY <1>10 DEF Service!StartDownload, Service!NoJob, Service!Is, Service!NoSkip
<1>11. CASE Service!SkipReads
  BY <1>11 DEF Service!SkipReads, Service!NoSkip
<1>12. CASE Service!SkipSaves
  BY <1>12 DEF Service!SkipSaves
<1>13. CASE Service!SkipPublishes
  BY <1>13 DEF Service!SkipPublishes, Service!Is, Service!NoSkip, Service!NoState
<1>14. CASE Service!CheckLoads
  BY <1>14 DEF Service!CheckLoads
<1>15. CASE Service!CheckAsks
  BY <1>15 DEF Service!CheckAsks, Service!Answer, Service!IsSkipped
<1>16. CASE Service!CheckSaves
  BY <1>16 DEF Service!CheckSaves
<1>17. CASE Service!CheckLearns
  BY <1>17 DEF Service!CheckLearns, Service!Stash, Service!Verdict, Service!NoNews, Service!Quiet,
     Service!Is
<1>18. CASE Service!Publishes
  BY <1>18 DEF Service!Publishes, Service!NoJob
<1>19. CASE Service!StagePrepares
  BY <1>19 DEF Service!StagePrepares
<1>20. CASE Service!Stages
  BY <1>20 DEF Service!Stages, Service!StageWrites, Service!After, Service!StageOrder, Service!Is
<1>21. CASE Service!StageFails
  BY <1>21 DEF Service!StageFails, Service!Failing, Service!Is
<1>22. CASE UNCHANGED Service!vars
  BY <1>22 DEF Service!vars
<1> QED
  BY <1>1, <1>2, <1>3, <1>4, <1>5, <1>6, <1>7, <1>8, <1>9, <1>10, <1>11, <1>12, <1>13, <1>14,
     <1>15, <1>16, <1>17, <1>18, <1>19, <1>20, <1>21, <1>22 DEF Service!Next

\* A download has the status to itself, and stages what is in the stash, newer than any
\* marker: the panel disables its buttons while it runs, and one job holds BUSY.
LEMMA DownloadStep ==
    ASSUME ServiceTyped, DiesWithHost, DownloadAlone, Ahead, OffersNewer,
           [Service!Next]_(Service!vars)
    PROVE  DownloadAlone'
<1> USE InstallAssumption DEF Service!disk, Service!panel, Service!history, DownloadAlone,
   ServiceTyped, KeptOK, JobOK, PanelOK, Staging, Service!Versions, Jobs, Service!NoJob,
   Service!NoState, Service!NoSkip, Service!Is, Ahead, OffersNewer, Offering, Service!Offered,
   DiesWithHost
<1>1. CASE Service!Publish
  BY <1>1 DEF Service!Publish
<1>2. CASE Service!Exit
  BY <1>2 DEF Service!Exit, Service!NoJob, Service!NoSkip, Service!NoState, Service!Is
<1>3. CASE Service!Start
  BY <1>3 DEF Service!Start, Service!Quiet, Service!Is
<1>4. CASE Service!Apply
  BY <1>4 DEF Service!Apply
<1>5. CASE Service!SweepReads
  BY <1>5 DEF Service!SweepReads
<1>6. CASE Service!SweepClears
  BY <1>6 DEF Service!SweepClears
<1>7. CASE Service!Refresh
  BY <1>7 DEF Service!Refresh, Service!NoSkip
<1>8. ASSUME NEW f \in BOOLEAN, Service!StartCheck(f) PROVE DownloadAlone'
  BY <1>8 DEF Service!StartCheck, Service!NoJob, Service!NoSkip, Service!Is
<1>9. CASE Service!StartupBusy
  BY <1>9 DEF Service!StartupBusy, Service!NoJob
<1>10. CASE Service!StartDownload
  BY <1>10 DEF Service!StartDownload, Service!NoJob, Service!Is, Service!NoSkip
<1>11. CASE Service!SkipReads
  BY <1>11 DEF Service!SkipReads, Service!NoSkip
<1>12. CASE Service!SkipSaves
  BY <1>12 DEF Service!SkipSaves
<1>13. CASE Service!SkipPublishes
  BY <1>13 DEF Service!SkipPublishes, Service!Is, Service!NoSkip, Service!NoState
<1>14. CASE Service!CheckLoads
  BY <1>14 DEF Service!CheckLoads
<1>15. CASE Service!CheckAsks
  BY <1>15 DEF Service!CheckAsks, Service!Answer, Service!IsSkipped
<1>16. CASE Service!CheckSaves
  BY <1>16 DEF Service!CheckSaves
<1>17. CASE Service!CheckLearns
  BY <1>17 DEF Service!CheckLearns, Service!Stash, Service!Verdict, Service!NoNews, Service!Quiet,
     Service!Is
<1>18. CASE Service!Publishes
  BY <1>18 DEF Service!Publishes, Service!NoJob
<1>19. CASE Service!StagePrepares
  BY <1>19 DEF Service!StagePrepares
<1>20. CASE Service!Stages
  BY <1>20, StagesShape DEF Service!Stages
<1>21. CASE Service!StageFails
  BY <1>21 DEF Service!StageFails, Service!Failing, Service!Is
<1>22. CASE UNCHANGED Service!vars
  BY <1>22 DEF Service!vars
<1> QED
  BY <1>1, <1>2, <1>3, <1>4, <1>5, <1>6, <1>7, <1>8, <1>9, <1>10, <1>11, <1>12, <1>13, <1>14,
     <1>15, <1>16, <1>17, <1>18, <1>19, <1>20, <1>21, <1>22 DEF Service!Next

\* Nothing is staged, stashed or answered that has not been released.
LEMMA AheadStep ==
    ASSUME ServiceTyped, DownloadAlone, Ahead, [Service!Next]_(Service!vars)
    PROVE  Ahead'
<1> USE InstallAssumption DEF Service!disk, Service!panel, Service!history, Ahead, Answered,
   DownloadAlone, ServiceTyped, KeptOK, JobOK, Jobs, Service!Versions, Service!NoJob, Staging
<1>1. CASE Service!Publish
  BY <1>1 DEF Service!Publish
<1>2. CASE Service!Exit
  BY <1>2 DEF Service!Exit, Service!NoJob, Service!NoSkip, Service!NoState, Service!Is
<1>3. CASE Service!Start
  BY <1>3 DEF Service!Start, Service!Quiet, Service!Is
<1>4. CASE Service!Apply
  BY <1>4 DEF Service!Apply
<1>5. CASE Service!SweepReads
  BY <1>5 DEF Service!SweepReads
<1>6. CASE Service!SweepClears
  BY <1>6 DEF Service!SweepClears
<1>7. CASE Service!Refresh
  BY <1>7 DEF Service!Refresh, Service!NoSkip
<1>8. ASSUME NEW f \in BOOLEAN, Service!StartCheck(f) PROVE Ahead'
  BY <1>8 DEF Service!StartCheck, Service!NoJob, Service!NoSkip, Service!Is
<1>9. CASE Service!StartupBusy
  BY <1>9 DEF Service!StartupBusy, Service!NoJob
<1>10. CASE Service!StartDownload
  BY <1>10 DEF Service!StartDownload, Service!NoJob, Service!Is, Service!NoSkip
<1>11. CASE Service!SkipReads
  BY <1>11 DEF Service!SkipReads, Service!NoSkip
<1>12. CASE Service!SkipSaves
  BY <1>12 DEF Service!SkipSaves
<1>13. CASE Service!SkipPublishes
  BY <1>13 DEF Service!SkipPublishes, Service!Is, Service!NoSkip, Service!NoState
<1>14. CASE Service!CheckLoads
  BY <1>14 DEF Service!CheckLoads
<1>15. CASE Service!CheckAsks
  BY <1>15, AsksShape DEF Service!CheckAsks
<1>16. CASE Service!CheckSaves
  BY <1>16 DEF Service!CheckSaves
<1>17. CASE Service!CheckLearns
  BY <1>17 DEF Service!CheckLearns, Service!Stash, Service!Verdict, Service!NoNews, Service!Quiet,
     Service!Is
<1>18. CASE Service!Publishes
  BY <1>18 DEF Service!Publishes, Service!NoJob
<1>19. CASE Service!StagePrepares
  BY <1>19 DEF Service!StagePrepares
<1>20. CASE Service!Stages
  BY <1>20, StagesShape DEF Service!Stages
<1>21. CASE Service!StageFails
  BY <1>21 DEF Service!StageFails, Service!Failing, Service!Is
<1>22. CASE UNCHANGED Service!vars
  BY <1>22 DEF Service!vars
<1> QED
  BY <1>1, <1>2, <1>3, <1>4, <1>5, <1>6, <1>7, <1>8, <1>9, <1>10, <1>11, <1>12, <1>13, <1>14,
     <1>15, <1>16, <1>17, <1>18, <1>19, <1>20, <1>21, <1>22 DEF Service!Next

\* Beside a staged bundle only a newer release is offered (interpret, quiet).
LEMMA OffersStep ==
    ASSUME ServiceTyped, DiesWithHost, DownloadAlone, Ahead, OffersNewer,
           [Service!Next]_(Service!vars)
    PROVE  OffersNewer'
<1> USE InstallAssumption DEF Service!disk, Service!panel, Service!history, Ahead, Answered,
   DownloadAlone, ServiceTyped, KeptOK, JobOK, Jobs, Service!Versions, Staging, OffersNewer,
   Offering, Service!Offered, Service!Is, PanelOK, Statuses, Service!NoJob
<1>1. CASE Service!Publish
  BY <1>1 DEF Service!Publish
<1>2. CASE Service!Exit
  BY <1>2 DEF Service!Exit, Service!NoJob, Service!NoSkip, Service!NoState, Service!Is
<1>3. CASE Service!Start
  BY <1>3 DEF Service!Start, Service!Quiet, Service!Is
<1>4. CASE Service!Apply
  BY <1>4 DEF Service!Apply
<1>5. CASE Service!SweepReads
  BY <1>5 DEF Service!SweepReads
<1>6. CASE Service!SweepClears
  BY <1>6 DEF Service!SweepClears
<1>7. CASE Service!Refresh
  BY <1>7 DEF Service!Refresh, Service!NoSkip
<1>8. ASSUME NEW f \in BOOLEAN, Service!StartCheck(f) PROVE OffersNewer'
  BY <1>8 DEF Service!StartCheck, Service!NoJob, Service!NoSkip, Service!Is
<1>9. CASE Service!StartupBusy
  BY <1>9 DEF Service!StartupBusy, Service!NoJob
<1>10. CASE Service!StartDownload
  BY <1>10 DEF Service!StartDownload, Service!NoJob, Service!Is, Service!NoSkip
<1>11. CASE Service!SkipReads
  BY <1>11 DEF Service!SkipReads, Service!NoSkip
<1>12. CASE Service!SkipSaves
  BY <1>12 DEF Service!SkipSaves
<1>13. CASE Service!SkipPublishes
  BY <1>13 DEF Service!SkipPublishes, Service!Is, Service!NoSkip, Service!NoState
<1>14. CASE Service!CheckLoads
  BY <1>14 DEF Service!CheckLoads
<1>15. CASE Service!CheckAsks
  BY <1>15, AsksShape DEF Service!CheckAsks
<1>16. CASE Service!CheckSaves
  BY <1>16 DEF Service!CheckSaves
<1>17. CASE Service!CheckLearns
  BY <1>17 DEF Service!CheckLearns, Service!Stash, Service!Verdict, Service!NoNews, Service!Quiet,
     Service!Is
<1>18. CASE Service!Publishes
  BY <1>18 DEF Service!Publishes, Service!NoJob
<1>19. CASE Service!StagePrepares
  BY <1>19 DEF Service!StagePrepares
<1>20. CASE Service!Stages
  BY <1>20, StagesShape DEF Service!Stages
<1>21. CASE Service!StageFails
  BY <1>21 DEF Service!StageFails, Service!Failing, Service!Is
<1>22. CASE UNCHANGED Service!vars
  BY <1>22 DEF Service!vars
<1> QED
  BY <1>1, <1>2, <1>3, <1>4, <1>5, <1>6, <1>7, <1>8, <1>9, <1>10, <1>11, <1>12, <1>13, <1>14,
     <1>15, <1>16, <1>17, <1>18, <1>19, <1>20, <1>21, <1>22 DEF Service!Next

\* The marker stays over a whole bundle: prepare never clears the directory it names
\* (stage, sweep_applied_staging).
LEMMA CommitStep ==
    ASSUME ServiceTyped, DownloadAlone, MarkerCommits, [Service!Next]_(Service!vars)
    PROVE  MarkerCommits'
<1> USE InstallAssumption DEF Service!disk, Service!panel, Service!history, MarkerCommits,
   Service!MarkerCommits, DownloadAlone, ServiceTyped, KeptOK, JobOK, Service!Versions, Staging
<1>1. CASE Service!Publish
  BY <1>1 DEF Service!Publish
<1>2. CASE Service!Exit
  BY <1>2 DEF Service!Exit, Service!NoJob, Service!NoSkip, Service!NoState, Service!Is
<1>3. CASE Service!Start
  BY <1>3 DEF Service!Start, Service!Quiet, Service!Is
<1>4. CASE Service!Apply
  BY <1>4 DEF Service!Apply
<1>5. CASE Service!SweepReads
  BY <1>5 DEF Service!SweepReads
<1>6. CASE Service!SweepClears
  BY <1>6 DEF Service!SweepClears
<1>7. CASE Service!Refresh
  BY <1>7 DEF Service!Refresh, Service!NoSkip
<1>8. ASSUME NEW f \in BOOLEAN, Service!StartCheck(f) PROVE MarkerCommits'
  BY <1>8 DEF Service!StartCheck, Service!NoJob, Service!NoSkip, Service!Is
<1>9. CASE Service!StartupBusy
  BY <1>9 DEF Service!StartupBusy, Service!NoJob
<1>10. CASE Service!StartDownload
  BY <1>10 DEF Service!StartDownload, Service!NoJob, Service!Is, Service!NoSkip
<1>11. CASE Service!SkipReads
  BY <1>11 DEF Service!SkipReads, Service!NoSkip
<1>12. CASE Service!SkipSaves
  BY <1>12 DEF Service!SkipSaves
<1>13. CASE Service!SkipPublishes
  BY <1>13 DEF Service!SkipPublishes, Service!Is, Service!NoSkip, Service!NoState
<1>14. CASE Service!CheckLoads
  BY <1>14 DEF Service!CheckLoads
<1>15. CASE Service!CheckAsks
  BY <1>15 DEF Service!CheckAsks, Service!Answer, Service!IsSkipped
<1>16. CASE Service!CheckSaves
  BY <1>16 DEF Service!CheckSaves
<1>17. CASE Service!CheckLearns
  BY <1>17 DEF Service!CheckLearns, Service!Stash, Service!Verdict, Service!NoNews, Service!Quiet,
     Service!Is
<1>18. CASE Service!Publishes
  BY <1>18 DEF Service!Publishes, Service!NoJob
<1>19. CASE Service!StagePrepares
  BY <1>19 DEF Service!StagePrepares
<1>20. CASE Service!Stages
  BY <1>20 DEF Service!Stages, Service!StageWrites, Service!After, Service!StageOrder, Service!Is
<1>21. CASE Service!StageFails
  BY <1>21 DEF Service!StageFails, Service!Failing, Service!Is
<1>22. CASE UNCHANGED Service!vars
  BY <1>22 DEF Service!vars
<1> QED
  BY <1>1, <1>2, <1>3, <1>4, <1>5, <1>6, <1>7, <1>8, <1>9, <1>10, <1>11, <1>12, <1>13, <1>14,
     <1>15, <1>16, <1>17, <1>18, <1>19, <1>20, <1>21, <1>22 DEF Service!Next

\* Until they cross, a skip and a job do not run at once.
LEMMA CrossStep ==
    ASSUME ServiceTyped, DownloadAlone, NoCross, [Service!Next]_(Service!vars)
    PROVE  NoCross'
<1> USE DEF Service!disk, Service!panel, Service!history, NoCross, DownloadAlone, ServiceTyped,
   PanelOK, JobOK, Staging, Jobs, Skips
<1>1. CASE Service!Publish
  BY <1>1 DEF Service!Publish
<1>2. CASE Service!Exit
  BY <1>2 DEF Service!Exit, Service!NoJob, Service!NoSkip, Service!NoState, Service!Is
<1>3. CASE Service!Start
  BY <1>3 DEF Service!Start, Service!Quiet, Service!Is
<1>4. CASE Service!Apply
  BY <1>4 DEF Service!Apply
<1>5. CASE Service!SweepReads
  BY <1>5 DEF Service!SweepReads
<1>6. CASE Service!SweepClears
  BY <1>6 DEF Service!SweepClears
<1>7. CASE Service!Refresh
  BY <1>7 DEF Service!Refresh, Service!NoSkip
<1>8. ASSUME NEW f \in BOOLEAN, Service!StartCheck(f) PROVE NoCross'
  BY <1>8 DEF Service!StartCheck, Service!NoJob, Service!NoSkip, Service!Is
<1>9. CASE Service!StartupBusy
  BY <1>9 DEF Service!StartupBusy, Service!NoJob
<1>10. CASE Service!StartDownload
  BY <1>10 DEF Service!StartDownload, Service!NoJob, Service!Is, Service!NoSkip
<1>11. CASE Service!SkipReads
  BY <1>11 DEF Service!SkipReads, Service!NoSkip
<1>12. CASE Service!SkipSaves
  BY <1>12 DEF Service!SkipSaves
<1>13. CASE Service!SkipPublishes
  BY <1>13 DEF Service!SkipPublishes, Service!Is, Service!NoSkip, Service!NoState
<1>14. CASE Service!CheckLoads
  BY <1>14 DEF Service!CheckLoads
<1>15. CASE Service!CheckAsks
  BY <1>15 DEF Service!CheckAsks, Service!Answer, Service!IsSkipped
<1>16. CASE Service!CheckSaves
  BY <1>16 DEF Service!CheckSaves
<1>17. CASE Service!CheckLearns
  BY <1>17 DEF Service!CheckLearns, Service!Stash, Service!Verdict, Service!NoNews, Service!Quiet,
     Service!Is
<1>18. CASE Service!Publishes
  BY <1>18 DEF Service!Publishes, Service!NoJob
<1>19. CASE Service!StagePrepares
  BY <1>19 DEF Service!StagePrepares
<1>20. CASE Service!Stages
  BY <1>20 DEF Service!Stages, Service!StageWrites, Service!After, Service!StageOrder, Service!Is
<1>21. CASE Service!StageFails
  BY <1>21 DEF Service!StageFails, Service!Failing, Service!Is
<1>22. CASE UNCHANGED Service!vars
  BY <1>22 DEF Service!vars
<1> QED
  BY <1>1, <1>2, <1>3, <1>4, <1>5, <1>6, <1>7, <1>8, <1>9, <1>10, <1>11, <1>12, <1>13, <1>14,
     <1>15, <1>16, <1>17, <1>18, <1>19, <1>20, <1>21, <1>22 DEF Service!Next

\* What is offered, or about to be published as an offer, is what is in the stash
\* (interpret writes the stash before the status, skip_available clears it first).
LEMMA BackedStep ==
    ASSUME ServiceTyped, DiesWithHost, DownloadAlone, NoCross, OffersBacked,
           [Service!Next]_(Service!vars)
    PROVE  OffersBacked'
<1> USE DEF Service!disk, Service!panel, Service!history, OffersBacked, Backed, NoCross,
   DownloadAlone, DiesWithHost, ServiceTyped, PanelOK, JobOK, KeptOK, Staging, Service!Offered,
   Jobs, Statuses, Service!NoJob, Service!Is
<1>1. CASE Service!Publish
  BY <1>1 DEF Service!Publish
<1>2. CASE Service!Exit
  BY <1>2 DEF Service!Exit, Service!NoJob, Service!NoSkip, Service!NoState, Service!Is
<1>3. CASE Service!Start
  BY <1>3 DEF Service!Start, Service!Quiet, Service!Is
<1>4. CASE Service!Apply
  BY <1>4 DEF Service!Apply
<1>5. CASE Service!SweepReads
  BY <1>5 DEF Service!SweepReads
<1>6. CASE Service!SweepClears
  BY <1>6 DEF Service!SweepClears
<1>7. CASE Service!Refresh
  BY <1>7 DEF Service!Refresh, Service!NoSkip
<1>8. ASSUME NEW f \in BOOLEAN, Service!StartCheck(f) PROVE OffersBacked'
  BY <1>8 DEF Service!StartCheck, Service!NoJob, Service!NoSkip, Service!Is
<1>9. CASE Service!StartupBusy
  BY <1>9 DEF Service!StartupBusy, Service!NoJob
<1>10. CASE Service!StartDownload
  BY <1>10 DEF Service!StartDownload, Service!NoJob, Service!Is, Service!NoSkip
<1>11. CASE Service!SkipReads
  BY <1>11 DEF Service!SkipReads, Service!NoSkip
<1>12. CASE Service!SkipSaves
  BY <1>12 DEF Service!SkipSaves
<1>13. CASE Service!SkipPublishes
  BY <1>13 DEF Service!SkipPublishes, Service!Is, Service!NoSkip, Service!NoState
<1>14. CASE Service!CheckLoads
  BY <1>14 DEF Service!CheckLoads
<1>15. CASE Service!CheckAsks
  BY <1>15, AsksShape DEF Service!CheckAsks
<1>16. CASE Service!CheckSaves
  BY <1>16 DEF Service!CheckSaves
<1>17. CASE Service!CheckLearns
  BY <1>17 DEF Service!CheckLearns, Service!Stash, Service!Verdict, Service!NoNews, Service!Quiet,
     Service!Is
<1>18. CASE Service!Publishes
  BY <1>18 DEF Service!Publishes, Service!NoJob
<1>19. CASE Service!StagePrepares
  BY <1>19 DEF Service!StagePrepares
<1>20. CASE Service!Stages
  BY <1>20, StagesShape DEF Service!Stages
<1>21. CASE Service!StageFails
  BY <1>21 DEF Service!StageFails, Service!Failing, Service!Is
<1>22. CASE UNCHANGED Service!vars
  BY <1>22 DEF Service!vars
<1> QED
  BY <1>1, <1>2, <1>3, <1>4, <1>5, <1>6, <1>7, <1>8, <1>9, <1>10, <1>11, <1>12, <1>13, <1>14,
     <1>15, <1>16, <1>17, <1>18, <1>19, <1>20, <1>21, <1>22 DEF Service!Next

\* What is shown as staged is what the marker names, unless the sweep took it.
LEMMA StagedStep ==
    ASSUME ServiceTyped, DiesWithHost, DownloadAlone, StagedMarked, [Service!Next]_(Service!vars)
    PROVE  StagedMarked'
<1> USE DEF Service!disk, Service!panel, Service!history, StagedMarked, DownloadAlone,
   DiesWithHost, ServiceTyped, PanelOK, JobOK, KeptOK, Staging, Service!Offered, Jobs, Statuses,
   Service!NoJob, Service!Is
<1>1. CASE Service!Publish
  BY <1>1 DEF Service!Publish
<1>2. CASE Service!Exit
  BY <1>2 DEF Service!Exit, Service!NoJob, Service!NoSkip, Service!NoState, Service!Is
<1>3. CASE Service!Start
  BY <1>3 DEF Service!Start, Service!Quiet, Service!Is
<1>4. CASE Service!Apply
  BY <1>4 DEF Service!Apply
<1>5. CASE Service!SweepReads
  BY <1>5 DEF Service!SweepReads
<1>6. CASE Service!SweepClears
  BY <1>6 DEF Service!SweepClears
<1>7. CASE Service!Refresh
  BY <1>7 DEF Service!Refresh, Service!NoSkip
<1>8. ASSUME NEW f \in BOOLEAN, Service!StartCheck(f) PROVE StagedMarked'
  BY <1>8 DEF Service!StartCheck, Service!NoJob, Service!NoSkip, Service!Is
<1>9. CASE Service!StartupBusy
  BY <1>9 DEF Service!StartupBusy, Service!NoJob
<1>10. CASE Service!StartDownload
  BY <1>10 DEF Service!StartDownload, Service!NoJob, Service!Is, Service!NoSkip
<1>11. CASE Service!SkipReads
  BY <1>11 DEF Service!SkipReads, Service!NoSkip
<1>12. CASE Service!SkipSaves
  BY <1>12 DEF Service!SkipSaves
<1>13. CASE Service!SkipPublishes
  BY <1>13 DEF Service!SkipPublishes, Service!Is, Service!NoSkip, Service!NoState
<1>14. CASE Service!CheckLoads
  BY <1>14 DEF Service!CheckLoads
<1>15. CASE Service!CheckAsks
  BY <1>15, AsksShape DEF Service!CheckAsks
<1>16. CASE Service!CheckSaves
  BY <1>16 DEF Service!CheckSaves
<1>17. CASE Service!CheckLearns
  BY <1>17 DEF Service!CheckLearns, Service!Stash, Service!Verdict, Service!NoNews, Service!Quiet,
     Service!Is
<1>18. CASE Service!Publishes
  BY <1>18 DEF Service!Publishes, Service!NoJob
<1>19. CASE Service!StagePrepares
  BY <1>19 DEF Service!StagePrepares
<1>20. CASE Service!Stages
  BY <1>20, StagesShape DEF Service!Stages
<1>21. CASE Service!StageFails
  BY <1>21 DEF Service!StageFails, Service!Failing, Service!Is
<1>22. CASE UNCHANGED Service!vars
  BY <1>22 DEF Service!vars
<1> QED
  BY <1>1, <1>2, <1>3, <1>4, <1>5, <1>6, <1>7, <1>8, <1>9, <1>10, <1>11, <1>12, <1>13, <1>14,
     <1>15, <1>16, <1>17, <1>18, <1>19, <1>20, <1>21, <1>22 DEF Service!Next

\* What the user skipped stays skipped in the state file: whoever writes it back read it
\* after the skip (check_for_update, skip_available).
LEMMA SkipsStep ==
    ASSUME ServiceTyped, DownloadAlone, NoCross, OffersBacked, SkipsKept, DiesWithHost, Ahead,
           [Service!Next]_(Service!vars)
    PROVE  SkipsKept'
<1> USE InstallAssumption DEF Service!disk, Service!panel, Service!history, Ahead, SkipsKept,
   Answered, NoCross, OffersBacked, Backed, DownloadAlone, DiesWithHost, ServiceTyped, PanelOK,
   JobOK, KeptOK, Staging, Service!Offered, Service!Versions, Jobs, Skips, SavedStates,
   Service!NoJob, Service!Is
<1>1. CASE Service!Publish
  BY <1>1 DEF Service!Publish
<1>2. CASE Service!Exit
  BY <1>2 DEF Service!Exit, Service!NoJob, Service!NoSkip, Service!NoState, Service!Is
<1>3. CASE Service!Start
  BY <1>3 DEF Service!Start, Service!Quiet, Service!Is
<1>4. CASE Service!Apply
  BY <1>4 DEF Service!Apply
<1>5. CASE Service!SweepReads
  BY <1>5 DEF Service!SweepReads
<1>6. CASE Service!SweepClears
  BY <1>6 DEF Service!SweepClears
<1>7. CASE Service!Refresh
  BY <1>7 DEF Service!Refresh, Service!NoSkip
<1>8. ASSUME NEW f \in BOOLEAN, Service!StartCheck(f) PROVE SkipsKept'
  BY <1>8 DEF Service!StartCheck, Service!NoJob, Service!NoSkip, Service!Is
<1>9. CASE Service!StartupBusy
  BY <1>9 DEF Service!StartupBusy, Service!NoJob
<1>10. CASE Service!StartDownload
  BY <1>10 DEF Service!StartDownload, Service!NoJob, Service!Is, Service!NoSkip
<1>11. CASE Service!SkipReads
  BY <1>11 DEF Service!SkipReads, Service!NoSkip
<1>12. CASE Service!SkipSaves
  BY <1>12 DEF Service!SkipSaves
<1>13. CASE Service!SkipPublishes
  BY <1>13 DEF Service!SkipPublishes, Service!Is, Service!NoSkip, Service!NoState
<1>14. CASE Service!CheckLoads
  BY <1>14 DEF Service!CheckLoads
<1>15. CASE Service!CheckAsks
  BY <1>15, AsksShape DEF Service!CheckAsks
<1>16. CASE Service!CheckSaves
  BY <1>16 DEF Service!CheckSaves
<1>17. CASE Service!CheckLearns
  BY <1>17 DEF Service!CheckLearns, Service!Stash, Service!Verdict, Service!NoNews, Service!Quiet,
     Service!Is
<1>18. CASE Service!Publishes
  BY <1>18 DEF Service!Publishes, Service!NoJob
<1>19. CASE Service!StagePrepares
  BY <1>19 DEF Service!StagePrepares
<1>20. CASE Service!Stages
  BY <1>20, StagesShape DEF Service!Stages
<1>21. CASE Service!StageFails
  BY <1>21 DEF Service!StageFails, Service!Failing, Service!Is
<1>22. CASE UNCHANGED Service!vars
  BY <1>22 DEF Service!vars
<1> QED
  BY <1>1, <1>2, <1>3, <1>4, <1>5, <1>6, <1>7, <1>8, <1>9, <1>10, <1>11, <1>12, <1>13, <1>14,
     <1>15, <1>16, <1>17, <1>18, <1>19, <1>20, <1>21, <1>22 DEF Service!Next

\* No skipped version is offered.
LEMMA HonouredStep ==
    ASSUME ServiceTyped, NoCross, OffersBacked, SkipsKept, DownloadAlone, Service!SkipHonoured,
           [Service!Next]_(Service!vars)
    PROVE  Service!SkipHonoured'
<1> USE InstallAssumption DEF Service!disk, Service!panel, Service!history, Service!SkipHonoured,
   SkipsKept, NoCross, OffersBacked, Backed, ServiceTyped, PanelOK, JobOK, KeptOK, Staging,
   Service!Offered, Service!Versions, Jobs, Skips, SavedStates, Service!NoJob, Service!Is,
   Statuses
<1>1. CASE Service!Publish
  BY <1>1 DEF Service!Publish
<1>2. CASE Service!Exit
  BY <1>2 DEF Service!Exit, Service!NoJob, Service!NoSkip, Service!NoState, Service!Is
<1>3. CASE Service!Start
  BY <1>3 DEF Service!Start, Service!Quiet, Service!Is
<1>4. CASE Service!Apply
  BY <1>4 DEF Service!Apply
<1>5. CASE Service!SweepReads
  BY <1>5 DEF Service!SweepReads
<1>6. CASE Service!SweepClears
  BY <1>6 DEF Service!SweepClears
<1>7. CASE Service!Refresh
  BY <1>7 DEF Service!Refresh, Service!NoSkip
<1>8. ASSUME NEW f \in BOOLEAN, Service!StartCheck(f) PROVE Service!SkipHonoured'
  BY <1>8 DEF Service!StartCheck, Service!NoJob, Service!NoSkip, Service!Is
<1>9. CASE Service!StartupBusy
  BY <1>9 DEF Service!StartupBusy, Service!NoJob
<1>10. CASE Service!StartDownload
  BY <1>10 DEF Service!StartDownload, Service!NoJob, Service!Is, Service!NoSkip
<1>11. CASE Service!SkipReads
  BY <1>11 DEF Service!SkipReads, Service!NoSkip
<1>12. CASE Service!SkipSaves
  BY <1>12 DEF Service!SkipSaves
<1>13. CASE Service!SkipPublishes
  BY <1>13 DEF Service!SkipPublishes, Service!Is, Service!NoSkip, Service!NoState
<1>14. CASE Service!CheckLoads
  BY <1>14 DEF Service!CheckLoads
<1>15. CASE Service!CheckAsks
  BY <1>15 DEF Service!CheckAsks, Service!Answer, Service!IsSkipped
<1>16. CASE Service!CheckSaves
  BY <1>16 DEF Service!CheckSaves
<1>17. CASE Service!CheckLearns
  BY <1>17 DEF Service!CheckLearns, Service!Stash, Service!Verdict, Service!NoNews, Service!Quiet,
     Service!Is
<1>18. CASE Service!Publishes
  BY <1>18 DEF Service!Publishes, Service!NoJob
<1>19. CASE Service!StagePrepares
  BY <1>19 DEF Service!StagePrepares
<1>20. CASE Service!Stages
  BY <1>20 DEF Service!Stages, Service!StageWrites, Service!After, Service!StageOrder, Service!Is
<1>21. CASE Service!StageFails
  BY <1>21 DEF Service!StageFails, Service!Failing, Service!Is
<1>22. CASE UNCHANGED Service!vars
  BY <1>22 DEF Service!vars
<1> QED
  BY <1>1, <1>2, <1>3, <1>4, <1>5, <1>6, <1>7, <1>8, <1>9, <1>10, <1>11, <1>12, <1>13, <1>14,
     <1>15, <1>16, <1>17, <1>18, <1>19, <1>20, <1>21, <1>22 DEF Service!Next

\* At the first start nothing is offered, staged or skipped.
LEMMA ServiceInit == ASSUME Service!Init PROVE ServiceIInv
<1> USE InstallAssumption DEF Service!Init, Service!Versions, Service!Is, Service!NoState,
   Service!NoSkip, Service!NoJob
<1>1. KeptOK
  BY DEF KeptOK, SavedStates
<1>2. Service!NoState \in SavedStates
  BY DEF SavedStates
<1>3. Service!Is("unknown", 0) \in Statuses
  BY DEF Statuses
<1>4. JobOK
  <2>1. Service!NoJob \in Jobs
    BY <1>2, <1>3 DEF Jobs
  <2> QED
    BY <2>1 DEF JobOK, Named, Service!Offered, Staging, Answered
<1>5. PanelOK
  <2>1. Service!NoSkip \in Skips
    BY <1>2 DEF Skips
  <2> QED
    BY <1>3, <2>1 DEF PanelOK, Named, Service!Offered
<1>6. DiesWithHost /\ DownloadAlone /\ NoCross
  BY DEF DiesWithHost, DownloadAlone, NoCross, Staging
<1>7. Ahead /\ OffersNewer /\ MarkerCommits /\ StagedMarked
  BY DEF Ahead, Answered, OffersNewer, MarkerCommits, Service!MarkerCommits, StagedMarked
<1>8. OffersBacked /\ SkipsKept /\ Service!SkipHonoured
  BY DEF OffersBacked, Backed, Service!Offered, SkipsKept, Answered, Service!SkipHonoured
<1> QED
  BY <1>1, <1>4, <1>5, <1>6, <1>7, <1>8 DEF ServiceIInv, ServiceTyped

\* What a step keeps, together.
LEMMA ServiceStep == ASSUME ServiceIInv, [Service!Next]_(Service!vars) PROVE ServiceIInv'
<1> USE DEF ServiceIInv
<1>1. ServiceTyped'
  BY KeptStep, JobStep, PanelStep DEF ServiceTyped
<1>2. DiesWithHost' /\ DownloadAlone' /\ Ahead' /\ OffersNewer'
  BY DiesStep, DownloadStep, AheadStep, OffersStep
<1>3. MarkerCommits' /\ NoCross' /\ OffersBacked' /\ StagedMarked'
  BY CommitStep, CrossStep, BackedStep, StagedStep
<1>4. SkipsKept' /\ Service!SkipHonoured'
  BY SkipsStep, HonouredStep
<1> QED
  BY <1>1, <1>2, <1>3, <1>4

\* The invariant the two properties below rest on.
THEOREM ServiceInvariant == Service!Spec => []ServiceIInv
  BY ServiceInit, ServiceStep, PTL DEF Service!Spec

\* The marker names a directory that holds a whole bundle, wherever the process dies:
\* for any number of releases and starts, the marker is written last, and a download
\* never prepares the directory of a version that is staged (stage, sweep_applied_staging).
THEOREM MarkerCorrect == Service!Spec => []MarkerCommits
<1>1. ServiceIInv => MarkerCommits
  BY DEF ServiceIInv
<1> QED
  BY ServiceInvariant, <1>1, PTL

\* What the panel offers at rest can be taken, what it shows as staged is on disk, and
\* what the user skipped is not offered again (interpret, no_news, skip_available).
THEOREM OfferCorrect == Service!Spec => []OfferStands
<1>1. ASSUME ServiceIInv PROVE OfferStands
  <2>1. Service!OfferBacked
    BY <1>1 DEF ServiceIInv, Service!OfferBacked, OffersBacked, Backed, StagedMarked
  <2>2. Service!SkipHonoured
    BY <1>1 DEF ServiceIInv
  <2> QED
    BY <2>1, <2>2 DEF OfferStands, Service!OfferStands
<1> QED
  BY ServiceInvariant, <1>1, PTL

-----------------------------------------------------------------------------
(* Pairing, identities and permissions, Party. *)

\* What a thread has left to do, from each of its steps on.
SetFrom == {<<"role", "persist", "bump">>, <<"persist", "bump">>, <<"bump">>}
RevokeFrom == {<<"forget", "role", "persist", "bump", "revoked">>,
               <<"role", "persist", "bump", "revoked">>,
               <<"persist", "bump", "revoked">>, <<"bump", "revoked">>, <<"revoked">>}
RevokeAllFrom == {<<"forget", "browsers", "role", "persist", "bump", "revoked">>,
                  <<"browsers", "role", "persist", "bump", "revoked">>}
RedeemFrom == {<<"token", "keep", "role", "persist", "bump", "answer">>,
               <<"keep", "role", "persist", "bump", "answer">>,
               <<"role", "persist", "bump", "answer">>,
               <<"persist", "bump", "answer">>, <<"bump", "answer">>, <<"answer">>}
TouchFrom == {<<"keep">>}
HelloFrom == {<<"touch", "welcome">>, <<"welcome">>}
IssueFrom == {<<"issue", "role", "persist", "bump", "welcome">>,
              <<"role", "persist", "bump", "welcome">>,
              <<"persist", "bump", "welcome">>, <<"bump", "welcome">>}
Programs == SetFrom \cup RevokeFrom \cup RevokeAllFrom \cup RedeemFrom \cup TouchFrom
            \cup HelloFrom \cup IssueFrom

\* The steps a thread has left.
Left(o) == Remote!Range(o.steps)

Roles == {"guest", "dj"}
OpType == [steps : Programs \cup {<<>>}, who : SUBSET Remote!Principals, role : Roles, token
        : Nat,
           for : Remote!Clients \cup {App, Panel}, gone : SUBSET Browsers]
ClientType == [at : {"away", "coming", "told", "look", "wait"},
               told : Roles \cup {"none", "all"}, notified : BOOLEAN]

\* Types, a part of the state at a time.
MapsOK ==
    /\ code \in {Remote!NoCode, "dj"} /\ enabled \in BOOLEAN
    /\ tokens \subseteq Browsers /\ paired \subseteq Browsers
    /\ roles \in [Remote!Principals -> Roles] /\ kept \in [Remote!Principals -> Roles]
    /\ identity \in Nat /\ minted \in Nat /\ holds \in [Installs -> Nat]
OpsOK == op \in [Remote!Actors -> OpType]
ClientsOK == client \in [Remote!Clients -> ClientType]
RemoteTyped == MapsOK /\ OpsOK /\ ClientsOK

\* What an operation carries, by what it has left to do.
Shaped(o) ==
    /\ o.steps = <<>> => o.who = {}
    /\ Left(o) \cap {"token", "keep", "forget", "browsers", "answer", "revoked"} # {}
            => o.who \subseteq Browsers
    /\ "welcome" \in Left(o) => /\ o.who = {App} /\ o.for \in Installs
                                /\ o.token # 0 /\ o.role = "guest"
    /\ o.gone \subseteq o.who
    /\ "forget" \in Left(o) => o.gone = o.who
    /\ o.gone # {} => Left(o) \cap {"token", "keep", "answer"} = {}
OpsShaped == \A t \in Remote!Actors : Shaped(op[t])

\* Two operations that are on one principal have crossed.
AloneOn == \A p \in Remote!Principals \ crossed : \A t, u \in Remote!Actors :
            p \in op[t].who /\ p \in op[u].who => t = u

\* What an operation on a browser has done of the pairing, or undone.
PairingOf(b, o) ==
    /\ "answer" \in Left(o) => /\ b \notin revoked
                               /\ "token" \in Left(o) \/ b \in tokens
                               /\ "keep" \in Left(o) \/ b \in paired
    /\ "keep" \in Left(o) /\ "answer" \notin Left(o) => b \in tokens
    /\ b \in o.gone => /\ b \notin tokens \cup answered
                       /\ "forget" \in Left(o) \/ b \notin paired
PairingHolds ==
    Remote!PairingLasts /\ \A b \in Browsers \ crossed, t \in Remote!Actors : b \in op[t].who
            => PairingOf(b, op[t])

\* Between its two writes of a role an operation is the one that set it in memory.
Writing(p, o) == p \in o.who /\ "persist" \in Left(o) /\ "role" \notin Left(o)
RolesHold ==
    \A p \in Remote!Principals \ crossed :
        /\ roles[p] = kept[p] \/ \E t \in Remote!Actors : Writing(p, op[t])
        /\ \A t \in Remote!Actors : Writing(p, op[t]) => roles[p] = op[t].role

\* What an operation on the app has done of its record.
AppOf(o) ==
    IF "welcome" \notin Left(o) THEN identity = grantee /\ identity # 0
    ELSE IF "issue" \in Left(o) THEN identity = 0
    ELSE identity = o.token

\* The app's record, role and holder, whoever is at work on it.
AppHolds ==
    App \notin crossed =>
        /\ roles[App] # "guest" \/ kept[App] # "guest" => identity = grantee /\ identity # 0
        /\ \A i \in Installs : holds[i] \in aged \cup {0, identity}
        /\ \A t \in Remote!Actors : App \in op[t].who => AppOf(op[t])

\* Who was welcomed holds a token.
Welcomed == \A i \in Installs : client[i].at \in {"told", "look", "wait"} => holds[i] # 0

RemoteIInv ==
    /\ RemoteTyped /\ OpsShaped /\ AloneOn /\ PairingHolds /\ RolesHold /\ AppHolds
    /\ Welcomed /\ ToldOrWoken

\* What is left of a program, by the step that comes first.
Ordered(h, l) ==
    /\ "role" \in l => {"persist", "bump"} \subseteq l
    /\ h = "persist" => "role" \notin l
    /\ h = "token" => "answer" \in l
    /\ h \in {"answer", "revoked", "welcome"} => l = {h}
    /\ h = "touch" => l = {"touch", "welcome"}
    /\ h = "issue" => "welcome" \in l
    /\ h = "browsers" => l = {"browsers", "role", "persist", "bump", "revoked"}
Runs(p) ==
    /\ p # <<>> /\ Head(p) \in Remote!Range(p) /\ Ordered(Head(p), Remote!Range(p))
    /\ Tail(p) \in Programs \cup {<<>>} /\ Remote!Range(Tail(p)) = Remote!Range(p) \ {Head(p)}

\* A thread begins an operation.
Begins(t, left, who, role, token, for, gone) ==
    /\ op[t].steps = <<>> /\ op[t].who = {} /\ op' \in [Remote!Actors -> OpType]
    /\ Left(op'[t]) = left /\ op'[t].steps # <<>>
    /\ op'[t].who = who /\ op'[t].role = role /\ op'[t].token = token
    /\ op'[t].for = for /\ op'[t].gone = gone
    /\ \A u \in Remote!Actors \ {t} : op'[u] = op[u]
    /\ crossed' = crossed \cup {p \in who : Remote!Busy(p)}

\* A thread takes its next step, h.
Advances(t, h) ==
    /\ h = Head(op[t].steps) /\ h \in Left(op[t]) /\ Ordered(h, Left(op[t]))
    /\ op' \in [Remote!Actors -> OpType] /\ \A u \in Remote!Actors \ {t} : op'[u] = op[u]
    /\ Left(op'[t]) = Left(op[t]) \ {h}
    /\ \/ op'[t] = Remote!Idle /\ Left(op[t]) = {h}
       \/ /\ op'[t].steps # <<>> /\ Left(op[t]) # {h}
          /\ op'[t].role = op[t].role /\ op'[t].token = op[t].token
          /\ op'[t].for = op[t].for /\ op'[t].gone = op[t].gone
          /\ op'[t].who = IF h # "browsers" THEN op[t].who
                          ELSE op[t].who \cup {b \in Browsers : roles[b] # "guest"}

\* What its step does to the maps, the tables and the clients.
Effects(t, h) ==
    LET o == op[t] IN
    /\ tokens' = IF h = "token" THEN tokens \cup o.who ELSE tokens
    /\ paired' = IF h = "keep" THEN paired \cup o.who
                 ELSE IF h = "forget" THEN paired \ o.who ELSE paired
    /\ roles' = IF h = "role" THEN [p \in Remote!Principals |-> IF p \in o.who THEN o.role
            ELSE roles[p]]
                ELSE roles
    /\ kept' = IF h = "persist" THEN [p \in Remote!Principals |-> IF p \in o.who
            THEN o.role ELSE kept[p]]
               ELSE kept
    /\ identity' = IF h \in {"touch", "issue"} THEN o.token ELSE identity
    /\ crossed' = IF h # "browsers" THEN crossed
                  ELSE crossed \cup {b \in Browsers : roles[b] # "guest"
                          /\ \E u \in Remote!Actors \ {t} : b \in op[u].who}
    /\ IF h = "bump" THEN Remote!Wakes(Remote!Clients)
       ELSE IF h = "welcome" /\ client[o.for].at = "coming"
       THEN client' = [client EXCEPT ![o.for] = [Remote!Away EXCEPT !.at = "told",
               !.told = Remote!Permissions(o.for)]]
       ELSE client' = client
    /\ holds' = IF h = "welcome" THEN [holds EXCEPT ![o.for] = o.token] ELSE holds
    /\ answered' = IF h = "answer" THEN answered \cup o.who ELSE answered
    /\ revoked' = IF h = "revoked" THEN revoked \cup o.gone ELSE revoked
    /\ code' = code /\ enabled' = enabled /\ minted' = minted /\ grantee' = grantee /\ aged' = aged

\* The programs operations start with, written out.
LEMMA StartSteps ==
    /\ Remote!SetRole \in SetFrom /\ Remote!Range(Remote!SetRole) = {"role", "persist", "bump"}
    /\ Remote!RedeemSteps = <<"token", "keep", "role", "persist", "bump", "answer">>
    /\ <<"forget">> \o Remote!SetRole \o <<"revoked">> = <<"forget", "role", "persist", "bump",
            "revoked">>
    /\ <<"forget", "browsers">> \o Remote!SetRole \o <<"revoked">>
         = <<"forget", "browsers", "role", "persist", "bump", "revoked">>
    /\ <<"issue">> \o Remote!SetRole \o <<"welcome">> = <<"issue", "role", "persist", "bump",
            "welcome">>
<1>1. Remote!SetRole \in SetFrom /\ Remote!Range(Remote!SetRole) = {"role", "persist", "bump"}
  BY DEF Remote!SetRole, SetFrom, Remote!Range
<1>2. <<"token", "keep">> \o Remote!SetRole \o <<"answer">> = <<"token", "keep", "role",
        "persist", "bump", "answer">>
  <2> DEFINE x == <<"token", "keep">>  y == Remote!SetRole  z == <<"answer">>
             r == <<"token", "keep", "role", "persist", "bump", "answer">>
             Names == {"token", "keep", "role", "persist", "bump", "answer"}
  <2>1. x \in Seq(Names) /\ y \in Seq(Names) /\ z \in Seq(Names) /\ r \in Seq(Names)
    BY DEF Remote!SetRole
  <2>2. Len(x \o y \o z) = Len(r) /\ x \o y \o z \in Seq(Names)
    BY <2>1 DEF Remote!SetRole
  <2>3. \A n \in 1 .. 6 : (x \o y \o z)[n] = r[n]
    BY <2>1 DEF Remote!SetRole
  <2>4. Len(r) = 6
    OBVIOUS
  <2>5. x \o y \o z = r
    <3> HIDE DEF x, y, z, r, Names
    <3> QED
      BY <2>1, <2>2, <2>3, <2>4, SeqEqual
  <2> QED
    BY <2>5
<1>3. <<"forget">> \o Remote!SetRole \o <<"revoked">> = <<"forget", "role", "persist", "bump",
        "revoked">>
  <2> DEFINE x == <<"forget">>  y == Remote!SetRole  z == <<"revoked">>
             r == <<"forget", "role", "persist", "bump", "revoked">>
             Names == {"forget", "role", "persist", "bump", "revoked"}
  <2>1. x \in Seq(Names) /\ y \in Seq(Names) /\ z \in Seq(Names) /\ r \in Seq(Names)
    BY DEF Remote!SetRole
  <2>2. Len(x \o y \o z) = Len(r) /\ x \o y \o z \in Seq(Names)
    BY <2>1 DEF Remote!SetRole
  <2>3. \A n \in 1 .. 5 : (x \o y \o z)[n] = r[n]
    BY <2>1 DEF Remote!SetRole
  <2>4. Len(r) = 5
    OBVIOUS
  <2>5. x \o y \o z = r
    <3> HIDE DEF x, y, z, r, Names
    <3> QED
      BY <2>1, <2>2, <2>3, <2>4, SeqEqual
  <2> QED
    BY <2>5
<1>4. <<"forget", "browsers">> \o Remote!SetRole \o <<"revoked">> = <<"forget", "browsers",
        "role", "persist", "bump", "revoked">>
  <2> DEFINE x == <<"forget", "browsers">>  y == Remote!SetRole  z == <<"revoked">>
             r == <<"forget", "browsers", "role", "persist", "bump", "revoked">>
             Names == {"forget", "browsers", "role", "persist", "bump", "revoked"}
  <2>1. x \in Seq(Names) /\ y \in Seq(Names) /\ z \in Seq(Names) /\ r \in Seq(Names)
    BY DEF Remote!SetRole
  <2>2. Len(x \o y \o z) = Len(r) /\ x \o y \o z \in Seq(Names)
    BY <2>1 DEF Remote!SetRole
  <2>3. \A n \in 1 .. 6 : (x \o y \o z)[n] = r[n]
    BY <2>1 DEF Remote!SetRole
  <2>4. Len(r) = 6
    OBVIOUS
  <2>5. x \o y \o z = r
    <3> HIDE DEF x, y, z, r, Names
    <3> QED
      BY <2>1, <2>2, <2>3, <2>4, SeqEqual
  <2> QED
    BY <2>5
<1>5. <<"issue">> \o Remote!SetRole \o <<"welcome">> = <<"issue", "role", "persist", "bump",
        "welcome">>
  <2> DEFINE x == <<"issue">>  y == Remote!SetRole  z == <<"welcome">>
             r == <<"issue", "role", "persist", "bump", "welcome">>
             Names == {"issue", "role", "persist", "bump", "welcome"}
  <2>1. x \in Seq(Names) /\ y \in Seq(Names) /\ z \in Seq(Names) /\ r \in Seq(Names)
    BY DEF Remote!SetRole
  <2>2. Len(x \o y \o z) = Len(r) /\ x \o y \o z \in Seq(Names)
    BY <2>1 DEF Remote!SetRole
  <2>3. \A n \in 1 .. 5 : (x \o y \o z)[n] = r[n]
    BY <2>1 DEF Remote!SetRole
  <2>4. Len(r) = 5
    OBVIOUS
  <2>5. x \o y \o z = r
    <3> HIDE DEF x, y, z, r, Names
    <3> QED
      BY <2>1, <2>2, <2>3, <2>4, SeqEqual
  <2> QED
    BY <2>5
<1> QED
  BY <1>1, <1>2, <1>3, <1>4, <1>5 DEF Remote!RedeemSteps

\* What is left of a program once its first step is done.
LEMMA ProgramRuns == \A p \in Programs : Runs(p)
<1>1. ASSUME NEW p \in SetFrom PROVE Runs(p)
  <2>1. Runs(<<"role", "persist", "bump">>)
    <3>1. /\ <<"role", "persist", "bump">> # <<>> /\ Head(<<"role", "persist", "bump">>) = "role"
          /\ Tail(<<"role", "persist", "bump">>) = <<"persist", "bump">>
          /\ Remote!Range(<<"role", "persist", "bump">>) = {"role", "persist", "bump"}
          /\ Remote!Range(<<"persist", "bump">>) = {"persist", "bump"}
      BY DEF Remote!Range
    <3>2. Tail(<<"role", "persist", "bump">>) \in Programs \cup {<<>>}
      BY <3>1 DEF Programs, SetFrom
    <3> QED
      BY <3>1, <3>2 DEF Runs, Ordered
  <2>2. Runs(<<"persist", "bump">>)
    <3>1. /\ <<"persist", "bump">> # <<>> /\ Head(<<"persist", "bump">>) = "persist"
          /\ Tail(<<"persist", "bump">>) = <<"bump">>
          /\ Remote!Range(<<"persist", "bump">>) = {"persist", "bump"}
          /\ Remote!Range(<<"bump">>) = {"bump"}
      BY DEF Remote!Range
    <3>2. Tail(<<"persist", "bump">>) \in Programs \cup {<<>>}
      BY <3>1 DEF Programs, SetFrom
    <3> QED
      BY <3>1, <3>2 DEF Runs, Ordered
  <2>3. Runs(<<"bump">>)
    <3>1. /\ <<"bump">> # <<>> /\ Head(<<"bump">>) = "bump"
          /\ Tail(<<"bump">>) = <<>>
          /\ Remote!Range(<<"bump">>) = {"bump"}
          /\ Remote!Range(<<>>) = {}
      BY DEF Remote!Range
    <3>2. Tail(<<"bump">>) \in Programs \cup {<<>>}
      BY <3>1
    <3> QED
      BY <3>1, <3>2 DEF Runs, Ordered
  <2> QED
    BY <2>1, <2>2, <2>3 DEF SetFrom
<1>2. ASSUME NEW p \in RevokeFrom PROVE Runs(p)
  <2>1. Runs(<<"forget", "role", "persist", "bump", "revoked">>)
    <3>1. /\ <<"forget", "role", "persist", "bump", "revoked">> # <<>> /\ Head(<<"forget",
            "role", "persist", "bump", "revoked">>) = "forget"
          /\ Tail(<<"forget", "role", "persist", "bump", "revoked">>) = <<"role", "persist",
                  "bump", "revoked">>
          /\ Remote!Range(<<"forget", "role", "persist", "bump", "revoked">>) = {"forget",
                  "role", "persist", "bump", "revoked"}
          /\ Remote!Range(<<"role", "persist", "bump", "revoked">>) = {"role", "persist",
                  "bump", "revoked"}
      BY DEF Remote!Range
    <3>2. Tail(<<"forget", "role", "persist", "bump", "revoked">>) \in Programs \cup {<<>>}
      BY <3>1 DEF Programs, RevokeFrom
    <3> QED
      BY <3>1, <3>2 DEF Runs, Ordered
  <2>2. Runs(<<"role", "persist", "bump", "revoked">>)
    <3>1. /\ <<"role", "persist", "bump", "revoked">> # <<>> /\ Head(<<"role", "persist",
            "bump", "revoked">>) = "role"
          /\ Tail(<<"role", "persist", "bump", "revoked">>) = <<"persist", "bump", "revoked">>
          /\ Remote!Range(<<"role", "persist", "bump", "revoked">>) = {"role", "persist",
                  "bump", "revoked"}
          /\ Remote!Range(<<"persist", "bump", "revoked">>) = {"persist", "bump", "revoked"}
      BY DEF Remote!Range
    <3>2. Tail(<<"role", "persist", "bump", "revoked">>) \in Programs \cup {<<>>}
      BY <3>1 DEF Programs, RevokeFrom
    <3> QED
      BY <3>1, <3>2 DEF Runs, Ordered
  <2>3. Runs(<<"persist", "bump", "revoked">>)
    <3>1. /\ <<"persist", "bump", "revoked">> # <<>> /\ Head(<<"persist", "bump",
            "revoked">>) = "persist"
          /\ Tail(<<"persist", "bump", "revoked">>) = <<"bump", "revoked">>
          /\ Remote!Range(<<"persist", "bump", "revoked">>) = {"persist", "bump", "revoked"}
          /\ Remote!Range(<<"bump", "revoked">>) = {"bump", "revoked"}
      BY DEF Remote!Range
    <3>2. Tail(<<"persist", "bump", "revoked">>) \in Programs \cup {<<>>}
      BY <3>1 DEF Programs, RevokeFrom
    <3> QED
      BY <3>1, <3>2 DEF Runs, Ordered
  <2>4. Runs(<<"bump", "revoked">>)
    <3>1. /\ <<"bump", "revoked">> # <<>> /\ Head(<<"bump", "revoked">>) = "bump"
          /\ Tail(<<"bump", "revoked">>) = <<"revoked">>
          /\ Remote!Range(<<"bump", "revoked">>) = {"bump", "revoked"}
          /\ Remote!Range(<<"revoked">>) = {"revoked"}
      BY DEF Remote!Range
    <3>2. Tail(<<"bump", "revoked">>) \in Programs \cup {<<>>}
      BY <3>1 DEF Programs, RevokeFrom
    <3> QED
      BY <3>1, <3>2 DEF Runs, Ordered
  <2>5. Runs(<<"revoked">>)
    <3>1. /\ <<"revoked">> # <<>> /\ Head(<<"revoked">>) = "revoked"
          /\ Tail(<<"revoked">>) = <<>>
          /\ Remote!Range(<<"revoked">>) = {"revoked"}
          /\ Remote!Range(<<>>) = {}
      BY DEF Remote!Range
    <3>2. Tail(<<"revoked">>) \in Programs \cup {<<>>}
      BY <3>1
    <3> QED
      BY <3>1, <3>2 DEF Runs, Ordered
  <2> QED
    BY <2>1, <2>2, <2>3, <2>4, <2>5 DEF RevokeFrom
<1>3. ASSUME NEW p \in RevokeAllFrom PROVE Runs(p)
  <2>1. Runs(<<"forget", "browsers", "role", "persist", "bump", "revoked">>)
    <3>1. /\ <<"forget", "browsers", "role", "persist", "bump", "revoked">> # <<>>
            /\ Head(<<"forget", "browsers", "role", "persist", "bump", "revoked">>) = "forget"
          /\ Tail(<<"forget", "browsers", "role", "persist", "bump",
                  "revoked">>) = <<"browsers", "role", "persist", "bump", "revoked">>
          /\ Remote!Range(<<"forget", "browsers", "role", "persist", "bump",
                  "revoked">>) = {"forget", "browsers", "role", "persist", "bump", "revoked"}
          /\ Remote!Range(<<"browsers", "role", "persist", "bump", "revoked">>) = {"browsers",
                  "role", "persist", "bump", "revoked"}
      BY DEF Remote!Range
    <3>2. Tail(<<"forget", "browsers", "role", "persist", "bump", "revoked">>) \in Programs \cup {<<>>}
      BY <3>1 DEF Programs, RevokeAllFrom
    <3> QED
      BY <3>1, <3>2 DEF Runs, Ordered
  <2>2. Runs(<<"browsers", "role", "persist", "bump", "revoked">>)
    <3>1. /\ <<"browsers", "role", "persist", "bump", "revoked">> # <<>> /\ Head(<<"browsers",
            "role", "persist", "bump", "revoked">>) = "browsers"
          /\ Tail(<<"browsers", "role", "persist", "bump", "revoked">>) = <<"role", "persist",
                  "bump", "revoked">>
          /\ Remote!Range(<<"browsers", "role", "persist", "bump", "revoked">>) = {"browsers",
                  "role", "persist", "bump", "revoked"}
          /\ Remote!Range(<<"role", "persist", "bump", "revoked">>) = {"role", "persist",
                  "bump", "revoked"}
      BY DEF Remote!Range
    <3>2. Tail(<<"browsers", "role", "persist", "bump", "revoked">>) \in Programs \cup {<<>>}
      BY <3>1 DEF Programs, RevokeFrom
    <3> QED
      BY <3>1, <3>2 DEF Runs, Ordered
  <2> QED
    BY <2>1, <2>2 DEF RevokeAllFrom
<1>4. ASSUME NEW p \in RedeemFrom PROVE Runs(p)
  <2>1. Runs(<<"token", "keep", "role", "persist", "bump", "answer">>)
    <3>1. /\ <<"token", "keep", "role", "persist", "bump", "answer">> # <<>> /\ Head(<<"token",
            "keep", "role", "persist", "bump", "answer">>) = "token"
          /\ Tail(<<"token", "keep", "role", "persist", "bump", "answer">>) = <<"keep", "role",
                  "persist", "bump", "answer">>
          /\ Remote!Range(<<"token", "keep", "role", "persist", "bump", "answer">>) = {"token",
                  "keep", "role", "persist", "bump", "answer"}
          /\ Remote!Range(<<"keep", "role", "persist", "bump", "answer">>) = {"keep", "role",
                  "persist", "bump", "answer"}
      BY DEF Remote!Range
    <3>2. Tail(<<"token", "keep", "role", "persist", "bump", "answer">>) \in Programs \cup {<<>>}
      BY <3>1 DEF Programs, RedeemFrom
    <3> QED
      BY <3>1, <3>2 DEF Runs, Ordered
  <2>2. Runs(<<"keep", "role", "persist", "bump", "answer">>)
    <3>1. /\ <<"keep", "role", "persist", "bump", "answer">> # <<>> /\ Head(<<"keep", "role",
            "persist", "bump", "answer">>) = "keep"
          /\ Tail(<<"keep", "role", "persist", "bump", "answer">>) = <<"role", "persist",
                  "bump", "answer">>
          /\ Remote!Range(<<"keep", "role", "persist", "bump", "answer">>) = {"keep", "role",
                  "persist", "bump", "answer"}
          /\ Remote!Range(<<"role", "persist", "bump", "answer">>) = {"role", "persist", "bump",
                  "answer"}
      BY DEF Remote!Range
    <3>2. Tail(<<"keep", "role", "persist", "bump", "answer">>) \in Programs \cup {<<>>}
      BY <3>1 DEF Programs, RedeemFrom
    <3> QED
      BY <3>1, <3>2 DEF Runs, Ordered
  <2>3. Runs(<<"role", "persist", "bump", "answer">>)
    <3>1. /\ <<"role", "persist", "bump", "answer">> # <<>> /\ Head(<<"role", "persist", "bump",
            "answer">>) = "role"
          /\ Tail(<<"role", "persist", "bump", "answer">>) = <<"persist", "bump", "answer">>
          /\ Remote!Range(<<"role", "persist", "bump", "answer">>) = {"role", "persist", "bump",
                  "answer"}
          /\ Remote!Range(<<"persist", "bump", "answer">>) = {"persist", "bump", "answer"}
      BY DEF Remote!Range
    <3>2. Tail(<<"role", "persist", "bump", "answer">>) \in Programs \cup {<<>>}
      BY <3>1 DEF Programs, RedeemFrom
    <3> QED
      BY <3>1, <3>2 DEF Runs, Ordered
  <2>4. Runs(<<"persist", "bump", "answer">>)
    <3>1. /\ <<"persist", "bump", "answer">> # <<>> /\ Head(<<"persist", "bump", "answer">>) = "persist"
          /\ Tail(<<"persist", "bump", "answer">>) = <<"bump", "answer">>
          /\ Remote!Range(<<"persist", "bump", "answer">>) = {"persist", "bump", "answer"}
          /\ Remote!Range(<<"bump", "answer">>) = {"bump", "answer"}
      BY DEF Remote!Range
    <3>2. Tail(<<"persist", "bump", "answer">>) \in Programs \cup {<<>>}
      BY <3>1 DEF Programs, RedeemFrom
    <3> QED
      BY <3>1, <3>2 DEF Runs, Ordered
  <2>5. Runs(<<"bump", "answer">>)
    <3>1. /\ <<"bump", "answer">> # <<>> /\ Head(<<"bump", "answer">>) = "bump"
          /\ Tail(<<"bump", "answer">>) = <<"answer">>
          /\ Remote!Range(<<"bump", "answer">>) = {"bump", "answer"}
          /\ Remote!Range(<<"answer">>) = {"answer"}
      BY DEF Remote!Range
    <3>2. Tail(<<"bump", "answer">>) \in Programs \cup {<<>>}
      BY <3>1 DEF Programs, RedeemFrom
    <3> QED
      BY <3>1, <3>2 DEF Runs, Ordered
  <2>6. Runs(<<"answer">>)
    <3>1. /\ <<"answer">> # <<>> /\ Head(<<"answer">>) = "answer"
          /\ Tail(<<"answer">>) = <<>>
          /\ Remote!Range(<<"answer">>) = {"answer"}
          /\ Remote!Range(<<>>) = {}
      BY DEF Remote!Range
    <3>2. Tail(<<"answer">>) \in Programs \cup {<<>>}
      BY <3>1
    <3> QED
      BY <3>1, <3>2 DEF Runs, Ordered
  <2> QED
    BY <2>1, <2>2, <2>3, <2>4, <2>5, <2>6 DEF RedeemFrom
<1>5. ASSUME NEW p \in TouchFrom PROVE Runs(p)
  <2>1. Runs(<<"keep">>)
    <3>1. /\ <<"keep">> # <<>> /\ Head(<<"keep">>) = "keep"
          /\ Tail(<<"keep">>) = <<>>
          /\ Remote!Range(<<"keep">>) = {"keep"}
          /\ Remote!Range(<<>>) = {}
      BY DEF Remote!Range
    <3>2. Tail(<<"keep">>) \in Programs \cup {<<>>}
      BY <3>1
    <3> QED
      BY <3>1, <3>2 DEF Runs, Ordered
  <2> QED
    BY <2>1 DEF TouchFrom
<1>6. ASSUME NEW p \in HelloFrom PROVE Runs(p)
  <2>1. Runs(<<"touch", "welcome">>)
    <3>1. /\ <<"touch", "welcome">> # <<>> /\ Head(<<"touch", "welcome">>) = "touch"
          /\ Tail(<<"touch", "welcome">>) = <<"welcome">>
          /\ Remote!Range(<<"touch", "welcome">>) = {"touch", "welcome"}
          /\ Remote!Range(<<"welcome">>) = {"welcome"}
      BY DEF Remote!Range
    <3>2. Tail(<<"touch", "welcome">>) \in Programs \cup {<<>>}
      BY <3>1 DEF Programs, HelloFrom
    <3> QED
      BY <3>1, <3>2 DEF Runs, Ordered
  <2>2. Runs(<<"welcome">>)
    <3>1. /\ <<"welcome">> # <<>> /\ Head(<<"welcome">>) = "welcome"
          /\ Tail(<<"welcome">>) = <<>>
          /\ Remote!Range(<<"welcome">>) = {"welcome"}
          /\ Remote!Range(<<>>) = {}
      BY DEF Remote!Range
    <3>2. Tail(<<"welcome">>) \in Programs \cup {<<>>}
      BY <3>1
    <3> QED
      BY <3>1, <3>2 DEF Runs, Ordered
  <2> QED
    BY <2>1, <2>2 DEF HelloFrom
<1>7. ASSUME NEW p \in IssueFrom PROVE Runs(p)
  <2>1. Runs(<<"issue", "role", "persist", "bump", "welcome">>)
    <3>1. /\ <<"issue", "role", "persist", "bump", "welcome">> # <<>> /\ Head(<<"issue", "role",
            "persist", "bump", "welcome">>) = "issue"
          /\ Tail(<<"issue", "role", "persist", "bump", "welcome">>) = <<"role", "persist",
                  "bump", "welcome">>
          /\ Remote!Range(<<"issue", "role", "persist", "bump", "welcome">>) = {"issue", "role",
                  "persist", "bump", "welcome"}
          /\ Remote!Range(<<"role", "persist", "bump", "welcome">>) = {"role", "persist",
                  "bump", "welcome"}
      BY DEF Remote!Range
    <3>2. Tail(<<"issue", "role", "persist", "bump", "welcome">>) \in Programs \cup {<<>>}
      BY <3>1 DEF Programs, IssueFrom
    <3> QED
      BY <3>1, <3>2 DEF Runs, Ordered
  <2>2. Runs(<<"role", "persist", "bump", "welcome">>)
    <3>1. /\ <<"role", "persist", "bump", "welcome">> # <<>> /\ Head(<<"role", "persist",
            "bump", "welcome">>) = "role"
          /\ Tail(<<"role", "persist", "bump", "welcome">>) = <<"persist", "bump", "welcome">>
          /\ Remote!Range(<<"role", "persist", "bump", "welcome">>) = {"role", "persist",
                  "bump", "welcome"}
          /\ Remote!Range(<<"persist", "bump", "welcome">>) = {"persist", "bump", "welcome"}
      BY DEF Remote!Range
    <3>2. Tail(<<"role", "persist", "bump", "welcome">>) \in Programs \cup {<<>>}
      BY <3>1 DEF Programs, IssueFrom
    <3> QED
      BY <3>1, <3>2 DEF Runs, Ordered
  <2>3. Runs(<<"persist", "bump", "welcome">>)
    <3>1. /\ <<"persist", "bump", "welcome">> # <<>> /\ Head(<<"persist", "bump",
            "welcome">>) = "persist"
          /\ Tail(<<"persist", "bump", "welcome">>) = <<"bump", "welcome">>
          /\ Remote!Range(<<"persist", "bump", "welcome">>) = {"persist", "bump", "welcome"}
          /\ Remote!Range(<<"bump", "welcome">>) = {"bump", "welcome"}
      BY DEF Remote!Range
    <3>2. Tail(<<"persist", "bump", "welcome">>) \in Programs \cup {<<>>}
      BY <3>1 DEF Programs, IssueFrom
    <3> QED
      BY <3>1, <3>2 DEF Runs, Ordered
  <2>4. Runs(<<"bump", "welcome">>)
    <3>1. /\ <<"bump", "welcome">> # <<>> /\ Head(<<"bump", "welcome">>) = "bump"
          /\ Tail(<<"bump", "welcome">>) = <<"welcome">>
          /\ Remote!Range(<<"bump", "welcome">>) = {"bump", "welcome"}
          /\ Remote!Range(<<"welcome">>) = {"welcome"}
      BY DEF Remote!Range
    <3>2. Tail(<<"bump", "welcome">>) \in Programs \cup {<<>>}
      BY <3>1 DEF Programs, HelloFrom
    <3> QED
      BY <3>1, <3>2 DEF Runs, Ordered
  <2> QED
    BY <2>1, <2>2, <2>3, <2>4 DEF IssueFrom
<1> QED
  BY <1>1, <1>2, <1>3, <1>4, <1>5, <1>6, <1>7 DEF Programs

\* A thread that starts a program, if what it carries has the types of an operation.
LEMMA StartBegins ==
    ASSUME OpsOK, NEW t \in Remote!Actors, NEW steps \in Programs,
           NEW who \in SUBSET Remote!Principals,
           NEW role \in Roles, NEW token \in Nat, NEW for \in Remote!Clients \cup {App, Panel},
           Head(steps) = "forget" => who \subseteq Browsers,
           Remote!Starts(t, steps, who, role, token, for)
    PROVE  Begins(t, Remote!Range(steps), who, role, token, for, IF Head(steps) = "forget"
            THEN who ELSE {})
<1> DEFINE o == [steps |-> steps, who |-> who, role |-> role, token |-> token, for |-> for,
                 gone |-> IF Head(steps) = "forget" THEN who ELSE {}]
<1>1. o \in OpType
  BY DEF OpType
<1>2. op' = [op EXCEPT ![t] = o] /\ op[t] = Remote!Idle /\ crossed' = crossed \cup {p \in who
        : Remote!Busy(p)}
  BY DEF Remote!Starts
<1>3. op' \in [Remote!Actors -> OpType] /\ op'[t] = o /\ \A u \in Remote!Actors \ {t}
        : op'[u] = op[u]
  BY <1>1, <1>2 DEF OpsOK
<1>4. steps # <<>>
  BY ProgramRuns DEF Runs
<1> QED
  BY <1>2, <1>3, <1>4 DEF Begins, Left, Remote!Idle

\* Roles::assign from the panel.
LEMMA SetBegins ==
    ASSUME OpsOK, MapsOK, NEW role \in Roles, NEW p \in Remote!Principals, Remote!Assign(p, role)
    PROVE  Begins(Panel, {"role", "persist", "bump"}, {p}, role, 0, p, {})
<1>1. Remote!SetRole \in Programs /\ Head(Remote!SetRole) = "role"
        /\ Remote!Range(Remote!SetRole) = {"role", "persist", "bump"}
  BY StartSteps DEF Programs, SetFrom, RevokeFrom, RevokeAllFrom, RedeemFrom, TouchFrom,
     HelloFrom, IssueFrom, Remote!Range, Remote!SetRole
<1>2. Remote!Starts(Panel, Remote!SetRole, {p}, role, 0, p)
  BY DEF Remote!Assign
<1>3. /\ Panel \in Remote!Actors /\ {p} \subseteq Remote!Principals /\ role \in Roles /\ 0 \in Nat
      /\ p \in Remote!Clients \cup {App, Panel}
  BY DEF Remote!Assign, Remote!Actors, Remote!Principals, Remote!Clients, Roles, MapsOK,
     Remote!NoCode
<1> QED
  BY <1>1, <1>2, <1>3, StartBegins

\* Pairing::revoke, after its write of the map.
LEMMA RevokeBegins ==
    ASSUME OpsOK, MapsOK, NEW b \in Browsers, Remote!Revoke(b)
    PROVE  Begins(Panel, {"forget", "role", "persist", "bump", "revoked"}, {b}, "guest", 0, b, {b})
<1>1. (<<"forget">> \o Remote!SetRole \o <<"revoked">>) \in Programs
        /\ Head((<<"forget">> \o Remote!SetRole \o <<"revoked">>)) = "forget"
                /\ Remote!Range((<<"forget">> \o Remote!SetRole \o <<"revoked">>)) = {"forget",
                        "role", "persist", "bump", "revoked"}
  BY StartSteps DEF Programs, SetFrom, RevokeFrom, RevokeAllFrom, RedeemFrom, TouchFrom,
     HelloFrom, IssueFrom, Remote!Range, Remote!SetRole
<1>2. Remote!Starts(Panel, (<<"forget">> \o Remote!SetRole \o <<"revoked">>), {b}, "guest", 0, b)
  BY DEF Remote!Revoke
<1>3. /\ Panel \in Remote!Actors /\ {b} \subseteq Remote!Principals /\ "guest" \in Roles
        /\ 0 \in Nat
      /\ b \in Remote!Clients \cup {App, Panel} /\ {b} \subseteq Browsers
  BY DEF Remote!Revoke, Remote!Actors, Remote!Principals, Remote!Clients, Roles, MapsOK,
     Remote!NoCode
<1> QED
  BY <1>1, <1>2, <1>3, StartBegins

\* Pairing::revoke_all.
LEMMA RevokeAllBegins ==
    ASSUME OpsOK, MapsOK, Remote!RevokeAll
    PROVE  Begins(Panel, {"forget", "browsers", "role", "persist", "bump", "revoked"}, tokens,
            "guest", 0, Panel, tokens)
<1>1. (<<"forget", "browsers">> \o Remote!SetRole \o <<"revoked">>) \in Programs
        /\ Head((<<"forget", "browsers">> \o Remote!SetRole \o <<"revoked">>)) = "forget"
                /\ Remote!Range((<<"forget",
                        "browsers">> \o Remote!SetRole \o <<"revoked">>)) = {"forget",
                                "browsers", "role", "persist", "bump", "revoked"}
  BY StartSteps DEF Programs, SetFrom, RevokeFrom, RevokeAllFrom, RedeemFrom, TouchFrom,
     HelloFrom, IssueFrom, Remote!Range, Remote!SetRole
<1>2. Remote!Starts(Panel, (<<"forget", "browsers">> \o Remote!SetRole \o <<"revoked">>),
        tokens, "guest", 0, Panel)
  BY DEF Remote!RevokeAll
<1>3. /\ Panel \in Remote!Actors /\ tokens \subseteq Remote!Principals /\ "guest" \in Roles
        /\ 0 \in Nat
      /\ Panel \in Remote!Clients \cup {App, Panel} /\ tokens \subseteq Browsers
  BY DEF Remote!RevokeAll, Remote!Actors, Remote!Principals, Remote!Clients, Roles, MapsOK,
     Remote!NoCode
<1> QED
  BY <1>1, <1>2, <1>3, StartBegins

\* The party mode switch.
LEMMA SwitchBegins ==
    ASSUME OpsOK, MapsOK, Remote!Switch
    PROVE  Begins(Panel, {"bump"}, {}, "guest", 0, Panel, {})
<1>1. <<"bump">> \in Programs /\ Head(<<"bump">>) = "bump" /\ Remote!Range(<<"bump">>) = {"bump"}
  BY StartSteps DEF Programs, SetFrom, RevokeFrom, RevokeAllFrom, RedeemFrom, TouchFrom,
     HelloFrom, IssueFrom, Remote!Range, Remote!SetRole
<1>2. Remote!Starts(Panel, <<"bump">>, {}, "guest", 0, Panel)
  BY DEF Remote!Switch
<1>3. /\ Panel \in Remote!Actors /\ {} \subseteq Remote!Principals /\ "guest" \in Roles
        /\ 0 \in Nat
      /\ Panel \in Remote!Clients \cup {App, Panel}
  BY DEF Remote!Switch, Remote!Actors, Remote!Principals, Remote!Clients, Roles, MapsOK,
     Remote!NoCode
<1> QED
  BY <1>1, <1>2, <1>3, StartBegins

\* Pairing::redeem.
LEMMA RedeemBegins ==
    ASSUME OpsOK, MapsOK, NEW t \in Threads, NEW b \in Browsers, Remote!Redeem(t, b)
    PROVE  Begins(t, {"token", "keep", "role", "persist", "bump", "answer"}, {b}, code, 0, b, {})
<1>1. Remote!RedeemSteps \in Programs /\ Head(Remote!RedeemSteps) = "token"
        /\ Remote!Range(Remote!RedeemSteps) = {"token", "keep", "role", "persist", "bump",
                "answer"}
  BY StartSteps DEF Programs, SetFrom, RevokeFrom, RevokeAllFrom, RedeemFrom, TouchFrom,
     HelloFrom, IssueFrom, Remote!Range, Remote!SetRole
<1>2. Remote!Starts(t, Remote!RedeemSteps, {b}, code, 0, b)
  BY DEF Remote!Redeem
<1>3. /\ t \in Remote!Actors /\ {b} \subseteq Remote!Principals /\ code \in Roles /\ 0 \in Nat
      /\ b \in Remote!Clients \cup {App, Panel}
  BY DEF Remote!Redeem, Remote!Actors, Remote!Principals, Remote!Clients, Roles, MapsOK,
     Remote!NoCode
<1> QED
  BY <1>1, <1>2, <1>3, StartBegins

\* A request of a paired browser.
LEMMA TouchBegins ==
    ASSUME OpsOK, MapsOK, NEW t \in Threads, NEW b \in Browsers, Remote!Touch(t, b)
    PROVE  Begins(t, {"keep"}, {b}, "guest", 0, b, {})
<1>1. <<"keep">> \in Programs /\ Head(<<"keep">>) = "keep" /\ Remote!Range(<<"keep">>) = {"keep"}
  BY StartSteps DEF Programs, SetFrom, RevokeFrom, RevokeAllFrom, RedeemFrom, TouchFrom,
     HelloFrom, IssueFrom, Remote!Range, Remote!SetRole
<1>2. Remote!Starts(t, <<"keep">>, {b}, "guest", 0, b)
  BY DEF Remote!Touch
<1>3. /\ t \in Remote!Actors /\ {b} \subseteq Remote!Principals /\ "guest" \in Roles /\ 0 \in Nat
      /\ b \in Remote!Clients \cup {App, Panel}
  BY DEF Remote!Touch, Remote!Actors, Remote!Principals, Remote!Clients, Roles, MapsOK,
     Remote!NoCode
<1> QED
  BY <1>1, <1>2, <1>3, StartBegins

\* The handshake of an installation, which returns or is met for the first time.
LEMMA HelloBegins ==
    ASSUME OpsOK, MapsOK, NEW t \in Threads, NEW i \in Installs, Remote!Hello(t, i)
    PROVE  \/ /\ Begins(t, {"touch", "welcome"}, {App}, "guest", identity, i, {})
              /\ identity # 0 /\ holds[i] = identity
           \/ /\ Begins(t, {"issue", "role", "persist", "bump", "welcome"}, {App}, "guest",
                   minted + 1, i, {})
              /\ identity = 0
<1>1. /\ <<"touch", "welcome">> \in Programs /\ Head(<<"touch", "welcome">>) = "touch"
      /\ Remote!Range(<<"touch", "welcome">>) = {"touch", "welcome"}
  BY DEF Programs, HelloFrom, Remote!Range
<1>2. /\ (<<"issue">> \o Remote!SetRole \o <<"welcome">>) \in Programs
      /\ Head(<<"issue">> \o Remote!SetRole \o <<"welcome">>) = "issue"
      /\ Remote!Range(<<"issue">> \o Remote!SetRole \o <<"welcome">>)
           = {"issue", "role", "persist", "bump", "welcome"}
  <2> DEFINE r == <<"issue", "role", "persist", "bump", "welcome">>
  <2>1. <<"issue">> \o Remote!SetRole \o <<"welcome">> = r
    BY StartSteps
  <2>2. r \in Programs /\ Head(r) = "issue" /\ Remote!Range(r) = {"issue", "role", "persist",
          "bump", "welcome"}
    BY DEF Programs, IssueFrom, Remote!Range
  <2> QED
    BY <2>1, <2>2
<1>3. CASE identity # 0 /\ holds[i] = identity
  <2>1. Remote!Starts(t, <<"touch", "welcome">>, {App}, "guest", identity, i)
    BY <1>3 DEF Remote!Hello
  <2>2. /\ t \in Remote!Actors /\ {App} \subseteq Remote!Principals /\ "guest" \in Roles
          /\ identity \in Nat
        /\ i \in Remote!Clients \cup {App, Panel}
    BY DEF Remote!Actors, Remote!Principals, Remote!Clients, Roles, MapsOK
  <2> QED
    BY <1>1, <1>3, <2>1, <2>2, StartBegins
<1>4. CASE ~(identity # 0 /\ holds[i] = identity)
  <2>1. identity = 0
    BY <1>4 DEF Remote!Hello, Remote!Refuses
  <2>2. Remote!Starts(t, <<"issue">> \o Remote!SetRole \o <<"welcome">>, {App}, "guest",
          minted + 1, i)
    BY <1>4 DEF Remote!Hello
  <2>3. /\ t \in Remote!Actors /\ {App} \subseteq Remote!Principals /\ "guest" \in Roles
          /\ minted + 1 \in Nat
        /\ i \in Remote!Clients \cup {App, Panel}
    BY DEF Remote!Actors, Remote!Principals, Remote!Clients, Roles, MapsOK
  <2> QED
    BY <1>2, <2>1, <2>2, <2>3, StartBegins
<1> QED
  BY <1>3, <1>4

\* The pair op of an app's connection.
LEMMA PairAppBegins ==
    ASSUME OpsOK, MapsOK, NEW t \in Threads, NEW i \in Installs, Remote!PairApp(t, i)
    PROVE  Begins(t, {"role", "persist", "bump"}, {App}, code, holds[i], i, {})
<1>1. Remote!SetRole \in Programs /\ Head(Remote!SetRole) = "role"
        /\ Remote!Range(Remote!SetRole) = {"role", "persist", "bump"}
  BY StartSteps DEF Programs, SetFrom, RevokeFrom, RevokeAllFrom, RedeemFrom, TouchFrom,
     HelloFrom, IssueFrom, Remote!Range, Remote!SetRole
<1>2. Remote!Starts(t, Remote!SetRole, {App}, code, holds[i], i)
  BY DEF Remote!PairApp
<1>3. /\ t \in Remote!Actors /\ {App} \subseteq Remote!Principals /\ code \in Roles
        /\ holds[i] \in Nat
      /\ i \in Remote!Clients \cup {App, Panel}
  BY DEF Remote!PairApp, Remote!Actors, Remote!Principals, Remote!Clients, Roles, MapsOK,
     Remote!NoCode
<1> QED
  BY <1>1, <1>2, <1>3, StartBegins

\* A thread takes one step of the program it is in.
LEMMA RunAdvances ==
    ASSUME OpsOK, NEW t \in Remote!Actors, Remote!Run(t)
    PROVE  Advances(t, Head(op[t].steps))
<1> DEFINE o == op[t]
           h == Head(o.steps)
           who == IF h # "browsers" THEN o.who ELSE o.who \cup {b \in Browsers : roles[b] # "guest"}
<1>1. o \in OpType /\ o.steps # <<>>
  BY DEF OpsOK, Remote!Run
<1>2. o.steps \in Programs
  BY <1>1 DEF OpType
<1>3. Runs(o.steps)
  BY <1>2, ProgramRuns
<1>4. h \in Left(o) /\ Ordered(h, Left(o))
  BY <1>3 DEF Runs, Left
<1>5. Remote!Range(<<>>) = {}
  BY DEF Remote!Range
<1>6. CASE Tail(o.steps) = <<>>
  <2>1. op' = [op EXCEPT ![t] = Remote!Idle]
    BY <1>1, <1>6 DEF Remote!Run, OpType
  <2>2. Left(Remote!Idle) = {}
    BY <1>5 DEF Left, Remote!Idle
  <2>3. Left(o) = {h}
    BY <1>3, <1>4, <1>5, <1>6 DEF Runs, Left
  <2>4. Remote!Idle \in OpType
    BY DEF Remote!Idle, OpType, Roles
  <2>5. op' \in [Remote!Actors -> OpType] /\ op'[t] = Remote!Idle
          /\ \A u \in Remote!Actors \ {t} : op'[u] = op[u]
    BY <2>1, <2>4 DEF OpsOK
  <2> QED
    BY <1>4, <2>2, <2>3, <2>5 DEF Advances
<1>7. CASE Tail(o.steps) # <<>>
  <2> DEFINE r == [[o EXCEPT !.steps = Tail(o.steps)] EXCEPT !.who = who]
  <2>1. op' = [op EXCEPT ![t] = r]
    BY <1>1, <1>7 DEF Remote!Run, OpType
  <2>2. Tail(o.steps) \in Programs \cup {<<>>}
    BY <1>3 DEF Runs
  <2>3. r \in OpType
    BY <1>1, <2>2 DEF OpType, Remote!Principals
  <2>4. /\ r.steps = Tail(o.steps) /\ r.role = o.role /\ r.token = o.token /\ r.for = o.for
        /\ r.gone = o.gone /\ r.who = who
    BY <1>1 DEF OpType
  <2>5. op' \in [Remote!Actors -> OpType] /\ op'[t] = r /\ \A u \in Remote!Actors \ {t}
          : op'[u] = op[u]
    BY <2>1, <2>3 DEF OpsOK
  <2>6. Left(op'[t]) = Left(o) \ {h}
    BY <1>3, <2>4, <2>5 DEF Left, Runs
  <2>7. Left(o) # {h}
    <3>1. Runs(Tail(o.steps))
      BY <1>7, <2>2, ProgramRuns
    <3> QED
      BY <1>3, <3>1 DEF Left, Runs
  <2> HIDE DEF r
  <2> QED
    BY <1>4, <1>7, <2>4, <2>5, <2>6, <2>7 DEF Advances
<1> QED
  BY <1>6, <1>7

\* The whole of a step.
LEMMA RunEffects ==
    ASSUME NEW t \in Remote!Actors, Remote!Run(t) PROVE Effects(t, Head(op[t].steps))
<1> DEFINE h == Head(op[t].steps)
<1>1. Remote!Stores(t, h)
  BY DEF Remote!Run
<1>2. /\ tokens' = IF h = "token" THEN tokens \cup op[t].who ELSE tokens
      /\ paired' = IF h = "keep" THEN paired \cup op[t].who
                   ELSE IF h = "forget" THEN paired \ op[t].who ELSE paired
      /\ roles' = IF h = "role" THEN [p \in Remote!Principals |-> IF p \in op[t].who
              THEN op[t].role ELSE roles[p]]
                  ELSE roles
      /\ kept' = IF h = "persist" THEN [p \in Remote!Principals |-> IF p \in op[t].who
              THEN op[t].role ELSE kept[p]]
                 ELSE kept
      /\ identity' = IF h \in {"touch", "issue"} THEN op[t].token ELSE identity
  <2> HIDE DEF h
  <2> QED
    BY <1>1 DEF Remote!Stores, Remote!stores
<1> QED
  BY <1>2 DEF Remote!Run, Effects

\* A thread with nothing to do.
LEMMA IdleType == Remote!Idle \in OpType /\ Left(Remote!Idle) = {} /\ Remote!Idle.who = {}
        /\ Remote!Idle.gone = {} /\ Remote!Idle.steps = <<>>
<1>1. Remote!Range(<<>>) = {}
  BY DEF Remote!Range
<1> QED
  BY <1>1 DEF Remote!Idle, OpType, Roles, Left

\* Every step keeps the types of the maps, the tables and the tokens.
LEMMA MapsStep == ASSUME RemoteTyped, OpsShaped, [Remote!Next]_(Remote!vars) PROVE MapsOK'
<1> USE DEF RemoteTyped, MapsOK, Roles, Remote!Principals
<1>1. CASE Remote!NewCode
  BY <1>1 DEF Remote!NewCode, Remote!Panels, Remote!stores, Remote!history
<1>2. ASSUME NEW role \in Roles, NEW p \in Remote!Principals, Remote!Assign(p, role) PROVE MapsOK'
  BY <1>2 DEF Remote!Assign, Remote!Panels, Remote!stores, Remote!history
<1>3. ASSUME NEW b \in Browsers, Remote!Revoke(b) PROVE MapsOK'
  BY <1>3 DEF Remote!Revoke, Remote!Panels, Remote!stores, Remote!history
<1>4. ASSUME NEW b \in Browsers, Remote!Open(b) PROVE MapsOK'
  BY <1>4 DEF Remote!Open, Remote!stores, Remote!history
<1>5. CASE Remote!RevokeAll
  BY <1>5 DEF Remote!RevokeAll, Remote!Panels, Remote!stores, Remote!history
<1>6. CASE Remote!Switch
  BY <1>6 DEF Remote!Switch, Remote!Panels, Remote!stores, Remote!history
<1>7. CASE Remote!AgeOut
  BY <1>7 DEF Remote!AgeOut, Remote!Pinned, Remote!stores, Remote!history
<1>8. CASE Remote!Restart
  BY <1>8, IdleType DEF Remote!Restart, Remote!Idle, Remote!Away, Remote!stores, Remote!history
<1>9. ASSUME NEW t \in Threads, NEW b \in Browsers, Remote!Redeem(t, b) PROVE MapsOK'
  BY <1>9 DEF Remote!Redeem, Remote!stores, Remote!history
<1>10. ASSUME NEW t \in Threads, NEW b \in Browsers, Remote!Touch(t, b) PROVE MapsOK'
  BY <1>10 DEF Remote!Touch, Remote!stores, Remote!history
<1>11. ASSUME NEW t \in Threads, NEW i \in Installs, Remote!Hello(t, i) PROVE MapsOK'
  BY <1>11 DEF Remote!Hello, Remote!Refuses, Remote!stores, Remote!history
<1>12. ASSUME NEW t \in Threads, NEW i \in Installs, Remote!PairApp(t, i) PROVE MapsOK'
  BY <1>12 DEF Remote!PairApp, Remote!stores, Remote!history
<1>13. ASSUME NEW t \in Remote!Actors, Remote!Run(t) PROVE MapsOK'
  <2>1. Effects(t, Head(op[t].steps)) /\ Advances(t, Head(op[t].steps))
    BY <1>13, RunEffects, RunAdvances
  <2>2. op[t] \in OpType /\ Shaped(op[t])
    BY DEF OpsOK, OpsShaped
  <2> QED
    BY <2>1, <2>2 DEF Effects, Advances, OpType, Shaped
<1>14. ASSUME NEW c \in Remote!Clients, Remote!Told(c) PROVE MapsOK'
  BY <1>14 DEF Remote!Told, Remote!stores, Remote!history, Remote!Away
<1>15. ASSUME NEW c \in Remote!Clients, Remote!Watch(c) PROVE MapsOK'
  BY <1>15 DEF Remote!Watch, Remote!stores, Remote!history, Remote!FirstLook
<1>16. ASSUME NEW c \in Remote!Clients, Remote!Look(c) PROVE MapsOK'
  BY <1>16 DEF Remote!Look, Remote!stores, Remote!history
<1>17. ASSUME NEW c \in Remote!Clients, Remote!Changed(c) PROVE MapsOK'
  BY <1>17 DEF Remote!Changed, Remote!stores, Remote!history
<1>18. ASSUME NEW c \in Remote!Clients, Remote!Close(c) PROVE MapsOK'
  BY <1>18 DEF Remote!Close, Remote!stores, Remote!history, Remote!Away
<1>19. CASE UNCHANGED Remote!vars
  BY <1>19 DEF Remote!vars, Remote!stores, Remote!history
<1> QED
  BY <1>1, <1>2, <1>3, <1>4, <1>5, <1>6, <1>7, <1>8, <1>9, <1>10, <1>11, <1>12, <1>13, <1>14,
     <1>15, <1>16, <1>17, <1>18, <1>19 DEF Remote!Next, Remote!Delivers, Roles

\* Every step keeps the type of what the threads have left to do.
LEMMA OpsStep == ASSUME RemoteTyped, [Remote!Next]_(Remote!vars) PROVE OpsOK'
<1> USE DEF RemoteTyped, OpsOK
<1>1. CASE Remote!NewCode
  BY <1>1 DEF Remote!NewCode, Remote!Panels, Remote!stores, Remote!history
<1>2. ASSUME NEW role \in Roles, NEW p \in Remote!Principals, Remote!Assign(p, role) PROVE OpsOK'
  BY <1>2, SetBegins DEF Remote!Assign, Remote!Panels, Remote!stores, Remote!history, Begins
<1>3. ASSUME NEW b \in Browsers, Remote!Revoke(b) PROVE OpsOK'
  BY <1>3, RevokeBegins DEF Remote!Revoke, Remote!Panels, Remote!stores, Remote!history, Begins
<1>4. ASSUME NEW b \in Browsers, Remote!Open(b) PROVE OpsOK'
  BY <1>4 DEF Remote!Open, Remote!stores, Remote!history
<1>5. CASE Remote!RevokeAll
  BY <1>5, RevokeAllBegins DEF Remote!RevokeAll, Remote!Panels, Remote!stores, Remote!history,
     Begins
<1>6. CASE Remote!Switch
  BY <1>6, SwitchBegins DEF Remote!Switch, Remote!Panels, Remote!stores, Remote!history, Begins
<1>7. CASE Remote!AgeOut
  BY <1>7 DEF Remote!AgeOut, Remote!Pinned, Remote!stores, Remote!history
<1>8. CASE Remote!Restart
  BY <1>8, IdleType DEF Remote!Restart, Remote!Idle, Remote!Away, Remote!stores, Remote!history
<1>9. ASSUME NEW t \in Threads, NEW b \in Browsers, Remote!Redeem(t, b) PROVE OpsOK'
  BY <1>9, RedeemBegins DEF Remote!Redeem, Remote!stores, Remote!history, Begins
<1>10. ASSUME NEW t \in Threads, NEW b \in Browsers, Remote!Touch(t, b) PROVE OpsOK'
  BY <1>10, TouchBegins DEF Remote!Touch, Remote!stores, Remote!history, Begins
<1>11. ASSUME NEW t \in Threads, NEW i \in Installs, Remote!Hello(t, i) PROVE OpsOK'
  BY <1>11, HelloBegins DEF Begins
<1>12. ASSUME NEW t \in Threads, NEW i \in Installs, Remote!PairApp(t, i) PROVE OpsOK'
  BY <1>12, PairAppBegins DEF Remote!PairApp, Remote!stores, Remote!history, Begins
<1>13. ASSUME NEW t \in Remote!Actors, Remote!Run(t) PROVE OpsOK'
  BY <1>13, RunAdvances DEF Advances
<1>14. ASSUME NEW c \in Remote!Clients, Remote!Told(c) PROVE OpsOK'
  BY <1>14 DEF Remote!Told, Remote!stores, Remote!history, Remote!Away
<1>15. ASSUME NEW c \in Remote!Clients, Remote!Watch(c) PROVE OpsOK'
  BY <1>15 DEF Remote!Watch, Remote!stores, Remote!history, Remote!FirstLook
<1>16. ASSUME NEW c \in Remote!Clients, Remote!Look(c) PROVE OpsOK'
  BY <1>16 DEF Remote!Look, Remote!stores, Remote!history
<1>17. ASSUME NEW c \in Remote!Clients, Remote!Changed(c) PROVE OpsOK'
  BY <1>17 DEF Remote!Changed, Remote!stores, Remote!history
<1>18. ASSUME NEW c \in Remote!Clients, Remote!Close(c) PROVE OpsOK'
  BY <1>18 DEF Remote!Close, Remote!stores, Remote!history, Remote!Away
<1>19. CASE UNCHANGED Remote!vars
  BY <1>19 DEF Remote!vars, Remote!stores, Remote!history
<1> QED
  BY <1>1, <1>2, <1>3, <1>4, <1>5, <1>6, <1>7, <1>8, <1>9, <1>10, <1>11, <1>12, <1>13, <1>14,
     <1>15, <1>16, <1>17, <1>18, <1>19 DEF Remote!Next, Remote!Delivers, Roles

\* What a client may be told.
LEMMA PermissionsType ==
    ASSUME MapsOK PROVE \A c \in Remote!Clients : Remote!Permissions(c) \in Roles \cup {"all"}
  BY DEF MapsOK, Remote!Permissions, Remote!Clients, Remote!PrincipalOf, Remote!Principals

\* What a step does to the clients: a wake reaches those that watch, and the end of a
\* handshake is told to the one it is with.
LEMMA RunClients ==
    ASSUME RemoteTyped, NEW t \in Remote!Actors, Remote!Run(t)
    PROVE  /\ ClientsOK'
           /\ \A c \in Remote!Clients :
                \/ client'[c] = client[c]
                \/ /\ Head(op[t].steps) = "bump" /\ client[c].at \in {"look", "wait"}
                   /\ client'[c] = [client[c] EXCEPT !.notified = TRUE]
                \/ /\ Head(op[t].steps) = "welcome" /\ c = op[t].for /\ client'[c].at = "told"
           /\ Head(op[t].steps) = "bump" =>
                \A c \in Remote!Clients : client'[c].at \in {"look", "wait"}
                        => client'[c].notified
<1> DEFINE h == Head(op[t].steps)
<1>1. Effects(t, h)
  BY RunEffects
<1>2. client \in [Remote!Clients -> ClientType] /\ op[t] \in OpType
  BY DEF RemoteTyped, ClientsOK, OpsOK
<1>3. CASE h = "bump"
  <2>1. client' = [c \in Remote!Clients |-> IF client[c].at \in {"look", "wait"}
                                    THEN [client[c] EXCEPT !.notified = TRUE] ELSE client[c]]
    BY <1>1, <1>3 DEF Effects, Remote!Wakes
  <2> QED
    BY <1>2, <1>3, <2>1 DEF ClientsOK, ClientType
<1>4. CASE h = "welcome" /\ client[op[t].for].at = "coming"
  <2>1. client' = [client EXCEPT ![op[t].for] = [Remote!Away EXCEPT !.at = "told",
          !.told = Remote!Permissions(op[t].for)]]
    BY <1>1, <1>4 DEF Effects
  <2>2. CASE op[t].for \in Remote!Clients
    <3>1. Remote!Permissions(op[t].for) \in Roles \cup {"all"}
      BY <2>2, PermissionsType DEF RemoteTyped
    <3> QED
      BY <1>2, <1>4, <2>1, <3>1 DEF ClientsOK, ClientType, Remote!Away, Roles
  <2>3. CASE op[t].for \notin Remote!Clients
    <3>1. client' = client
      BY <1>2, <2>1, <2>3
    <3> QED
      BY <1>2, <1>4, <3>1 DEF ClientsOK
  <2> QED
    BY <2>2, <2>3
<1>5. CASE h # "bump" /\ ~(h = "welcome" /\ client[op[t].for].at = "coming")
  BY <1>1, <1>2, <1>5 DEF Effects, ClientsOK
<1> QED
  BY <1>3, <1>4, <1>5

\* Every step keeps the types of the clients.
LEMMA ClientsStep == ASSUME RemoteTyped, OpsShaped, [Remote!Next]_(Remote!vars) PROVE ClientsOK'
<1> USE DEF RemoteTyped, ClientsOK, ClientType, Remote!Clients
<1>1. CASE Remote!NewCode
  BY <1>1 DEF Remote!NewCode, Remote!Panels, Remote!stores, Remote!history
<1>2. ASSUME NEW role \in Roles, NEW p \in Remote!Principals, Remote!Assign(p,
        role) PROVE ClientsOK'
  BY <1>2 DEF Remote!Assign, Remote!Panels, Remote!stores, Remote!history
<1>3. ASSUME NEW b \in Browsers, Remote!Revoke(b) PROVE ClientsOK'
  BY <1>3 DEF Remote!Revoke, Remote!Panels, Remote!stores, Remote!history
<1>4. ASSUME NEW b \in Browsers, Remote!Open(b) PROVE ClientsOK'
  BY <1>4 DEF Remote!Open, Remote!stores, Remote!history
<1>5. CASE Remote!RevokeAll
  BY <1>5 DEF Remote!RevokeAll, Remote!Panels, Remote!stores, Remote!history
<1>6. CASE Remote!Switch
  BY <1>6 DEF Remote!Switch, Remote!Panels, Remote!stores, Remote!history
<1>7. CASE Remote!AgeOut
  BY <1>7 DEF Remote!AgeOut, Remote!Pinned, Remote!stores, Remote!history
<1>8. CASE Remote!Restart
  BY <1>8, IdleType DEF Remote!Restart, Remote!Idle, Remote!Away, Remote!stores, Remote!history
<1>9. ASSUME NEW t \in Threads, NEW b \in Browsers, Remote!Redeem(t, b) PROVE ClientsOK'
  BY <1>9 DEF Remote!Redeem, Remote!stores, Remote!history
<1>10. ASSUME NEW t \in Threads, NEW b \in Browsers, Remote!Touch(t, b) PROVE ClientsOK'
  BY <1>10 DEF Remote!Touch, Remote!stores, Remote!history
<1>11. ASSUME NEW t \in Threads, NEW i \in Installs, Remote!Hello(t, i) PROVE ClientsOK'
  BY <1>11 DEF Remote!Hello, Remote!Refuses, Remote!stores, Remote!history
<1>12. ASSUME NEW t \in Threads, NEW i \in Installs, Remote!PairApp(t, i) PROVE ClientsOK'
  BY <1>12 DEF Remote!PairApp, Remote!stores, Remote!history
<1>13. ASSUME NEW t \in Remote!Actors, Remote!Run(t) PROVE ClientsOK'
  BY <1>13, RunClients
<1>14. ASSUME NEW c \in Remote!Clients, Remote!Told(c) PROVE ClientsOK'
  BY <1>14, PermissionsType DEF Remote!Told, Remote!Away, Roles, Remote!stores, Remote!history
<1>15. ASSUME NEW c \in Remote!Clients, Remote!Watch(c) PROVE ClientsOK'
  BY <1>15 DEF Remote!Watch, Remote!stores, Remote!history, Remote!FirstLook
<1>16. ASSUME NEW c \in Remote!Clients, Remote!Look(c) PROVE ClientsOK'
  BY <1>16, PermissionsType DEF Remote!Look, Roles, Remote!stores, Remote!history
<1>17. ASSUME NEW c \in Remote!Clients, Remote!Changed(c) PROVE ClientsOK'
  BY <1>17 DEF Remote!Changed, Remote!stores, Remote!history
<1>18. ASSUME NEW c \in Remote!Clients, Remote!Close(c) PROVE ClientsOK'
  BY <1>18 DEF Remote!Close, Remote!stores, Remote!history, Remote!Away
<1>19. CASE UNCHANGED Remote!vars
  BY <1>19 DEF Remote!vars, Remote!stores, Remote!history
<1> QED
  BY <1>1, <1>2, <1>3, <1>4, <1>5, <1>6, <1>7, <1>8, <1>9, <1>10, <1>11, <1>12, <1>13, <1>14,
     <1>15, <1>16, <1>17, <1>18, <1>19 DEF Remote!Next, Remote!Delivers, Roles

\* Every step keeps what an operation carries.
LEMMA ShapedStep == ASSUME RemoteTyped, OpsShaped, [Remote!Next]_(Remote!vars) PROVE OpsShaped'
<1> USE DEF OpsShaped
<1>1. CASE Remote!NewCode
  BY <1>1 DEF Remote!NewCode, Shaped, Left, Remote!stores, Remote!history
<1>2. ASSUME NEW role \in Roles, NEW p \in Remote!Principals, Remote!Assign(p,
        role) PROVE OpsShaped'
  <2>1. Begins(Panel, {"role", "persist", "bump"}, {p}, role, 0, p, {})
    BY <1>2, SetBegins DEF RemoteTyped
  <2>2. Shaped(op[Panel])'
    BY <2>1 DEF Begins, Shaped
  <2>3. \A u \in Remote!Actors \ {Panel} : Shaped(op[u])'
    BY <2>1 DEF Begins, Shaped, Left
  <2> QED
    BY <2>2, <2>3
<1>3. ASSUME NEW b \in Browsers, Remote!Revoke(b) PROVE OpsShaped'
  <2>1. Begins(Panel, {"forget", "role", "persist", "bump", "revoked"}, {b}, "guest", 0, b, {b})
    BY <1>3, RevokeBegins DEF RemoteTyped
  <2>2. Shaped(op[Panel])'
    BY <2>1 DEF Begins, Shaped
  <2>3. \A u \in Remote!Actors \ {Panel} : Shaped(op[u])'
    BY <2>1 DEF Begins, Shaped, Left
  <2> QED
    BY <2>2, <2>3
<1>4. ASSUME NEW b \in Browsers, Remote!Open(b) PROVE OpsShaped'
  BY <1>4 DEF Remote!Open, Shaped, Left, Remote!stores, Remote!history
<1>5. CASE Remote!RevokeAll
  <2>1. Begins(Panel, {"forget", "browsers", "role", "persist", "bump", "revoked"}, tokens,
          "guest", 0, Panel, tokens)
    BY <1>5, RevokeAllBegins DEF RemoteTyped
  <2>2. Shaped(op[Panel])'
    BY <2>1 DEF Begins, Shaped, RemoteTyped, MapsOK
  <2>3. \A u \in Remote!Actors \ {Panel} : Shaped(op[u])'
    BY <2>1 DEF Begins, Shaped, Left
  <2> QED
    BY <2>2, <2>3
<1>6. CASE Remote!Switch
  <2>1. Begins(Panel, {"bump"}, {}, "guest", 0, Panel, {})
    BY <1>6, SwitchBegins DEF RemoteTyped
  <2>2. Shaped(op[Panel])'
    BY <2>1 DEF Begins, Shaped
  <2>3. \A u \in Remote!Actors \ {Panel} : Shaped(op[u])'
    BY <2>1 DEF Begins, Shaped, Left
  <2> QED
    BY <2>2, <2>3
<1>7. CASE Remote!AgeOut
  BY <1>7 DEF Remote!AgeOut, Shaped, Left, Remote!stores, Remote!history
<1>8. CASE Remote!Restart
  BY <1>8, IdleType DEF Remote!Restart, Remote!Idle, Shaped, Left
<1>9. ASSUME NEW t \in Threads, NEW b \in Browsers, Remote!Redeem(t, b) PROVE OpsShaped'
  <2>1. Begins(t, {"token", "keep", "role", "persist", "bump", "answer"}, {b}, code, 0, b, {})
    BY <1>9, RedeemBegins DEF RemoteTyped
  <2>2. Shaped(op[t])'
    BY <2>1 DEF Begins, Shaped
  <2>3. \A u \in Remote!Actors \ {t} : Shaped(op[u])'
    BY <2>1 DEF Begins, Shaped, Left
  <2> QED
    BY <2>2, <2>3
<1>10. ASSUME NEW t \in Threads, NEW b \in Browsers, Remote!Touch(t, b) PROVE OpsShaped'
  <2>1. Begins(t, {"keep"}, {b}, "guest", 0, b, {})
    BY <1>10, TouchBegins DEF RemoteTyped
  <2>2. Shaped(op[t])'
    BY <2>1 DEF Begins, Shaped
  <2>3. \A u \in Remote!Actors \ {t} : Shaped(op[u])'
    BY <2>1 DEF Begins, Shaped, Left
  <2> QED
    BY <2>2, <2>3
<1>11. ASSUME NEW t \in Threads, NEW i \in Installs, Remote!Hello(t, i) PROVE OpsShaped'
  <2>1. \/ Begins(t, {"touch", "welcome"}, {App}, "guest", identity, i, {}) /\ identity # 0
        \/ Begins(t, {"issue", "role", "persist", "bump", "welcome"}, {App}, "guest", minted + 1, i, {})
    BY <1>11, HelloBegins DEF RemoteTyped
  <2>2. minted + 1 # 0
    BY DEF RemoteTyped, MapsOK
  <2>3. Shaped(op[t])'
    BY <2>1, <2>2 DEF Begins, Shaped
  <2>4. \A u \in Remote!Actors \ {t} : Shaped(op[u])'
    BY <2>1 DEF Begins, Shaped, Left
  <2> QED
    BY <2>3, <2>4
<1>12. ASSUME NEW t \in Threads, NEW i \in Installs, Remote!PairApp(t, i) PROVE OpsShaped'
  <2>1. Begins(t, {"role", "persist", "bump"}, {App}, code, holds[i], i, {})
    BY <1>12, PairAppBegins DEF RemoteTyped
  <2>2. Shaped(op[t])'
    BY <2>1 DEF Begins, Shaped
  <2>3. \A u \in Remote!Actors \ {t} : Shaped(op[u])'
    BY <2>1 DEF Begins, Shaped, Left
  <2> QED
    BY <2>2, <2>3
<1>13. ASSUME NEW t \in Remote!Actors, Remote!Run(t) PROVE OpsShaped'
  <2> DEFINE h == Head(op[t].steps)
  <2>1. Advances(t, h) /\ Effects(t, h)
    BY <1>13, RunAdvances, RunEffects DEF RemoteTyped
  <2>2. op[t] \in OpType /\ Shaped(op[t])
    BY DEF RemoteTyped, OpsOK, OpsShaped
  <2>3. Shaped(op[t])'
    BY <2>1, <2>2, IdleType DEF Advances, Ordered, Shaped
  <2>4. \A u \in Remote!Actors \ {t} : Shaped(op[u])'
    BY <2>1 DEF Advances, Shaped, Left
  <2> QED
    BY <2>3, <2>4
<1>14. ASSUME NEW c \in Remote!Clients, Remote!Told(c) PROVE OpsShaped'
  BY <1>14 DEF Remote!Told, Shaped, Left, Remote!stores, Remote!history
<1>15. ASSUME NEW c \in Remote!Clients, Remote!Watch(c) PROVE OpsShaped'
  BY <1>15 DEF Remote!Watch, Shaped, Left, Remote!stores, Remote!history
<1>16. ASSUME NEW c \in Remote!Clients, Remote!Look(c) PROVE OpsShaped'
  BY <1>16 DEF Remote!Look, Shaped, Left, Remote!stores, Remote!history
<1>17. ASSUME NEW c \in Remote!Clients, Remote!Changed(c) PROVE OpsShaped'
  BY <1>17 DEF Remote!Changed, Shaped, Left, Remote!stores, Remote!history
<1>18. ASSUME NEW c \in Remote!Clients, Remote!Close(c) PROVE OpsShaped'
  BY <1>18 DEF Remote!Close, Shaped, Left, Remote!stores, Remote!history
<1>19. CASE UNCHANGED Remote!vars
  BY <1>19 DEF Remote!vars, Shaped, Left, Remote!stores, Remote!history
<1> QED
  BY <1>1, <1>2, <1>3, <1>4, <1>5, <1>6, <1>7, <1>8, <1>9, <1>10, <1>11, <1>12, <1>13, <1>14,
     <1>15, <1>16, <1>17, <1>18, <1>19 DEF Remote!Next, Remote!Delivers, Roles

\* Every step of two operations on one principal counts them as crossed.
LEMMA AloneOnStep ==
    ASSUME RemoteTyped, OpsShaped, AloneOn, [Remote!Next]_(Remote!vars)
    PROVE  AloneOn'
<1> USE DEF AloneOn
<1>1. CASE Remote!NewCode
  BY <1>1 DEF Remote!NewCode, Remote!Panels, Remote!stores, Remote!history, Remote!Busy
<1>2. ASSUME NEW role \in Roles, NEW p \in Remote!Principals, Remote!Assign(p,
        role) PROVE AloneOn'
  <2>1. Begins(Panel, {"role", "persist", "bump"}, {p}, role, 0, p, {})
    BY <1>2, SetBegins DEF RemoteTyped
  <2> QED
    BY <1>2, <2>1 DEF Begins, Remote!Busy, Remote!Actors, Remote!Assign, Remote!Panels,
       Remote!stores, Remote!history
<1>3. ASSUME NEW b \in Browsers, Remote!Revoke(b) PROVE AloneOn'
  <2>1. Begins(Panel, {"forget", "role", "persist", "bump", "revoked"}, {b}, "guest", 0, b, {b})
    BY <1>3, RevokeBegins DEF RemoteTyped
  <2> QED
    BY <1>3, <2>1 DEF Begins, Remote!Busy, Remote!Actors, Remote!Revoke, Remote!Panels,
       Remote!stores, Remote!history
<1>4. ASSUME NEW b \in Browsers, Remote!Open(b) PROVE AloneOn'
  BY <1>4 DEF Remote!Open, Remote!stores, Remote!history, Remote!Busy
<1>5. CASE Remote!RevokeAll
  <2>1. Begins(Panel, {"forget", "browsers", "role", "persist", "bump", "revoked"}, tokens,
          "guest", 0, Panel, tokens)
    BY <1>5, RevokeAllBegins DEF RemoteTyped
  <2> QED
    BY <1>5, <2>1 DEF Begins, Remote!Busy, Remote!Actors, Remote!RevokeAll, Remote!Panels,
       Remote!stores, Remote!history
<1>6. CASE Remote!Switch
  <2>1. Begins(Panel, {"bump"}, {}, "guest", 0, Panel, {})
    BY <1>6, SwitchBegins DEF RemoteTyped
  <2> QED
    BY <1>6, <2>1 DEF Begins, Remote!Busy, Remote!Actors, Remote!Switch, Remote!Panels,
       Remote!stores, Remote!history
<1>7. CASE Remote!AgeOut
  BY <1>7 DEF Remote!AgeOut, Remote!stores, Remote!history, Remote!Pinned, Remote!Busy
<1>8. CASE Remote!Restart
  BY <1>8, IdleType DEF Remote!Restart, Remote!Idle, Remote!Away, Remote!stores, Remote!history,
     Remote!Busy
<1>9. ASSUME NEW t \in Threads, NEW b \in Browsers, Remote!Redeem(t, b) PROVE AloneOn'
  <2>1. Begins(t, {"token", "keep", "role", "persist", "bump", "answer"}, {b}, code, 0, b, {})
    BY <1>9, RedeemBegins DEF RemoteTyped
  <2> QED
    BY <1>9, <2>1 DEF Begins, Remote!Busy, Remote!Actors, Remote!Redeem, Remote!stores,
       Remote!history
<1>10. ASSUME NEW t \in Threads, NEW b \in Browsers, Remote!Touch(t, b) PROVE AloneOn'
  <2>1. Begins(t, {"keep"}, {b}, "guest", 0, b, {})
    BY <1>10, TouchBegins DEF RemoteTyped
  <2> QED
    BY <1>10, <2>1 DEF Begins, Remote!Busy, Remote!Actors, Remote!Touch, Remote!stores,
       Remote!history
<1>11. ASSUME NEW t \in Threads, NEW i \in Installs, Remote!Hello(t, i) PROVE AloneOn'
  <2>1. \/ /\ Begins(t, {"touch", "welcome"}, {App}, "guest", identity, i, {})
           /\ identity # 0 /\ holds[i] = identity
        \/ /\ Begins(t, {"issue", "role", "persist", "bump", "welcome"}, {App}, "guest",
                minted + 1, i, {})
           /\ identity = 0
    BY <1>11, HelloBegins DEF RemoteTyped
  <2> QED
    BY <1>11, <2>1 DEF Begins, Remote!Busy, Remote!Actors, Remote!Hello, Remote!stores,
       Remote!history
<1>12. ASSUME NEW t \in Threads, NEW i \in Installs, Remote!PairApp(t, i) PROVE AloneOn'
  <2>1. Begins(t, {"role", "persist", "bump"}, {App}, code, holds[i], i, {})
    BY <1>12, PairAppBegins DEF RemoteTyped
  <2> QED
    BY <1>12, <2>1 DEF Begins, Remote!Busy, Remote!Actors, Remote!PairApp, Remote!stores,
       Remote!history
<1>13. ASSUME NEW t \in Remote!Actors, Remote!Run(t) PROVE AloneOn'
  <2> DEFINE h == Head(op[t].steps)
  <2>1. Advances(t, h) /\ Effects(t, h)
    BY <1>13, RunAdvances, RunEffects DEF RemoteTyped
  <2>2. op[t] \in OpType /\ Shaped(op[t])
    BY DEF RemoteTyped, OpsOK, OpsShaped
  <2>3. \A p \in Remote!Principals \ crossed' : \A u \in Remote!Actors \ {t}
          : ~(p \in op'[t].who /\ p \in op[u].who)
    BY <2>1, IdleType DEF Advances, Effects
  <2> QED
    BY <2>1, <2>3 DEF Advances, Effects
<1>14. ASSUME NEW c \in Remote!Clients, Remote!Told(c) PROVE AloneOn'
  BY <1>14 DEF Remote!Told, Remote!stores, Remote!history, Remote!Away, Remote!Busy
<1>15. ASSUME NEW c \in Remote!Clients, Remote!Watch(c) PROVE AloneOn'
  BY <1>15 DEF Remote!Watch, Remote!stores, Remote!history, Remote!FirstLook, Remote!Busy
<1>16. ASSUME NEW c \in Remote!Clients, Remote!Look(c) PROVE AloneOn'
  BY <1>16 DEF Remote!Look, Remote!stores, Remote!history, Remote!Busy
<1>17. ASSUME NEW c \in Remote!Clients, Remote!Changed(c) PROVE AloneOn'
  BY <1>17 DEF Remote!Changed, Remote!stores, Remote!history, Remote!Busy
<1>18. ASSUME NEW c \in Remote!Clients, Remote!Close(c) PROVE AloneOn'
  BY <1>18 DEF Remote!Close, Remote!stores, Remote!history, Remote!Away, Remote!Busy
<1>19. CASE UNCHANGED Remote!vars
  BY <1>19 DEF Remote!vars, Remote!stores, Remote!history, Remote!Busy
<1> QED
  BY <1>1, <1>2, <1>3, <1>4, <1>5, <1>6, <1>7, <1>8, <1>9, <1>10, <1>11, <1>12, <1>13, <1>14,
     <1>15, <1>16, <1>17, <1>18, <1>19 DEF Remote!Next, Remote!Delivers, Roles

\* Every step tells an installation of its connection with its token.
LEMMA WelcomedStep ==
    ASSUME RemoteTyped, OpsShaped, Welcomed, [Remote!Next]_(Remote!vars)
    PROVE  Welcomed'
<1> USE DEF Welcomed
<1>1. CASE Remote!NewCode
  BY <1>1 DEF Remote!NewCode, Remote!Panels, Remote!stores, Remote!history
<1>2. ASSUME NEW role \in Roles, NEW p \in Remote!Principals, Remote!Assign(p,
        role) PROVE Welcomed'
  BY <1>2 DEF Remote!Assign, Remote!Panels, Remote!stores, Remote!history
<1>3. ASSUME NEW b \in Browsers, Remote!Revoke(b) PROVE Welcomed'
  BY <1>3 DEF Remote!Revoke, Remote!Panels, Remote!stores, Remote!history
<1>4. ASSUME NEW b \in Browsers, Remote!Open(b) PROVE Welcomed'
  BY <1>4 DEF Remote!Open, Remote!stores, Remote!history, RemoteTyped, ClientsOK, ClientType,
     Remote!Clients
<1>5. CASE Remote!RevokeAll
  BY <1>5 DEF Remote!RevokeAll, Remote!Panels, Remote!stores, Remote!history
<1>6. CASE Remote!Switch
  BY <1>6 DEF Remote!Switch, Remote!Panels, Remote!stores, Remote!history
<1>7. CASE Remote!AgeOut
  BY <1>7 DEF Remote!AgeOut, Remote!Pinned, Remote!stores, Remote!history
<1>8. CASE Remote!Restart
  BY <1>8 DEF Remote!Restart, Remote!Away, Remote!Clients, Remote!history
<1>9. ASSUME NEW t \in Threads, NEW b \in Browsers, Remote!Redeem(t, b) PROVE Welcomed'
  BY <1>9 DEF Remote!Redeem, Remote!stores, Remote!history
<1>10. ASSUME NEW t \in Threads, NEW b \in Browsers, Remote!Touch(t, b) PROVE Welcomed'
  BY <1>10 DEF Remote!Touch, Remote!stores, Remote!history
<1>11. ASSUME NEW t \in Threads, NEW i \in Installs, Remote!Hello(t, i) PROVE Welcomed'
  BY <1>11 DEF Remote!Hello, Remote!stores, Remote!history, RemoteTyped, ClientsOK, ClientType,
     Remote!Clients
<1>12. ASSUME NEW t \in Threads, NEW i \in Installs, Remote!PairApp(t, i) PROVE Welcomed'
  BY <1>12 DEF Remote!PairApp, Remote!stores, Remote!history
<1>13. ASSUME NEW t \in Remote!Actors, Remote!Run(t) PROVE Welcomed'
  <2> DEFINE h == Head(op[t].steps)
  <2>1. Advances(t, h) /\ Effects(t, h)
    BY <1>13, RunAdvances, RunEffects DEF RemoteTyped
  <2>2. op[t] \in OpType /\ Shaped(op[t])
    BY DEF RemoteTyped, OpsOK, OpsShaped
  <2>3. \A i \in Installs : client'[i].at \in {"told", "look", "wait"} =>
           client[i].at \in {"told", "look", "wait"} \/ (h = "welcome" /\ i = op[t].for)
    BY <1>13, RunClients DEF RemoteTyped, ClientsOK, ClientType, Remote!Clients
  <2>4. h = "welcome" => op[t].token # 0 /\ op[t].for \in Installs
    BY <2>1, <2>2 DEF Advances, Shaped
  <2>5. holds' = IF h = "welcome" THEN [holds EXCEPT ![op[t].for] = op[t].token] ELSE holds
    BY <2>1 DEF Effects
  <2> HIDE DEF h
  <2> QED
    BY <2>3, <2>4, <2>5 DEF RemoteTyped, MapsOK
<1>14. ASSUME NEW c \in Remote!Clients, Remote!Told(c) PROVE Welcomed'
  BY <1>14, PartyAssumption DEF Remote!Told, Remote!stores, Remote!history, Remote!Away,
     Remote!Clients
<1>15. ASSUME NEW c \in Remote!Clients, Remote!Watch(c) PROVE Welcomed'
  BY <1>15 DEF Remote!Watch, Remote!FirstLook, Remote!stores, Remote!history, RemoteTyped,
     ClientsOK, ClientType, Remote!Clients
<1>16. ASSUME NEW c \in Remote!Clients, Remote!Look(c) PROVE Welcomed'
  BY <1>16 DEF Remote!Look, Remote!stores, Remote!history, RemoteTyped, ClientsOK, ClientType,
     Remote!Clients
<1>17. ASSUME NEW c \in Remote!Clients, Remote!Changed(c) PROVE Welcomed'
  BY <1>17 DEF Remote!Changed, Remote!stores, Remote!history, RemoteTyped, ClientsOK, ClientType,
     Remote!Clients
<1>18. ASSUME NEW c \in Remote!Clients, Remote!Close(c) PROVE Welcomed'
  BY <1>18 DEF Remote!Close, Remote!stores, Remote!history, Remote!Away, RemoteTyped, ClientsOK,
     ClientType, Remote!Clients
<1>19. CASE UNCHANGED Remote!vars
  BY <1>19 DEF Remote!vars, Remote!stores, Remote!history
<1> QED
  BY <1>1, <1>2, <1>3, <1>4, <1>5, <1>6, <1>7, <1>8, <1>9, <1>10, <1>11, <1>12, <1>13, <1>14,
     <1>15, <1>16, <1>17, <1>18, <1>19 DEF Remote!Next, Remote!Delivers, Roles

\* Every step keeps the paired browsers in memory and in the store, and the revoked out.
LEMMA PairingStep ==
    ASSUME RemoteTyped, OpsShaped, AloneOn, PairingHolds, [Remote!Next]_(Remote!vars)
    PROVE  PairingHolds'
<1> USE DEF PairingHolds, Remote!PairingLasts
<1>1. CASE Remote!NewCode
  BY <1>1 DEF Remote!NewCode, Remote!Panels, Remote!stores, Remote!history, PairingOf, Left
<1>2. ASSUME NEW role \in Roles, NEW p \in Remote!Principals, Remote!Assign(p,
        role) PROVE PairingHolds'
  <2>1. Begins(Panel, {"role", "persist", "bump"}, {p}, role, 0, p, {})
    BY <1>2, SetBegins DEF RemoteTyped
  <2>2. Remote!PairingLasts'
    BY <1>2, <2>1, PartyAssumption DEF Begins, Remote!Busy, Remote!Actors, Remote!Assign,
       Remote!Panels, Remote!stores, Remote!history, PairingOf, RemoteTyped, MapsOK
  <2>3. ASSUME NEW c \in Browsers \ crossed', c \in op'[Panel].who PROVE PairingOf(c, op[Panel])'
    BY <1>2, <2>1, <2>3, PartyAssumption DEF Begins, Remote!Busy, Remote!Actors, Remote!Assign,
       Remote!Panels, Remote!stores, Remote!history, PairingOf, RemoteTyped, MapsOK
  <2>4. ASSUME NEW c \in Browsers \ crossed', NEW u \in Remote!Actors \ {Panel}, c \in op'[u].who
        PROVE  PairingOf(c, op[u])'
    <3>1. op'[u] = op[u] /\ c \notin crossed /\ c \notin op'[Panel].who
      BY <2>1, <2>4 DEF Begins, Remote!Busy
    <3>2. PairingOf(c, op[u])
      BY <2>4, <3>1
    <3>3. /\ c \in tokens' <=> c \in tokens
          /\ c \in paired' <=> c \in paired
          /\ c \in answered' <=> c \in answered
          /\ c \in revoked' <=> c \in revoked
      BY <1>2, <2>1, <3>1 DEF Begins, Remote!Assign, Remote!Panels, Remote!stores, Remote!history
    <3> QED
      BY <3>1, <3>2, <3>3 DEF PairingOf, Left
  <2> QED
    BY <2>2, <2>3, <2>4 DEF Remote!PairingLasts
<1>3. ASSUME NEW b \in Browsers, Remote!Revoke(b) PROVE PairingHolds'
  <2>1. Begins(Panel, {"forget", "role", "persist", "bump", "revoked"}, {b}, "guest", 0, b, {b})
    BY <1>3, RevokeBegins DEF RemoteTyped
  <2>2. Remote!PairingLasts'
    BY <1>3, <2>1, PartyAssumption DEF Begins, Remote!Busy, Remote!Actors, Remote!Revoke,
       Remote!Panels, Remote!stores, Remote!history, PairingOf, RemoteTyped, MapsOK
  <2>3. ASSUME NEW c \in Browsers \ crossed', c \in op'[Panel].who PROVE PairingOf(c, op[Panel])'
    BY <1>3, <2>1, <2>3, PartyAssumption DEF Begins, Remote!Busy, Remote!Actors, Remote!Revoke,
       Remote!Panels, Remote!stores, Remote!history, PairingOf, RemoteTyped, MapsOK
  <2>4. ASSUME NEW c \in Browsers \ crossed', NEW u \in Remote!Actors \ {Panel}, c \in op'[u].who
        PROVE  PairingOf(c, op[u])'
    <3>1. op'[u] = op[u] /\ c \notin crossed /\ c \notin op'[Panel].who
      BY <2>1, <2>4 DEF Begins, Remote!Busy
    <3>2. PairingOf(c, op[u])
      BY <2>4, <3>1
    <3>3. /\ c \in tokens' <=> c \in tokens
          /\ c \in paired' <=> c \in paired
          /\ c \in answered' <=> c \in answered
          /\ c \in revoked' <=> c \in revoked
      BY <1>3, <2>1, <3>1 DEF Begins, Remote!Revoke, Remote!Panels, Remote!stores, Remote!history
    <3> QED
      BY <3>1, <3>2, <3>3 DEF PairingOf, Left
  <2> QED
    BY <2>2, <2>3, <2>4 DEF Remote!PairingLasts
<1>4. ASSUME NEW b \in Browsers, Remote!Open(b) PROVE PairingHolds'
  BY <1>4 DEF Remote!Open, Remote!stores, Remote!history, PairingOf, Left
<1>5. CASE Remote!RevokeAll
  <2>1. Begins(Panel, {"forget", "browsers", "role", "persist", "bump", "revoked"}, tokens,
          "guest", 0, Panel, tokens)
    BY <1>5, RevokeAllBegins DEF RemoteTyped
  <2>2. Remote!PairingLasts'
    BY <1>5, <2>1, PartyAssumption DEF Begins, Remote!Busy, Remote!Actors, Remote!RevokeAll,
       Remote!Panels, Remote!stores, Remote!history, PairingOf, RemoteTyped, MapsOK
  <2>3. ASSUME NEW c \in Browsers \ crossed', c \in op'[Panel].who PROVE PairingOf(c, op[Panel])'
    BY <1>5, <2>1, <2>3, PartyAssumption DEF Begins, Remote!Busy, Remote!Actors, Remote!RevokeAll,
       Remote!Panels, Remote!stores, Remote!history, PairingOf, RemoteTyped, MapsOK
  <2>4. ASSUME NEW c \in Browsers \ crossed', NEW u \in Remote!Actors \ {Panel}, c \in op'[u].who
        PROVE  PairingOf(c, op[u])'
    <3>1. op'[u] = op[u] /\ c \notin crossed /\ c \notin op'[Panel].who
      BY <2>1, <2>4 DEF Begins, Remote!Busy
    <3>2. PairingOf(c, op[u])
      BY <2>4, <3>1
    <3>3. /\ c \in tokens' <=> c \in tokens
          /\ c \in paired' <=> c \in paired
          /\ c \in answered' <=> c \in answered
          /\ c \in revoked' <=> c \in revoked
      BY <1>5, <2>1, <3>1 DEF Begins, Remote!RevokeAll, Remote!Panels, Remote!stores,
         Remote!history
    <3> QED
      BY <3>1, <3>2, <3>3 DEF PairingOf, Left
  <2> QED
    BY <2>2, <2>3, <2>4 DEF Remote!PairingLasts
<1>6. CASE Remote!Switch
  <2>1. Begins(Panel, {"bump"}, {}, "guest", 0, Panel, {})
    BY <1>6, SwitchBegins DEF RemoteTyped
  <2>2. Remote!PairingLasts'
    BY <1>6, <2>1, PartyAssumption DEF Begins, Remote!Busy, Remote!Actors, Remote!Switch,
       Remote!Panels, Remote!stores, Remote!history, PairingOf, RemoteTyped, MapsOK
  <2>3. ASSUME NEW c \in Browsers \ crossed', c \in op'[Panel].who PROVE PairingOf(c, op[Panel])'
    BY <1>6, <2>1, <2>3, PartyAssumption DEF Begins, Remote!Busy, Remote!Actors, Remote!Switch,
       Remote!Panels, Remote!stores, Remote!history, PairingOf, RemoteTyped, MapsOK
  <2>4. ASSUME NEW c \in Browsers \ crossed', NEW u \in Remote!Actors \ {Panel}, c \in op'[u].who
        PROVE  PairingOf(c, op[u])'
    <3>1. op'[u] = op[u] /\ c \notin crossed /\ c \notin op'[Panel].who
      BY <2>1, <2>4 DEF Begins, Remote!Busy
    <3>2. PairingOf(c, op[u])
      BY <2>4, <3>1
    <3>3. /\ c \in tokens' <=> c \in tokens
          /\ c \in paired' <=> c \in paired
          /\ c \in answered' <=> c \in answered
          /\ c \in revoked' <=> c \in revoked
      BY <1>6, <2>1, <3>1 DEF Begins, Remote!Switch, Remote!Panels, Remote!stores, Remote!history
    <3> QED
      BY <3>1, <3>2, <3>3 DEF PairingOf, Left
  <2> QED
    BY <2>2, <2>3, <2>4 DEF Remote!PairingLasts
<1>7. CASE Remote!AgeOut
  BY <1>7 DEF Remote!AgeOut, Remote!stores, Remote!history, Remote!Pinned, PairingOf, Left
<1>8. CASE Remote!Restart
  BY <1>8, IdleType DEF Remote!Restart, Remote!Idle, Remote!stores, Remote!history, PairingOf
<1>9. ASSUME NEW t \in Threads, NEW b \in Browsers, Remote!Redeem(t, b) PROVE PairingHolds'
  <2>1. Begins(t, {"token", "keep", "role", "persist", "bump", "answer"}, {b}, code, 0, b, {})
    BY <1>9, RedeemBegins DEF RemoteTyped
  <2>2. Remote!PairingLasts'
    BY <1>9, <2>1, PartyAssumption DEF Begins, Remote!Busy, Remote!Actors, Remote!Redeem,
       Remote!stores, Remote!history, PairingOf, RemoteTyped, MapsOK
  <2>3. ASSUME NEW c \in Browsers \ crossed', c \in op'[t].who PROVE PairingOf(c, op[t])'
    BY <1>9, <2>1, <2>3, PartyAssumption DEF Begins, Remote!Busy, Remote!Actors, Remote!Redeem,
       Remote!stores, Remote!history, PairingOf, RemoteTyped, MapsOK
  <2>4. ASSUME NEW c \in Browsers \ crossed', NEW u \in Remote!Actors \ {t}, c \in op'[u].who
        PROVE  PairingOf(c, op[u])'
    <3>1. op'[u] = op[u] /\ c \notin crossed /\ c \notin op'[t].who
      BY <2>1, <2>4 DEF Begins, Remote!Busy
    <3>2. PairingOf(c, op[u])
      BY <2>4, <3>1
    <3>3. /\ c \in tokens' <=> c \in tokens
          /\ c \in paired' <=> c \in paired
          /\ c \in answered' <=> c \in answered
          /\ c \in revoked' <=> c \in revoked
      BY <1>9, <2>1, <3>1 DEF Begins, Remote!Redeem, Remote!stores, Remote!history
    <3> QED
      BY <3>1, <3>2, <3>3 DEF PairingOf, Left
  <2> QED
    BY <2>2, <2>3, <2>4 DEF Remote!PairingLasts
<1>10. ASSUME NEW t \in Threads, NEW b \in Browsers, Remote!Touch(t, b) PROVE PairingHolds'
  <2>1. Begins(t, {"keep"}, {b}, "guest", 0, b, {})
    BY <1>10, TouchBegins DEF RemoteTyped
  <2>2. Remote!PairingLasts'
    BY <1>10, <2>1, PartyAssumption DEF Begins, Remote!Busy, Remote!Actors, Remote!Touch,
       Remote!stores, Remote!history, PairingOf, RemoteTyped, MapsOK
  <2>3. ASSUME NEW c \in Browsers \ crossed', c \in op'[t].who PROVE PairingOf(c, op[t])'
    BY <1>10, <2>1, <2>3, PartyAssumption DEF Begins, Remote!Busy, Remote!Actors, Remote!Touch,
       Remote!stores, Remote!history, PairingOf, RemoteTyped, MapsOK
  <2>4. ASSUME NEW c \in Browsers \ crossed', NEW u \in Remote!Actors \ {t}, c \in op'[u].who
        PROVE  PairingOf(c, op[u])'
    <3>1. op'[u] = op[u] /\ c \notin crossed /\ c \notin op'[t].who
      BY <2>1, <2>4 DEF Begins, Remote!Busy
    <3>2. PairingOf(c, op[u])
      BY <2>4, <3>1
    <3>3. /\ c \in tokens' <=> c \in tokens
          /\ c \in paired' <=> c \in paired
          /\ c \in answered' <=> c \in answered
          /\ c \in revoked' <=> c \in revoked
      BY <1>10, <2>1, <3>1 DEF Begins, Remote!Touch, Remote!stores, Remote!history
    <3> QED
      BY <3>1, <3>2, <3>3 DEF PairingOf, Left
  <2> QED
    BY <2>2, <2>3, <2>4 DEF Remote!PairingLasts
<1>11. ASSUME NEW t \in Threads, NEW i \in Installs, Remote!Hello(t, i) PROVE PairingHolds'
  <2>1. \/ /\ Begins(t, {"touch", "welcome"}, {App}, "guest", identity, i, {})
           /\ identity # 0 /\ holds[i] = identity
        \/ /\ Begins(t, {"issue", "role", "persist", "bump", "welcome"}, {App}, "guest",
                minted + 1, i, {})
           /\ identity = 0
    BY <1>11, HelloBegins DEF RemoteTyped
  <2>2. Remote!PairingLasts'
    BY <1>11, <2>1, PartyAssumption DEF Begins, Remote!Busy, Remote!Actors, Remote!Hello,
       Remote!stores, Remote!history, PairingOf, RemoteTyped, MapsOK
  <2>3. ASSUME NEW c \in Browsers \ crossed', c \in op'[t].who PROVE PairingOf(c, op[t])'
    BY <1>11, <2>1, <2>3, PartyAssumption DEF Begins, Remote!Busy, Remote!Actors, Remote!Hello,
       Remote!stores, Remote!history, PairingOf, RemoteTyped, MapsOK
  <2>4. ASSUME NEW c \in Browsers \ crossed', NEW u \in Remote!Actors \ {t}, c \in op'[u].who
        PROVE  PairingOf(c, op[u])'
    <3>1. op'[u] = op[u] /\ c \notin crossed /\ c \notin op'[t].who
      BY <2>1, <2>4 DEF Begins, Remote!Busy
    <3>2. PairingOf(c, op[u])
      BY <2>4, <3>1
    <3>3. /\ c \in tokens' <=> c \in tokens
          /\ c \in paired' <=> c \in paired
          /\ c \in answered' <=> c \in answered
          /\ c \in revoked' <=> c \in revoked
      BY <1>11, <2>1, <3>1 DEF Begins, Remote!Hello, Remote!stores, Remote!history
    <3> QED
      BY <3>1, <3>2, <3>3 DEF PairingOf, Left
  <2> QED
    BY <2>2, <2>3, <2>4 DEF Remote!PairingLasts
<1>12. ASSUME NEW t \in Threads, NEW i \in Installs, Remote!PairApp(t, i) PROVE PairingHolds'
  <2>1. Begins(t, {"role", "persist", "bump"}, {App}, code, holds[i], i, {})
    BY <1>12, PairAppBegins DEF RemoteTyped
  <2>2. Remote!PairingLasts'
    BY <1>12, <2>1, PartyAssumption DEF Begins, Remote!Busy, Remote!Actors, Remote!PairApp,
       Remote!stores, Remote!history, PairingOf, RemoteTyped, MapsOK
  <2>3. ASSUME NEW c \in Browsers \ crossed', c \in op'[t].who PROVE PairingOf(c, op[t])'
    BY <1>12, <2>1, <2>3, PartyAssumption DEF Begins, Remote!Busy, Remote!Actors, Remote!PairApp,
       Remote!stores, Remote!history, PairingOf, RemoteTyped, MapsOK
  <2>4. ASSUME NEW c \in Browsers \ crossed', NEW u \in Remote!Actors \ {t}, c \in op'[u].who
        PROVE  PairingOf(c, op[u])'
    <3>1. op'[u] = op[u] /\ c \notin crossed /\ c \notin op'[t].who
      BY <2>1, <2>4 DEF Begins, Remote!Busy
    <3>2. PairingOf(c, op[u])
      BY <2>4, <3>1
    <3>3. /\ c \in tokens' <=> c \in tokens
          /\ c \in paired' <=> c \in paired
          /\ c \in answered' <=> c \in answered
          /\ c \in revoked' <=> c \in revoked
      BY <1>12, <2>1, <3>1 DEF Begins, Remote!PairApp, Remote!stores, Remote!history
    <3> QED
      BY <3>1, <3>2, <3>3 DEF PairingOf, Left
  <2> QED
    BY <2>2, <2>3, <2>4 DEF Remote!PairingLasts
<1>13. ASSUME NEW t \in Remote!Actors, Remote!Run(t) PROVE PairingHolds'
  <2> DEFINE h == Head(op[t].steps)
  <2>1. Advances(t, h) /\ Effects(t, h)
    BY <1>13, RunAdvances, RunEffects DEF RemoteTyped
  <2>2. op[t] \in OpType /\ Shaped(op[t])
    BY DEF RemoteTyped, OpsOK, OpsShaped
  <2>3. Remote!PairingLasts'
    BY <2>1, <2>2 DEF Advances, Effects, Ordered, Shaped, PairingOf
  <2>4. ASSUME NEW b \in Browsers \ crossed', b \in op'[t].who PROVE PairingOf(b, op[t])'
    BY <2>1, <2>2, <2>4, IdleType DEF Advances, Effects, Ordered, Shaped, PairingOf, AloneOn
  <2>5. ASSUME NEW b \in Browsers \ crossed', NEW u \in Remote!Actors \ {t}, b \in op'[u].who
        PROVE  PairingOf(b, op[u])'
    <3>1. op'[u] = op[u] /\ b \notin crossed /\ b \notin op[t].who
      BY <2>1, <2>5 DEF Advances, Effects, AloneOn, Remote!Principals
    <3>2. PairingOf(b, op[u])
      BY <2>5, <3>1
    <3>3. /\ b \in tokens' <=> b \in tokens
          /\ b \in paired' <=> b \in paired
          /\ b \in answered' <=> b \in answered
          /\ b \in revoked' <=> b \in revoked
      BY <2>1, <2>2, <3>1 DEF Effects, Shaped
    <3> QED
      BY <3>1, <3>2, <3>3 DEF PairingOf, Left
  <2> QED
    BY <2>3, <2>4, <2>5 DEF Remote!PairingLasts
<1>14. ASSUME NEW c \in Remote!Clients, Remote!Told(c) PROVE PairingHolds'
  BY <1>14 DEF Remote!Told, Remote!stores, Remote!history, Remote!Away, PairingOf, Left
<1>15. ASSUME NEW c \in Remote!Clients, Remote!Watch(c) PROVE PairingHolds'
  BY <1>15 DEF Remote!Watch, Remote!stores, Remote!history, Remote!FirstLook, PairingOf, Left
<1>16. ASSUME NEW c \in Remote!Clients, Remote!Look(c) PROVE PairingHolds'
  BY <1>16 DEF Remote!Look, Remote!stores, Remote!history, PairingOf, Left
<1>17. ASSUME NEW c \in Remote!Clients, Remote!Changed(c) PROVE PairingHolds'
  BY <1>17 DEF Remote!Changed, Remote!stores, Remote!history, PairingOf, Left
<1>18. ASSUME NEW c \in Remote!Clients, Remote!Close(c) PROVE PairingHolds'
  BY <1>18 DEF Remote!Close, Remote!stores, Remote!history, Remote!Away, PairingOf, Left
<1>19. CASE UNCHANGED Remote!vars
  BY <1>19 DEF Remote!vars, Remote!stores, Remote!history, PairingOf, Left
<1> QED
  BY <1>1, <1>2, <1>3, <1>4, <1>5, <1>6, <1>7, <1>8, <1>9, <1>10, <1>11, <1>12, <1>13, <1>14,
     <1>15, <1>16, <1>17, <1>18, <1>19 DEF Remote!Next, Remote!Delivers, Roles

\* Every step keeps a role in memory and in the store together, but between its two writes.
LEMMA RolesStep ==
    ASSUME RemoteTyped, OpsShaped, AloneOn, RolesHold, [Remote!Next]_(Remote!vars)
    PROVE  RolesHold'
<1> USE DEF RolesHold
<1>1. CASE Remote!NewCode
  BY <1>1 DEF Remote!NewCode, Remote!Panels, Remote!stores, Remote!history, Writing, Left
<1>2. ASSUME NEW role \in Roles, NEW p \in Remote!Principals, Remote!Assign(p,
        role) PROVE RolesHold'
  <2>1. Begins(Panel, {"role", "persist", "bump"}, {p}, role, 0, p, {})
    BY <1>2, SetBegins DEF RemoteTyped
  <2>2. roles' = roles /\ kept' = kept /\ crossed \subseteq crossed'
    BY <1>2, <2>1 DEF Begins, Remote!Assign, Remote!Panels, Remote!stores, Remote!history
  <2>3. \A x \in Remote!Principals : ~Writing(x, op[Panel]) /\ ~Writing(x, op[Panel])'
    BY <2>1 DEF Begins, Writing
  <2>4. \A u \in Remote!Actors \ {Panel} : op'[u] = op[u]
    BY <2>1 DEF Begins
  <2> QED
    BY <2>2, <2>3, <2>4 DEF Writing, Left
<1>3. ASSUME NEW b \in Browsers, Remote!Revoke(b) PROVE RolesHold'
  <2>1. Begins(Panel, {"forget", "role", "persist", "bump", "revoked"}, {b}, "guest", 0, b, {b})
    BY <1>3, RevokeBegins DEF RemoteTyped
  <2>2. roles' = roles /\ kept' = kept /\ crossed \subseteq crossed'
    BY <1>3, <2>1 DEF Begins, Remote!Revoke, Remote!Panels, Remote!stores, Remote!history
  <2>3. \A x \in Remote!Principals : ~Writing(x, op[Panel]) /\ ~Writing(x, op[Panel])'
    BY <2>1 DEF Begins, Writing
  <2>4. \A u \in Remote!Actors \ {Panel} : op'[u] = op[u]
    BY <2>1 DEF Begins
  <2> QED
    BY <2>2, <2>3, <2>4 DEF Writing, Left
<1>4. ASSUME NEW b \in Browsers, Remote!Open(b) PROVE RolesHold'
  BY <1>4 DEF Remote!Open, Remote!stores, Remote!history, Writing, Left
<1>5. CASE Remote!RevokeAll
  <2>1. Begins(Panel, {"forget", "browsers", "role", "persist", "bump", "revoked"}, tokens,
          "guest", 0, Panel, tokens)
    BY <1>5, RevokeAllBegins DEF RemoteTyped
  <2>2. roles' = roles /\ kept' = kept /\ crossed \subseteq crossed'
    BY <1>5, <2>1 DEF Begins, Remote!RevokeAll, Remote!Panels, Remote!stores, Remote!history
  <2>3. \A x \in Remote!Principals : ~Writing(x, op[Panel]) /\ ~Writing(x, op[Panel])'
    BY <2>1 DEF Begins, Writing
  <2>4. \A u \in Remote!Actors \ {Panel} : op'[u] = op[u]
    BY <2>1 DEF Begins
  <2> QED
    BY <2>2, <2>3, <2>4 DEF Writing, Left
<1>6. CASE Remote!Switch
  <2>1. Begins(Panel, {"bump"}, {}, "guest", 0, Panel, {})
    BY <1>6, SwitchBegins DEF RemoteTyped
  <2>2. roles' = roles /\ kept' = kept /\ crossed \subseteq crossed'
    BY <1>6, <2>1 DEF Begins, Remote!Switch, Remote!Panels, Remote!stores, Remote!history
  <2>3. \A x \in Remote!Principals : ~Writing(x, op[Panel]) /\ ~Writing(x, op[Panel])'
    BY <2>1 DEF Begins, Writing
  <2>4. \A u \in Remote!Actors \ {Panel} : op'[u] = op[u]
    BY <2>1 DEF Begins
  <2> QED
    BY <2>2, <2>3, <2>4 DEF Writing, Left
<1>7. CASE Remote!AgeOut
  BY <1>7 DEF Remote!AgeOut, Remote!stores, Remote!history, Remote!Pinned, Writing, Left
<1>8. CASE Remote!Restart
  BY <1>8, IdleType DEF Remote!Restart, Remote!Idle, Remote!stores, Remote!history, Writing
<1>9. ASSUME NEW t \in Threads, NEW b \in Browsers, Remote!Redeem(t, b) PROVE RolesHold'
  <2>1. Begins(t, {"token", "keep", "role", "persist", "bump", "answer"}, {b}, code, 0, b, {})
    BY <1>9, RedeemBegins DEF RemoteTyped
  <2>2. roles' = roles /\ kept' = kept /\ crossed \subseteq crossed'
    BY <1>9, <2>1 DEF Begins, Remote!Redeem, Remote!stores, Remote!history
  <2>3. \A x \in Remote!Principals : ~Writing(x, op[t]) /\ ~Writing(x, op[t])'
    BY <2>1 DEF Begins, Writing
  <2>4. \A u \in Remote!Actors \ {t} : op'[u] = op[u]
    BY <2>1 DEF Begins
  <2> QED
    BY <2>2, <2>3, <2>4 DEF Writing, Left
<1>10. ASSUME NEW t \in Threads, NEW b \in Browsers, Remote!Touch(t, b) PROVE RolesHold'
  <2>1. Begins(t, {"keep"}, {b}, "guest", 0, b, {})
    BY <1>10, TouchBegins DEF RemoteTyped
  <2>2. roles' = roles /\ kept' = kept /\ crossed \subseteq crossed'
    BY <1>10, <2>1 DEF Begins, Remote!Touch, Remote!stores, Remote!history
  <2>3. \A x \in Remote!Principals : ~Writing(x, op[t]) /\ ~Writing(x, op[t])'
    BY <2>1 DEF Begins, Writing
  <2>4. \A u \in Remote!Actors \ {t} : op'[u] = op[u]
    BY <2>1 DEF Begins
  <2> QED
    BY <2>2, <2>3, <2>4 DEF Writing, Left
<1>11. ASSUME NEW t \in Threads, NEW i \in Installs, Remote!Hello(t, i) PROVE RolesHold'
  <2>1. \/ /\ Begins(t, {"touch", "welcome"}, {App}, "guest", identity, i, {})
           /\ identity # 0 /\ holds[i] = identity
        \/ /\ Begins(t, {"issue", "role", "persist", "bump", "welcome"}, {App}, "guest",
                minted + 1, i, {})
           /\ identity = 0
    BY <1>11, HelloBegins DEF RemoteTyped
  <2>2. roles' = roles /\ kept' = kept /\ crossed \subseteq crossed'
    BY <1>11, <2>1 DEF Begins, Remote!Hello, Remote!stores, Remote!history
  <2>3. \A x \in Remote!Principals : ~Writing(x, op[t]) /\ ~Writing(x, op[t])'
    BY <2>1 DEF Begins, Writing
  <2>4. \A u \in Remote!Actors \ {t} : op'[u] = op[u]
    BY <2>1 DEF Begins
  <2> QED
    BY <2>2, <2>3, <2>4 DEF Writing, Left
<1>12. ASSUME NEW t \in Threads, NEW i \in Installs, Remote!PairApp(t, i) PROVE RolesHold'
  <2>1. Begins(t, {"role", "persist", "bump"}, {App}, code, holds[i], i, {})
    BY <1>12, PairAppBegins DEF RemoteTyped
  <2>2. roles' = roles /\ kept' = kept /\ crossed \subseteq crossed'
    BY <1>12, <2>1 DEF Begins, Remote!PairApp, Remote!stores, Remote!history
  <2>3. \A x \in Remote!Principals : ~Writing(x, op[t]) /\ ~Writing(x, op[t])'
    BY <2>1 DEF Begins, Writing
  <2>4. \A u \in Remote!Actors \ {t} : op'[u] = op[u]
    BY <2>1 DEF Begins
  <2> QED
    BY <2>2, <2>3, <2>4 DEF Writing, Left
<1>13. ASSUME NEW t \in Remote!Actors, Remote!Run(t) PROVE RolesHold'
  <2> DEFINE h == Head(op[t].steps)
  <2>1. Advances(t, h) /\ Effects(t, h)
    BY <1>13, RunAdvances, RunEffects DEF RemoteTyped
  <2>2. op[t] \in OpType /\ Shaped(op[t])
    BY DEF RemoteTyped, OpsOK, OpsShaped
  <2>3. ASSUME NEW p \in Remote!Principals \ crossed', p \in op[t].who
        PROVE  /\ roles'[p] = kept'[p] \/ Writing(p, op[t])'
               /\ Writing(p, op[t])' => roles'[p] = op'[t].role
               /\ \A u \in Remote!Actors \ {t} : ~Writing(p, op[u])'
    BY <2>1, <2>2, <2>3, IdleType DEF Advances, Effects, Ordered, Writing, AloneOn, RemoteTyped,
       MapsOK
  <2>4. ASSUME NEW p \in Remote!Principals \ crossed', p \notin op[t].who
        PROVE  /\ roles'[p] = roles[p] /\ kept'[p] = kept[p]
               /\ ~Writing(p, op[t])' /\ ~Writing(p, op[t])
               /\ \A u \in Remote!Actors \ {t} : Writing(p, op[u])' <=> Writing(p, op[u])
    BY <2>1, <2>2, <2>4, IdleType DEF Advances, Effects, Ordered, Writing, RemoteTyped, MapsOK,
       Left
  <2>5. crossed \subseteq crossed' /\ \A u \in Remote!Actors \ {t} : op'[u] = op[u]
    BY <2>1 DEF Advances, Effects
  <2> QED
    BY <2>3, <2>4, <2>5
<1>14. ASSUME NEW c \in Remote!Clients, Remote!Told(c) PROVE RolesHold'
  BY <1>14 DEF Remote!Told, Remote!stores, Remote!history, Remote!Away, Writing, Left
<1>15. ASSUME NEW c \in Remote!Clients, Remote!Watch(c) PROVE RolesHold'
  BY <1>15 DEF Remote!Watch, Remote!stores, Remote!history, Remote!FirstLook, Writing, Left
<1>16. ASSUME NEW c \in Remote!Clients, Remote!Look(c) PROVE RolesHold'
  BY <1>16 DEF Remote!Look, Remote!stores, Remote!history, Writing, Left
<1>17. ASSUME NEW c \in Remote!Clients, Remote!Changed(c) PROVE RolesHold'
  BY <1>17 DEF Remote!Changed, Remote!stores, Remote!history, Writing, Left
<1>18. ASSUME NEW c \in Remote!Clients, Remote!Close(c) PROVE RolesHold'
  BY <1>18 DEF Remote!Close, Remote!stores, Remote!history, Remote!Away, Writing, Left
<1>19. CASE UNCHANGED Remote!vars
  BY <1>19 DEF Remote!vars, Remote!stores, Remote!history, Writing, Left
<1> QED
  BY <1>1, <1>2, <1>3, <1>4, <1>5, <1>6, <1>7, <1>8, <1>9, <1>10, <1>11, <1>12, <1>13, <1>14,
     <1>15, <1>16, <1>17, <1>18, <1>19 DEF Remote!Next, Remote!Delivers, Roles

\* Every step keeps the app's role with the one its record names, and its record with its holder.
LEMMA AppStep ==
    ASSUME RemoteTyped, OpsShaped, AloneOn, RolesHold, AppHolds, Welcomed,
           [Remote!Next]_(Remote!vars)
    PROVE  AppHolds'
<1> USE DEF AppHolds
<1>1. CASE Remote!NewCode
  BY <1>1 DEF Remote!NewCode, Remote!Panels, Remote!stores, Remote!history, AppOf, Left
<1>2. ASSUME NEW role \in Roles, NEW p \in Remote!Principals, Remote!Assign(p,
        role) PROVE AppHolds'
  <2>1. Begins(Panel, {"role", "persist", "bump"}, {p}, role, 0, p, {})
    BY <1>2, SetBegins DEF RemoteTyped
  <2>2. ASSUME App \notin crossed'
        PROVE  /\ roles'[App] # "guest" \/ kept'[App] # "guest" => identity' = grantee' /\ identity' # 0
               /\ \A j \in Installs : holds'[j] \in aged' \cup {0, identity'}
               /\ App \in op'[Panel].who => AppOf(op[Panel])'
    BY <1>2, <2>1, <2>2, PartyAssumption DEF Begins, Remote!Busy, Remote!Actors, Remote!Assign,
       Remote!Panels, Remote!stores, Remote!history, AppOf, RemoteTyped, MapsOK
  <2>3. ASSUME App \notin crossed', NEW u \in Remote!Actors \ {Panel},
          App \in op'[u].who PROVE AppOf(op[u])'
    <3>1. op'[u] = op[u] /\ App \notin crossed /\ App \notin op'[Panel].who
      BY <2>1, <2>3 DEF Begins, Remote!Busy
    <3>2. identity' = identity /\ grantee' = grantee
      BY <1>2, <2>1, <3>1 DEF Begins, Remote!Assign, Remote!Panels, Remote!stores, Remote!history
    <3> QED
      BY <2>3, <3>1, <3>2 DEF AppOf, Left
  <2> QED
    BY <2>2, <2>3
<1>3. ASSUME NEW b \in Browsers, Remote!Revoke(b) PROVE AppHolds'
  <2>1. Begins(Panel, {"forget", "role", "persist", "bump", "revoked"}, {b}, "guest", 0, b, {b})
    BY <1>3, RevokeBegins DEF RemoteTyped
  <2>2. ASSUME App \notin crossed'
        PROVE  /\ roles'[App] # "guest" \/ kept'[App] # "guest" => identity' = grantee' /\ identity' # 0
               /\ \A j \in Installs : holds'[j] \in aged' \cup {0, identity'}
               /\ App \in op'[Panel].who => AppOf(op[Panel])'
    BY <1>3, <2>1, <2>2, PartyAssumption DEF Begins, Remote!Busy, Remote!Actors, Remote!Revoke,
       Remote!Panels, Remote!stores, Remote!history, AppOf, RemoteTyped, MapsOK
  <2>3. ASSUME App \notin crossed', NEW u \in Remote!Actors \ {Panel},
          App \in op'[u].who PROVE AppOf(op[u])'
    <3>1. op'[u] = op[u] /\ App \notin crossed /\ App \notin op'[Panel].who
      BY <2>1, <2>3 DEF Begins, Remote!Busy
    <3>2. identity' = identity /\ grantee' = grantee
      BY <1>3, <2>1, <3>1 DEF Begins, Remote!Revoke, Remote!Panels, Remote!stores, Remote!history
    <3> QED
      BY <2>3, <3>1, <3>2 DEF AppOf, Left
  <2> QED
    BY <2>2, <2>3
<1>4. ASSUME NEW b \in Browsers, Remote!Open(b) PROVE AppHolds'
  BY <1>4 DEF Remote!Open, Remote!stores, Remote!history, AppOf, Left
<1>5. CASE Remote!RevokeAll
  <2>1. Begins(Panel, {"forget", "browsers", "role", "persist", "bump", "revoked"}, tokens,
          "guest", 0, Panel, tokens)
    BY <1>5, RevokeAllBegins DEF RemoteTyped
  <2>2. ASSUME App \notin crossed'
        PROVE  /\ roles'[App] # "guest" \/ kept'[App] # "guest" => identity' = grantee' /\ identity' # 0
               /\ \A j \in Installs : holds'[j] \in aged' \cup {0, identity'}
               /\ App \in op'[Panel].who => AppOf(op[Panel])'
    BY <1>5, <2>1, <2>2, PartyAssumption DEF Begins, Remote!Busy, Remote!Actors, Remote!RevokeAll,
       Remote!Panels, Remote!stores, Remote!history, AppOf, RemoteTyped, MapsOK
  <2>3. ASSUME App \notin crossed', NEW u \in Remote!Actors \ {Panel},
          App \in op'[u].who PROVE AppOf(op[u])'
    <3>1. op'[u] = op[u] /\ App \notin crossed /\ App \notin op'[Panel].who
      BY <2>1, <2>3 DEF Begins, Remote!Busy
    <3>2. identity' = identity /\ grantee' = grantee
      BY <1>5, <2>1, <3>1 DEF Begins, Remote!RevokeAll, Remote!Panels, Remote!stores,
         Remote!history
    <3> QED
      BY <2>3, <3>1, <3>2 DEF AppOf, Left
  <2> QED
    BY <2>2, <2>3
<1>6. CASE Remote!Switch
  <2>1. Begins(Panel, {"bump"}, {}, "guest", 0, Panel, {})
    BY <1>6, SwitchBegins DEF RemoteTyped
  <2>2. ASSUME App \notin crossed'
        PROVE  /\ roles'[App] # "guest" \/ kept'[App] # "guest" => identity' = grantee' /\ identity' # 0
               /\ \A j \in Installs : holds'[j] \in aged' \cup {0, identity'}
               /\ App \in op'[Panel].who => AppOf(op[Panel])'
    BY <1>6, <2>1, <2>2, PartyAssumption DEF Begins, Remote!Busy, Remote!Actors, Remote!Switch,
       Remote!Panels, Remote!stores, Remote!history, AppOf, RemoteTyped, MapsOK
  <2>3. ASSUME App \notin crossed', NEW u \in Remote!Actors \ {Panel},
          App \in op'[u].who PROVE AppOf(op[u])'
    <3>1. op'[u] = op[u] /\ App \notin crossed /\ App \notin op'[Panel].who
      BY <2>1, <2>3 DEF Begins, Remote!Busy
    <3>2. identity' = identity /\ grantee' = grantee
      BY <1>6, <2>1, <3>1 DEF Begins, Remote!Switch, Remote!Panels, Remote!stores, Remote!history
    <3> QED
      BY <2>3, <3>1, <3>2 DEF AppOf, Left
  <2> QED
    BY <2>2, <2>3
<1>7. CASE Remote!AgeOut
  <2>1. App \notin crossed' => ~Remote!Busy(App) /\ App \notin crossed
    BY <1>7 DEF Remote!AgeOut
  <2>2. App \notin crossed' => roles[App] = kept[App] /\ kept[App] = "guest"
    BY <1>7, <2>1 DEF Remote!AgeOut, Remote!Pinned, Remote!Busy, RolesHold, Writing,
       Remote!Principals
  <2>3. /\ op' = op /\ roles' = roles /\ kept' = kept /\ holds' = holds
        /\ aged' = aged \cup {identity} /\ identity' = 0
    BY <1>7 DEF Remote!AgeOut
  <2> QED
    BY <2>1, <2>2, <2>3 DEF Remote!Busy
<1>8. CASE Remote!Restart
  BY <1>8, IdleType DEF Remote!Restart, Remote!Idle, Remote!stores, Remote!history
<1>9. ASSUME NEW t \in Threads, NEW b \in Browsers, Remote!Redeem(t, b) PROVE AppHolds'
  <2>1. Begins(t, {"token", "keep", "role", "persist", "bump", "answer"}, {b}, code, 0, b, {})
    BY <1>9, RedeemBegins DEF RemoteTyped
  <2>2. ASSUME App \notin crossed'
        PROVE  /\ roles'[App] # "guest" \/ kept'[App] # "guest" => identity' = grantee' /\ identity' # 0
               /\ \A j \in Installs : holds'[j] \in aged' \cup {0, identity'}
               /\ App \in op'[t].who => AppOf(op[t])'
    BY <1>9, <2>1, <2>2, PartyAssumption DEF Begins, Remote!Busy, Remote!Actors, Remote!Redeem,
       Remote!stores, Remote!history, AppOf, RemoteTyped, MapsOK
  <2>3. ASSUME App \notin crossed', NEW u \in Remote!Actors \ {t},
          App \in op'[u].who PROVE AppOf(op[u])'
    <3>1. op'[u] = op[u] /\ App \notin crossed /\ App \notin op'[t].who
      BY <2>1, <2>3 DEF Begins, Remote!Busy
    <3>2. identity' = identity /\ grantee' = grantee
      BY <1>9, <2>1, <3>1 DEF Begins, Remote!Redeem, Remote!stores, Remote!history
    <3> QED
      BY <2>3, <3>1, <3>2 DEF AppOf, Left
  <2> QED
    BY <2>2, <2>3
<1>10. ASSUME NEW t \in Threads, NEW b \in Browsers, Remote!Touch(t, b) PROVE AppHolds'
  <2>1. Begins(t, {"keep"}, {b}, "guest", 0, b, {})
    BY <1>10, TouchBegins DEF RemoteTyped
  <2>2. ASSUME App \notin crossed'
        PROVE  /\ roles'[App] # "guest" \/ kept'[App] # "guest" => identity' = grantee' /\ identity' # 0
               /\ \A j \in Installs : holds'[j] \in aged' \cup {0, identity'}
               /\ App \in op'[t].who => AppOf(op[t])'
    BY <1>10, <2>1, <2>2, PartyAssumption DEF Begins, Remote!Busy, Remote!Actors, Remote!Touch,
       Remote!stores, Remote!history, AppOf, RemoteTyped, MapsOK
  <2>3. ASSUME App \notin crossed', NEW u \in Remote!Actors \ {t},
          App \in op'[u].who PROVE AppOf(op[u])'
    <3>1. op'[u] = op[u] /\ App \notin crossed /\ App \notin op'[t].who
      BY <2>1, <2>3 DEF Begins, Remote!Busy
    <3>2. identity' = identity /\ grantee' = grantee
      BY <1>10, <2>1, <3>1 DEF Begins, Remote!Touch, Remote!stores, Remote!history
    <3> QED
      BY <2>3, <3>1, <3>2 DEF AppOf, Left
  <2> QED
    BY <2>2, <2>3
<1>11. ASSUME NEW t \in Threads, NEW i \in Installs, Remote!Hello(t, i) PROVE AppHolds'
  <2>1. \/ /\ Begins(t, {"touch", "welcome"}, {App}, "guest", identity, i, {})
           /\ identity # 0 /\ holds[i] = identity
        \/ /\ Begins(t, {"issue", "role", "persist", "bump", "welcome"}, {App}, "guest",
                minted + 1, i, {})
           /\ identity = 0
    BY <1>11, HelloBegins DEF RemoteTyped
  <2>2. ASSUME App \notin crossed'
        PROVE  /\ roles'[App] # "guest" \/ kept'[App] # "guest" => identity' = grantee' /\ identity' # 0
               /\ \A j \in Installs : holds'[j] \in aged' \cup {0, identity'}
               /\ App \in op'[t].who => AppOf(op[t])'
    BY <1>11, <2>1, <2>2, PartyAssumption DEF Begins, Remote!Busy, Remote!Actors, Remote!Hello,
       Remote!stores, Remote!history, AppOf, RemoteTyped, MapsOK
  <2>3. ASSUME App \notin crossed', NEW u \in Remote!Actors \ {t},
          App \in op'[u].who PROVE AppOf(op[u])'
    <3>1. op'[u] = op[u] /\ App \notin crossed /\ App \notin op'[t].who
      BY <2>1, <2>3 DEF Begins, Remote!Busy
    <3>2. identity' = identity /\ grantee' = grantee
      BY <1>11, <2>1, <3>1 DEF Begins, Remote!Hello, Remote!stores, Remote!history
    <3> QED
      BY <2>3, <3>1, <3>2 DEF AppOf, Left
  <2> QED
    BY <2>2, <2>3
<1>12. ASSUME NEW t \in Threads, NEW i \in Installs, Remote!PairApp(t, i) PROVE AppHolds'
  <2>1. Begins(t, {"role", "persist", "bump"}, {App}, code, holds[i], i, {})
    BY <1>12, PairAppBegins DEF RemoteTyped
  <2>2. ASSUME App \notin crossed'
        PROVE  /\ roles'[App] # "guest" \/ kept'[App] # "guest" => identity' = grantee' /\ identity' # 0
               /\ \A j \in Installs : holds'[j] \in aged' \cup {0, identity'}
               /\ App \in op'[t].who => AppOf(op[t])'
    BY <1>12, <2>1, <2>2, PartyAssumption DEF Begins, Remote!Busy, Remote!Actors, Remote!PairApp,
       Remote!stores, Remote!history, AppOf, RemoteTyped, MapsOK, Welcomed
  <2>3. ASSUME App \notin crossed', NEW u \in Remote!Actors \ {t},
          App \in op'[u].who PROVE AppOf(op[u])'
    <3>1. op'[u] = op[u] /\ App \notin crossed /\ App \notin op'[t].who
      BY <2>1, <2>3 DEF Begins, Remote!Busy
    <3>2. identity' = identity /\ grantee' = grantee
      BY <1>12, <2>1, <3>1 DEF Begins, Remote!PairApp, Remote!stores, Remote!history
    <3> QED
      BY <2>3, <3>1, <3>2 DEF AppOf, Left
  <2> QED
    BY <2>2, <2>3
<1>13. ASSUME NEW t \in Remote!Actors, Remote!Run(t) PROVE AppHolds'
  <2> DEFINE h == Head(op[t].steps)
  <2>1. Advances(t, h) /\ Effects(t, h)
    BY <1>13, RunAdvances, RunEffects DEF RemoteTyped
  <2>2. op[t] \in OpType /\ Shaped(op[t])
    BY DEF RemoteTyped, OpsOK, OpsShaped
  <2>3. SUFFICES ASSUME App \notin crossed'
                PROVE  /\ roles'[App] # "guest" \/ kept'[App] # "guest"
                        => identity' = grantee' /\ identity' # 0
                       /\ \A i \in Installs : holds'[i] \in aged' \cup {0, identity'}
                       /\ \A u \in Remote!Actors : App \in op'[u].who => AppOf(op[u])'
    OBVIOUS
  <2>4. App \notin crossed
    BY <2>1, <2>3 DEF Effects
  <2>5. CASE App \in op[t].who
    <3>1. AppOf(op[t]) /\ \A u \in Remote!Actors \ {t} : App \notin op[u].who
      BY <2>4, <2>5 DEF AloneOn, Remote!Principals
    <3>2. grantee' = grantee /\ aged' = aged
      BY <2>1 DEF Effects
    <3>3. /\ h = "issue" => identity = 0 /\ identity' = op[t].token
          /\ h # "issue" => identity' = identity
      BY <2>1, <2>2, <3>1 DEF Advances, Effects, Ordered, AppOf
    <3>4. roles'[App] # "guest" \/ kept'[App] # "guest" => identity = grantee /\ identity # 0
      BY <2>1, <2>2, <2>4, <3>1 DEF Effects, Shaped, AppOf, RemoteTyped, MapsOK,
         Remote!Principals, Advances, Ordered
    <3>5. \A i \in Installs : holds'[i] \in aged' \cup {0, identity'}
      BY <2>1, <2>2, <2>4, <3>1, <3>2, <3>3 DEF Advances, Effects, Ordered, AppOf, RemoteTyped,
         MapsOK
    <3>6. App \in op'[t].who => AppOf(op[t])'
      <4>1. CASE op'[t] = Remote!Idle
        BY <4>1, IdleType
      <4>2. CASE op'[t] # Remote!Idle
        <5>1. /\ Left(op'[t]) = Left(op[t]) \ {h} /\ op'[t].token = op[t].token
              /\ h # "welcome" /\ (h = "issue" => "welcome" \in Left(op[t]))
          BY <2>1, <4>2 DEF Advances, Ordered
        <5> HIDE DEF h
        <5>2. CASE h = "issue"
          BY <3>1, <3>3, <5>1, <5>2 DEF AppOf
        <5>3. CASE h # "issue"
          <6>1. identity' = identity
            BY <3>3, <5>3
          <6>2. /\ "welcome" \in Left(op'[t]) <=> "welcome" \in Left(op[t])
                /\ "issue" \in Left(op'[t]) <=> "issue" \in Left(op[t])
            BY <5>1, <5>3
          <6> QED
            BY <3>1, <3>2, <5>1, <6>1, <6>2 DEF AppOf
        <5> QED
          BY <5>2, <5>3
      <4> QED
        BY <4>1, <4>2
    <3>7. \A u \in Remote!Actors \ {t} : App \notin op'[u].who
      BY <2>1, <3>1 DEF Advances
    <3> QED
      BY <3>2, <3>3, <3>4, <3>5, <3>6, <3>7
  <2>6. CASE App \notin op[t].who
    <3>1. h \notin {"touch", "issue", "welcome"}
      BY <2>1, <2>2, <2>6 DEF Advances, Shaped, Ordered
    <3>2. /\ identity' = identity /\ grantee' = grantee /\ aged' = aged /\ holds' = holds
          /\ roles'[App] = roles[App] /\ kept'[App] = kept[App]
      BY <2>1, <2>6, <3>1 DEF Effects, RemoteTyped, MapsOK, Remote!Principals
    <3>3. App \notin op'[t].who
      BY <2>1, <2>6, IdleType, PartyAssumption DEF Advances
    <3>4. ASSUME NEW u \in Remote!Actors \ {t}, App \in op'[u].who PROVE AppOf(op[u])'
      <4>1. op'[u] = op[u]
        BY <2>1 DEF Advances
      <4> QED
        BY <2>4, <3>2, <3>4, <4>1 DEF AppOf, Left
    <3> QED
      BY <2>4, <3>2, <3>3, <3>4
  <2> QED
    BY <2>5, <2>6
<1>14. ASSUME NEW c \in Remote!Clients, Remote!Told(c) PROVE AppHolds'
  BY <1>14 DEF Remote!Told, Remote!stores, Remote!history, Remote!Away, AppOf, Left
<1>15. ASSUME NEW c \in Remote!Clients, Remote!Watch(c) PROVE AppHolds'
  BY <1>15 DEF Remote!Watch, Remote!stores, Remote!history, Remote!FirstLook, AppOf, Left
<1>16. ASSUME NEW c \in Remote!Clients, Remote!Look(c) PROVE AppHolds'
  BY <1>16 DEF Remote!Look, Remote!stores, Remote!history, AppOf, Left
<1>17. ASSUME NEW c \in Remote!Clients, Remote!Changed(c) PROVE AppHolds'
  BY <1>17 DEF Remote!Changed, Remote!stores, Remote!history, AppOf, Left
<1>18. ASSUME NEW c \in Remote!Clients, Remote!Close(c) PROVE AppHolds'
  BY <1>18 DEF Remote!Close, Remote!stores, Remote!history, Remote!Away, AppOf, Left
<1>19. CASE UNCHANGED Remote!vars
  BY <1>19 DEF Remote!vars, Remote!stores, Remote!history, AppOf, Left
<1> QED
  BY <1>1, <1>2, <1>3, <1>4, <1>5, <1>6, <1>7, <1>8, <1>9, <1>10, <1>11, <1>12, <1>13, <1>14,
     <1>15, <1>16, <1>17, <1>18, <1>19 DEF Remote!Next, Remote!Delivers, Roles

\* A thread with no program is about to wake nobody.
LEMMA IdleLeft == Remote!Range(<<>>) = {}
  BY DEF Remote!Range

\* Every step wakes the clients whose permissions it changes, or leaves that to do.
LEMMA ToldStep ==
    ASSUME RemoteTyped, OpsShaped, ToldOrWoken, [Remote!Next]_(Remote!vars)
    PROVE  ToldOrWoken'
<1> USE DEF ToldOrWoken, Remote!ToldOrWoken
<1>1. CASE Remote!NewCode
  <2>1. op' = op /\ roles' = roles /\ enabled' = enabled
    BY <1>1 DEF Remote!NewCode, Remote!Panels, Remote!stores, Remote!history
  <2>2. \A d \in Remote!Clients : client'[d].at = "wait" =>
           \/ client'[d].told = Remote!Permissions(d)
           \/ /\ client[d].at = "wait" /\ client'[d].told = client[d].told
              /\ client'[d].notified = client[d].notified
    BY <1>1 DEF Remote!NewCode, Remote!Panels, Remote!stores, Remote!history, RemoteTyped,
       ClientsOK, ClientType
  <2> QED
    BY <2>1, <2>2 DEF Remote!Permissions
<1>2. ASSUME NEW role \in Roles, NEW p \in Remote!Principals, Remote!Assign(p,
        role) PROVE ToldOrWoken'
  <2>1. Begins(Panel, {"role", "persist", "bump"}, {p}, role, 0, p, {})
    BY <1>2, SetBegins DEF RemoteTyped
  <2>2. op'[Panel].steps # <<>> /\ op[Panel].steps = <<>> /\ \A u \in Remote!Actors \ {Panel}
          : op'[u] = op[u]
    BY <2>1 DEF Begins
  <2>3. \A u \in Remote!Actors : "bump" \in Left(op[u]) => "bump" \in Left(op'[u])
    BY <2>2, IdleLeft DEF Left
  <2>4. \A c \in Remote!Clients : client'[c].at = "wait" =>
           client[c].at = "wait" /\ client'[c].told = client[c].told
                   /\ client'[c].notified = client[c].notified
    BY <1>2 DEF Remote!Assign, Remote!Panels, Remote!stores, Remote!history, RemoteTyped,
       ClientsOK, ClientType
  <2>5. roles' = roles /\ enabled' = enabled
    BY <1>2 DEF Remote!Assign, Remote!Panels, Remote!stores, Remote!history
  <2> QED
    BY <2>3, <2>4, <2>5 DEF Remote!Permissions, Left, Remote!Actors
<1>3. ASSUME NEW b \in Browsers, Remote!Revoke(b) PROVE ToldOrWoken'
  <2>1. Begins(Panel, {"forget", "role", "persist", "bump", "revoked"}, {b}, "guest", 0, b, {b})
    BY <1>3, RevokeBegins DEF RemoteTyped
  <2>2. op'[Panel].steps # <<>> /\ op[Panel].steps = <<>> /\ \A u \in Remote!Actors \ {Panel}
          : op'[u] = op[u]
    BY <2>1 DEF Begins
  <2>3. \A u \in Remote!Actors : "bump" \in Left(op[u]) => "bump" \in Left(op'[u])
    BY <2>2, IdleLeft DEF Left
  <2>4. \A c \in Remote!Clients : client'[c].at = "wait" =>
           client[c].at = "wait" /\ client'[c].told = client[c].told
                   /\ client'[c].notified = client[c].notified
    BY <1>3 DEF Remote!Revoke, Remote!Panels, Remote!stores, Remote!history, RemoteTyped,
       ClientsOK, ClientType
  <2>5. roles' = roles /\ enabled' = enabled
    BY <1>3 DEF Remote!Revoke, Remote!Panels, Remote!stores, Remote!history
  <2> QED
    BY <2>3, <2>4, <2>5 DEF Remote!Permissions, Left, Remote!Actors
<1>4. ASSUME NEW b \in Browsers, Remote!Open(b) PROVE ToldOrWoken'
  <2>1. op' = op /\ roles' = roles /\ enabled' = enabled
    BY <1>4 DEF Remote!Open, Remote!stores, Remote!history
  <2>2. \A d \in Remote!Clients : client'[d].at = "wait" =>
           \/ client'[d].told = Remote!Permissions(d)
           \/ /\ client[d].at = "wait" /\ client'[d].told = client[d].told
              /\ client'[d].notified = client[d].notified
    BY <1>4 DEF Remote!Open, Remote!stores, Remote!history, RemoteTyped, ClientsOK, ClientType
  <2> QED
    BY <2>1, <2>2 DEF Remote!Permissions
<1>5. CASE Remote!RevokeAll
  <2>1. Begins(Panel, {"forget", "browsers", "role", "persist", "bump", "revoked"}, tokens,
          "guest", 0, Panel, tokens)
    BY <1>5, RevokeAllBegins DEF RemoteTyped
  <2>2. op'[Panel].steps # <<>> /\ op[Panel].steps = <<>> /\ \A u \in Remote!Actors \ {Panel}
          : op'[u] = op[u]
    BY <2>1 DEF Begins
  <2>3. \A u \in Remote!Actors : "bump" \in Left(op[u]) => "bump" \in Left(op'[u])
    BY <2>2, IdleLeft DEF Left
  <2>4. \A c \in Remote!Clients : client'[c].at = "wait" =>
           client[c].at = "wait" /\ client'[c].told = client[c].told
                   /\ client'[c].notified = client[c].notified
    BY <1>5 DEF Remote!RevokeAll, Remote!Panels, Remote!stores, Remote!history, RemoteTyped,
       ClientsOK, ClientType
  <2>5. roles' = roles /\ enabled' = enabled
    BY <1>5 DEF Remote!RevokeAll, Remote!Panels, Remote!stores, Remote!history
  <2> QED
    BY <2>3, <2>4, <2>5 DEF Remote!Permissions, Left, Remote!Actors
<1>6. CASE Remote!Switch
  <2>1. Begins(Panel, {"bump"}, {}, "guest", 0, Panel, {})
    BY <1>6, SwitchBegins DEF RemoteTyped
  <2>2. "bump" \in Remote!Range(op'[Panel].steps)
    BY <2>1 DEF Begins, Left
  <2> QED
    BY <2>2 DEF Remote!Actors
<1>7. CASE Remote!AgeOut
  <2>1. op' = op /\ roles' = roles /\ enabled' = enabled
    BY <1>7 DEF Remote!AgeOut, Remote!Pinned, Remote!stores, Remote!history
  <2>2. \A d \in Remote!Clients : client'[d].at = "wait" =>
           \/ client'[d].told = Remote!Permissions(d)
           \/ /\ client[d].at = "wait" /\ client'[d].told = client[d].told
              /\ client'[d].notified = client[d].notified
    BY <1>7 DEF Remote!AgeOut, Remote!Pinned, Remote!stores, Remote!history, RemoteTyped,
       ClientsOK, ClientType
  <2> QED
    BY <2>1, <2>2 DEF Remote!Permissions
<1>8. CASE Remote!Restart
  BY <1>8 DEF Remote!Restart, Remote!Away, Remote!stores, Remote!history
<1>9. ASSUME NEW t \in Threads, NEW b \in Browsers, Remote!Redeem(t, b) PROVE ToldOrWoken'
  <2>1. Begins(t, {"token", "keep", "role", "persist", "bump", "answer"}, {b}, code, 0, b, {})
    BY <1>9, RedeemBegins DEF RemoteTyped
  <2>2. op'[t].steps # <<>> /\ op[t].steps = <<>> /\ \A u \in Remote!Actors \ {t} : op'[u] = op[u]
    BY <2>1 DEF Begins
  <2>3. \A u \in Remote!Actors : "bump" \in Left(op[u]) => "bump" \in Left(op'[u])
    BY <2>2, IdleLeft DEF Left
  <2>4. \A c \in Remote!Clients : client'[c].at = "wait" =>
           client[c].at = "wait" /\ client'[c].told = client[c].told
                   /\ client'[c].notified = client[c].notified
    BY <1>9 DEF Remote!Redeem, Remote!stores, Remote!history, RemoteTyped, ClientsOK, ClientType
  <2>5. roles' = roles /\ enabled' = enabled
    BY <1>9 DEF Remote!Redeem, Remote!stores, Remote!history
  <2> QED
    BY <2>3, <2>4, <2>5 DEF Remote!Permissions, Left, Remote!Actors
<1>10. ASSUME NEW t \in Threads, NEW b \in Browsers, Remote!Touch(t, b) PROVE ToldOrWoken'
  <2>1. Begins(t, {"keep"}, {b}, "guest", 0, b, {})
    BY <1>10, TouchBegins DEF RemoteTyped
  <2>2. op'[t].steps # <<>> /\ op[t].steps = <<>> /\ \A u \in Remote!Actors \ {t} : op'[u] = op[u]
    BY <2>1 DEF Begins
  <2>3. \A u \in Remote!Actors : "bump" \in Left(op[u]) => "bump" \in Left(op'[u])
    BY <2>2, IdleLeft DEF Left
  <2>4. \A c \in Remote!Clients : client'[c].at = "wait" =>
           client[c].at = "wait" /\ client'[c].told = client[c].told
                   /\ client'[c].notified = client[c].notified
    BY <1>10 DEF Remote!Touch, Remote!stores, Remote!history, RemoteTyped, ClientsOK, ClientType
  <2>5. roles' = roles /\ enabled' = enabled
    BY <1>10 DEF Remote!Touch, Remote!stores, Remote!history
  <2> QED
    BY <2>3, <2>4, <2>5 DEF Remote!Permissions, Left, Remote!Actors
<1>11. ASSUME NEW t \in Threads, NEW i \in Installs, Remote!Hello(t, i) PROVE ToldOrWoken'
  <2>1. \/ /\ Begins(t, {"touch", "welcome"}, {App}, "guest", identity, i, {})
           /\ identity # 0 /\ holds[i] = identity
        \/ /\ Begins(t, {"issue", "role", "persist", "bump", "welcome"}, {App}, "guest",
                minted + 1, i, {})
           /\ identity = 0
    BY <1>11, HelloBegins DEF RemoteTyped
  <2>2. op'[t].steps # <<>> /\ op[t].steps = <<>> /\ \A u \in Remote!Actors \ {t} : op'[u] = op[u]
    BY <2>1 DEF Begins
  <2>3. \A u \in Remote!Actors : "bump" \in Left(op[u]) => "bump" \in Left(op'[u])
    BY <2>2, IdleLeft DEF Left
  <2>4. \A c \in Remote!Clients : client'[c].at = "wait" =>
           client[c].at = "wait" /\ client'[c].told = client[c].told
                   /\ client'[c].notified = client[c].notified
    BY <1>11 DEF Remote!Hello, Remote!stores, Remote!history, RemoteTyped, ClientsOK, ClientType
  <2>5. roles' = roles /\ enabled' = enabled
    BY <1>11 DEF Remote!Hello, Remote!stores, Remote!history
  <2> QED
    BY <2>3, <2>4, <2>5 DEF Remote!Permissions, Left, Remote!Actors
<1>12. ASSUME NEW t \in Threads, NEW i \in Installs, Remote!PairApp(t, i) PROVE ToldOrWoken'
  <2>1. Begins(t, {"role", "persist", "bump"}, {App}, code, holds[i], i, {})
    BY <1>12, PairAppBegins DEF RemoteTyped
  <2>2. op'[t].steps # <<>> /\ op[t].steps = <<>> /\ \A u \in Remote!Actors \ {t} : op'[u] = op[u]
    BY <2>1 DEF Begins
  <2>3. \A u \in Remote!Actors : "bump" \in Left(op[u]) => "bump" \in Left(op'[u])
    BY <2>2, IdleLeft DEF Left
  <2>4. \A c \in Remote!Clients : client'[c].at = "wait" =>
           client[c].at = "wait" /\ client'[c].told = client[c].told
                   /\ client'[c].notified = client[c].notified
    BY <1>12 DEF Remote!PairApp, Remote!stores, Remote!history, RemoteTyped, ClientsOK, ClientType
  <2>5. roles' = roles /\ enabled' = enabled
    BY <1>12 DEF Remote!PairApp, Remote!stores, Remote!history
  <2> QED
    BY <2>3, <2>4, <2>5 DEF Remote!Permissions, Left, Remote!Actors
<1>13. ASSUME NEW t \in Remote!Actors, Remote!Run(t) PROVE ToldOrWoken'
  <2> DEFINE h == Head(op[t].steps)
  <2>1. Advances(t, h) /\ Effects(t, h)
    BY <1>13, RunAdvances, RunEffects DEF RemoteTyped
  <2>2. op[t] \in OpType /\ Shaped(op[t])
    BY DEF RemoteTyped, OpsOK, OpsShaped
  <2>3. CASE h = "bump"
    <3>1. \A c \in Remote!Clients : client'[c].at \in {"look", "wait"} => client'[c].notified
      BY <1>13, <2>3, RunClients
    <3> QED
      BY <3>1
  <2>4. CASE h # "bump"
    <3>1. \A c \in Remote!Clients : client'[c].at = "wait" => client'[c] = client[c]
      BY <1>13, <2>4, RunClients
    <3>2. \A u \in Remote!Actors : "bump" \in Remote!Range(op[u].steps)
            => "bump" \in Remote!Range(op'[u].steps)
      BY <2>1, <2>4 DEF Advances, Left
    <3>3. CASE h = "role"
      <4>1. "bump" \in Remote!Range(op'[t].steps)
        BY <2>1, <3>3 DEF Advances, Ordered, Left
      <4> QED
        BY <4>1
    <3>4. CASE h # "role"
      <4>1. roles' = roles /\ enabled' = enabled
        BY <2>1, <3>4 DEF Effects
      <4> QED
        BY <3>1, <3>2, <4>1 DEF Remote!Permissions
    <3> QED
      BY <3>3, <3>4
  <2> QED
    BY <2>3, <2>4
<1>14. ASSUME NEW c \in Remote!Clients, Remote!Told(c) PROVE ToldOrWoken'
  <2>1. op' = op /\ roles' = roles /\ enabled' = enabled
    BY <1>14 DEF Remote!Told, Remote!stores, Remote!history, Remote!Away
  <2>2. \A d \in Remote!Clients : client'[d].at = "wait" =>
           \/ client'[d].told = Remote!Permissions(d)
           \/ /\ client[d].at = "wait" /\ client'[d].told = client[d].told
              /\ client'[d].notified = client[d].notified
    BY <1>14 DEF Remote!Told, Remote!stores, Remote!history, Remote!Away, RemoteTyped, ClientsOK,
       ClientType
  <2> QED
    BY <2>1, <2>2 DEF Remote!Permissions
<1>15. ASSUME NEW c \in Remote!Clients, Remote!Watch(c) PROVE ToldOrWoken'
  <2>1. op' = op /\ roles' = roles /\ enabled' = enabled
    BY <1>15 DEF Remote!Watch, Remote!stores, Remote!history, Remote!FirstLook
  <2>2. \A d \in Remote!Clients : client'[d].at = "wait" =>
           \/ client'[d].told = Remote!Permissions(d)
           \/ /\ client[d].at = "wait" /\ client'[d].told = client[d].told
              /\ client'[d].notified = client[d].notified
    BY <1>15 DEF Remote!Watch, Remote!stores, Remote!history, Remote!FirstLook, RemoteTyped,
       ClientsOK, ClientType
  <2> QED
    BY <2>1, <2>2 DEF Remote!Permissions
<1>16. ASSUME NEW c \in Remote!Clients, Remote!Look(c) PROVE ToldOrWoken'
  <2>1. op' = op /\ roles' = roles /\ enabled' = enabled
    BY <1>16 DEF Remote!Look, Remote!stores, Remote!history
  <2>2. \A d \in Remote!Clients : client'[d].at = "wait" =>
           \/ client'[d].told = Remote!Permissions(d)
           \/ /\ client[d].at = "wait" /\ client'[d].told = client[d].told
              /\ client'[d].notified = client[d].notified
    BY <1>16 DEF Remote!Look, Remote!stores, Remote!history, RemoteTyped, ClientsOK, ClientType
  <2> QED
    BY <2>1, <2>2 DEF Remote!Permissions
<1>17. ASSUME NEW c \in Remote!Clients, Remote!Changed(c) PROVE ToldOrWoken'
  <2>1. op' = op /\ roles' = roles /\ enabled' = enabled
    BY <1>17 DEF Remote!Changed, Remote!stores, Remote!history
  <2>2. \A d \in Remote!Clients : client'[d].at = "wait" =>
           \/ client'[d].told = Remote!Permissions(d)
           \/ /\ client[d].at = "wait" /\ client'[d].told = client[d].told
              /\ client'[d].notified = client[d].notified
    BY <1>17 DEF Remote!Changed, Remote!stores, Remote!history, RemoteTyped, ClientsOK, ClientType
  <2> QED
    BY <2>1, <2>2 DEF Remote!Permissions
<1>18. ASSUME NEW c \in Remote!Clients, Remote!Close(c) PROVE ToldOrWoken'
  <2>1. op' = op /\ roles' = roles /\ enabled' = enabled
    BY <1>18 DEF Remote!Close, Remote!stores, Remote!history, Remote!Away
  <2>2. \A d \in Remote!Clients : client'[d].at = "wait" =>
           \/ client'[d].told = Remote!Permissions(d)
           \/ /\ client[d].at = "wait" /\ client'[d].told = client[d].told
              /\ client'[d].notified = client[d].notified
    BY <1>18 DEF Remote!Close, Remote!stores, Remote!history, Remote!Away, RemoteTyped, ClientsOK,
       ClientType
  <2> QED
    BY <2>1, <2>2 DEF Remote!Permissions
<1>19. CASE UNCHANGED Remote!vars
  <2>1. op' = op /\ roles' = roles /\ enabled' = enabled
    BY <1>19 DEF Remote!vars, Remote!stores, Remote!history
  <2>2. \A d \in Remote!Clients : client'[d].at = "wait" =>
           \/ client'[d].told = Remote!Permissions(d)
           \/ /\ client[d].at = "wait" /\ client'[d].told = client[d].told
              /\ client'[d].notified = client[d].notified
    BY <1>19 DEF Remote!vars, Remote!stores, Remote!history, RemoteTyped, ClientsOK, ClientType
  <2> QED
    BY <2>1, <2>2 DEF Remote!Permissions
<1> QED
  BY <1>1, <1>2, <1>3, <1>4, <1>5, <1>6, <1>7, <1>8, <1>9, <1>10, <1>11, <1>12, <1>13, <1>14,
     <1>15, <1>16, <1>17, <1>18, <1>19 DEF Remote!Next, Remote!Delivers, Roles

\* A new installation: nobody is paired, no app known, nothing under way.
LEMMA RemoteInit == Remote!Init => RemoteIInv
<1> SUFFICES ASSUME Remote!Init PROVE RemoteIInv
  OBVIOUS
<1>1. RemoteTyped
  BY IdleType DEF Remote!Init, RemoteTyped, MapsOK, OpsOK, ClientsOK, ClientType, Remote!Away,
     Roles, Remote!NoCode, Remote!Principals
<1>2. \A t \in Remote!Actors : op[t] = Remote!Idle
  BY DEF Remote!Init
<1>3. OpsShaped /\ AloneOn /\ RolesHold
  BY <1>2, IdleType DEF OpsShaped, Shaped, AloneOn, RolesHold, Writing, Remote!Init
<1>4. PairingHolds /\ AppHolds /\ Welcomed /\ ToldOrWoken
  BY <1>2, IdleType DEF PairingHolds, Remote!PairingLasts, AppHolds, Welcomed, ToldOrWoken,
     Remote!ToldOrWoken, Remote!Init, Remote!Principals, Remote!Clients, Remote!Away
<1> QED
  BY <1>1, <1>3, <1>4 DEF RemoteIInv

\* Every step keeps the invariant.
LEMMA RemoteStep == RemoteIInv /\ [Remote!Next]_(Remote!vars) => RemoteIInv'
<1> SUFFICES ASSUME RemoteIInv, [Remote!Next]_(Remote!vars) PROVE RemoteIInv'
  OBVIOUS
<1>1. RemoteTyped'
  BY MapsStep, OpsStep, ClientsStep DEF RemoteIInv, RemoteTyped
<1>2. OpsShaped' /\ AloneOn' /\ PairingHolds'
  BY ShapedStep, AloneOnStep, PairingStep DEF RemoteIInv
<1>3. RolesHold' /\ AppHolds' /\ Welcomed' /\ ToldOrWoken'
  BY RolesStep, AppStep, WelcomedStep, ToldStep DEF RemoteIInv
<1> QED
  BY <1>1, <1>2, <1>3 DEF RemoteIInv

\* What every operation has done to the two maps and the two tables, by the steps it has left
\* (web/auth.rs, server/clients.rs, permissions/roles.rs), for any browsers, installations and
\* requests.
THEOREM RemoteInvariant == Remote!Spec => []RemoteIInv
  BY RemoteInit, RemoteStep, PTL DEF Remote!Spec

\* permissions/roles.rs, web/auth.rs, server/clients.rs, over any browsers, installations
\* and requests: who is let in and what they may do outlast every restart.
THEOREM RightsLastCorrect == Remote!Spec => []RightsLast
<1>1. RemoteIInv => RightsLast
  <2> SUFFICES ASSUME RemoteIInv PROVE RightsLast
    OBVIOUS
  <2>1. Remote!PairingLasts
    BY DEF RemoteIInv, PairingHolds
  <2>2. Remote!RolesKept
    BY DEF RemoteIInv, RolesHold, Remote!RolesKept, Remote!Busy, Writing
  <2>3. Remote!RoleOfGrantee
    BY DEF RemoteIInv, AppHolds, Remote!RoleOfGrantee
  <2> QED
    BY <2>1, <2>2, <2>3 DEF RightsLast, Remote!RightsLast, Remote!RolesLast
<1> QED
  BY <1>1, RemoteInvariant, PTL

\* server/clients.rs: the installation a token was issued to is known by it, and no other one
\* is let in under its id.
THEOREM HolderCorrect == Remote!Spec => []HolderKnown
<1>1. RemoteIInv => HolderKnown
  BY DEF RemoteIInv, AppHolds, HolderKnown, Remote!HolderKnown
<1> QED
  BY <1>1, RemoteInvariant, PTL

\* permissions/gate.rs, watch: no client waits on permissions that are not its own any more,
\* unless its wake is on the way.
THEOREM ToldCorrect == Remote!Spec => []ToldOrWoken
<1>1. RemoteIInv => ToldOrWoken
  BY DEF RemoteIInv
<1> QED
  BY <1>1, RemoteInvariant, PTL

-----------------------------------------------------------------------------
(* A playlist and its edits, Playlists. *)

\* What is on the socket, as far as it matters: calls, each with an answer or None.
Calls(s) == \E C, R : s \in Seq([call : C, answer : R])
WithAnswer(s, u, a) == [s EXCEPT ![u].answer = a]

\* The first that has no answer.
First(s) == Listed!SelectInSeq(s, LAMBDA w : w.answer = None)

\* An edit of slots that is not stitched names tracks of the version it carries.
Meant(c) ==
    Listed!SlotEdit(c) /\ ~c.stitched =>
        /\ c.version[c.from + 1] = c.shown.track
        /\ c.version[c.to + 1] = c.target.track

\* What is checked is the first edit without an answer, against its version.
Checked ==
    work # None => /\ Listed!Unserved # 0 /\ Listed!Asked.op # "read"
                   /\ Listed!SlotEdit(Listed!Asked) => work.files = Listed!Asked.version

ListIInv ==
    /\ Calls(wire)
    /\ \A i \in 1 .. Len(wire) : Meant(wire[i].call)
    /\ Checked
    /\ AcceptedUnlessStitched

\* A set of numbers has a least one.
LEMMA LeastOf ==
    ASSUME NEW T, T \subseteq Nat, T # {}
    PROVE  Listed!Min(T) \in T /\ \A y \in T : Listed!Min(T) <= y
<1>1. OpToRel(<, Nat) = {ss \in Nat \X Nat : ss[1] < ss[2]}
  BY DEF OpToRel
<1> DEFINE R == {ss \in Nat \X Nat : ss[1] < ss[2]}
<1>2. IsWellFoundedOn(R, Nat)
  BY <1>1, NatLessThanWellFounded
<1> HIDE DEF R
<1>3. PICK x \in T : \A y \in T : ~(<<y, x>> \in R)
  BY <1>2, WFMin
<1>4. \A y \in T : x <= y
  <2>1. TAKE y \in T
  <2>2. x \in Nat /\ y \in Nat /\ <<y, x>> \notin R
    BY <1>3
  <2>3. <<y, x>> \in R <=> y < x
    BY <2>2 DEF R
  <2> QED
    BY <2>2, <2>3
<1> QED
  BY <1>4 DEF Listed!Min

\* The first without an answer.
LEMMA FirstIs ==
    ASSUME NEW s, Len(s) \in Nat
    PROVE  \/ First(s) = 0 /\ \A i \in 1 .. Len(s) : s[i].answer # None
           \/ /\ First(s) \in 1 .. Len(s) /\ s[First(s)].answer = None
              /\ \A i \in 1 .. Len(s) : s[i].answer = None => First(s) <= i
<1> DEFINE I == {i \in 1 .. Len(s) : s[i].answer = None}
<1>1. First(s) = IF I # {} THEN Listed!Min(I) ELSE 0
  BY DEF First, Listed!SelectInSeq
<1>2. I \subseteq Nat
  OBVIOUS
<1>3. CASE I # {}
  <2>1. First(s) = Listed!Min(I)
    BY <1>1, <1>3
  <2>2. First(s) \in I /\ \A y \in I : First(s) <= y
    BY <1>2, <1>3, <2>1, LeastOf
  <2> QED
    BY <2>2
<1>4. CASE I = {}
  <2>1. First(s) = 0
    BY <1>1, <1>4
  <2> QED
    BY <1>4, <2>1
<1> QED
  BY <1>3, <1>4

\* Before and after a step.
LEMMA UnservedIsFirst == Listed!Unserved = First(wire) /\ Listed!Unserved' = First(wire')
  BY DEF Listed!Unserved, First, Listed!SelectInSeq

\* It stays the first while others are added behind it and taken from before it.
LEMMA StaysFirst ==
    ASSUME NEW s, NEW t, Len(s) \in Nat, Len(t) \in Nat, First(s) # 0, NEW k \in Nat,
           First(s) > k, First(s) - k <= Len(t),
           \A i \in 1 .. First(s) - k : t[i] = s[i + k]
    PROVE  First(t) = First(s) - k /\ t[First(t)] = s[First(s)]
<1>1. /\ First(s) \in 1 .. Len(s) /\ s[First(s)].answer = None
      /\ \A i \in 1 .. Len(s) : s[i].answer = None => First(s) <= i
  BY FirstIs
<1> DEFINE m == First(s) - k
<1>2. m \in 1 .. Len(t) /\ m + k = First(s)
  BY <1>1
<1>3. t[m] = s[First(s)] /\ t[m].answer = None
  BY <1>1, <1>2
<1>4. \A i \in 1 .. m - 1 : t[i].answer # None
  <2>1. TAKE i \in 1 .. m - 1
  <2>2. t[i] = s[i + k] /\ i + k \in 1 .. Len(s) /\ i + k < First(s)
    BY <1>1, <1>2, <2>1
  <2> QED
    BY <1>1, <2>2
<1>5. /\ First(t) \in 1 .. Len(t) /\ t[First(t)].answer = None
      /\ \A i \in 1 .. Len(t) : t[i].answer = None => First(t) <= i
  BY <1>2, <1>3, FirstIs
<1>6. First(t) = m
  <2>1. First(t) <= m
    BY <1>2, <1>3, <1>5
  <2>2. ~(First(t) < m)
    BY <1>2, <1>4, <1>5
  <2> QED
    BY <1>2, <1>5, <2>1, <2>2
<1> QED
  BY <1>3, <1>6

\* One call more.
LEMMA AppendWire ==
    ASSUME NEW s, Calls(s), NEW c
    PROVE  /\ Calls(Append(s, Listed!Held(c)))
           /\ Len(s) \in Nat /\ Len(Append(s, Listed!Held(c))) = Len(s) + 1
           /\ \A i \in 1 .. Len(s) : Append(s, Listed!Held(c))[i] = s[i]
           /\ Append(s, Listed!Held(c))[Len(s) + 1] = Listed!Held(c)
<1>1. PICK C, R : s \in Seq([call : C, answer : R])
  BY DEF Calls
<1> DEFINE D == C \cup {c} Q == R \cup {None}
<1>2. Listed!Held(c) \in [call : D, answer : Q]
  BY DEF Listed!Held
<1>3. s \in Seq([call : D, answer : Q])
  <2>1. [call : C, answer : R] \subseteq [call : D, answer : Q]
    OBVIOUS
  <2> QED
    BY <1>1, <2>1, SeqMonotonic
<1>4. /\ Append(s, Listed!Held(c)) \in Seq([call : D, answer : Q])
      /\ Len(Append(s, Listed!Held(c))) = Len(s) + 1
      /\ \A i \in 1 .. Len(s) : Append(s, Listed!Held(c))[i] = s[i]
      /\ Append(s, Listed!Held(c))[Len(s) + 1] = Listed!Held(c)
  <2> HIDE DEF D, Q
  <2> QED
    BY <1>2, <1>3, AppendProperties
<1>5. Len(s) \in Nat
  BY <1>1
<1> QED
  BY <1>4, <1>5 DEF Calls

\* One call fewer.
LEMMA TailWire ==
    ASSUME NEW s, Calls(s), s # <<>>
    PROVE  /\ Calls(Tail(s))
           /\ Len(s) \in Nat \ {0} /\ Len(Tail(s)) = Len(s) - 1 /\ Head(s) = s[1]
           /\ \A i \in 1 .. Len(s) - 1 : Tail(s)[i] = s[i + 1]
           /\ Tail(s) \o <<>> = Tail(s)
           /\ \A c : Tail(s) \o <<Listed!Held(c)>> = Append(Tail(s), Listed!Held(c))
<1>1. PICK C, R : s \in Seq([call : C, answer : R])
  BY DEF Calls
<1>2. /\ Tail(s) \in Seq([call : C, answer : R]) /\ Len(Tail(s)) = Len(s) - 1
      /\ \A i \in 1 .. Len(Tail(s)) : Tail(s)[i] = s[i + 1]
  BY <1>1, HeadTailProperties
<1>3. Len(s) \in Nat \ {0} /\ Head(s) = s[1]
  BY <1>1
<1>4. Tail(s) \o <<>> = Tail(s)
  BY <1>2, ConcatEmptySeq
<1>5. ASSUME NEW c PROVE Tail(s) \o <<Listed!Held(c)>> = Append(Tail(s), Listed!Held(c))
  <2> DEFINE D == C \cup {c} Q == R \cup {None}
  <2>1. Listed!Held(c) \in [call : D, answer : Q]
    BY DEF Listed!Held
  <2>2. Tail(s) \in Seq([call : D, answer : Q])
    <3>1. [call : C, answer : R] \subseteq [call : D, answer : Q]
      OBVIOUS
    <3> QED
      BY <1>2, <3>1, SeqMonotonic
  <2> HIDE DEF D, Q
  <2> QED
    BY <2>1, <2>2, AppendIsConcat
<1> QED
  BY <1>2, <1>3, <1>4, <1>5 DEF Calls

\* One answer more.
LEMMA AnswerWire ==
    ASSUME NEW s, Calls(s), NEW u \in 1 .. Len(s), NEW a, NEW t, t = WithAnswer(s, u, a)
    PROVE  /\ Calls(t)
           /\ Len(t) = Len(s) /\ \A i \in 1 .. Len(s) : t[i].call = s[i].call
<1>1. PICK C, R : s \in Seq([call : C, answer : R])
  BY DEF Calls
<1> DEFINE Q == R \cup {a} e == [s[u] EXCEPT !.answer = a]
<1>2. s[u] \in [call : C, answer : R]
  BY <1>1, ElementOfSeq
<1>3. e \in [call : C, answer : Q] /\ e.call = s[u].call
  BY <1>2
<1>4. s \in Seq([call : C, answer : Q])
  <2>1. [call : C, answer : R] \subseteq [call : C, answer : Q]
    OBVIOUS
  <2> QED
    BY <1>1, <2>1, SeqMonotonic
<1>5. t = [s EXCEPT ![u] = e]
  BY DEF WithAnswer
<1> HIDE DEF Q, e
<1>6. /\ t \in Seq([call : C, answer : Q]) /\ Len(t) = Len(s)
      /\ \A i \in 1 .. Len(s) : t[i] = IF i = u THEN e ELSE s[i]
  BY <1>3, <1>4, <1>5, ExceptSeq
<1> QED
  BY <1>3, <1>6 DEF Calls

\* Nothing changes that matters.
LEMMA Resting ==
    ASSUME ListIInv, UNCHANGED <<wire, work, harm>>
    PROVE  ListIInv'
<1>1. Listed!Unserved' = Listed!Unserved /\ Listed!Asked' = Listed!Asked
  BY UnservedIsFirst DEF Listed!Asked
<1> QED
  BY <1>1 DEF ListIInv, Checked, Listed!SlotEdit, AcceptedUnlessStitched,
     Listed!AcceptedUnlessStitched

\* Another call is made.
LEMMA Asking ==
    ASSUME ListIInv, NEW c, Meant(c), wire' = Append(wire, Listed!Held(c)), UNCHANGED <<work,
           harm>>
    PROVE  ListIInv'
<1>1. /\ Len(wire) \in Nat /\ Len(wire') = Len(wire) + 1 /\ Calls(wire')
      /\ \A i \in 1 .. Len(wire) : wire'[i] = wire[i]
      /\ wire'[Len(wire) + 1] = Listed!Held(c)
  BY AppendWire DEF ListIInv
<1>2. \A i \in 1 .. Len(wire') : Meant(wire'[i].call)
  <2>1. TAKE i \in 1 .. Len(wire')
  <2>2. CASE i = Len(wire) + 1
    BY <1>1, <2>2 DEF Listed!Held
  <2>3. CASE i # Len(wire) + 1
    BY <1>1, <2>1, <2>3 DEF ListIInv
  <2> QED
    BY <2>2, <2>3
<1>3. ASSUME Listed!Unserved # 0
      PROVE  Listed!Unserved' = Listed!Unserved /\ Listed!Asked' = Listed!Asked
  <2>1. First(wire) = Listed!Unserved /\ First(wire') = Listed!Unserved'
    BY UnservedIsFirst
  <2>2. First(wire) \in 1 .. Len(wire)
    BY <1>1, <1>3, <2>1, FirstIs
  <2>3. /\ First(wire) > 0 /\ First(wire) - 0 <= Len(wire') /\ Len(wire') \in Nat /\ 0 \in Nat
        /\ \A i \in 1 .. First(wire) - 0 : wire'[i] = wire[i + 0]
    BY <1>1, <2>2
  <2>4. First(wire') = First(wire) - 0 /\ wire'[First(wire')] = wire[First(wire)]
    BY <1>1, <1>3, <2>1, <2>2, <2>3, StaysFirst
  <2> QED
    BY <2>1, <2>2, <2>4 DEF Listed!Asked
<1>4. Checked'
  <2> SUFFICES ASSUME work' # None PROVE Checked'
    BY DEF Checked
  <2>1. work' = work /\ work # None
    OBVIOUS
  <2>2. Listed!Unserved' = Listed!Unserved /\ Listed!Asked' = Listed!Asked
    BY <1>3, <2>1 DEF ListIInv, Checked
  <2> QED
    BY <2>1, <2>2 DEF ListIInv, Checked, Listed!SlotEdit
<1> QED
  BY <1>1, <1>2, <1>4 DEF ListIInv, AcceptedUnlessStitched, Listed!AcceptedUnlessStitched

\* A call is answered, and nothing is checked any more.
LEMMA Answering ==
    ASSUME ListIInv, Listed!Unserved # 0, NEW a, Listed!Answer(a), work' = None,
           "lost" \notin harm'
    PROVE  ListIInv'
<1>1. First(wire) = Listed!Unserved /\ Len(wire) \in Nat
  BY LenProperties, UnservedIsFirst DEF ListIInv
<1>2. Listed!Unserved \in 1 .. Len(wire)
  BY <1>1, FirstIs
<1>3. /\ Calls(wire') /\ Len(wire') = Len(wire)
      /\ \A i \in 1 .. Len(wire) : wire'[i].call = wire[i].call
  <2>1. wire' = WithAnswer(wire, Listed!Unserved, a)
    BY DEF Listed!Answer, WithAnswer
  <2>2. Calls(wire)
    BY DEF ListIInv
  <2> QED
    BY <1>2, <2>1, <2>2, AnswerWire
<1>4. \A i \in 1 .. Len(wire') : Meant(wire'[i].call)
  BY <1>3 DEF ListIInv
<1> QED
  BY <1>3, <1>4 DEF ListIInv, Checked, AcceptedUnlessStitched, Listed!AcceptedUnlessStitched

\* An answer is taken, and the list may be read once more.
LEMMA Taking ==
    ASSUME ListIInv, wire # <<>>, Head(wire).answer # None, NEW c, c.op = "read",
           \/ wire' = Tail(wire) \o <<>>
           \/ wire' = Tail(wire) \o <<Listed!Held(c)>>,
           UNCHANGED <<work, harm>>
    PROVE  ListIInv'
<1> DEFINE t == Tail(wire)
<1>1. /\ Calls(t)
      /\ Len(wire) \in Nat \ {0} /\ Len(t) = Len(wire) - 1 /\ Head(wire) = wire[1]
      /\ \A i \in 1 .. Len(wire) - 1 : t[i] = wire[i + 1]
      /\ wire' = t \/ wire' = Append(t, Listed!Held(c))
  BY TailWire DEF ListIInv
<1> HIDE DEF t
<1>0. Len(t) \in Nat
  BY <1>1
<1>2. /\ Calls(wire') /\ Len(wire') \in {Len(t), Len(t) + 1}
      /\ \A i \in 1 .. Len(t) : wire'[i] = t[i]
      /\ Len(wire') = Len(t) + 1 => wire'[Len(t) + 1] = Listed!Held(c)
  <2>1. CASE wire' = t
    <3>1. Calls(wire')
      BY <1>1, <2>1 DEF Calls
    <3>2. Len(wire') = Len(t) /\ Len(wire') # Len(t) + 1
      BY <1>0, <2>1
    <3> QED
      BY <2>1, <3>1, <3>2
  <2>2. CASE wire' = Append(t, Listed!Held(c))
    BY <1>1, <2>2, AppendWire DEF Calls
  <2> QED
    BY <1>1, <2>1, <2>2
<1>3. \A i \in 1 .. Len(wire') : Meant(wire'[i].call)
  <2>1. TAKE i \in 1 .. Len(wire')
  <2>2. CASE i \in 1 .. Len(t)
    <3>1. wire'[i] = wire[i + 1] /\ i + 1 \in 1 .. Len(wire)
      BY <1>1, <1>2, <2>2
    <3> QED
      BY <3>1 DEF ListIInv
  <2>3. CASE i \notin 1 .. Len(t)
    <3>1. wire'[i].call = c
      BY <1>1, <1>2, <2>1, <2>3 DEF Listed!Held
    <3> QED
      BY <3>1 DEF Meant, Listed!SlotEdit
  <2> QED
    BY <2>2, <2>3
<1>4. ASSUME Listed!Unserved # 0
      PROVE  Listed!Unserved' = Listed!Unserved - 1 /\ Listed!Unserved' # 0
              /\ Listed!Asked' = Listed!Asked
  <2>1. First(wire) = Listed!Unserved /\ First(wire') = Listed!Unserved'
    BY UnservedIsFirst
  <2>2. First(wire) \in 1 .. Len(wire) /\ First(wire) # 1
    BY <1>1, <1>4, <2>1, FirstIs
  <2>3. /\ First(wire) > 1 /\ First(wire) - 1 <= Len(wire') /\ Len(wire') \in Nat
        /\ \A i \in 1 .. First(wire) - 1 : wire'[i] = wire[i + 1]
    <3>1. /\ First(wire) \in Nat /\ First(wire) > 1 /\ First(wire) - 1 <= Len(t)
          /\ Len(wire') \in Nat /\ Len(t) <= Len(wire')
      BY <1>0, <1>1, <1>2, <2>2
    <3>2. ASSUME NEW i \in 1 .. First(wire) - 1 PROVE wire'[i] = wire[i + 1]
      <4>1. i \in 1 .. Len(t) /\ i \in 1 .. Len(wire) - 1
        BY <1>1, <2>2
      <4> QED
        BY <1>1, <1>2, <4>1
    <3> QED
      BY <1>0, <3>1, <3>2
  <2>4. First(wire') = First(wire) - 1 /\ wire'[First(wire')] = wire[First(wire)]
    BY <1>1, <1>4, <2>1, <2>3, StaysFirst
  <2> QED
    BY <2>1, <2>2, <2>4 DEF Listed!Asked
<1>5. Checked'
  <2> SUFFICES ASSUME work' # None PROVE Checked'
    BY DEF Checked
  <2>1. work' = work /\ work # None
    OBVIOUS
  <2>2. Listed!Unserved' # 0 /\ Listed!Asked' = Listed!Asked
    BY <1>4, <2>1 DEF ListIInv, Checked
  <2> QED
    BY <2>1, <2>2 DEF ListIInv, Checked, Listed!SlotEdit
<1> QED
  BY <1>2, <1>3, <1>5 DEF ListIInv, AcceptedUnlessStitched, Listed!AcceptedUnlessStitched

\* An edit of slots names tracks of its version, when both rows are of it.
LEMMA Naming ==
    ASSUME NEW o, NEW row, NEW target
    PROVE  \E c : Listed!Slots(o, row, target) = Listed!Held(c) /\ Meant(c)
<1> DEFINE c == [op |-> o, from |-> row.order, to |-> target.order, version |-> store.version,
                 shown |-> row, target |-> target,
                 stitched |-> ~Listed!Current(row) \/ ~Listed!Current(target)]
<1>1. Listed!Slots(o, row, target) = Listed!Held(c)
  BY DEF Listed!Slots
<1>2. /\ c.version = store.version /\ c.from = row.order /\ c.to = target.order
      /\ c.shown = row /\ c.target = target
  OBVIOUS
<1>3. c.stitched = (~Listed!Current(row) \/ ~Listed!Current(target))
  OBVIOUS
<1> HIDE DEF c
<1>4. ~c.stitched => Listed!Current(row) /\ Listed!Current(target)
  BY <1>3
<1>5. Meant(c)
  BY <1>2, <1>4 DEF Meant, Listed!Current
<1> QED
  BY <1>1, <1>5

\* Every step of MusicBee and of the core keeps the invariant.
LEMMA ListCoreStep ==
    ASSUME ListIInv, \/ Listed!HostEdits \/ Listed!HostDeletes \/ Listed!ServePage
           \/ Listed!Check \/ Listed!Write \/ Listed!WriteFails
    PROVE  ListIInv'
<1>1. CASE Listed!HostEdits \/ Listed!HostDeletes
  BY <1>1, Resting DEF Listed!HostEdits, Listed!HostDeletes, Listed!coreVars
<1>2. CASE Listed!ServePage
  <2>1. Listed!Unserved # 0 /\ Listed!Asked.op = "read" /\ work' = work /\ harm' = harm
    BY <1>2 DEF Listed!ServePage, Listed!coreVars
  <2>2. work = None
    BY <2>1 DEF ListIInv, Checked
  <2>3. PICK a : Listed!Answer(a)
    BY <1>2 DEF Listed!ServePage
  <2> QED
    BY <2>1, <2>2, <2>3, Answering DEF ListIInv, AcceptedUnlessStitched,
       Listed!AcceptedUnlessStitched
<1>3. CASE Listed!Check
  <2>1. Listed!Unserved # 0 /\ Listed!Asked.op # "read" /\ work = None /\ harm' = harm
    BY <1>3 DEF Listed!Check
  <2>2. CASE Listed!Refused(Listed!Asked) = "no"
    <3>1. work' = [files |-> list] /\ wire' = wire
      BY <1>3, <2>2 DEF Listed!Check
    <3>2. Listed!Asked' = Listed!Asked /\ Listed!Unserved' = Listed!Unserved
      BY <3>1, UnservedIsFirst DEF Listed!Asked
    <3>3. Listed!SlotEdit(Listed!Asked) => Listed!Asked.version = list
      <4>1. CASE kind = "gone" \/ (kind = "auto" /\ Listed!Asked.op # "delete")
        BY <2>2, <4>1 DEF Listed!Refused
      <4>2. CASE kind # "gone" /\ ~(kind = "auto" /\ Listed!Asked.op # "delete")
        BY <2>2, <4>2 DEF Listed!Refused
      <4> QED
        BY <4>1, <4>2
    <3> QED
      BY <2>1, <3>1, <3>2, <3>3 DEF ListIInv, Checked, Listed!SlotEdit, AcceptedUnlessStitched,
         Listed!AcceptedUnlessStitched
  <2>3. CASE Listed!Refused(Listed!Asked) # "no"
    <3>1. Listed!Answer(Listed!Refusal(Listed!Refused(Listed!Asked))) /\ work' = work
      BY <1>3, <2>3 DEF Listed!Check
    <3> QED
      BY <2>1, <3>1, Answering DEF ListIInv, AcceptedUnlessStitched, Listed!AcceptedUnlessStitched
  <2> QED
    BY <2>2, <2>3
<1>4. CASE Listed!Write
  <2>1. work # None /\ work' = None /\ harm' = harm \cup Listed!Harm(Listed!Asked, work.files)
    BY <1>4 DEF Listed!Write
  <2>2. Listed!Unserved # 0 /\ (Listed!SlotEdit(Listed!Asked)
          => work.files = Listed!Asked.version)
    BY <2>1 DEF ListIInv, Checked
  <2>3. Meant(Listed!Asked)
    <3>1. First(wire) = Listed!Unserved /\ Len(wire) \in Nat
      BY LenProperties, UnservedIsFirst DEF ListIInv
    <3>2. Listed!Unserved \in 1 .. Len(wire)
      BY <2>2, <3>1, FirstIs
    <3> QED
      BY <3>2 DEF ListIInv, Listed!Asked
  <2>4. "lost" \notin Listed!Harm(Listed!Asked, work.files)
    BY <2>2, <2>3 DEF Listed!Harm, Meant
  <2>5. Listed!Answer([code |-> "ok"])
    BY <1>4 DEF Listed!Write
  <2> QED
    BY <2>1, <2>2, <2>4, <2>5, Answering DEF ListIInv, AcceptedUnlessStitched,
       Listed!AcceptedUnlessStitched
<1>5. CASE Listed!WriteFails
  <2>1. work # None /\ work' = None /\ harm' = harm /\ Listed!Answer(Listed!Refusal("internal"))
    BY <1>5 DEF Listed!WriteFails
  <2>2. Listed!Unserved # 0
    BY <2>1 DEF ListIInv, Checked
  <2> QED
    BY <2>1, <2>2, Answering DEF ListIInv, AcceptedUnlessStitched, Listed!AcceptedUnlessStitched
<1> QED
  BY <1>1, <1>2, <1>3, <1>4, <1>5

\* Every step of the web app keeps it.
LEMMA ListAppStep ==
    ASSUME ListIInv, \/ Listed!Open \/ Listed!Leave \/ Listed!LoadMore \/ Listed!LoadAll
           \/ Listed!RemoveRow \/ Listed!MoveRow \/ Listed!AddTo
                     \/ Listed!Delete \/ Listed!TakePage \/ Listed!TakeEdit
    PROVE  ListIInv'
<1>0. \A from, append, rest :
          \E c : Listed!Load(from, append, rest) = Listed!Held(c) /\ c.op = "read" /\ Meant(c)
  BY DEF Listed!Load, Meant, Listed!SlotEdit
<1>1. CASE Listed!Leave
  BY <1>1, Resting DEF Listed!Leave, Listed!coreVars
<1>2. CASE Listed!Open \/ Listed!LoadMore \/ Listed!LoadAll
  <2>1. UNCHANGED <<work, harm>>
    BY <1>2 DEF Listed!Open, Listed!LoadMore, Listed!LoadAll, Listed!coreVars
  <2>2. \E from, append, rest : wire' = Append(wire, Listed!Load(from, append, rest))
    BY <1>2 DEF Listed!Open, Listed!LoadMore, Listed!LoadAll
  <2> QED
    BY <1>0, <2>1, <2>2, Asking
<1>3. CASE Listed!RemoveRow \/ Listed!MoveRow
  <2>1. UNCHANGED <<work, harm>>
    BY <1>3 DEF Listed!RemoveRow, Listed!MoveRow, Listed!coreVars
  <2>2. \E o, row, target : wire' = Append(wire, Listed!Slots(o, row, target))
    BY <1>3 DEF Listed!RemoveRow, Listed!MoveRow
  <2> QED
    BY <2>1, <2>2, Naming, Asking
<1>4. CASE Listed!AddTo \/ Listed!Delete
  <2>1. UNCHANGED <<work, harm>>
    BY <1>4 DEF Listed!AddTo, Listed!Delete, Listed!coreVars
  <2>2. \E c : wire' = Append(wire, Listed!Held(c)) /\ c.op \in {"add", "delete"}
    <3>1. CASE Listed!AddTo
      <4>1. PICK t \in Tracks : wire' = Append(wire, Listed!Held([op |-> "add", track |-> t]))
        BY <3>1 DEF Listed!AddTo
      <4>2. [op |-> "add", track |-> t].op = "add"
        OBVIOUS
      <4> QED
        BY <4>1, <4>2
    <3>2. CASE Listed!Delete
      <4>1. wire' = Append(wire, Listed!Held([op |-> "delete"]))
              /\ [op |-> "delete"].op = "delete"
        BY <3>2 DEF Listed!Delete
      <4> QED
        BY <4>1
    <3> QED
      BY <1>4, <3>1, <3>2
  <2>3. \A c : c.op \in {"add", "delete"} => Meant(c)
    BY DEF Meant, Listed!SlotEdit
  <2> QED
    BY <2>1, <2>2, <2>3, Asking
<1>5. CASE Listed!TakePage
  <2>1. wire # <<>> /\ Head(wire).answer # None /\ UNCHANGED <<work, harm>>
    BY <1>5 DEF Listed!TakePage, Listed!coreVars
  <2>2. \/ wire' = Tail(wire) \/ wire' = Tail(wire) \o <<>>
        \/ \E from : wire' = Tail(wire) \o <<Listed!Load(from, TRUE, TRUE)>>
    BY <1>5 DEF Listed!TakePage
  <2>3. Tail(wire) \o <<>> = Tail(wire)
    BY <2>1, TailWire DEF ListIInv
  <2> QED
    BY <1>0, <2>1, <2>2, <2>3, Taking
<1>6. CASE Listed!TakeEdit
  <2>1. wire # <<>> /\ Head(wire).answer # None /\ UNCHANGED <<work, harm>>
    BY <1>6 DEF Listed!TakeEdit, Listed!coreVars
  <2>2. \/ wire' = Tail(wire) \o <<>>
        \/ wire' = Tail(wire) \o <<Listed!Load(store, FALSE, FALSE)>>
    BY <1>6 DEF Listed!TakeEdit
  <2> QED
    BY <1>0, <2>1, <2>2, Taking
<1> QED
  BY <1>1, <1>2, <1>3, <1>4, <1>5, <1>6

\* The playlist's invariant.
THEOREM ListInvariant == Listed!Spec => []ListIInv
<1>1. Listed!Init => ListIInv
  <2> SUFFICES ASSUME Listed!Init PROVE ListIInv
    OBVIOUS
  <2>1. wire = <<>> /\ work = None /\ harm = {}
    BY DEF Listed!Init
  <2>2. wire \in Seq([call : {}, answer : {}]) /\ Len(wire) = 0
    BY <2>1, EmptySeq
  <2>3. Calls(wire)
    BY <2>2 DEF Calls
  <2> QED
    BY <2>1, <2>2, <2>3 DEF ListIInv, Checked, AcceptedUnlessStitched,
       Listed!AcceptedUnlessStitched
<1>2. ListIInv /\ [Listed!Next]_(Listed!vars) => ListIInv'
  <2> SUFFICES ASSUME ListIInv, [Listed!Next]_(Listed!vars) PROVE ListIInv'
    OBVIOUS
  <2>1. CASE Listed!Next
    BY <2>1, ListCoreStep, ListAppStep DEF Listed!Next
  <2>2. CASE UNCHANGED Listed!vars
    BY <2>2, Resting DEF Listed!vars, Listed!coreVars
  <2> QED
    BY <2>1, <2>2
<1> QED
  BY <1>1, <1>2, PTL DEF Listed!Spec

\* AcceptedUnlessStitched, for any tracks and bounds.
THEOREM AcceptedCorrect == Listed!Spec => []AcceptedUnlessStitched
<1>1. ListIInv => AcceptedUnlessStitched
  BY DEF ListIInv
<1> QED
  BY <1>1, ListInvariant, PTL

-----------------------------------------------------------------------------
(* All, as they are run. *)

\* What run records checks of pairing, of updates, of the helpers and of a playlist, for any
\* constants: a run of them is one of each.
THEOREM RecordsCorrect ==
    MCSpec => /\ [](RightsLast /\ HolderKnown /\ ToldOrWoken /\ InstallWhole)
              /\ [](OfferStands /\ MarkerCommits /\ AcceptedUnlessStitched)
              /\ NeverOlder
<1>1. MCInit => Init /\ Remote!Init /\ Service!Init /\ Listed!Init
  BY DEF MCInit
<1>2. [MCNext]_<<side, vars, partyVars, serviceVars, listVars>> => [Next]_vars
  BY DEF MCNext, partyVars, serviceVars, listVars, vars
<1>3. [MCNext]_<<side, vars, partyVars, serviceVars, listVars>> => [Remote!Next]_(Remote!vars)
  BY DEF MCNext, partyVars, serviceVars, listVars, Remote!vars, Remote!history, Remote!stores
<1>4. [MCNext]_<<side, vars, partyVars, serviceVars, listVars>> => [Service!Next]_(Service!vars)
  BY DEF MCNext, partyVars, serviceVars, listVars, Service!vars, Service!history, Service!disk,
     Service!panel
<1>5. [MCNext]_<<side, vars, partyVars, serviceVars, listVars>> => [Listed!Next]_(Listed!vars)
  BY DEF MCNext, partyVars, serviceVars, listVars, Listed!vars, Listed!appVars, Listed!coreVars,
     Listed!hostVars
<1>6. MCSpec => Spec /\ Remote!Spec /\ Service!Spec /\ Listed!Spec
  BY <1>1, <1>2, <1>3, <1>4, <1>5, PTL DEF MCSpec, Spec, Remote!Spec, Service!Spec, Listed!Spec
<1> QED
  BY <1>6, WholeCorrect, UpgradesOnly, RightsLastCorrect, HolderCorrect, ToldCorrect,
     MarkerCorrect, OfferCorrect, AcceptedCorrect, PTL
=============================================================================
