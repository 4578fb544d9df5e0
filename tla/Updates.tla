------------------------------ MODULE Updates ------------------------------
(***************************************************************************)
(* The update service: a check, an offer, a download and a skip.           *)
(*                                                                         *)
(* One background job runs at a time, on a thread of its own.  The state   *)
(* file keeps the ETag of the last release document and the skipped        *)
(* version; the status and the verified update live as long as MusicBee.   *)
(* A download fills a directory and writes the marker that names it; what  *)
(* an applied update leaves behind is swept at the next start.             *)
(***************************************************************************)
EXTENDS Integers

CONSTANTS MaxVersion,   \* releases are 1 .. MaxVersion; 1 is installed at first
          MaxEdition,   \* bound on the editions of the release document
          MaxSessions   \* bound on MusicBee's starts

Versions == 1 .. MaxVersion
Offered == {"available", "download_failed"}

VARIABLES release,    \* the release document: its version, and its edition, the ETag
          installed,  \* the version MusicBee loads
          session,    \* starts so far, and whether MusicBee is up
          status,     \* STATUS
          available,  \* AVAILABLE; 0 is none
          shown,      \* the state the panel last read
          startup,    \* this session's check is still to come
          job,        \* the job that holds BUSY: its step, and what it carries
          skip,       \* skip_available, on the panel's thread
          saved,      \* update_state.json
          dirs,       \* updates/<version>: "none", "part" or "full"
          marker,     \* the version pending.json names; 0 is no marker
          sweep,      \* the start-up sweep
          refused,    \* history: versions the user skipped
          crossed,    \* history: a skip and a job ran at once
          swept       \* history: a bundle was marked as the sweep, which saw no marker, cleared

disk == <<saved, dirs, marker>>
panel == <<shown, startup, skip>>
history == <<refused, crossed, swept>>
vars == <<release, installed, session, status, available, panel, job, disk, sweep, history>>

Is(state, version) == [state |-> state, version |-> version]
NoState == [etag |-> 0, skipped |-> 0]
NoSkip == [at |-> "none", version |-> 0, loaded |-> NoState]
NoJob == [at |-> "none", force |-> FALSE, version |-> 0, loaded |-> NoState,
          outcome |-> "none", previous |-> Is("unknown", 0)]

\* quiet, and initial_status, of what is staged.
Quiet(otherwise) == IF marker # 0 THEN Is("staged", marker) ELSE Is(otherwise, 0)

Init ==
    /\ release = [version |-> 1, edition |-> 1] /\ installed = 1
    /\ session = [number |-> 1, up |-> TRUE]
    /\ status = Is("unknown", 0) /\ available = 0 /\ shown = "unknown" /\ startup = TRUE
    /\ job = NoJob /\ skip = NoSkip /\ saved = NoState
    /\ dirs = [v \in Versions |-> "none"] /\ marker = 0 /\ sweep = "due"
    /\ refused = {} /\ crossed = FALSE /\ swept = FALSE

-----------------------------------------------------------------------------
(* Outside the plugin. *)

\* A release is published, or the document of this one is edited.
Publish ==
    /\ release.edition < MaxEdition
    /\ \E v \in Versions : v >= release.version
                           /\ release' = [version |-> v, edition |-> release.edition + 1]
    /\ UNCHANGED <<installed, session, status, available, panel, job, disk, sweep, history>>

\* MusicBee exits or is killed, and what it ran with it.
Exit ==
    /\ session.up
    /\ session' = [session EXCEPT !.up = FALSE]
    /\ job' = NoJob /\ skip' = NoSkip /\ sweep' = "none" /\ startup' = FALSE
    /\ status' = Is("unknown", 0) /\ available' = 0 /\ shown' = "unknown"
    /\ UNCHANGED <<release, installed, disk, history>>

Start ==
    /\ ~session.up /\ session.number < MaxSessions
    /\ session' = [number |-> session.number + 1, up |-> TRUE]
    /\ status' = Quiet("unknown")
    /\ sweep' = "due" /\ startup' = TRUE
    /\ UNCHANGED <<release, installed, available, shown, job, skip, disk, history>>

\* The helper applies what was staged, once MusicBee has exited.
Apply ==
    /\ ~session.up /\ marker > installed /\ dirs[marker] = "full"
    /\ installed' = marker
    /\ marker' = 0
    /\ UNCHANGED <<release, session, status, available, panel, job, saved, dirs, sweep, history>>

\* sweep_applied_staging: a marker says a bundle still waits.
SweepReads ==
    /\ sweep = "due"
    /\ sweep' = IF marker = 0 THEN "clearing" ELSE "none"
    /\ UNCHANGED <<release, installed, session, status, available, panel, job, disk, history>>

SweepClears ==
    /\ sweep = "clearing"
    /\ sweep' = "none"
    /\ dirs' = [v \in Versions |-> "none"] /\ marker' = 0
    /\ swept' = (swept \/ marker # 0)
    /\ UNCHANGED <<release, installed, session, status, available, panel, job, saved, refused, crossed>>

-----------------------------------------------------------------------------
(* The panel: one thread, which a skip keeps until it is done.  A button it has *)
(* pressed stays disabled until it reads the status again.                      *)

Refresh ==
    /\ session.up /\ skip = NoSkip
    /\ shown' = status.state
    /\ UNCHANGED <<release, installed, session, status, available, startup, job, skip, disk, sweep, history>>

\* Check now, which the panel also offers over a release too new for MusicBee,
\* and this session's check, which shows nothing until it has an answer.
StartCheck(force) ==
    /\ session.up /\ job = NoJob
    /\ IF force THEN skip = NoSkip /\ shown \notin {"checking", "downloading", "staged"} ELSE startup
    /\ startup' = (startup /\ force)
    /\ job' = [NoJob EXCEPT !.at = "load", !.force = force, !.previous = status]
    /\ status' = IF force THEN Is("checking", 0) ELSE status
    /\ shown' = IF force THEN "checking" ELSE shown
    /\ crossed' = (crossed \/ skip # NoSkip)
    /\ UNCHANGED <<release, installed, session, available, skip, disk, sweep, refused, swept>>

\* Refused while a job runs.
StartupBusy ==
    /\ session.up /\ startup /\ job # NoJob
    /\ startup' = FALSE
    /\ UNCHANGED <<release, installed, session, status, available, shown, job, skip, disk, sweep, history>>

StartDownload ==
    /\ session.up /\ skip = NoSkip /\ job = NoJob
    /\ shown \in Offered /\ available # 0
    /\ status' = Is("downloading", available)
    /\ shown' = "downloading"
    /\ job' = [NoJob EXCEPT !.at = "prepare", !.version = available]
    /\ UNCHANGED <<release, installed, session, available, startup, skip, disk, sweep, history>>

\* skip_available reads the status, then the state file; both may be another's
\* by the time it writes.
SkipReads ==
    /\ session.up /\ skip = NoSkip /\ shown \in Offered /\ status.state \in Offered
    /\ skip' = [at |-> "save", version |-> status.version, loaded |-> saved]
    /\ crossed' = (crossed \/ job # NoJob)
    /\ UNCHANGED <<release, installed, session, status, available, shown, startup, job, disk, sweep,
                   refused, swept>>

SkipSaves ==
    /\ skip.at = "save"
    /\ saved' = [skip.loaded EXCEPT !.skipped = skip.version]
    /\ skip' = [skip EXCEPT !.at = "publish"]
    /\ UNCHANGED <<release, installed, session, status, available, shown, startup, job, dirs, marker,
                   sweep, history>>

SkipPublishes ==
    /\ skip.at = "publish"
    /\ available' = 0
    /\ status' = Is("skipped", skip.version)
    /\ refused' = refused \cup {skip.version}
    /\ skip' = NoSkip
    /\ UNCHANGED <<release, installed, session, shown, startup, job, disk, sweep, crossed, swept>>

-----------------------------------------------------------------------------
(* The check. *)

CheckLoads ==
    /\ job.at = "load"
    /\ job' = [job EXCEPT !.at = "ask", !.loaded = saved]
    /\ UNCHANGED <<release, installed, session, status, available, panel, disk, sweep, history>>

\* Mutant: a skipped version is offered like any other.
NeverSkipped == FALSE
IsSkipped == job.loaded.skipped = release.version

\* check: not due, unchanged, failed, or an answer whose ETag is kept.
Answer ==
    \/ ~job.force /\ job' = [job EXCEPT !.at = "save", !.outcome = "no_news"]
    \/ job' = [job EXCEPT !.at = "save", !.outcome = "error"]
    \/ job.loaded.etag = release.edition /\ job' = [job EXCEPT !.at = "save", !.outcome = "no_news"]
    \/ /\ job.loaded.etag # release.edition
       /\ job' = [job EXCEPT !.at = "save", !.version = release.version, !.loaded.etag = release.edition,
                    !.outcome = IF release.version <= installed THEN "up_to_date"
                                ELSE IF IsSkipped THEN "skipped" ELSE "available"]

CheckAsks ==
    /\ job.at = "ask"
    /\ Answer
    /\ UNCHANGED <<release, installed, session, status, available, panel, disk, sweep, history>>

\* The state is written whatever came of it.
CheckSaves ==
    /\ job.at = "save"
    /\ saved' = job.loaded
    /\ job' = [job EXCEPT !.at = "learn"]
    /\ UNCHANGED <<release, installed, session, status, available, panel, dirs, marker, sweep, history>>

\* Mutant: only an offer touches the stash.
StashOfOffers == IF job.outcome = "available" THEN job.version ELSE available
\* interpret: no news disturbs nothing, any other answer replaces the stash.
Stash ==
    CASE job.outcome = "available" -> job.version
      [] job.outcome = "no_news" -> available
      [] OTHER -> 0

\* no_news: an offer outlives it, anything else falls back to the disk.
NoNews ==
    IF job.previous.state \in Offered \cup {"staged", "skipped"} THEN job.previous ELSE Quiet("up_to_date")

Verdict ==
    CASE job.outcome = "no_news" -> NoNews
      [] job.outcome = "error" -> Quiet("error")
      [] job.outcome = "available" /\ marker = job.version -> Is("staged", job.version)
      [] OTHER -> Is(job.outcome, job.version)

CheckLearns ==
    /\ job.at = "learn"
    /\ available' = Stash
    /\ job' = [job EXCEPT !.at = "publish", !.previous = Verdict]
    /\ UNCHANGED <<release, installed, session, status, panel, disk, sweep, history>>

Publishes ==
    /\ job.at = "publish"
    /\ status' = job.previous
    /\ job' = NoJob
    /\ UNCHANGED <<release, installed, session, available, panel, disk, sweep, history>>

-----------------------------------------------------------------------------
(* The download. *)

Failing == job' = [job EXCEPT !.at = "publish", !.previous = Is("download_failed", job.version)]

\* Mutant: the marker is written before the last file.
MarkBeforeFinish == [write |-> "mark", mark |-> "finish", finish |-> "done"]
\* stage: some files, the others with the manifest, then the marker.
StageOrder == [write |-> "finish", finish |-> "mark", mark |-> "done"]

After(step) == IF StageOrder[step] = "done"
               THEN job' = [job EXCEPT !.at = "publish", !.previous = Is("staged", job.version)]
               ELSE job' = [job EXCEPT !.at = StageOrder[step]]

\* What an earlier attempt left of this version is removed.
StagePrepares ==
    /\ job.at = "prepare"
    /\ dirs' = [dirs EXCEPT ![job.version] = "none"]
    /\ job' = [job EXCEPT !.at = "write"]
    /\ UNCHANGED <<release, installed, session, status, available, panel, saved, marker, sweep, history>>

\* A write into a directory that was swept fails.
StageWrites ==
    \/ /\ job.at = "write" /\ After("write") /\ UNCHANGED marker
       /\ dirs' = [dirs EXCEPT ![job.version] = "part"]
    \/ /\ job.at = "finish" /\ dirs[job.version] # "none" /\ After("finish") /\ UNCHANGED marker
       /\ dirs' = [dirs EXCEPT ![job.version] = "full"]
    \/ /\ job.at = "mark" /\ dirs[job.version] # "none" /\ After("mark") /\ UNCHANGED dirs
       /\ marker' = job.version

Stages ==
    /\ StageWrites
    /\ UNCHANGED <<release, installed, session, status, available, panel, saved, sweep, history>>

StageFails ==
    /\ job.at \in {"prepare", "write", "finish", "mark"}
    /\ Failing
    /\ UNCHANGED <<release, installed, session, status, available, panel, disk, sweep, history>>

Next ==
    \/ Publish \/ Exit \/ Start \/ Apply \/ SweepReads \/ SweepClears
    \/ Refresh \/ StartCheck(TRUE) \/ StartCheck(FALSE) \/ StartupBusy \/ StartDownload
    \/ SkipReads \/ SkipSaves \/ SkipPublishes
    \/ CheckLoads \/ CheckAsks \/ CheckSaves \/ CheckLearns \/ Publishes
    \/ StagePrepares \/ Stages \/ StageFails

Spec == Init /\ [][Next]_vars

-----------------------------------------------------------------------------
(* Properties. *)

TypeOK ==
    /\ installed \in Versions /\ available \in Versions \cup {0} /\ marker \in Versions \cup {0}
    /\ saved \in [etag : 0 .. MaxEdition, skipped : Versions \cup {0}]
    /\ status.state \in Offered \cup {"unknown", "checking", "downloading", "staged", "skipped",
                                      "up_to_date", "error"}
    /\ dirs \in [Versions -> {"none", "part", "full"}] /\ refused \subseteq Versions

\* At rest an offer can be taken: what the panel is told is available is held to
\* be fetched, and what it is told is staged is on disk, whatever checks,
\* failures, downloads and restarts came in between.  (Unless a skip ran beside a
\* job, which publishes the other's answer, or the sweep took the bundle.)
OfferBacked ==
    (session.up /\ job = NoJob /\ skip = NoSkip) =>
        /\ status.state \in Offered /\ ~crossed => available = status.version
        /\ available # 0 /\ ~crossed => status.state \in Offered \cup {"staged"}
        /\ status.state = "staged" /\ ~swept => marker = status.version

\* A version the user skipped is never offered again, in this session or another
\* and however the release document is edited, unless the skip crossed a check:
\* the check then saves the state it loaded before, or publishes its offer.
SkipHonoured == (status.state \in Offered /\ ~crossed) => status.version \notin refused

\* What the panel offers can be taken, and is wanted.
OfferStands == OfferBacked /\ SkipHonoured

\* The marker names a directory that holds a whole bundle, wherever the process
\* dies: it is written last, a bundle is taken away only under no marker, and the
\* panel offers no download of a version that is staged.
MarkerCommits == marker # 0 => dirs[marker] = "full"

\* service.rs: with no new information, whatever was already known still holds,
\* offers included.  (The ETag outlives the offer: after a restart, or a failed
\* check, the answer to an unchanged document is that all is up to date.)
OfferKept ==
    [][(job.at = "publish" /\ job' = NoJob /\ status'.state = "up_to_date")
          => ~(saved.etag = release.edition /\ release.version > installed)]_vars
=============================================================================
