----------------------------- MODULE LibraryScan -----------------------------
(***************************************************************************)
(* How the core's copy of the library follows the host's: the Scanner that *)
(* applies what the host reports, the background threads that reconcile    *)
(* the whole library, and the guard that lets one of them run at a time.   *)
(*                                                                         *)
(* Reports arrive on the host's threads at any moment, and a rebuild or a  *)
(* library switch takes the cache out of service on the caller's thread,   *)
(* before its own thread has asked for the guard.  A pass is therefore a   *)
(* sequence of steps, between any two of which the library, the queue and  *)
(* the cache may change.                                                   *)
(*                                                                         *)
(* The change log is reduced to what it says of a path (see ChangeLog for  *)
(* the log itself): the paths it holds as live, and those edited since it  *)
(* last filed them.  The watermark, a time, is reduced to what the host    *)
(* would answer when asked for the edits since it.                         *)
(***************************************************************************)
EXTENDS Naturals

CONSTANTS Paths,      \* the files of the library
          Commands,   \* what the host and the panel ask for in this instance
          MaxEvents   \* bound on the things the host does

Scopes == {"start", "switch", "metadata", "covers"}

VARIABLES library,    \* the host's library
          up,         \* whether a core with networking is running
          validated,  \* MetadataCache.validated
          index,      \* TRACK_PATHS, in browse order
          live,       \* the paths the change log holds as live
          marked,     \* whether TRACKS_SYNCED_AT is stored
          since,      \* the edits the host would report since that watermark
          queue,      \* LibraryEvents
          nudge,      \* the scanner_nudge permit
          scanner,    \* where the Scanner loop is
          batch,      \* what it has taken off the queue
          waiting,    \* the reconcile threads that have not asked for the guard
          pass,       \* the pass that holds the guard
          dirty,      \* history: paths edited since the log last filed them
          unheard,    \* history: those of dirty the core has no report of left
          silent,     \* history: the host failed since it last listed the library
          crossed,    \* history: a rebuild or a switch met another pass
          events      \* the things the host has done

hostVars == <<library, dirty, events>>
storeVars == <<index, live, marked, since>>
scanVars == <<queue, nudge, scanner, batch>>
vars == <<hostVars, storeVars, scanVars, up, validated, waiting, pass, unheard, silent, crossed>>

NoReports == [relist |-> FALSE, tagged |-> {}, rated |-> {}]
Reports == [relist : BOOLEAN, tagged : SUBSET Paths, rated : SUBSET Paths]
\* A pass without a listing (listed) has not asked for one, or was not answered.
NoPass == [by |-> "none", step |-> "none", listed |-> FALSE, listing |-> {}, edited |-> {}]
PassUnder == [by : Scopes \cup {"scan"},
              step : {"albums", "validate", "check", "list", "delta", "index", "record", "mark",
                      "finish"},
              listed : BOOLEAN, listing : SUBSET Paths, edited : SUBSET Paths]

TypeOK ==
    /\ library \in SUBSET Paths /\ index \in SUBSET Paths /\ live \in SUBSET Paths
    /\ up \in BOOLEAN /\ validated \in BOOLEAN /\ marked \in BOOLEAN /\ nudge \in BOOLEAN
    /\ since \in SUBSET Paths /\ dirty \in SUBSET Paths /\ unheard \in SUBSET Paths
    /\ queue \in Reports /\ batch \in Reports
    /\ scanner \in {"waiting", "debouncing", "taken", "applying"}
    /\ waiting \in SUBSET Scopes
    /\ pass \in PassUnder \cup {NoPass}
    /\ (scanner = "applying") <=> (pass.by = "scan")
    /\ (~up) => (pass = NoPass /\ waiting = {} /\ queue = NoReports /\ scanner = "waiting")
    /\ silent \in BOOLEAN /\ crossed \in BOOLEAN /\ events \in Nat

Init ==
    /\ library \in SUBSET Paths /\ up = FALSE /\ validated = FALSE
    /\ index = {} /\ live = {} /\ marked = FALSE /\ since = {}
    /\ queue = NoReports /\ nudge = FALSE /\ scanner = "waiting" /\ batch = NoReports
    /\ waiting = {} /\ pass = NoPass
    /\ dirty = {} /\ unheard = {} /\ silent = FALSE /\ crossed = FALSE /\ events = 0

-----------------------------------------------------------------------------
(***************************************************************************)
(* The host's threads.  Each report is queued and the Scanner nudged.      *)
(***************************************************************************)
Happens == events < MaxEvents /\ events' = events + 1

Report(reports) ==
    IF up THEN queue' = reports /\ nudge' = TRUE ELSE UNCHANGED <<queue, nudge>>

\* An edit moves the file's modification time, so the host reports it since
\* the watermark too.  With no watermark and no core there is no trace of it.
Edits(p) ==
    /\ dirty' = dirty \cup {p}
    /\ since' = IF marked THEN since \cup {p} ELSE since
    /\ UNCHANGED <<library, index, live, marked, scanner, batch, up, validated, waiting, pass,
                   silent, crossed>>

TagsChanged ==
    \E p \in library :
        /\ Happens /\ Edits(p)
        /\ Report([queue EXCEPT !.tagged = @ \cup {p}])
        /\ unheard' = IF up \/ marked THEN unheard ELSE unheard \cup {p}

RatingChanged ==
    \E p \in library :
        /\ Happens /\ Edits(p)
        /\ Report([queue EXCEPT !.rated = @ \cup {p}])
        /\ unheard' = IF up \/ marked THEN unheard ELSE unheard \cup {p}

\* A report that names no file can only have the library listed again.
UnnamedTagsChanged ==
    \E p \in library :
        /\ up /\ Happens /\ Edits(p)
        /\ Report([queue EXCEPT !.relist = TRUE])
        /\ unheard' = unheard \cup {p}

\* A file that comes back is the file that left: see the README on replaced files.
MembershipChanged ==
    \E p \in Paths :
        /\ Happens
        /\ library' = IF p \in library THEN library \ {p} ELSE library \cup {p}
        /\ Report([queue EXCEPT !.relist = TRUE])
        /\ UNCHANGED <<dirty, storeVars, scanner, batch, up, validated, waiting, pass, unheard,
                       silent, crossed>>

\* The pass a command would run into: covers move nothing in the cache.
MeetsPass == pass.by \notin {"none", "covers"}

\* LibrarySwitched: the cache is invalidated and the library forgotten on the
\* host's thread; the thread that reconciles it is spawned after.
LibrarySwitched ==
    /\ "switch" \in Commands /\ up /\ "switch" \notin waiting
    /\ Happens
    /\ library' \in SUBSET Paths
    /\ validated' = FALSE /\ index' = {}
    /\ live' = {} /\ marked' = FALSE /\ since' = {}
    /\ waiting' = waiting \cup {"switch"}
    /\ dirty' = {} /\ unheard' = {}
    /\ crossed' = (crossed \/ MeetsPass)
    /\ UNCHANGED <<scanVars, up, pass, silent>>

\* The panel's rebuild of one cache.  Only the metadata one invalidates.
Rebuild(scope) ==
    /\ scope \in Commands /\ up /\ scope \notin waiting
    /\ Happens
    /\ waiting' = waiting \cup {scope}
    /\ IF scope = "metadata"
       THEN validated' = FALSE /\ index' = {} /\ crossed' = (crossed \/ MeetsPass)
       ELSE UNCHANGED <<validated, index, crossed>>
    /\ UNCHANGED <<library, dirty, live, marked, since, scanVars, up, pass, unheard, silent>>

\* initialize and start_networking; the store outlives the core.
Start ==
    /\ ~up
    /\ up' = TRUE /\ waiting' = {"start"}
    /\ UNCHANGED <<hostVars, storeVars, scanVars, validated, pass, unheard, silent, crossed>>

\* The process ends, or the core is dropped.  What the host would not report
\* since the watermark is heard of no more.
Stop ==
    /\ "stop" \in Commands /\ up
    /\ Happens
    /\ up' = FALSE /\ validated' = FALSE
    /\ queue' = NoReports /\ nudge' = FALSE /\ scanner' = "waiting" /\ batch' = NoReports
    /\ waiting' = {} /\ pass' = NoPass
    /\ unheard' = unheard \cup (dirty \ since)
    /\ UNCHANGED <<library, dirty, storeVars, silent, crossed>>

-----------------------------------------------------------------------------
(***************************************************************************)
(* The Scanner, up to the guard.                                           *)
(***************************************************************************)
Reported(reports) == reports.relist \/ reports.tagged # {} \/ reports.rated # {}

\* Mutant: put_back merges the edits and forgets the re-list.
MergedEditsOnly(old, new) ==
    [relist |-> old.relist,
     tagged |-> old.tagged \cup new.tagged,
     rated |-> old.rated \cup new.rated]

Merged(old, new) ==
    [relist |-> old.relist \/ new.relist,
     tagged |-> old.tagged \cup new.tagged,
     rated |-> old.rated \cup new.rated]

Wake ==
    /\ up /\ scanner = "waiting" /\ nudge
    /\ scanner' = "debouncing" /\ nudge' = FALSE
    /\ UNCHANGED <<hostVars, storeVars, queue, batch, up, validated, waiting, pass, unheard,
                   silent, crossed>>

\* The debounce is over: nudges and reports went on arriving during it.
Take ==
    /\ scanner = "debouncing"
    /\ batch' = queue /\ queue' = NoReports
    /\ scanner' = IF Reported(queue) THEN "taken" ELSE "waiting"
    /\ UNCHANGED <<hostVars, storeVars, nudge, up, validated, waiting, pass, unheard, silent,
                   crossed>>

\* Mutant: a batch is put back and nobody nudged.
PutBackQuietly ==
    /\ scanner = "taken" /\ pass # NoPass
    /\ queue' = Merged(queue, batch) /\ batch' = NoReports
    /\ scanner' = "waiting"
    /\ UNCHANGED <<hostVars, storeVars, nudge, up, validated, waiting, pass, unheard, silent, crossed>>

PutBack ==
    /\ scanner = "taken" /\ pass # NoPass
    /\ queue' = Merged(queue, batch) /\ batch' = NoReports
    /\ nudge' = TRUE /\ scanner' = "waiting"
    /\ UNCHANGED <<hostVars, storeVars, up, validated, waiting, pass, unheard, silent, crossed>>

BeginScan ==
    /\ scanner = "taken" /\ pass = NoPass
    /\ pass' = [NoPass EXCEPT !.by = "scan", !.step = "check",
                              !.edited = batch.tagged \cup batch.rated]
    /\ scanner' = "applying"
    /\ UNCHANGED <<hostVars, storeVars, queue, nudge, batch, up, validated, waiting, unheard,
                   silent, crossed>>

\* A cache out of service takes no edits: the batch is spent on it.
Check ==
    /\ pass.step = "check"
    /\ IF validated
       THEN /\ pass' = [pass EXCEPT !.step = IF batch.relist \/ batch.tagged # {}
                                             THEN "list" ELSE "record"]
            /\ UNCHANGED crossed
       ELSE pass' = [pass EXCEPT !.step = "finish"] /\ crossed' = TRUE
    /\ UNCHANGED <<hostVars, storeVars, scanVars, up, validated, waiting, unheard, silent>>

-----------------------------------------------------------------------------
(***************************************************************************)
(* The reconcile threads, up to the listing.                               *)
(***************************************************************************)
BeginReconcile(scope) ==
    /\ scope \in waiting
    /\ waiting' = waiting \ {scope}
    /\ IF pass = NoPass
       THEN pass' = [NoPass EXCEPT !.by = scope, !.step = "albums"] /\ UNCHANGED crossed
       ELSE pass' = pass /\ crossed' = (crossed \/ scope # "covers")
    /\ UNCHANGED <<hostVars, storeVars, scanVars, up, validated, unheard, silent>>

HostAnswers == silent' = silent
HostFails == "silence" \in Commands /\ silent' = TRUE

\* album_identifiers, which every scope begins with.
ListAlbums ==
    /\ pass.step = "albums"
    /\ \/ HostAnswers /\ pass' = [pass EXCEPT !.step = IF pass.by = "covers" THEN "finish"
                                                       ELSE "validate"]
       \/ HostFails /\ pass' = [pass EXCEPT !.step = "finish"]
    /\ UNCHANGED <<hostVars, storeVars, scanVars, up, validated, waiting, unheard, crossed>>

\* Mutant: a library that has not moved is taken to be in service already.
ValidateWhenMoved ==
    /\ pass.step = "validate"
    /\ validated' = (validated \/ live # library)
    /\ pass' = [pass EXCEPT !.step = "list"]
    /\ UNCHANGED <<hostVars, storeVars, scanVars, up, waiting, unheard, silent, crossed>>

Validate ==
    /\ pass.step = "validate"
    /\ validated' = TRUE
    /\ pass' = [pass EXCEPT !.step = "list"]
    /\ UNCHANGED <<hostVars, storeVars, scanVars, up, waiting, unheard, silent, crossed>>

-----------------------------------------------------------------------------
(***************************************************************************)
(* The steps both kinds of pass make under the guard.                      *)
(***************************************************************************)

\* track_paths.  Without a listing a scan still files its edits, and a
\* reconcile gives up, leaving the edits since the watermark for the next start.
List ==
    /\ pass.step = "list"
    /\ \/ /\ HostAnswers
          /\ pass' = [pass EXCEPT !.listed = TRUE, !.listing = library,
                                  !.step = IF pass.by # "scan" /\ marked THEN "delta" ELSE "index"]
          /\ UNCHANGED unheard
       \/ /\ HostFails
          /\ pass' = [pass EXCEPT !.step = IF pass.by = "scan" THEN "record" ELSE "finish"]
          /\ unheard' = IF pass.by = "scan" THEN unheard ELSE unheard \cup since
    /\ UNCHANGED <<hostVars, storeVars, scanVars, up, validated, waiting, crossed>>

\* Mutant: the delta is asked for with no watermark, which reports no edits.
DeltaUnread ==
    /\ pass.step = "delta"
    /\ pass' = [pass EXCEPT !.step = "index"]
    /\ UNCHANGED <<hostVars, storeVars, scanVars, up, validated, waiting, unheard, silent, crossed>>

\* edited_since: a host that does not answer has edited nothing.
Delta ==
    /\ pass.step = "delta"
    /\ \/ /\ HostAnswers
          /\ pass' = [pass EXCEPT !.edited = since, !.step = "index"]
          /\ UNCHANGED unheard
       \/ /\ HostFails
          /\ pass' = [pass EXCEPT !.step = "index"]
          /\ unheard' = unheard \cup since
    /\ UNCHANGED <<hostVars, storeVars, scanVars, up, validated, waiting, crossed>>

\* replace_track_index
Index ==
    /\ pass.step = "index"
    /\ index' = IF validated THEN pass.listing ELSE index
    /\ pass' = [pass EXCEPT !.step = "record"]
    /\ UNCHANGED <<hostVars, live, marked, since, scanVars, up, validated, waiting, unheard,
                   silent, crossed>>

\* record_changes: a listed path the log did not hold, and an edit of one it
\* holds, are filed.  Nothing is, while the cache is out of service.
Record ==
    /\ pass.step = "record"
    /\ pass' = [pass EXCEPT !.step = "mark"]
    /\ IF validated
       THEN LET listed == IF pass.listed THEN pass.listing ELSE live
                filed == (listed \ live) \cup (pass.edited \cap listed)
            IN  /\ live' = listed
                /\ dirty' = dirty \ filed /\ unheard' = unheard \ filed
                /\ silent' = (silent /\ ~pass.listed)
       ELSE UNCHANGED <<live, dirty, unheard, silent>>
    /\ UNCHANGED <<library, events, index, marked, since, scanVars, up, validated, waiting, crossed>>

\* set_tracks_synced_at, which asks neither what was filed nor whether it was.
Mark ==
    /\ pass.step = "mark"
    /\ marked' = TRUE /\ since' = {}
    /\ pass' = [pass EXCEPT !.step = "finish"]
    /\ UNCHANGED <<hostVars, index, live, scanVars, up, validated, waiting, unheard, silent, crossed>>

\* The rest of the pass (tags, covers, status) is over and the guard dropped.
Finish ==
    /\ pass.step = "finish"
    /\ pass' = NoPass
    /\ IF pass.by = "scan"
       THEN scanner' = "waiting" /\ batch' = NoReports
       ELSE UNCHANGED <<scanner, batch>>
    /\ UNCHANGED <<hostVars, storeVars, queue, nudge, up, validated, waiting, unheard, silent,
                   crossed>>

-----------------------------------------------------------------------------
Host == \/ TagsChanged \/ RatingChanged \/ UnnamedTagsChanged \/ MembershipChanged
        \/ LibrarySwitched \/ Rebuild("metadata") \/ Rebuild("covers") \/ Stop
Scanner == Wake \/ Take \/ PutBack \/ BeginScan
Reconciles == \E scope \in Scopes : BeginReconcile(scope)
Pass == Check \/ ListAlbums \/ Validate \/ List \/ Delta \/ Index \/ Record \/ Mark \/ Finish

Next == Host \/ Start \/ Scanner \/ Reconciles \/ Pass

Spec == Init /\ [][Next]_vars

\* The Scanner task and the threads are scheduled, and the host's calls return.
Fairness == WF_vars(Scanner) /\ WF_vars(Reconciles) /\ WF_vars(Pass)
FairSpec == Spec /\ Fairness

-----------------------------------------------------------------------------
(***************************************************************************)
(* Properties.                                                             *)
(***************************************************************************)

\* Nothing is left to do: no report queued, no pass running, no thread waiting.
AtRest ==
    /\ up /\ queue = NoReports /\ ~nudge /\ scanner = "waiting"
    /\ waiting = {} /\ pass = NoPass

\* However passes, rebuilds, switches and restarts interleave, the browse index
\* and the change log come to rest holding the library the host has: a page and a
\* syncing client's copy agree (relist_library, build_track_index).
LogHoldsLibrary ==
    AtRest /\ validated /\ ~silent => index = library /\ live = library

\* Every edit of a file a client may hold is somewhere on its way to the log:
\* queued, in the Scanner's hands, read by the running pass, or among what the
\* host will report at the next start (LibraryEvents, put_back, edited_since).
EditsAccounted ==
    ~crossed =>
        dirty \cap live \subseteq
            UNION {queue.tagged, queue.rated, batch.tagged, batch.rated, pass.edited, since, unheard}

\* At rest, every such edit has been filed: none is left to a later start that
\* the session need not have waited for.
EditsFiled ==
    AtRest /\ ~crossed /\ validated /\ ~silent => dirty \cap live \subseteq unheard

\* No edit is lost, on the way and at rest.
NoEditLost == EditsAccounted /\ EditsFiled

\* A rebuild or a switch that meets no other pass, and whose host answers, leaves
\* the cache in service (MetadataCache::reconcile re-validates it).
StaysInService == AtRest /\ ~crossed /\ ~silent => validated

\* A batch that meets the guard is retried until it is applied, and every pass
\* and thread ends: a running core comes to rest (apply_reported_now, ReconcileGuard).
ComesToRest == []<>(AtRest \/ ~up)

\* "single-flight guarded, so a rebuild while one runs is a harmless no-op"
\* (state.rs, rebuild): the reconcile it met ends, no other is about to begin, and
\* the cache is in service.
RebuildHarmless ==
    [][pass.by \in {"start", "switch", "metadata"} /\ pass' = NoPass /\ up' /\ ~silent
           /\ waiting' = {} => validated']_vars
=============================================================================
