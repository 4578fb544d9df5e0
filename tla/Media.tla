------------------------------- MODULE Media -------------------------------
(***************************************************************************)
(* One media category (audiobooks, videos or the inbox): its listing and   *)
(* tags, kept in memory, and the task that keeps them current.             *)
(*                                                                         *)
(* A listing is fetched on demand and its tags once per listing, both with *)
(* no lock held.  A report resets the tags of a listing that holds the     *)
(* file and asks for a re-list otherwise; the task re-lists within a       *)
(* budget, on a report or a slow timer, reads the tags again and tells     *)
(* clients.  Categories share nothing but the task and its budget.         *)
(***************************************************************************)
EXTENDS Integers

CONSTANTS Files,      \* files the category may hold
          Clients,    \* V6 clients that keep a copy of it
          MaxEvents   \* bound on what the host does

VARIABLES files,      \* MusicBee: the files of the category
          tags,       \* MusicBee: how often each file was written
          due,        \* files whose report has not reached files_changed
          events,     \* things the host has done
          listing,    \* MediaLibrary.listings
          pending,    \* MediaLibrary.pending
          nudge,      \* its permit
          task,       \* the media task
          deferred,   \* a re-list waits for the budget
          budget,     \* a re-list is allowed (until_relist is None)
          read,       \* the tags each client, and the task, is reading
          connected,  \* clients connected
          news,       \* clients told to read again that have not begun to
          copy,       \* the copy of each client
          outrun      \* history: a read put back tags a report had reset, or a
                      \* file came back that the listing had not seen leave

hostVars == <<files, tags, due, events>>
taskVars == <<task, deferred, budget>>
clientVars == <<connected, news, copy>>
vars == <<hostVars, listing, pending, nudge, taskVars, read, clientVars, outrun>>

Task == "task"
Unread == [f \in Files |-> -1]            \* no tags, or a file not described
NoListing == [listed |-> FALSE, id |-> 0, paths |-> {}, tagged |-> FALSE, tags |-> Unread]
NoRead == [at |-> "none", id |-> 0, paths |-> {}, tags |-> Unread, reset |-> FALSE]
Waiting == [at |-> "waiting", relist |-> FALSE, changed |-> FALSE, fresh |-> {}]

\* What the host describes of the files asked for; one it lost is left out.
Described(paths) == [f \in Files |-> IF f \in paths \cap files THEN tags[f] ELSE -1]

Init ==
    /\ files \in SUBSET Files /\ tags = [f \in Files |-> 0] /\ due = {} /\ events = 0
    /\ listing = NoListing
    /\ pending = [relist |-> FALSE, changed |-> FALSE] /\ nudge = FALSE
    /\ task = Waiting /\ deferred = FALSE /\ budget = TRUE
    /\ read = [r \in Clients \cup {Task} |-> NoRead]
    /\ connected = {} /\ news = {} /\ copy = [c \in Clients |-> Unread]
    /\ outrun = FALSE

-----------------------------------------------------------------------------
(* The host. *)

Happens(reported) ==
    /\ events < MaxEvents
    /\ events' = events + 1
    /\ due' = due \cup reported

\* A file is written; the report follows.
Edit(f) ==
    /\ f \in files
    /\ Happens({f})
    /\ tags' = [tags EXCEPT ![f] = @ + 1]
    /\ UNCHANGED <<files, listing, pending, nudge, taskVars, read, clientVars, outrun>>

\* A file comes or goes, and MusicBee says so, or does not.
Move(f) ==
    /\ files' = IF f \in files THEN files \ {f} ELSE files \cup {f}
    /\ \E reported \in {{}, {f}} : Happens(reported)
    /\ outrun' = (outrun \/ (f \notin files /\ f \in listing.paths))
    /\ UNCHANGED <<tags, listing, pending, nudge, taskVars, read, clientVars>>

\* Another library: every listing is dropped and clients are told to query all
\* again (library_changed).
Switch ==
    /\ events < MaxEvents
    /\ events' = events + 1
    /\ files' \in SUBSET Files
    /\ tags' = [f \in Files |-> tags[f] + 1]
    /\ due' = {}
    /\ listing' = [NoListing EXCEPT !.id = listing.id]
    /\ budget' = TRUE
    /\ news' = connected
    /\ outrun' = FALSE
    /\ UNCHANGED <<pending, nudge, task, deferred, read, connected, copy>>

\* History: the reads that fetched their tags before a report reset them.
Outrun(held) == [r \in DOMAIN read |->
    IF held /\ read[r].at = "put" THEN [read[r] EXCEPT !.reset = TRUE] ELSE read[r]]

\* files_changed, called after the pass that took the reports.
FilesChanged ==
    LET held == due \cap listing.paths IN
    /\ due # {}
    /\ due' = {}
    /\ listing' = IF held = {} THEN listing ELSE [listing EXCEPT !.tagged = FALSE, !.tags = Unread]
    /\ read' = Outrun(held # {})
    /\ pending' = [relist |-> pending.relist \/ ~(due \subseteq listing.paths),
                   changed |-> pending.changed \/ held # {}]
    /\ nudge' = TRUE
    /\ outrun' = (outrun /\ held = {})
    /\ UNCHANGED <<files, tags, events, taskVars, clientVars>>

\* InboxChanged: a re-list is asked for (request_relist).
InboxChanged(f) ==
    /\ Happens({})
    /\ files' = IF f \in files THEN files \ {f} ELSE files \cup {f}
    /\ outrun' = (outrun \/ (f \notin files /\ f \in listing.paths))
    /\ pending' = [pending EXCEPT !.relist = TRUE]
    /\ nudge' = TRUE
    /\ UNCHANGED <<tags, listing, taskVars, read, clientVars>>

-----------------------------------------------------------------------------
(* tags: the listing, then its tags, each fetched with no lock held. *)

\* The listing as it stands, or one to be fetched.
Look(r) ==
    read' = [read EXCEPT ![r] =
                IF ~listing.listed THEN [NoRead EXCEPT !.at = "list"]
                ELSE [NoRead EXCEPT !.at = "look", !.id = listing.id, !.paths = listing.paths]]

Begin(c) ==
    /\ c \in connected /\ read[c].at = "none"
    /\ c \in news
    /\ Look(c)
    /\ news' = news \ {c}
    /\ UNCHANGED <<hostVars, listing, pending, nudge, taskVars, connected, copy, outrun>>

List(r) ==
    /\ read[r].at = "list"
    /\ read' = [read EXCEPT ![r].at = "insert", ![r].paths = files]
    /\ UNCHANGED <<hostVars, listing, pending, nudge, taskVars, clientVars, outrun>>

\* or_insert: a listing that came meanwhile wins.
Insert(r) ==
    LET kept == IF listing.listed THEN listing
                ELSE [NoListing EXCEPT !.listed = TRUE, !.id = listing.id + 1, !.paths = read[r].paths]
    IN  /\ read[r].at = "insert"
        /\ listing' = kept
        /\ read' = [read EXCEPT ![r] = [NoRead EXCEPT !.at = "look", !.id = kept.id, !.paths = kept.paths]]
        /\ UNCHANGED <<hostVars, pending, nudge, taskVars, clientVars, outrun>>

\* Tags already read are served.
Hit(r) ==
    /\ read[r].at = "look" /\ listing.listed /\ listing.tagged
    /\ read' = [read EXCEPT ![r] = [NoRead EXCEPT !.at = "done", !.tags = listing.tags]]
    /\ UNCHANGED <<hostVars, listing, pending, nudge, taskVars, clientVars, outrun>>

Fetch(r) ==
    /\ read[r].at = "look" /\ ~(listing.listed /\ listing.tagged)
    /\ read' = [read EXCEPT ![r].at = "put", ![r].tags = Described(read[r].paths), ![r].reset = FALSE]
    /\ UNCHANGED <<hostVars, listing, pending, nudge, taskVars, clientVars, outrun>>

\* Mutant: kept whatever listing they were read for.
BelongsAnyhow(r) == listing.listed
\* Arc::ptr_eq: the listing is the one these tags were read for.
Belongs(r) == listing.listed /\ listing.id = read[r].id

Put(r) ==
    /\ read[r].at = "put"
    /\ listing' = IF Belongs(r) THEN [listing EXCEPT !.tagged = TRUE, !.tags = read[r].tags] ELSE listing
    /\ outrun' = (outrun \/ (Belongs(r) /\ read[r].reset))
    /\ read' = [read EXCEPT ![r] = [NoRead EXCEPT !.at = "done", !.tags = read[r].tags]]
    /\ UNCHANGED <<hostVars, pending, nudge, taskVars, clientVars>>

\* The reply reaches the client.
Reply(c) ==
    /\ read[c].at = "done"
    /\ copy' = [copy EXCEPT ![c] = read[c].tags]
    /\ read' = [read EXCEPT ![c] = NoRead]
    /\ UNCHANGED <<hostVars, listing, pending, nudge, taskVars, connected, news, outrun>>

\* A client connects, with no copy, and reads.
Connect(c) ==
    /\ c \notin connected /\ read[c].at = "none"
    /\ connected' = connected \cup {c}
    /\ news' = news \cup {c}
    /\ UNCHANGED <<hostVars, listing, pending, nudge, taskVars, read, copy, outrun>>

-----------------------------------------------------------------------------
(* The media task. *)

\* RELIST_EVERY has passed since the last re-list.
Budget ==
    /\ ~budget
    /\ budget' = TRUE
    /\ UNCHANGED <<hostVars, listing, pending, nudge, task, deferred, read, clientVars, outrun>>

\* The nudge, and a debounce.
Wake ==
    /\ task.at = "waiting" /\ nudge
    /\ nudge' = FALSE
    /\ task' = [task EXCEPT !.at = "taking"]
    /\ UNCHANGED <<hostVars, listing, pending, deferred, budget, read, clientVars, outrun>>

\* The timer: every category, while a client listens.
Timer ==
    /\ task.at = "waiting"
    /\ connected # {}
    /\ deferred' = TRUE
    /\ task' = [task EXCEPT !.at = "taking"]
    /\ UNCHANGED <<hostVars, listing, pending, nudge, budget, read, clientVars, outrun>>

\* A deferred re-list is due.
Due ==
    /\ task.at = "waiting" /\ deferred /\ budget
    /\ task' = [task EXCEPT !.at = "taking"]
    /\ UNCHANGED <<hostVars, listing, pending, nudge, deferred, budget, read, clientVars, outrun>>

\* take_pending; a re-list the budget does not allow is kept for later.
Take ==
    LET relist == (deferred \/ pending.relist) /\ budget IN
    /\ task.at = "taking"
    /\ pending' = [relist |-> FALSE, changed |-> FALSE]
    /\ deferred' = ((deferred \/ pending.relist) /\ ~budget)
    /\ budget' = (budget /\ ~relist)
    /\ task' = IF relist THEN [Waiting EXCEPT !.at = "listing", !.changed = pending.changed]
               ELSE IF pending.changed THEN [Waiting EXCEPT !.at = "reading", !.changed = TRUE]
               ELSE Waiting
    /\ UNCHANGED <<hostVars, listing, nudge, read, clientVars, outrun>>

\* relist asks the host, which may fail: the last listing is kept.
RelistFetch ==
    /\ task.at = "listing"
    /\ \E fails \in BOOLEAN :
          task' = IF fails THEN [task EXCEPT !.at = "reading"]
                  ELSE [task EXCEPT !.at = "storing", !.fresh = files]
    /\ UNCHANGED <<hostVars, listing, pending, nudge, deferred, budget, read, clientVars, outrun>>

\* Mutant: no re-list counts as a change.
CountsNothing == FALSE
\* Only a listing somebody may hold counts as changed.
Counts == listing.listed /\ listing.paths # task.fresh

RelistStore ==
    LET same == listing.listed /\ listing.paths = task.fresh IN
    /\ task.at = "storing"
    /\ listing' = IF same THEN listing
                  ELSE [NoListing EXCEPT !.listed = TRUE, !.id = listing.id + 1, !.paths = task.fresh]
    /\ outrun' = (outrun /\ same)
    /\ task' = [task EXCEPT !.at = "reading", !.changed = @ \/ Counts, !.fresh = {}]
    /\ UNCHANGED <<hostVars, pending, nudge, deferred, budget, read, clientVars>>

\* A category that changed has its tags read again, like any request's.
CheckTags ==
    /\ task.at = "reading"
    /\ IF task.changed THEN Look(Task) /\ task' = [task EXCEPT !.at = "tags"]
       ELSE task' = Waiting /\ UNCHANGED read
    /\ UNCHANGED <<hostVars, listing, pending, nudge, deferred, budget, clientVars, outrun>>

\* The host does not describe or list for the task: clients are told all the same.
CheckFails ==
    /\ task.at = "tags" /\ read[Task].at \in {"list", "look"}
    /\ read' = [read EXCEPT ![Task] = [NoRead EXCEPT !.at = "done"]]
    /\ UNCHANGED <<hostVars, listing, pending, nudge, taskVars, clientVars, outrun>>

\* media_changed.
Tell ==
    /\ task.at = "tags" /\ read[Task].at = "done"
    /\ news' = connected
    /\ read' = [read EXCEPT ![Task] = NoRead]
    /\ task' = Waiting
    /\ UNCHANGED <<hostVars, listing, pending, nudge, deferred, budget, connected, copy, outrun>>

Reads(r) == List(r) \/ Insert(r) \/ Hit(r) \/ Fetch(r) \/ Put(r)
Work == Wake \/ Due \/ Take \/ RelistStore \/ CheckTags \/ Tell

Next ==
    \/ \E f \in Files : Edit(f) \/ Move(f) \/ InboxChanged(f)
    \/ Switch \/ FilesChanged
    \/ \E r \in Clients \cup {Task} : Reads(r)
    \/ \E c \in Clients : Begin(c) \/ Reply(c) \/ Connect(c)
    \/ Budget \/ Timer \/ Work \/ RelistFetch \/ CheckFails

\* Reports arrive, clocks run, the task and the requests are scheduled, a
\* client told to read again does, and the host does not fail to list for ever.
Fairness ==
    /\ WF_vars(FilesChanged) /\ WF_vars(Budget) /\ SF_vars(Timer)
    /\ WF_vars(Work) /\ WF_vars(RelistFetch) /\ SF_vars(RelistFetch /\ task'.at = "storing")
    /\ \A r \in Clients \cup {Task} : WF_vars(Reads(r))
    /\ \A c \in Clients : WF_vars(Begin(c)) /\ WF_vars(Reply(c))

Spec == Init /\ [][Next]_vars
FairSpec == Spec /\ Fairness

-----------------------------------------------------------------------------
(* What a client of a category may rely on. *)

TypeOK ==
    /\ files \subseteq Files /\ due \subseteq Files
    /\ listing \in [listed : BOOLEAN, id : Nat, paths : SUBSET Files, tagged : BOOLEAN,
                    tags : [Files -> Nat \cup {-1}]]
    /\ read \in [Clients \cup {Task} ->
                  [at : {"none", "list", "insert", "look", "put", "done"}, id : Nat,
                   paths : SUBSET Files, tags : [Files -> Nat \cup {-1}], reset : BOOLEAN]]
    /\ news \subseteq connected /\ connected \subseteq Clients

\* Tags are of the listing they are kept with, and as the host has them once
\* every report has arrived, unless a read outran one: a report resets what it
\* names, and tags read for another listing are not kept (Arc::ptr_eq).
TagsCurrent ==
    (listing.tagged /\ ~outrun) =>
        \A f \in listing.paths \ due : listing.tags[f] \in {tags[f], -1}

\* While a client stays connected, its copy comes to the category's files and
\* their tags and stays there, though MusicBee announces only some changes,
\* re-lists wait for their budget and the host may fail: every change it could
\* miss is told to it, whatever was read across it.
CopyComesRound ==
    \A c \in Clients : <>[](c \in connected) => <>[](copy[c] = Described(files) \/ outrun)

\* media.rs: a listed file was edited, so its tags are read again.
EditedIsReread ==
    listing.tagged => \A f \in listing.paths \ due : listing.tags[f] \in {tags[f], -1}
=============================================================================
