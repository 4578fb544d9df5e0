------------------------------- MODULE TagSync -------------------------------
(***************************************************************************)
(* The tags a syncing client is sent, and the row cache they come from.    *)
(*                                                                         *)
(* The change log says which paths moved; the tags of a path are read when *)
(* a page is served, from TRACK_TAGS or, on a miss, from the host, and     *)
(* written back.  Browsing fills the same rows.  A Scanner pass drops the  *)
(* rows of the files reported edited before it files them.  Requests run   *)
(* on threads of their own, under no lock, so a pass can run between any   *)
(* two steps of one; only the backfill asks for the pass's guard.          *)
(*                                                                         *)
(* A tag value is the number of times its file was written.  The log is    *)
(* reduced to what each client has not read of it (see ChangeLog for the   *)
(* log and its pages, LibraryScan for the pass, its guard and its          *)
(* failures).  The cache is in service throughout.                         *)
(***************************************************************************)
EXTENDS Naturals, FiniteSets

CONSTANTS Paths,     \* the files of the library
          Browsers,  \* requests that read pages of tracks
          Clients,   \* clients that keep a copy of the library
          Backfill,  \* the Scanner's own reader of missing tags
          MaxEvents  \* bound on the things the host does

ASSUME TagSyncAssumption ==
    /\ IsFiniteSet(Paths) /\ MaxEvents \in Nat
    /\ Browsers \cap Clients = {} /\ Backfill \notin Browsers \cup Clients

Tasks == Browsers \cup Clients \cup {Backfill}

VARIABLES library,    \* the host's library
          tags,       \* the host's tags of each file
          reported,   \* LibraryEvents: the files reported edited
          relist,     \* LibraryEvents: the library has to be listed again
          row,        \* TRACK_TAGS; 0 for no row
          live,       \* the paths the log holds as in the library
          behind,     \* the changes each client has not asked for
          copy,       \* each client's copy of the library; 0 for no track
          task,       \* the requests and the backfill in hand
          pass,       \* the Scanner pass that holds the guard
          events,     \* the things the host has done
          overtaken,  \* history: rows dropped while a request held their tags
          replaced    \* history: files that came back while something of them was held

hostVars == <<library, tags, reported, relist, events>>
history == <<overtaken, replaced>>
vars == <<hostVars, row, live, behind, copy, task, pass, history>>

NoTags == [p \in Paths |-> 0]
Idle == [step |-> "idle", asked |-> {}, gone |-> {}, missed |-> {}, got |-> NoTags]
NoPass == [step |-> "none", edited |-> {}, listed |-> FALSE, listing |-> {}]

TypeOK ==
    /\ library \subseteq Paths /\ live \subseteq Paths /\ reported \subseteq Paths
    /\ tags \in [Paths -> Nat \ {0}] /\ relist \in BOOLEAN
    /\ row \in [Paths -> Nat]
    /\ behind \in [Clients -> SUBSET Paths]
    /\ copy \in [Clients -> [Paths -> Nat]]
    /\ task \in [Tasks -> [step : {"idle", "look", "fetch", "put", "reply"},
                           asked : SUBSET Paths, gone : SUBSET Paths, missed : SUBSET Paths,
                           got : [Paths -> Nat]]]
    /\ pass \in [step : {"none", "drop", "list", "index", "record", "backfill"}, edited : SUBSET Paths,
                 listed : BOOLEAN, listing : SUBSET Paths]
    /\ task[Backfill].step # "idle" => pass = NoPass
    /\ events \in Nat
    /\ overtaken \subseteq Paths /\ replaced \subseteq Paths

\* A library listed once, no tags read, and clients that hold nothing yet.
Init ==
    /\ library = Paths /\ live = Paths
    /\ tags = [p \in Paths |-> 1] /\ row = NoTags
    /\ reported = {} /\ relist = FALSE
    /\ behind = [c \in Clients |-> Paths] /\ copy = [c \in Clients |-> NoTags]
    /\ task = [t \in Tasks |-> Idle] /\ pass = NoPass
    /\ events = 0 /\ overtaken = {} /\ replaced = {}

-----------------------------------------------------------------------------
(* The host. *)

Happens == events < MaxEvents /\ events' = events + 1

\* TagsChanging: an edit of the playing file is reported before it is applied, and
\* again once it is written.
Changing(p) ==
    /\ p \in library /\ Happens
    /\ reported' = reported \cup {p}
    /\ UNCHANGED <<library, tags, relist, row, live, behind, copy, task, pass, history>>

\* TagsChanged.
Edit(p) ==
    /\ p \in library /\ Happens
    /\ tags' = [tags EXCEPT ![p] = @ + 1]
    /\ reported' = reported \cup {p}
    /\ UNCHANGED <<library, relist, row, live, behind, copy, task, pass, history>>

RemoveFile(p) ==
    /\ p \in library /\ Happens
    /\ library' = library \ {p}
    /\ relist' = TRUE
    /\ UNCHANGED <<tags, reported, row, live, behind, copy, task, pass, history>>

\* The paths the log will go on holding, and those a request will write back.
Held == IF pass.listed THEN pass.listing ELSE live
InHand == {p \in Paths : \E t \in Browsers \cup Clients :
                            task[t].step = "put" /\ p \in task[t].missed /\ task[t].got[p] # 0}

\* A file that comes back may have been written while it was away.
AddFile(p) ==
    /\ p \notin library /\ Happens
    /\ library' = library \cup {p}
    /\ tags' \in {tags, [tags EXCEPT ![p] = @ + 1]}
    /\ relist' = TRUE
    /\ replaced' = IF p \in Held \cup InHand \/ row[p] # 0 THEN replaced \cup {p} ELSE replaced
    /\ UNCHANGED <<reported, row, live, behind, copy, task, pass, overtaken>>

-----------------------------------------------------------------------------
(* Reading tags: tags_for_paths, and every reader that fills the rows. *)

\* A browse asks for a page of the index.
Browse(b, page) ==
    /\ task[b] = Idle /\ page # {}
    /\ task' = [task EXCEPT ![b] = [Idle EXCEPT !.step = "look", !.asked = page]]
    /\ UNCHANGED <<hostVars, row, live, behind, copy, pass, history>>

\* library_changes: one read of the log says which paths moved and which of them
\* are gone; their tags are read after it.
Ask(c) ==
    /\ task[c] = Idle /\ behind[c] # {}
    /\ task' = [task EXCEPT ![c] = [Idle EXCEPT !.step = "look",
                                               !.asked = behind[c] \cap live,
                                               !.gone = behind[c] \ live]]
    /\ behind' = [behind EXCEPT ![c] = {}]
    /\ UNCHANGED <<hostVars, row, live, copy, pass, history>>

\* A backfill burst asks for what has no row: the last thing a pass does under its
\* guard, and the Scanner's on its own when the guard is free.  Its loop may stop
\* after any batch, for it runs on a budget.
BeginBackfill ==
    /\ task[Backfill] = Idle
    /\ LET missing == {p \in live : row[p] = 0} IN
       /\ pass.step = "backfill" \/ (pass = NoPass /\ missing # {})
       /\ task' = [task EXCEPT ![Backfill] =
                     IF missing = {} THEN Idle
                     ELSE [Idle EXCEPT !.step = "fetch", !.asked = missing, !.missed = missing]]
    /\ pass' = NoPass
    /\ UNCHANGED <<hostVars, row, live, behind, copy, history>>

\* Each path has a read of its own; the properties are of single paths.
Look(t) ==
    /\ task[t].step = "look"
    /\ LET missed == {p \in task[t].asked : row[p] = 0} IN
       task' = [task EXCEPT
                  ![t].missed = missed,
                  ![t].got = [p \in Paths |-> IF p \in task[t].asked THEN row[p] ELSE 0],
                  ![t].step = IF missed = {} THEN "reply" ELSE "fetch"]
    /\ UNCHANGED <<hostVars, row, live, behind, copy, pass, history>>

\* One host call for the misses; a file the host does not have is left out.
Fetch(t) ==
    /\ task[t].step = "fetch"
    /\ task' = [task EXCEPT
                  ![t].got = [p \in Paths |-> IF p \in task[t].missed \cap library
                                              THEN tags[p] ELSE @[p]],
                  ![t].step = "put"]
    /\ UNCHANGED <<hostVars, row, live, behind, copy, pass, history>>

\* The host fails, and the request with it.
FetchFails(t) ==
    /\ task[t].step = "fetch"
    /\ task' = [task EXCEPT ![t] = Idle]
    /\ behind' = [c \in Clients |-> IF c = t THEN behind[c] \cup task[c].asked \cup task[c].gone
                                             ELSE behind[c]]
    /\ UNCHANGED <<hostVars, row, live, copy, pass, history>>

\* put_track_tags: what the host answered is written back, whatever ran since.
Put(t) ==
    /\ task[t].step = "put"
    /\ row' = [p \in Paths |-> IF p \in task[t].missed /\ task[t].got[p] # 0
                               THEN task[t].got[p] ELSE row[p]]
    /\ task' = IF t \in Clients THEN [task EXCEPT ![t].step = "reply"]
                                ELSE [task EXCEPT ![t] = Idle]
    /\ UNCHANGED <<hostVars, live, behind, copy, pass, history>>

\* A browse answered from the rows alone.
Answer(b) ==
    /\ task[b].step = "reply"
    /\ task' = [task EXCEPT ![b] = Idle]
    /\ UNCHANGED <<hostVars, row, live, behind, copy, pass, history>>

\* The client applies its page: a track the page leaves out is left alone.
Apply(c) ==
    /\ task[c].step = "reply"
    /\ copy' = [copy EXCEPT ![c] = [p \in Paths |-> IF p \in task[c].gone THEN 0
                                                   ELSE IF task[c].got[p] # 0 THEN task[c].got[p]
                                                   ELSE @[p]]]
    /\ task' = [task EXCEPT ![c] = Idle]
    /\ UNCHANGED <<hostVars, row, live, behind, pass, history>>

\* The page is lost, and asked for again.
Lose(c) ==
    /\ task[c].step = "reply"
    /\ task' = [task EXCEPT ![c] = Idle]
    /\ behind' = [behind EXCEPT ![c] = @ \cup task[c].asked \cup task[c].gone]
    /\ UNCHANGED <<hostVars, row, live, copy, pass, history>>

-----------------------------------------------------------------------------
(* The Scanner pass: apply_reported_now and relist_library. *)

BeginPass ==
    /\ pass = NoPass /\ task[Backfill] = Idle
    /\ relist \/ reported # {}
    /\ pass' = [NoPass EXCEPT !.step = "drop", !.edited = reported]
    /\ reported' = {} /\ relist' = FALSE
    /\ UNCHANGED <<library, tags, events, row, live, behind, copy, task, history>>

\* Rows are dropped; those whose tags a request holds come back as they were.
DropRows(dropped) ==
    /\ row' = [p \in Paths |-> IF p \in dropped THEN 0 ELSE row[p]]
    /\ overtaken' = (overtaken \ dropped) \cup (dropped \cap InHand)
    /\ replaced' = replaced \ dropped

\* Mutant: the edited rows are left.
DropNothing ==
    /\ pass.step = "drop"
    /\ DropRows({})
    /\ pass' = [pass EXCEPT !.step = "list"]
    /\ UNCHANGED <<hostVars, live, behind, copy, task>>

\* drop_track_tags of the edits, before anything is filed.
Drop ==
    /\ pass.step = "drop"
    /\ DropRows(pass.edited)
    /\ pass' = [pass EXCEPT !.step = "list"]
    /\ UNCHANGED <<hostVars, live, behind, copy, task>>

\* track_paths
List ==
    /\ pass.step = "list"
    /\ pass' = [pass EXCEPT !.step = "index", !.listed = TRUE, !.listing = library]
    /\ UNCHANGED <<hostVars, row, live, behind, copy, task, history>>

\* replace_track_index drops the rows of what is no longer listed.
Index ==
    /\ pass.step = "index"
    /\ DropRows(Paths \ pass.listing)
    /\ pass' = [pass EXCEPT !.step = "record"]
    /\ UNCHANGED <<hostVars, live, behind, copy, task>>

\* Mutant: what a listing shows is filed, and no edit.
RecordListing ==
    /\ pass.step = "record"
    /\ LET moved == (pass.listing \ live) \cup (live \ pass.listing) IN
       behind' = [c \in Clients |-> behind[c] \cup moved]
    /\ live' = pass.listing
    /\ pass' = [NoPass EXCEPT !.step = "backfill"]
    /\ UNCHANGED <<hostVars, row, copy, task, history>>

\* record_changes: every client is behind by what the pass files.
Record ==
    /\ pass.step = "record"
    /\ LET moved == (pass.listing \ live) \cup (live \ pass.listing) \cup (pass.edited \cap live) IN
       behind' = [c \in Clients |-> behind[c] \cup moved]
    /\ live' = pass.listing
    /\ pass' = [NoPass EXCEPT !.step = "backfill"]
    /\ UNCHANGED <<hostVars, row, copy, task, history>>

-----------------------------------------------------------------------------
Host == \E p \in Paths : Changing(p) \/ Edit(p) \/ RemoveFile(p) \/ AddFile(p)
Request ==
    \/ \E b \in Browsers : Answer(b) \/ \E page \in SUBSET live : Browse(b, page)
    \/ \E c \in Clients : Ask(c) \/ Apply(c) \/ Lose(c)
    \/ \E t \in Tasks : Look(t) \/ Fetch(t) \/ FetchFails(t) \/ Put(t)
    \/ BeginBackfill
Scan == BeginPass \/ Drop \/ List \/ Index \/ Record

Next == Host \/ Request \/ Scan

Spec == Init /\ [][Next]_vars

-----------------------------------------------------------------------------
(* Properties. *)

\* No pass has anything left to do, and nobody is reading tags.
AtRest ==
    /\ reported = {} /\ ~relist /\ pass = NoPass
    /\ \A t \in Tasks : task[t] = Idle
Settled(p) == p \notin overtaken \cup replaced

\* At rest the rows hold the host's tags, however reads, edits, backfill bursts
\* and passes interleaved: but for a row a request put back after it was dropped,
\* and a file that left and came back unseen (drop_track_tags, put_track_tags).
RowsCurrent ==
    AtRest => \A p \in live : Settled(p) => row[p] \in {0, tags[p]}

\* At rest a client that has read to the head holds the library with its tags:
\* a row is dropped before the edit that staled it is filed, so a page that
\* serves the change cannot serve the old tags (relist_library, items).
ClientsCurrent ==
    AtRest => \A c \in Clients : behind[c] = {} =>
        \A p \in Paths : Settled(p) => copy[c][p] = IF p \in library THEN tags[p] ELSE 0

\* The tags of an edited file are "dropped so the next read refetches them"
\* (commands/library.rs), so the rows at rest hold no tags from before an edit.
DroppedIsRefetched ==
    AtRest => \A p \in live \ replaced : row[p] \in {0, tags[p]}
=============================================================================
