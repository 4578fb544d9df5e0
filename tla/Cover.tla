------------------------------- MODULE Cover -------------------------------
(***************************************************************************)
(* The album cover cache: the index in memory, its tables in the store,    *)
(* the content-addressed files, the build, and the covers of tracks with   *)
(* no album.                                                               *)
(*                                                                         *)
(* A pass lists the albums, keeps the covers whose file is older than the  *)
(* last check, forgets those reported, fetches what is missing, prunes the *)
(* files nothing names and saves.  Passes are serialized by the reconcile  *)
(* guard; requests store covers of their own beside them.                  *)
(***************************************************************************)
EXTENDS Integers

CONSTANTS Albums,     \* albums, each by the track that represents it
          Singles,    \* other tracks, with no album: each keeps a cover of its own
          MaxEvents,  \* bound on artwork changes
          MaxTime     \* bound on the clock, in seconds

Tracks == Albums \cup Singles

VARIABLES now,        \* the wall clock
          art,        \* artwork of each track: 0 is none, and a content is its hash
          mtime,      \* modified time of each track's file
          due,        \* changes reported that no pass has applied
          events,     \* artwork changes so far
          stopping,   \* Core.stopping
          warmed,     \* paths is filled
          covers,     \* covers, by album; 0 is none
          noArt,      \* albums known to have none
          items,      \* item covers in memory, by track
          disk,       \* the tables: covers, noArt, last check, items
          files,      \* cover files, by content hash
          build,      \* the pass: its step, and what it holds
          ask,        \* the request out for each track, by how far it is
          unseen,     \* history: changes nothing reported, since the last listing
          overtaken,  \* history: a change came while an answer to it was on its way,
                      \* or its report was lost with a pass or the process
          crossed     \* history: files were pruned while a request had one to name

trackVars == <<now, art, mtime, due, events>>
memory == <<stopping, warmed, covers, noArt, items>>
history == <<unseen, overtaken, crossed>>
vars == <<trackVars, memory, disk, files, build, ask, history>>

None == [kept |-> FALSE, hash |-> 0, modified |-> 0]     \* no item cover
Idle == [at |-> "idle", scope |-> "none", changed |-> {}, todo |-> {}, queued |-> {}, kept |-> {}]
NoAsk == [at |-> "none", hash |-> 0, modified |-> 0]

Init ==
    /\ now = 1
    /\ art = [t \in Tracks |-> 1] /\ mtime = [t \in Tracks |-> 0]   \* one picture, on all
    /\ due = {} /\ events = 0 /\ stopping = FALSE /\ warmed = FALSE
    /\ covers = [a \in Albums |-> 0] /\ noArt = {} /\ items = [s \in Singles |-> None]
    /\ disk = [covers |-> covers, noArt |-> {}, last |-> 0, items |-> items]
    /\ files = {} /\ build = Idle /\ ask = [t \in Tracks |-> NoAsk]
    /\ unseen = {} /\ overtaken = {} /\ crossed = FALSE

-----------------------------------------------------------------------------
(* The library. *)

Tick ==
    /\ now < MaxTime
    /\ now' = now + 1
    /\ UNCHANGED <<art, mtime, due, events, memory, disk, files, build, ask, history>>

\* Artwork changes: in the file, beside it with its time left alone, or without
\* MusicBee saying so.
Change(t) ==
    /\ events < MaxEvents
    /\ events' = events + 1
    /\ \E v \in {0, events + 2} : v # art[t] /\ art' = [art EXCEPT ![t] = v]
    /\ \E told \in {{}, {t}}, written \in BOOLEAN :
          /\ told # {} \/ written
          /\ due' = due \cup told
          /\ mtime' = IF written THEN [mtime EXCEPT ![t] = now] ELSE mtime
          /\ unseen' = IF told = {} THEN unseen \cup {t} ELSE unseen
          /\ overtaken' = IF ask[t].at # "none" \/ (told = {} /\ (build.at # "idle" \/ mtime[t] = now))
                          THEN overtaken \cup {t} ELSE overtaken
    /\ UNCHANGED <<now, memory, disk, files, build, ask, crossed>>

-----------------------------------------------------------------------------
(* The pass. *)

Scope(scope) == build' = [build EXCEPT !.scope = scope, !.at = "begun"]

\* remove_items: nothing at all when memory knows none of them.
DropItems(keys) ==
    LET gone == IF \E s \in keys \cap Singles : items[s].kept THEN keys ELSE {} IN
    /\ items' = [s \in Singles |-> IF s \in gone THEN None ELSE items[s]]
    /\ disk' = [disk EXCEPT !.items = [s \in Singles |-> IF s \in gone THEN None ELSE @[s]]]

\* Init, a library switch or a cover rebuild, which forgets what had no artwork.
Reconcile ==
    /\ build.at = "idle" /\ ~stopping
    /\ \/ /\ Scope("both")
          /\ UNCHANGED <<noArt, items, disk>>
       \/ /\ Scope("covers")
          /\ noArt' = {}
          /\ DropItems({s \in Singles : items[s].kept /\ items[s].hash = 0})
    /\ UNCHANGED <<trackVars, stopping, warmed, covers, files, ask, history>>

\* A pass of the scanner takes what was reported.
Delta ==
    /\ build.at = "idle" /\ ~stopping /\ due # {}
    /\ build' = [build EXCEPT !.scope = "delta", !.at = "begun", !.changed = due]
    /\ due' = {}
    /\ UNCHANGED <<now, art, mtime, events, memory, disk, files, ask, history>>

\* The host does not list its albums: the pass ends, with what was reported.
ListFails ==
    /\ build.at = "begun" /\ build.scope = "delta"
    /\ build' = Idle
    /\ overtaken' = overtaken \cup build.changed
    /\ UNCHANGED <<trackVars, memory, disk, files, ask, unseen, crossed>>

\* warm_up: keep a stored cover whose file is older than the last check.
Current(a) == mtime[a] < disk.last

WarmUp ==
    /\ build.at = "begun"
    /\ warmed' = TRUE
    /\ covers' = [a \in Albums |-> IF Current(a) THEN disk.covers[a] ELSE 0]
    /\ noArt' = {a \in disk.noArt : Current(a)}
    /\ build' = [build EXCEPT !.at = IF build.scope = "delta" THEN "warmed" ELSE "forgotten"]
    /\ unseen' = unseen \ Albums
    /\ UNCHANGED <<trackVars, stopping, items, disk, files, ask, overtaken, crossed>>

\* forget_tracks: drop what is known of the artwork of the tracks reported.
Forgotten == build.changed

Forget ==
    /\ build.at = "warmed"
    /\ DropItems(Forgotten)
    /\ covers' = [a \in Albums |-> IF a \in Forgotten THEN 0 ELSE covers[a]]
    /\ noArt' = noArt \ Forgotten
    /\ build' = [build EXCEPT !.at = "forgotten"]
    /\ UNCHANGED <<trackVars, stopping, warmed, files, ask, history>>

\* What a build fetches: a cover not known, or one whose file is gone.
Missing == {a \in Albums \ noArt : covers[a] = 0 \/ covers[a] \notin files}

\* persist_at: the tables become what memory holds.
Persisted == [disk EXCEPT !.covers = covers, !.noArt = noArt, !.last = now]

\* Mutant: the build does not save the index it starts from.
StartAsSaved == disk
StartPersisted == Persisted

Begin ==
    /\ build.at = "forgotten"
    /\ build' = [build EXCEPT !.at = "fetching", !.todo = Missing]
    /\ disk' = StartPersisted
    /\ UNCHANGED <<trackVars, memory, files, ask, history>>

\* A checkpoint may or may not be full: what it holds is saved now or at the end.
Checkpoint(saved) == disk' = saved \/ disk' = disk

\* The producer fetches one album's artwork, finds none, or cannot.
Fetch(a) ==
    /\ build.at = "fetching" /\ a \in build.todo /\ ~stopping
    /\ \/ /\ art[a] # 0
          /\ build' = [build EXCEPT !.todo = @ \ {a}, !.queued = @ \cup {<<a, art[a]>>}]
          /\ UNCHANGED <<noArt, disk>>
       \/ /\ art[a] = 0
          /\ build' = [build EXCEPT !.todo = @ \ {a}]
          /\ noArt' = noArt \cup {a}
          /\ Checkpoint([disk EXCEPT !.noArt = @ \cup {a}])
       \/ /\ build' = [build EXCEPT !.todo = @ \ {a}]
          /\ UNCHANGED <<noArt, disk>>
    /\ UNCHANGED <<trackVars, stopping, warmed, covers, items, files, ask, history>>

\* A worker resizes it, writes the file and indexes it; a store may fail.
Work(a, hash) ==
    /\ <<a, hash>> \in build.queued
    /\ build' = [build EXCEPT !.queued = @ \ {<<a, hash>>}]
    /\ \/ /\ files' = files \cup {hash}
          /\ covers' = [covers EXCEPT ![a] = hash]
          /\ Checkpoint([disk EXCEPT !.covers[a] = hash])
       \/ UNCHANGED <<files, covers, disk>>
    /\ UNCHANGED <<trackVars, stopping, warmed, noArt, items, ask, history>>

\* Mutant: item covers are not counted as references.
ReferencedByAlbums == {covers[a] : a \in Albums}
\* prune_orphans reads what is referenced, then deletes the other files.
Referenced == {covers[a] : a \in Albums} \cup {items[s].hash : s \in Singles}

Drained ==
    /\ build.at = "fetching" /\ build.queued = {}
    /\ build.todo = {} \/ stopping
    /\ build' = [build EXCEPT !.at = "pruning", !.todo = {}, !.kept = Referenced]
    /\ UNCHANGED <<trackVars, memory, disk, files, ask, history>>

\* A file of that name that a request is about to index, or has in this window.
Prune ==
    /\ build.at = "pruning"
    /\ files' = files \cap build.kept
    /\ crossed' = (crossed \/ \E hash \in files \ build.kept :
                      \/ \E t \in Tracks : ask[t].at \in {"stored", "saved"} /\ ask[t].hash = hash
                      \/ hash \in Referenced)
    /\ build' = [build EXCEPT !.at = "pruned"]
    /\ UNCHANGED <<trackVars, memory, disk, ask, unseen, overtaken>>

Finish ==
    /\ build.at = "pruned"
    /\ disk' = Persisted
    /\ build' = Idle
    /\ UNCHANGED <<trackVars, memory, files, ask, history>>

-----------------------------------------------------------------------------
(* Requests: an album's cover that is missing, a track's own. *)

\* store_single_cover misses, and fetches.
AskAlbum(a) ==
    /\ ask[a] = NoAsk /\ warmed /\ covers[a] = 0 /\ art[a] # 0
    /\ ask' = [ask EXCEPT ![a] = [at |-> "fetched", hash |-> art[a], modified |-> 0]]
    /\ UNCHANGED <<trackVars, memory, disk, files, build, history>>

\* Covers::item: the file's time is read before its artwork.
AskItem(s) ==
    /\ ask[s] = NoAsk
    /\ ~(items[s].kept /\ items[s].modified = mtime[s] /\ items[s].hash # 0)
    /\ ask' = [ask EXCEPT ![s] = [at |-> "timed", hash |-> 0, modified |-> mtime[s]]]
    /\ UNCHANGED <<trackVars, memory, disk, files, build, history>>

FetchItem(s) ==
    /\ ask[s].at = "timed"
    /\ ask' = [ask EXCEPT ![s].at = "fetched", ![s].hash = art[s]]
    /\ UNCHANGED <<trackVars, memory, disk, files, build, history>>

\* store_cover writes the file; the index entry follows.
StoreFile(t) ==
    /\ ask[t].at = "fetched"
    /\ files' = files \cup ({ask[t].hash} \ {0})
    /\ ask' = [ask EXCEPT ![t].at = "stored"]
    /\ UNCHANGED <<trackVars, memory, disk, build, history>>

IndexAlbum(a) ==
    /\ ask[a].at = "stored"
    /\ covers' = [covers EXCEPT ![a] = ask[a].hash]
    /\ ask' = [ask EXCEPT ![a] = NoAsk]
    /\ UNCHANGED <<trackVars, stopping, warmed, noArt, items, disk, files, build, history>>

\* cache_item_cover: the table first, memory after its commit.
Kept(s) == [kept |-> TRUE, hash |-> ask[s].hash, modified |-> ask[s].modified]

SaveItem(s) ==
    /\ ask[s].at = "stored"
    /\ disk' = [disk EXCEPT !.items[s] = Kept(s)]
    /\ ask' = [ask EXCEPT ![s].at = "saved"]
    /\ UNCHANGED <<trackVars, memory, files, build, history>>

IndexItem(s) ==
    /\ ask[s].at = "saved"
    /\ items' = [items EXCEPT ![s] = Kept(s)]
    /\ ask' = [ask EXCEPT ![s] = NoAsk]
    /\ UNCHANGED <<trackVars, stopping, warmed, covers, noArt, disk, files, build, history>>

-----------------------------------------------------------------------------
(* Stop and restart; a crash is a restart that no stop came before. *)

Stop ==
    /\ ~stopping
    /\ stopping' = TRUE
    /\ UNCHANGED <<trackVars, warmed, covers, noArt, items, disk, files, build, ask, history>>

\* A report that no pass has applied is lost with the process.
Restart ==
    /\ stopping' = FALSE /\ warmed' = FALSE
    /\ covers' = [a \in Albums |-> 0] /\ noArt' = {} /\ items' = disk.items
    /\ build' = Idle /\ ask' = [t \in Tracks |-> NoAsk] /\ due' = {}
    /\ overtaken' = overtaken \cup due
                       \cup (IF build.at \in {"begun", "warmed", "forgotten"} THEN build.changed ELSE {})
    /\ UNCHANGED <<now, art, mtime, events, disk, files, unseen, crossed>>

Next ==
    \/ Tick \/ Reconcile \/ Delta \/ ListFails \/ WarmUp \/ Forget
    \/ Begin \/ Drained \/ Prune \/ Finish \/ Stop \/ Restart
    \/ \E t \in Tracks : Change(t) \/ StoreFile(t)
    \/ \E a \in Albums : Fetch(a) \/ AskAlbum(a) \/ IndexAlbum(a)
    \/ \E a \in Albums, hash \in 1 .. MaxEvents + 1 : Work(a, hash)
    \/ \E s \in Singles : AskItem(s) \/ FetchItem(s) \/ SaveItem(s) \/ IndexItem(s)

Spec == Init /\ [][Next]_vars

-----------------------------------------------------------------------------
(* Properties. *)

TypeOK ==
    /\ now \in 1 .. MaxTime /\ events \in 0 .. MaxEvents
    /\ covers \in [Albums -> 0 .. MaxEvents + 1] /\ noArt \subseteq Albums
    /\ disk.last \in 0 .. MaxTime /\ disk.noArt \subseteq Albums
    /\ build.queued \subseteq Albums \X (1 .. MaxEvents + 1)
    /\ files \subseteq 1 .. MaxEvents + 1

\* With no pass running, an album is shown its track's artwork or none at all,
\* and is held to have none only when it has none; a single's own cover, while
\* the file's time answers for it, is the file's.  (Not those whose change came
\* while an answer was being made, saved under a later check, or whose report
\* was lost: nothing puts these right.)  warm_up, forget_tracks, persist_at and their order carry it
\* over crashes.
CoversCurrent ==
    build.at = "idle" =>
        /\ \A a \in Albums \ (due \cup unseen \cup overtaken) : warmed /\ ask[a] = NoAsk =>
              covers[a] \in {0, art[a]} /\ (a \in noArt => art[a] = 0)
        /\ \A s \in Singles \ (due \cup overtaken) : ask[s] = NoAsk =>
              (items[s].kept /\ items[s].modified = mtime[s] => items[s].hash = art[s])

\* A prune takes no file that an item cover names, though albums share files by
\* content with them, unless the request that was storing it crossed the prune.
FilesKept == ~crossed => \A s \in Singles : items[s].hash \in files \cup {0}

\* cover/store.rs:450: a manual rebuild asks again for every album that had no
\* artwork.  (It does not: warm_up reads them back from the store.)
RebuildAsksAgain ==
    [][build.at = "forgotten" /\ build'.at = "fetching" /\ build.scope = "covers"
          => \A a \in Albums : covers[a] = 0 => a \in build'.todo]_vars

\* cover/store.rs:322: an album build does not prune the files of item covers.
\* (It does, when the cover is being stored while it runs.)
BuildKeepsItemFiles == \A s \in Singles : items[s].hash \in files \cup {0}

=============================================================================
