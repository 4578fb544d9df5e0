# TLA+ models of the MusicBee Remote plugin core

The repository is a MusicBee plugin that lets phones and browsers control the
player and keep a copy of its library. A thin C# adapter is loaded by MusicBee
and calls a Rust core (`packages/mbrc-core`), which holds all the logic: a
command server for two protocols (the legacy V4 and V6), a web server, the
library caches and their change log, permissions, updates and diagnostics.

This directory models the parts of the core where several actors meet. Source
paths below are relative to `src/packages/mbrc-core/src/` unless they start
with `src/`.

## 1. Inventory

| Component | State it keeps | Operations | Interacts with | What is hard | What makes it correct |
|---|---|---|---|---|---|
| Change log `library_changes.rs` | two redb tables, five counters | `record`, `reset`, `read`, `head` | filed by passes, paged by clients | pages interleave with passes; bounded tombstones; resets; lost pages | a client that reads to the head holds the library |
| Scanner `server/scanner.rs`, reconcile `server/mod.rs` | `LibraryEvents`, two nudges, the `reconciling` flag | notifications, `apply_reported_now`, `reconcile_library`, `rebuild`, backfill | host threads, rebuild threads, metadata cache, log | one guard and many contenders; host failures; restarts | no edit is lost; index and log come to rest on the library |
| Metadata cache `metadata_cache.rs` | `validated`, browse lists, path index, tag rows, sort orders, watermark | `reconcile`, `invalidate`, `replace_track_index`, `put_track_tags`, `drop_track_tags` | every browse and sync request | check then write; fills that outlast a drop | rows are the host's tags |
| Library sync `commands_v6/library_sync.rs`, `commands_v6/track.rs` | none (reads the log and the rows) | `changes`, `items`, `tags_for_paths` | log, rows, host | the log read and the tags read are apart | the page that serves a change serves its tags |
| Registry `server/registry.rs` | slots per address, connections, groups | `admit_ip`, `register`, `unregister`, `touch`, `release_ip` | accept loop, every connection task | eviction and supersession are asynchronous | slots are what lives; one main a client |
| Connection tasks `server/connection.rs`, `session.rs`, `session_v6.rs` | protocol state, permit, clocks, writer | read, handshake, ping tick, close | registry, broadcaster, party mode | the order of close; who holds the writer's sender | closed connections end; no push is lost |
| Broadcaster `server/broadcaster.rs` | senders | subscribe, unsubscribe, broadcast | writers | dead senders | exactly the open mains |
| Lifecycle `state.rs`, `server/mod.rs` | `STATE`, the net thread, `stopping` | init, start, stop, shutdown, rebuild | the host, plain threads that outlive a stop | lost wake-up, joins under the lock | a stop returns and leaves nothing running |
| Now playing `nowplaying.rs`, `server/notifications.rs`, `server/monitor.rs` | cached track, lyrics, player; the play state sent last | seed, refresh, poll | host notifications, clients | fetch before lock; poll against notification | the mirror ends at what plays |
| Play queue `server/list_changes.rs`, `commands_v6/nowplaying_list.rs` | list version, mark | count, announce, read, guarded change | host notifications, clients | a change is made, counted and announced at three times | a stale change is refused, every change announced |
| Media `media.rs`, `server/media.rs` | listings and tags per category | relist, tags, forget | timer, reports, requests | late inserts | rows are of the current listing |
| Cover store `cover/store.rs` | hashes, files, pending | build, checkpoint, delta | reconcile, stop flag | stops between items | covers are the files' artwork; no file in use is pruned |
| Updates `updates/`, `packages/mbrc-release`, `packages/mbrc-helper` | status, offer, busy flag, staged bundle, backup | check, download, skip, apply, restore | panel, elevated helper | jobs and clicks race; crashes between files | a status tells what is on disk |
| Pairing, clients, permissions `web/auth.rs`, `server/clients.rs`, `server/permissions/` | codes, tokens, records, watchers | redeem, revoke, identify, watch | web requests, panel | read, unlock, write | a revoked browser stays revoked |
| Diagnostics `diagnostics/capture.rs` | session, log level | start, stop, expire | watchdog, panel | expiry against a new start | level raised exactly while capturing |
| Store `store/mod.rs` | one redb file | open, read, write | all caches | recreated when it cannot open | a transaction is atomic |
| Web app, connection `api/client.ts`, `event-stream.ts`, `App.vue` | socket, stream, timer, attempts, calls in flight, what is shown | connect, disconnect, call, retry, fall back, pair | web server, the browser | five sources of events over two roads; late refusals | a page with a road shows it, one without can try |
| Playlists `commands_v6/playlist.rs`, `stores/playlist.ts` | the pages held and one version; the core keeps nothing | read, append, remove, move, add, delete | MusicBee's users, other clients | pages and edits of slots while the list moves | an edit reaches the tracks that were shown |
| Web server `web/`, wire formats, discovery, configuration, FFI, installer, tools, the other stores of the web app, C# host | none that interleaves, or pure I/O | | | | |

Interactions: the host's threads call the core (notifications, panel commands,
start and stop). The core's network runtime runs one task per connection, the
Scanner, the monitor, the list-change and media tasks; requests and passes run
on its blocking workers. Rebuilds, library switches and update jobs run on plain
threads. All of them share the registry, the caches, the one store and the
reconcile guard, and they wake each other with permits (`Notify`).

The hazards these interactions create are listed one by one, each at its line,
in `PROJECT.json`.

## 2. Plan

What was planned, in order of how much rests on each, and where it stands:

1. `ChangeLog`, `Replica`, `ChangeLogProofs`: what a syncing client is promised, and
   that the log keeps it. *Modelled, checked, its safety and the refinement proved.*
2. `Connections`, `ConnectionsProofs`: the registry, the tasks and the broadcast set.
   *Modelled, checked, its safety proved.*
3. `LibraryScan`, `LibraryScanProofs`: reports, passes, the guard, restarts. *Modelled,
   checked, its safety proved.*
4. `TagSync`, `TagSyncProofs`: the rows behind the pages. *Modelled, checked, proved.*
5. `Lifecycle`: init, start, stop, shutdown, and what outlives them. *Modelled, checked,
   its safety proved in `RuntimeProofs`.*
6. `Updates`, `Install`: the offer, the staged bundle, the elevated helper. *Modelled,
   checked, proved in `RecordsProofs`.*
7. `Party`: pairing, identities, roles and the watch. *Modelled, checked, proved in
   `RecordsProofs`.*
8. `NowPlaying`, `PlayQueue`: the mirror and the list version. *Modelled, checked, their
   safety proved in `NowPlayingProofs`.*
9. `Media`, `Cover`, `Capture`. *Modelled, checked, their safety proved, the first two in
   `LibraryProofs` and the third in `RuntimeProofs`.*
10. `WebClient`, `Playlists`: the web app's connection, and a playlist edited from
    it. *Modelled, checked, their safety proved in `RuntimeProofs` and `RecordsProofs`.*

What would come next: the queue store of the web app, which pages and edits as the
playlist store does; and abstract specifications of the rows and of the mirror, of the
kind `Replica` is for the log.

## 3. The modules

### `ChangeLog`: the log and its readers

State: the tables `TRACK_CHANGES` (`known`) and `CHANGE_LOG` (`log`), the
counters of `META` (`epoch`, `generation`, `floor`, `tombstones`, `inLibrary`),
and for each reader what it sends next, its copy and the page in flight. A
passed listing is `RecordListing`, reported edits are `RecordEdits`; both run
`File`, which is `record_in` with the trailing `ForgetOldest`. `Reset` is
`reset`. `Serve` is one read transaction of `read`: refusal (`Unanswerable`),
the window of the first page, the rows pending, and the continuation. `Apply`
and `Lose` are the client, which is not in the core; it is modelled from
`docs/protocol-v6.md` and from how `tools/mbrc-cli/src/conform.rs` pages.

Track contents are abstracted to the generation they were filed under, so
"the copy is exact" says each track is at its latest change. Epochs are random
in the code and drawn once; in the model they count up, as a repeat is taken to
be impossible.

### `Replica`: what the log promises

The same readers without log, cursors, pages or tombstones: a library that
changes, and for each reader a copy and the paths it has *settled*, those it need
not ask about again. Settled paths are right in the copy, reading on unsettles
none, and only a change of the track, or of what the server can still answer,
does; a reader may start over. `ChangeLog!ImplementsReplica` is the refinement:
the library is the live rows of `known`, the settled paths are those the read has
walked past (`Settled`, which is empty once the log can no longer answer).

### `Connections`: sockets, slots, groups and pushes

Each connection goes `none`, `open` (in the select loop), `draining` (left it,
waiting for its writer) and `none`. `Accept` and `AcceptByEvicting` are the
accept loop with `admit_ip`; `Handshake` and `Rehandshake` the protocol
handshakes with `register` and, for a main, the subscription; `Leave`,
`TakePermit` and `Retire` the three ways out of the loop, all through `Close`;
`Release` the end of a task; `Die` a task dropped by a panic, where only the
slot's guard runs. `watched` is the set of connections whose sender party mode
holds: it goes when the writer has failed. Clocks are ages counted in `Tick`,
capped at `ReapAfter`.

### `LibraryScan`: reports, passes and the guard

Host actions queue reports and nudge; the Scanner wakes, takes the batch, and
either begins a pass or puts the batch back. A rebuild or switch is a waiting
thread that runs a reconcile if it gets the guard. A pass walks the steps of the
code: check or fingerprint, validate, list, delta, index, record, mark, finish,
each with the host failing where the code handles it. `Start` and `Stop` end and
begin a core over the same store. The watermark is the set of files the host
would report since (`since`). History variables set apart what the code does not
promise: `silent` (the host failed during the last pass), `crossed` (a command
met a running pass), `unheard` (edits with no watermark or no path), so the
properties speak about everything else.

### `TagSync`: tag rows and copies

A request is `look` (read the rows), `fetch` (one host call for the misses),
`put` (write back) and, for a sync request, the reply its client applies. A pass
is `drop`, `list`, `index`, `record`, `backfill`. Only the backfill shares the
pass's guard. A tag value is the number of writes of its file. `overtaken` marks
rows dropped while a request held their old tags, `replaced` files that came
back while something of them was still held; the properties exclude these two.

Several paths are looked up in one step, though each has a read of its own; the
properties are of single paths, so this hides nothing they could see. Every edit
is one of tags; a rating takes the shorter pass of `LibraryScan`.

### `Lifecycle`: what starts and stops, and what outlives it

The host's calls hold the `STATE` lock to their end, so `call` is the one in
hand: `Initialize`, `BeginStopping`, `Start` ... `Started`, `Stop` or `Shutdown`
... `Signal` ... `Joined`. The network thread goes `binding`, `spawning` (it has
reported the bind, its select has not begun), `serving`, `leaving` (waiting for
the mDNS withdrawal), `draining` (its runtime waits for the blocking workers)
and is gone. `Signal` is `notify_waiters`, heard only while `serving`. Plain
threads (`Spawn`, `StartupCheck`) keep the core they were given, and a core keeps
its database open; `file` counts the store files made, so a second core that
finds the file in use replaces it (`Initialize`, which has `Db::open`). Whether
the removal and the creation succeed is the operating system's choice.
`announced` (the host called `begin_stopping`) and `unheard` (a stop woke
nobody) are history, for the properties to set those cases apart.

### `NowPlaying`: the mirror of the player

MusicBee has a track (the number of its changes), a play state and one mode,
which stands for the four only the poll announces. Each change raises a
notification later, in any order (`due`), but for the modes MusicBee changes
silently. A host thread, a request that finds the mirror cold, or the seeder runs
one refresh: `AskPlayer`, `AskInfo`, `AskLyrics` are its host calls, `Store` its
one write of the lock, `Flag`, `Snapshot`, `Moved` and `Send` what follows. The
poll fetches and stores apart (`PollFetch`, `PollStore`); a permit of `poll_now`
is spent whether or not anyone listens. `overtaken` and `crossed` record that an
older answer was stored over a newer one, which the code does not prevent: the
track then stays wrong until the next notification, the player until the next
poll. `MirrorAtRest` says it is right otherwise, `PlayerComesRound` that the poll
repairs the player while a client is connected. A play state also counts as crossed
when two threads send what they recorded in the other order: `play_state_moved` records
under a lock and the broadcast comes after it, so clients can end with the first of
two states, and a repeat of the second is then held back as already sent. Sending the
state that is MusicBee's, and recorded last, ends it.

### `PlayQueue`: the version of the queue

The queue is the number of its changes. A change in MusicBee is notified later
(`QueueNotified`), one through the core is counted by the request (`Bump`) and by
its notification again. The task settles, takes the mark, announces and returns
(`Settle` to `Return`), with a permit that outlives a take. A client reads the page
and then the version, as the code does; `Check` compares, `Mutate` calls the host.

### `Media`: one category of files

`Look`, `List` and `Insert` are `paths`; `Begin`, `Hit`, `Fetch`, `Put` and `Reply`
are `tags`, which keeps what it fetched only if the listing is the one it began
with (`Belongs`). The task wakes on a nudge, a timer or the budget, re-lists,
reads the tags again and tells clients when either changed (`Counts`). Categories
share nothing but the task and its budget, so one is modelled.

### `Cover`: the covers of albums and of single tracks

Artwork is a content, which is its hash and so names its file. A pass walks
`Reconcile` or `Delta`, `WarmUp`, `Forget`, `Begin`, then `Fetch` and `Work` for each
album with a `Checkpoint` after any, `Drained`, `Prune` and `Finish`. Requests
store a cover of their own beside it (`AskAlbum`, `AskItem` to `IndexItem`). `Stop`
is the stopping flag, `Restart` a crash or a clean end: only the tables and the
files stay. The week after which a track without artwork is asked again is left
out: it only adds questions.

### `Updates` and `Install`: the offer, the bundle and the helper

`Updates` is one session of MusicBee after another. A job (`check` or `download`)
holds the busy flag and runs step by step; the panel's skip runs beside it, under
no flag, and so does the sweep of a start. A release is a version and an edition,
which is its ETag: `CheckAsks` may be answered "not modified". `Stages` writes
directory, files and marker in the order of the code.

`Install` is what the marker leads to: `Launch` refuses what is no upgrade; a
helper verifies, waits for MusicBee to exit (a loaded file cannot be written, so
MusicBee may come back across the swap), backs up in memory, writes file by file,
and restores when a write fails. It can be killed at any step and a second can be
launched beside it. `broken` and `doubled` record these two, from which the code
cannot recover.

### `Party`: who may do what

Pairing codes, tokens, roles and identities are maps in memory with a table each.
Every operation is a list of steps (`RedeemSteps`, `SetRole`, `Touch`, ...) run by
`Run` one at a time, so that others run between the change in memory, the write of
the table and the wake-up, and a crash (`Restart`) cuts between any two. `Hello` is
the V6 handshake with `identify` and the roles; `Watch` to `Close` the watcher that
tells a client its permissions.

### `Capture`: a diagnostics capture and the log level

The panel's thread runs the host's calls one after another, each a list of steps
(`Start`, `Stop`, `Cancel`, `ApplySettings`, `Boot`); a capture takes or gives up
the session under the lock and sets the level, the record on disk and the watchdog
after it. A watchdog thread per capture ends one nobody stopped, also in steps; a
writer thread zips the bundle. The order of the host's own calls at a start, and
its comparison with the settings of the core, are of the C# adapter.

### `WebClient`: the web app's connection

The socket, the event stream and the HTTP calls of one browser, with the server
and the network reduced to what they do to them: the server runs (`up`), lets the
browser in (`admits`), holds its client id for another (`taken`), and a WebSocket
opens on this network at all (`opens`). `OpenSocket`, `Connect` and `Disconnect` are
the methods every handler is made of; `Chase` is `scheduleReconnect` with
`startEventStream`. A socket is `cut` between the loss of its server end and the
close event. `AskedAgain` is what `App.vue` does with a refusal: pair, or connect
again. A browser that is not admitted learns it by HTTP alone, as a refused upgrade
tells a page nothing. `left` (calls in flight on a socket that was let go) and
`misled` (an identity refused beside a stream, whose spinner nothing takes away)
are history.

### `Playlists`: a playlist shown and edited

The core keeps nothing of a playlist: it reads it whole for a page (`ServePage`)
and for an edit (`Check`), and writes it whole (`Write`), with MusicBee free to move
it in between. Requests of one socket are answered in order (`wire`). The store holds
the pages it has read, appended (`TakePage`), and the version of the last; `Slots` is
an edit of rows as they are shown. The version is a hash of the ordered paths, here
the list itself: two lists of one hash are taken to be impossible. `harm` records
edits that reached other tracks than those shown (`lost`; `stitched` when the rows
held were of more than one version) and writes over a change the check had not
seen (`overwrote`).

## 4. The runs

Modules that share no state are checked side by side in one run, each from its own
initial states: the composite has a constant `side` that says whose behaviour it
is, so it has the sum of their states and not the product, and a property of one is
checked in every state of it. `MCLibrary` runs `TagSync`, `LibraryScan`, `Cover` and
`Media`; `MCChangeLog` runs `ChangeLog`, `LibraryScan` and `Media`; `MCRecords` runs `Install`,
`Party`, `Updates` and `Playlists`; `MCRuntime` runs `Lifecycle`, `Connections`, `Capture`
and `WebClient`; `MCNowPlaying` runs `NowPlaying` and `PlayQueue`. A module that appears twice has its safety
checked on a larger instance and its liveness on a smaller one. Fairness is stated for
all sides of a run: those that stand still are in an initial state where none of
their fair actions is enabled, so it asks nothing of them.

| Run | Bounds | Question |
|---|---|---|
| `changelog` | log: 2 paths, 1 reader, 1 tombstone, pages of 1, 4 passes, 2 epochs. Passes: 2 paths, 2 things the host does. Media: one file, one event | the log, the copies, a reset, readers that start over, and the refinement; passes and copies that come to rest, with fairness |
| `connections` | 3 connections of one client at one address, caps of 2 | eviction, supersession, refusal, panics |
| `library` | rows: 2 paths, one browse, one client, 2 things the host does. Passes: 2 paths, 3 things the host does, all commands. Covers: an album and a single that share a picture, one change of artwork, a clock of 1. Media: one file, 2 events, one client | what is kept of the library settles on the host's, and edits survive guards, failures, restarts |
| `records` | party: a browser, two installations of one app, one request beside the panel, 2 panel operations, 2 tokens. Updates: 3 editions, 3 starts. Helper: 2 files, 2 helpers, 3 versions, 2 starts. Playlist: 2 tracks, pages of 1, 2 changes in MusicBee, 3 things asked | what outlives a session, and edits of what others edit |
| `runtime` | core: 2 workers, 2 plain threads, 3 cores. Connections: 2, a counted and a loopback address, of which one connection uses only the first. Capture: 2 captures, 2 applied settings, 2 starts. Web app: one call, 2 attempts, 3 changes of server and network | what must end or come round, with fairness |
| `now_playing` | mirror: 2 events, one thread of notifications, the seeder and the poll, so two sends never cross in the run; `MirrorCorrect` covers any number of threads. Queue: 2 clients, 2 changes | copies of what MusicBee shows, with fairness |
| `connections_end`, `cover_rebuild`, `lifecycle_stop`, `lifecycle_store`, `capture_level`, `playlist_moved` | a small instance that shows it | the findings below |

Why they are enough to be interesting: two paths and pages of one make reads
of more than one page, four passes fill the library, empty it path by path and put one
back, and with one tombstone forgetting happens at the second delete.
Three connections are a main, its successor and a newcomer. Three host events
are an edit, a command and a failure or restart around one pass. Two files make
a batch with a hit and a miss, and a swap that fails half way. An album and a single
with one picture share a file by content, which is what a prune could get wrong. Two
captures are one and the next, whose start an expiry of the first can cross. Three
things asked of a playlist are its first page, another and an edit of the first. Every
mutant of `PROJECT.json`, a bug in one definition each, is caught at these
bounds. Every bound is a constant (`MaxGeneration`, `MaxEpoch`, `MaxEvents`,
`MaxCores`, `MaxOps`, `MaxTokens`, `MaxEdition`, `MaxStarts`, `MaxCaptures`,
`MaxApplies`, `MaxChanges`, `MaxEdits`, `MaxAsks`, `MaxTime`; ages are capped at `ReapAfter`); since they stop the host,
not the core, the runs allow the system to stop (`CHECK_DEADLOCK FALSE`).

Symmetry: connections are interchangeable in the safety run of `Connections`, helpers in
`MCRecords`, paths in `MCLibrary`; no run with a liveness property uses it.

Type invariants: `TypeOK` of `ChangeLog`, `Connections`, `LibraryScan`, `TagSync`,
`Install` and `NowPlaying` is proved as it stands, as a part of the inductive invariant; for the
other modules the proofs state types of their own, over unbounded numbers.
`FloorNeverFalls` is proved and in no run.

Fairness. `ChangeLog`: a reader goes on asking and some replies arrive; nothing
is assumed of passes. `Connections`: a task takes a permit it has, its ping
ticks, and a writer nobody holds ends; clients owe nothing. `LibraryScan`: the
Scanner task, spawned threads and passes are scheduled and host calls return
(answer or fail). `Lifecycle`: a call in hand goes on, the network thread is
scheduled, and a worker's host call answers; nothing is owed by the mDNS daemon or
by plain threads. `NowPlaying` and `PlayQueue`: MusicBee raises what is due, its
calls return, tasks are scheduled; requests owe nothing. `Media`: reports arrive,
the budget comes back, a client told to read again does; the slow timer fires again
and again while a client is connected (strong fairness, for clients come and go), and a re-list
that is tried for ever in the end succeeds. `Capture`: a host call goes on, time
passes, watchdog and writer threads are scheduled. `WebClient`: the browser runs its
timers, reports what became of its roads and retries its stream, a server that runs
serves, and an HTTP call returns; readers, servers and networks owe nothing. All are what the runtime, the
operating system and the timers give.

### What the violations show

- `ClosedConnectionEnds`: a V6 main that leaves its loop waits for a writer that
  waits for party mode's sender; it ends only when a write to its peer fails.
- `RebuildAsksAgain`: a manual rebuild clears the albums known to have no artwork
  from memory, and the warm-up reads them back from the store before the build.
- `StopFinishes`: a start returns once the listener is bound, before the thread
  waits for the shutdown signal. A stop in between is signalled to nobody, and its
  join keeps the `STATE` lock for ever.
- `OnlyCorruptIsRecreated`: saving the settings shuts the core down and makes a
  new one. A rebuild thread that still keeps the old core has the store open, the
  open of the new one fails, and the file is removed and created empty.
- `CaptureIsAtDebug`: the host sets the saved level after the core has resumed a
  capture and raised it.
- `MovedPlaylistRefused`: `load` appends a page to rows of an earlier version and
  takes the version of the page. An edit of an earlier row passes the check of the
  core and reaches the track that has its slot now. An edit of rows of the version
  that is echoed never does (`AcceptedUnlessStitched`).

### What the docs say and the models refute

Each of these restates a comment of the code and has a counterexample in its
module, but no run of its own: the properties that are checked set the case
apart by a history variable. Adding the statement to a copy of the run's
configuration shows it.

| Statement | In | What breaks it |
|---|---|---|
| `Connections!OneOverTheCap` | `connections`, 3 connections and a cap of 1 | two newcomers pick one victim, which stays evictable until its task ends |
| `LibraryScan!RebuildHarmless` | `library` | a rebuild invalidates the cache before it asks for the guard |
| `TagSync!DroppedIsRefetched` | `library` | a read that fetched before an edit writes the row back after the drop |
| `Cover!BuildKeepsItemFiles` | `library` | a build prunes the file of an item cover that is being stored |
| `Media!EditedIsReread` | `library` | tags fetched before an edit are kept after its report |
| `Party!RevokedStaysOut` | `records` | a request under way writes the revoked record back |
| `Party!FirstInstallStays` | `records` | two first contacts are both issued a token |
| `Updates!OfferKept` | `records` | after a restart "not modified" has no offer to keep |
| `Install!RolledBackIntact` | `records` | two helpers restore each other's half-written files |
| `PlayQueue!StaleListRefused` | `now_playing` | the version is read after the page |
| `Capture!LevelIsApplied` | `runtime` | an applied level equal to the one the core was made with is not pushed |
| `WebClient!GivingUpIsReported` | `runtime` | the last attempt is spent silently beside a stream that has been started, though it is not open: the spinner stays over a server that has gone |

## 5. What is proved

Every safety invariant and every action property of the passing runs is stated by a
theorem. Each holds for every value of its module's constants; the only assumptions
are the named ones:

| Assumption | What it asks |
|---|---|
| `ChangeLogAssumption`, `ConnectionsAssumption`, `TagSyncAssumption`, `InstallAssumption`, `LifecycleAssumption` | sizes of the code: finite sets of what is counted, paths that are ids, budgets and caps that are numbers, a page of one row and an address of one slot at least, roles that are not each other's (a browse is no client, `None` no connection) |
| `NoneAssumption`, `CaptureAssumption` | the value for "nothing yet" is none of the values it stands beside |
| `PartyAssumption` | the app and its installations are no browsers |
| `ClientAssumption` | the number of attempts is a number, and no call has the name of another frame |
| `CoverAssumption` | no track is both one of an album and a single |

TLC evaluates each in every run that extends its module. `LibraryScan`, `PlayQueue`, `Media`, `Updates` and `Playlists`
assume nothing. A bound on what the host does (`MaxEvents`) is a guard of the host's
actions, so what is proved for every bound is proved for any number of things.

A run composes several modules side by side. The proof module of a run EXTENDS it, proves
each module about the instance that is run, and ends with a theorem about the composition
itself, `LibraryCorrect`, `RecordsCorrect`, `RuntimeCorrect` and `NowPlayingCorrect`: `MCSpec`
has all the safety properties the run checks, since each of its steps is a step of one
module and a stutter of the others. `changelog` and `connections` are the theorems of
`ChangeLogProofs` and `ConnectionsProofs`.

In all of them the statement at rest is not inductive, and the work is in saying what
holds before rest: who still owes what is not yet right.

**`ChangeLogProofs`**, for every set of paths and readers and every bound:

- `TypeCorrect`, `TablesCorrect`, `FloorCorrect`: the type invariant, the
  agreement of the two tables with each other, with the generation and with the
  floor, and that the floor and the generation only rise within an epoch.
- `CopiesCorrect`: `CopiesExact`, for the copies and for those the pages in
  flight would make.
- `HeadCorrect`: a reader at the head holds the library.

The argument: types, then `TablesAgree`, which is inductive with them. `CopiesExact`
is inductive on top of the two: for a copy that the log can still answer, what
the read has passed is exactly the log, what the log has forgotten is not held,
and deletes older than the beginning of a first read are not held. A pass moves
changes only to its own new generation, beyond every window, so what was walked
stays exact or leaves the window; forgetting raises the floor past every cursor
that needed the forgotten row, which refuses it. `Serve` hands out the least
pending rows in log order, so what it passes is what it serves. At the head
`Walked` holds of every path, which gives `HeadReaderHoldsLibrary`.

- `CountersCorrect`, `OldestCorrect`: the counters count the tables, and forgetting
  takes the oldest deletes and no more than the excess.
- `CountsCorrect`: that, and the total a paging reader was told of bounds its progress
  (`CountsHold`).

The counters are kept by addition and the tables hold sets, so a pass is followed
through the sets it makes: added paths come back, removed ones become deletes
(`FiledPaths`), rows are as many as their paths (`CountSources`), and `ForgetOldest`
takes exactly the excess (`ForgettingCounts`). For the total, what a read has still to
serve (the rows pending in its window) can only shrink while it pages, since a row a
pass files is beyond the window: served and pending together stay within the total.

**The refinement**, in `ChangeLogProofs`: `Refines`, that `ChangeLog` under its `Spec` implements
`Replica`. The step that is not a stutter by sight is a page that is applied: it
must settle what it served and unsettle nothing. That takes `RInv`, which adds to
`TypeOK`, `TablesAgree` and `CopiesExact` what a page in flight is worth: the
request it leads to is further along than the one it answers, or starts over
(`PagesFollow`), and no row of it is ahead of the log it came from (`PagesKnown`).

**`RecordsProofs`**, in four parts, one for each module of the run.

*The helper* (`Install`), for every set of files and helpers and every number of versions:
`SwapCorrect` (the inductive invariant: types; that two helpers at once are
remembered; that what MusicBee has loaded is what is installed; and `Sound`), and
from it `WholeCorrect` (`InstallWhole`) and `UpgradesOnly` (`NeverOlder`). `Sound`
ties a helper's backup to the files it has been over: while it writes, a file is of
the bundle's version or, where it has yet to be written, of the backup's; while it
puts back, what it has been over is the backup again. That is what makes a swap and
a roll-back end whole.

*Updates*: `MarkerCorrect` (`MarkerCommits`) and `OfferCorrect` (`OfferStands`), from
`ServiceIInv`. `DownloadAlone`: a download has taken the status, so no skip can begin beside it,
and what it stages is what is in the stash. `Ahead` and `OffersNewer`: nothing is
staged that was not released, and what is offered beside a staged bundle is newer.
`OffersBacked` and `StagedMarked`: a status, or the one a check will put back, has the
stash or the marker behind it. `SkipsKept`: whoever is about to write the state file has read
it since the last skip. The last three hold where no skip met a job and no sweep took
a bundle (`skipMet`, `swept`), as the properties do.

*Permissions and pairing* (`Party`): `RightsLastCorrect`, `HolderCorrect` and `ToldCorrect`, from
`RemoteIInv`. An operation changes two maps and two tables one at a time, and a
crash may come between any two, so the invariant goes by the steps an operation has left
(`Programs` lists what can be left, `Shaped` what it then carries). `PairingOf`, `Writing` and `AppOf` say
what an operation has done so far to the pairing, the role and the record of its
principal; `AloneOn` that it is the only one at work on it unless two have crossed. At a crash
only the tables stay, and what they hold is one of the two states the operation leads
between. `Welcomed`, that an installation that was let in holds a token, is what ties the role
it asks for to its own record. `ToldOrWoken` needs no more than what operations carry: whoever changes a
role has the wake-up among the steps it has left.

*A playlist* (`Playlists`): `AcceptedCorrect` (`AcceptedUnlessStitched`), from `ListIInv`. What has been checked and not
yet written is the first edit on the socket without an answer, and was read at the
version that edit carries (`Checked`); an edit of rows of its own version names tracks of
it (`Meant`). Answers are given in order, so the first call without one stays the first
whatever is sent after it: lemmas about the first position in a sequence, from the
well-foundedness of the numbers.

**`ConnectionsProofs`**, for any connections, addresses, clients and caps:

- `SlotsCorrect` (`SlotsCounted`): a task keeps the address it was accepted from
  (`Placed`), so the slot it gives back is the one it took, whichever way it ends; the
  tasks of an address are counted with the theorems about finite sets.
- `MainsCorrect` (`MainsServed`) and `NewerMainCorrect` (`OnlyNewerMainCloses`): a
  connection that has not handshaked is in no group and not in the broadcast set
  (`Unregistered`), so a registration is the first of its connection, and the one main
  it replaces is told to close.

**`LibraryScanProofs`**, for any paths and commands: `LogCorrect` (`LogHoldsLibrary`),
`EditsCorrect` (`NoEditLost`), `ServiceCorrect` (`StaysInService`), all from one invariant
(`Invariant`). None of the three is inductive: they speak of a core at rest. `IInv` says
who holds what is owed before it rests. `InService`: out of service, a thread waits to
reconcile or its pass has not validated yet. `Listed`: index and log hold the library, or
a re-list is queued or in a batch, or a pass has yet to list, or has listed and not yet
filed; `ListingHolds` says what a listing is worth while its pass goes on. `EditsHeld`: an
edit is queued, in a batch that has no pass yet, read by a pass that has not filed it, or
behind the watermark of a pass that has yet to ask. `PassShape` is what a kind of pass knows at
each step. The three statements keep the conditions they have in the runs: a cache
in service, a host that answered (`silent`), no command that met a pass (`crossed`).
`MCLibrary` checks them under the same names.

**`TagSyncProofs`**, for any files, browses and clients: `RowsCorrect` (`RowsCurrent`) and
`ClientsCorrect` (`ClientsCurrent`). `RowsHold` and `PutsHold`: a row, or what a request will
write to it, is right or about to be dropped, since an edit that makes it wrong is
reported, and a drop that finds its tags in a request's hands marks it `overtaken`.
`CopiesHold`: of a path a client is not behind on, its track is right, or its request
still reads it, or the path will be filed again. The step that matters is the one of a pass
from `drop` to `record`: what it files was dropped before, so the read that follows the
filing finds new tags or none (`Reads`). `LibraryHolds` is `Listed` of `LibraryScan`, without
its failures.

**`LibraryProofs`**, in four parts.

*A media category* (`Media`): `TagsCorrect` (`TagsCurrent`). A read of tags holds the id of the
listing it began with; what it will put is right but for files whose report is due, or the
listing has moved on and it will keep nothing (`PutsCurrent`); reads an edit outran apart.

*The passes* (`LibraryScan`) and *the rows* (`TagSync`): `PassesLog`, `PassesEdits`, `PassesService` and `RowsServed` carry the
theorems of `LibraryScanProofs` and `TagSyncProofs` over to what is run.

*The covers* (`Cover`): `CoversCorrect` (`CoversCurrent`) and `FilesCorrect` (`FilesKept`), from `CoversInvariant`. What memory and the
tables hold of an album is right, or its change is reported, or in the hands of a pass
that has not forgotten it yet (`Remembered`, `Stored`); what a build has queued and what a
request holds is right too, or `artOvertaken` (`Queued`, `AlbumsAsked`, `SinglesAsked`). Memory and tables differ
until a checkpoint, and a restart keeps the tables alone, so what is stored must be right
for the files as they were at the last check: a change nobody reported has a later file time
and is found by it (`Unseen`, `Clocks`). A single's table entry is memory's, or none, or the one
its request has just written (`Entries`). `Named` is what a prune may not take: the files of
the item covers, and of those a request has stored, unless it stored one while a prune was
deciding (`crossed`).

**`NowPlayingProofs`**, in two parts.

*The queue* (`PlayQueue`): `AcceptedCorrect`, that a change of the list let through by
the version check is made to the list its client read, unless a change of the host
crossed the read. The invariant (`Vouched`) says what a version is worth: while the
count stands still, a page that names it is of the queue as it is, or a change
that nobody has counted is still due.

*The mirror* (`NowPlaying`): `MirrorCorrect` (`MirrorAtRest`), from `MirrorInvariant`. The cache holds the track that plays, or
a notification of it is due, or a job will read it or holds it (`TrackOwed`), where a track is
read before its lyrics and neither runs backwards unless `overtaken` (`TrackOrder`, `JobsInOrder`). Clients
have heard the play state, or it is being sent, or a notification is due, or a job will
compare it with the one recorded last (`PlayOwed`); and what is recorded as sent was sent or
is about to be (`SentTold`), without which the comparison could hold the state back.

**`RuntimeProofs`**, in three parts.

*The core* (`Lifecycle`): `StopCorrect`, that `NothingOutlivesStop`. The invariant
follows a call through its steps: a start has no handle until its thread has bound
or failed, a stop has taken the handle before it signals, and only a stop that
joins can be the reason for a thread that is leaving (`Starting`, `Stopping`,
`Unstopped`). With it a handle that is held has its thread, and one that is not has
none once no call is in hand.

*The web app* (`WebClient`): `OneRoadCorrect` and `ShownCorrect`, from `ClientInvariant`. `Roads` says what a socket
let go, closed or handshaked leaves beside it. `GivenUp`, that a page with nothing left to try says so, needs to
know what will come over an open socket: the page shows a standing connection, or its
handshake is still to be sent, or a welcome is on its way (`Wire`). A shutdown frame is preceded by a
welcome, and a refusal is the only frame of a socket the server has dropped.

*A capture* (`Capture`): `FollowsCorrect` (`FollowsCapture`), from `CaptureInvariant`, by what is left of the host's call. Courses
after which the level is not set any more are `Calm`, and there `LevelKept` says what it is;
`Owed` says of a record without its capture which call, start or watchdog clears it, and
`Generations` that a late watchdog cannot take a session begun after its own.

What stays with TLC: the liveness properties of the runs with fairness (`ReadersCatchUp`,
`ComesToRest`, `CopyComesRound`, `CallsReturn`, `UnwantedLeave`, `CaptureEnds`, `ComesBack`, `CallsSettleUnlessLeft`, `PlayerComesRound`,
`QueueAnnounced`), which are out of the prover's reach; the six violations, which are
counterexamples; and that every mutant breaks its property.

## 6. Not modelled

See the components in `PROJECT.json`, each with its reason. Most of the remaining
lines are handlers that parse one request, make one host call and format one reply
(`commands_v6/library.rs`, the V4 commands), marshalling
(`providers.rs`, `ffi/`), wire formats, forms, views and the other stores of the web app, and tests: they keep no
state and nothing interleaves with them beyond the host call, which the modules take
as one step that answers or fails. Within the modelled parts: the derived sort
orders and browse lists, position and volume, image decoding, the expiry of codes as time, the
broadcasts of `library_changed` (a hint: clients ask again on it), and failures of the
store, which the code treats as cache misses.
