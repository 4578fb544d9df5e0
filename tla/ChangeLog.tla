------------------------------ MODULE ChangeLog ------------------------------
(***************************************************************************)
(* The library change log of mbrc-core and the readers that page it.       *)
(*                                                                         *)
(* The log is two tables and five counters in one database.  An index pass *)
(* files what a listing of the library added or removed, and the tracks it *)
(* was told were edited, in one write transaction.  A reader keeps a copy  *)
(* of the library: it reads everything once, page by page, stores the      *)
(* cursor the read ends with, and later asks only for what moved after it. *)
(* Every page is one read transaction; passes, resets and other readers    *)
(* run between any two of them, and a page can be lost on its way.         *)
(*                                                                         *)
(* A change carries the generation it was filed under, and that is all a   *)
(* copy keeps of a track: holding path p at generation g stands for        *)
(* holding the tags p had when pass g filed it.                            *)
(***************************************************************************)
EXTENDS Integers, FiniteSets

CONSTANTS Paths,          \* track paths; numbers, for the log orders them
          Readers,        \* clients that keep a copy of the library
          MaxTombstones,  \* deletes remembered before the oldest are dropped
          PageLimit,      \* the most changes a page serves
          MaxGeneration,  \* bound on the passes of one run of the log
          MaxEpoch        \* bound on the runs of the log

ASSUME ChangeLogAssumption ==
    /\ Paths \subseteq Nat
    /\ IsFiniteSet(Paths)
    /\ MaxTombstones \in Nat
    /\ PageLimit \in Nat \ {0}
    /\ MaxGeneration \in Nat
    /\ MaxEpoch \in Nat

VARIABLES epoch,       \* META changes_epoch; 0 before the first listing
          epochsUsed,  \* runs of the log so far: an epoch never repeats
          generation,  \* META changes_generation
          floor,       \* META changes_floor
          tombstones,  \* META changes_tombstones
          inLibrary,   \* META changes_live
          known,       \* TRACK_CHANGES: the latest change of each path
          log,         \* CHANGE_LOG: the same changes, by generation
          from,        \* what each reader sends next (ReadFrom)
          copy,        \* each reader's copy of the library
          reply        \* the page on its way to each reader

logVars == <<epoch, epochsUsed, generation, floor, tombstones, inLibrary, known, log>>
readerVars == <<from, copy, reply>>
vars == <<logVars, readerVars>>

-----------------------------------------------------------------------------
(* Rows, cursors and pages. *)

NoRow == [gen |-> 0, live |-> FALSE]        \* generations start at 1
Row == [gen : Nat, src : Paths, live : BOOLEAN]

\* Start, Since(cursor) and Resume(continuation) in one record.  since = -1
\* is the continuation's None: the read it belongs to began with Start.
\* served is the reader's own count of the items of this read.
Request ==
    {q \in [mode : {"start", "since", "resume"}, epoch : Nat, since : Nat \cup {-1},
            until : Nat, total : Nat, gen : Nat, src : Nat, served : Nat] :
        q.mode = "since" => q.since \in Nat}
StartOver == [mode |-> "start", epoch |-> 0, since |-> -1, until |-> 0,
              total |-> 0, gen |-> 0, src |-> 0, served |-> 0]
Since(e, g) == [mode |-> "since", epoch |-> e, since |-> g, until |-> g,
                total |-> 0, gen |-> 0, src |-> 0, served |-> 0]

NoReply == [sent |-> FALSE, resync |-> FALSE, rows |-> {}, next |-> StartOver]
Reply == [sent : BOOLEAN, resync : BOOLEAN, rows : SUBSET Row, next : Request]

\* CHANGE_LOG's key order.
Before(r, s) == r.gen < s.gen \/ (r.gen = s.gen /\ r.src < s.src)

\* Mutant: in whatever order the table yields them.
OldestUnordered(F, n, S) ==
    F \subseteq S /\ (Cardinality(F) = n \/ (F = S /\ Cardinality(S) < n))

\* F is the first n of the rows S, or all of them when there are fewer.
Oldest(F, n, S) ==
    /\ F \subseteq S
    /\ \A r \in F, s \in S \ F : Before(r, s)
    /\ Cardinality(F) = n \/ (F = S /\ Cardinality(S) < n)

Minus(a, b) == IF a < b THEN 0 ELSE a - b   \* saturating_sub

TypeOK ==
    /\ epoch \in Nat /\ epochsUsed \in Nat /\ epoch <= epochsUsed
    /\ generation \in Nat /\ floor \in Nat /\ tombstones \in Nat /\ inLibrary \in Nat
    /\ known \in [Paths -> [gen : Nat, live : BOOLEAN]]
    /\ log \subseteq Row
    /\ from \in [Readers -> Request]
    /\ copy \in [Readers -> [Paths -> Nat]]
    /\ reply \in [Readers -> Reply]

Init ==
    /\ epoch = 0 /\ epochsUsed = 0
    /\ generation = 0 /\ floor = 0 /\ tombstones = 0 /\ inLibrary = 0
    /\ known = [p \in Paths |-> NoRow]
    /\ log = {}
    /\ from = [r \in Readers |-> StartOver]
    /\ copy = [r \in Readers |-> [p \in Paths |-> 0]]
    /\ reply = [r \in Readers |-> NoReply]

-----------------------------------------------------------------------------
(* The writer: one index pass, one transaction. *)

LivePaths == {p \in Paths : known[p].live}
DeadPaths == {p \in Paths : known[p].gen > 0 /\ ~known[p].live}

\* The two tables once a pass has refiled the paths of moved; those of
\* removed become tombstones.
FiledKnown(moved, removed) ==
    [p \in Paths |-> IF p \in moved THEN [gen |-> generation + 1, live |-> p \notin removed]
                                    ELSE known[p]]
\* Mutant: a moved path's earlier change stays in the log.
FiledLogKeepingEarlier(moved, removed) ==
    log \cup {[gen |-> generation + 1, src |-> p, live |-> p \notin removed] : p \in moved}
FiledLog(moved, removed) ==
    {r \in log : ~(r.src \in moved /\ r.gen = known[r.src].gen)}
        \cup {[gen |-> generation + 1, src |-> p, live |-> p \notin removed] : p \in moved}

\* forget_oldest_tombstones: drops excess deletes, oldest first, and raises
\* the floor to the newest generation among them.
ForgetOldest(excess, filedKnown, filedLog) ==
    \E F \in SUBSET filedLog :
        /\ Oldest(F, excess, {r \in filedLog : ~r.live})
        /\ log' = filedLog \ F
        /\ known' = [p \in Paths |-> IF \E r \in F : r.src = p THEN NoRow ELSE filedKnown[p]]
        /\ IF F = {} THEN floor' = floor
           ELSE \E last \in F : /\ \A r \in F : r.gen <= last.gen
                                /\ floor' = last.gen

\* record_in below the early returns.  A path both edited and removed ends
\* as removed: the removal is filed last.
File(added, edited, removed) ==
    LET moved == added \cup edited \cup removed
        filedKnown == FiledKnown(moved, removed)
        filedLog == FiledLog(moved, removed)
        dead == Minus(tombstones, Cardinality(added \cap DeadPaths)) + Cardinality(removed)
    IN  /\ generation < MaxGeneration
        /\ generation' = generation + 1
        /\ inLibrary' = Minus(inLibrary + Cardinality(added), Cardinality(removed))
        /\ IF dead > MaxTombstones
           THEN /\ tombstones' = MaxTombstones
                /\ ForgetOldest(dead - MaxTombstones, filedKnown, filedLog)
           ELSE /\ tombstones' = dead
                /\ known' = filedKnown
                /\ log' = filedLog
                /\ floor' = floor

\* diff: what a listing adds to the log and what it no longer lists.
Added(listing) == listing \ LivePaths
Removed(listing) == LivePaths \ listing
Edited(updated) == updated \cap LivePaths

\* record(Some(listing), updated): a pass that listed the library.  Only a
\* listing starts an epoch.
RecordListing(listing, updated) ==
    /\ IF epoch = 0
       THEN /\ epochsUsed < MaxEpoch
            /\ epochsUsed' = epochsUsed + 1
            /\ epoch' = epochsUsed'
       ELSE UNCHANGED <<epoch, epochsUsed>>
    /\ IF Added(listing) \cup Removed(listing) \cup Edited(updated) = {}
       THEN UNCHANGED <<generation, floor, tombstones, inLibrary, known, log>>
       ELSE File(Added(listing), Edited(updated), Removed(listing))
    /\ UNCHANGED readerVars

\* record(None, updated): a pass of edits alone.
RecordEdits(updated) ==
    /\ epoch # 0
    /\ Edited(updated) # {}
    /\ File({}, Edited(updated), {})
    /\ UNCHANGED <<epoch, epochsUsed>>
    /\ UNCHANGED readerVars

\* reset: a library switch drops both tables and all five counters.
Reset ==
    /\ epoch # 0
    /\ epoch' = 0
    /\ generation' = 0 /\ floor' = 0 /\ tombstones' = 0 /\ inLibrary' = 0
    /\ known' = [p \in Paths |-> NoRow]
    /\ log' = {}
    /\ UNCHANGED epochsUsed
    /\ UNCHANGED readerVars

-----------------------------------------------------------------------------
(* The readers: one page is one read transaction. *)

\* What a request reads: changes after since, up to until.
Lower(q) == IF q.mode = "start" THEN -1 ELSE q.since
Until(q) == IF q.mode = "resume" THEN q.until ELSE generation

\* Mutants: the floor, the epoch, or a first read's missing cursor forgotten.
UnanswerableButFloor(q) ==
    \/ q.mode # "start" /\ q.epoch # epoch
    \/ Lower(q) # -1 /\ Lower(q) > generation
UnanswerableButEpoch(q) ==
    \/ q.mode = "resume" /\ q.until > generation
    \/ Lower(q) # -1 /\ (Lower(q) < floor \/ Lower(q) > generation)
UnanswerableFromZero(q) ==
    \/ q.mode # "start" /\ q.epoch # epoch
    \/ q.mode = "resume" /\ q.until > generation
    \/ Lower(q) < floor \/ Lower(q) > generation

\* A request this log cannot answer is told to resync.
Unanswerable(q) ==
    \/ q.mode # "start" /\ q.epoch # epoch
    \/ q.mode = "resume" /\ q.until > generation
    \/ Lower(q) # -1 /\ (Lower(q) < floor \/ Lower(q) > generation)

\* The rows of the read's window that earlier pages have not walked.
Window(q) ==
    {r \in log : /\ r.gen <= Until(q)
                 /\ IF q.mode = "resume" THEN Before(q, r) ELSE r.gen > Lower(q)}

\* Mutant: every read leaves deletes out.
PendingLive(q) == {r \in Window(q) : r.live}

\* A read that began with Start leaves deletes out.
Pending(q) == {r \in Window(q) : r.live \/ Lower(q) # -1}

\* Mutant: every page counts again what is left.
TotalLeft(q) == IF q.mode = "start" THEN inLibrary ELSE Cardinality(Window(q))
Total(q) ==
    IF q.mode = "start" THEN inLibrary
    ELSE IF q.mode = "since" THEN Cardinality(Window(q)) ELSE q.total

\* The server answers reader r: a page of changes and the request it leads to.
Serve(r) ==
    LET q == from[r] IN
    /\ epoch # 0                        \* else unavailable: retry later
    /\ ~reply[r].sent
    /\ IF Unanswerable(q)
       THEN reply' = [reply EXCEPT ![r] = [sent |-> TRUE, resync |-> TRUE,
                                           rows |-> {}, next |-> StartOver]]
       ELSE \E page \in SUBSET Pending(q) :
            /\ Oldest(page, PageLimit, Pending(q))
            /\ IF page = Pending(q)
               THEN reply' = [reply EXCEPT ![r] =
                        [sent |-> TRUE, resync |-> FALSE, rows |-> page,
                         next |-> Since(epoch, Until(q))]]
               ELSE \E last \in page :
                    /\ \A s \in page : ~Before(last, s)
                    /\ reply' = [reply EXCEPT ![r] =
                            [sent |-> TRUE, resync |-> FALSE, rows |-> page,
                             next |-> [mode |-> "resume", epoch |-> epoch,
                                       since |-> Lower(q), until |-> Until(q),
                                       total |-> Total(q), gen |-> last.gen, src |-> last.src,
                                       served |-> q.served + Cardinality(page)]]]
    /\ UNCHANGED <<from, copy>>
    /\ UNCHANGED logVars

\* What a copy becomes once a page is applied: an upsert inserts or replaces,
\* a delete removes.
Applied(held, rows) ==
    [p \in Paths |->
        IF \E c \in rows : c.src = p /\ c.live
        THEN (CHOOSE c \in rows : c.src = p /\ c.live).gen
        ELSE IF \E c \in rows : c.src = p THEN 0 ELSE held[p]]

\* The reader takes the page: it drops its copy on resync, and stores the
\* cursor once no continuation is left.
Apply(r) ==
    /\ reply[r].sent
    /\ copy' = [copy EXCEPT ![r] = IF reply[r].resync THEN [p \in Paths |-> 0]
                                   ELSE Applied(@, reply[r].rows)]
    /\ from' = [from EXCEPT ![r] = reply[r].next]
    /\ reply' = [reply EXCEPT ![r] = NoReply]
    /\ UNCHANGED logVars

\* The connection drops under the page; the reader asks the same again.
Lose(r) ==
    /\ reply[r].sent
    /\ reply' = [reply EXCEPT ![r] = NoReply]
    /\ UNCHANGED <<from, copy>>
    /\ UNCHANGED logVars

Next ==
    \/ \E listing, updated \in SUBSET Paths : RecordListing(listing, updated)
    \/ \E updated \in SUBSET Paths : RecordEdits(updated)
    \/ Reset
    \/ \E r \in Readers : Serve(r) \/ Apply(r) \/ Lose(r)

\* A reader with a request outstanding keeps asking, the server answers, and
\* not every page is lost.
Fairness == \A r \in Readers : WF_vars(Serve(r)) /\ SF_vars(Apply(r))

Spec == Init /\ [][Next]_vars
FairSpec == Spec /\ Fairness
-----------------------------------------------------------------------------
(* What the log keeps about itself, and what a reader may rely on. *)

\* Both tables hold the same changes, the counters count them, no generation
\* is ahead of the log's, and every delete still remembered is at or above
\* the floor (record_in keeps four structures and five counters in step).
RowsOf(k) == {[gen |-> k[p].gen, src |-> p, live |-> k[p].live] :
                 p \in {q \in Paths : k[q].gen > 0}}
TablesAgree ==
    /\ log = RowsOf(known)
    /\ \A p \in Paths : known[p].gen <= generation /\ (known[p].live => known[p].gen > 0)
    /\ \A p \in DeadPaths : floor <= known[p].gen
    /\ floor <= generation
CountersAgree ==
    /\ inLibrary = Cardinality(LivePaths)
    /\ tombstones = Cardinality(DeadPaths)
    /\ tombstones <= MaxTombstones
Bookkeeping == TablesAgree /\ CountersAgree

\* Horizon(q): the generation up to which a copy must know every delete for
\* the read q belongs to.  Walked(q, p): the read has passed p's change.
Horizon(q) == IF q.mode = "resume" /\ q.since = -1 THEN q.until ELSE q.since
Walked(q, p) ==
    IF q.mode = "resume"
    THEN /\ known[p].gen <= q.until
         /\ known[p].gen <= q.since \/ ~Before(q, [gen |-> known[p].gen, src |-> p])
    ELSE known[p].gen <= q.since

\* The copy held before request q: as far as this log can still answer q, it
\* is exactly the log on every path the read has passed, holds nothing the
\* log has forgotten, and nothing that was already deleted when a first read
\* began.  An epoch not yet drawn is named by no one.
CopyMatches(q, held) ==
    /\ q.epoch <= epochsUsed
    /\ q.mode = "start" => \A p \in Paths : held[p] = 0
    /\ (q.mode # "start" /\ q.epoch = epoch /\ epoch # 0 /\ floor <= Horizon(q)) =>
         /\ Horizon(q) <= q.until
         /\ q.until <= generation
         /\ \A p \in Paths :
              /\ known[p].gen = 0 => held[p] = 0
              /\ (known[p].gen > 0 /\ Walked(q, p)) =>
                    held[p] = (IF known[p].live THEN known[p].gen ELSE 0)
              /\ (q.since = -1 /\ p \in DeadPaths /\ known[p].gen <= q.until) =>
                    held[p] = 0

\* Every copy matches, the one a page in flight would make included: whatever
\* passes, forgotten deletes and resets ran between the pages.
CopiesExact ==
    \A r \in Readers :
        /\ CopyMatches(from[r], copy[r])
        /\ reply[r].sent =>
             CopyMatches(reply[r].next, IF reply[r].resync THEN [p \in Paths |-> 0]
                                        ELSE Applied(copy[r], reply[r].rows))

\* A reader whose cursor is the head of the log holds the library: the live
\* tracks at their latest change and nothing else, however many pages and
\* passes it took (docs/protocol-v6.md, Library sync).
AtHead(r) == /\ from[r].mode = "since" /\ epoch # 0
             /\ from[r].epoch = epoch
             /\ from[r].since = generation
HeadReaderHoldsLibrary ==
    \A r \in Readers : AtHead(r) =>
        copy[r] = [p \in Paths |-> IF known[p].live THEN known[p].gen ELSE 0]

\* total bounds what a read serves: progress never passes it, though tracks
\* move in and out of the window while the read is paged.
ProgressWithinTotal ==
    \A r \in Readers : reply[r].sent /\ ~reply[r].resync =>
        /\ reply[r].next.mode = "resume" => reply[r].next.served <= reply[r].next.total
        /\ from[r].mode = "resume" =>
              from[r].served + Cardinality(reply[r].rows) <= from[r].total

\* What is counted is what is there: the tables, the counters kept beside them,
\* and the total a paging reader was told of.
CountsHold == Bookkeeping /\ ProgressWithinTotal

\* Within one run of the log the floor and the generation never fall, so a
\* cursor once refused stays refused (forget_oldest_tombstones).
FloorNeverFalls ==
    [][epoch' = epoch => floor' >= floor /\ generation' >= generation]_vars

\* A change leaves the log only as a delete, when MaxTombstones others at
\* least as new are kept: a phone that missed fewer is told of them all.
OnlyOldestForgotten ==
    [][\A p \in Paths :
         (epoch' = epoch /\ known[p].gen > 0 /\ known'[p].gen = 0) =>
            /\ Cardinality(DeadPaths') = MaxTombstones
            /\ \A q \in DeadPaths' :
                 known'[q].gen >= IF known[p].live THEN generation' ELSE known[p].gen]_vars

\* While the log stands, every reader reaches its head again and again: no
\* read is refused or restarted for ever once the library is quiet.
ReadersCatchUp == \A r \in Readers : []<>(epoch = 0 \/ AtHead(r))

-----------------------------------------------------------------------------
(* The log and its readers implement Replica. *)

\* What each reader has of the library: the paths its read has passed, while the
\* server can answer it.
Settled(r) ==
    LET q == from[r] IN
    IF q.mode # "start" /\ q.epoch = epoch /\ epoch # 0 /\ floor <= Horizon(q)
    THEN {p \in Paths : Walked(q, p)} ELSE {}

Copies == INSTANCE Replica WITH
    library <- [p \in Paths |-> IF known[p].live THEN known[p].gen ELSE 0],
    held <- copy,
    settled <- [r \in Readers |-> Settled(r)]

\* However a read is paged, lost and asked again among the passes, what a copy has
\* settled is right and stays so until the track, or the log, moves on
\* (library_changes.rs read, docs/protocol-v6.md Library sync).
ImplementsReplica == Copies!Spec
=============================================================================
