-------------------------- MODULE LibraryScanProofs --------------------------
(***************************************************************************)
(* Proofs about the passes over the library, for every set of paths, every *)
(* set of commands and any number of things the host does.                 *)
(*                                                                         *)
(* The invariant says, of a core that runs, where the work that is still   *)
(* owed is: who will put the cache in service (InService), who will list   *)
(* the library again (Listed), and who holds an edit that the log has not  *)
(* filed (EditsHeld).  At rest nobody holds anything, which gives the      *)
(* three properties.                                                       *)
(***************************************************************************)
EXTENDS LibraryScan, TLAPS

\* The passes that put the cache in service.
Serving == {"start", "switch", "metadata"}

\* The steps a pass can be at, by kind, and what it knows there.
PassShape ==
    /\ pass.by = "covers" => pass.step \in {"albums", "finish"}
    /\ pass.by = "scan" => pass.step \notin {"albums", "validate", "delta"}
    /\ pass.by \in Serving => pass.step # "check"
    /\ pass.step \in {"albums", "validate", "check", "list"} => ~pass.listed
    /\ pass.step \in {"delta", "index"} => pass.listed
    /\ (pass.by \in Serving /\ pass.step \in {"albums", "validate", "list", "delta"}) =>
          pass.edited = {}
    /\ pass.by = "scan" => pass.edited = batch.tagged \cup batch.rated

\* A batch is in the Scanner's hands from when it is taken until it is applied.
BatchShape == scanner \in {"waiting", "debouncing"} => batch = NoReports

\* Without a watermark the host is not asked for edits; a core that is down is
\* out of service.
Marks == (~marked => since = {}) /\ (~up => ~validated)

\* Under ~crossed, a pass past its check or its validate step finds the cache
\* in service.
PassServed ==
    (~crossed /\ pass.step \in {"list", "delta", "index", "record", "mark"}) => validated

InService ==
    (up /\ ~crossed /\ ~silent) =>
        \/ validated
        \/ waiting \cap Serving # {}
        \/ pass.by \in Serving /\ pass.step \in {"albums", "validate"}

\* A re-list is queued, or in a batch that waits for the guard.
RelistDue == queue.relist \/ (scanner = "taken" /\ batch.relist)

\* What a listing says of the library, the index and the log as the pass goes on.
ListingHolds ==
    (validated /\ pass.listed) =>
        /\ pass.listing = library \/ RelistDue
        /\ pass.step \in {"record", "mark", "finish"} => index = pass.listing
        /\ pass.step \in {"mark", "finish"} => live = pass.listing

Listed ==
    (validated /\ ~silent) =>
        \/ index = library /\ live = library
        \/ RelistDue
        \/ pass.step = "list"
        \/ pass.step = "check" /\ batch.relist
        \/ pass.listed /\ pass.step \in {"delta", "index", "record"}

\* Who holds the edit of p: the queue, a batch before its pass, a pass before it
\* files, what the host will report to a pass that has yet to ask, or nobody.
Held(p) ==
    \/ p \in queue.tagged \cup queue.rated
    \/ scanner = "taken" /\ p \in batch.tagged \cup batch.rated
    \/ pass.step \in {"check", "list", "index", "record"} /\ p \in pass.edited
    \/ /\ p \in since
       /\ ~validated \/ (pass.by \in Serving /\ pass.step \in {"list", "delta"})
    \/ p \in unheard
EditsHeld == ~crossed => \A p \in dirty \cap live : Held(p)

IInv ==
    /\ TypeOK /\ PassShape /\ BatchShape /\ Marks
    /\ PassServed /\ InService /\ ListingHolds /\ Listed /\ EditsHeld

\* The parts of the type invariant.
SetsOK ==
    /\ library \in SUBSET Paths /\ index \in SUBSET Paths /\ live \in SUBSET Paths
    /\ since \in SUBSET Paths /\ dirty \in SUBSET Paths /\ unheard \in SUBSET Paths
FlagsOK ==
    /\ up \in BOOLEAN /\ validated \in BOOLEAN /\ marked \in BOOLEAN /\ nudge \in BOOLEAN
    /\ silent \in BOOLEAN /\ crossed \in BOOLEAN
    /\ scanner \in {"waiting", "debouncing", "taken", "applying"}
    /\ waiting \in SUBSET Scopes
EventsOK == events \in Nat
QueuesOK == queue \in Reports /\ batch \in Reports
PassOK == pass \in PassUnder \cup {NoPass}
GuardOK ==
    /\ (scanner = "applying") <=> (pass.by = "scan")
    /\ (~up) => (pass = NoPass /\ waiting = {} /\ queue = NoReports /\ scanner = "waiting")

-----------------------------------------------------------------------------
\* A step keeps what is known of files within Paths.
LEMMA SetsStep == TypeOK /\ [Next]_vars => SetsOK'
<1> SUFFICES ASSUME TypeOK, [Next]_vars PROVE SetsOK'
  OBVIOUS
<1> USE DEF TypeOK, PassUnder, NoPass, Reports, NoReports, Scopes, SetsOK
<1>1. CASE Host
  BY <1>1 DEF Host, TagsChanged, Happens, Edits, Report, RatingChanged, UnnamedTagsChanged,
     MembershipChanged, storeVars, LibrarySwitched, MeetsPass, scanVars, Rebuild, Stop
<1>2. CASE Start
  BY <1>2 DEF Start, hostVars, storeVars, scanVars
<1>3. CASE Scanner
  BY <1>3 DEF Scanner, Wake, hostVars, storeVars, Take, Reported, PutBack, Merged, BeginScan
<1>4. ASSUME NEW scope \in Scopes, BeginReconcile(scope) PROVE SetsOK'
  BY <1>4 DEF BeginReconcile, hostVars, storeVars, scanVars
<1>5. CASE Pass
  BY <1>5 DEF Pass, Check, hostVars, storeVars, scanVars, ListAlbums, HostAnswers, HostFails,
     Validate, List, Delta, Index, Record, Mark, Finish
<1>6. CASE UNCHANGED vars
  BY <1>6 DEF vars, hostVars, storeVars, scanVars
<1>7. QED
  BY <1>1, <1>2, <1>3, <1>4, <1>5, <1>6 DEF Next, Reconciles

\* A step keeps the flags, the Scanner and the threads in their ranges.
LEMMA FlagsStep == TypeOK /\ [Next]_vars => FlagsOK'
<1> SUFFICES ASSUME TypeOK, [Next]_vars PROVE FlagsOK'
  OBVIOUS
<1> USE DEF TypeOK, PassUnder, NoPass, Reports, NoReports, Scopes, FlagsOK
<1>1. CASE Host
  BY <1>1 DEF Host, TagsChanged, Happens, Edits, Report, RatingChanged, UnnamedTagsChanged,
     MembershipChanged, storeVars, LibrarySwitched, MeetsPass, scanVars, Rebuild, Stop
<1>2. CASE Start
  BY <1>2 DEF Start, hostVars, storeVars, scanVars
<1>3. CASE Scanner
  BY <1>3 DEF Scanner, Wake, hostVars, storeVars, Take, Reported, PutBack, Merged, BeginScan
<1>4. ASSUME NEW scope \in Scopes, BeginReconcile(scope) PROVE FlagsOK'
  BY <1>4 DEF BeginReconcile, hostVars, storeVars, scanVars
<1>5. CASE Pass
  BY <1>5 DEF Pass, Check, hostVars, storeVars, scanVars, ListAlbums, HostAnswers, HostFails,
     Validate, List, Delta, Index, Record, Mark, Finish
<1>6. CASE UNCHANGED vars
  BY <1>6 DEF vars, hostVars, storeVars, scanVars
<1>7. QED
  BY <1>1, <1>2, <1>3, <1>4, <1>5, <1>6 DEF Next, Reconciles

\* The host only ever does one more thing.
LEMMA EventsStep == EventsOK /\ [Next]_vars => EventsOK'
<1> SUFFICES ASSUME EventsOK, [Next]_vars PROVE EventsOK'
  OBVIOUS
<1> USE DEF EventsOK
<1>1. CASE Host
  BY <1>1 DEF Host, TagsChanged, Happens, Edits, Report, RatingChanged, UnnamedTagsChanged,
     MembershipChanged, storeVars, LibrarySwitched, MeetsPass, scanVars, Rebuild, Stop
<1>2. CASE Start
  BY <1>2 DEF Start, hostVars, storeVars, scanVars
<1>3. CASE Scanner
  BY <1>3 DEF Scanner, Wake, hostVars, storeVars, Take, Reported, PutBack, Merged, BeginScan
<1>4. ASSUME NEW scope \in Scopes, BeginReconcile(scope) PROVE EventsOK'
  BY <1>4 DEF BeginReconcile, hostVars, storeVars, scanVars
<1>5. CASE Pass
  BY <1>5 DEF Pass, Check, hostVars, storeVars, scanVars, ListAlbums, HostAnswers, HostFails,
     Validate, List, Delta, Index, Record, Mark, Finish
<1>6. CASE UNCHANGED vars
  BY <1>6 DEF vars, hostVars, storeVars, scanVars
<1>7. QED
  BY <1>1, <1>2, <1>3, <1>4, <1>5, <1>6 DEF Next, Reconciles

\* A step keeps the queue and the batch sets of reports (push, take, put_back).
LEMMA QueuesStep == TypeOK /\ [Next]_vars => QueuesOK'
<1> SUFFICES ASSUME TypeOK, [Next]_vars PROVE QueuesOK'
  OBVIOUS
<1> USE DEF TypeOK, PassUnder, NoPass, Reports, NoReports, Scopes, QueuesOK
<1>1. CASE TagsChanged
  BY <1>1 DEF TagsChanged, Happens, Edits, Report
<1>2. CASE RatingChanged
  BY <1>2 DEF RatingChanged, Happens, Edits, Report
<1>3. CASE UnnamedTagsChanged
  BY <1>3 DEF UnnamedTagsChanged, Happens, Edits, Report
<1>4. CASE MembershipChanged
  BY <1>4 DEF MembershipChanged, Happens, Report, storeVars
<1>5. CASE LibrarySwitched
  BY <1>5 DEF LibrarySwitched, Happens, MeetsPass, scanVars
<1>6. CASE Rebuild("metadata")
  BY <1>6 DEF Rebuild, Happens, MeetsPass, scanVars
<1>7. CASE Rebuild("covers")
  BY <1>7 DEF Rebuild, Happens, scanVars
<1>8. CASE Stop
  BY <1>8 DEF Stop, Happens, storeVars
<1>9. CASE Start
  BY <1>9 DEF Start, hostVars, storeVars, scanVars
<1>10. CASE Wake
  BY <1>10 DEF Wake, hostVars, storeVars
<1>11. CASE Take
  BY <1>11 DEF Take, hostVars, storeVars, Reported
<1>12. CASE PutBack
  BY <1>12 DEF PutBack, hostVars, storeVars, Merged
<1>13. CASE BeginScan
  BY <1>13 DEF BeginScan, hostVars, storeVars
<1>14. ASSUME NEW scope \in Scopes, BeginReconcile(scope) PROVE QueuesOK'
  BY <1>14 DEF BeginReconcile, hostVars, storeVars, scanVars
<1>15. CASE Check
  BY <1>15 DEF Check, hostVars, storeVars, scanVars
<1>16. CASE ListAlbums
  BY <1>16 DEF ListAlbums, HostAnswers, HostFails, hostVars, storeVars, scanVars
<1>17. CASE Validate
  BY <1>17 DEF Validate, hostVars, storeVars, scanVars
<1>18. CASE List
  BY <1>18 DEF List, HostAnswers, HostFails, hostVars, storeVars, scanVars
<1>19. CASE Delta
  BY <1>19 DEF Delta, HostAnswers, HostFails, hostVars, storeVars, scanVars
<1>20. CASE Index
  BY <1>20 DEF Index, hostVars, scanVars
<1>21. CASE Record
  BY <1>21 DEF Record, scanVars
<1>22. CASE Mark
  BY <1>22 DEF Mark, hostVars, scanVars
<1>23. CASE Finish
  <2>1. NoReports \in Reports
    OBVIOUS
  <2>2. queue' = queue /\ batch' \in {batch, NoReports}
    BY <1>23 DEF Finish
  <2>3. QED
    BY <2>1, <2>2
<1>24. CASE UNCHANGED vars
  BY <1>24 DEF vars, hostVars, storeVars, scanVars
<1>25. QED
  BY <1>1, <1>2, <1>3, <1>4, <1>5, <1>6, <1>7, <1>8, <1>9, <1>10, <1>11, <1>12, <1>13, <1>14,
     <1>15, <1>16, <1>17, <1>18, <1>19, <1>20, <1>21, <1>22, <1>23, <1>24 DEF Next, Host,
     Scanner, Reconciles, Pass

\* A step keeps the pass in its type.
LEMMA PassStep == TypeOK /\ [Next]_vars => PassOK'
<1> SUFFICES ASSUME TypeOK, [Next]_vars PROVE PassOK'
  OBVIOUS
<1> USE DEF TypeOK, PassUnder, NoPass, Reports, NoReports, Scopes, PassOK
<1>1. CASE Host
  BY <1>1 DEF Host, TagsChanged, Happens, Edits, Report, RatingChanged, UnnamedTagsChanged,
     MembershipChanged, storeVars, LibrarySwitched, MeetsPass, scanVars, Rebuild, Stop
<1>2. CASE Start
  BY <1>2 DEF Start, hostVars, storeVars, scanVars
<1>3. CASE Wake
  BY <1>3 DEF Wake, hostVars, storeVars
<1>4. CASE Take
  BY <1>4 DEF Take, hostVars, storeVars, Reported
<1>5. CASE PutBack
  BY <1>5 DEF PutBack, hostVars, storeVars, Merged
<1>6. CASE BeginScan
  BY <1>6 DEF BeginScan, hostVars, storeVars
<1>7. ASSUME NEW scope \in Scopes, BeginReconcile(scope) PROVE PassOK'
  BY <1>7 DEF BeginReconcile, hostVars, storeVars, scanVars
<1>8. CASE Check
  BY <1>8 DEF Check, hostVars, storeVars, scanVars
<1>9. CASE ListAlbums
  BY <1>9 DEF ListAlbums, HostAnswers, HostFails, hostVars, storeVars, scanVars
<1>10. CASE Validate
  BY <1>10 DEF Validate, hostVars, storeVars, scanVars
<1>11. CASE List
  <2>1. pass \in PassUnder
    BY <1>11 DEF List
  <2>2. CASE HostAnswers
    BY <1>11, <2>1, <2>2 DEF List, HostAnswers, HostFails, hostVars, storeVars, scanVars
  <2>3. CASE HostFails
    BY <1>11, <2>1, <2>3 DEF List, HostAnswers, HostFails, hostVars, storeVars, scanVars
  <2>4. QED
    BY <1>11, <2>2, <2>3 DEF List
<1>12. CASE Delta
  <2>1. pass \in PassUnder
    BY <1>12 DEF Delta
  <2>2. CASE HostAnswers
    BY <1>12, <2>1, <2>2 DEF Delta, HostAnswers, HostFails, hostVars, storeVars, scanVars
  <2>3. CASE HostFails
    BY <1>12, <2>1, <2>3 DEF Delta, HostAnswers, HostFails, hostVars, storeVars, scanVars
  <2>4. QED
    BY <1>12, <2>2, <2>3 DEF Delta
<1>13. CASE Index
  BY <1>13 DEF Index, hostVars, scanVars
<1>14. CASE Record
  BY <1>14 DEF Record, scanVars
<1>15. CASE Mark
  BY <1>15 DEF Mark, hostVars, scanVars
<1>16. CASE Finish
  BY <1>16 DEF Finish, hostVars, storeVars
<1>17. CASE UNCHANGED vars
  BY <1>17 DEF vars, hostVars, storeVars, scanVars
<1>18. QED
  BY <1>1, <1>2, <1>3, <1>4, <1>5, <1>6, <1>7, <1>8, <1>9, <1>10, <1>11, <1>12, <1>13, <1>14,
     <1>15, <1>16, <1>17 DEF Next, Scanner, Reconciles, Pass

\* The Scanner holds the guard exactly while it applies, and a core that is
\* down has nothing under way (ReconcileGuard, Drop).
LEMMA GuardStep == TypeOK /\ [Next]_vars => GuardOK'
<1> SUFFICES ASSUME TypeOK, [Next]_vars PROVE GuardOK'
  OBVIOUS
<1> USE DEF TypeOK, PassUnder, NoPass, Reports, NoReports, Scopes, GuardOK
<1>1. CASE Host
  BY <1>1 DEF Host, TagsChanged, Happens, Edits, Report, RatingChanged, UnnamedTagsChanged,
     MembershipChanged, storeVars, LibrarySwitched, MeetsPass, scanVars, Rebuild, Stop
<1>2. CASE Start
  BY <1>2 DEF Start, hostVars, storeVars, scanVars
<1>3. CASE Wake
  BY <1>3 DEF Wake, hostVars, storeVars
<1>4. CASE Take
  BY <1>4 DEF Take, hostVars, storeVars, Reported
<1>5. CASE PutBack
  BY <1>5 DEF PutBack, hostVars, storeVars, Merged
<1>6. CASE BeginScan
  BY <1>6 DEF BeginScan, hostVars, storeVars
<1>7. ASSUME NEW scope \in Scopes, BeginReconcile(scope) PROVE GuardOK'
  <2>1. CASE pass = NoPass
    BY <1>7, <2>1 DEF BeginReconcile, hostVars, storeVars, scanVars
  <2>2. CASE pass # NoPass
    BY <1>7, <2>2 DEF BeginReconcile, hostVars, storeVars, scanVars
  <2>3. QED
    BY <2>1, <2>2
<1>8. CASE Check
  BY <1>8 DEF Check, hostVars, storeVars, scanVars
<1>9. CASE ListAlbums
  BY <1>9 DEF ListAlbums, HostAnswers, HostFails, hostVars, storeVars, scanVars
<1>10. CASE Validate
  BY <1>10 DEF Validate, hostVars, storeVars, scanVars
<1>11. CASE List
  <2>1. pass \in PassUnder /\ up /\ UNCHANGED <<scanner, up>>
    BY <1>11 DEF List, scanVars
  <2>2. pass'.by = pass.by
    BY <1>11, <2>1 DEF List
  <2>3. QED
    BY <2>1, <2>2
<1>12. CASE Delta
  <2>1. pass \in PassUnder /\ up /\ UNCHANGED <<scanner, up>>
    BY <1>12 DEF Delta, scanVars
  <2>2. pass'.by = pass.by
    BY <1>12, <2>1 DEF Delta
  <2>3. QED
    BY <2>1, <2>2
<1>13. CASE Index
  BY <1>13 DEF Index, hostVars, scanVars
<1>14. CASE Record
  BY <1>14 DEF Record, scanVars
<1>15. CASE Mark
  BY <1>15 DEF Mark, hostVars, scanVars
<1>16. CASE Finish
  BY <1>16 DEF Finish, hostVars, storeVars
<1>17. CASE UNCHANGED vars
  BY <1>17 DEF vars, hostVars, storeVars, scanVars
<1>18. QED
  BY <1>1, <1>2, <1>3, <1>4, <1>5, <1>6, <1>7, <1>8, <1>9, <1>10, <1>11, <1>12, <1>13, <1>14,
     <1>15, <1>16, <1>17 DEF Next, Scanner, Reconciles, Pass

\* The parts make up the type invariant.
LEMMA TypeParts == TypeOK <=> SetsOK /\ FlagsOK /\ EventsOK /\ QueuesOK /\ PassOK /\ GuardOK
  BY DEF TypeOK, SetsOK, FlagsOK, EventsOK, QueuesOK, PassOK, GuardOK

\* The type invariant is inductive.
LEMMA TypeStep == TypeOK /\ [Next]_vars => TypeOK'
<1> SUFFICES ASSUME TypeOK, [Next]_vars PROVE TypeOK'
  OBVIOUS
<1>1. SetsOK' /\ FlagsOK' /\ QueuesOK' /\ PassOK' /\ GuardOK'
  BY SetsStep, FlagsStep, QueuesStep, PassStep, GuardStep
<1>2. EventsOK'
  BY EventsStep, TypeParts
<1>3. (SetsOK /\ FlagsOK /\ EventsOK /\ QueuesOK /\ PassOK /\ GuardOK)' => TypeOK'
  BY DEF TypeOK, SetsOK, FlagsOK, EventsOK, QueuesOK, PassOK, GuardOK
<1>4. QED
  BY <1>1, <1>2, <1>3

\* Without a watermark there are no edits since it, and only a running core is
\* in service.
LEMMA MarksStep == TypeOK /\ Marks /\ [Next]_vars => Marks'
<1> SUFFICES ASSUME TypeOK, Marks, [Next]_vars PROVE Marks'
  OBVIOUS
<1> USE DEF TypeOK, PassUnder, NoPass, Reports, NoReports, Scopes, Marks
<1>1. CASE Host
  BY <1>1 DEF Host, TagsChanged, Happens, Edits, Report, RatingChanged, UnnamedTagsChanged,
     MembershipChanged, storeVars, LibrarySwitched, MeetsPass, scanVars, Rebuild, Stop
<1>2. CASE Start
  BY <1>2 DEF Start, hostVars, storeVars, scanVars
<1>3. CASE Scanner
  BY <1>3 DEF Scanner, Wake, hostVars, storeVars, Take, Reported, PutBack, Merged, BeginScan
<1>4. ASSUME NEW scope \in Scopes, BeginReconcile(scope) PROVE Marks'
  BY <1>4 DEF BeginReconcile, hostVars, storeVars, scanVars
<1>5. CASE Pass
  BY <1>5 DEF Pass, Check, hostVars, storeVars, scanVars, ListAlbums, HostAnswers, HostFails,
     Validate, List, Delta, Index, Record, Mark, Finish
<1>6. CASE UNCHANGED vars
  BY <1>6 DEF vars, hostVars, storeVars, scanVars
<1>7. QED
  BY <1>1, <1>2, <1>3, <1>4, <1>5, <1>6 DEF Next, Reconciles

\* A step leaves a batch in the hands of a Scanner that has taken one.
LEMMA BatchStep == TypeOK /\ PassShape /\ BatchShape /\ [Next]_vars => BatchShape'
<1> SUFFICES ASSUME TypeOK, PassShape, BatchShape, [Next]_vars PROVE BatchShape'
  OBVIOUS
<1> USE DEF TypeOK, PassUnder, NoPass, Reports, NoReports, Scopes, PassShape, BatchShape
<1>1. CASE Host
  BY <1>1 DEF Host, TagsChanged, Happens, Edits, Report, RatingChanged, UnnamedTagsChanged,
     MembershipChanged, storeVars, LibrarySwitched, MeetsPass, scanVars, Rebuild, Stop
<1>2. CASE Start
  BY <1>2 DEF Start, hostVars, storeVars, scanVars
<1>3. CASE Scanner
  BY <1>3 DEF Scanner, Wake, hostVars, storeVars, Take, Reported, PutBack, Merged, BeginScan
<1>4. ASSUME NEW scope \in Scopes, BeginReconcile(scope) PROVE BatchShape'
  BY <1>4 DEF BeginReconcile, hostVars, storeVars, scanVars
<1>5. CASE Pass
  BY <1>5 DEF Pass, Check, hostVars, storeVars, scanVars, ListAlbums, HostAnswers, HostFails,
     Validate, List, Delta, Index, Record, Mark, Finish
<1>6. CASE UNCHANGED vars
  BY <1>6 DEF vars, hostVars, storeVars, scanVars
<1>7. QED
  BY <1>1, <1>2, <1>3, <1>4, <1>5, <1>6 DEF Next, Reconciles

\* A step takes a pass along its own road: a reconcile is never at check, a
\* scan never at delta, a cover pass never past the albums.
LEMMA ShapeStep == TypeOK /\ PassShape /\ [Next]_vars => PassShape'
<1> SUFFICES ASSUME TypeOK, PassShape, [Next]_vars PROVE PassShape'
  OBVIOUS
<1> USE DEF TypeOK, PassUnder, NoPass, Reports, NoReports, Scopes, PassShape, Serving
<1>1. CASE Host
  BY <1>1 DEF Host, TagsChanged, Happens, Edits, Report, RatingChanged, UnnamedTagsChanged,
     MembershipChanged, storeVars, LibrarySwitched, MeetsPass, scanVars, Rebuild, Stop
<1>2. CASE Start
  BY <1>2 DEF Start, hostVars, storeVars, scanVars
<1>3. CASE Scanner
  BY <1>3 DEF Scanner, Wake, hostVars, storeVars, Take, Reported, PutBack, Merged, BeginScan
<1>4. ASSUME NEW scope \in Scopes, BeginReconcile(scope) PROVE PassShape'
  BY <1>4 DEF BeginReconcile, hostVars, storeVars, scanVars
<1>5. CASE Check
  BY <1>5 DEF Check, hostVars, storeVars, scanVars
<1>6. CASE ListAlbums
  BY <1>6 DEF ListAlbums, HostAnswers, HostFails, hostVars, storeVars, scanVars
<1>7. CASE Validate
  BY <1>7 DEF Validate, hostVars, storeVars, scanVars
<1>8. CASE List
  BY <1>8 DEF List, HostAnswers, HostFails, hostVars, storeVars, scanVars
<1>9. CASE Delta
  <2>1. pass \in PassUnder
    BY <1>9 DEF Delta
  <2>2. CASE HostAnswers
    BY <1>9, <2>1, <2>2 DEF Delta, HostAnswers, HostFails, hostVars, storeVars, scanVars
  <2>3. CASE HostFails
    BY <1>9, <2>1, <2>3 DEF Delta, HostAnswers, HostFails, hostVars, storeVars, scanVars
  <2>4. QED
    BY <1>9, <2>2, <2>3 DEF Delta
<1>10. CASE Index
  BY <1>10 DEF Index, hostVars, scanVars
<1>11. CASE Record
  BY <1>11 DEF Record, scanVars
<1>12. CASE Mark
  BY <1>12 DEF Mark, hostVars, scanVars
<1>13. CASE Finish
  BY <1>13 DEF Finish, hostVars, storeVars
<1>14. CASE UNCHANGED vars
  BY <1>14 DEF vars, hostVars, storeVars, scanVars
<1>15. QED
  BY <1>1, <1>2, <1>3, <1>4, <1>5, <1>6, <1>7, <1>8, <1>9, <1>10, <1>11, <1>12, <1>13, <1>14 DEF
     Next, Reconciles, Pass

\* Only a switch or a rebuild takes the cache out of service, and it crosses
\* the pass it meets.
LEMMA ServedStep == TypeOK /\ PassShape /\ PassServed /\ [Next]_vars => PassServed'
<1> SUFFICES ASSUME TypeOK, PassShape, PassServed, [Next]_vars PROVE PassServed'
  OBVIOUS
<1> USE DEF TypeOK, PassUnder, NoPass, Reports, NoReports, Scopes, PassShape, PassServed,
   Serving
<1>1. CASE Host
  BY <1>1 DEF Host, TagsChanged, Happens, Edits, Report, RatingChanged, UnnamedTagsChanged,
     MembershipChanged, storeVars, LibrarySwitched, MeetsPass, scanVars, Rebuild, Stop
<1>2. CASE Start
  BY <1>2 DEF Start, hostVars, storeVars, scanVars
<1>3. CASE Scanner
  BY <1>3 DEF Scanner, Wake, hostVars, storeVars, Take, Reported, PutBack, Merged, BeginScan
<1>4. ASSUME NEW scope \in Scopes, BeginReconcile(scope) PROVE PassServed'
  BY <1>4 DEF BeginReconcile, hostVars, storeVars, scanVars
<1>5. CASE Check
  BY <1>5 DEF Check, hostVars, storeVars, scanVars
<1>6. CASE ListAlbums
  BY <1>6 DEF ListAlbums, HostAnswers, HostFails, hostVars, storeVars, scanVars
<1>7. CASE Validate
  BY <1>7 DEF Validate, hostVars, storeVars, scanVars
<1>8. CASE List
  BY <1>8 DEF List, HostAnswers, HostFails, hostVars, storeVars, scanVars
<1>9. CASE Delta
  BY <1>9 DEF Delta, HostAnswers, HostFails, hostVars, storeVars, scanVars
<1>10. CASE Index
  BY <1>10 DEF Index, hostVars, scanVars
<1>11. CASE Record
  BY <1>11 DEF Record, scanVars
<1>12. CASE Mark
  BY <1>12 DEF Mark, hostVars, scanVars
<1>13. CASE Finish
  BY <1>13 DEF Finish, hostVars, storeVars
<1>14. CASE UNCHANGED vars
  BY <1>14 DEF vars, hostVars, storeVars, scanVars
<1>15. QED
  BY <1>1, <1>2, <1>3, <1>4, <1>5, <1>6, <1>7, <1>8, <1>9, <1>10, <1>11, <1>12, <1>13, <1>14 DEF
     Next, Reconciles, Pass

\* Out of service, somebody is about to put it back: a thread that waits or the
\* pass it became (reconcile, invalidate).
LEMMA InServiceStep == TypeOK /\ PassShape /\ Marks /\ InService /\ [Next]_vars => InService'
<1> SUFFICES ASSUME TypeOK, PassShape, Marks, InService, [Next]_vars PROVE InService'
  OBVIOUS
<1> USE DEF TypeOK, PassUnder, NoPass, Reports, NoReports, Scopes, PassShape, Marks, InService,
   Serving
<1>1. CASE Host
  BY <1>1 DEF Host, TagsChanged, Happens, Edits, Report, RatingChanged, UnnamedTagsChanged,
     MembershipChanged, storeVars, LibrarySwitched, MeetsPass, scanVars, Rebuild, Stop
<1>2. CASE Start
  BY <1>2 DEF Start, hostVars, storeVars, scanVars
<1>3. CASE Wake
  BY <1>3 DEF Wake, hostVars, storeVars
<1>4. CASE Take
  BY <1>4 DEF Take, hostVars, storeVars, Reported
<1>5. CASE PutBack
  BY <1>5 DEF PutBack, hostVars, storeVars, Merged
<1>6. CASE BeginScan
  BY <1>6 DEF BeginScan, hostVars, storeVars
<1>7. ASSUME NEW scope \in Scopes, BeginReconcile(scope) PROVE InService'
  <2>1. CASE pass = NoPass
    BY <1>7, <2>1 DEF BeginReconcile, hostVars, storeVars, scanVars
  <2>2. CASE pass # NoPass
    BY <1>7, <2>2 DEF BeginReconcile, hostVars, storeVars, scanVars
  <2>3. QED
    BY <2>1, <2>2
<1>8. CASE Check
  BY <1>8 DEF Check, hostVars, storeVars, scanVars
<1>9. CASE ListAlbums
  BY <1>9 DEF ListAlbums, HostAnswers, HostFails, hostVars, storeVars, scanVars
<1>10. CASE Validate
  BY <1>10 DEF Validate, hostVars, storeVars, scanVars
<1>11. CASE List
  BY <1>11 DEF List, HostAnswers, HostFails, hostVars, storeVars, scanVars
<1>12. CASE Delta
  BY <1>12 DEF Delta, HostAnswers, HostFails, hostVars, storeVars, scanVars
<1>13. CASE Index
  BY <1>13 DEF Index, hostVars, scanVars
<1>14. CASE Record
  BY <1>14 DEF Record, scanVars
<1>15. CASE Mark
  BY <1>15 DEF Mark, hostVars, scanVars
<1>16. CASE Finish
  BY <1>16 DEF Finish, hostVars, storeVars
<1>17. CASE UNCHANGED vars
  BY <1>17 DEF vars, hostVars, storeVars, scanVars
<1>18. QED
  BY <1>1, <1>2, <1>3, <1>4, <1>5, <1>6, <1>7, <1>8, <1>9, <1>10, <1>11, <1>12, <1>13, <1>14,
     <1>15, <1>16, <1>17 DEF Next, Scanner, Reconciles, Pass

\* What a pass has listed is the library unless a re-list is due, and what the
\* index and the log hold once the pass has written them.
LEMMA ListingStep == TypeOK /\ PassShape /\ ListingHolds /\ [Next]_vars => ListingHolds'
<1> SUFFICES ASSUME TypeOK, PassShape, ListingHolds, [Next]_vars PROVE ListingHolds'
  OBVIOUS
<1> USE DEF TypeOK, PassUnder, NoPass, Reports, NoReports, Scopes, PassShape, ListingHolds,
   RelistDue, Serving
<1>1. CASE TagsChanged
  BY <1>1 DEF TagsChanged, Happens, Edits, Report
<1>2. CASE RatingChanged
  BY <1>2 DEF RatingChanged, Happens, Edits, Report
<1>3. CASE UnnamedTagsChanged
  BY <1>3 DEF UnnamedTagsChanged, Happens, Edits, Report
<1>4. CASE MembershipChanged
  BY <1>4 DEF MembershipChanged, Happens, Report, storeVars
<1>5. CASE LibrarySwitched
  BY <1>5 DEF LibrarySwitched, Happens, MeetsPass, scanVars
<1>6. CASE Rebuild("metadata")
  BY <1>6 DEF Rebuild, Happens, MeetsPass, scanVars
<1>7. CASE Rebuild("covers")
  BY <1>7 DEF Rebuild, Happens, scanVars
<1>8. CASE Stop
  BY <1>8 DEF Stop, Happens, storeVars
<1>9. CASE Start
  BY <1>9 DEF Start, hostVars, storeVars, scanVars
<1>10. CASE Wake
  BY <1>10 DEF Wake, hostVars, storeVars
<1>11. CASE Take
  BY <1>11 DEF Take, hostVars, storeVars, Reported
<1>12. CASE PutBack
  BY <1>12 DEF PutBack, hostVars, storeVars, Merged
<1>13. CASE BeginScan
  BY <1>13 DEF BeginScan, hostVars, storeVars
<1>14. ASSUME NEW scope \in Scopes, BeginReconcile(scope) PROVE ListingHolds'
  BY <1>14 DEF BeginReconcile, hostVars, storeVars, scanVars
<1>15. CASE Check
  BY <1>15 DEF Check, hostVars, storeVars, scanVars
<1>16. CASE ListAlbums
  BY <1>16 DEF ListAlbums, HostAnswers, HostFails, hostVars, storeVars, scanVars
<1>17. CASE Validate
  BY <1>17 DEF Validate, hostVars, storeVars, scanVars
<1>18. CASE List
  BY <1>18 DEF List, HostAnswers, HostFails, hostVars, storeVars, scanVars
<1>19. CASE Delta
  BY <1>19 DEF Delta, HostAnswers, HostFails, hostVars, storeVars, scanVars
<1>20. CASE Index
  BY <1>20 DEF Index, hostVars, scanVars
<1>21. CASE Record
  BY <1>21 DEF Record, scanVars
<1>22. CASE Mark
  BY <1>22 DEF Mark, hostVars, scanVars
<1>23. CASE Finish
  BY <1>23 DEF Finish, hostVars, storeVars
<1>24. CASE UNCHANGED vars
  BY <1>24 DEF vars, hostVars, storeVars, scanVars
<1>25. QED
  BY <1>1, <1>2, <1>3, <1>4, <1>5, <1>6, <1>7, <1>8, <1>9, <1>10, <1>11, <1>12, <1>13, <1>14,
     <1>15, <1>16, <1>17, <1>18, <1>19, <1>20, <1>21, <1>22, <1>23, <1>24 DEF Next, Host,
     Scanner, Reconciles, Pass

\* Index and log hold the library, or a re-list is due, or the pass that lists
\* it again has yet to file it.
LEMMA ListedStep ==
    TypeOK /\ PassShape /\ BatchShape /\ Marks /\ ListingHolds /\ Listed /\ [Next]_vars
    => Listed'
<1> SUFFICES ASSUME TypeOK, PassShape, BatchShape, Marks, ListingHolds, Listed, [Next]_vars
             PROVE  Listed'
  OBVIOUS
<1> USE DEF TypeOK, PassUnder, NoPass, Reports, NoReports, Scopes, PassShape, BatchShape, Marks,
   ListingHolds, Listed, RelistDue, Serving
<1>1. CASE TagsChanged
  BY <1>1 DEF TagsChanged, Happens, Edits, Report
<1>2. CASE RatingChanged
  BY <1>2 DEF RatingChanged, Happens, Edits, Report
<1>3. CASE UnnamedTagsChanged
  BY <1>3 DEF UnnamedTagsChanged, Happens, Edits, Report
<1>4. CASE MembershipChanged
  BY <1>4 DEF MembershipChanged, Happens, Report, storeVars
<1>5. CASE LibrarySwitched
  BY <1>5 DEF LibrarySwitched, Happens, MeetsPass, scanVars
<1>6. CASE Rebuild("metadata")
  BY <1>6 DEF Rebuild, Happens, MeetsPass, scanVars
<1>7. CASE Rebuild("covers")
  BY <1>7 DEF Rebuild, Happens, scanVars
<1>8. CASE Stop
  BY <1>8 DEF Stop, Happens, storeVars
<1>9. CASE Start
  BY <1>9 DEF Start, hostVars, storeVars, scanVars
<1>10. CASE Wake
  BY <1>10 DEF Wake, hostVars, storeVars
<1>11. CASE Take
  BY <1>11 DEF Take, hostVars, storeVars, Reported
<1>12. CASE PutBack
  BY <1>12 DEF PutBack, hostVars, storeVars, Merged
<1>13. CASE BeginScan
  BY <1>13 DEF BeginScan, hostVars, storeVars
<1>14. ASSUME NEW scope \in Scopes, BeginReconcile(scope) PROVE Listed'
  BY <1>14 DEF BeginReconcile, hostVars, storeVars, scanVars
<1>15. CASE Check
  BY <1>15 DEF Check, hostVars, storeVars, scanVars
<1>16. CASE ListAlbums
  BY <1>16 DEF ListAlbums, HostAnswers, HostFails, hostVars, storeVars, scanVars
<1>17. CASE Validate
  BY <1>17 DEF Validate, hostVars, storeVars, scanVars
<1>18. CASE List
  BY <1>18 DEF List, HostAnswers, HostFails, hostVars, storeVars, scanVars
<1>19. CASE Delta
  BY <1>19 DEF Delta, HostAnswers, HostFails, hostVars, storeVars, scanVars
<1>20. CASE Index
  BY <1>20 DEF Index, hostVars, scanVars
<1>21. CASE Record
  BY <1>21 DEF Record, scanVars
<1>22. CASE Mark
  BY <1>22 DEF Mark, hostVars, scanVars
<1>23. CASE Finish
  BY <1>23 DEF Finish, hostVars, storeVars
<1>24. CASE UNCHANGED vars
  BY <1>24 DEF vars, hostVars, storeVars, scanVars
<1>25. QED
  BY <1>1, <1>2, <1>3, <1>4, <1>5, <1>6, <1>7, <1>8, <1>9, <1>10, <1>11, <1>12, <1>13, <1>14,
     <1>15, <1>16, <1>17, <1>18, <1>19, <1>20, <1>21, <1>22, <1>23, <1>24 DEF Next, Host,
     Scanner, Reconciles, Pass

\* No step drops the last holder of an edit before the log has filed it.
LEMMA EditsStep ==
    TypeOK /\ PassShape /\ BatchShape /\ Marks /\ PassServed /\ EditsHeld /\ [Next]_vars
    => EditsHeld'
<1> SUFFICES ASSUME TypeOK, PassShape, BatchShape, Marks, PassServed, EditsHeld, [Next]_vars
             PROVE  EditsHeld'
  OBVIOUS
<1> USE DEF TypeOK, PassUnder, NoPass, Reports, NoReports, Scopes, PassShape, BatchShape, Marks,
   PassServed, EditsHeld, Held, Serving
<1>1. CASE TagsChanged
  BY <1>1 DEF TagsChanged, Happens, Edits, Report
<1>2. CASE RatingChanged
  BY <1>2 DEF RatingChanged, Happens, Edits, Report
<1>3. CASE UnnamedTagsChanged
  BY <1>3 DEF UnnamedTagsChanged, Happens, Edits, Report
<1>4. CASE MembershipChanged
  BY <1>4 DEF MembershipChanged, Happens, Report, storeVars
<1>5. CASE LibrarySwitched
  BY <1>5 DEF LibrarySwitched, Happens, MeetsPass, scanVars
<1>6. CASE Rebuild("metadata")
  BY <1>6 DEF Rebuild, Happens, MeetsPass, scanVars
<1>7. CASE Rebuild("covers")
  BY <1>7 DEF Rebuild, Happens, scanVars
<1>8. CASE Stop
  BY <1>8 DEF Stop, Happens, storeVars
<1>9. CASE Start
  BY <1>9 DEF Start, hostVars, storeVars, scanVars
<1>10. CASE Wake
  BY <1>10 DEF Wake, hostVars, storeVars
<1>11. CASE Take
  BY <1>11 DEF Take, hostVars, storeVars, Reported
<1>12. CASE PutBack
  BY <1>12 DEF PutBack, hostVars, storeVars, Merged
<1>13. CASE BeginScan
  BY <1>13 DEF BeginScan, hostVars, storeVars
<1>14. ASSUME NEW scope \in Scopes, BeginReconcile(scope) PROVE EditsHeld'
  BY <1>14 DEF BeginReconcile, hostVars, storeVars, scanVars
<1>15. CASE Check
  BY <1>15 DEF Check, hostVars, storeVars, scanVars
<1>16. CASE ListAlbums
  BY <1>16 DEF ListAlbums, HostAnswers, HostFails, hostVars, storeVars, scanVars
<1>17. CASE Validate
  BY <1>17 DEF Validate, hostVars, storeVars, scanVars
<1>18. CASE List
  <2>1. pass \in PassUnder
    BY <1>18 DEF List
  <2>2. CASE HostAnswers
    BY <1>18, <2>1, <2>2 DEF List, HostAnswers, HostFails, hostVars, storeVars, scanVars
  <2>3. CASE HostFails
    BY <1>18, <2>1, <2>3 DEF List, HostAnswers, HostFails, hostVars, storeVars, scanVars
  <2>4. QED
    BY <1>18, <2>2, <2>3 DEF List
<1>19. CASE Delta
  BY <1>19 DEF Delta, HostAnswers, HostFails, hostVars, storeVars, scanVars
<1>20. CASE Index
  BY <1>20 DEF Index, hostVars, scanVars
<1>21. CASE Record
  BY <1>21 DEF Record, scanVars
<1>22. CASE Mark
  BY <1>22 DEF Mark, hostVars, scanVars
<1>23. CASE Finish
  BY <1>23 DEF Finish, hostVars, storeVars
<1>24. CASE UNCHANGED vars
  BY <1>24 DEF vars, hostVars, storeVars, scanVars
<1>25. QED
  BY <1>1, <1>2, <1>3, <1>4, <1>5, <1>6, <1>7, <1>8, <1>9, <1>10, <1>11, <1>12, <1>13, <1>14,
     <1>15, <1>16, <1>17, <1>18, <1>19, <1>20, <1>21, <1>22, <1>23, <1>24 DEF Next, Host,
     Scanner, Reconciles, Pass

-----------------------------------------------------------------------------
\* A core that was never started owes nothing.
LEMMA InitInvariant == Init => IInv
<1> SUFFICES ASSUME Init PROVE IInv
  OBVIOUS
<1> USE DEF Init, NoPass, NoReports
<1>1. TypeOK
  BY DEF TypeOK, Reports
<1>2. PassShape /\ BatchShape /\ Marks /\ PassServed
  BY DEF PassShape, BatchShape, Marks, PassServed, Serving
<1>3. InService /\ ListingHolds /\ Listed /\ EditsHeld
  BY DEF InService, ListingHolds, Listed, EditsHeld
<1>4. QED
  BY <1>1, <1>2, <1>3 DEF IInv

\* The parts of the invariant, together, are inductive.
LEMMA StepInvariant == IInv /\ [Next]_vars => IInv'
<1> SUFFICES ASSUME IInv, [Next]_vars PROVE IInv'
  OBVIOUS
<1>1. TypeOK' /\ PassShape' /\ BatchShape' /\ Marks' /\ PassServed'
  BY TypeStep, ShapeStep, BatchStep, MarksStep, ServedStep DEF IInv
<1>2. InService' /\ ListingHolds' /\ Listed' /\ EditsHeld'
  BY InServiceStep, ListingStep, ListedStep, EditsStep DEF IInv
<1>3. QED
  BY <1>1, <1>2 DEF IInv

\* Where the work still owed is, at every moment of every run.
THEOREM Invariant == Spec => []IInv
  BY InitInvariant, StepInvariant, PTL DEF Spec

\* At rest no re-list is due and no pass is under way, so the index and the log
\* hold the library (relist_library, build_track_index).
THEOREM LogCorrect == Spec => []LogHoldsLibrary
<1>1. IInv => LogHoldsLibrary
  BY DEF IInv, TypeOK, Listed, RelistDue, LogHoldsLibrary, AtRest, NoPass, NoReports
<1>2. QED
  BY Invariant, <1>1, PTL

\* Each holder of an edit is one of those NoEditLost counts, and at rest only the
\* last of them is left (LibraryEvents, put_back, edited_since).
THEOREM EditsCorrect == Spec => []NoEditLost
<1>1. IInv => EditsAccounted
  BY DEF IInv, EditsHeld, Held, EditsAccounted
<1>2. IInv => EditsFiled
  BY DEF IInv, EditsHeld, Held, EditsFiled, AtRest, NoPass, NoReports
<1>3. IInv => NoEditLost
  BY <1>1, <1>2 DEF NoEditLost
<1>4. QED
  BY Invariant, <1>3, PTL

\* At rest no thread waits and no pass runs that would yet put the cache in
\* service, so it is in service (MetadataCache::reconcile).
THEOREM ServiceCorrect == Spec => []StaysInService
<1>1. IInv => StaysInService
  BY DEF IInv, InService, StaysInService, AtRest, NoPass
<1>2. QED
  BY Invariant, <1>1, PTL
=============================================================================
