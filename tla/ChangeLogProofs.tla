--------------------------- MODULE ChangeLogProofs ---------------------------
(***************************************************************************)
(* Theorems about the change log, for every library, page size, tombstone  *)
(* budget and number of readers.                                           *)
(***************************************************************************)
EXTENDS ChangeLog, FiniteSetTheorems, TLAPS

-----------------------------------------------------------------------------
(* Rows. *)

\* What it is to be a row of a table.
LEMMA RowsOfMember ==
    ASSUME NEW k \in [Paths -> [gen : Nat, live : BOOLEAN]], NEW r
    PROVE  r \in RowsOf(k) <=> /\ r \in Row
                               /\ k[r.src].gen > 0
                               /\ r.gen = k[r.src].gen
                               /\ r.live = k[r.src].live
<1>1. ASSUME r \in RowsOf(k)
      PROVE  r \in Row /\ k[r.src].gen > 0 /\ r.gen = k[r.src].gen /\ r.live = k[r.src].live
  BY <1>1 DEF RowsOf, Row
<1>2. ASSUME r \in Row, k[r.src].gen > 0, r.gen = k[r.src].gen, r.live = k[r.src].live
      PROVE  r \in RowsOf(k)
  <2>1. r = [gen |-> k[r.src].gen, src |-> r.src, live |-> k[r.src].live]
    BY <1>2 DEF Row
  <2>2. r.src \in {q \in Paths : k[q].gen > 0}
    BY <1>2 DEF Row
  <2> QED
    BY <2>1, <2>2 DEF RowsOf
<1> QED
  BY <1>1, <1>2

\* A table over finitely many paths is finite: a row is determined by its path.
LEMMA RowsFinite ==
    ASSUME NEW k \in [Paths -> [gen : Nat, live : BOOLEAN]]
    PROVE  IsFiniteSet(RowsOf(k))
<1> DEFINE f == [r \in RowsOf(k) |-> r.src]
<1>1. f \in [RowsOf(k) -> Paths]
  BY RowsOfMember DEF Row
<1>2. ASSUME NEW a \in RowsOf(k), NEW b \in RowsOf(k), f[a] = f[b]
      PROVE  a = b
  <2>1. /\ a \in Row /\ b \in Row /\ a.src = b.src
        /\ a.gen = b.gen /\ a.live = b.live
    BY <1>2, RowsOfMember
  <2> QED
    BY <2>1 DEF Row
<1>3. f \in Injection(RowsOf(k), Paths)
  BY <1>1, <1>2 DEF Injection, IsInjective
<1> QED
  BY <1>3, FS_Injection, ChangeLogAssumption

\* Any set of paths, and any set of filed rows, can be counted.
LEMMA CountPaths ==
    ASSUME NEW S \in SUBSET Paths
    PROVE  IsFiniteSet(S) /\ Cardinality(S) \in Nat
BY ChangeLogAssumption, FS_Subset, FS_CardinalityType

\* Any set of rows of the log can be counted.
LEMMA CountRows ==
    ASSUME TypeOK, TablesAgree, NEW S \in SUBSET log
    PROVE  IsFiniteSet(S) /\ Cardinality(S) \in Nat
<1>1. IsFiniteSet(log)
  BY RowsFinite DEF TypeOK, TablesAgree
<1> QED
  BY <1>1, FS_Subset, FS_CardinalityType

\* Counters that saturate stay natural.
LEMMA MinusNat ==
    ASSUME NEW a \in Nat, NEW b \in Nat
    PROVE  Minus(a, b) \in Nat
BY DEF Minus

-----------------------------------------------------------------------------
(* One index pass. *)

\* The tables a pass builds agree with each other before deletes are forgotten.
LEMMA FiledTablesAgree ==
    ASSUME TypeOK, TablesAgree,
           NEW moved \in SUBSET Paths, NEW removed \in SUBSET moved
    PROVE  /\ FiledKnown(moved, removed) \in [Paths -> [gen : Nat, live : BOOLEAN]]
           /\ FiledLog(moved, removed) = RowsOf(FiledKnown(moved, removed))
<1> DEFINE k == FiledKnown(moved, removed)
           l == FiledLog(moved, removed)
<1>1. k \in [Paths -> [gen : Nat, live : BOOLEAN]]
  BY DEF FiledKnown, TypeOK
<1>2. ASSUME NEW r \in l
      PROVE  r \in RowsOf(k)
  <2>1. CASE r \in log /\ ~(r.src \in moved /\ r.gen = known[r.src].gen)
    <3>1. r \in Row /\ known[r.src].gen > 0 /\ r.gen = known[r.src].gen /\ r.live = known[r.src].live
      BY <2>1, RowsOfMember DEF TablesAgree, TypeOK
    <3>2. k[r.src] = known[r.src]
      BY <2>1, <3>1 DEF FiledKnown, Row
    <3> QED
      BY <1>1, <3>1, <3>2, RowsOfMember
  <2>2. ASSUME NEW p \in moved,
               r = [gen |-> generation + 1, src |-> p, live |-> p \notin removed]
        PROVE  r \in RowsOf(k)
    <3>1. r \in Row /\ r.src = p /\ r.gen = generation + 1 /\ r.live = (p \notin removed)
      BY <2>2 DEF TypeOK, Row
    <3>2. k[p] = [gen |-> generation + 1, live |-> p \notin removed] /\ generation + 1 > 0
      BY <2>2 DEF FiledKnown, TypeOK
    <3> QED
      BY <1>1, <3>1, <3>2, RowsOfMember
  <2> QED
    BY <2>1, <2>2 DEF FiledLog
<1>3. ASSUME NEW r \in RowsOf(k)
      PROVE  r \in l
  <2>1. r \in Row /\ k[r.src].gen > 0 /\ r.gen = k[r.src].gen /\ r.live = k[r.src].live
    BY <1>1, RowsOfMember
  <2>2. CASE r.src \in moved
    <3>1. k[r.src] = [gen |-> generation + 1, live |-> r.src \notin removed]
      BY <2>1, <2>2 DEF FiledKnown, Row
    <3>2. r = [gen |-> generation + 1, src |-> r.src, live |-> r.src \notin removed]
      BY <2>1, <3>1 DEF Row
    <3> QED
      BY <2>2, <3>2 DEF FiledLog
  <2>3. CASE r.src \notin moved
    <3>1. k[r.src] = known[r.src]
      BY <2>1, <2>3 DEF FiledKnown, Row
    <3>2. r \in log
      BY <2>1, <3>1, RowsOfMember DEF TablesAgree, TypeOK
    <3> QED
      BY <2>3, <3>2 DEF FiledLog
  <2> QED
    BY <2>2, <2>3
<1> QED
  BY <1>1, <1>2, <1>3

\* Dropping the oldest deletes drops the same rows from both tables, raises the
\* floor no higher than the pass, and leaves no delete below it.
LEMMA ForgettingKeepsTables ==
    ASSUME TypeOK, TablesAgree, NEW n \in Nat,
           NEW k \in [Paths -> [gen : Nat, live : BOOLEAN]],
           \A p \in Paths : /\ k[p].gen <= generation + 1
                            /\ k[p].live => k[p].gen > 0
                            /\ (k[p].gen > 0 /\ ~k[p].live) => floor <= k[p].gen,
           ForgetOldest(n, k, RowsOf(k))
    PROVE  /\ known' \in [Paths -> [gen : Nat, live : BOOLEAN]]
           /\ log' = RowsOf(known')
           /\ floor' \in Nat /\ floor <= floor' /\ floor' <= generation + 1
           /\ \A p \in Paths :
                \/ known'[p] = k[p]
                \/ known'[p] = NoRow /\ ~k[p].live /\ k[p].gen <= floor'
           /\ \A p \in Paths : (known'[p].gen > 0 /\ ~known'[p].live) => floor' <= known'[p].gen
<1> DEFINE dead == {r \in RowsOf(k) : ~r.live}
<1>1. PICK F \in SUBSET RowsOf(k) :
        /\ Oldest(F, n, dead)
        /\ log' = RowsOf(k) \ F
        /\ known' = [p \in Paths |-> IF \E r \in F : r.src = p THEN NoRow ELSE k[p]]
        /\ IF F = {} THEN floor' = floor
           ELSE \E last \in F : /\ \A r \in F : r.gen <= last.gen
                                /\ floor' = last.gen
  BY DEF ForgetOldest
<1>2. \A r \in F : /\ r \in Row /\ ~r.live /\ r.gen > 0
                   /\ k[r.src].gen = r.gen /\ k[r.src].live = r.live
  BY <1>1, RowsOfMember DEF Oldest
<1>3. known' \in [Paths -> [gen : Nat, live : BOOLEAN]]
  BY <1>1 DEF NoRow
<1>4. /\ floor' \in Nat /\ floor <= floor' /\ floor' <= generation + 1
      /\ \A r \in F : r.gen <= floor'
  <2>1. CASE F = {}
    BY <1>1, <2>1 DEF TypeOK, TablesAgree
  <2>2. CASE F # {}
    <3>1. PICK last \in F : /\ \A r \in F : r.gen <= last.gen
                            /\ floor' = last.gen
      BY <1>1, <2>2
    <3>2. last.gen \in Nat /\ floor <= last.gen /\ last.gen <= generation + 1
      BY <1>2 DEF Row
    <3> QED
      BY <3>1, <3>2
  <2> QED
    BY <2>1, <2>2
<1>5. \A p \in Paths :
        \/ known'[p] = k[p]
        \/ known'[p] = NoRow /\ ~k[p].live /\ k[p].gen <= floor'
  <2> SUFFICES ASSUME NEW p \in Paths, known'[p] # k[p]
               PROVE  known'[p] = NoRow /\ ~k[p].live /\ k[p].gen <= floor'
    OBVIOUS
  <2>1. PICK r \in F : r.src = p
    BY <1>1
  <2> QED
    BY <1>1, <1>2, <1>4, <2>1
<1>6. log' = RowsOf(known')
  <2>1. ASSUME NEW r \in log'
        PROVE  r \in RowsOf(known')
    <3>1. r \in RowsOf(k) /\ r \notin F
      BY <1>1, <2>1
    <3>2. r \in Row /\ k[r.src].gen > 0 /\ r.gen = k[r.src].gen /\ r.live = k[r.src].live
      BY <3>1, RowsOfMember
    <3>3. ~\E s \in F : s.src = r.src
      <4> SUFFICES ASSUME NEW s \in F, s.src = r.src
                   PROVE  FALSE
        OBVIOUS
      <4>1. s \in Row /\ s.gen = r.gen /\ s.live = r.live /\ s.src = r.src
        BY <1>2, <3>2
      <4>2. s = r
        BY <3>2, <4>1 DEF Row
      <4> QED
        BY <3>1, <4>2
    <3>4. known'[r.src] = k[r.src]
      BY <1>1, <3>2, <3>3 DEF Row
    <3> QED
      BY <1>3, <3>2, <3>4, RowsOfMember
  <2>2. ASSUME NEW r \in RowsOf(known')
        PROVE  r \in log'
    <3>1. r \in Row /\ known'[r.src].gen > 0 /\ r.gen = known'[r.src].gen /\ r.live = known'[r.src].live
      BY <1>3, RowsOfMember
    <3>2. known'[r.src] = k[r.src] /\ r \notin F
      BY <1>1, <3>1 DEF NoRow, Row
    <3>3. r \in RowsOf(k)
      BY <3>1, <3>2, RowsOfMember
    <3> QED
      BY <1>1, <3>2, <3>3
  <2> QED
    BY <2>1, <2>2
<1>7. ASSUME NEW p \in Paths, known'[p].gen > 0, ~known'[p].live
      PROVE  floor' <= known'[p].gen
  <2> DEFINE r == [gen |-> k[p].gen, src |-> p, live |-> k[p].live]
  <2>1. known'[p] = k[p] /\ k[p].gen \in Nat /\ ~\E s \in F : s.src = p
    BY <1>1, <1>7 DEF NoRow
  <2>2. r \in dead \ F
    <3>1. r \in Row /\ r.src = p /\ r.gen = k[p].gen /\ r.live = k[p].live
      BY DEF Row
    <3>2. r \in RowsOf(k)
      BY <1>7, <2>1, <3>1, RowsOfMember
    <3> QED
      BY <1>7, <2>1, <3>1, <3>2
  <2>3. CASE F = {}
    BY <1>1, <1>7, <2>1, <2>3
  <2>4. CASE F # {}
    <3>1. PICK last \in F : floor' = last.gen
      BY <1>1, <2>4
    <3>2. Before(last, r)
      BY <1>1, <2>2, <3>1 DEF Oldest
    <3>3. last.gen \in Nat
      BY <1>2 DEF Row
    <3> QED
      BY <2>1, <3>1, <3>2, <3>3 DEF Before
  <2> QED
    BY <2>3, <2>4
<1> QED
  BY <1>3, <1>4, <1>5, <1>6, <1>7

\* What one pass does to the log: every path keeps its change, or carries the
\* pass's generation, or is a delete forgotten at or below the new floor.
LEMMA FileEffect ==
    ASSUME TypeOK, TablesAgree,
           NEW added \in SUBSET Paths, added \cap LivePaths = {},
           NEW edited \in SUBSET LivePaths, NEW removed \in SUBSET LivePaths,
           File(added, edited, removed)
    PROVE  /\ generation' = generation + 1
           /\ tombstones' \in Nat /\ inLibrary' \in Nat
           /\ known' \in [Paths -> [gen : Nat, live : BOOLEAN]]
           /\ log' = RowsOf(known')
           /\ floor' \in Nat /\ floor <= floor' /\ floor' <= generation + 1
           /\ \A p \in Paths :
                \/ known'[p] = known[p]
                \/ known'[p].gen = generation + 1
                \/ /\ known'[p] = NoRow
                   /\ (~known[p].live /\ known[p].gen <= floor') \/ floor' = generation + 1
           /\ \A p \in Paths : known'[p].gen <= generation + 1 /\ (known'[p].live => known'[p].gen > 0)
           /\ \A p \in Paths : (known'[p].gen > 0 /\ ~known'[p].live) => floor' <= known'[p].gen
<1> DEFINE moved == added \cup edited \cup removed
           k == FiledKnown(moved, removed)
           l == FiledLog(moved, removed)
           dead == Minus(tombstones, Cardinality(added \cap DeadPaths)) + Cardinality(removed)
<1>1. moved \in SUBSET Paths /\ removed \in SUBSET moved
  BY DEF LivePaths
<1>2. k \in [Paths -> [gen : Nat, live : BOOLEAN]] /\ l = RowsOf(k)
  BY <1>1, FiledTablesAgree
<1>3. /\ \A p \in moved : k[p].gen = generation + 1
      /\ \A p \in Paths \ moved : k[p] = known[p]
      /\ generation \in Nat
  BY <1>1 DEF FiledKnown, TypeOK
<1>4. /\ generation' = generation + 1
      /\ inLibrary' = Minus(inLibrary + Cardinality(added), Cardinality(removed))
      /\ IF dead > MaxTombstones
         THEN /\ tombstones' = MaxTombstones
              /\ ForgetOldest(dead - MaxTombstones, k, l)
         ELSE /\ tombstones' = dead
              /\ known' = k
              /\ log' = l
              /\ floor' = floor
  BY DEF File
<1> HIDE DEF moved, k, l
<1>5. \A p \in Paths : /\ k[p].gen <= generation + 1
                       /\ k[p].live => k[p].gen > 0
                       /\ (k[p].gen > 0 /\ ~k[p].live) => floor <= k[p].gen
  <2> SUFFICES ASSUME NEW p \in Paths
               PROVE  /\ k[p].gen <= generation + 1
                      /\ k[p].live => k[p].gen > 0
                      /\ (k[p].gen > 0 /\ ~k[p].live) => floor <= k[p].gen
    OBVIOUS
  <2>1. CASE p \in moved
    BY <1>3, <2>1 DEF TypeOK, TablesAgree
  <2>2. CASE p \notin moved
    BY <1>3, <2>2 DEF TypeOK, TablesAgree, DeadPaths
  <2> QED
    BY <2>1, <2>2
<1>6. dead \in Nat /\ inLibrary' \in Nat
  <2>1. /\ Cardinality(added) \in Nat /\ Cardinality(removed) \in Nat
        /\ Cardinality(added \cap DeadPaths) \in Nat
    BY <1>1, CountPaths
  <2>2. Minus(tombstones, Cardinality(added \cap DeadPaths)) \in Nat
    BY <2>1, MinusNat DEF TypeOK
  <2>3. inLibrary + Cardinality(added) \in Nat
    BY <2>1 DEF TypeOK
  <2>4. dead \in Nat
    BY <2>1, <2>2
  <2>5. Minus(inLibrary + Cardinality(added), Cardinality(removed)) \in Nat
    BY <2>1, <2>3, MinusNat
  <2> HIDE DEF dead
  <2> QED
    BY <1>4, <2>4, <2>5
<1> HIDE DEF dead
<1>7. CASE dead > MaxTombstones
  <2>1. dead - MaxTombstones \in Nat /\ MaxTombstones \in Nat
    BY <1>6, <1>7, ChangeLogAssumption
  <2>2. ForgetOldest(dead - MaxTombstones, k, RowsOf(k))
    BY <1>2, <1>4, <1>7
  <2>3. /\ known' \in [Paths -> [gen : Nat, live : BOOLEAN]]
        /\ log' = RowsOf(known')
        /\ floor' \in Nat /\ floor <= floor' /\ floor' <= generation + 1
        /\ \A p \in Paths :
             \/ known'[p] = k[p]
             \/ known'[p] = NoRow /\ ~k[p].live /\ k[p].gen <= floor'
        /\ \A p \in Paths : (known'[p].gen > 0 /\ ~known'[p].live) => floor' <= known'[p].gen
    BY <1>2, <1>5, <2>1, <2>2, ForgettingKeepsTables
  <2>4. ASSUME NEW p \in Paths
        PROVE  \/ known'[p] = known[p]
               \/ known'[p].gen = generation + 1
               \/ /\ known'[p] = NoRow
                  /\ (~known[p].live /\ known[p].gen <= floor') \/ floor' = generation + 1
    <3>1. CASE p \in moved
      <4>1. k[p].gen = generation + 1 /\ generation + 1 \in Nat
        BY <1>3, <3>1
      <4>2. CASE known'[p] = k[p]
        BY <4>1, <4>2
      <4>3. CASE known'[p] = NoRow /\ k[p].gen <= floor'
        <5>1. floor' = generation + 1
          BY <2>3, <4>1, <4>3
        <5> QED
          BY <4>3, <5>1
      <4> QED
        BY <2>3, <4>2, <4>3
    <3>2. CASE p \notin moved
      BY <1>3, <2>3, <3>2
    <3> QED
      BY <3>1, <3>2
  <2>5. ASSUME NEW p \in Paths
        PROVE  known'[p].gen <= generation + 1 /\ (known'[p].live => known'[p].gen > 0)
    BY <1>5, <2>3 DEF NoRow, TypeOK
  <2> QED
    BY <1>4, <1>6, <1>7, <2>1, <2>3, <2>4, <2>5
<1>8. CASE ~(dead > MaxTombstones)
  <2>1. known' = k /\ log' = RowsOf(known') /\ floor' = floor /\ tombstones' = dead
    BY <1>2, <1>4, <1>8
  <2>2. \A p \in Paths : known'[p] = known[p] \/ known'[p].gen = generation + 1
    BY <1>3, <2>1
  <2>3. floor \in Nat /\ floor <= generation + 1
    BY DEF TypeOK, TablesAgree
  <2> QED
    BY <1>2, <1>5, <1>4, <1>6, <2>1, <2>2, <2>3
<1> QED
  BY <1>7, <1>8

-----------------------------------------------------------------------------
(* The tables. *)

\* Every step keeps the tables in agreement.
LEMMA TablesStep ==
    ASSUME TypeOK, TablesAgree, [Next]_vars
    PROVE  TablesAgree'
<1>1. ASSUME NEW listing \in SUBSET Paths, NEW updated \in SUBSET Paths,
             RecordListing(listing, updated)
      PROVE  TablesAgree'
  <2>1. CASE Added(listing) \cup Removed(listing) \cup Edited(updated) = {}
    BY <1>1, <2>1 DEF RecordListing, TablesAgree, DeadPaths
  <2>2. CASE Added(listing) \cup Removed(listing) \cup Edited(updated) # {}
    <3>1. File(Added(listing), Edited(updated), Removed(listing))
      BY <1>1, <2>2 DEF RecordListing
    <3>2. /\ Added(listing) \in SUBSET Paths /\ Added(listing) \cap LivePaths = {}
          /\ Edited(updated) \in SUBSET LivePaths /\ Removed(listing) \in SUBSET LivePaths
      BY DEF Added, Edited, Removed
    <3> QED
      BY <3>1, <3>2, FileEffect DEF TablesAgree, DeadPaths
  <2> QED
    BY <2>1, <2>2
<1>2. ASSUME NEW updated \in SUBSET Paths, RecordEdits(updated)
      PROVE  TablesAgree'
  <2>1. File({}, Edited(updated), {})
    BY <1>2 DEF RecordEdits
  <2>2. Edited(updated) \in SUBSET LivePaths
    BY DEF Edited
  <2>3. {} \in SUBSET Paths /\ {} \cap LivePaths = {} /\ {} \in SUBSET LivePaths
    OBVIOUS
  <2> QED
    BY <2>1, <2>2, <2>3, FileEffect DEF TablesAgree, DeadPaths
<1>3. CASE Reset
  <2>1. \A p \in Paths : known'[p].gen = 0 /\ ~known'[p].live
    BY <1>3 DEF Reset, NoRow
  <2>2. RowsOf(known') = {} /\ DeadPaths' = {}
    BY <2>1 DEF RowsOf, DeadPaths
  <2>3. log' = {} /\ floor' = 0 /\ generation' = 0
    BY <1>3 DEF Reset
  <2> QED
    BY <2>1, <2>2, <2>3 DEF TablesAgree
<1>4. ASSUME UNCHANGED logVars
      PROVE  TablesAgree'
  BY <1>4 DEF logVars, TablesAgree, DeadPaths
<1> QED
  BY <1>1, <1>2, <1>3, <1>4 DEF Next, Serve, Apply, Lose, vars

-----------------------------------------------------------------------------
(* Types. *)

\* Applying a page keeps a copy a copy.
LEMMA AppliedType ==
    ASSUME NEW held \in [Paths -> Nat], NEW rows \in SUBSET Row
    PROVE  Applied(held, rows) \in [Paths -> Nat]
<1> SUFFICES ASSUME NEW p \in Paths
             PROVE  Applied(held, rows)[p] \in Nat
  BY DEF Applied
<1>1. CASE \E c \in rows : c.src = p /\ c.live
  <2>1. (CHOOSE c \in rows : c.src = p /\ c.live) \in rows
    BY <1>1
  <2>2. Applied(held, rows)[p] = (CHOOSE c \in rows : c.src = p /\ c.live).gen
    BY <1>1 DEF Applied
  <2> QED
    BY <2>1, <2>2 DEF Row
<1>2. CASE ~\E c \in rows : c.src = p /\ c.live
  BY <1>2 DEF Applied
<1> QED
  BY <1>1, <1>2

\* A page's answer is well formed.
LEMMA ServeType ==
    ASSUME TypeOK, TablesAgree, NEW r \in Readers, Serve(r)
    PROVE  reply' \in [Readers -> Reply]
<1> DEFINE q == from[r]
<1>1. q \in Request /\ StartOver \in Request
  BY DEF TypeOK, StartOver, Request
<1>2. /\ Lower(q) \in Nat \cup {-1} /\ Until(q) \in Nat /\ Total(q) \in Nat
      /\ epoch \in Nat /\ Pending(q) \subseteq log /\ log \subseteq Row
  <2>1. Window(q) \in SUBSET log
    BY DEF Window
  <2>2. Cardinality(Window(q)) \in Nat
    BY <2>1, CountRows
  <2> QED
    BY <1>1, <2>1, <2>2 DEF Request, Lower, Until, Total, Pending, TypeOK
<1>3. CASE Unanswerable(q)
  <2>1. [sent |-> TRUE, resync |-> TRUE, rows |-> {}, next |-> StartOver] \in Reply
    BY <1>1 DEF Reply
  <2> QED
    BY <1>3, <2>1 DEF Serve, TypeOK
<1>4. CASE ~Unanswerable(q)
  <2>1. PICK page \in SUBSET Pending(q) :
          IF page = Pending(q)
          THEN reply' = [reply EXCEPT ![r] = [sent |-> TRUE, resync |-> FALSE, rows |-> page,
                                              next |-> Since(epoch, Until(q))]]
          ELSE \E last \in page :
                 reply' = [reply EXCEPT ![r] =
                            [sent |-> TRUE, resync |-> FALSE, rows |-> page,
                             next |-> [mode |-> "resume", epoch |-> epoch,
                                       since |-> Lower(q), until |-> Until(q),
                                       total |-> Total(q), gen |-> last.gen, src |-> last.src,
                                       served |-> q.served + Cardinality(page)]]]
    BY <1>4 DEF Serve
  <2>2. page \in SUBSET Row /\ Cardinality(page) \in Nat
    BY <1>2, CountRows
  <2>3. CASE page = Pending(q)
    <3>1. Since(epoch, Until(q)) \in Request
      BY <1>2 DEF Since, StartOver, Request
    <3>2. [sent |-> TRUE, resync |-> FALSE, rows |-> page,
           next |-> Since(epoch, Until(q))] \in Reply
      BY <2>2, <3>1 DEF Reply
    <3> QED
      BY <2>1, <2>3, <3>2 DEF TypeOK
  <2>4. CASE page # Pending(q)
    <3>1. PICK last \in page :
                 reply' = [reply EXCEPT ![r] =
                            [sent |-> TRUE, resync |-> FALSE, rows |-> page,
                             next |-> [mode |-> "resume", epoch |-> epoch,
                                       since |-> Lower(q), until |-> Until(q),
                                       total |-> Total(q), gen |-> last.gen, src |-> last.src,
                                       served |-> q.served + Cardinality(page)]]]
      BY <2>1, <2>4
    <3>2. last.gen \in Nat /\ last.src \in Nat
      BY <2>2, ChangeLogAssumption DEF Row
    <3>3. q.served + Cardinality(page) \in Nat
      BY <1>1, <2>2 DEF Request
    <3>4. [mode |-> "resume", epoch |-> epoch, since |-> Lower(q), until |-> Until(q),
           total |-> Total(q), gen |-> last.gen, src |-> last.src,
           served |-> q.served + Cardinality(page)] \in Request
      BY <1>2, <3>2, <3>3 DEF Request
    <3> QED
      BY <2>2, <3>1, <3>4 DEF Reply, TypeOK
  <2> QED
    BY <2>3, <2>4
<1> QED
  BY <1>3, <1>4

\* Every step keeps the state well typed.
LEMMA TypeStep ==
    ASSUME TypeOK, TablesAgree, [Next]_vars
    PROVE  TypeOK'
<1>1. ASSUME NEW added \in SUBSET Paths, added \cap LivePaths = {},
             NEW edited \in SUBSET LivePaths, NEW removed \in SUBSET LivePaths,
             File(added, edited, removed)
      PROVE  /\ generation' \in Nat /\ floor' \in Nat /\ tombstones' \in Nat /\ inLibrary' \in Nat
             /\ known' \in [Paths -> [gen : Nat, live : BOOLEAN]] /\ log' \subseteq Row
  <2>1. /\ generation' = generation + 1
        /\ floor' \in Nat /\ tombstones' \in Nat /\ inLibrary' \in Nat
        /\ known' \in [Paths -> [gen : Nat, live : BOOLEAN]] /\ log' = RowsOf(known')
    BY <1>1, FileEffect
  <2>2. RowsOf(known') \subseteq Row
    BY <2>1, RowsOfMember
  <2> QED
    BY <2>1, <2>2 DEF TypeOK
<1>2. ASSUME NEW listing \in SUBSET Paths, NEW updated \in SUBSET Paths,
             RecordListing(listing, updated)
      PROVE  TypeOK'
  <2>1. /\ Added(listing) \in SUBSET Paths /\ Added(listing) \cap LivePaths = {}
        /\ Edited(updated) \in SUBSET LivePaths /\ Removed(listing) \in SUBSET LivePaths
    BY DEF Added, Edited, Removed
  <2>2. /\ generation' \in Nat /\ floor' \in Nat /\ tombstones' \in Nat /\ inLibrary' \in Nat
        /\ known' \in [Paths -> [gen : Nat, live : BOOLEAN]] /\ log' \subseteq Row
    <3>1. CASE Added(listing) \cup Removed(listing) \cup Edited(updated) = {}
      BY <1>2, <3>1 DEF RecordListing, TypeOK
    <3>2. CASE Added(listing) \cup Removed(listing) \cup Edited(updated) # {}
      BY <1>1, <1>2, <2>1, <3>2 DEF RecordListing
    <3> QED
      BY <3>1, <3>2
  <2>3. epoch' \in Nat /\ epochsUsed' \in Nat /\ epoch' <= epochsUsed'
    BY <1>2 DEF RecordListing, TypeOK
  <2>4. UNCHANGED <<from, copy, reply>>
    BY <1>2 DEF RecordListing, readerVars
  <2> QED
    BY <2>2, <2>3, <2>4 DEF TypeOK
<1>3. ASSUME NEW updated \in SUBSET Paths, RecordEdits(updated)
      PROVE  TypeOK'
  <2>1. /\ {} \in SUBSET Paths /\ {} \cap LivePaths = {} /\ {} \in SUBSET LivePaths
        /\ Edited(updated) \in SUBSET LivePaths /\ File({}, Edited(updated), {})
    BY <1>3 DEF Edited, RecordEdits
  <2>2. UNCHANGED <<epoch, epochsUsed, from, copy, reply>>
    BY <1>3 DEF RecordEdits, readerVars
  <2> QED
    BY <1>1, <2>1, <2>2 DEF TypeOK
<1>4. CASE Reset
  BY <1>4 DEF Reset, readerVars, TypeOK, NoRow
<1>5. ASSUME NEW r \in Readers, Serve(r)
      PROVE  TypeOK'
  <2>1. reply' \in [Readers -> Reply]
    BY <1>5, ServeType
  <2> QED
    BY <1>5, <2>1 DEF Serve, logVars, TypeOK
<1>6. NoReply \in Reply
  BY DEF NoReply, StartOver, Reply, Request
<1>7. ASSUME NEW r \in Readers, Apply(r)
      PROVE  TypeOK'
  <2>1. reply[r].rows \in SUBSET Row /\ reply[r].next \in Request
    BY DEF TypeOK, Reply
  <2>2. Applied(copy[r], reply[r].rows) \in [Paths -> Nat]
    BY <2>1, AppliedType DEF TypeOK
  <2>3. copy' \in [Readers -> [Paths -> Nat]]
    BY <1>7, <2>2 DEF Apply, TypeOK
  <2> QED
    BY <1>6, <1>7, <2>1, <2>3 DEF Apply, logVars, TypeOK
<1>8. ASSUME NEW r \in Readers, Lose(r)
      PROVE  TypeOK'
  BY <1>6, <1>8 DEF Lose, logVars, TypeOK
<1>9. CASE UNCHANGED vars
  BY <1>9 DEF vars, logVars, readerVars, TypeOK
<1> QED
  BY <1>2, <1>3, <1>4, <1>5, <1>7, <1>8, <1>9 DEF Next

\* An empty store is well typed and its tables agree.
LEMMA InitTables == Init => TypeOK /\ TablesAgree
<1> SUFFICES ASSUME Init
             PROVE  TypeOK /\ TablesAgree
  OBVIOUS
<1>1. TypeOK
  BY DEF Init, TypeOK, NoRow, NoReply, StartOver, Reply, Request
<1>2. \A p \in Paths : known[p].gen = 0 /\ ~known[p].live
  BY DEF Init, NoRow
<1>3. RowsOf(known) = {} /\ DeadPaths = {}
  BY <1>2 DEF RowsOf, DeadPaths
<1> QED
  BY <1>1, <1>2, <1>3 DEF Init, TablesAgree

\* The state of the log and of its readers is well typed in every behaviour
\* (library_changes.rs, the tables and what META keeps of them).
THEOREM TypeCorrect == Spec => []TypeOK
<1>1. TypeOK /\ TablesAgree /\ [Next]_vars => (TypeOK /\ TablesAgree)'
  BY TypeStep, TablesStep
<1> QED
  BY InitTables, <1>1, PTL DEF Spec

\* Both tables of the log hold the same changes, none ahead of the log's
\* generation, and no remembered delete is below the floor (record_in and
\* forget_oldest_tombstones).
THEOREM TablesCorrect == Spec => []TablesAgree
<1>1. TypeOK /\ TablesAgree /\ [Next]_vars => (TypeOK /\ TablesAgree)'
  BY TypeStep, TablesStep
<1> QED
  BY InitTables, <1>1, PTL DEF Spec

\* In one run of the log the floor and the generation only rise.
THEOREM FloorCorrect == Spec => FloorNeverFalls
<1>1. TypeOK /\ TablesAgree /\ [Next]_vars
        => [epoch' = epoch => floor' >= floor /\ generation' >= generation]_vars
  <2> SUFFICES ASSUME TypeOK, TablesAgree, Next, epoch' = epoch
               PROVE  floor' >= floor /\ generation' >= generation
    OBVIOUS
  <2>1. ASSUME NEW added \in SUBSET Paths, added \cap LivePaths = {},
               NEW edited \in SUBSET LivePaths, NEW removed \in SUBSET LivePaths,
               File(added, edited, removed)
        PROVE  floor' >= floor /\ generation' >= generation
    <3>1. generation' = generation + 1 /\ floor' \in Nat /\ floor <= floor'
      BY <2>1, FileEffect
    <3> QED
      BY <3>1 DEF TypeOK
  <2>2. ASSUME NEW listing \in SUBSET Paths, NEW updated \in SUBSET Paths,
               RecordListing(listing, updated)
        PROVE  floor' >= floor /\ generation' >= generation
    <3>1. /\ Added(listing) \in SUBSET Paths /\ Added(listing) \cap LivePaths = {}
          /\ Edited(updated) \in SUBSET LivePaths /\ Removed(listing) \in SUBSET LivePaths
      BY DEF Added, Edited, Removed
    <3>2. CASE UNCHANGED <<generation, floor>>
      BY <3>2 DEF TypeOK
    <3> QED
      BY <2>1, <2>2, <3>1, <3>2 DEF RecordListing
  <2>3. ASSUME NEW updated \in SUBSET Paths, RecordEdits(updated)
        PROVE  floor' >= floor /\ generation' >= generation
    <3>1. /\ {} \in SUBSET Paths /\ {} \cap LivePaths = {} /\ {} \in SUBSET LivePaths
          /\ Edited(updated) \in SUBSET LivePaths /\ File({}, Edited(updated), {})
      BY <2>3 DEF Edited, RecordEdits
    <3> QED
      BY <2>1, <3>1
  <2>4. ~Reset
    BY DEF Reset
  <2>5. ASSUME UNCHANGED logVars
        PROVE  floor' >= floor /\ generation' >= generation
    BY <2>5 DEF logVars, TypeOK
  <2> QED
    BY <2>2, <2>3, <2>4, <2>5 DEF Next, Serve, Apply, Lose
<1> QED
  BY <1>1, TypeCorrect, TablesCorrect, PTL DEF Spec, FloorNeverFalls

-----------------------------------------------------------------------------
(* The copies. *)

\* What applying a page does to one path: a page holds one row for a path at
\* most, and that row decides.
LEMMA AppliedAt ==
    ASSUME NEW k \in [Paths -> [gen : Nat, live : BOOLEAN]],
           NEW page \in SUBSET RowsOf(k), NEW held \in [Paths -> Nat], NEW p \in Paths
    PROVE  /\ (\E c \in page : c.src = p) =>
                 k[p].gen > 0 /\ Applied(held, page)[p] = (IF k[p].live THEN k[p].gen ELSE 0)
           /\ (~\E c \in page : c.src = p) => Applied(held, page)[p] = held[p]
<1>1. \A c \in page : c \in Row /\ k[c.src].gen > 0 /\ c.gen = k[c.src].gen /\ c.live = k[c.src].live
  BY RowsOfMember
<1>2. ASSUME NEW c \in page, c.src = p
      PROVE  k[p].gen > 0 /\ Applied(held, page)[p] = (IF k[p].live THEN k[p].gen ELSE 0)
  <2>1. c.gen = k[p].gen /\ c.live = k[p].live /\ k[p].gen > 0
    BY <1>1, <1>2
  <2>2. CASE k[p].live
    <3> DEFINE d == CHOOSE d \in page : d.src = p /\ d.live
    <3>1. \E e \in page : e.src = p /\ e.live
      BY <1>2, <2>1, <2>2
    <3>2. d \in page /\ d.src = p
      BY <3>1
    <3>3. Applied(held, page)[p] = d.gen
      BY <3>1 DEF Applied
    <3> HIDE DEF d
    <3>4. d.gen = k[p].gen
      BY <1>1, <3>2
    <3> QED
      BY <2>1, <2>2, <3>3, <3>4
  <2>3. CASE ~k[p].live
    <3>1. ~\E e \in page : e.src = p /\ e.live
      BY <1>1, <2>3
    <3> QED
      BY <1>2, <2>1, <2>3, <3>1 DEF Applied
  <2> QED
    BY <2>2, <2>3
<1>3. ASSUME ~\E c \in page : c.src = p
      PROVE  Applied(held, page)[p] = held[p]
  BY <1>3 DEF Applied
<1> QED
  BY <1>2, <1>3

\* The heart of the read: a path whose change is in the window of q and not
\* still pending is already right in the copy.
LEMMA NotPending ==
    ASSUME TypeOK, TablesAgree, epoch # 0,
           NEW q \in Request, ~Unanswerable(q),
           NEW held \in [Paths -> Nat], CopyMatches(q, held),
           floor <= Until(q),
           NEW p \in Paths, known[p].gen <= Until(q),
           [gen |-> known[p].gen, src |-> p, live |-> known[p].live] \notin Pending(q)
    PROVE  held[p] = (IF known[p].live THEN known[p].gen ELSE 0)
<1> DEFINE row == [gen |-> known[p].gen, src |-> p, live |-> known[p].live]
<1>1. /\ known[p].gen \in Nat /\ known[p].live \in BOOLEAN
      /\ known[p].live => known[p].gen > 0
  BY DEF TypeOK, TablesAgree
<1>2. known[p].gen > 0 => row \in log
  <2>1. row \in Row
    BY <1>1 DEF Row
  <2> QED
    BY <2>1, RowsOfMember DEF TypeOK, TablesAgree
<1>3. row.gen = known[p].gen /\ row.src = p /\ row.live = known[p].live
  OBVIOUS
<1>4. CASE q.mode = "start"
  <2>1. held[p] = 0 /\ Lower(q) = -1
    BY <1>4 DEF CopyMatches, Lower
  <2>2. known[p].gen > 0 => row \in Window(q)
    BY <1>1, <1>2, <1>3, <1>4, <2>1 DEF Window
  <2>3. ~known[p].live
    BY <1>1, <1>3, <2>2 DEF Pending
  <2> QED
    BY <2>1, <2>3
<1>5. CASE q.mode = "since"
  <2>1. /\ Lower(q) = q.since /\ q.since \in Nat /\ Horizon(q) = q.since
        /\ q.epoch = epoch /\ floor <= Horizon(q)
    BY <1>5 DEF Lower, Horizon, Unanswerable, Request, TypeOK
  <2>2. /\ known[p].gen = 0 => held[p] = 0
        /\ (known[p].gen > 0 /\ Walked(q, p)) => held[p] = (IF known[p].live THEN known[p].gen ELSE 0)
    BY <1>5, <2>1 DEF CopyMatches
  <2>3. known[p].gen > 0 => known[p].gen <= q.since
    BY <1>1, <1>2, <1>3, <1>5, <2>1 DEF Pending, Window
  <2> QED
    BY <1>1, <1>5, <2>2, <2>3 DEF Walked
<1>6. CASE q.mode = "resume"
  <2>1. /\ Lower(q) = q.since /\ Until(q) = q.until /\ q.since \in Nat \cup {-1} /\ q.until \in Nat
        /\ q.epoch = epoch
        /\ q.since # -1 => floor <= q.since
    BY <1>6 DEF Lower, Until, Unanswerable, Request, TypeOK
  <2>2. floor <= Horizon(q)
    BY <1>6, <2>1 DEF Horizon
  <2>3. /\ known[p].gen = 0 => held[p] = 0
        /\ (known[p].gen > 0 /\ Walked(q, p)) => held[p] = (IF known[p].live THEN known[p].gen ELSE 0)
        /\ (q.since = -1 /\ p \in DeadPaths /\ known[p].gen <= q.until) => held[p] = 0
    BY <1>6, <2>1, <2>2 DEF CopyMatches
  <2>4. CASE known[p].gen > 0 /\ ~Before(q, row)
    <3>1. ~Before(q, [gen |-> known[p].gen, src |-> p])
      BY <1>3, <2>4 DEF Before
    <3>2. Walked(q, p)
      BY <1>6, <2>1, <3>1 DEF Walked
    <3> QED
      BY <2>3, <2>4, <3>2
  <2>5. CASE known[p].gen > 0 /\ Before(q, row)
    <3>1. row \in Window(q)
      BY <1>2, <1>3, <1>6, <2>5 DEF Window
    <3>2. ~known[p].live /\ q.since = -1
      BY <1>3, <2>1, <3>1 DEF Pending
    <3> QED
      BY <2>1, <2>3, <2>5, <3>2 DEF DeadPaths
  <2> QED
    BY <1>1, <2>3, <2>4, <2>5
<1> QED
  BY <1>4, <1>5, <1>6 DEF Request

\* Serving a page keeps the promise: the copy the page leads to matches under
\* the request the page leads to.
LEMMA PageKeepsCopy ==
    ASSUME TypeOK, TablesAgree, epoch # 0,
           NEW q \in Request, ~Unanswerable(q),
           NEW held \in [Paths -> Nat], CopyMatches(q, held),
           NEW page \in SUBSET Pending(q),
           NEW next \in Request, next.epoch = epoch, next.until = Until(q),
           \/ page = Pending(q) /\ next.mode = "since" /\ next.since = Until(q)
           \/ /\ next.mode = "resume" /\ next.since = Lower(q)
              /\ \A s \in Pending(q) \ page : Before(next, s)
    PROVE  CopyMatches(next, Applied(held, page))
<1>1. /\ Until(q) \in Nat /\ Until(q) <= generation
      /\ Lower(q) \in Nat \cup {-1} /\ Lower(q) <= Until(q)
      /\ epoch \in Nat /\ epoch <= epochsUsed /\ floor \in Nat
      /\ Lower(q) # -1 => floor <= Lower(q)
  <2>1. CASE q.mode = "resume"
    <3>1. q.epoch = epoch /\ q.until <= generation
      BY <2>1 DEF Unanswerable, TypeOK, Request
    <3>2. q.since # -1 => floor <= q.since /\ Horizon(q) = q.since
      BY <2>1 DEF Unanswerable, Lower, Horizon, TypeOK, Request
    <3>3. q.since # -1 => q.since <= q.until
      BY <2>1, <3>1, <3>2 DEF CopyMatches
    <3> QED
      BY <2>1, <3>1, <3>2, <3>3 DEF Until, Lower, Request, TypeOK
  <2>2. CASE q.mode # "resume"
    BY <2>2 DEF Until, Lower, Unanswerable, Request, TypeOK
  <2> QED
    BY <2>1, <2>2
<1>2. ASSUME floor <= Horizon(next)
      PROVE  floor <= Until(q)
  <2>1. Horizon(next) <= Until(q)
    BY <1>1 DEF Horizon
  <2>2. Horizon(next) \in Nat \cup {-1}
    BY <1>1 DEF Horizon
  <2> QED
    BY <1>1, <1>2, <2>1, <2>2
<1>3. page \in SUBSET RowsOf(known) /\ known \in [Paths -> [gen : Nat, live : BOOLEAN]]
  BY DEF Pending, Window, TablesAgree, TypeOK
<1>4. ASSUME floor <= Horizon(next), NEW p \in Paths
      PROVE  /\ known[p].gen = 0 => Applied(held, page)[p] = 0
             /\ (known[p].gen > 0 /\ Walked(next, p)) =>
                   Applied(held, page)[p] = (IF known[p].live THEN known[p].gen ELSE 0)
             /\ (next.since = -1 /\ p \in DeadPaths /\ known[p].gen <= next.until) =>
                   Applied(held, page)[p] = 0
  <2> DEFINE row == [gen |-> known[p].gen, src |-> p, live |-> known[p].live]
  <2>1. /\ known[p].gen \in Nat /\ known[p].live \in BOOLEAN
        /\ known[p].live => known[p].gen > 0
        /\ row.gen = known[p].gen /\ row.src = p /\ row.live = known[p].live
        /\ floor <= Until(q)
    BY <1>2, <1>4 DEF TypeOK, TablesAgree
  <2>2. CASE \E c \in page : c.src = p
    <3>1. known[p].gen > 0 /\ Applied(held, page)[p] = (IF known[p].live THEN known[p].gen ELSE 0)
      BY <1>3, <2>2, AppliedAt
    <3>2. p \in DeadPaths => Applied(held, page)[p] = 0
      BY <3>1 DEF DeadPaths
    <3> QED
      BY <2>1, <3>1, <3>2
  <2>3. CASE ~\E c \in page : c.src = p
    <3>1. Applied(held, page)[p] = held[p]
      BY <1>3, <2>3, AppliedAt
    <3>2. row \notin page
      BY <2>1, <2>3
    <3>3. (known[p].gen <= Until(q) /\ row \notin Pending(q)) =>
             held[p] = (IF known[p].live THEN known[p].gen ELSE 0)
      BY <2>1, NotPending
    <3>4. known[p].gen = 0 => row \notin Pending(q)
      <4>1. row \in log => known[p].gen > 0
        BY <2>1, RowsOfMember DEF TablesAgree, TypeOK
      <4> QED
        BY <2>1, <4>1 DEF Pending, Window
    <3>5. Walked(next, p) => /\ known[p].gen <= Until(q)
                             /\ row \notin Pending(q) \/ known[p].gen <= Lower(q)
      <4>1. CASE page = Pending(q) /\ next.mode = "since" /\ next.since = Until(q)
        BY <3>2, <4>1 DEF Walked
      <4>2. CASE /\ next.mode = "resume" /\ next.since = Lower(q)
                 /\ \A s \in Pending(q) \ page : Before(next, s)
        <5>1. row \in Pending(q) => Before(next, row)
          BY <3>2, <4>2
        <5>2. Before(next, row) => Before(next, [gen |-> known[p].gen, src |-> p])
          BY DEF Before
        <5> QED
          BY <4>2, <5>1, <5>2 DEF Walked
      <4> QED
        BY <4>1, <4>2
    <3>7. (known[p].gen > 0 /\ known[p].gen <= Lower(q)) =>
             held[p] = (IF known[p].live THEN known[p].gen ELSE 0)
      <4> SUFFICES ASSUME known[p].gen > 0, known[p].gen <= Lower(q)
                   PROVE  held[p] = (IF known[p].live THEN known[p].gen ELSE 0)
        OBVIOUS
      <4>1. Lower(q) # -1 /\ q.mode # "start" /\ Lower(q) = q.since /\ q.epoch = epoch
        BY <1>1, <2>1 DEF Lower, Unanswerable
      <4>2. Horizon(q) = q.since /\ floor <= Horizon(q)
        BY <1>1, <4>1 DEF Horizon
      <4>3. q.mode = "resume" => q.since <= q.until
        BY <1>1, <4>1 DEF Until
      <4>4. q.mode = "resume" => q.until \in Nat
        BY DEF Request
      <4>5. Walked(q, p)
        BY <1>1, <2>1, <4>1, <4>3, <4>4 DEF Walked
      <4> QED
        BY <4>1, <4>2, <4>5 DEF CopyMatches
    <3>6. (next.since = -1 /\ p \in DeadPaths) => row \notin Pending(q)
      BY <1>1, <2>1 DEF Pending, DeadPaths
    <3> QED
      BY <1>1, <2>1, <3>1, <3>3, <3>4, <3>5, <3>6, <3>7 DEF DeadPaths
  <2> QED
    BY <2>2, <2>3
<1>5. Horizon(next) <= next.until /\ next.until <= generation
  BY <1>1 DEF Horizon
<1> QED
  BY <1>1, <1>4, <1>5 DEF CopyMatches

\* A pass keeps the promise made to a copy it does not touch: what it refiles
\* is after the request's window, and what it forgets is either already gone
\* from the copy or puts the request below the floor.
LEMMA PassKeepsCopy ==
    ASSUME TypeOK, TablesAgree,
           NEW added \in SUBSET Paths, added \cap LivePaths = {},
           NEW edited \in SUBSET LivePaths, NEW removed \in SUBSET LivePaths,
           File(added, edited, removed),
           epoch' = epoch, epochsUsed' = epochsUsed,
           NEW q \in Request, NEW held \in [Paths -> Nat], CopyMatches(q, held)
    PROVE  CopyMatches(q, held)'
<1>1. /\ generation' = generation + 1 /\ generation \in Nat
      /\ floor \in Nat /\ floor' \in Nat /\ floor <= floor' /\ floor' <= generation + 1
      /\ \A p \in Paths :
           \/ known'[p] = known[p]
           \/ known'[p].gen = generation + 1
           \/ /\ known'[p] = NoRow
              /\ (~known[p].live /\ known[p].gen <= floor') \/ floor' = generation + 1
  BY FileEffect DEF TypeOK
<1>2. CASE q.mode = "start"
  BY <1>2 DEF CopyMatches
<1>3. CASE ~(q.mode # "start" /\ q.epoch = epoch /\ epoch # 0 /\ floor' <= Horizon(q))
  BY <1>3 DEF CopyMatches, Horizon
<1>4. CASE q.mode # "start" /\ q.epoch = epoch /\ epoch # 0 /\ floor' <= Horizon(q)
  <2>1. /\ q.since \in Nat \cup {-1} /\ q.until \in Nat /\ Horizon(q) \in Nat \cup {-1}
        /\ q.mode = "since" => q.since \in Nat
    BY DEF Request, Horizon
  <2>2. /\ floor <= Horizon(q) /\ Horizon(q) <= q.until /\ q.until <= generation
        /\ \A p \in Paths :
              /\ known[p].gen = 0 => held[p] = 0
              /\ (known[p].gen > 0 /\ Walked(q, p)) =>
                    held[p] = (IF known[p].live THEN known[p].gen ELSE 0)
              /\ (q.since = -1 /\ p \in DeadPaths /\ known[p].gen <= q.until) =>
                    held[p] = 0
    <3>1. floor <= Horizon(q)
      BY <1>1, <1>4, <2>1
    <3> QED
      BY <1>4, <3>1 DEF CopyMatches
  <2>3. ASSUME NEW p \in Paths
        PROVE  /\ known'[p].gen = 0 => held[p] = 0
               /\ (known'[p].gen > 0 /\ Walked(q, p)') =>
                     held[p] = (IF known'[p].live THEN known'[p].gen ELSE 0)
               /\ (q.since = -1 /\ (p \in DeadPaths)' /\ known'[p].gen <= q.until) =>
                     held[p] = 0
    <3>1. known[p].gen \in Nat
      BY DEF TypeOK
    <3>2. CASE known'[p] = known[p]
      <4>1. Walked(q, p)' = Walked(q, p) /\ (p \in DeadPaths)' = (p \in DeadPaths)
        BY <3>2 DEF Walked, DeadPaths
      <4> QED
        BY <2>2, <3>2, <4>1
    <3>3. CASE known'[p].gen = generation + 1
      <4>1. ~Walked(q, p)'
        BY <1>1, <1>4, <2>1, <2>2, <3>3 DEF Walked, Horizon
      <4> QED
        BY <1>1, <2>1, <2>2, <3>3, <4>1
    <3>4. CASE known'[p] = NoRow /\ ~known[p].live /\ known[p].gen <= floor'
      <4>1. known'[p].gen = 0
        BY <3>4 DEF NoRow
      <4>2. known[p].gen <= Horizon(q) /\ known[p].gen <= q.until
        BY <1>1, <1>4, <2>1, <2>2, <3>1, <3>4
      <4>3. held[p] = 0
        <5>1. CASE known[p].gen = 0
          BY <2>2, <5>1
        <5>2. CASE known[p].gen > 0 /\ q.since = -1
          BY <2>2, <3>4, <4>2, <5>2 DEF DeadPaths
        <5>3. CASE known[p].gen > 0 /\ q.since # -1
          <6>1. Horizon(q) = q.since
            BY <5>3 DEF Horizon
          <6>2. Walked(q, p)
            BY <4>2, <6>1 DEF Walked
          <6> QED
            BY <2>2, <3>4, <5>3, <6>2
        <5> QED
          BY <3>1, <5>1, <5>2, <5>3
      <4> QED
        BY <4>1, <4>3
    <3>5. CASE floor' = generation + 1
      BY <1>1, <1>4, <2>1, <2>2, <3>5
    <3> QED
      BY <1>1, <3>2, <3>3, <3>4, <3>5
  <2>4. Horizon(q)' = Horizon(q)
    BY DEF Horizon
  <2>5. q.until <= generation'
    BY <1>1, <2>1, <2>2
  <2> QED
    BY <1>4, <2>2, <2>3, <2>4, <2>5 DEF CopyMatches
<1> QED
  BY <1>2, <1>3, <1>4

\* No step of the log, a new epoch and a reset included, breaks the promise
\* made to a copy and to the request it belongs to.
LEMMA LogKeepsCopy ==
    ASSUME TypeOK, TablesAgree,
           NEW q \in Request, NEW held \in [Paths -> Nat], CopyMatches(q, held),
           \/ \E listing, updated \in SUBSET Paths : RecordListing(listing, updated)
           \/ \E updated \in SUBSET Paths : RecordEdits(updated)
           \/ Reset
           \/ UNCHANGED logVars
    PROVE  CopyMatches(q, held)'
<1>1. ASSUME UNCHANGED logVars
      PROVE  CopyMatches(q, held)'
  BY <1>1 DEF logVars, CopyMatches, Horizon, Walked, DeadPaths
<1>2. q.epoch <= epochsUsed /\ (q.mode = "start" => \A p \in Paths : held[p] = 0)
      /\ q.epoch \in Nat /\ epoch \in Nat /\ epochsUsed \in Nat /\ epoch <= epochsUsed
  BY DEF CopyMatches, Request, TypeOK
<1>3. CASE Reset
  BY <1>2, <1>3 DEF Reset, CopyMatches
<1>4. ASSUME NEW listing \in SUBSET Paths, NEW updated \in SUBSET Paths,
             RecordListing(listing, updated)
      PROVE  CopyMatches(q, held)'
  <2>1. CASE epoch = 0
    <3>1. epochsUsed' = epochsUsed + 1 /\ epoch' = epochsUsed + 1
      BY <1>4, <2>1 DEF RecordListing
    <3>2. q.epoch # epoch' /\ q.epoch <= epochsUsed'
      BY <1>2, <3>1
    <3> QED
      BY <1>2, <3>2 DEF CopyMatches
  <2>2. CASE epoch # 0
    <3>1. epoch' = epoch /\ epochsUsed' = epochsUsed
      BY <1>4, <2>2 DEF RecordListing
    <3>2. CASE Added(listing) \cup Removed(listing) \cup Edited(updated) = {}
      <4>1. UNCHANGED logVars
        BY <1>4, <3>1, <3>2 DEF RecordListing, logVars
      <4> QED
        BY <1>1, <4>1
    <3>3. CASE Added(listing) \cup Removed(listing) \cup Edited(updated) # {}
      <4>1. /\ Added(listing) \in SUBSET Paths /\ Added(listing) \cap LivePaths = {}
            /\ Edited(updated) \in SUBSET LivePaths /\ Removed(listing) \in SUBSET LivePaths
            /\ File(Added(listing), Edited(updated), Removed(listing))
        BY <1>4, <3>3 DEF Added, Edited, Removed, RecordListing
      <4> QED
        BY <3>1, <4>1, PassKeepsCopy
    <3> QED
      BY <3>2, <3>3
  <2> QED
    BY <2>1, <2>2
<1>5. ASSUME NEW updated \in SUBSET Paths, RecordEdits(updated)
      PROVE  CopyMatches(q, held)'
  <2>1. /\ {} \in SUBSET Paths /\ {} \cap LivePaths = {} /\ {} \in SUBSET LivePaths
        /\ Edited(updated) \in SUBSET LivePaths /\ File({}, Edited(updated), {})
        /\ epoch' = epoch /\ epochsUsed' = epochsUsed
    BY <1>5 DEF Edited, RecordEdits
  <2> QED
    BY <2>1, PassKeepsCopy
<1> QED
  BY <1>1, <1>3, <1>4, <1>5

\* A copy just dropped matches a read that starts over.
LEMMA EmptyMatches == TypeOK => CopyMatches(StartOver, [p \in Paths |-> 0])
BY DEF TypeOK, StartOver, CopyMatches

\* The page the server builds leads to a copy that matches.
LEMMA ServeKeepsCopy ==
    ASSUME TypeOK, TablesAgree, NEW r \in Readers, Serve(r),
           CopyMatches(from[r], copy[r])
    PROVE  /\ reply'[r].sent
           /\ \A x \in Readers \ {r} : reply'[x] = reply[x]
           /\ CopyMatches(reply'[r].next, IF reply'[r].resync THEN [p \in Paths |-> 0]
                                          ELSE Applied(copy[r], reply'[r].rows))
<1> DEFINE q == from[r]
           held == copy[r]
<1>1. q \in Request /\ held \in [Paths -> Nat] /\ epoch # 0 /\ CopyMatches(q, held)
      /\ reply \in [Readers -> Reply]
  BY DEF TypeOK, Serve
<1>2. Until(q) \in Nat /\ epoch \in Nat /\ Pending(q) \subseteq log
  BY <1>1 DEF Request, Until, Pending, Window, TypeOK
<1>3. CASE Unanswerable(q)
  <2>1. reply' = [reply EXCEPT ![r] = [sent |-> TRUE, resync |-> TRUE,
                                       rows |-> {}, next |-> StartOver]]
    BY <1>3 DEF Serve
  <2>2. reply'[r] = [sent |-> TRUE, resync |-> TRUE, rows |-> {}, next |-> StartOver]
        /\ \A x \in Readers \ {r} : reply'[x] = reply[x]
    BY <1>1, <2>1
  <2> QED
    BY <2>2, EmptyMatches
<1>4. CASE ~Unanswerable(q)
  <2>1. PICK page \in SUBSET Pending(q) :
          /\ Oldest(page, PageLimit, Pending(q))
          /\ IF page = Pending(q)
             THEN reply' = [reply EXCEPT ![r] = [sent |-> TRUE, resync |-> FALSE, rows |-> page,
                                                 next |-> Since(epoch, Until(q))]]
             ELSE \E last \in page :
                    reply' = [reply EXCEPT ![r] =
                               [sent |-> TRUE, resync |-> FALSE, rows |-> page,
                                next |-> [mode |-> "resume", epoch |-> epoch,
                                          since |-> Lower(q), until |-> Until(q),
                                          total |-> Total(q), gen |-> last.gen, src |-> last.src,
                                          served |-> q.served + Cardinality(page)]]]
    BY <1>4 DEF Serve
  <2>2. CASE page = Pending(q)
    <3> DEFINE next == Since(epoch, Until(q))
    <3>1. next \in Request /\ next.epoch = epoch /\ next.until = Until(q)
          /\ next.mode = "since" /\ next.since = Until(q)
      BY <1>2 DEF Since, Request
    <3>2. reply'[r] = [sent |-> TRUE, resync |-> FALSE, rows |-> page, next |-> next]
          /\ \A x \in Readers \ {r} : reply'[x] = reply[x]
      BY <1>1, <2>1, <2>2
    <3> HIDE DEF next
    <3>3. CopyMatches(next, Applied(held, page))
      BY <1>1, <1>4, <2>2, <3>1, PageKeepsCopy
    <3> QED
      BY <3>2, <3>3
  <2>3. CASE page # Pending(q)
    <3>1. PICK last \in page :
                 reply' = [reply EXCEPT ![r] =
                            [sent |-> TRUE, resync |-> FALSE, rows |-> page,
                             next |-> [mode |-> "resume", epoch |-> epoch,
                                       since |-> Lower(q), until |-> Until(q),
                                       total |-> Total(q), gen |-> last.gen, src |-> last.src,
                                       served |-> q.served + Cardinality(page)]]]
      BY <2>1, <2>3
    <3> DEFINE next == [mode |-> "resume", epoch |-> epoch,
                        since |-> Lower(q), until |-> Until(q),
                        total |-> Total(q), gen |-> last.gen, src |-> last.src,
                        served |-> q.served + Cardinality(page)]
    <3>2. reply'[r] = [sent |-> TRUE, resync |-> FALSE, rows |-> page, next |-> next]
          /\ \A x \in Readers \ {r} : reply'[x] = reply[x]
      BY <1>1, <3>1
    <3>3. next \in Request
      <4>1. reply' \in [Readers -> Reply]
        BY ServeType
      <4>2. reply'[r] \in Reply
        BY <4>1
      <4>3. reply'[r].next = next
        BY <3>2
      <4> HIDE DEF next
      <4> QED
        BY <4>2, <4>3 DEF Reply
    <3>4. next.epoch = epoch /\ next.until = Until(q) /\ next.mode = "resume"
          /\ next.since = Lower(q) /\ next.gen = last.gen /\ next.src = last.src
      OBVIOUS
    <3> HIDE DEF next
    <3>5. \A s \in Pending(q) \ page : Before(next, s)
      BY <2>1, <3>4 DEF Oldest, Before
    <3>6. CopyMatches(next, Applied(held, page))
      BY <1>1, <1>4, <3>3, <3>4, <3>5, PageKeepsCopy
    <3> QED
      BY <3>2, <3>6
  <2> QED
    BY <2>2, <2>3
<1> QED
  BY <1>3, <1>4

\* Every step keeps every copy, and the copy every page in flight leads to,
\* exact.
LEMMA CopiesStep ==
    ASSUME TypeOK, TablesAgree, CopiesExact, [Next]_vars
    PROVE  CopiesExact'
<1> SUFFICES ASSUME NEW x \in Readers
             PROVE  /\ CopyMatches(from[x], copy[x])'
                    /\ (reply[x].sent)' =>
                         CopyMatches(reply[x].next, IF reply[x].resync THEN [p \in Paths |-> 0]
                                                    ELSE Applied(copy[x], reply[x].rows))'
  BY DEF CopiesExact
<1>1. PICK q \in Request : q = from[x]
  BY DEF TypeOK
<1>2. PICK held \in [Paths -> Nat] : held = copy[x]
  BY DEF TypeOK
<1>3. PICK n \in Request : n = reply[x].next
  BY DEF TypeOK, Reply
<1>4. PICK after \in [Paths -> Nat] :
        after = IF reply[x].resync THEN [p \in Paths |-> 0] ELSE Applied(copy[x], reply[x].rows)
  BY AppliedType DEF TypeOK, Reply
<1>5. CopyMatches(q, held) /\ (reply[x].sent => CopyMatches(n, after))
  BY <1>1, <1>2, <1>3, <1>4 DEF CopiesExact
<1>6. ASSUME \/ \E listing, updated \in SUBSET Paths : RecordListing(listing, updated)
             \/ \E updated \in SUBSET Paths : RecordEdits(updated)
             \/ Reset
             \/ UNCHANGED logVars
      PROVE  CopyMatches(q, held)' /\ (reply[x].sent => CopyMatches(n, after)')
  <2>1. CopyMatches(q, held)'
    BY <1>5, <1>6, LogKeepsCopy
  <2>2. ASSUME reply[x].sent
        PROVE  CopyMatches(n, after)'
    BY <1>5, <1>6, <2>2, LogKeepsCopy
  <2> QED
    BY <2>1, <2>2
<1>7. ASSUME UNCHANGED readerVars, CopyMatches(q, held)',
             reply[x].sent => CopyMatches(n, after)'
      PROVE  /\ CopyMatches(from[x], copy[x])'
             /\ (reply[x].sent)' =>
                  CopyMatches(reply[x].next, IF reply[x].resync THEN [p \in Paths |-> 0]
                                             ELSE Applied(copy[x], reply[x].rows))'
  <2>1. q = from'[x] /\ held = copy'[x] /\ reply' = reply
    BY <1>1, <1>2, <1>7 DEF readerVars
  <2>2. n = reply'[x].next
        /\ after = IF reply'[x].resync THEN [p \in Paths |-> 0]
                   ELSE Applied(copy'[x], reply'[x].rows)
    BY <1>2, <1>3, <1>4, <2>1
  <2> QED
    BY <1>7, <2>1, <2>2
<1>8. CASE \/ \E listing, updated \in SUBSET Paths : RecordListing(listing, updated)
           \/ \E updated \in SUBSET Paths : RecordEdits(updated)
           \/ Reset
  <2>1. UNCHANGED readerVars
    BY <1>8 DEF RecordListing, RecordEdits, Reset
  <2> QED
    BY <1>6, <1>7, <1>8, <2>1
<1>9. ASSUME NEW r \in Readers, Serve(r)
      PROVE  /\ CopyMatches(from[x], copy[x])'
             /\ (reply[x].sent)' =>
                  CopyMatches(reply[x].next, IF reply[x].resync THEN [p \in Paths |-> 0]
                                             ELSE Applied(copy[x], reply[x].rows))'
  <2>1. UNCHANGED logVars /\ from' = from /\ copy' = copy
    BY <1>9 DEF Serve
  <2>2. CopyMatches(q, held)' /\ (reply[x].sent => CopyMatches(n, after)')
    BY <1>6, <2>1
  <2>3. CASE r # x
    <3>1. reply'[x] = reply[x]
      BY <1>5, <1>9, <2>3, ServeKeepsCopy DEF CopiesExact
    <3>2. q = from'[x] /\ held = copy'[x] /\ n = reply'[x].next
          /\ after = IF reply'[x].resync THEN [p \in Paths |-> 0]
                     ELSE Applied(copy'[x], reply'[x].rows)
      BY <1>1, <1>2, <1>3, <1>4, <2>1, <3>1
    <3> QED
      BY <2>2, <3>1, <3>2
  <2>4. CASE r = x
    <3>1. PICK m \in Request : m = reply'[x].next
      <4>1. reply' \in [Readers -> Reply]
        BY <1>9, ServeType
      <4> QED
        BY <4>1 DEF Reply
    <3>2. PICK built \in [Paths -> Nat] :
            built = IF reply'[x].resync THEN [p \in Paths |-> 0]
                    ELSE Applied(copy[x], reply'[x].rows)
      <4>1. reply' \in [Readers -> Reply]
        BY <1>9, ServeType
      <4>2. reply'[x].rows \in SUBSET Row /\ copy[x] \in [Paths -> Nat]
        BY <4>1 DEF Reply, TypeOK
      <4> QED
        BY <4>2, AppliedType
    <3>3. CopyMatches(m, built)
      BY <1>1, <1>2, <1>5, <1>9, <2>4, <3>1, <3>2, ServeKeepsCopy
    <3>4. CopyMatches(m, built)'
      BY <2>1, <3>3, LogKeepsCopy
    <3>5. built = IF reply'[x].resync THEN [p \in Paths |-> 0]
                  ELSE Applied(copy'[x], reply'[x].rows)
      BY <2>1, <3>2
    <3>6. q = from'[x] /\ held = copy'[x]
      BY <1>1, <1>2, <2>1
    <3> QED
      BY <2>2, <3>1, <3>4, <3>5, <3>6
  <2> QED
    BY <2>3, <2>4
<1>10. ASSUME NEW r \in Readers, Apply(r)
       PROVE  /\ CopyMatches(from[x], copy[x])'
              /\ (reply[x].sent)' =>
                   CopyMatches(reply[x].next, IF reply[x].resync THEN [p \in Paths |-> 0]
                                              ELSE Applied(copy[x], reply[x].rows))'
  <2>1. UNCHANGED logVars /\ reply[r].sent
    BY <1>10 DEF Apply
  <2>2. CopyMatches(q, held)' /\ (reply[x].sent => CopyMatches(n, after)')
    BY <1>6, <2>1
  <2>3. CASE r # x
    <3>1. from'[x] = from[x] /\ copy'[x] = copy[x] /\ reply'[x] = reply[x]
      BY <1>10, <2>3 DEF Apply, TypeOK
    <3>2. q = from'[x] /\ held = copy'[x] /\ n = reply'[x].next
          /\ after = IF reply'[x].resync THEN [p \in Paths |-> 0]
                     ELSE Applied(copy'[x], reply'[x].rows)
      BY <1>1, <1>2, <1>3, <1>4, <3>1
    <3> QED
      BY <2>2, <3>1, <3>2
  <2>4. CASE r = x
    <3>1. from'[x] = n /\ ~reply'[x].sent
      BY <1>3, <1>10, <2>4 DEF Apply, TypeOK, NoReply
    <3>2. copy'[x] = after
      BY <1>4, <1>10, <2>4 DEF Apply, TypeOK
    <3> QED
      BY <2>1, <2>2, <2>4, <3>1, <3>2
  <2> QED
    BY <2>3, <2>4
<1>11. ASSUME NEW r \in Readers, Lose(r)
       PROVE  /\ CopyMatches(from[x], copy[x])'
              /\ (reply[x].sent)' =>
                   CopyMatches(reply[x].next, IF reply[x].resync THEN [p \in Paths |-> 0]
                                              ELSE Applied(copy[x], reply[x].rows))'
  <2>1. UNCHANGED logVars /\ from' = from /\ copy' = copy
    BY <1>11 DEF Lose
  <2>2. CopyMatches(q, held)' /\ (reply[x].sent => CopyMatches(n, after)')
    BY <1>6, <2>1
  <2>3. q = from'[x] /\ held = copy'[x]
    BY <1>1, <1>2, <2>1
  <2>4. CASE r # x
    <3>1. reply'[x] = reply[x]
      BY <1>11, <2>4 DEF Lose, TypeOK
    <3>2. n = reply'[x].next
          /\ after = IF reply'[x].resync THEN [p \in Paths |-> 0]
                     ELSE Applied(copy'[x], reply'[x].rows)
      BY <1>3, <1>4, <2>1, <3>1
    <3> QED
      BY <2>2, <2>3, <3>1, <3>2
  <2>5. CASE r = x
    <3>1. ~reply'[x].sent
      BY <1>11, <2>5 DEF Lose, TypeOK, NoReply
    <3> QED
      BY <2>2, <2>3, <3>1
  <2> QED
    BY <2>4, <2>5
<1>12. CASE UNCHANGED vars
  <2>1. UNCHANGED logVars /\ UNCHANGED readerVars
    BY <1>12 DEF vars
  <2> QED
    BY <1>6, <1>7, <2>1
<1> QED
  BY <1>8, <1>9, <1>10, <1>11, <1>12 DEF Next

\* Every copy, and the copy every page in flight leads to, is exact as far as
\* the log can still answer for it: whatever passes, forgotten deletes, resets
\* and lost pages ran between two pages of a read (library_changes.rs, read).
THEOREM CopiesCorrect == Spec => []CopiesExact
<1>1. Init => CopiesExact
  BY DEF Init, CopiesExact, CopyMatches, StartOver, NoReply
<1>2. TypeOK /\ TablesAgree /\ CopiesExact /\ [Next]_vars => CopiesExact'
  BY CopiesStep
<1> QED
  BY <1>1, <1>2, TypeCorrect, TablesCorrect, PTL DEF Spec

\* A reader at the head of the log holds exactly the library the log describes
\* (docs/protocol-v6.md, Library sync).
THEOREM HeadCorrect == Spec => []HeadReaderHoldsLibrary
<1>1. ASSUME TypeOK, TablesAgree, CopiesExact
      PROVE  HeadReaderHoldsLibrary
  <2> SUFFICES ASSUME NEW r \in Readers, AtHead(r)
               PROVE  copy[r] = [p \in Paths |-> IF known[p].live THEN known[p].gen ELSE 0]
    BY DEF HeadReaderHoldsLibrary
  <2> DEFINE q == from[r]
  <2>1. /\ q.mode = "since" /\ q.epoch = epoch /\ epoch # 0 /\ q.since = generation
        /\ Horizon(q) = q.since /\ floor <= generation
        /\ CopyMatches(q, copy[r])
    BY <1>1 DEF AtHead, Horizon, TablesAgree, CopiesExact
  <2>2. ASSUME NEW p \in Paths
        PROVE  copy[r][p] = IF known[p].live THEN known[p].gen ELSE 0
    <3>1. known[p].gen \in Nat /\ known[p].gen <= generation
          /\ (known[p].live => known[p].gen > 0)
      BY <1>1 DEF TypeOK, TablesAgree
    <3>2. Walked(q, p)
      BY <2>1, <3>1 DEF Walked
    <3>3. /\ known[p].gen = 0 => copy[r][p] = 0
          /\ known[p].gen > 0 => copy[r][p] = IF known[p].live THEN known[p].gen ELSE 0
      BY <2>1, <3>2 DEF CopyMatches
    <3> QED
      BY <3>1, <3>3
  <2>3. copy[r] \in [Paths -> Nat]
    BY <1>1 DEF TypeOK
  <2> QED
    BY <2>2, <2>3
<1> QED
  BY <1>1, TypeCorrect, TablesCorrect, CopiesCorrect, PTL

-----------------------------------------------------------------------------
(* The counters. *)

\* The paths a table holds as in the library, and those it holds as deleted.
LiveIn(k) == {p \in Paths : k[p].live}
DeadIn(k) == {p \in Paths : k[p].gen > 0 /\ ~k[p].live}

\* Rows of a table are as many as their paths.
LEMMA CountSources ==
    ASSUME NEW k \in [Paths -> [gen : Nat, live : BOOLEAN]], NEW S \in SUBSET RowsOf(k)
    PROVE  /\ IsFiniteSet(S)
           /\ Cardinality({r.src : r \in S}) = Cardinality(S)
<1> DEFINE T == {r.src : r \in S}
           f == [r \in S |-> r.src]
<1>1. IsFiniteSet(S)
  BY RowsFinite, FS_Subset
<1>2. \A r \in S : r \in Row /\ r.gen = k[r.src].gen /\ r.live = k[r.src].live
  BY RowsOfMember
<1>3. ASSUME NEW a \in S, NEW b \in S, f[a] = f[b]
      PROVE  a = b
  <2>1. a \in Row /\ b \in Row /\ a.src = b.src /\ a.gen = b.gen /\ a.live = b.live
    BY <1>2, <1>3
  <2> QED
    BY <2>1 DEF Row
<1>4. f \in [S -> T] /\ \A t \in T : \E r \in S : f[r] = t
  OBVIOUS
<1> HIDE DEF f
<1>5. f \in Injection(S, T) /\ f \in Surjection(S, T)
  BY <1>3, <1>4 DEF Injection, IsInjective, Surjection
<1> HIDE DEF T
<1>6. Cardinality(T) = Cardinality(S)
  BY <1>1, <1>5, FS_Surjection
<1> QED
  BY <1>1, <1>6 DEF T

\* What a pass makes of the library and of the deletes: added paths come back,
\* removed ones become deletes, edited ones stay.
LEMMA FiledPaths ==
    ASSUME TypeOK, TablesAgree,
           NEW added \in SUBSET Paths, added \cap LivePaths = {},
           NEW edited \in SUBSET LivePaths, NEW removed \in SUBSET LivePaths
    PROVE  LET k == FiledKnown(added \cup edited \cup removed, removed) IN
           /\ LiveIn(k) = (LivePaths \ removed) \cup added
           /\ DeadIn(k) = (DeadPaths \ added) \cup removed
<1> DEFINE k == FiledKnown(added \cup edited \cup removed, removed)
           moved == added \cup edited \cup removed
<1>1. \A p \in Paths :
        /\ p \in moved => k[p].gen = generation + 1 /\ (k[p].live <=> p \notin removed)
        /\ p \notin moved => k[p] = known[p]
  BY DEF FiledKnown
<1>2. generation + 1 > 0 /\ \A p \in Paths : known[p].live => known[p].gen > 0
  BY DEF TypeOK, TablesAgree
<1> HIDE DEF k
<1>3. ASSUME NEW p \in Paths
      PROVE  /\ p \in LiveIn(k) <=> p \in (LivePaths \ removed) \cup added
             /\ p \in DeadIn(k) <=> p \in (DeadPaths \ added) \cup removed
  <2>1. p \in LivePaths <=> known[p].live
    BY DEF LivePaths
  <2>2. p \in DeadPaths <=> known[p].gen > 0 /\ ~known[p].live
    BY DEF DeadPaths
  <2>3. p \in LiveIn(k) <=> k[p].live
    BY DEF LiveIn
  <2>4. p \in DeadIn(k) <=> k[p].gen > 0 /\ ~k[p].live
    BY DEF DeadIn
  <2> QED
    BY <1>1, <1>2, <2>1, <2>2, <2>3, <2>4
<1>4. /\ LiveIn(k) \subseteq Paths /\ DeadIn(k) \subseteq Paths
      /\ LivePaths \subseteq Paths /\ DeadPaths \subseteq Paths
  BY DEF LiveIn, DeadIn, LivePaths, DeadPaths
<1> HIDE DEF moved
<1> QED
  BY <1>3, <1>4 DEF k

\* Forgetting takes as many deletes as it is asked to, each no newer than any it
\* leaves, and nothing of the library.
LEMMA ForgettingCounts ==
    ASSUME NEW k \in [Paths -> [gen : Nat, live : BOOLEAN]],
           NEW n \in Nat, n <= Cardinality(DeadIn(k)), ForgetOldest(n, k, RowsOf(k))
    PROVE  /\ LivePaths' = LiveIn(k)
           /\ DeadPaths' \subseteq DeadIn(k)
           /\ Cardinality(DeadPaths') = Cardinality(DeadIn(k)) - n
           /\ \A p \in Paths : known'[p] = k[p] \/ (p \in DeadIn(k) /\ known'[p] = NoRow)
           /\ \A p \in DeadIn(k) \ DeadPaths', q \in DeadPaths' : k[q].gen >= k[p].gen
<1> DEFINE dead == {r \in RowsOf(k) : ~r.live}
<1>1. PICK F \in SUBSET RowsOf(k) :
        /\ Oldest(F, n, dead)
        /\ known' = [p \in Paths |-> IF \E r \in F : r.src = p THEN NoRow ELSE k[p]]
  BY DEF ForgetOldest
<1> DEFINE gone == {r.src : r \in F}
<1>2. /\ F \subseteq dead
      /\ \A r \in F, s \in dead \ F : Before(r, s)
      /\ Cardinality(F) = n \/ (F = dead /\ Cardinality(dead) < n)
  BY <1>1 DEF Oldest
<1>3. \A r \in RowsOf(k) : r \in Row /\ k[r.src].gen > 0 /\ r.gen = k[r.src].gen
                           /\ r.live = k[r.src].live
  BY RowsOfMember
<1>4. \A p \in DeadIn(k) : [gen |-> k[p].gen, src |-> p, live |-> k[p].live] \in dead
  <2> SUFFICES ASSUME NEW p \in DeadIn(k)
               PROVE  [gen |-> k[p].gen, src |-> p, live |-> k[p].live] \in dead
    OBVIOUS
  <2>1. p \in Paths /\ k[p].gen > 0 /\ ~k[p].live
    BY DEF DeadIn
  <2> QED
    BY <2>1 DEF RowsOf
<1>5. {r.src : r \in dead} = DeadIn(k)
  <2>1. \A r \in dead : r.src \in DeadIn(k)
    BY <1>3 DEF DeadIn, Row
  <2>2. ASSUME NEW p \in DeadIn(k)
        PROVE  \E r \in dead : r.src = p
    BY <1>4
  <2> QED
    BY <2>1, <2>2
<1>6. /\ Cardinality(gone) = Cardinality(F)
      /\ Cardinality(DeadIn(k)) = Cardinality(dead)
  BY <1>5, CountSources
<1>7. gone \subseteq DeadIn(k) /\ IsFiniteSet(DeadIn(k)) /\ Cardinality(DeadIn(k)) \in Nat
  <2>1. DeadIn(k) \in SUBSET Paths
    BY DEF DeadIn
  <2> QED
    BY <1>2, <1>5, <2>1, CountPaths
<1>8. Cardinality(F) = n
  BY <1>2, <1>6, <1>7
<1>9. \A p \in Paths : known'[p] = IF p \in gone THEN NoRow ELSE k[p]
  BY <1>1
<1>10. DeadPaths' = DeadIn(k) \ gone /\ LivePaths' = LiveIn(k)
  BY <1>7, <1>9 DEF DeadPaths, DeadIn, LivePaths, LiveIn, NoRow
<1> HIDE DEF gone
<1>11. Cardinality(DeadIn(k) \ gone) = Cardinality(DeadIn(k)) - Cardinality(gone)
  <2>1. DeadIn(k) \cap gone = gone
    BY <1>7
  <2> QED
    BY <1>7, <2>1, FS_Difference
<1>12. ASSUME NEW p \in DeadIn(k) \ DeadPaths', NEW q \in DeadPaths'
       PROVE  k[q].gen >= k[p].gen
  <2> DEFINE s == [gen |-> k[q].gen, src |-> q, live |-> k[q].live]
  <2>1. q \in DeadIn(k) /\ q \notin gone /\ p \in gone /\ q \in Paths /\ p \in Paths
    BY <1>10, <1>12 DEF DeadIn
  <2>2. PICK r \in F : r.src = p
    BY <2>1 DEF gone
  <2>3. s \in dead \ F
    BY <1>4, <2>1 DEF gone
  <2>4. Before(r, s)
    BY <1>2, <2>3
  <2>5. r.gen = k[p].gen
    BY <1>3, <2>2
  <2> QED
    BY <2>1, <2>4, <2>5 DEF Before
<1> QED
  BY <1>6, <1>7, <1>8, <1>9, <1>10, <1>11, <1>12

\* A pass keeps the counters beside the tables, and what it forgets are the
\* oldest deletes beyond the budget.
LEMMA FileCounts ==
    ASSUME TypeOK, TablesAgree, CountersAgree,
           NEW added \in SUBSET Paths, added \cap LivePaths = {},
           NEW edited \in SUBSET LivePaths, NEW removed \in SUBSET LivePaths,
           File(added, edited, removed)
    PROVE  /\ CountersAgree'
           /\ \A p \in Paths : (known[p].gen > 0 /\ known'[p].gen = 0) =>
                /\ Cardinality(DeadPaths') = MaxTombstones
                /\ \A q \in DeadPaths' :
                     known'[q].gen >= IF known[p].live THEN generation' ELSE known[p].gen
<1> DEFINE moved == added \cup edited \cup removed
           k == FiledKnown(moved, removed)
           a == Cardinality(added)
           r == Cardinality(removed)
           b == Cardinality(added \cap DeadPaths)
           dead == Minus(tombstones, b) + r
<1>1. /\ removed \in SUBSET Paths /\ moved \in SUBSET Paths /\ removed \in SUBSET moved
      /\ LivePaths \in SUBSET Paths /\ DeadPaths \in SUBSET Paths
      /\ added \cap DeadPaths \in SUBSET Paths
  BY DEF LivePaths, DeadPaths
<1>2. /\ k \in [Paths -> [gen : Nat, live : BOOLEAN]]
      /\ FiledLog(moved, removed) = RowsOf(k)
  BY <1>1, FiledTablesAgree
<1>3. LiveIn(k) = (LivePaths \ removed) \cup added /\ DeadIn(k) = (DeadPaths \ added) \cup removed
  BY FiledPaths
<1>4. /\ IsFiniteSet(added) /\ a \in Nat /\ IsFiniteSet(removed) /\ r \in Nat /\ b \in Nat
      /\ IsFiniteSet(LivePaths) /\ Cardinality(LivePaths) \in Nat
      /\ IsFiniteSet(DeadPaths) /\ Cardinality(DeadPaths) \in Nat
  BY <1>1, CountPaths
<1>5. Cardinality(LiveIn(k)) = Cardinality(LivePaths) - r + a /\ r <= Cardinality(LivePaths)
  <2>1. /\ IsFiniteSet(LivePaths \ removed)
        /\ Cardinality(LivePaths \ removed) = Cardinality(LivePaths) - r
    <3>1. LivePaths \cap removed = removed
      OBVIOUS
    <3> QED
      BY <1>4, <3>1, FS_Difference
  <2>2. Cardinality((LivePaths \ removed) \cup added) = Cardinality(LivePaths) - r + a
    <3>1. (LivePaths \ removed) \cap added = {}
      OBVIOUS
    <3>2. Cardinality((LivePaths \ removed) \cap added) = 0
      BY <3>1, FS_EmptySet
    <3>3. Cardinality((LivePaths \ removed) \cup added)
            = Cardinality(LivePaths \ removed) + a - Cardinality((LivePaths \ removed) \cap added)
      BY <1>4, <2>1, FS_Union
    <3> QED
      BY <1>4, <2>1, <3>2, <3>3
  <2>3. r <= Cardinality(LivePaths)
    BY <1>4, FS_Subset
  <2> QED
    BY <1>3, <2>2, <2>3
<1>6. Cardinality(DeadIn(k)) = Cardinality(DeadPaths) - b + r /\ b <= Cardinality(DeadPaths)
  <2>1. /\ IsFiniteSet(DeadPaths \ added)
        /\ Cardinality(DeadPaths \ added) = Cardinality(DeadPaths) - b
    <3>1. DeadPaths \cap added = added \cap DeadPaths
      OBVIOUS
    <3>2. /\ IsFiniteSet(DeadPaths \ added)
          /\ Cardinality(DeadPaths \ added)
               = Cardinality(DeadPaths) - Cardinality(DeadPaths \cap added)
      BY <1>4, FS_Difference
    <3> QED
      BY <3>1, <3>2
  <2>2. Cardinality((DeadPaths \ added) \cup removed) = Cardinality(DeadPaths) - b + r
    <3>1. (DeadPaths \ added) \cap removed = {}
      BY DEF DeadPaths, LivePaths
    <3>2. Cardinality((DeadPaths \ added) \cap removed) = 0
      BY <3>1, FS_EmptySet
    <3>3. Cardinality((DeadPaths \ added) \cup removed)
            = Cardinality(DeadPaths \ added) + r - Cardinality((DeadPaths \ added) \cap removed)
      BY <1>4, <2>1, FS_Union
    <3> QED
      BY <1>4, <2>1, <3>2, <3>3
  <2>3. b <= Cardinality(DeadPaths)
    BY <1>4, FS_Intersection
  <2> QED
    BY <1>3, <2>2, <2>3
<1>7. /\ inLibrary' = Minus(inLibrary + a, r) /\ generation' = generation + 1
      /\ IF dead > MaxTombstones
         THEN /\ tombstones' = MaxTombstones
              /\ ForgetOldest(dead - MaxTombstones, k, FiledLog(moved, removed))
         ELSE /\ tombstones' = dead
              /\ known' = k
  BY DEF File
<1>8. /\ \A p \in moved : k[p].gen = generation + 1 /\ (k[p].live <=> p \notin removed)
      /\ \A p \in Paths \ moved : k[p] = known[p]
      /\ generation + 1 > 0 /\ generation \in Nat
  <2>1. \A p \in Paths :
          /\ p \in moved => k[p].gen = generation + 1 /\ (k[p].live <=> p \notin removed)
          /\ p \notin moved => k[p] = known[p]
    BY DEF FiledKnown
  <2> HIDE DEF moved, k
  <2>2. generation + 1 > 0 /\ generation \in Nat
    BY DEF TypeOK
  <2> QED
    BY <1>1, <2>1, <2>2
<1> HIDE DEF k, a, r, b
<1>9. inLibrary' = Cardinality(LiveIn(k))
  BY <1>4, <1>5, <1>7 DEF CountersAgree, Minus
<1>10. dead = Cardinality(DeadIn(k)) /\ dead \in Nat
  BY <1>4, <1>6 DEF CountersAgree, Minus
<1> HIDE DEF dead, moved
<1>11. CASE dead > MaxTombstones
  <2> DEFINE n == dead - MaxTombstones
  <2>1. n \in Nat /\ n <= Cardinality(DeadIn(k)) /\ MaxTombstones \in Nat
    BY <1>10, <1>11, ChangeLogAssumption
  <2>2. ForgetOldest(n, k, RowsOf(k))
    BY <1>2, <1>7, <1>11
  <2> HIDE DEF n
  <2>3. /\ LivePaths' = LiveIn(k)
        /\ DeadPaths' \subseteq DeadIn(k)
        /\ Cardinality(DeadPaths') = Cardinality(DeadIn(k)) - n
        /\ \A p \in Paths : known'[p] = k[p] \/ (p \in DeadIn(k) /\ known'[p] = NoRow)
        /\ \A p \in DeadIn(k) \ DeadPaths', q \in DeadPaths' : k[q].gen >= k[p].gen
    BY <1>2, <2>1, <2>2, ForgettingCounts
  <2>4. Cardinality(DeadPaths') = MaxTombstones /\ tombstones' = MaxTombstones
    BY <1>7, <1>10, <1>11, <2>1, <2>3 DEF n
  <2>5. CountersAgree'
    BY <1>9, <2>1, <2>3, <2>4 DEF CountersAgree
  <2>6. ASSUME NEW p \in Paths, known[p].gen > 0, known'[p].gen = 0, NEW q \in DeadPaths'
        PROVE  known'[q].gen >= IF known[p].live THEN generation' ELSE known[p].gen
    <3>1. q \in Paths /\ known'[q].gen > 0 /\ known'[q] = k[q]
      BY <2>3 DEF DeadPaths, NoRow
    <3>2. k[p].gen > 0
      BY <1>8, <2>6
    <3>3. p \in DeadIn(k) \ DeadPaths'
      <4>1. p \in DeadIn(k)
        BY <2>3, <2>6, <3>2
      <4>2. p \notin DeadPaths'
        BY <2>6 DEF DeadPaths
      <4> QED
        BY <4>1, <4>2
    <3>4. known'[q].gen >= k[p].gen
      BY <2>3, <3>1, <3>3
    <3>5. k[p].gen = (IF known[p].live THEN generation' ELSE known[p].gen)
      <4>1. ~k[p].live
        BY <3>3 DEF DeadIn
      <4>2. CASE p \in moved
        BY <1>7, <1>8, <3>3, <4>1, <4>2 DEF LivePaths
      <4>3. CASE p \notin moved
        BY <1>8, <4>1, <4>3
      <4> QED
        BY <4>2, <4>3
    <3> QED
      BY <3>4, <3>5
  <2> QED
    BY <2>4, <2>5, <2>6
<1>12. CASE ~(dead > MaxTombstones)
  <2>1. known' = k /\ tombstones' = dead
    BY <1>7, <1>12
  <2>2. LivePaths' = LiveIn(k) /\ DeadPaths' = DeadIn(k)
    BY <2>1 DEF LivePaths, DeadPaths, LiveIn, DeadIn
  <2>3. CountersAgree'
    BY <1>9, <1>10, <1>12, <2>1, <2>2, ChangeLogAssumption DEF CountersAgree
  <2>4. ASSUME NEW p \in Paths, known[p].gen > 0
        PROVE  known'[p].gen # 0
    BY <1>8, <2>1, <2>4
  <2> QED
    BY <2>3, <2>4
<1> QED
  BY <1>11, <1>12

\* What a step does to the log: a pass files something, or the tables stay, in
\* the run of the log there is or in a new one; or the log is reset.
LEMMA LogMoves ==
    ASSUME [Next]_vars
    PROVE  \/ /\ \/ \E added \in SUBSET Paths, edited, removed \in SUBSET LivePaths :
                      added \cap LivePaths = {} /\ File(added, edited, removed)
                 \/ UNCHANGED <<generation, floor, tombstones, inLibrary, known, log>>
              /\ \/ UNCHANGED <<epoch, epochsUsed>>
                 \/ epoch = 0 /\ epochsUsed' = epochsUsed + 1 /\ epoch' = epochsUsed'
           \/ Reset
<1>1. ASSUME NEW listing \in SUBSET Paths, NEW updated \in SUBSET Paths,
             RecordListing(listing, updated)
      PROVE  /\ \/ \E added \in SUBSET Paths, edited, removed \in SUBSET LivePaths :
                     added \cap LivePaths = {} /\ File(added, edited, removed)
                \/ UNCHANGED <<generation, floor, tombstones, inLibrary, known, log>>
             /\ \/ UNCHANGED <<epoch, epochsUsed>>
                \/ epoch = 0 /\ epochsUsed' = epochsUsed + 1 /\ epoch' = epochsUsed'
  <2>1. /\ Added(listing) \in SUBSET Paths /\ Added(listing) \cap LivePaths = {}
        /\ Edited(updated) \in SUBSET LivePaths /\ Removed(listing) \in SUBSET LivePaths
    BY DEF Added, Edited, Removed
  <2> QED
    BY <1>1, <2>1 DEF RecordListing
<1>2. ASSUME NEW updated \in SUBSET Paths, RecordEdits(updated)
      PROVE  /\ UNCHANGED <<epoch, epochsUsed>>
             /\ \E added \in SUBSET Paths, edited, removed \in SUBSET LivePaths :
                  added \cap LivePaths = {} /\ File(added, edited, removed)
  <2>1. /\ {} \in SUBSET Paths /\ {} \cap LivePaths = {} /\ {} \in SUBSET LivePaths
        /\ Edited(updated) \in SUBSET LivePaths /\ File({}, Edited(updated), {})
    BY <1>2 DEF Edited, RecordEdits
  <2> QED
    BY <1>2, <2>1 DEF RecordEdits
<1>3. CASE UNCHANGED logVars
  BY <1>3 DEF logVars
<1> QED
  BY <1>1, <1>2, <1>3 DEF Next, Serve, Apply, Lose, vars

\* Every step keeps the counters beside the tables.
LEMMA CountersStep ==
    ASSUME TypeOK, TablesAgree, CountersAgree, [Next]_vars
    PROVE  CountersAgree'
<1>1. ASSUME NEW added \in SUBSET Paths, added \cap LivePaths = {},
             NEW edited \in SUBSET LivePaths, NEW removed \in SUBSET LivePaths,
             File(added, edited, removed)
      PROVE  CountersAgree'
  BY <1>1, FileCounts
<1>2. CASE UNCHANGED <<generation, floor, tombstones, inLibrary, known, log>>
  BY <1>2 DEF CountersAgree, LivePaths, DeadPaths
<1>3. CASE Reset
  <2>1. known' = [p \in Paths |-> NoRow] /\ inLibrary' = 0 /\ tombstones' = 0
    BY <1>3 DEF Reset
  <2>2. LivePaths' = {} /\ DeadPaths' = {}
    BY <2>1 DEF LivePaths, DeadPaths, NoRow
  <2> QED
    BY <2>1, <2>2, FS_EmptySet, ChangeLogAssumption DEF CountersAgree
<1> QED
  BY <1>1, <1>2, <1>3, LogMoves

\* The five counters of META count what the two tables hold, and the deletes
\* remembered keep within their budget (record_in, forget_oldest_tombstones).
THEOREM CountersCorrect == Spec => []Bookkeeping
<1>1. Init => CountersAgree
  <2> SUFFICES ASSUME Init
               PROVE  CountersAgree
    OBVIOUS
  <2>1. LivePaths = {} /\ DeadPaths = {}
    BY DEF Init, LivePaths, DeadPaths, NoRow
  <2> QED
    BY <2>1, FS_EmptySet, ChangeLogAssumption DEF Init, CountersAgree
<1>2. TypeOK /\ TablesAgree /\ CountersAgree /\ [Next]_vars => CountersAgree'
  BY CountersStep
<1> QED
  BY <1>1, <1>2, TypeCorrect, TablesCorrect, PTL DEF Spec, Bookkeeping

\* A change leaves the log only as one of the oldest deletes, the budget being
\* full of others (forget_oldest_tombstones).
THEOREM OldestCorrect == Spec => OnlyOldestForgotten
<1>1. TypeOK /\ TablesAgree /\ CountersAgree /\ [Next]_vars
        => [\A p \in Paths :
              (epoch' = epoch /\ known[p].gen > 0 /\ known'[p].gen = 0) =>
                 /\ Cardinality(DeadPaths') = MaxTombstones
                 /\ \A q \in DeadPaths' :
                      known'[q].gen >= IF known[p].live THEN generation' ELSE known[p].gen]_vars
  <2> SUFFICES ASSUME TypeOK, TablesAgree, CountersAgree, Next,
                      NEW p \in Paths, epoch' = epoch, known[p].gen > 0, known'[p].gen = 0
               PROVE  /\ Cardinality(DeadPaths') = MaxTombstones
                      /\ \A q \in DeadPaths' :
                           known'[q].gen >= IF known[p].live THEN generation' ELSE known[p].gen
    OBVIOUS
  <2>1. ~Reset
    BY DEF Reset
  <2>2. known' # known
    OBVIOUS
  <2>3. PICK added \in SUBSET Paths, edited \in SUBSET LivePaths, removed \in SUBSET LivePaths :
          added \cap LivePaths = {} /\ File(added, edited, removed)
    BY <2>1, <2>2, LogMoves
  <2> QED
    BY <2>3, FileCounts
<1> QED
  BY <1>1, TypeCorrect, TablesCorrect, CountersCorrect, PTL
  DEF Spec, OnlyOldestForgotten, Bookkeeping

-----------------------------------------------------------------------------
(* The total a paging reader is told of. *)

\* A request in the middle of a read leaves no more pending than its total has
\* room for, as long as the log it pages stands.
Within(q) ==
    /\ q.mode # "resume" => q.served = 0
    /\ q.mode = "resume" =>
         /\ q.epoch <= epochsUsed /\ q.served <= q.total
         /\ (q.epoch = epoch /\ epoch # 0) =>
               q.until <= generation /\ q.served + Cardinality(Pending(q)) <= q.total
PagesWithin ==
    \A r \in Readers :
        /\ Within(from[r])
        /\ reply[r].sent =>
             /\ Within(reply[r].next)
             /\ (~reply[r].resync /\ from[r].mode = "resume") =>
                   from[r].served + Cardinality(reply[r].rows) <= from[r].total

\* What is pending can be counted.
LEMMA CountPending ==
    ASSUME TypeOK, TablesAgree, NEW q
    PROVE  IsFiniteSet(Pending(q)) /\ Cardinality(Pending(q)) \in Nat
<1>1. Pending(q) \in SUBSET log
  BY DEF Pending, Window
<1> QED
  BY <1>1, CountRows

\* A pass adds nothing to the window of a read in progress: what it files is
\* after the window.
LEMMA PassShrinksPending ==
    ASSUME TypeOK, TablesAgree,
           NEW added \in SUBSET Paths, added \cap LivePaths = {},
           NEW edited \in SUBSET LivePaths, NEW removed \in SUBSET LivePaths,
           File(added, edited, removed),
           NEW q \in Request, q.mode = "resume", q.until <= generation
    PROVE  Pending(q)' \subseteq Pending(q)
<1>1. /\ known' \in [Paths -> [gen : Nat, live : BOOLEAN]] /\ log' = RowsOf(known')
      /\ \A p \in Paths : \/ known'[p] = known[p] \/ known'[p] = NoRow
                          \/ known'[p].gen = generation + 1
  BY FileEffect
<1>2. known \in [Paths -> [gen : Nat, live : BOOLEAN]] /\ log = RowsOf(known)
      /\ q.until \in Nat /\ generation \in Nat
  BY DEF TypeOK, TablesAgree, Request
<1>3. ASSUME NEW r \in Pending(q)'
      PROVE  r \in Pending(q)
  <2>1. /\ r \in log' /\ r.gen <= q.until /\ Before(q, r)
        /\ r.live \/ Lower(q) # -1
    BY <1>3 DEF Pending, Window, Until, Lower, Before
  <2>2. /\ r \in Row /\ known'[r.src].gen > 0 /\ r.gen = known'[r.src].gen
        /\ r.live = known'[r.src].live
    BY <1>1, <2>1, RowsOfMember
  <2>3. r.src \in Paths /\ r.gen \in Nat /\ r.gen # generation + 1
    BY <1>2, <2>1, <2>2 DEF Row
  <2>4. known'[r.src] = known[r.src]
    BY <1>1, <2>2, <2>3 DEF NoRow
  <2>5. r \in log
    BY <1>2, <2>2, <2>4, RowsOfMember
  <2> QED
    BY <2>1, <2>5 DEF Pending, Window, Until, Lower, Before
<1> QED
  BY <1>3

\* No step of the log takes the room from a read in progress.
LEMMA LogKeepsWithin ==
    ASSUME TypeOK, TablesAgree, [Next]_vars, NEW q \in Request, Within(q)
    PROVE  Within(q)'
<1>1. /\ epoch \in Nat /\ epochsUsed \in Nat /\ generation \in Nat
      /\ q.epoch \in Nat /\ q.until \in Nat /\ q.served \in Nat /\ q.total \in Nat
  BY DEF TypeOK, Request
<1> SUFFICES ASSUME q.mode = "resume"
             PROVE  /\ q.epoch <= epochsUsed'
                    /\ (q.epoch = epoch' /\ epoch' # 0) =>
                         q.until <= generation' /\ q.served + Cardinality(Pending(q)') <= q.total
  BY DEF Within
<1>2. q.epoch <= epochsUsed
  BY DEF Within
<1>3. CASE Reset
  BY <1>2, <1>3 DEF Reset
<1>4. CASE epoch = 0 /\ epochsUsed' = epochsUsed + 1 /\ epoch' = epochsUsed'
  BY <1>1, <1>2, <1>4
<1>5. CASE UNCHANGED <<epoch, epochsUsed>> /\
             \E added \in SUBSET Paths, edited, removed \in SUBSET LivePaths :
               added \cap LivePaths = {} /\ File(added, edited, removed)
  <2> SUFFICES ASSUME q.epoch = epoch, epoch # 0
               PROVE  q.until <= generation' /\ q.served + Cardinality(Pending(q)') <= q.total
    BY <1>2, <1>5
  <2>1. PICK added \in SUBSET Paths, edited \in SUBSET LivePaths, removed \in SUBSET LivePaths :
          added \cap LivePaths = {} /\ File(added, edited, removed)
    BY <1>5
  <2>2. q.until <= generation /\ q.served + Cardinality(Pending(q)) <= q.total
    BY DEF Within
  <2>3. generation' = generation + 1
    BY <2>1, FileEffect
  <2>4. Pending(q)' \subseteq Pending(q)
    BY <2>1, <2>2, PassShrinksPending
  <2>5. Cardinality(Pending(q)') <= Cardinality(Pending(q)) /\ Cardinality(Pending(q)) \in Nat
        /\ Cardinality(Pending(q)') \in Nat
    BY <2>4, CountPending, FS_Subset, FS_CardinalityType
  <2> QED
    BY <1>1, <2>2, <2>3, <2>5
<1>6. CASE UNCHANGED <<epoch, epochsUsed>> /\
             UNCHANGED <<generation, floor, tombstones, inLibrary, known, log>>
  <2>1. Pending(q)' = Pending(q)
    BY <1>6 DEF Pending, Window, Until, Lower, Before
  <2> QED
    BY <1>6, <2>1 DEF Within
<1> QED
  BY <1>3, <1>4, <1>5, <1>6, LogMoves

\* The total is at least what a request has pending, beside what it has served.
LEMMA TotalCovers ==
    ASSUME TypeOK, TablesAgree, CountersAgree, epoch # 0,
           NEW q \in Request, ~Unanswerable(q), Within(q)
    PROVE  /\ q.served + Cardinality(Pending(q)) <= Total(q)
           /\ Until(q) \in Nat /\ Until(q) <= generation /\ Total(q) \in Nat
<1>1. /\ generation \in Nat /\ q.until \in Nat /\ q.served \in Nat /\ q.total \in Nat
      /\ Cardinality(Pending(q)) \in Nat
  BY CountPending DEF TypeOK, Request
<1>2. CASE q.mode = "resume"
  BY <1>1, <1>2 DEF Within, Unanswerable, Until, Total
<1>3. CASE q.mode = "since"
  <2>1. Pending(q) \subseteq Window(q) /\ Window(q) \in SUBSET log
    BY DEF Pending, Window
  <2>2. IsFiniteSet(Window(q)) /\ Cardinality(Window(q)) \in Nat
    BY <2>1, CountRows
  <2>3. Cardinality(Pending(q)) <= Cardinality(Window(q))
    BY <2>1, <2>2, FS_Subset
  <2> QED
    BY <1>1, <1>3, <2>2, <2>3 DEF Within, Until, Total
<1>4. CASE q.mode = "start"
  <2>1. Pending(q) \in SUBSET RowsOf(known) /\ known \in [Paths -> [gen : Nat, live : BOOLEAN]]
    BY DEF Pending, Window, TablesAgree, TypeOK
  <2>2. {r.src : r \in Pending(q)} \subseteq LivePaths
    <3> SUFFICES ASSUME NEW r \in Pending(q)
                 PROVE  r.src \in LivePaths
      OBVIOUS
    <3>1. r.live
      BY <1>4 DEF Pending, Lower
    <3>2. r.src \in Paths /\ r.live = known[r.src].live
      BY <2>1, RowsOfMember DEF Row
    <3> QED
      BY <3>1, <3>2 DEF LivePaths
  <2>3. Cardinality({r.src : r \in Pending(q)}) = Cardinality(Pending(q))
    BY <2>1, CountSources
  <2>4. IsFiniteSet(LivePaths) /\ Cardinality(LivePaths) \in Nat
    <3>1. LivePaths \in SUBSET Paths
      BY DEF LivePaths
    <3> QED
      BY <3>1, CountPaths
  <2>5. Cardinality(Pending(q)) <= Cardinality(LivePaths)
    BY <2>2, <2>3, <2>4, FS_Subset
  <2> QED
    BY <1>1, <1>4, <2>4, <2>5 DEF Within, Until, Total, CountersAgree
<1> QED
  BY <1>2, <1>3, <1>4 DEF Request

\* After a page the rows it served are behind the read.
LEMMA PageLeaves ==
    ASSUME TypeOK, TablesAgree, NEW q \in Request, NEW page \in SUBSET Pending(q),
           NEW last \in page, \A s \in page : ~Before(last, s),
           NEW next \in Request, next.mode = "resume", next.since = Lower(q),
           next.until = Until(q), next.gen = last.gen, next.src = last.src
    PROVE  Pending(next) \subseteq Pending(q) \ page
<1> SUFFICES ASSUME NEW r \in Pending(next)
             PROVE  r \in Pending(q) \ page
  OBVIOUS
<1>1. /\ r \in log /\ r.gen <= Until(q) /\ Before(last, r)
      /\ r.live \/ Lower(q) # -1
  BY DEF Pending, Window, Until, Lower, Before
<1>2. r \notin page
  BY <1>1
<1>3. /\ last \in log /\ last.gen \in Nat /\ last.src \in Nat
      /\ r.gen \in Nat /\ r.src \in Nat
  BY <1>1, ChangeLogAssumption DEF Pending, Window, TypeOK, Row
<1>4. IF q.mode = "resume" THEN Before(q, r) ELSE r.gen > Lower(q)
  <2>1. CASE q.mode = "resume"
    <3>1. Before(q, last) /\ q.gen \in Nat /\ q.src \in Nat
      BY <2>1 DEF Pending, Window, Request
    <3> QED
      BY <1>1, <1>3, <2>1, <3>1 DEF Before
  <2>2. CASE q.mode # "resume"
    <3>1. last.gen > Lower(q) /\ Lower(q) \in Nat \cup {-1}
      BY <2>2 DEF Pending, Window, Lower, Request
    <3> QED
      BY <1>1, <1>3, <2>2, <3>1 DEF Before
  <2> QED
    BY <2>1, <2>2
<1> QED
  BY <1>1, <1>2, <1>4 DEF Pending, Window

\* The server's answer leaves room for the rest of the read.
LEMMA ServeWithin ==
    ASSUME TypeOK, TablesAgree, CountersAgree, NEW r \in Readers, Serve(r), Within(from[r])
    PROVE  /\ \A x \in Readers \ {r} : reply'[x] = reply[x]
           /\ Within(reply'[r].next)
           /\ (~reply'[r].resync /\ from[r].mode = "resume") =>
                 from[r].served + Cardinality(reply'[r].rows) <= from[r].total
<1> DEFINE q == from[r]
<1>1. q \in Request /\ epoch # 0 /\ reply \in [Readers -> Reply] /\ q.served \in Nat
  BY DEF TypeOK, Serve, Request
<1>2. CASE Unanswerable(q)
  <2>1. reply' = [reply EXCEPT ![r] = [sent |-> TRUE, resync |-> TRUE,
                                       rows |-> {}, next |-> StartOver]]
    BY <1>2 DEF Serve
  <2> QED
    BY <1>1, <2>1 DEF Within, StartOver
<1>3. CASE ~Unanswerable(q)
  <2>1. PICK page \in SUBSET Pending(q) :
          IF page = Pending(q)
          THEN reply' = [reply EXCEPT ![r] = [sent |-> TRUE, resync |-> FALSE, rows |-> page,
                                              next |-> Since(epoch, Until(q))]]
          ELSE \E last \in page :
                 /\ \A s \in page : ~Before(last, s)
                 /\ reply' = [reply EXCEPT ![r] =
                            [sent |-> TRUE, resync |-> FALSE, rows |-> page,
                             next |-> [mode |-> "resume", epoch |-> epoch,
                                       since |-> Lower(q), until |-> Until(q),
                                       total |-> Total(q), gen |-> last.gen, src |-> last.src,
                                       served |-> q.served + Cardinality(page)]]]
    BY <1>3 DEF Serve
  <2>2. /\ IsFiniteSet(Pending(q)) /\ Cardinality(Pending(q)) \in Nat
        /\ IsFiniteSet(page) /\ Cardinality(page) \in Nat
        /\ Cardinality(page) <= Cardinality(Pending(q))
    BY CountPending, FS_Subset, FS_CardinalityType
  <2>3. /\ q.served + Cardinality(Pending(q)) <= Total(q)
        /\ Until(q) \in Nat /\ Until(q) <= generation /\ Total(q) \in Nat
    BY <1>1, <1>3, TotalCovers
  <2>4. q.mode = "resume" => q.served + Cardinality(page) <= q.total
    BY <1>1, <2>2, <2>3 DEF Total
  <2>5. CASE page = Pending(q)
    <3>1. reply'[r] = [sent |-> TRUE, resync |-> FALSE, rows |-> page,
                       next |-> Since(epoch, Until(q))]
          /\ \A x \in Readers \ {r} : reply'[x] = reply[x]
      BY <1>1, <2>1, <2>5
    <3> QED
      BY <2>4, <3>1 DEF Within, Since
  <2>6. CASE page # Pending(q)
    <3>1. PICK last \in page :
                 /\ \A s \in page : ~Before(last, s)
                 /\ reply' = [reply EXCEPT ![r] =
                            [sent |-> TRUE, resync |-> FALSE, rows |-> page,
                             next |-> [mode |-> "resume", epoch |-> epoch,
                                       since |-> Lower(q), until |-> Until(q),
                                       total |-> Total(q), gen |-> last.gen, src |-> last.src,
                                       served |-> q.served + Cardinality(page)]]]
      BY <2>1, <2>6
    <3> DEFINE next == [mode |-> "resume", epoch |-> epoch,
                        since |-> Lower(q), until |-> Until(q),
                        total |-> Total(q), gen |-> last.gen, src |-> last.src,
                        served |-> q.served + Cardinality(page)]
    <3>2. reply'[r] = [sent |-> TRUE, resync |-> FALSE, rows |-> page, next |-> next]
          /\ \A x \in Readers \ {r} : reply'[x] = reply[x]
      BY <1>1, <3>1
    <3>3. next \in Request
      <4>1. reply'[r] \in Reply
        BY ServeType
      <4>2. reply'[r].next = next
        BY <3>2
      <4> HIDE DEF next
      <4> QED
        BY <4>1, <4>2 DEF Reply
    <3>4. /\ next.mode = "resume" /\ next.epoch = epoch /\ next.since = Lower(q)
          /\ next.until = Until(q) /\ next.total = Total(q) /\ next.gen = last.gen
          /\ next.src = last.src /\ next.served = q.served + Cardinality(page)
      OBVIOUS
    <3> HIDE DEF next
    <3>5. Pending(next) \subseteq Pending(q) \ page
      BY <1>1, <3>1, <3>3, <3>4, PageLeaves
    <3>6. Cardinality(Pending(next)) + Cardinality(page) <= Cardinality(Pending(q))
          /\ Cardinality(Pending(next)) \in Nat
      <4>1. IsFiniteSet(Pending(q) \ page) /\
            Cardinality(Pending(q) \ page)
              = Cardinality(Pending(q)) - Cardinality(Pending(q) \cap page)
        BY <2>2, FS_Difference
      <4>2. Pending(q) \cap page = page
        OBVIOUS
      <4>3. Cardinality(Pending(next)) <= Cardinality(Pending(q) \ page)
            /\ Cardinality(Pending(next)) \in Nat
        BY <3>5, <4>1, FS_Subset, CountPending
      <4> QED
        BY <2>2, <4>1, <4>2, <4>3
    <3>7. Within(next)
      BY <1>1, <2>2, <2>3, <3>4, <3>6 DEF Within, TypeOK
    <3> QED
      BY <2>4, <3>2, <3>7
  <2> QED
    BY <2>5, <2>6
<1> QED
  BY <1>2, <1>3

\* Every step leaves every read the room its total promises.
LEMMA RoomStep ==
    ASSUME TypeOK, TablesAgree, CountersAgree, PagesWithin, [Next]_vars
    PROVE  PagesWithin'
<1> SUFFICES ASSUME NEW x \in Readers
             PROVE  /\ Within(from[x])'
                    /\ (reply[x].sent)' =>
                         /\ Within(reply[x].next)'
                         /\ (~reply[x].resync /\ from[x].mode = "resume")' =>
                               (from[x].served + Cardinality(reply[x].rows) <= from[x].total)'
  BY DEF PagesWithin
<1>1. PICK q \in Request : q = from[x]
  BY DEF TypeOK
<1>2. PICK n \in Request : n = reply[x].next
  BY DEF TypeOK, Reply
<1>3. /\ Within(q)
      /\ reply[x].sent =>
           /\ Within(n)
           /\ (~reply[x].resync /\ q.mode = "resume") =>
                 q.served + Cardinality(reply[x].rows) <= q.total
  BY <1>1, <1>2 DEF PagesWithin
<1>4. Within(q)' /\ (reply[x].sent => Within(n)')
  BY <1>3, LogKeepsWithin
<1>5. CASE from'[x] = from[x] /\ reply'[x] = reply[x]
  <2>1. q = from'[x] /\ n = reply'[x].next
    BY <1>1, <1>2, <1>5
  <2> QED
    BY <1>1, <1>3, <1>4, <1>5, <2>1
<1>6. CASE from'[x] = from[x] /\ ~reply'[x].sent
  <2>1. q = from'[x]
    BY <1>1, <1>6
  <2> QED
    BY <1>4, <1>6, <2>1
<1>7. CASE from'[x] = reply[x].next /\ reply[x].sent /\ ~reply'[x].sent
  <2>1. n = from'[x]
    BY <1>2, <1>7
  <2> QED
    BY <1>4, <1>7, <2>1
<1>8. CASE Serve(x)
  <2>1. from' = from /\ UNCHANGED logVars /\ q = from'[x]
    BY <1>1, <1>8 DEF Serve
  <2>2. PICK m \in Request : m = reply'[x].next
    <3>1. reply' \in [Readers -> Reply]
      BY <1>8, ServeType
    <3> QED
      BY <3>1 DEF Reply
  <2>3. /\ Within(m)
        /\ (~reply'[x].resync /\ q.mode = "resume") =>
              q.served + Cardinality(reply'[x].rows) <= q.total
    BY <1>1, <1>3, <1>8, <2>2, ServeWithin
  <2>4. Within(m)'
    BY <2>3, LogKeepsWithin
  <2> QED
    BY <1>4, <2>1, <2>2, <2>3, <2>4
<1>9. ASSUME NEW r \in Readers, Serve(r) \/ Apply(r) \/ Lose(r)
      PROVE  \/ from'[x] = from[x] /\ reply'[x] = reply[x]
             \/ from'[x] = from[x] /\ ~reply'[x].sent
             \/ from'[x] = reply[x].next /\ reply[x].sent /\ ~reply'[x].sent
             \/ Serve(x)
  <2>1. CASE Serve(r)
    <3>1. from' = from /\ \A y \in Readers \ {r} : reply'[y] = reply[y]
      BY <2>1, ServeWithin DEF Serve, PagesWithin
    <3> QED
      BY <2>1, <3>1
  <2>2. CASE Apply(r)
    BY <2>2 DEF Apply, TypeOK, NoReply
  <2>3. CASE Lose(r)
    BY <2>3 DEF Lose, TypeOK, NoReply
  <2> QED
    BY <1>9, <2>1, <2>2, <2>3
<1>10. ASSUME UNCHANGED readerVars
       PROVE  from'[x] = from[x] /\ reply'[x] = reply[x]
  BY <1>10 DEF readerVars
<1> QED
  BY <1>5, <1>6, <1>7, <1>8, <1>9, <1>10 DEF Next, RecordListing, RecordEdits, Reset, vars

\* What is counted is what is there, the total of every paged read included: no
\* read serves more than it said it would, whatever passes ran between its pages
\* (library_changes.rs, read and record_in).
THEOREM CountsCorrect == Spec => []CountsHold
<1>1. Init => PagesWithin
  BY DEF Init, PagesWithin, Within, StartOver, NoReply
<1>2. TypeOK /\ Bookkeeping /\ PagesWithin /\ [Next]_vars => PagesWithin'
  BY RoomStep DEF Bookkeeping
<1>3. TypeOK /\ TablesAgree /\ PagesWithin => ProgressWithinTotal
  <2> SUFFICES ASSUME TypeOK, TablesAgree, PagesWithin, NEW r \in Readers,
                      reply[r].sent, ~reply[r].resync
               PROVE  /\ reply[r].next.mode = "resume" =>
                           reply[r].next.served <= reply[r].next.total
                      /\ from[r].mode = "resume" =>
                           from[r].served + Cardinality(reply[r].rows) <= from[r].total
    BY DEF ProgressWithinTotal
  <2> QED
    BY DEF PagesWithin, Within
<1> QED
  BY <1>1, <1>2, <1>3, TypeCorrect, TablesCorrect, CountersCorrect, PTL DEF Spec, CountsHold

-----------------------------------------------------------------------------
(***************************************************************************)
(* ChangeLog implements Replica, for any library, readers, page size and   *)
(* bound on remembered deletes.                                            *)
(*                                                                         *)
(* A pass maps to Change, a page that is applied to Learn, a page that     *)
(* says resync to StartOver, and a page served or lost to a stutter.  That *)
(* a page which is applied late unsettles nothing needs two facts of the   *)
(* pages in flight, beside what ChangeLogProofs says of the copies: the    *)
(* request a page leads to is further along than the one it answers, and   *)
(* no row of it is newer than what the log holds now.                      *)
(***************************************************************************)
Library == [p \in Paths |-> IF known[p].live THEN known[p].gen ELSE 0]

\* n is asked after q has been answered.
Follows(q, n) ==
    /\ n.mode # "start"
    /\ q.mode # "start" =>
         /\ n.epoch = q.epoch
         /\ n.mode = "since" => n.since >= (IF q.mode = "resume" THEN q.until ELSE q.since)
         /\ n.mode = "resume" =>
              /\ n.since = q.since
              /\ q.mode = "since" => n.until >= q.since
              /\ q.mode = "resume" => n.until = q.until /\ Before(q, n)

PagesFollow ==
    \A r \in Readers :
        reply[r].sent => IF reply[r].resync THEN reply[r].next.mode = "start"
                                            ELSE Follows(from[r], reply[r].next)

\* No row of a page is ahead of the log it came from.
RowsKnown(rows) ==
    \A c \in rows : c.gen <= generation /\ (known[c.src].gen > 0 => c.gen <= known[c.src].gen)

PagesKnown ==
    \A r \in Readers :
        (reply[r].sent /\ ~reply[r].resync /\ epoch # 0 /\ reply[r].next.epoch = epoch) =>
            RowsKnown(reply[r].rows)

RInv == TypeOK /\ TablesAgree /\ CopiesExact /\ PagesFollow /\ PagesKnown

-----------------------------------------------------------------------------
(* The pages in flight. *)

\* A page is built from the log as it is, and the request it leads to is further
\* along (library_changes.rs, read).
LEMMA ServedPage ==
    ASSUME TypeOK, TablesAgree, NEW r \in Readers, Serve(r)
    PROVE  /\ \A x \in Readers \ {r} : reply'[x] = reply[x]
           /\ reply'[r].resync => reply'[r].next.mode = "start"
           /\ ~reply'[r].resync => Follows(from[r], reply'[r].next) /\ RowsKnown(reply'[r].rows)
<1> DEFINE q == from[r]
<1>1. q \in Request /\ reply \in [Readers -> Reply] /\ generation \in Nat
  BY DEF TypeOK
<1>2. CASE Unanswerable(q)
  BY <1>1, <1>2 DEF Serve, StartOver
<1>3. CASE ~Unanswerable(q)
  <2>1. PICK page \in SUBSET Pending(q) :
          IF page = Pending(q)
          THEN reply' = [reply EXCEPT ![r] = [sent |-> TRUE, resync |-> FALSE, rows |-> page,
                                              next |-> Since(epoch, Until(q))]]
          ELSE \E last \in page :
                 reply' = [reply EXCEPT ![r] =
                            [sent |-> TRUE, resync |-> FALSE, rows |-> page,
                             next |-> [mode |-> "resume", epoch |-> epoch,
                                       since |-> Lower(q), until |-> Until(q),
                                       total |-> Total(q), gen |-> last.gen, src |-> last.src,
                                       served |-> q.served + Cardinality(page)]]]
    BY <1>3 DEF Serve
  <2>2. page \subseteq Window(q) /\ page \subseteq RowsOf(known)
    BY DEF Pending, Window, TablesAgree
  <2>3. RowsKnown(page)
    BY <2>2, RowsOfMember DEF RowsKnown, TypeOK, TablesAgree, Row
  <2>4. q.mode # "start" => q.epoch = epoch
    BY <1>3 DEF Unanswerable
  <2>5. q.mode = "since" => q.since \in Nat /\ q.since <= generation
    BY <1>1, <1>3 DEF Unanswerable, Lower, Request
  <2>6. CASE page = Pending(q)
    <3>1. reply'[r].next = Since(epoch, Until(q)) /\ reply'[r].rows = page /\ ~reply'[r].resync
          /\ \A x \in Readers \ {r} : reply'[x] = reply[x]
      BY <1>1, <2>1, <2>6
    <3>2. Follows(q, Since(epoch, Until(q)))
      BY <1>1, <2>4, <2>5 DEF Follows, Since, Until, Request
    <3> QED
      BY <2>3, <3>1, <3>2
  <2>7. CASE page # Pending(q)
    <3>1. PICK last \in page :
                 reply' = [reply EXCEPT ![r] =
                            [sent |-> TRUE, resync |-> FALSE, rows |-> page,
                             next |-> [mode |-> "resume", epoch |-> epoch,
                                       since |-> Lower(q), until |-> Until(q),
                                       total |-> Total(q), gen |-> last.gen, src |-> last.src,
                                       served |-> q.served + Cardinality(page)]]]
      BY <2>1, <2>7
    <3> DEFINE next == [mode |-> "resume", epoch |-> epoch, since |-> Lower(q), until |-> Until(q),
                        total |-> Total(q), gen |-> last.gen, src |-> last.src,
                        served |-> q.served + Cardinality(page)]
    <3>2. reply'[r].next = next /\ reply'[r].rows = page /\ ~reply'[r].resync
          /\ \A x \in Readers \ {r} : reply'[x] = reply[x]
      BY <1>1, <3>1
    <3>3. q.mode = "resume" => Before(q, last)
      BY <2>2 DEF Window
    <3>4. Follows(q, next)
      BY <1>1, <2>4, <2>5, <3>3 DEF Follows, Lower, Until, Before, Request
    <3> HIDE DEF next
    <3> QED
      BY <2>3, <3>2, <3>4
  <2> QED
    BY <2>6, <2>7
<1> QED
  BY <1>2, <1>3

\* What a pass does to the log: it files changes of its own generation, and a
\* track it both removes and forgets raises the floor to that generation.
LEMMA PassEffect ==
    ASSUME TypeOK, TablesAgree,
           \/ \E listing, updated \in SUBSET Paths : RecordListing(listing, updated)
           \/ \E updated \in SUBSET Paths : RecordEdits(updated)
    PROVE  /\ UNCHANGED readerVars
           /\ epoch' = epoch \/ (epoch = 0 /\ epoch' = epochsUsed + 1)
           /\ generation' \in {generation, generation + 1} /\ floor <= floor'
           /\ \A p \in Paths :
                \/ known'[p] = known[p]
                \/ generation' = generation + 1 /\ known'[p].gen = generation'
                \/ /\ generation' = generation + 1 /\ known'[p] = NoRow
                   /\ ~known[p].live \/ floor' = generation'
<1> DEFINE Effect ==
             /\ generation' \in {generation, generation + 1} /\ floor <= floor'
             /\ \A p \in Paths :
                  \/ known'[p] = known[p]
                  \/ generation' = generation + 1 /\ known'[p].gen = generation'
                  \/ /\ generation' = generation + 1 /\ known'[p] = NoRow
                     /\ ~known[p].live \/ floor' = generation'
<1>1. ASSUME NEW added \in SUBSET Paths, added \cap LivePaths = {},
             NEW edited \in SUBSET LivePaths, NEW removed \in SUBSET LivePaths,
             File(added, edited, removed)
      PROVE  Effect
  <2>1. /\ generation' = generation + 1 /\ floor <= floor'
        /\ \A p \in Paths :
             \/ known'[p] = known[p]
             \/ known'[p].gen = generation + 1
             \/ /\ known'[p] = NoRow
                /\ (~known[p].live /\ known[p].gen <= floor') \/ floor' = generation + 1
    BY <1>1, FileEffect
  <2> QED
    BY <2>1
<1>2. ASSUME NEW listing \in SUBSET Paths, NEW updated \in SUBSET Paths,
             RecordListing(listing, updated)
      PROVE  UNCHANGED readerVars /\ (epoch' = epoch \/ (epoch = 0 /\ epoch' = epochsUsed + 1)) /\ Effect
  <2>1. UNCHANGED readerVars /\ (epoch' = epoch \/ (epoch = 0 /\ epoch' = epochsUsed + 1))
    BY <1>2 DEF RecordListing
  <2>2. CASE Added(listing) \cup Removed(listing) \cup Edited(updated) = {}
    BY <1>2, <2>1, <2>2 DEF RecordListing, TypeOK
  <2>3. CASE Added(listing) \cup Removed(listing) \cup Edited(updated) # {}
    <3>1. /\ Added(listing) \in SUBSET Paths /\ Added(listing) \cap LivePaths = {}
          /\ Edited(updated) \in SUBSET LivePaths /\ Removed(listing) \in SUBSET LivePaths
          /\ File(Added(listing), Edited(updated), Removed(listing))
      BY <1>2, <2>3 DEF Added, Edited, Removed, RecordListing
    <3> HIDE DEF Effect
    <3> QED
      BY <1>1, <2>1, <3>1
  <2> QED
    BY <2>2, <2>3
<1>3. ASSUME NEW updated \in SUBSET Paths, RecordEdits(updated)
      PROVE  UNCHANGED readerVars /\ epoch' = epoch /\ Effect
  <2>1. /\ {} \in SUBSET Paths /\ {} \cap LivePaths = {} /\ {} \in SUBSET LivePaths
        /\ Edited(updated) \in SUBSET LivePaths /\ File({}, Edited(updated), {})
        /\ UNCHANGED readerVars /\ epoch' = epoch
    BY <1>3 DEF Edited, RecordEdits
  <2> HIDE DEF Effect
  <2> QED
    BY <1>1, <2>1
<1> QED
  BY <1>2, <1>3

\* A page stays no newer than the log, and an epoch that begins is named by none.
LEMMA LogKeepsPages ==
    ASSUME TypeOK, TablesAgree, CopiesExact, PagesKnown,
           \/ \E listing, updated \in SUBSET Paths : RecordListing(listing, updated)
           \/ \E updated \in SUBSET Paths : RecordEdits(updated)
           \/ Reset
    PROVE  PagesKnown'
<1> SUFFICES ASSUME NEW r \in Readers, reply'[r].sent, ~reply'[r].resync,
                    epoch' # 0, reply'[r].next.epoch = epoch'
             PROVE  RowsKnown(reply[r].rows)'
  BY DEF PagesKnown
<1>1. ~Reset
  BY DEF Reset
<1>2. /\ reply' = reply
      /\ epoch' = epoch \/ (epoch = 0 /\ epoch' = epochsUsed + 1)
      /\ generation' \in {generation, generation + 1}
      /\ \A p \in Paths :
           \/ known'[p] = known[p]
           \/ generation' = generation + 1 /\ known'[p].gen = generation'
           \/ known'[p] = NoRow
  BY <1>1, PassEffect DEF readerVars
<1>3. reply[r].rows \in SUBSET Row /\ reply[r].next.epoch <= epochsUsed
      /\ reply[r].next.epoch \in Nat /\ epochsUsed \in Nat /\ generation \in Nat
  BY <1>2 DEF TypeOK, Reply, Request, CopiesExact, CopyMatches
<1>4. epoch' = epoch
  BY <1>2, <1>3
<1>5. RowsKnown(reply[r].rows)
  BY <1>2, <1>4 DEF PagesKnown
<1>6. SUFFICES ASSUME NEW c \in reply[r].rows
               PROVE  c.gen <= generation' /\ (known'[c.src].gen > 0 => c.gen <= known'[c.src].gen)
  BY <1>2 DEF RowsKnown
<1>7. c.src \in Paths /\ c.gen \in Nat /\ known[c.src].gen \in Nat
      /\ c.gen <= generation /\ (known[c.src].gen > 0 => c.gen <= known[c.src].gen)
  BY <1>3, <1>5 DEF RowsKnown, Row, TypeOK
<1> QED
  BY <1>2, <1>3, <1>7 DEF NoRow

\* A page in flight follows the request it answers and tells nothing the log does not hold.
LEMMA PagesStep ==
    ASSUME TypeOK, TablesAgree, CopiesExact, PagesFollow, PagesKnown, [Next]_vars
    PROVE  PagesFollow' /\ PagesKnown'
<1>1. CASE \/ \E listing, updated \in SUBSET Paths : RecordListing(listing, updated)
           \/ \E updated \in SUBSET Paths : RecordEdits(updated)
           \/ Reset
  <2>1. UNCHANGED readerVars
    BY <1>1 DEF RecordListing, RecordEdits, Reset
  <2> QED
    BY <1>1, <2>1, LogKeepsPages DEF PagesFollow, readerVars
<1>2. ASSUME NEW r \in Readers, Serve(r)
      PROVE  PagesFollow' /\ PagesKnown'
  <2>1. from' = from /\ generation' = generation /\ known' = known /\ epoch' = epoch
    BY <1>2 DEF Serve, logVars
  <2> QED
    BY <1>2, <2>1, ServedPage DEF PagesFollow, PagesKnown, RowsKnown
<1>3. ASSUME NEW r \in Readers, Apply(r) \/ Lose(r)
      PROVE  PagesFollow' /\ PagesKnown'
  <2>1. /\ ~reply'[r].sent
        /\ \A x \in Readers \ {r} : reply'[x] = reply[x] /\ from'[x] = from[x]
        /\ UNCHANGED logVars
    BY <1>3 DEF Apply, Lose, NoReply, TypeOK
  <2> QED
    BY <2>1 DEF PagesFollow, PagesKnown, RowsKnown, logVars
<1>4. CASE UNCHANGED vars
  BY <1>4 DEF PagesFollow, PagesKnown, RowsKnown, vars, logVars, readerVars
<1> QED
  BY <1>1, <1>2, <1>3, <1>4 DEF Next

-----------------------------------------------------------------------------
(* The steps of the log are steps of Replica. *)

\* What a reader has settled is the library's (CopiesExact, of paths walked).
LEMMA SettledRight ==
    ASSUME TypeOK, TablesAgree, CopiesExact, NEW r \in Readers, NEW p \in Settled(r)
    PROVE  p \in Paths /\ copy[r][p] = Library[p]
<1> DEFINE q == from[r]
<1>1. /\ q.mode # "start" /\ q.epoch = epoch /\ epoch # 0 /\ floor <= Horizon(q)
      /\ p \in Paths /\ Walked(q, p)
  BY DEF Settled
<1>2. /\ known[p].gen = 0 => copy[r][p] = 0
      /\ known[p].gen > 0 => copy[r][p] = (IF known[p].live THEN known[p].gen ELSE 0)
  BY <1>1 DEF CopiesExact, CopyMatches
<1>3. known[p].gen \in Nat /\ (known[p].live => known[p].gen > 0)
  BY <1>1 DEF TypeOK, TablesAgree
<1> QED
  BY <1>1, <1>2, <1>3 DEF Library

AllSettledRight == \A r \in Readers : \A p \in Settled(r) : p \in Paths /\ copy[r][p] = Library[p]

\* The same of the next state.
LEMMA SettledRightNext == (TypeOK /\ TablesAgree /\ CopiesExact => AllSettledRight)'
<1>1. TypeOK /\ TablesAgree /\ CopiesExact => AllSettledRight
  BY SettledRight DEF AllSettledRight
<1> QED
  BY <1>1, PTL

\* A track that changes is settled for nobody: its change is of a generation no
\* read has reached, or has raised the floor over them all.
LEMMA ChangedUnsettled ==
    ASSUME TypeOK, TablesAgree, CopiesExact,
           \/ \E listing, updated \in SUBSET Paths : RecordListing(listing, updated)
           \/ \E updated \in SUBSET Paths : RecordEdits(updated)
           \/ Reset,
           NEW r \in Readers, NEW p \in Paths, Library'[p] # Library[p]
    PROVE  p \notin Settled(r)'
<1> DEFINE q == from[r]
<1>1. SUFFICES ASSUME p \in Settled(r)'
               PROVE  FALSE
  OBVIOUS
<1>2. from' = from
  BY DEF RecordListing, RecordEdits, Reset, readerVars
<1>3. /\ q.mode # "start" /\ q.epoch = epoch' /\ epoch' # 0 /\ floor' <= Horizon(q)
      /\ Walked(q, p)'
  BY <1>1, <1>2 DEF Settled, Horizon
<1>4. /\ epoch' = epoch \/ (epoch = 0 /\ epoch' = epochsUsed + 1)
      /\ floor <= floor'
      /\ \/ known'[p] = known[p]
         \/ generation' = generation + 1 /\ known'[p].gen = generation'
         \/ /\ generation' = generation + 1 /\ known'[p] = NoRow
            /\ ~known[p].live \/ floor' = generation'
  BY <1>3, PassEffect DEF Reset
<1>5. q \in Request /\ floor \in Nat /\ floor' \in Nat /\ generation \in Nat
      /\ epochsUsed \in Nat /\ Horizon(q) \in Nat /\ q.epoch <= epochsUsed
  BY <1>3, TypeStep DEF TypeOK, CopiesExact, CopyMatches, Request, Horizon, Next
<1>6. epoch' = epoch
  BY <1>3, <1>4, <1>5
<1>7. Horizon(q) <= q.until /\ q.until <= generation
  BY <1>3, <1>4, <1>5, <1>6 DEF CopiesExact, CopyMatches
<1>8. CASE known'[p] = known[p]
  BY <1>8 DEF Library
<1>9. CASE generation' = generation + 1 /\ known'[p].gen = generation'
  <2>1. known'[p].gen <= q.until \/ known'[p].gen <= Horizon(q)
    BY <1>2, <1>3 DEF Walked, Horizon
  <2> QED
    BY <1>5, <1>7, <1>9, <2>1 DEF Request
<1>10. CASE generation' = generation + 1 /\ known'[p] = NoRow /\ (~known[p].live \/ floor' = generation')
  <2>1. known[p].live
    BY <1>10 DEF Library, NoRow
  <2> QED
    BY <1>3, <1>5, <1>7, <1>10, <2>1 DEF Request
<1> QED
  BY <1>4, <1>8, <1>9, <1>10

\* What the log files is a change of the abstract library.
LEMMA ChangeStep ==
    ASSUME TypeOK, TablesAgree, CopiesExact,
           \/ \E listing, updated \in SUBSET Paths : RecordListing(listing, updated)
           \/ \E updated \in SUBSET Paths : RecordEdits(updated)
           \/ Reset
    PROVE  Copies!Change
<1>1. copy' = copy
  BY DEF RecordListing, RecordEdits, Reset, readerVars
<1>2. TypeOK' /\ TablesAgree' /\ CopiesExact'
  BY TypeStep, TablesStep, CopiesStep DEF Next
<1>3. \A r \in Readers : \A p \in Settled(r)' : p \in Paths /\ copy'[r][p] = Library'[p]
  BY <1>2, SettledRightNext DEF AllSettledRight
<1>4. \A r \in Readers : \A p \in Paths : Library'[p] # Library[p] => p \notin Settled(r)'
  BY ChangedUnsettled
<1> QED
  BY <1>1, <1>3, <1>4 DEF Copies!Change, Copies!Agrees, Library

\* A read goes on from what it has settled.
LEMMA SettledStays ==
    ASSUME TypeOK, CopiesExact, NEW q \in Request, NEW n \in Request, Follows(q, n),
           NEW held, CopyMatches(q, held),
           q.mode # "start", q.epoch = epoch, epoch # 0, floor <= Horizon(q),
           NEW p \in Paths, Walked(q, p)
    PROVE  n.mode # "start" /\ n.epoch = epoch /\ floor <= Horizon(n) /\ Walked(n, p)
<1> DEFINE g == known[p].gen
<1>1. g \in Nat /\ p \in Nat /\ floor \in Nat
  BY ChangeLogAssumption DEF TypeOK
<1>2. Horizon(q) <= q.until
  BY DEF CopyMatches
<1>3. n.mode # "start" /\ n.epoch = epoch
  BY DEF Follows
<1>4. CASE n.mode = "since"
  BY <1>1, <1>2, <1>4 DEF Follows, Horizon, Walked, Request
<1>5. CASE n.mode = "resume" /\ q.mode = "since"
  BY <1>1, <1>2, <1>5 DEF Follows, Horizon, Walked, Request
<1>6. CASE n.mode = "resume" /\ q.mode = "resume"
  <2>1. n.since = q.since /\ n.until = q.until /\ Before(q, n)
    BY <1>6 DEF Follows
  <2>2. ~Before(q, [gen |-> g, src |-> p]) => ~Before(n, [gen |-> g, src |-> p])
    BY <1>1, <2>1 DEF Before, Request
  <2>3. Horizon(n) = Horizon(q)
    BY <1>6, <2>1 DEF Horizon
  <2>4. Walked(n, p)
    BY <1>6, <2>1, <2>2 DEF Walked
  <2> QED
    BY <1>3, <2>3, <2>4
<1> QED
  BY <1>3, <1>4, <1>5, <1>6 DEF Request

\* A page never tells of a version the track has not had (RowsKnown).
LEMMA ToldVersions ==
    ASSUME TypeOK, TablesAgree, NEW rows \in SUBSET Row, RowsKnown(rows),
           NEW held \in [Paths -> Nat], NEW p \in Paths, Applied(held, rows)[p] # held[p]
    PROVE  Applied(held, rows)[p] <= Library[p] \/ Library[p] = 0
<1>1. known[p].gen \in Nat /\ Library[p] = (IF known[p].live THEN known[p].gen ELSE 0)
      /\ (known[p].live => known[p].gen > 0)
  BY DEF TypeOK, TablesAgree, Library
<1>2. CASE \E c \in rows : c.src = p /\ c.live
  <2>1. PICK d : d = (CHOOSE c \in rows : c.src = p /\ c.live)
    OBVIOUS
  <2>2. d \in rows /\ d.src = p
    BY <1>2, <2>1
  <2>3. Applied(held, rows)[p] = d.gen
    BY <1>2, <2>1 DEF Applied
  <2> QED
    BY <1>1, <2>2, <2>3 DEF RowsKnown
<1>3. CASE ~\E c \in rows : c.src = p /\ c.live
  BY <1>1, <1>3 DEF Applied
<1> QED
  BY <1>2, <1>3

\* An answer that is applied teaches its reader, or starts it over.
LEMMA ApplyStep ==
    ASSUME RInv, NEW r \in Readers, Apply(r)
    PROVE  Copies!Learn(r) \/ Copies!StartOver(r)
<1> DEFINE q == from[r]
           n == reply[r].next
           rows == reply[r].rows
<1>1. /\ reply[r].sent /\ UNCHANGED logVars /\ from'[r] = n
      /\ \A o \in Readers \ {r} : from'[o] = from[o] /\ copy'[o] = copy[o]
      /\ q \in Request /\ n \in Request /\ rows \in SUBSET Row /\ copy[r] \in [Paths -> Nat]
      /\ copy'[r] = IF reply[r].resync THEN [p \in Paths |-> 0] ELSE Applied(copy[r], rows)
  BY DEF Apply, RInv, TypeOK, Reply
<1>2. /\ Library' = Library
      /\ \A o \in Readers \ {r} : Settled(o)' = Settled(o)
      /\ Settled(r)' = IF n.mode # "start" /\ n.epoch = epoch /\ epoch # 0 /\ floor <= Horizon(n)
                       THEN {p \in Paths : Walked(n, p)} ELSE {}
  BY <1>1 DEF Library, Settled, Walked, Horizon, logVars
<1>3. CASE reply[r].resync
  <2>1. Settled(r)' = {}
    BY <1>1, <1>2, <1>3 DEF RInv, PagesFollow
  <2>2. copy' = [copy EXCEPT ![r] = [p \in Paths |-> 0]]
    BY <1>3 DEF Apply
  <2>3. [o \in Readers |-> Settled(o)]' = [[o \in Readers |-> Settled(o)] EXCEPT ![r] = {}]
    BY <1>2, <2>1
  <2> QED
    BY <1>2, <2>2, <2>3 DEF Copies!StartOver, Copies!Nothing, Library
<1>4. CASE ~reply[r].resync
  <2>1. Follows(q, n) /\ CopyMatches(q, copy[r])
    BY <1>1, <1>4 DEF RInv, PagesFollow, CopiesExact
  <2>2. Settled(r) \subseteq Settled(r)'
    <3> SUFFICES ASSUME NEW p \in Settled(r) PROVE p \in Settled(r)'
      OBVIOUS
    <3>1. /\ q.mode # "start" /\ q.epoch = epoch /\ epoch # 0 /\ floor <= Horizon(q)
          /\ p \in Paths /\ Walked(q, p)
      BY DEF Settled
    <3>2. n.mode # "start" /\ n.epoch = epoch /\ floor <= Horizon(n) /\ Walked(n, p)
      BY <1>1, <2>1, <3>1, SettledStays DEF RInv
    <3> QED
      BY <1>2, <3>1, <3>2
  <2>3. \A p \in Settled(r)' : copy'[r][p] = Library'[p]
    <3>1. TypeOK' /\ TablesAgree' /\ CopiesExact'
      BY TypeStep, TablesStep, CopiesStep DEF RInv, Next
    <3> QED
      BY <3>1, SettledRightNext DEF AllSettledRight
  <2>4. Settled(r)' # {} =>
            \A p \in Paths : copy'[r][p] # copy[r][p] => copy'[r][p] <= Library[p] \/ Library[p] = 0
    <3> SUFFICES ASSUME Settled(r)' # {}, NEW p \in Paths, copy'[r][p] # copy[r][p]
                 PROVE  copy'[r][p] <= Library[p] \/ Library[p] = 0
      OBVIOUS
    <3>1. RowsKnown(rows)
      BY <1>1, <1>2, <1>4 DEF RInv, PagesKnown
    <3> QED
      BY <1>1, <1>4, <3>1, ToldVersions DEF RInv
  <2> QED
    BY <1>1, <1>2, <2>2, <2>3, <2>4 DEF Copies!Learn, Copies!Agrees, Library
<1> QED
  BY <1>3, <1>4

-----------------------------------------------------------------------------
(* The theorem. *)

\* The log, its cursors and its pages implement Replica: every pass, page, lost
\* page and resync is a step it allows or changes nothing it sees.
THEOREM Refines == Spec => ImplementsReplica
<1>1. Init => RInv /\ Copies!Init
  <2> SUFFICES ASSUME Init PROVE RInv /\ Copies!Init
    OBVIOUS
  <2>1. TypeOK /\ TablesAgree
    BY InitTables
  <2>2. CopiesExact /\ PagesFollow /\ PagesKnown
    BY DEF Init, CopiesExact, CopyMatches, PagesFollow, PagesKnown, StartOver, NoReply
  <2>3. Copies!Init
    BY DEF Init, Copies!Init, Copies!Nothing, Settled, StartOver, NoRow
  <2> QED
    BY <2>1, <2>2, <2>3 DEF RInv
<1>2. RInv /\ [Next]_vars => RInv'
  BY TypeStep, TablesStep, CopiesStep, PagesStep DEF RInv
<1>3. RInv /\ [Next]_vars => [Copies!Next]_(Copies!vars)
  <2> SUFFICES ASSUME RInv, [Next]_vars PROVE [Copies!Next]_(Copies!vars)
    OBVIOUS
  <2>1. CASE \/ \E listing, updated \in SUBSET Paths : RecordListing(listing, updated)
             \/ \E updated \in SUBSET Paths : RecordEdits(updated)
             \/ Reset
    BY <2>1, ChangeStep DEF RInv, Copies!Next
  <2>2. ASSUME NEW r \in Readers, Apply(r) PROVE Copies!Next
    BY <2>2, ApplyStep DEF Copies!Next
  <2>3. ASSUME NEW r \in Readers, Serve(r) \/ Lose(r) PROVE UNCHANGED Copies!vars
    BY <2>3 DEF Serve, Lose, logVars, Copies!vars, Settled, Walked, Horizon
  <2>4. CASE UNCHANGED vars
    BY <2>4 DEF vars, logVars, readerVars, Copies!vars, Settled, Walked, Horizon
  <2> QED
    BY <2>1, <2>2, <2>3, <2>4 DEF Next
<1> QED
  BY <1>1, <1>2, <1>3, PTL DEF Spec, ImplementsReplica, Copies!Spec
=============================================================================
