--------------------------- MODULE LibraryProofs ----------------------------
(***************************************************************************)
(* Proofs about what MCLibrary composes.                                   *)
(*                                                                         *)
(* A media category, Media, as the instance Category: for any files,       *)
(* clients and edits, the tags kept with a listing are those its files     *)
(* have. The invariant says of each read on its way what it will put, and  *)
(* for which listing.                                                      *)
(*                                                                         *)
(* The passes, LibraryScan, as the instance Passes: what LibraryScanProofs *)
(* proves holds of the instance that is run.                               *)
(*                                                                         *)
(* The covers, Cover, as the instance Pictures: for any albums, tracks and *)
(* artwork changes, what memory shows is current with no pass running, and *)
(* no prune takes a file that an item cover names. The invariant says of   *)
(* memory, of the tables, of a build and of a request which of what they   *)
(* hold is current, and which a report or a later time will put right.     *)
(*                                                                         *)
(* The rows, TagSync, which MCLibrary extends: what TagSyncProofs proves,  *)
(* again of what is run.                                                   *)
(*                                                                         *)
(* LibraryCorrect puts the four together.                                  *)
(***************************************************************************)
EXTENDS MCLibrary, Integers, TLAPS

(* A media category, Media. *)

\* Tags by file; -1 is a file MusicBee did not describe.
Tags == [Files -> Nat \cup {-1}]
Readers == Clients \cup {Category!Task}
ListingType == [listed : BOOLEAN, id : Nat, paths : SUBSET Files, tagged : BOOLEAN, tags : Tags]
ReadType == [at : {"none", "list", "insert", "look", "put", "done"}, id : Nat,
             paths : SUBSET Files, tags : Tags, reset : BOOLEAN]
TaskType == [at : {"waiting", "taking", "listing", "storing", "reading", "tags"}, relist : BOOLEAN,
             changed : BOOLEAN, fresh : SUBSET Files]

\* Types, a part of the state at a time.
HostOK == files \subseteq Files /\ fileTags \in [Files -> Nat]
ListingOK == listing \in ListingType
ReadOK == read \in [Readers -> ReadType]
TaskOK == mediaTask \in TaskType
PendingOK == pending \in [relist : BOOLEAN, changed : BOOLEAN]
Typed == PendingOK /\ HostOK /\ ListingOK /\ ReadOK /\ TaskOK

\* A read holds an id some listing had.
ReadsKnown == \A r \in Readers : read[r].id <= listing.id

\* What is kept of a file is what it has, or nothing.
Current(kept, f) == kept[f] \in {fileTags[f], -1}

\* Tags on their way to the listing they were read for are current, like those in it.
PutsCurrent ==
    ~outrun =>
        \A r \in Readers :
            (read[r].at = "put" /\ Category!Belongs(r) /\ ~read[r].reset) =>
                \A f \in listing.paths \ filesDue : Current(read[r].tags, f)

IInv == Typed /\ ReadsKnown /\ PutsCurrent /\ TagsCurrent

-----------------------------------------------------------------------------
\* What is not read, listed or waited for has its type too.
LEMMA EmptyTypes ==
    Category!Unread \in Tags /\ Category!NoRead \in ReadType
            /\ Category!NoListing \in ListingType /\ Category!Waiting \in TaskType
<1>1. Category!Unread \in Tags
  BY DEF Category!Unread, Tags
<1> QED
  BY <1>1 DEF Category!NoRead, ReadType, Category!NoListing, ListingType, Category!Waiting,
     TaskType

\* A listing that has just been made is one (paths, relist).
LEMMA ListingMade ==
    ASSUME NEW n \in Nat, NEW found \in SUBSET Files
    PROVE  [Category!NoListing EXCEPT !.listed = TRUE, !.id = n + 1,
            !.paths = found] \in ListingType
<1>1. n + 1 \in Nat
  OBVIOUS
<1> QED
  BY <1>1, EmptyTypes DEF ListingType, Category!NoListing

\* Tags fetched now are those the files have now (tags).
LEMMA DescribedTags ==
    ASSUME HostOK, NEW paths
    PROVE  /\ Category!Described(paths) \in Tags
           /\ \A f \in Files : Current(Category!Described(paths), f)
<1>1. \A f \in Files : fileTags[f] \in Nat
  BY DEF HostOK
<1> QED
  BY <1>1 DEF Category!Described, Tags, Current

\* A read that looks up its paths carries the listing it found them in, or none (paths).
LEMMA LookShape ==
    ASSUME Typed, NEW r \in Readers, Category!Look(r)
    PROVE  \E x \in ReadType : /\ x.at # "put" /\ (x.id <= listing.id)
                               /\ read' = [read EXCEPT ![r] = x]
<1> USE EmptyTypes DEF Typed, ListingOK, ListingType
<1>1. CASE ~listing.listed
  <2> DEFINE x == [Category!NoRead EXCEPT !.at = "list"]
  <2>1. x \in ReadType /\ x.at # "put" /\ x.id = 0
    BY DEF ReadType, Category!NoRead
  <2>3. listing.id \in Nat
    OBVIOUS
  <2>2. read' = [read EXCEPT ![r] = x]
    BY <1>1 DEF Category!Look
  <2>4. x \in ReadType /\ x.at # "put" /\ (x.id <= listing.id)
    <3> HIDE DEF x
    <3> QED
      BY <2>1, <2>3
  <2> HIDE DEF x, Typed, ListingOK, ListingType
  <2> QED
    BY <2>2, <2>4
<1>2. CASE listing.listed
  <2> DEFINE x == [Category!NoRead EXCEPT !.at = "look", !.id = listing.id,
          !.paths = listing.paths]
  <2>1. x \in ReadType /\ x.at # "put" /\ x.id = listing.id
    BY DEF ReadType, Category!NoRead
  <2>3. listing.id \in Nat
    OBVIOUS
  <2>2. read' = [read EXCEPT ![r] = x]
    BY <1>2 DEF Category!Look
  <2>4. x \in ReadType /\ x.at # "put" /\ (x.id <= listing.id)
    <3> HIDE DEF x
    <3> QED
      BY <2>1, <2>3
  <2> HIDE DEF x, Typed, ListingOK, ListingType
  <2> QED
    BY <2>2, <2>4
<1> QED
  BY <1>1, <1>2

\* The files and their tags keep their types.
LEMMA HostStep == ASSUME HostOK, [Category!Next]_(Category!vars) PROVE HostOK'
<1> USE DEF HostOK
<1>1. ASSUME NEW f \in Files, Category!Edit(f) PROVE HostOK'
  BY <1>1 DEF Category!Edit, Category!Happens, Category!taskVars, Category!clientVars
<1>2. ASSUME NEW f \in Files, Category!Move(f) PROVE HostOK'
  BY <1>2 DEF Category!Move, Category!Happens, Category!taskVars, Category!clientVars
<1>3. ASSUME NEW f \in Files, Category!InboxChanged(f) PROVE HostOK'
  BY <1>3 DEF Category!InboxChanged, Category!Happens, Category!taskVars, Category!clientVars
<1>4. CASE Category!Switch
  BY <1>4 DEF Category!Switch, Category!NoListing
<1>5. CASE Category!FilesChanged
  BY <1>5 DEF Category!FilesChanged, Category!Outrun, Category!taskVars, Category!clientVars
<1>6. ASSUME NEW r \in Readers, Category!List(r) PROVE HostOK'
  BY <1>6 DEF Category!List, Category!hostVars, Category!taskVars, Category!clientVars
<1>7. ASSUME NEW r \in Readers, Category!Insert(r) PROVE HostOK'
  BY <1>7 DEF Category!Insert, Category!NoListing, Category!NoRead, Category!hostVars,
     Category!taskVars, Category!clientVars
<1>8. ASSUME NEW r \in Readers, Category!Hit(r) PROVE HostOK'
  BY <1>8 DEF Category!Hit, Category!NoRead, Category!hostVars, Category!taskVars,
     Category!clientVars
<1>9. ASSUME NEW r \in Readers, Category!Fetch(r) PROVE HostOK'
  BY <1>9 DEF Category!Fetch, Category!Described, Category!hostVars, Category!taskVars,
     Category!clientVars
<1>10. ASSUME NEW r \in Readers, Category!Put(r) PROVE HostOK'
  BY <1>10 DEF Category!Put, Category!NoRead, Category!hostVars, Category!taskVars,
     Category!clientVars
<1>11. ASSUME NEW c \in Clients, Category!Begin(c) PROVE HostOK'
  BY <1>11 DEF Category!Begin, Category!Look, Category!NoRead, Category!hostVars,
     Category!taskVars, Category!clientVars
<1>12. ASSUME NEW c \in Clients, Category!Reply(c) PROVE HostOK'
  BY <1>12 DEF Category!Reply, Category!NoRead, Category!hostVars, Category!taskVars,
     Category!clientVars
<1>13. ASSUME NEW c \in Clients, Category!Connect(c) PROVE HostOK'
  BY <1>13 DEF Category!Connect, Category!hostVars, Category!taskVars, Category!clientVars
<1>14. CASE Category!Budget
  BY <1>14 DEF Category!Budget, Category!hostVars, Category!taskVars, Category!clientVars
<1>15. CASE Category!Timer
  BY <1>15 DEF Category!Timer, Category!hostVars, Category!taskVars, Category!clientVars
<1>16. CASE Category!Wake
  BY <1>16 DEF Category!Wake, Category!hostVars, Category!taskVars, Category!clientVars
<1>17. CASE Category!Due
  BY <1>17 DEF Category!Due, Category!hostVars, Category!taskVars, Category!clientVars
<1>18. CASE Category!Take
  BY <1>18 DEF Category!Take, Category!Waiting, Category!hostVars, Category!taskVars,
     Category!clientVars
<1>19. CASE Category!RelistStore
  BY <1>19 DEF Category!RelistStore, Category!NoListing, Category!Counts, Category!hostVars,
     Category!taskVars, Category!clientVars
<1>20. CASE Category!CheckTags
  BY <1>20 DEF Category!CheckTags, Category!Look, Category!NoRead, Category!Waiting,
     Category!hostVars, Category!taskVars, Category!clientVars
<1>21. CASE Category!Tell
  BY <1>21 DEF Category!Tell, Category!NoRead, Category!Waiting, Category!hostVars,
     Category!taskVars, Category!clientVars
<1>22. CASE Category!RelistFetch
  BY <1>22 DEF Category!RelistFetch, Category!hostVars, Category!taskVars, Category!clientVars
<1>23. CASE Category!CheckFails
  BY <1>23 DEF Category!CheckFails, Category!NoRead, Category!hostVars, Category!taskVars,
     Category!clientVars
<1>24. CASE UNCHANGED Category!vars
  BY <1>24 DEF Category!vars, Category!hostVars, Category!taskVars, Category!clientVars
<1> QED
  BY <1>1, <1>2, <1>3, <1>4, <1>5, <1>6, <1>7, <1>8, <1>9, <1>10, <1>11, <1>12, <1>13, <1>14,
     <1>15, <1>16, <1>17, <1>18, <1>19, <1>20, <1>21, <1>22, <1>23, <1>24 DEF Category!Next,
     Category!Reads, Category!Work, Readers

\* The listing and the tags kept with it keep their types (paths, tags, relist).
LEMMA ListingStep == ASSUME Typed, [Category!Next]_(Category!vars) PROVE ListingOK'
<1> USE EmptyTypes DEF Typed, ListingOK, ReadOK, TaskOK, HostOK, ListingType, ReadType, TaskType
<1>1. ASSUME NEW f \in Files, Category!Edit(f) PROVE ListingOK'
  BY <1>1 DEF Category!Edit, Category!Happens, Category!taskVars, Category!clientVars
<1>2. ASSUME NEW f \in Files, Category!Move(f) PROVE ListingOK'
  BY <1>2 DEF Category!Move, Category!Happens, Category!taskVars, Category!clientVars
<1>3. ASSUME NEW f \in Files, Category!InboxChanged(f) PROVE ListingOK'
  BY <1>3 DEF Category!InboxChanged, Category!Happens, Category!taskVars, Category!clientVars
<1>4. CASE Category!Switch
  <2>1. [Category!NoListing EXCEPT !.id = listing.id] \in ListingType
    BY DEF Category!NoListing
  <2> QED
    BY <1>4, <2>1 DEF Category!Switch
<1>5. CASE Category!FilesChanged
  <2>1. [listing EXCEPT !.tagged = FALSE, !.tags = Category!Unread] \in ListingType
    OBVIOUS
  <2> QED
    BY <1>5, <2>1 DEF Category!FilesChanged
<1>6. ASSUME NEW r \in Readers, Category!List(r) PROVE ListingOK'
  BY <1>6 DEF Category!List, Category!hostVars, Category!taskVars, Category!clientVars
<1>7. ASSUME NEW r \in Readers, Category!Insert(r) PROVE ListingOK'
  <2>1. [Category!NoListing EXCEPT !.listed = TRUE, !.id = listing.id + 1,
          !.paths = read[r].paths]
          \in ListingType
    <3>1. listing.id \in Nat /\ read[r].paths \in SUBSET Files
      OBVIOUS
    <3> QED
      BY <3>1, ListingMade
  <2> QED
    BY <1>7, <2>1 DEF Category!Insert
<1>8. ASSUME NEW r \in Readers, Category!Hit(r) PROVE ListingOK'
  BY <1>8 DEF Category!Hit, Category!NoRead, Category!hostVars, Category!taskVars,
     Category!clientVars
<1>9. ASSUME NEW r \in Readers, Category!Fetch(r) PROVE ListingOK'
  BY <1>9 DEF Category!Fetch, Category!Described, Category!hostVars, Category!taskVars,
     Category!clientVars
<1>10. ASSUME NEW r \in Readers, Category!Put(r) PROVE ListingOK'
  BY <1>10 DEF Category!Put, Category!NoRead, Category!hostVars, Category!taskVars,
     Category!clientVars
<1>11. ASSUME NEW c \in Clients, Category!Begin(c) PROVE ListingOK'
  BY <1>11 DEF Category!Begin, Category!Look, Category!NoRead, Category!hostVars,
     Category!taskVars, Category!clientVars
<1>12. ASSUME NEW c \in Clients, Category!Reply(c) PROVE ListingOK'
  BY <1>12 DEF Category!Reply, Category!NoRead, Category!hostVars, Category!taskVars,
     Category!clientVars
<1>13. ASSUME NEW c \in Clients, Category!Connect(c) PROVE ListingOK'
  BY <1>13 DEF Category!Connect, Category!hostVars, Category!taskVars, Category!clientVars
<1>14. CASE Category!Budget
  BY <1>14 DEF Category!Budget, Category!hostVars, Category!taskVars, Category!clientVars
<1>15. CASE Category!Timer
  BY <1>15 DEF Category!Timer, Category!hostVars, Category!taskVars, Category!clientVars
<1>16. CASE Category!Wake
  BY <1>16 DEF Category!Wake, Category!hostVars, Category!taskVars, Category!clientVars
<1>17. CASE Category!Due
  BY <1>17 DEF Category!Due, Category!hostVars, Category!taskVars, Category!clientVars
<1>18. CASE Category!Take
  BY <1>18 DEF Category!Take, Category!Waiting, Category!hostVars, Category!taskVars,
     Category!clientVars
<1>19. CASE Category!RelistStore
  <2>1. [Category!NoListing EXCEPT !.listed = TRUE, !.id = listing.id + 1,
          !.paths = mediaTask.fresh]
          \in ListingType
    <3>1. listing.id \in Nat /\ mediaTask.fresh \in SUBSET Files
      OBVIOUS
    <3> QED
      BY <3>1, ListingMade
  <2> QED
    BY <1>19, <2>1 DEF Category!RelistStore
<1>20. CASE Category!CheckTags
  BY <1>20 DEF Category!CheckTags, Category!Look, Category!NoRead, Category!Waiting,
     Category!hostVars, Category!taskVars, Category!clientVars
<1>21. CASE Category!Tell
  BY <1>21 DEF Category!Tell, Category!NoRead, Category!Waiting, Category!hostVars,
     Category!taskVars, Category!clientVars
<1>22. CASE Category!RelistFetch
  BY <1>22 DEF Category!RelistFetch, Category!hostVars, Category!taskVars, Category!clientVars
<1>23. CASE Category!CheckFails
  BY <1>23 DEF Category!CheckFails, Category!NoRead, Category!hostVars, Category!taskVars,
     Category!clientVars
<1>24. CASE UNCHANGED Category!vars
  BY <1>24 DEF Category!vars, Category!hostVars, Category!taskVars, Category!clientVars
<1> QED
  BY <1>1, <1>2, <1>3, <1>4, <1>5, <1>6, <1>7, <1>8, <1>9, <1>10, <1>11, <1>12, <1>13, <1>14,
     <1>15, <1>16, <1>17, <1>18, <1>19, <1>20, <1>21, <1>22, <1>23, <1>24 DEF Category!Next,
     Category!Reads, Category!Work, Readers

\* A read keeps its types, whatever the task and the other readers do (paths, tags).
LEMMA ReadStep == ASSUME Typed, [Category!Next]_(Category!vars) PROVE ReadOK'
<1> USE EmptyTypes DEF Typed, ListingOK, ReadOK, HostOK, ListingType, ReadType, Readers
<1>1. ASSUME NEW f \in Files, Category!Edit(f) PROVE ReadOK'
  BY <1>1 DEF Category!Edit, Category!Happens, Category!taskVars, Category!clientVars
<1>2. ASSUME NEW f \in Files, Category!Move(f) PROVE ReadOK'
  BY <1>2 DEF Category!Move, Category!Happens, Category!taskVars, Category!clientVars
<1>3. ASSUME NEW f \in Files, Category!InboxChanged(f) PROVE ReadOK'
  BY <1>3 DEF Category!InboxChanged, Category!Happens, Category!taskVars, Category!clientVars
<1>4. CASE Category!Switch
  BY <1>4 DEF Category!Switch, Category!NoListing
<1>5. CASE Category!FilesChanged
  BY <1>5 DEF Category!FilesChanged, Category!Outrun, Category!taskVars, Category!clientVars
<1>6. ASSUME NEW r \in Readers, Category!List(r) PROVE ReadOK'
  BY <1>6 DEF Category!List, Category!hostVars, Category!taskVars, Category!clientVars
<1>7. ASSUME NEW r \in Readers, Category!Insert(r) PROVE ReadOK'
  <2> DEFINE kept == IF listing.listed THEN listing
                     ELSE [Category!NoListing EXCEPT !.listed = TRUE, !.id = listing.id + 1,
                             !.paths = read[r].paths]
  <2>1. kept.id \in Nat /\ kept.paths \in SUBSET Files
    <3>1. CASE listing.listed
      BY <3>1
    <3>2. CASE ~listing.listed
      BY <3>2 DEF Category!NoListing
    <3> QED
      BY <3>1, <3>2
  <2> DEFINE x == [Category!NoRead EXCEPT !.at = "look", !.id = kept.id, !.paths = kept.paths]
  <2>2. x \in ReadType
    <3> HIDE DEF kept
    <3> QED
      BY <2>1 DEF Category!NoRead
  <2>3. read' = [read EXCEPT ![r] = x]
    BY <1>7 DEF Category!Insert
  <2> HIDE DEF x
  <2> QED
    BY <2>2, <2>3
<1>8. ASSUME NEW r \in Readers, Category!Hit(r) PROVE ReadOK'
  BY <1>8 DEF Category!Hit, Category!NoRead, Category!hostVars, Category!taskVars,
     Category!clientVars
<1>9. ASSUME NEW r \in Readers, Category!Fetch(r) PROVE ReadOK'
  <2>1. Category!Described(read[r].paths) \in Tags
    BY DescribedTags
  <2> QED
    BY <1>9, <2>1 DEF Category!Fetch
<1>10. ASSUME NEW r \in Readers, Category!Put(r) PROVE ReadOK'
  BY <1>10 DEF Category!Put, Category!NoRead, Category!hostVars, Category!taskVars,
     Category!clientVars
<1>11. ASSUME NEW c \in Clients, Category!Begin(c) PROVE ReadOK'
  <2>1. PICK x \in ReadType : read' = [read EXCEPT ![c] = x]
    BY <1>11, LookShape DEF Category!Begin
  <2> QED
    BY <2>1
<1>12. ASSUME NEW c \in Clients, Category!Reply(c) PROVE ReadOK'
  BY <1>12, EmptyTypes DEF Category!Reply
<1>13. ASSUME NEW c \in Clients, Category!Connect(c) PROVE ReadOK'
  BY <1>13 DEF Category!Connect, Category!hostVars, Category!taskVars, Category!clientVars
<1>14. CASE Category!Budget
  BY <1>14 DEF Category!Budget, Category!hostVars, Category!taskVars, Category!clientVars
<1>15. CASE Category!Timer
  BY <1>15 DEF Category!Timer, Category!hostVars, Category!taskVars, Category!clientVars
<1>16. CASE Category!Wake
  BY <1>16 DEF Category!Wake, Category!hostVars, Category!taskVars, Category!clientVars
<1>17. CASE Category!Due
  BY <1>17 DEF Category!Due, Category!hostVars, Category!taskVars, Category!clientVars
<1>18. CASE Category!Take
  BY <1>18 DEF Category!Take, Category!Waiting, Category!hostVars, Category!taskVars,
     Category!clientVars
<1>19. CASE Category!RelistStore
  BY <1>19 DEF Category!RelistStore, Category!NoListing, Category!Counts, Category!hostVars,
     Category!taskVars, Category!clientVars
<1>20. CASE Category!CheckTags
  <2>1. CASE mediaTask.changed
    <3>1. PICK x \in ReadType : read' = [read EXCEPT ![Category!Task] = x]
      BY <1>20, <2>1, LookShape DEF Category!CheckTags
    <3> QED
      BY <3>1
  <2>2. CASE ~mediaTask.changed
    BY <1>20, <2>2 DEF Category!CheckTags
  <2> QED
    BY <2>1, <2>2
<1>21. CASE Category!Tell
  BY <1>21, EmptyTypes DEF Category!Tell
<1>22. CASE Category!RelistFetch
  BY <1>22 DEF Category!RelistFetch, Category!hostVars, Category!taskVars, Category!clientVars
<1>23. CASE Category!CheckFails
  <2>1. [Category!NoRead EXCEPT !.at = "done"] \in ReadType
    BY DEF Category!NoRead
  <2> QED
    BY <1>23, <2>1 DEF Category!CheckFails
<1>24. CASE UNCHANGED Category!vars
  BY <1>24 DEF Category!vars, Category!hostVars, Category!taskVars, Category!clientVars
<1> QED
  BY <1>1, <1>2, <1>3, <1>4, <1>5, <1>6, <1>7, <1>8, <1>9, <1>10, <1>11, <1>12, <1>13, <1>14,
     <1>15, <1>16, <1>17, <1>18, <1>19, <1>20, <1>21, <1>22, <1>23, <1>24 DEF Category!Next,
     Category!Reads, Category!Work, Readers

\* The task's round keeps its types (run_every, check).
LEMMA TaskStep == ASSUME Typed, [Category!Next]_(Category!vars) PROVE TaskOK'
<1> USE EmptyTypes DEF Typed, TaskOK, HostOK, TaskType
<1>1. ASSUME NEW f \in Files, Category!Edit(f) PROVE TaskOK'
  BY <1>1 DEF Category!Edit, Category!Happens, Category!taskVars, Category!clientVars
<1>2. ASSUME NEW f \in Files, Category!Move(f) PROVE TaskOK'
  BY <1>2 DEF Category!Move, Category!Happens, Category!taskVars, Category!clientVars
<1>3. ASSUME NEW f \in Files, Category!InboxChanged(f) PROVE TaskOK'
  BY <1>3 DEF Category!InboxChanged, Category!Happens, Category!taskVars, Category!clientVars
<1>4. CASE Category!Switch
  BY <1>4 DEF Category!Switch, Category!NoListing
<1>5. CASE Category!FilesChanged
  BY <1>5 DEF Category!FilesChanged, Category!Outrun, Category!taskVars, Category!clientVars
<1>6. ASSUME NEW r \in Readers, Category!List(r) PROVE TaskOK'
  BY <1>6 DEF Category!List, Category!hostVars, Category!taskVars, Category!clientVars
<1>7. ASSUME NEW r \in Readers, Category!Insert(r) PROVE TaskOK'
  BY <1>7 DEF Category!Insert, Category!NoListing, Category!NoRead, Category!hostVars,
     Category!taskVars, Category!clientVars
<1>8. ASSUME NEW r \in Readers, Category!Hit(r) PROVE TaskOK'
  BY <1>8 DEF Category!Hit, Category!NoRead, Category!hostVars, Category!taskVars,
     Category!clientVars
<1>9. ASSUME NEW r \in Readers, Category!Fetch(r) PROVE TaskOK'
  BY <1>9 DEF Category!Fetch, Category!Described, Category!hostVars, Category!taskVars,
     Category!clientVars
<1>10. ASSUME NEW r \in Readers, Category!Put(r) PROVE TaskOK'
  BY <1>10 DEF Category!Put, Category!NoRead, Category!hostVars, Category!taskVars,
     Category!clientVars
<1>11. ASSUME NEW c \in Clients, Category!Begin(c) PROVE TaskOK'
  BY <1>11 DEF Category!Begin, Category!Look, Category!NoRead, Category!hostVars,
     Category!taskVars, Category!clientVars
<1>12. ASSUME NEW c \in Clients, Category!Reply(c) PROVE TaskOK'
  BY <1>12 DEF Category!Reply, Category!NoRead, Category!hostVars, Category!taskVars,
     Category!clientVars
<1>13. ASSUME NEW c \in Clients, Category!Connect(c) PROVE TaskOK'
  BY <1>13 DEF Category!Connect, Category!hostVars, Category!taskVars, Category!clientVars
<1>14. CASE Category!Budget
  BY <1>14 DEF Category!Budget, Category!hostVars, Category!taskVars, Category!clientVars
<1>15. CASE Category!Timer
  BY <1>15 DEF Category!Timer, Category!hostVars, Category!taskVars, Category!clientVars
<1>16. CASE Category!Wake
  BY <1>16 DEF Category!Wake, Category!hostVars, Category!taskVars, Category!clientVars
<1>17. CASE Category!Due
  BY <1>17 DEF Category!Due, Category!hostVars, Category!taskVars, Category!clientVars
<1>18. CASE Category!Take
  <2>1. pending.changed \in BOOLEAN
    BY DEF PendingOK
  <2>2. [Category!Waiting EXCEPT !.at = "listing", !.changed = pending.changed] \in TaskType
        /\ [Category!Waiting EXCEPT !.at = "reading", !.changed = TRUE] \in TaskType
    BY <2>1 DEF Category!Waiting
  <2> QED
    BY <1>18, <2>2 DEF Category!Take
<1>19. CASE Category!RelistStore
  BY <1>19 DEF Category!RelistStore, Category!NoListing, Category!Counts, Category!hostVars,
     Category!taskVars, Category!clientVars
<1>20. CASE Category!CheckTags
  <2>1. CASE mediaTask.changed
    BY <1>20, <2>1 DEF Category!CheckTags
  <2>2. CASE ~mediaTask.changed
    BY <1>20, <2>2 DEF Category!CheckTags
  <2> QED
    BY <2>1, <2>2
<1>21. CASE Category!Tell
  BY <1>21 DEF Category!Tell, Category!NoRead, Category!Waiting, Category!hostVars,
     Category!taskVars, Category!clientVars
<1>22. CASE Category!RelistFetch
  BY <1>22 DEF Category!RelistFetch, Category!hostVars, Category!taskVars, Category!clientVars
<1>23. CASE Category!CheckFails
  BY <1>23 DEF Category!CheckFails, Category!NoRead, Category!hostVars, Category!taskVars,
     Category!clientVars
<1>24. CASE UNCHANGED Category!vars
  BY <1>24 DEF Category!vars, Category!hostVars, Category!taskVars, Category!clientVars
<1> QED
  BY <1>1, <1>2, <1>3, <1>4, <1>5, <1>6, <1>7, <1>8, <1>9, <1>10, <1>11, <1>12, <1>13, <1>14,
     <1>15, <1>16, <1>17, <1>18, <1>19, <1>20, <1>21, <1>22, <1>23, <1>24 DEF Category!Next,
     Category!Reads, Category!Work, Readers

\* What the task has been nudged about keeps its types (take_pending).
LEMMA PendingStep == ASSUME PendingOK, [Category!Next]_(Category!vars) PROVE PendingOK'
<1> USE DEF PendingOK
<1>1. ASSUME NEW f \in Files, Category!Edit(f) PROVE PendingOK'
  BY <1>1 DEF Category!Edit, Category!Happens, Category!taskVars, Category!clientVars
<1>2. ASSUME NEW f \in Files, Category!Move(f) PROVE PendingOK'
  BY <1>2 DEF Category!Move, Category!Happens, Category!taskVars, Category!clientVars
<1>3. ASSUME NEW f \in Files, Category!InboxChanged(f) PROVE PendingOK'
  BY <1>3 DEF Category!InboxChanged, Category!Happens, Category!taskVars, Category!clientVars
<1>4. CASE Category!Switch
  BY <1>4 DEF Category!Switch, Category!NoListing
<1>5. CASE Category!FilesChanged
  BY <1>5 DEF Category!FilesChanged, Category!Outrun, Category!taskVars, Category!clientVars
<1>6. ASSUME NEW r \in Readers, Category!List(r) PROVE PendingOK'
  BY <1>6 DEF Category!List, Category!hostVars, Category!taskVars, Category!clientVars
<1>7. ASSUME NEW r \in Readers, Category!Insert(r) PROVE PendingOK'
  BY <1>7 DEF Category!Insert, Category!NoListing, Category!NoRead, Category!hostVars,
     Category!taskVars, Category!clientVars
<1>8. ASSUME NEW r \in Readers, Category!Hit(r) PROVE PendingOK'
  BY <1>8 DEF Category!Hit, Category!NoRead, Category!hostVars, Category!taskVars,
     Category!clientVars
<1>9. ASSUME NEW r \in Readers, Category!Fetch(r) PROVE PendingOK'
  BY <1>9 DEF Category!Fetch, Category!Described, Category!hostVars, Category!taskVars,
     Category!clientVars
<1>10. ASSUME NEW r \in Readers, Category!Put(r) PROVE PendingOK'
  BY <1>10 DEF Category!Put, Category!NoRead, Category!hostVars, Category!taskVars,
     Category!clientVars
<1>11. ASSUME NEW c \in Clients, Category!Begin(c) PROVE PendingOK'
  BY <1>11 DEF Category!Begin, Category!Look, Category!NoRead, Category!hostVars,
     Category!taskVars, Category!clientVars
<1>12. ASSUME NEW c \in Clients, Category!Reply(c) PROVE PendingOK'
  BY <1>12 DEF Category!Reply, Category!NoRead, Category!hostVars, Category!taskVars,
     Category!clientVars
<1>13. ASSUME NEW c \in Clients, Category!Connect(c) PROVE PendingOK'
  BY <1>13 DEF Category!Connect, Category!hostVars, Category!taskVars, Category!clientVars
<1>14. CASE Category!Budget
  BY <1>14 DEF Category!Budget, Category!hostVars, Category!taskVars, Category!clientVars
<1>15. CASE Category!Timer
  BY <1>15 DEF Category!Timer, Category!hostVars, Category!taskVars, Category!clientVars
<1>16. CASE Category!Wake
  BY <1>16 DEF Category!Wake, Category!hostVars, Category!taskVars, Category!clientVars
<1>17. CASE Category!Due
  BY <1>17 DEF Category!Due, Category!hostVars, Category!taskVars, Category!clientVars
<1>18. CASE Category!Take
  BY <1>18 DEF Category!Take, Category!Waiting, Category!hostVars, Category!taskVars,
     Category!clientVars
<1>19. CASE Category!RelistStore
  BY <1>19 DEF Category!RelistStore, Category!NoListing, Category!Counts, Category!hostVars,
     Category!taskVars, Category!clientVars
<1>20. CASE Category!CheckTags
  BY <1>20 DEF Category!CheckTags, Category!Look, Category!NoRead, Category!Waiting,
     Category!hostVars, Category!taskVars, Category!clientVars
<1>21. CASE Category!Tell
  BY <1>21 DEF Category!Tell, Category!NoRead, Category!Waiting, Category!hostVars,
     Category!taskVars, Category!clientVars
<1>22. CASE Category!RelistFetch
  BY <1>22 DEF Category!RelistFetch, Category!hostVars, Category!taskVars, Category!clientVars
<1>23. CASE Category!CheckFails
  BY <1>23 DEF Category!CheckFails, Category!NoRead, Category!hostVars, Category!taskVars,
     Category!clientVars
<1>24. CASE UNCHANGED Category!vars
  BY <1>24 DEF Category!vars, Category!hostVars, Category!taskVars, Category!clientVars
<1> QED
  BY <1>1, <1>2, <1>3, <1>4, <1>5, <1>6, <1>7, <1>8, <1>9, <1>10, <1>11, <1>12, <1>13, <1>14,
     <1>15, <1>16, <1>17, <1>18, <1>19, <1>20, <1>21, <1>22, <1>23, <1>24 DEF Category!Next,
     Category!Reads, Category!Work, Readers

\* No read is of a listing that is yet to be made: the id only grows.
LEMMA KnownStep == ASSUME Typed, ReadsKnown, [Category!Next]_(Category!vars) PROVE ReadsKnown'
<1> USE DEF Typed, ListingOK, ReadOK, ListingType, ReadType, ReadsKnown, Readers
<1>1. ASSUME NEW f \in Files, Category!Edit(f) PROVE ReadsKnown'
  BY <1>1 DEF Category!Edit, Category!Happens, Category!taskVars, Category!clientVars
<1>2. ASSUME NEW f \in Files, Category!Move(f) PROVE ReadsKnown'
  BY <1>2 DEF Category!Move, Category!Happens, Category!taskVars, Category!clientVars
<1>3. ASSUME NEW f \in Files, Category!InboxChanged(f) PROVE ReadsKnown'
  BY <1>3 DEF Category!InboxChanged, Category!Happens, Category!taskVars, Category!clientVars
<1>4. CASE Category!Switch
  BY <1>4 DEF Category!Switch, Category!NoListing
<1>5. CASE Category!FilesChanged
  BY <1>5 DEF Category!FilesChanged, Category!Outrun, Category!taskVars, Category!clientVars
<1>6. ASSUME NEW r \in Readers, Category!List(r) PROVE ReadsKnown'
  BY <1>6 DEF Category!List, Category!hostVars, Category!taskVars, Category!clientVars
<1>7. ASSUME NEW r \in Readers, Category!Insert(r) PROVE ReadsKnown'
  BY <1>7 DEF Category!Insert, Category!NoListing, Category!NoRead, Category!hostVars,
     Category!taskVars, Category!clientVars
<1>8. ASSUME NEW r \in Readers, Category!Hit(r) PROVE ReadsKnown'
  BY <1>8 DEF Category!Hit, Category!NoRead, Category!hostVars, Category!taskVars,
     Category!clientVars
<1>9. ASSUME NEW r \in Readers, Category!Fetch(r) PROVE ReadsKnown'
  BY <1>9 DEF Category!Fetch, Category!Described, Category!hostVars, Category!taskVars,
     Category!clientVars
<1>10. ASSUME NEW r \in Readers, Category!Put(r) PROVE ReadsKnown'
  BY <1>10 DEF Category!Put, Category!NoRead, Category!hostVars, Category!taskVars,
     Category!clientVars
<1>11. ASSUME NEW c \in Clients, Category!Begin(c) PROVE ReadsKnown'
  <2>1. PICK x \in ReadType : /\ x.at # "put" /\ (x.id <= listing.id)
                              /\ read' = [read EXCEPT ![c] = x]
    BY <1>11, LookShape DEF Category!Begin
  <2> QED
    BY <1>11, <2>1 DEF Category!Begin, Category!hostVars, Category!taskVars
<1>12. ASSUME NEW c \in Clients, Category!Reply(c) PROVE ReadsKnown'
  BY <1>12 DEF Category!Reply, Category!NoRead, Category!hostVars, Category!taskVars,
     Category!clientVars
<1>13. ASSUME NEW c \in Clients, Category!Connect(c) PROVE ReadsKnown'
  BY <1>13 DEF Category!Connect, Category!hostVars, Category!taskVars, Category!clientVars
<1>14. CASE Category!Budget
  BY <1>14 DEF Category!Budget, Category!hostVars, Category!taskVars, Category!clientVars
<1>15. CASE Category!Timer
  BY <1>15 DEF Category!Timer, Category!hostVars, Category!taskVars, Category!clientVars
<1>16. CASE Category!Wake
  BY <1>16 DEF Category!Wake, Category!hostVars, Category!taskVars, Category!clientVars
<1>17. CASE Category!Due
  BY <1>17 DEF Category!Due, Category!hostVars, Category!taskVars, Category!clientVars
<1>18. CASE Category!Take
  BY <1>18 DEF Category!Take, Category!Waiting, Category!hostVars, Category!taskVars,
     Category!clientVars
<1>19. CASE Category!RelistStore
  BY <1>19 DEF Category!RelistStore, Category!NoListing, Category!Counts, Category!hostVars,
     Category!taskVars, Category!clientVars
<1>20. CASE Category!CheckTags
  <2>1. CASE mediaTask.changed
    <3>1. PICK x \in ReadType : /\ x.at # "put" /\ (x.id <= listing.id)
                                /\ read' = [read EXCEPT ![Category!Task] = x]
      BY <1>20, <2>1, LookShape DEF Category!CheckTags
    <3> QED
      BY <1>20, <3>1 DEF Category!CheckTags, Category!hostVars, Category!clientVars
  <2>2. CASE ~mediaTask.changed
    BY <1>20, <2>2 DEF Category!CheckTags, Category!hostVars, Category!clientVars
  <2> QED
    BY <2>1, <2>2
<1>21. CASE Category!Tell
  BY <1>21 DEF Category!Tell, Category!NoRead, Category!Waiting, Category!hostVars,
     Category!taskVars, Category!clientVars
<1>22. CASE Category!RelistFetch
  BY <1>22 DEF Category!RelistFetch, Category!hostVars, Category!taskVars, Category!clientVars
<1>23. CASE Category!CheckFails
  BY <1>23 DEF Category!CheckFails, Category!NoRead, Category!hostVars, Category!taskVars,
     Category!clientVars
<1>24. CASE UNCHANGED Category!vars
  BY <1>24 DEF Category!vars, Category!hostVars, Category!taskVars, Category!clientVars
<1> QED
  BY <1>1, <1>2, <1>3, <1>4, <1>5, <1>6, <1>7, <1>8, <1>9, <1>10, <1>11, <1>12, <1>13, <1>14,
     <1>15, <1>16, <1>17, <1>18, <1>19, <1>20, <1>21, <1>22, <1>23, <1>24 DEF Category!Next,
     Category!Reads, Category!Work, Readers

\* Tags about to be put with the listing they were read for are those the files have, but
\* for files with a notification due (tags).
LEMMA PutsStep ==
    ASSUME Typed, ReadsKnown, PutsCurrent, [Category!Next]_(Category!vars)
    PROVE  PutsCurrent'
<1> USE DEF Typed, ListingOK, ReadOK, HostOK, ListingType, ReadType, ReadsKnown, PutsCurrent,
   Current, Category!Belongs, Readers
<1>1. ASSUME NEW f \in Files, Category!Edit(f) PROVE PutsCurrent'
  BY <1>1 DEF Category!Edit, Category!Happens, Category!taskVars, Category!clientVars
<1>2. ASSUME NEW f \in Files, Category!Move(f) PROVE PutsCurrent'
  BY <1>2 DEF Category!Move, Category!Happens, Category!taskVars, Category!clientVars
<1>3. ASSUME NEW f \in Files, Category!InboxChanged(f) PROVE PutsCurrent'
  BY <1>3 DEF Category!InboxChanged, Category!Happens, Category!taskVars, Category!clientVars
<1>4. CASE Category!Switch
  BY <1>4 DEF Category!Switch, Category!NoListing
<1>5. CASE Category!FilesChanged
  BY <1>5 DEF Category!FilesChanged, Category!Outrun, Category!taskVars, Category!clientVars
<1>6. ASSUME NEW r \in Readers, Category!List(r) PROVE PutsCurrent'
  BY <1>6 DEF Category!List, Category!hostVars, Category!taskVars, Category!clientVars
<1>7. ASSUME NEW r \in Readers, Category!Insert(r) PROVE PutsCurrent'
  BY <1>7 DEF Category!Insert, Category!NoListing, Category!NoRead, Category!hostVars,
     Category!taskVars, Category!clientVars
<1>8. ASSUME NEW r \in Readers, Category!Hit(r) PROVE PutsCurrent'
  BY <1>8 DEF Category!Hit, Category!NoRead, Category!hostVars, Category!taskVars,
     Category!clientVars
<1>9. ASSUME NEW r \in Readers, Category!Fetch(r) PROVE PutsCurrent'
  <2>1. \A f \in Files : Category!Described(read[r].paths)[f] \in {fileTags[f], -1}
    BY DescribedTags DEF Current
  <2> QED
    BY <1>9, <2>1 DEF Category!Fetch, Category!hostVars
<1>10. ASSUME NEW r \in Readers, Category!Put(r) PROVE PutsCurrent'
  BY <1>10 DEF Category!Put, Category!NoRead, Category!hostVars, Category!taskVars,
     Category!clientVars
<1>11. ASSUME NEW c \in Clients, Category!Begin(c) PROVE PutsCurrent'
  <2>1. PICK x \in ReadType : /\ x.at # "put" /\ (x.id <= listing.id)
                              /\ read' = [read EXCEPT ![c] = x]
    BY <1>11, LookShape DEF Category!Begin
  <2> QED
    BY <1>11, <2>1 DEF Category!Begin, Category!hostVars, Category!taskVars
<1>12. ASSUME NEW c \in Clients, Category!Reply(c) PROVE PutsCurrent'
  BY <1>12 DEF Category!Reply, Category!NoRead, Category!hostVars, Category!taskVars,
     Category!clientVars
<1>13. ASSUME NEW c \in Clients, Category!Connect(c) PROVE PutsCurrent'
  BY <1>13 DEF Category!Connect, Category!hostVars, Category!taskVars, Category!clientVars
<1>14. CASE Category!Budget
  BY <1>14 DEF Category!Budget, Category!hostVars, Category!taskVars, Category!clientVars
<1>15. CASE Category!Timer
  BY <1>15 DEF Category!Timer, Category!hostVars, Category!taskVars, Category!clientVars
<1>16. CASE Category!Wake
  BY <1>16 DEF Category!Wake, Category!hostVars, Category!taskVars, Category!clientVars
<1>17. CASE Category!Due
  BY <1>17 DEF Category!Due, Category!hostVars, Category!taskVars, Category!clientVars
<1>18. CASE Category!Take
  BY <1>18 DEF Category!Take, Category!Waiting, Category!hostVars, Category!taskVars,
     Category!clientVars
<1>19. CASE Category!RelistStore
  BY <1>19 DEF Category!RelistStore, Category!NoListing, Category!Counts, Category!hostVars,
     Category!taskVars, Category!clientVars
<1>20. CASE Category!CheckTags
  <2>1. CASE mediaTask.changed
    <3>1. PICK x \in ReadType : /\ x.at # "put" /\ (x.id <= listing.id)
                                /\ read' = [read EXCEPT ![Category!Task] = x]
      BY <1>20, <2>1, LookShape DEF Category!CheckTags
    <3> QED
      BY <1>20, <3>1 DEF Category!CheckTags, Category!hostVars, Category!clientVars
  <2>2. CASE ~mediaTask.changed
    BY <1>20, <2>2 DEF Category!CheckTags, Category!hostVars, Category!clientVars
  <2> QED
    BY <2>1, <2>2
<1>21. CASE Category!Tell
  BY <1>21 DEF Category!Tell, Category!NoRead, Category!Waiting, Category!hostVars,
     Category!taskVars, Category!clientVars
<1>22. CASE Category!RelistFetch
  BY <1>22 DEF Category!RelistFetch, Category!hostVars, Category!taskVars, Category!clientVars
<1>23. CASE Category!CheckFails
  BY <1>23 DEF Category!CheckFails, Category!NoRead, Category!hostVars, Category!taskVars,
     Category!clientVars
<1>24. CASE UNCHANGED Category!vars
  BY <1>24 DEF Category!vars, Category!hostVars, Category!taskVars, Category!clientVars
<1> QED
  BY <1>1, <1>2, <1>3, <1>4, <1>5, <1>6, <1>7, <1>8, <1>9, <1>10, <1>11, <1>12, <1>13, <1>14,
     <1>15, <1>16, <1>17, <1>18, <1>19, <1>20, <1>21, <1>22, <1>23, <1>24 DEF Category!Next,
     Category!Reads, Category!Work, Readers

\* Tags kept with the listing are those the files have, but for files with a notification due.
LEMMA TagsStep ==
    ASSUME Typed, ReadsKnown, PutsCurrent, TagsCurrent, [Category!Next]_(Category!vars)
    PROVE  TagsCurrent'
<1> USE DEF Typed, ListingOK, ReadOK, HostOK, ListingType, ReadType, PutsCurrent, Current,
   TagsCurrent, Category!TagsCurrent
<1>1. ASSUME NEW f \in Files, Category!Edit(f) PROVE TagsCurrent'
  BY <1>1 DEF Category!Edit, Category!Happens, Category!taskVars, Category!clientVars
<1>2. ASSUME NEW f \in Files, Category!Move(f) PROVE TagsCurrent'
  BY <1>2 DEF Category!Move, Category!Happens, Category!taskVars, Category!clientVars
<1>3. ASSUME NEW f \in Files, Category!InboxChanged(f) PROVE TagsCurrent'
  BY <1>3 DEF Category!InboxChanged, Category!Happens, Category!taskVars, Category!clientVars
<1>4. CASE Category!Switch
  BY <1>4 DEF Category!Switch, Category!NoListing
<1>5. CASE Category!FilesChanged
  BY <1>5 DEF Category!FilesChanged, Category!Outrun, Category!taskVars, Category!clientVars
<1>6. ASSUME NEW r \in Readers, Category!List(r) PROVE TagsCurrent'
  BY <1>6 DEF Category!List, Category!hostVars, Category!taskVars, Category!clientVars
<1>7. ASSUME NEW r \in Readers, Category!Insert(r) PROVE TagsCurrent'
  BY <1>7 DEF Category!Insert, Category!NoListing, Category!NoRead, Category!hostVars,
     Category!taskVars, Category!clientVars
<1>8. ASSUME NEW r \in Readers, Category!Hit(r) PROVE TagsCurrent'
  BY <1>8 DEF Category!Hit, Category!NoRead, Category!hostVars, Category!taskVars,
     Category!clientVars
<1>9. ASSUME NEW r \in Readers, Category!Fetch(r) PROVE TagsCurrent'
  BY <1>9 DEF Category!Fetch, Category!Described, Category!hostVars, Category!taskVars,
     Category!clientVars
<1>10. ASSUME NEW r \in Readers, Category!Put(r) PROVE TagsCurrent'
  BY <1>10 DEF Category!Put, Category!NoRead, Category!hostVars, Category!taskVars,
     Category!clientVars
<1>11. ASSUME NEW c \in Clients, Category!Begin(c) PROVE TagsCurrent'
  BY <1>11 DEF Category!Begin, Category!Look, Category!NoRead, Category!hostVars,
     Category!taskVars, Category!clientVars
<1>12. ASSUME NEW c \in Clients, Category!Reply(c) PROVE TagsCurrent'
  BY <1>12 DEF Category!Reply, Category!NoRead, Category!hostVars, Category!taskVars,
     Category!clientVars
<1>13. ASSUME NEW c \in Clients, Category!Connect(c) PROVE TagsCurrent'
  BY <1>13 DEF Category!Connect, Category!hostVars, Category!taskVars, Category!clientVars
<1>14. CASE Category!Budget
  BY <1>14 DEF Category!Budget, Category!hostVars, Category!taskVars, Category!clientVars
<1>15. CASE Category!Timer
  BY <1>15 DEF Category!Timer, Category!hostVars, Category!taskVars, Category!clientVars
<1>16. CASE Category!Wake
  BY <1>16 DEF Category!Wake, Category!hostVars, Category!taskVars, Category!clientVars
<1>17. CASE Category!Due
  BY <1>17 DEF Category!Due, Category!hostVars, Category!taskVars, Category!clientVars
<1>18. CASE Category!Take
  BY <1>18 DEF Category!Take, Category!Waiting, Category!hostVars, Category!taskVars,
     Category!clientVars
<1>19. CASE Category!RelistStore
  BY <1>19 DEF Category!RelistStore, Category!NoListing, Category!Counts, Category!hostVars,
     Category!taskVars, Category!clientVars
<1>20. CASE Category!CheckTags
  BY <1>20 DEF Category!CheckTags, Category!Look, Category!NoRead, Category!Waiting,
     Category!hostVars, Category!taskVars, Category!clientVars
<1>21. CASE Category!Tell
  BY <1>21 DEF Category!Tell, Category!NoRead, Category!Waiting, Category!hostVars,
     Category!taskVars, Category!clientVars
<1>22. CASE Category!RelistFetch
  BY <1>22 DEF Category!RelistFetch, Category!hostVars, Category!taskVars, Category!clientVars
<1>23. CASE Category!CheckFails
  BY <1>23 DEF Category!CheckFails, Category!NoRead, Category!hostVars, Category!taskVars,
     Category!clientVars
<1>24. CASE UNCHANGED Category!vars
  BY <1>24 DEF Category!vars, Category!hostVars, Category!taskVars, Category!clientVars
<1> QED
  BY <1>1, <1>2, <1>3, <1>4, <1>5, <1>6, <1>7, <1>8, <1>9, <1>10, <1>11, <1>12, <1>13, <1>14,
     <1>15, <1>16, <1>17, <1>18, <1>19, <1>20, <1>21, <1>22, <1>23, <1>24 DEF Category!Next,
     Category!Reads, Category!Work, Readers
\* At first nothing is listed and nobody reads.
LEMMA InitInvariant == ASSUME Category!Init PROVE IInv
<1>1. Typed
  BY EmptyTypes DEF Category!Init, Typed, HostOK, ListingOK, ReadOK, TaskOK, PendingOK, Readers
<1>2. ReadsKnown
  BY DEF Category!Init, ReadsKnown, Category!NoRead, Category!NoListing, Readers
<1>3. PutsCurrent
  BY DEF Category!Init, PutsCurrent, Category!NoRead, Readers
<1>4. TagsCurrent
  BY DEF Category!Init, TagsCurrent, Category!TagsCurrent, Category!NoListing
<1> QED
  BY <1>1, <1>2, <1>3, <1>4 DEF IInv

\* What a step keeps, together.
LEMMA StepInvariant == ASSUME IInv, [Category!Next]_(Category!vars) PROVE IInv'
<1>1. Typed'
  BY HostStep, ListingStep, ReadStep, TaskStep, PendingStep DEF IInv, Typed
<1> QED
  BY <1>1, KnownStep, PutsStep, TagsStep DEF IInv

\* The invariant the property below rests on.
THEOREM CategoryInvariant == Category!Spec => []IInv
  BY InitInvariant, StepInvariant, PTL DEF Category!Spec

\* Once no notification is due, the tags kept of a listed file are those it has, for any
\* files, clients and edits, and however a read, a re-list and an edit interleave, unless an
\* edit outran the read whose tags it is in (tags, files_changed).
THEOREM TagsCorrect == Category!Spec => []TagsCurrent
<1>1. IInv => TagsCurrent
  BY DEF IInv
<1> QED
  BY CategoryInvariant, <1>1, PTL

-----------------------------------------------------------------------------
(* The passes, LibraryScan. *)

\* What is proved of LibraryScan, of the instance that is run.
PassesFacts == INSTANCE LibraryScanProofs WITH
    MaxEvents <- MaxPassEvents, library <- held, live <- logged,
    index <- listed, nudge <- scanNudge, pass <- sweep, crossed <- met, events <- passEvents

\* Both instances are of the same LibraryScan.
LEMMA SamePasses ==
    /\ Passes!Init => PassesFacts!Init
    /\ Passes!Next => PassesFacts!Next
  BY DEF Passes!BeginReconcile, Passes!BeginScan, Passes!Check, Passes!Delta,
     Passes!DeltaUnread, Passes!Edits, Passes!Finish, Passes!Happens, Passes!Host,
     Passes!HostAnswers, Passes!HostFails, Passes!Index, Passes!Init, Passes!LibrarySwitched,
     Passes!List, Passes!ListAlbums, Passes!Mark, Passes!MeetsPass, Passes!MembershipChanged,
     Passes!Merged, Passes!MergedEditsOnly, Passes!Next, Passes!NoPass, Passes!NoReports,
     Passes!Pass, Passes!PassUnder, Passes!PutBack, Passes!PutBackQuietly, Passes!RatingChanged,
     Passes!Rebuild, Passes!Reconciles, Passes!Record, Passes!Report, Passes!Reported,
     Passes!Reports, Passes!Scanner, Passes!Scopes, Passes!Start, Passes!Stop,
     Passes!TagsChanged, Passes!Take, Passes!TypeOK, Passes!UnnamedTagsChanged, Passes!Validate,
     Passes!ValidateWhenMoved, Passes!Wake, Passes!hostVars, Passes!scanVars, Passes!storeVars,
     Passes!vars, PassesFacts!BeginReconcile, PassesFacts!BeginScan, PassesFacts!Check,
     PassesFacts!Delta, PassesFacts!DeltaUnread, PassesFacts!Edits, PassesFacts!Finish,
     PassesFacts!Happens, PassesFacts!Host, PassesFacts!HostAnswers, PassesFacts!HostFails,
     PassesFacts!Index, PassesFacts!Init, PassesFacts!LibrarySwitched, PassesFacts!List,
     PassesFacts!ListAlbums, PassesFacts!Mark, PassesFacts!MeetsPass,
     PassesFacts!MembershipChanged, PassesFacts!Merged, PassesFacts!MergedEditsOnly,
     PassesFacts!Next, PassesFacts!NoPass, PassesFacts!NoReports, PassesFacts!Pass,
     PassesFacts!PassUnder, PassesFacts!PutBack, PassesFacts!PutBackQuietly,
     PassesFacts!RatingChanged, PassesFacts!Rebuild, PassesFacts!Reconciles, PassesFacts!Record,
     PassesFacts!Report, PassesFacts!Reported, PassesFacts!Reports, PassesFacts!Scanner,
     PassesFacts!Scopes, PassesFacts!Start, PassesFacts!Stop, PassesFacts!TagsChanged,
     PassesFacts!Take, PassesFacts!TypeOK, PassesFacts!UnnamedTagsChanged, PassesFacts!Validate,
     PassesFacts!ValidateWhenMoved, PassesFacts!Wake, PassesFacts!hostVars,
     PassesFacts!scanVars, PassesFacts!storeVars, PassesFacts!vars

\* A behaviour of the passes that are run is one of those the theorems are about.
LEMMA SameSpec == Passes!Spec => PassesFacts!Spec
<1>1. [Passes!Next]_(Passes!vars) => [PassesFacts!Next]_(PassesFacts!vars)
  BY SamePasses DEF Passes!vars, PassesFacts!vars, Passes!hostVars, PassesFacts!hostVars,
     Passes!storeVars, PassesFacts!storeVars, Passes!scanVars, PassesFacts!scanVars
<1> QED
  BY SamePasses, <1>1, PTL DEF Passes!Spec, PassesFacts!Spec

\* Once nothing is reported and no pass runs, the index and the log hold the library, for
\* any paths and commands (relist_library, build_track_index).
THEOREM PassesLog == Passes!Spec => []LogHoldsLibrary
<1>1. PassesFacts!LogHoldsLibrary => LogHoldsLibrary
  BY DEF LogHoldsLibrary, Passes!LogHoldsLibrary, PassesFacts!LogHoldsLibrary,
     Passes!AtRest, PassesFacts!AtRest, Passes!NoReports, PassesFacts!NoReports,
     Passes!NoPass, PassesFacts!NoPass
<1> QED
  BY SameSpec, PassesFacts!LogCorrect, <1>1, PTL

\* An edit MusicBee reported is in the log, or somebody holds it who will file it, for any
\* paths and commands (LibraryEvents, put_back, edited_since).
THEOREM PassesEdits == Passes!Spec => []NoEditLost
<1>1. PassesFacts!NoEditLost => NoEditLost
  BY DEF NoEditLost, Passes!NoEditLost, PassesFacts!NoEditLost,
     Passes!EditsAccounted, PassesFacts!EditsAccounted, Passes!EditsFiled,
     PassesFacts!EditsFiled, Passes!AtRest, PassesFacts!AtRest, Passes!NoReports,
     PassesFacts!NoReports, Passes!NoPass, PassesFacts!NoPass
<1> QED
  BY SameSpec, PassesFacts!EditsCorrect, <1>1, PTL

\* Once nothing is owed the cache is in service, for any paths and commands
\* (MetadataCache::reconcile).
THEOREM PassesService == Passes!Spec => []StaysInService
<1>1. PassesFacts!StaysInService => StaysInService
  BY DEF StaysInService, Passes!StaysInService, PassesFacts!StaysInService,
     Passes!AtRest, PassesFacts!AtRest, Passes!NoReports, PassesFacts!NoReports,
     Passes!NoPass, PassesFacts!NoPass
<1> QED
  BY SameSpec, PassesFacts!ServiceCorrect, <1>1, PTL

-----------------------------------------------------------------------------
(* The covers, Cover. *)

\* Types, a part of the state at a time.
Items == [kept : BOOLEAN, hash : Nat, modified : Nat]
Tables == [covers : [Albums -> Nat], noArt : SUBSET Albums, last : Nat, items : [Singles -> Items]]
Asks == [at : {"none", "timed", "fetched", "stored", "saved"}, hash : Nat, modified : Nat]
Builds == [at : {"idle", "begun", "warmed", "forgotten", "fetching", "pruning", "pruned"},
           scope : {"none", "both", "covers", "delta"}, changed : SUBSET Pictures!Tracks,
           todo : SUBSET Albums, queued : SUBSET (Albums \X Nat), kept : SUBSET Nat]

LibraryOK ==
    /\ now \in Nat /\ artEvents \in Nat /\ artDue \in SUBSET Pictures!Tracks
    /\ art \in [Pictures!Tracks -> Nat] /\ mtime \in [Pictures!Tracks -> Nat]
MemoryOK == covers \in [Albums -> Nat] /\ noArt \in SUBSET Albums /\ items \in [Singles -> Items]
DiskOK == disk \in Tables
BuildOK == build \in Builds
AsksOK == ask \in [Pictures!Tracks -> Asks]
CoversTyped == LibraryOK /\ MemoryOK /\ DiskOK /\ BuildOK /\ AsksOK

\* No file is later than the clock, and no time kept later than its file.
Clocks ==
    /\ disk.last <= now /\ \A t \in Pictures!Tracks : mtime[t] <= now
    /\ \A s \in Singles : /\ items[s].modified <= mtime[s]
                          /\ disk.items[s].modified <= mtime[s]
                          /\ ask[s].modified <= mtime[s]

\* Only a pass of the scanner holds reports, and only a build has albums on their way.
Steps ==
    /\ build.at = "idle" => build.scope = "none"
    /\ build.scope # "delta" => build.changed = {}
    /\ build.at # "fetching" => build.queued = {}

\* Reports a pass holds, while memory and the tables may still be as before them.
InMemory(t) == t \in build.changed /\ build.at \in {"begun", "warmed"}
OnDisk(t) == t \in build.changed /\ build.at \in {"begun", "warmed", "forgotten"}

\* A change nothing reported is later than the last check until a pass lists again.
Unseen ==
    \A a \in Albums \cap unseen : a \notin artOvertaken =>
        build.at \in {"idle", "begun"} /\ disk.last <= mtime[a]

\* What is on its way to be kept is current: what a build holds, what a request holds.
Queued == \A q \in build.queued : q[1] \notin artDue \cup artOvertaken => q[2] = art[q[1]]
AlbumsAsked == \A a \in Albums \ artOvertaken : ask[a].at # "none" => ask[a].hash = art[a]
SinglesAsked ==
    \A s \in Singles \ artOvertaken :
        /\ ask[s].at # "none" => ask[s].modified = mtime[s]
        /\ ask[s].at \in {"fetched", "stored", "saved"} => ask[s].hash = art[s]

\* Of an album: what memory shows, and what the tables will show again.
Right(cover, none, a) == cover \in {0, art[a]} /\ (none => art[a] = 0)
Remembered ==
    \A a \in Albums \ (artDue \cup unseen \cup artOvertaken) :
        ~InMemory(a) => Right(covers[a], a \in noArt, a)
Stored ==
    \A a \in Albums \ (artDue \cup artOvertaken) :
        ~OnDisk(a) /\ Pictures!Current(a) => Right(disk.covers[a], a \in disk.noArt, a)

\* A single's table entry is memory's, none, or the one its request has just written.
Entries ==
    \A s \in Singles :
        disk.items[s] \in {Pictures!None, IF ask[s].at = "saved" THEN Pictures!Kept(s)
                ELSE items[s]}

\* A cover kept of a single answers for its file.
Answers(item, s) == item.kept /\ item.modified = mtime[s] => item.hash = art[s]
SinglesKept ==
    \A s \in Singles \ (artDue \cup artOvertaken) :
        ~InMemory(s) => Answers(items[s], s) /\ Answers(disk.items[s], s)

\* The files named by item covers, and those about to be.
Named ==
    ~crossed => /\ \A s \in Singles : items[s].hash \in coverFiles \cup {0}
                /\ \A t \in Pictures!Tracks : ask[t].at \in {"stored", "saved"}
                        => ask[t].hash \in coverFiles \cup {0}

Watched == Clocks /\ Steps /\ Unseen
Coming == Queued /\ AlbumsAsked /\ SinglesAsked
CoversIInv == CoversTyped /\ Watched /\ Coming /\ Remembered /\ Stored /\ Entries
        /\ SinglesKept /\ Named

\* What remove_items leaves of each entry, in memory and in the tables.
LEMMA EntriesDropped ==
    ASSUME CoversTyped, NEW keys, Pictures!DropItems(keys)
    PROVE  /\ items' \in [Singles -> Items] /\ disk' \in Tables
           /\ disk'.covers = disk.covers /\ disk'.noArt = disk.noArt /\ disk'.last = disk.last
           /\ \A s \in Singles :
                 \/ items'[s] = items[s] /\ disk'.items[s] = disk.items[s]
                 \/ items'[s] = Pictures!None /\ disk'.items[s] = Pictures!None
           /\ \A s \in keys \cap Singles : ~items'[s].kept
<1> DEFINE gone == IF \E s \in keys \cap Singles : items[s].kept THEN keys ELSE {}
<1>1. /\ items' = [s \in Singles |-> IF s \in gone THEN Pictures!None ELSE items[s]]
      /\ disk' = [disk EXCEPT !.items = [s \in Singles |-> IF s \in gone THEN Pictures!None
              ELSE @[s]]]
  BY DEF Pictures!DropItems
<1>2. \A s \in keys \cap Singles : s \in gone \/ ~items[s].kept
  OBVIOUS
<1> HIDE DEF gone
<1>3. /\ items \in [Singles -> Items] /\ disk \in Tables /\ Pictures!None \in Items
        /\ ~Pictures!None.kept
  BY DEF CoversTyped, MemoryOK, DiskOK, Pictures!None, Items
<1>4. disk' = [disk EXCEPT !.items = [s \in Singles |-> IF s \in gone THEN Pictures!None
        ELSE disk.items[s]]]
  BY <1>1
<1>5. disk.items \in [Singles -> Items]
  BY <1>3 DEF Tables
<1>6. /\ disk' \in Tables /\ disk'.covers = disk.covers /\ disk'.noArt = disk.noArt
      /\ disk'.last = disk.last
      /\ disk'.items = [s \in Singles |-> IF s \in gone THEN Pictures!None ELSE disk.items[s]]
  BY <1>3, <1>4, <1>5 DEF Tables
<1>7. items' \in [Singles -> Items]
  BY <1>1, <1>3
<1>8. ASSUME NEW s \in Singles
      PROVE  /\ \/ items'[s] = items[s] /\ disk'.items[s] = disk.items[s]
                \/ items'[s] = Pictures!None /\ disk'.items[s] = Pictures!None
             /\ s \in keys => ~items'[s].kept
  <2>1. /\ items'[s] = IF s \in gone THEN Pictures!None ELSE items[s]
        /\ disk'.items[s] = IF s \in gone THEN Pictures!None ELSE disk.items[s]
    BY <1>1, <1>6
  <2> QED
    BY <1>2, <1>3, <2>1
<1>9. \A s \in keys \cap Singles : ~items'[s].kept
  BY <1>8
<1> QED
  BY <1>6, <1>7, <1>8, <1>9

\* A rebuild and a scanner's pass drop entries, or leave them all alone.
LEMMA ReconcileDrops ==
    ASSUME Pictures!Reconcile
    PROVE  (\E keys : Pictures!DropItems(keys)) \/ UNCHANGED <<items, disk>>
  BY DEF Pictures!Reconcile

\* The library keeps its type.
LEMMA LibraryType ==
    ASSUME CoversTyped, Pictures!Next
    PROVE  LibraryOK'
<1> USE DEF CoversTyped, LibraryOK
<1>1. CASE Pictures!Tick
  BY <1>1 DEF Pictures!Tick, Pictures!trackVars, Pictures!memory, Pictures!history
<1>2. CASE Pictures!Delta
  BY <1>2 DEF Pictures!Delta, Pictures!trackVars, Pictures!memory, Pictures!history
<1>3. ASSUME NEW t \in Pictures!Tracks, Pictures!Change(t) PROVE LibraryOK'
  BY <1>3 DEF Pictures!Change, Pictures!trackVars, Pictures!memory, Pictures!history
<1>4. CASE Pictures!Restart
  BY <1>4 DEF Pictures!Restart, Pictures!trackVars, Pictures!memory, Pictures!history
<1>5. CASE Pictures!Reconcile \/ Pictures!ListFails \/ Pictures!WarmUp \/ Pictures!Forget
        \/ Pictures!Begin \/ Pictures!Drained \/ Pictures!Prune \/ Pictures!Finish
                \/ Pictures!Stop
  BY <1>5 DEF Pictures!Reconcile, Pictures!ListFails, Pictures!WarmUp, Pictures!Forget,
     Pictures!Begin, Pictures!Drained, Pictures!Prune, Pictures!Finish, Pictures!Stop,
     Pictures!Scope, Pictures!DropItems, Pictures!Current, Pictures!Forgotten, Pictures!Missing,
     Pictures!StartPersisted, Pictures!Persisted, Pictures!Referenced, Pictures!trackVars,
     Pictures!memory, Pictures!history
<1>6. ASSUME NEW t \in Pictures!Tracks, Pictures!StoreFile(t) PROVE LibraryOK'
  BY <1>6 DEF Pictures!StoreFile, Pictures!trackVars, Pictures!memory, Pictures!history
<1>7. ASSUME NEW a \in Albums, Pictures!Fetch(a) \/ Pictures!AskAlbum(a)
        \/ Pictures!IndexAlbum(a) PROVE LibraryOK'
  BY <1>7 DEF Pictures!Fetch, Pictures!AskAlbum, Pictures!IndexAlbum, Pictures!Checkpoint,
     Pictures!trackVars, Pictures!memory, Pictures!history
<1>8. ASSUME NEW a \in Albums, NEW hash \in 1 .. MaxArtEvents + 1, Pictures!Work(a,
        hash) PROVE LibraryOK'
  BY <1>8 DEF Pictures!Work, Pictures!Checkpoint, Pictures!trackVars, Pictures!memory,
     Pictures!history
<1>9. ASSUME NEW s \in Singles, Pictures!AskItem(s) \/ Pictures!FetchItem(s)
        \/ Pictures!SaveItem(s) \/ Pictures!IndexItem(s)
      PROVE  LibraryOK'
  BY <1>9 DEF Pictures!AskItem, Pictures!FetchItem, Pictures!SaveItem, Pictures!IndexItem,
     Pictures!Kept, Pictures!trackVars, Pictures!memory, Pictures!history
<1> HIDE DEF CoversTyped, LibraryOK
<1> QED
  BY <1>1, <1>2, <1>3, <1>4, <1>5, <1>6, <1>7, <1>8, <1>9 DEF Pictures!Next

\* So does memory.
LEMMA MemoryType ==
    ASSUME CoversTyped, Pictures!Next
    PROVE  MemoryOK'
<1> USE DEF CoversTyped, LibraryOK, MemoryOK, DiskOK, BuildOK, AsksOK, Pictures!None,
   Pictures!Tracks, Items, Tables, Asks, Builds
<1>1. CASE Pictures!Reconcile
  <2>1. items' \in [Singles -> Items] /\ disk' \in Tables
    <3>1. CASE UNCHANGED <<items, disk>>
      BY <3>1
    <3>2. ASSUME NEW keys, Pictures!DropItems(keys) PROVE items' \in [Singles -> Items]
            /\ disk' \in Tables
      <4> HIDE DEF CoversTyped, MemoryOK, DiskOK, Items, Tables, Pictures!None
      <4> QED
        BY <3>2, EntriesDropped
    <3> QED
      BY <1>1, <3>1, <3>2, ReconcileDrops
  <2>3. noArt' \in SUBSET Albums /\ covers' = covers
    BY <1>1 DEF Pictures!Reconcile
  <2> QED
    BY <2>1, <2>3
<1>2. CASE Pictures!WarmUp
  BY <1>2 DEF Pictures!WarmUp, Pictures!Current, Pictures!trackVars, Pictures!memory,
     Pictures!history
<1>3. CASE Pictures!Forget
  BY <1>3 DEF Pictures!Forget, Pictures!DropItems, Pictures!Forgotten, Pictures!trackVars,
     Pictures!memory, Pictures!history
<1>4. CASE Pictures!Restart
  BY <1>4 DEF Pictures!Restart, Pictures!trackVars, Pictures!memory, Pictures!history
<1>5. ASSUME NEW a \in Albums, Pictures!Fetch(a) PROVE MemoryOK'
  BY <1>5 DEF Pictures!Fetch, Pictures!Checkpoint, Pictures!trackVars, Pictures!memory,
     Pictures!history
<1>6. ASSUME NEW a \in Albums, Pictures!IndexAlbum(a) PROVE MemoryOK'
  BY <1>6 DEF Pictures!IndexAlbum, Pictures!trackVars, Pictures!memory, Pictures!history
<1>7. ASSUME NEW a \in Albums, NEW hash \in 1 .. MaxArtEvents + 1, Pictures!Work(a,
        hash) PROVE MemoryOK'
  BY <1>7 DEF Pictures!Work, Pictures!Checkpoint, Pictures!trackVars, Pictures!memory,
     Pictures!history
<1>8. ASSUME NEW s \in Singles, Pictures!IndexItem(s) PROVE MemoryOK'
  BY <1>8 DEF Pictures!IndexItem, Pictures!Kept, Pictures!trackVars, Pictures!memory,
     Pictures!history
<1>9. CASE Pictures!Tick \/ Pictures!Delta \/ Pictures!ListFails \/ Pictures!Begin
        \/ Pictures!Drained \/ Pictures!Prune \/ Pictures!Finish \/ Pictures!Stop
  BY <1>9 DEF Pictures!Tick, Pictures!Delta, Pictures!ListFails, Pictures!Begin, Pictures!Drained,
     Pictures!Prune, Pictures!Finish, Pictures!Stop, Pictures!Missing, Pictures!StartPersisted,
     Pictures!Persisted, Pictures!Referenced, Pictures!trackVars, Pictures!memory,
     Pictures!history
<1>10. ASSUME NEW t \in Pictures!Tracks, Pictures!Change(t)
        \/ Pictures!StoreFile(t) PROVE MemoryOK'
  BY <1>10 DEF Pictures!Change, Pictures!StoreFile, Pictures!trackVars, Pictures!memory,
     Pictures!history
<1>11. ASSUME NEW a \in Albums, Pictures!AskAlbum(a) PROVE MemoryOK'
  BY <1>11 DEF Pictures!AskAlbum, Pictures!trackVars, Pictures!memory, Pictures!history
<1>12. ASSUME NEW s \in Singles, Pictures!AskItem(s) \/ Pictures!FetchItem(s)
        \/ Pictures!SaveItem(s) PROVE MemoryOK'
  BY <1>12 DEF Pictures!AskItem, Pictures!FetchItem, Pictures!SaveItem, Pictures!Kept,
     Pictures!trackVars, Pictures!memory, Pictures!history
<1> HIDE DEF CoversTyped, LibraryOK, MemoryOK, DiskOK, BuildOK, AsksOK, Pictures!None,
   Pictures!Tracks, Items, Tables, Asks, Builds
<1> QED
  BY <1>1, <1>2, <1>3, <1>4, <1>5, <1>6, <1>7, <1>8, <1>9, <1>10, <1>11, <1>12 DEF Pictures!Next

\* So do the tables.
LEMMA DiskType ==
    ASSUME CoversTyped, Pictures!Next
    PROVE  DiskOK'
<1> USE DEF CoversTyped, LibraryOK, MemoryOK, DiskOK, AsksOK, Pictures!None, Pictures!Tracks,
   Items, Tables, Asks, Builds
<1>1. CASE Pictures!Reconcile
  <2>1. items' \in [Singles -> Items] /\ disk' \in Tables
    <3>1. CASE UNCHANGED <<items, disk>>
      BY <3>1
    <3>2. ASSUME NEW keys, Pictures!DropItems(keys) PROVE items' \in [Singles -> Items]
            /\ disk' \in Tables
      <4> HIDE DEF CoversTyped, MemoryOK, DiskOK, Items, Tables, Pictures!None
      <4> QED
        BY <3>2, EntriesDropped
    <3> QED
      BY <1>1, <3>1, <3>2, ReconcileDrops
  <2> QED
    BY <2>1
<1>2. CASE Pictures!Forget
  BY <1>2 DEF Pictures!Forget, Pictures!DropItems, Pictures!Forgotten, Pictures!trackVars,
     Pictures!memory, Pictures!history
<1>3. CASE Pictures!Begin
  BY <1>3 DEF Pictures!Begin, Pictures!Missing, Pictures!StartPersisted, Pictures!Persisted,
     Pictures!trackVars, Pictures!memory, Pictures!history
<1>4. CASE Pictures!Finish
  BY <1>4 DEF Pictures!Finish, Pictures!Persisted, Pictures!trackVars, Pictures!memory,
     Pictures!history
<1>5. ASSUME NEW a \in Albums, Pictures!Fetch(a) PROVE DiskOK'
  BY <1>5 DEF Pictures!Fetch, Pictures!Checkpoint, Pictures!trackVars, Pictures!memory,
     Pictures!history
<1>6. ASSUME NEW a \in Albums, NEW hash \in 1 .. MaxArtEvents + 1, Pictures!Work(a,
        hash) PROVE DiskOK'
  <2>1. disk' = disk \/ disk' = [disk EXCEPT !.covers[a] = hash]
    BY <1>6 DEF Pictures!Work, Pictures!Checkpoint
  <2>2. hash \in Nat /\ [disk.covers EXCEPT ![a] = hash] \in [Albums -> Nat]
    BY <2>1
  <2>3. [disk EXCEPT !.covers[a] = hash]
            = [disk EXCEPT !.covers = [disk.covers EXCEPT ![a] = hash]]
    OBVIOUS
  <2> QED
    BY <2>1, <2>2, <2>3
<1>7. ASSUME NEW s \in Singles, Pictures!SaveItem(s) PROVE DiskOK'
  BY <1>7 DEF Pictures!SaveItem, Pictures!Kept, Pictures!trackVars, Pictures!memory,
     Pictures!history
<1>8. CASE Pictures!Tick \/ Pictures!Delta \/ Pictures!ListFails \/ Pictures!WarmUp
        \/ Pictures!Drained \/ Pictures!Prune \/ Pictures!Stop \/ Pictures!Restart
  BY <1>8 DEF Pictures!Tick, Pictures!Delta, Pictures!ListFails, Pictures!WarmUp,
     Pictures!Drained, Pictures!Prune, Pictures!Stop, Pictures!Restart, Pictures!Current,
     Pictures!Referenced, Pictures!trackVars, Pictures!memory, Pictures!history
<1>9. ASSUME NEW t \in Pictures!Tracks, Pictures!Change(t) \/ Pictures!StoreFile(t) PROVE DiskOK'
  BY <1>9 DEF Pictures!Change, Pictures!StoreFile, Pictures!trackVars, Pictures!memory,
     Pictures!history
<1>10. ASSUME NEW a \in Albums, Pictures!AskAlbum(a) \/ Pictures!IndexAlbum(a) PROVE DiskOK'
  BY <1>10 DEF Pictures!AskAlbum, Pictures!IndexAlbum, Pictures!trackVars, Pictures!memory,
     Pictures!history
<1>11. ASSUME NEW s \in Singles, Pictures!AskItem(s) \/ Pictures!FetchItem(s)
        \/ Pictures!IndexItem(s) PROVE DiskOK'
  BY <1>11 DEF Pictures!AskItem, Pictures!FetchItem, Pictures!IndexItem, Pictures!Kept,
     Pictures!trackVars, Pictures!memory, Pictures!history
<1> HIDE DEF CoversTyped, LibraryOK, MemoryOK, DiskOK, AsksOK, Pictures!None, Pictures!Tracks,
   Items, Tables, Asks, Builds
<1> QED
  BY <1>1, <1>2, <1>3, <1>4, <1>5, <1>6, <1>7, <1>8, <1>9, <1>10, <1>11 DEF Pictures!Next

\* So does the pass.
LEMMA BuildType ==
    ASSUME CoversTyped, Pictures!Next
    PROVE  BuildOK'
<1> USE DEF CoversTyped, LibraryOK, MemoryOK, BuildOK, Pictures!Idle, Pictures!Tracks, Items,
   Tables, Asks, Builds
<1>1. CASE Pictures!Reconcile
  BY <1>1 DEF Pictures!Reconcile, Pictures!Scope, Pictures!DropItems, Pictures!trackVars,
     Pictures!memory, Pictures!history
<1>2. CASE Pictures!Delta
  BY <1>2 DEF Pictures!Delta, Pictures!trackVars, Pictures!memory, Pictures!history
<1>3. CASE Pictures!ListFails
  BY <1>3 DEF Pictures!ListFails, Pictures!trackVars, Pictures!memory, Pictures!history
<1>4. CASE Pictures!WarmUp
  BY <1>4 DEF Pictures!WarmUp, Pictures!Current, Pictures!trackVars, Pictures!memory,
     Pictures!history
<1>5. CASE Pictures!Forget
  BY <1>5 DEF Pictures!Forget, Pictures!DropItems, Pictures!Forgotten, Pictures!trackVars,
     Pictures!memory, Pictures!history
<1>6. CASE Pictures!Begin
  BY <1>6 DEF Pictures!Begin, Pictures!Missing, Pictures!StartPersisted, Pictures!Persisted,
     Pictures!trackVars, Pictures!memory, Pictures!history
<1>7. CASE Pictures!Drained
  <2>1. Pictures!Referenced \in SUBSET Nat
    BY DEF Pictures!Referenced
  <2> QED
    BY <1>7, <2>1 DEF Pictures!Drained
<1>8. CASE Pictures!Prune
  BY <1>8 DEF Pictures!Prune, Pictures!Referenced, Pictures!trackVars, Pictures!memory,
     Pictures!history
<1>9. CASE Pictures!Finish
  BY <1>9 DEF Pictures!Finish, Pictures!Persisted, Pictures!trackVars, Pictures!memory,
     Pictures!history
<1>10. CASE Pictures!Restart
  BY <1>10 DEF Pictures!Restart, Pictures!trackVars, Pictures!memory, Pictures!history
<1>11. ASSUME NEW a \in Albums, Pictures!Fetch(a) PROVE BuildOK'
  <2>1. build.queued \cup {<<a, art[a]>>} \in SUBSET (Albums \X Nat)
    OBVIOUS
  <2>2. \E q \in {build.queued, build.queued \cup {<<a, art[a]>>}} :
            build' = [build EXCEPT !.todo = build.todo \ {a}, !.queued = q]
    <3>1. [build EXCEPT !.todo = build.todo \ {a}]
              = [build EXCEPT !.todo = build.todo \ {a}, !.queued = build.queued]
      OBVIOUS
    <3> QED
      BY <1>11, <3>1 DEF Pictures!Fetch
  <2>3. ASSUME NEW q \in SUBSET (Albums \X Nat)
        PROVE  [build EXCEPT !.todo = build.todo \ {a}, !.queued = q] \in Builds
    OBVIOUS
  <2>4. build.queued \in SUBSET (Albums \X Nat)
    OBVIOUS
  <2> HIDE DEF Builds
  <2> QED
    BY <2>1, <2>2, <2>3, <2>4
<1>12. ASSUME NEW a \in Albums, NEW hash \in 1 .. MaxArtEvents + 1, Pictures!Work(a,
        hash) PROVE BuildOK'
  BY <1>12 DEF Pictures!Work, Pictures!Checkpoint, Pictures!trackVars, Pictures!memory,
     Pictures!history
<1>13. CASE Pictures!Tick \/ Pictures!Stop
  BY <1>13 DEF Pictures!Tick, Pictures!Stop, Pictures!trackVars, Pictures!memory, Pictures!history
<1>14. ASSUME NEW t \in Pictures!Tracks, Pictures!Change(t)
        \/ Pictures!StoreFile(t) PROVE BuildOK'
  BY <1>14 DEF Pictures!Change, Pictures!StoreFile, Pictures!trackVars, Pictures!memory,
     Pictures!history
<1>15. ASSUME NEW a \in Albums, Pictures!AskAlbum(a) \/ Pictures!IndexAlbum(a) PROVE BuildOK'
  BY <1>15 DEF Pictures!AskAlbum, Pictures!IndexAlbum, Pictures!trackVars, Pictures!memory,
     Pictures!history
<1>16. ASSUME NEW s \in Singles, Pictures!AskItem(s) \/ Pictures!FetchItem(s)
        \/ Pictures!SaveItem(s) \/ Pictures!IndexItem(s)
       PROVE  BuildOK'
  BY <1>16 DEF Pictures!AskItem, Pictures!FetchItem, Pictures!SaveItem, Pictures!IndexItem,
     Pictures!Kept, Pictures!trackVars, Pictures!memory, Pictures!history
<1> HIDE DEF CoversTyped, LibraryOK, MemoryOK, BuildOK, Pictures!Idle, Pictures!Tracks, Items,
   Tables, Asks, Builds
<1> QED
  BY <1>1, <1>2, <1>3, <1>4, <1>5, <1>6, <1>7, <1>8, <1>9, <1>10, <1>11, <1>12, <1>13, <1>14,
     <1>15, <1>16 DEF Pictures!Next

\* So do the requests.
LEMMA AsksType ==
    ASSUME CoversTyped, Pictures!Next
    PROVE  AsksOK'
<1> USE DEF CoversTyped, LibraryOK, AsksOK, Pictures!NoAsk, Pictures!Tracks, Items, Tables, Asks,
   Builds
<1>1. CASE Pictures!Restart
  BY <1>1 DEF Pictures!Restart, Pictures!trackVars, Pictures!memory, Pictures!history
<1>2. ASSUME NEW t \in Pictures!Tracks, Pictures!StoreFile(t) PROVE AsksOK'
  BY <1>2 DEF Pictures!StoreFile, Pictures!trackVars, Pictures!memory, Pictures!history
<1>3. ASSUME NEW a \in Albums, Pictures!AskAlbum(a) PROVE AsksOK'
  BY <1>3 DEF Pictures!AskAlbum, Pictures!trackVars, Pictures!memory, Pictures!history
<1>4. ASSUME NEW a \in Albums, Pictures!IndexAlbum(a) PROVE AsksOK'
  BY <1>4 DEF Pictures!IndexAlbum, Pictures!trackVars, Pictures!memory, Pictures!history
<1>5. ASSUME NEW s \in Singles, Pictures!AskItem(s) PROVE AsksOK'
  BY <1>5 DEF Pictures!AskItem, Pictures!trackVars, Pictures!memory, Pictures!history
<1>6. ASSUME NEW s \in Singles, Pictures!FetchItem(s) PROVE AsksOK'
  BY <1>6 DEF Pictures!FetchItem, Pictures!trackVars, Pictures!memory, Pictures!history
<1>7. ASSUME NEW s \in Singles, Pictures!SaveItem(s) PROVE AsksOK'
  BY <1>7 DEF Pictures!SaveItem, Pictures!Kept, Pictures!trackVars, Pictures!memory,
     Pictures!history
<1>8. ASSUME NEW s \in Singles, Pictures!IndexItem(s) PROVE AsksOK'
  BY <1>8 DEF Pictures!IndexItem, Pictures!Kept, Pictures!trackVars, Pictures!memory,
     Pictures!history
<1>9. CASE Pictures!Tick \/ Pictures!Reconcile \/ Pictures!Delta \/ Pictures!ListFails
        \/ Pictures!WarmUp \/ Pictures!Forget \/ Pictures!Begin \/ Pictures!Drained
                \/ Pictures!Prune \/ Pictures!Finish \/ Pictures!Stop
  BY <1>9 DEF Pictures!Tick, Pictures!Reconcile, Pictures!Delta, Pictures!ListFails,
     Pictures!WarmUp, Pictures!Forget, Pictures!Begin, Pictures!Drained, Pictures!Prune,
     Pictures!Finish, Pictures!Stop, Pictures!Scope, Pictures!DropItems, Pictures!Current,
     Pictures!Forgotten, Pictures!Missing, Pictures!StartPersisted, Pictures!Persisted,
     Pictures!Referenced, Pictures!trackVars, Pictures!memory, Pictures!history
<1>10. ASSUME NEW t \in Pictures!Tracks, Pictures!Change(t) PROVE AsksOK'
  BY <1>10 DEF Pictures!Change, Pictures!trackVars, Pictures!memory, Pictures!history
<1>11. ASSUME NEW a \in Albums, Pictures!Fetch(a) PROVE AsksOK'
  BY <1>11 DEF Pictures!Fetch, Pictures!Checkpoint, Pictures!trackVars, Pictures!memory,
     Pictures!history
<1>12. ASSUME NEW a \in Albums, NEW hash \in 1 .. MaxArtEvents + 1, Pictures!Work(a,
        hash) PROVE AsksOK'
  BY <1>12 DEF Pictures!Work, Pictures!Checkpoint, Pictures!trackVars, Pictures!memory,
     Pictures!history
<1> HIDE DEF CoversTyped, LibraryOK, AsksOK, Pictures!NoAsk, Pictures!Tracks, Items, Tables, Asks,
   Builds
<1> QED
  BY <1>1, <1>2, <1>3, <1>4, <1>5, <1>6, <1>7, <1>8, <1>9, <1>10, <1>11, <1>12 DEF Pictures!Next

\* What a rebuild and a scanner's pass do to the entries: each stays, or goes from both.
Lessened ==
    /\ disk'.covers = disk.covers /\ disk'.noArt = disk.noArt /\ disk'.last = disk.last
    /\ \A s \in Singles :
          \/ items'[s] = items[s] /\ disk'.items[s] = disk.items[s]
          \/ items'[s] = Pictures!None /\ disk'.items[s] = Pictures!None

\* A reconcile only takes entries away, from memory and from the table alike.
LEMMA ReconcileLessens ==
    ASSUME CoversTyped, Pictures!Reconcile
    PROVE  Lessened
<1>1. CASE UNCHANGED <<items, disk>>
  BY <1>1 DEF Lessened
<1>2. ASSUME NEW keys, Pictures!DropItems(keys) PROVE Lessened
  BY <1>2, EntriesDropped DEF Lessened
<1> QED
  BY <1>1, <1>2, ReconcileDrops

\* A pass of the scanner leaves memory no entry of what was reported.
LEMMA ForgetLessens ==
    ASSUME CoversTyped, Pictures!Forget
    PROVE  Lessened /\ \A s \in build.changed \cap Singles : ~items'[s].kept
<1>1. Pictures!DropItems(build.changed)
  BY DEF Pictures!Forget, Pictures!Forgotten
<1> QED
  BY <1>1, EntriesDropped DEF Lessened

\* The clocks.
LEMMA ClocksStep ==
    ASSUME CoversIInv, Pictures!Next
    PROVE  Clocks'
<1> USE DEF CoversIInv, Watched, Clocks, Pictures!None, Pictures!NoAsk, Pictures!Persisted,
   CoversTyped, LibraryOK, MemoryOK, DiskOK, BuildOK, AsksOK, Pictures!Tracks, Items, Tables,
   Asks, Builds
<1>1. CASE Pictures!Tick
  BY <1>1 DEF Pictures!Tick, Pictures!trackVars, Pictures!memory, Pictures!history
<1>2. CASE Pictures!Reconcile
  BY <1>2, ReconcileLessens DEF Lessened, Pictures!Reconcile, Pictures!Scope, Pictures!trackVars,
     Pictures!memory, Pictures!history
<1>3. CASE Pictures!Forget
  BY <1>3, ForgetLessens DEF Lessened, Pictures!Forget, Pictures!Forgotten, Pictures!trackVars,
     Pictures!memory, Pictures!history
<1>4. CASE Pictures!Begin
  BY <1>4 DEF Pictures!Begin, Pictures!Missing, Pictures!StartPersisted, Pictures!Persisted,
     Pictures!trackVars, Pictures!memory, Pictures!history
<1>5. CASE Pictures!Finish
  BY <1>5 DEF Pictures!Finish, Pictures!Persisted, Pictures!trackVars, Pictures!memory,
     Pictures!history
<1>6. CASE Pictures!Restart
  BY <1>6 DEF Pictures!Restart, Pictures!trackVars, Pictures!memory, Pictures!history
<1>7. ASSUME NEW t \in Pictures!Tracks, Pictures!Change(t) PROVE Clocks'
  BY <1>7 DEF Pictures!Change, Pictures!trackVars, Pictures!memory, Pictures!history
<1>8. ASSUME NEW t \in Pictures!Tracks, Pictures!StoreFile(t) PROVE Clocks'
  BY <1>8 DEF Pictures!StoreFile, Pictures!trackVars, Pictures!memory, Pictures!history
<1>9. ASSUME NEW a \in Albums, Pictures!Fetch(a) PROVE Clocks'
  BY <1>9 DEF Pictures!Fetch, Pictures!Checkpoint, Pictures!trackVars, Pictures!memory,
     Pictures!history
<1>10. ASSUME NEW a \in Albums, Pictures!AskAlbum(a) PROVE Clocks'
  BY <1>10 DEF Pictures!AskAlbum, Pictures!trackVars, Pictures!memory, Pictures!history
<1>11. ASSUME NEW a \in Albums, Pictures!IndexAlbum(a) PROVE Clocks'
  BY <1>11 DEF Pictures!IndexAlbum, Pictures!trackVars, Pictures!memory, Pictures!history
<1>12. ASSUME NEW a \in Albums, NEW hash \in 1 .. MaxArtEvents + 1, Pictures!Work(a,
        hash) PROVE Clocks'
  BY <1>12 DEF Pictures!Work, Pictures!Checkpoint, Pictures!trackVars, Pictures!memory,
     Pictures!history
<1>13. ASSUME NEW s \in Singles, Pictures!AskItem(s) PROVE Clocks'
  BY <1>13 DEF Pictures!AskItem, Pictures!trackVars, Pictures!memory, Pictures!history
<1>14. ASSUME NEW s \in Singles, Pictures!FetchItem(s) PROVE Clocks'
  BY <1>14 DEF Pictures!FetchItem, Pictures!trackVars, Pictures!memory, Pictures!history
<1>15. ASSUME NEW s \in Singles, Pictures!SaveItem(s) PROVE Clocks'
  BY <1>15 DEF Pictures!SaveItem, Pictures!Kept, Pictures!trackVars, Pictures!memory,
     Pictures!history
<1>16. ASSUME NEW s \in Singles, Pictures!IndexItem(s) PROVE Clocks'
  BY <1>16 DEF Pictures!IndexItem, Pictures!Kept, Pictures!trackVars, Pictures!memory,
     Pictures!history
<1>17. CASE Pictures!Delta \/ Pictures!ListFails \/ Pictures!WarmUp \/ Pictures!Drained
        \/ Pictures!Prune \/ Pictures!Stop
  BY <1>17 DEF Pictures!Delta, Pictures!ListFails, Pictures!WarmUp, Pictures!Drained,
     Pictures!Prune, Pictures!Stop, Pictures!Current, Pictures!Referenced, Pictures!trackVars,
     Pictures!memory, Pictures!history
<1> HIDE DEF CoversIInv, Watched, Clocks, Pictures!None, Pictures!NoAsk, Pictures!Persisted,
   CoversTyped, LibraryOK, MemoryOK, DiskOK, BuildOK, AsksOK, Pictures!Tracks, Items, Tables,
   Asks, Builds
<1> QED
  BY <1>1, <1>2, <1>3, <1>4, <1>5, <1>6, <1>7, <1>8, <1>9, <1>10, <1>11, <1>12, <1>13, <1>14,
     <1>15, <1>16, <1>17 DEF Pictures!Next

\* The steps of a pass.
LEMMA StepsStep ==
    ASSUME CoversIInv, Pictures!Next
    PROVE  Steps'
<1> USE DEF CoversIInv, Watched, Steps, Pictures!Idle, CoversTyped, LibraryOK, MemoryOK, DiskOK,
   BuildOK, AsksOK, Pictures!Tracks, Items, Tables, Asks, Builds
<1>1. CASE Pictures!Reconcile
  BY <1>1, ReconcileLessens DEF Lessened, Pictures!Reconcile, Pictures!Scope, Pictures!trackVars,
     Pictures!memory, Pictures!history
<1>2. CASE Pictures!Delta
  BY <1>2 DEF Pictures!Delta, Pictures!trackVars, Pictures!memory, Pictures!history
<1>3. CASE Pictures!ListFails
  BY <1>3 DEF Pictures!ListFails, Pictures!trackVars, Pictures!memory, Pictures!history
<1>4. CASE Pictures!WarmUp
  BY <1>4 DEF Pictures!WarmUp, Pictures!Current, Pictures!trackVars, Pictures!memory,
     Pictures!history
<1>5. CASE Pictures!Forget
  BY <1>5, ForgetLessens DEF Lessened, Pictures!Forget, Pictures!Forgotten, Pictures!trackVars,
     Pictures!memory, Pictures!history
<1>6. CASE Pictures!Begin
  BY <1>6 DEF Pictures!Begin, Pictures!Missing, Pictures!StartPersisted, Pictures!Persisted,
     Pictures!trackVars, Pictures!memory, Pictures!history
<1>7. CASE Pictures!Drained
  BY <1>7 DEF Pictures!Drained, Pictures!Referenced, Pictures!trackVars, Pictures!memory,
     Pictures!history
<1>8. CASE Pictures!Prune
  BY <1>8 DEF Pictures!Prune, Pictures!Referenced, Pictures!trackVars, Pictures!memory,
     Pictures!history
<1>9. CASE Pictures!Finish
  BY <1>9 DEF Pictures!Finish, Pictures!Persisted, Pictures!trackVars, Pictures!memory,
     Pictures!history
<1>10. CASE Pictures!Restart
  BY <1>10 DEF Pictures!Restart, Pictures!trackVars, Pictures!memory, Pictures!history
<1>11. ASSUME NEW a \in Albums, Pictures!Fetch(a) PROVE Steps'
  BY <1>11 DEF Pictures!Fetch, Pictures!Checkpoint, Pictures!trackVars, Pictures!memory,
     Pictures!history
<1>12. ASSUME NEW a \in Albums, NEW hash \in 1 .. MaxArtEvents + 1, Pictures!Work(a,
        hash) PROVE Steps'
  BY <1>12 DEF Pictures!Work, Pictures!Checkpoint, Pictures!trackVars, Pictures!memory,
     Pictures!history
<1>13. CASE Pictures!Tick \/ Pictures!Stop
  BY <1>13 DEF Pictures!Tick, Pictures!Stop, Pictures!trackVars, Pictures!memory, Pictures!history
<1>14. ASSUME NEW t \in Pictures!Tracks, Pictures!Change(t) \/ Pictures!StoreFile(t) PROVE Steps'
  BY <1>14 DEF Pictures!Change, Pictures!StoreFile, Pictures!trackVars, Pictures!memory,
     Pictures!history
<1>15. ASSUME NEW a \in Albums, Pictures!AskAlbum(a) \/ Pictures!IndexAlbum(a) PROVE Steps'
  BY <1>15 DEF Pictures!AskAlbum, Pictures!IndexAlbum, Pictures!trackVars, Pictures!memory,
     Pictures!history
<1>16. ASSUME NEW s \in Singles, Pictures!AskItem(s) \/ Pictures!FetchItem(s)
        \/ Pictures!SaveItem(s) \/ Pictures!IndexItem(s)
       PROVE  Steps'
  BY <1>16 DEF Pictures!AskItem, Pictures!FetchItem, Pictures!SaveItem, Pictures!IndexItem,
     Pictures!Kept, Pictures!trackVars, Pictures!memory, Pictures!history
<1> HIDE DEF CoversIInv, Watched, Steps, Pictures!Idle, CoversTyped, LibraryOK, MemoryOK, DiskOK,
   BuildOK, AsksOK, Pictures!Tracks, Items, Tables, Asks, Builds
<1> QED
  BY <1>1, <1>2, <1>3, <1>4, <1>5, <1>6, <1>7, <1>8, <1>9, <1>10, <1>11, <1>12, <1>13, <1>14,
     <1>15, <1>16 DEF Pictures!Next

\* A change nothing reported.
LEMMA UnseenStep ==
    ASSUME CoversIInv, Pictures!Next
    PROVE  Unseen'
<1> USE DEF CoversIInv, Watched, Unseen, Steps, Clocks, Pictures!Idle, CoversTyped, LibraryOK,
   MemoryOK, DiskOK, BuildOK, AsksOK, Pictures!Tracks, Items, Tables, Asks, Builds
<1>1. CASE Pictures!Reconcile
  BY <1>1, ReconcileLessens DEF Lessened, Pictures!Reconcile, Pictures!Scope, Pictures!trackVars,
     Pictures!memory, Pictures!history
<1>2. CASE Pictures!Delta
  BY <1>2 DEF Pictures!Delta, Pictures!trackVars, Pictures!memory, Pictures!history
<1>3. CASE Pictures!ListFails
  BY <1>3 DEF Pictures!ListFails, Pictures!trackVars, Pictures!memory, Pictures!history
<1>4. CASE Pictures!WarmUp
  BY <1>4 DEF Pictures!WarmUp, Pictures!Current, Pictures!trackVars, Pictures!memory,
     Pictures!history
<1>5. CASE Pictures!Forget
  BY <1>5, ForgetLessens DEF Lessened, Pictures!Forget, Pictures!Forgotten, Pictures!trackVars,
     Pictures!memory, Pictures!history
<1>6. CASE Pictures!Begin
  BY <1>6 DEF Pictures!Begin, Pictures!Missing, Pictures!StartPersisted, Pictures!Persisted,
     Pictures!trackVars, Pictures!memory, Pictures!history
<1>7. CASE Pictures!Drained
  BY <1>7 DEF Pictures!Drained, Pictures!Referenced, Pictures!trackVars, Pictures!memory,
     Pictures!history
<1>8. CASE Pictures!Prune
  BY <1>8 DEF Pictures!Prune, Pictures!Referenced, Pictures!trackVars, Pictures!memory,
     Pictures!history
<1>9. CASE Pictures!Finish
  BY <1>9 DEF Pictures!Finish, Pictures!Persisted, Pictures!trackVars, Pictures!memory,
     Pictures!history
<1>10. CASE Pictures!Restart
  BY <1>10 DEF Pictures!Restart, Pictures!trackVars, Pictures!memory, Pictures!history
<1>11. ASSUME NEW t \in Pictures!Tracks, Pictures!Change(t) PROVE Unseen'
  BY <1>11 DEF Pictures!Change, Pictures!trackVars, Pictures!memory, Pictures!history
<1>12. ASSUME NEW a \in Albums, Pictures!Fetch(a) PROVE Unseen'
  BY <1>12 DEF Pictures!Fetch, Pictures!Checkpoint, Pictures!trackVars, Pictures!memory,
     Pictures!history
<1>13. ASSUME NEW a \in Albums, NEW hash \in 1 .. MaxArtEvents + 1, Pictures!Work(a,
        hash) PROVE Unseen'
  BY <1>13 DEF Pictures!Work, Pictures!Checkpoint, Pictures!trackVars, Pictures!memory,
     Pictures!history
<1>14. ASSUME NEW s \in Singles, Pictures!SaveItem(s) PROVE Unseen'
  BY <1>14 DEF Pictures!SaveItem, Pictures!Kept, Pictures!trackVars, Pictures!memory,
     Pictures!history
<1>15. CASE Pictures!Tick \/ Pictures!Stop
  BY <1>15 DEF Pictures!Tick, Pictures!Stop, Pictures!trackVars, Pictures!memory, Pictures!history
<1>16. ASSUME NEW t \in Pictures!Tracks, Pictures!StoreFile(t) PROVE Unseen'
  BY <1>16 DEF Pictures!StoreFile, Pictures!trackVars, Pictures!memory, Pictures!history
<1>17. ASSUME NEW a \in Albums, Pictures!AskAlbum(a) \/ Pictures!IndexAlbum(a) PROVE Unseen'
  BY <1>17 DEF Pictures!AskAlbum, Pictures!IndexAlbum, Pictures!trackVars, Pictures!memory,
     Pictures!history
<1>18. ASSUME NEW s \in Singles, Pictures!AskItem(s) \/ Pictures!FetchItem(s)
        \/ Pictures!IndexItem(s) PROVE Unseen'
  BY <1>18 DEF Pictures!AskItem, Pictures!FetchItem, Pictures!IndexItem, Pictures!Kept,
     Pictures!trackVars, Pictures!memory, Pictures!history
<1> HIDE DEF CoversIInv, Watched, Unseen, Steps, Clocks, Pictures!Idle, CoversTyped, LibraryOK,
   MemoryOK, DiskOK, BuildOK, AsksOK, Pictures!Tracks, Items, Tables, Asks, Builds
<1> QED
  BY <1>1, <1>2, <1>3, <1>4, <1>5, <1>6, <1>7, <1>8, <1>9, <1>10, <1>11, <1>12, <1>13, <1>14,
     <1>15, <1>16, <1>17, <1>18 DEF Pictures!Next

\* What a build holds.
LEMMA QueuedStep ==
    ASSUME CoversIInv, Pictures!Next
    PROVE  Queued'
<1> USE DEF CoversIInv, Watched, Coming, Queued, Steps, Pictures!Idle, CoversTyped, LibraryOK,
   MemoryOK, DiskOK, BuildOK, AsksOK, Pictures!Tracks, Items, Tables, Asks, Builds
<1>1. CASE Pictures!Reconcile
  BY <1>1, ReconcileLessens DEF Lessened, Pictures!Reconcile, Pictures!Scope, Pictures!trackVars,
     Pictures!memory, Pictures!history
<1>2. CASE Pictures!Delta
  BY <1>2 DEF Pictures!Delta, Pictures!trackVars, Pictures!memory, Pictures!history
<1>3. CASE Pictures!ListFails
  BY <1>3 DEF Pictures!ListFails, Pictures!trackVars, Pictures!memory, Pictures!history
<1>4. CASE Pictures!WarmUp
  BY <1>4 DEF Pictures!WarmUp, Pictures!Current, Pictures!trackVars, Pictures!memory,
     Pictures!history
<1>5. CASE Pictures!Forget
  BY <1>5, ForgetLessens DEF Lessened, Pictures!Forget, Pictures!Forgotten, Pictures!trackVars,
     Pictures!memory, Pictures!history
<1>6. CASE Pictures!Begin
  BY <1>6 DEF Pictures!Begin, Pictures!Missing, Pictures!StartPersisted, Pictures!Persisted,
     Pictures!trackVars, Pictures!memory, Pictures!history
<1>7. CASE Pictures!Drained
  BY <1>7 DEF Pictures!Drained, Pictures!Referenced, Pictures!trackVars, Pictures!memory,
     Pictures!history
<1>8. CASE Pictures!Prune
  BY <1>8 DEF Pictures!Prune, Pictures!Referenced, Pictures!trackVars, Pictures!memory,
     Pictures!history
<1>9. CASE Pictures!Finish
  BY <1>9 DEF Pictures!Finish, Pictures!Persisted, Pictures!trackVars, Pictures!memory,
     Pictures!history
<1>10. CASE Pictures!Restart
  BY <1>10 DEF Pictures!Restart, Pictures!trackVars, Pictures!memory, Pictures!history
<1>11. ASSUME NEW t \in Pictures!Tracks, Pictures!Change(t) PROVE Queued'
  BY <1>11 DEF Pictures!Change, Pictures!trackVars, Pictures!memory, Pictures!history
<1>12. ASSUME NEW a \in Albums, Pictures!Fetch(a) PROVE Queued'
  <2>1. build'.queued = build.queued \/ build'.queued = build.queued \cup {<<a, art[a]>>}
    BY <1>12 DEF Pictures!Fetch
  <2>2. UNCHANGED <<artDue, artOvertaken, art>>
    BY <1>12 DEF Pictures!Fetch, Pictures!trackVars, Pictures!history
  <2>3. ASSUME NEW q \in build'.queued, q[1] \notin artDue \cup artOvertaken PROVE q[2] = art[q[1]]
    <3>1. CASE q \in build.queued
      BY <2>3, <3>1
    <3>2. CASE q = <<a, art[a]>>
      BY <3>2
    <3> QED
      BY <2>1, <2>3, <3>1, <3>2
  <2> QED
    BY <2>2, <2>3
<1>13. ASSUME NEW a \in Albums, NEW hash \in 1 .. MaxArtEvents + 1, Pictures!Work(a,
        hash) PROVE Queued'
  BY <1>13 DEF Pictures!Work, Pictures!Checkpoint, Pictures!trackVars, Pictures!memory,
     Pictures!history
<1>14. CASE Pictures!Tick \/ Pictures!Stop
  BY <1>14 DEF Pictures!Tick, Pictures!Stop, Pictures!trackVars, Pictures!memory, Pictures!history
<1>15. ASSUME NEW t \in Pictures!Tracks, Pictures!StoreFile(t) PROVE Queued'
  BY <1>15 DEF Pictures!StoreFile, Pictures!trackVars, Pictures!memory, Pictures!history
<1>16. ASSUME NEW a \in Albums, Pictures!AskAlbum(a) \/ Pictures!IndexAlbum(a) PROVE Queued'
  BY <1>16 DEF Pictures!AskAlbum, Pictures!IndexAlbum, Pictures!trackVars, Pictures!memory,
     Pictures!history
<1>17. ASSUME NEW s \in Singles, Pictures!AskItem(s) \/ Pictures!FetchItem(s)
        \/ Pictures!SaveItem(s) \/ Pictures!IndexItem(s)
       PROVE  Queued'
  BY <1>17 DEF Pictures!AskItem, Pictures!FetchItem, Pictures!SaveItem, Pictures!IndexItem,
     Pictures!Kept, Pictures!trackVars, Pictures!memory, Pictures!history
<1> HIDE DEF CoversIInv, Watched, Coming, Queued, Steps, Pictures!Idle, CoversTyped, LibraryOK,
   MemoryOK, DiskOK, BuildOK, AsksOK, Pictures!Tracks, Items, Tables, Asks, Builds
<1> QED
  BY <1>1, <1>2, <1>3, <1>4, <1>5, <1>6, <1>7, <1>8, <1>9, <1>10, <1>11, <1>12, <1>13, <1>14,
     <1>15, <1>16, <1>17 DEF Pictures!Next

\* What a request for an album holds.
LEMMA AlbumsAskedStep ==
    ASSUME CoversIInv, Pictures!Next
    PROVE  AlbumsAsked'
<1> USE DEF CoversIInv, Coming, AlbumsAsked, Pictures!NoAsk, CoverAssumption, CoversTyped,
   LibraryOK, MemoryOK, DiskOK, BuildOK, AsksOK, Pictures!Tracks, Items, Tables, Asks, Builds
<1>1. CASE Pictures!ListFails
  BY <1>1 DEF Pictures!ListFails, Pictures!trackVars, Pictures!memory, Pictures!history
<1>2. CASE Pictures!Restart
  BY <1>2 DEF Pictures!Restart, Pictures!trackVars, Pictures!memory, Pictures!history
<1>3. ASSUME NEW t \in Pictures!Tracks, Pictures!Change(t) PROVE AlbumsAsked'
  BY <1>3 DEF Pictures!Change, Pictures!trackVars, Pictures!memory, Pictures!history
<1>4. ASSUME NEW t \in Pictures!Tracks, Pictures!StoreFile(t) PROVE AlbumsAsked'
  BY <1>4 DEF Pictures!StoreFile, Pictures!trackVars, Pictures!memory, Pictures!history
<1>5. ASSUME NEW a \in Albums, Pictures!AskAlbum(a) PROVE AlbumsAsked'
  BY <1>5 DEF Pictures!AskAlbum, Pictures!trackVars, Pictures!memory, Pictures!history
<1>6. ASSUME NEW a \in Albums, Pictures!IndexAlbum(a) PROVE AlbumsAsked'
  BY <1>6 DEF Pictures!IndexAlbum, Pictures!trackVars, Pictures!memory, Pictures!history
<1>7. ASSUME NEW s \in Singles, Pictures!AskItem(s) PROVE AlbumsAsked'
  BY <1>7, CoverAssumption DEF Pictures!AskItem, Pictures!trackVars, Pictures!history
<1>8. ASSUME NEW s \in Singles, Pictures!FetchItem(s) PROVE AlbumsAsked'
  BY <1>8 DEF Pictures!FetchItem, Pictures!trackVars, Pictures!memory, Pictures!history
<1>9. ASSUME NEW s \in Singles, Pictures!SaveItem(s) PROVE AlbumsAsked'
  BY <1>9 DEF Pictures!SaveItem, Pictures!Kept, Pictures!trackVars, Pictures!memory,
     Pictures!history
<1>10. ASSUME NEW s \in Singles, Pictures!IndexItem(s) PROVE AlbumsAsked'
  BY <1>10 DEF Pictures!IndexItem, Pictures!Kept, Pictures!trackVars, Pictures!memory,
     Pictures!history
<1>11. CASE Pictures!Tick \/ Pictures!Reconcile \/ Pictures!Delta \/ Pictures!WarmUp
        \/ Pictures!Forget \/ Pictures!Begin \/ Pictures!Drained \/ Pictures!Prune
                \/ Pictures!Finish \/ Pictures!Stop
  BY <1>11 DEF Pictures!Tick, Pictures!Reconcile, Pictures!Delta, Pictures!WarmUp,
     Pictures!Forget, Pictures!Begin, Pictures!Drained, Pictures!Prune, Pictures!Finish,
     Pictures!Stop, Pictures!Scope, Pictures!Current, Pictures!Forgotten, Pictures!Missing,
     Pictures!StartPersisted, Pictures!Persisted, Pictures!Referenced, Pictures!trackVars,
     Pictures!memory, Pictures!history
<1>12. ASSUME NEW a \in Albums, Pictures!Fetch(a) PROVE AlbumsAsked'
  BY <1>12 DEF Pictures!Fetch, Pictures!Checkpoint, Pictures!trackVars, Pictures!memory,
     Pictures!history
<1>13. ASSUME NEW a \in Albums, NEW hash \in 1 .. MaxArtEvents + 1, Pictures!Work(a,
        hash) PROVE AlbumsAsked'
  BY <1>13 DEF Pictures!Work, Pictures!Checkpoint, Pictures!trackVars, Pictures!memory,
     Pictures!history
<1> HIDE DEF CoversIInv, Coming, AlbumsAsked, Pictures!NoAsk, CoverAssumption, CoversTyped,
   LibraryOK, MemoryOK, DiskOK, BuildOK, AsksOK, Pictures!Tracks, Items, Tables, Asks, Builds
<1> QED
  BY <1>1, <1>2, <1>3, <1>4, <1>5, <1>6, <1>7, <1>8, <1>9, <1>10, <1>11, <1>12, <1>13 DEF
     Pictures!Next

\* What a request for a single holds.
LEMMA SinglesAskedStep ==
    ASSUME CoversIInv, Pictures!Next
    PROVE  SinglesAsked'
<1> USE DEF CoversIInv, Coming, SinglesAsked, Pictures!NoAsk, CoverAssumption, CoversTyped,
   LibraryOK, MemoryOK, DiskOK, BuildOK, AsksOK, Pictures!Tracks, Items, Tables, Asks, Builds
<1>1. CASE Pictures!ListFails
  BY <1>1 DEF Pictures!ListFails, Pictures!trackVars, Pictures!memory, Pictures!history
<1>2. CASE Pictures!Restart
  BY <1>2 DEF Pictures!Restart, Pictures!trackVars, Pictures!memory, Pictures!history
<1>3. ASSUME NEW t \in Pictures!Tracks, Pictures!Change(t) PROVE SinglesAsked'
  BY <1>3 DEF Pictures!Change, Pictures!trackVars, Pictures!memory, Pictures!history
<1>4. ASSUME NEW t \in Pictures!Tracks, Pictures!StoreFile(t) PROVE SinglesAsked'
  BY <1>4 DEF Pictures!StoreFile, Pictures!trackVars, Pictures!memory, Pictures!history
<1>5. ASSUME NEW a \in Albums, Pictures!AskAlbum(a) PROVE SinglesAsked'
  BY <1>5, CoverAssumption DEF Pictures!AskAlbum, Pictures!trackVars, Pictures!history
<1>6. ASSUME NEW a \in Albums, Pictures!IndexAlbum(a) PROVE SinglesAsked'
  BY <1>6 DEF Pictures!IndexAlbum, Pictures!trackVars, Pictures!memory, Pictures!history
<1>7. ASSUME NEW s \in Singles, Pictures!AskItem(s) PROVE SinglesAsked'
  BY <1>7 DEF Pictures!AskItem, Pictures!trackVars, Pictures!memory, Pictures!history
<1>8. ASSUME NEW s \in Singles, Pictures!FetchItem(s) PROVE SinglesAsked'
  BY <1>8 DEF Pictures!FetchItem, Pictures!trackVars, Pictures!memory, Pictures!history
<1>9. ASSUME NEW s \in Singles, Pictures!SaveItem(s) PROVE SinglesAsked'
  BY <1>9 DEF Pictures!SaveItem, Pictures!Kept, Pictures!trackVars, Pictures!memory,
     Pictures!history
<1>10. ASSUME NEW s \in Singles, Pictures!IndexItem(s) PROVE SinglesAsked'
  BY <1>10 DEF Pictures!IndexItem, Pictures!Kept, Pictures!trackVars, Pictures!memory,
     Pictures!history
<1>11. CASE Pictures!Tick \/ Pictures!Reconcile \/ Pictures!Delta \/ Pictures!WarmUp
        \/ Pictures!Forget \/ Pictures!Begin \/ Pictures!Drained \/ Pictures!Prune
                \/ Pictures!Finish \/ Pictures!Stop
  BY <1>11 DEF Pictures!Tick, Pictures!Reconcile, Pictures!Delta, Pictures!WarmUp,
     Pictures!Forget, Pictures!Begin, Pictures!Drained, Pictures!Prune, Pictures!Finish,
     Pictures!Stop, Pictures!Scope, Pictures!Current, Pictures!Forgotten, Pictures!Missing,
     Pictures!StartPersisted, Pictures!Persisted, Pictures!Referenced, Pictures!trackVars,
     Pictures!memory, Pictures!history
<1>12. ASSUME NEW a \in Albums, Pictures!Fetch(a) PROVE SinglesAsked'
  BY <1>12 DEF Pictures!Fetch, Pictures!Checkpoint, Pictures!trackVars, Pictures!memory,
     Pictures!history
<1>13. ASSUME NEW a \in Albums, NEW hash \in 1 .. MaxArtEvents + 1, Pictures!Work(a,
        hash) PROVE SinglesAsked'
  BY <1>13 DEF Pictures!Work, Pictures!Checkpoint, Pictures!trackVars, Pictures!memory,
     Pictures!history
<1> HIDE DEF CoversIInv, Coming, SinglesAsked, Pictures!NoAsk, CoverAssumption, CoversTyped,
   LibraryOK, MemoryOK, DiskOK, BuildOK, AsksOK, Pictures!Tracks, Items, Tables, Asks, Builds
<1> QED
  BY <1>1, <1>2, <1>3, <1>4, <1>5, <1>6, <1>7, <1>8, <1>9, <1>10, <1>11, <1>12, <1>13 DEF
     Pictures!Next

\* What memory shows of an album.
LEMMA RememberedStep ==
    ASSUME CoversIInv, Pictures!Next
    PROVE  Remembered'
<1> USE DEF CoversIInv, Watched, Coming, Remembered, Right, InMemory, OnDisk, Stored, Unseen,
   Pictures!Current, Queued, AlbumsAsked, Steps, Pictures!Idle, CoversTyped, LibraryOK, MemoryOK,
   DiskOK, BuildOK, AsksOK, Pictures!Tracks, Items, Tables, Asks, Builds
<1>1. CASE Pictures!Reconcile
  BY <1>1, ReconcileLessens DEF Lessened, Pictures!Reconcile, Pictures!Scope, Pictures!trackVars,
     Pictures!memory, Pictures!history
<1>2. CASE Pictures!Delta
  BY <1>2 DEF Pictures!Delta, Pictures!trackVars, Pictures!memory, Pictures!history
<1>3. CASE Pictures!ListFails
  BY <1>3 DEF Pictures!ListFails, Pictures!trackVars, Pictures!memory, Pictures!history
<1>4. CASE Pictures!WarmUp
  BY <1>4 DEF Pictures!WarmUp, Pictures!Current, Pictures!trackVars, Pictures!memory,
     Pictures!history
<1>5. CASE Pictures!Forget
  BY <1>5, ForgetLessens DEF Lessened, Pictures!Forget, Pictures!Forgotten, Pictures!trackVars,
     Pictures!memory, Pictures!history
<1>6. CASE Pictures!Begin
  BY <1>6 DEF Pictures!Begin, Pictures!Missing, Pictures!StartPersisted, Pictures!Persisted,
     Pictures!trackVars, Pictures!memory, Pictures!history
<1>7. CASE Pictures!Drained
  BY <1>7 DEF Pictures!Drained, Pictures!Referenced, Pictures!trackVars, Pictures!memory,
     Pictures!history
<1>8. CASE Pictures!Prune
  BY <1>8 DEF Pictures!Prune, Pictures!Referenced, Pictures!trackVars, Pictures!memory,
     Pictures!history
<1>9. CASE Pictures!Finish
  BY <1>9 DEF Pictures!Finish, Pictures!Persisted, Pictures!trackVars, Pictures!memory,
     Pictures!history
<1>10. CASE Pictures!Restart
  BY <1>10 DEF Pictures!Restart, Pictures!trackVars, Pictures!memory, Pictures!history
<1>11. ASSUME NEW t \in Pictures!Tracks, Pictures!Change(t) PROVE Remembered'
  BY <1>11 DEF Pictures!Change, Pictures!trackVars, Pictures!memory, Pictures!history
<1>12. ASSUME NEW a \in Albums, Pictures!Fetch(a) PROVE Remembered'
  BY <1>12 DEF Pictures!Fetch, Pictures!Checkpoint, Pictures!trackVars, Pictures!memory,
     Pictures!history
<1>13. ASSUME NEW a \in Albums, Pictures!IndexAlbum(a) PROVE Remembered'
  BY <1>13 DEF Pictures!IndexAlbum, Pictures!trackVars, Pictures!memory, Pictures!history
<1>14. ASSUME NEW a \in Albums, NEW hash \in 1 .. MaxArtEvents + 1, Pictures!Work(a,
        hash) PROVE Remembered'
  BY <1>14 DEF Pictures!Work, Pictures!Checkpoint, Pictures!trackVars, Pictures!memory,
     Pictures!history
<1>15. CASE Pictures!Tick \/ Pictures!Stop
  BY <1>15 DEF Pictures!Tick, Pictures!Stop, Pictures!trackVars, Pictures!memory, Pictures!history
<1>16. ASSUME NEW t \in Pictures!Tracks, Pictures!StoreFile(t) PROVE Remembered'
  BY <1>16 DEF Pictures!StoreFile, Pictures!trackVars, Pictures!memory, Pictures!history
<1>17. ASSUME NEW a \in Albums, Pictures!AskAlbum(a) PROVE Remembered'
  BY <1>17 DEF Pictures!AskAlbum, Pictures!trackVars, Pictures!memory, Pictures!history
<1>18. ASSUME NEW s \in Singles, Pictures!AskItem(s) \/ Pictures!FetchItem(s)
        \/ Pictures!SaveItem(s) \/ Pictures!IndexItem(s)
       PROVE  Remembered'
  BY <1>18 DEF Pictures!AskItem, Pictures!FetchItem, Pictures!SaveItem, Pictures!IndexItem,
     Pictures!Kept, Pictures!trackVars, Pictures!memory, Pictures!history
<1> HIDE DEF CoversIInv, Watched, Coming, Remembered, Right, InMemory, OnDisk, Stored, Unseen,
   Pictures!Current, Queued, AlbumsAsked, Steps, Pictures!Idle, CoversTyped, LibraryOK, MemoryOK,
   DiskOK, BuildOK, AsksOK, Pictures!Tracks, Items, Tables, Asks, Builds
<1> QED
  BY <1>1, <1>2, <1>3, <1>4, <1>5, <1>6, <1>7, <1>8, <1>9, <1>10, <1>11, <1>12, <1>13, <1>14,
     <1>15, <1>16, <1>17, <1>18 DEF Pictures!Next

\* What the tables will show of an album.
LEMMA StoredStep ==
    ASSUME CoversIInv, Pictures!Next
    PROVE  Stored'
<1> USE DEF CoversIInv, Watched, Coming, Remembered, Right, InMemory, OnDisk, Stored, Unseen,
   Pictures!Current, Queued, Steps, Clocks, Pictures!Idle, CoversTyped, LibraryOK, MemoryOK,
   DiskOK, BuildOK, AsksOK, Pictures!Tracks, Items, Tables, Asks, Builds
<1>1. CASE Pictures!Reconcile
  BY <1>1, ReconcileLessens DEF Lessened, Pictures!Reconcile, Pictures!Scope, Pictures!trackVars,
     Pictures!memory, Pictures!history
<1>2. CASE Pictures!Delta
  BY <1>2 DEF Pictures!Delta, Pictures!trackVars, Pictures!memory, Pictures!history
<1>3. CASE Pictures!ListFails
  BY <1>3 DEF Pictures!ListFails, Pictures!trackVars, Pictures!memory, Pictures!history
<1>4. CASE Pictures!WarmUp
  BY <1>4 DEF Pictures!WarmUp, Pictures!Current, Pictures!trackVars, Pictures!memory,
     Pictures!history
<1>5. CASE Pictures!Forget
  BY <1>5, ForgetLessens DEF Lessened, Pictures!Forget, Pictures!Forgotten, Pictures!trackVars,
     Pictures!memory, Pictures!history
<1>6. CASE Pictures!Begin
  BY <1>6 DEF Pictures!Begin, Pictures!Missing, Pictures!StartPersisted, Pictures!Persisted,
     Pictures!trackVars, Pictures!memory, Pictures!history
<1>7. CASE Pictures!Drained
  BY <1>7 DEF Pictures!Drained, Pictures!Referenced, Pictures!trackVars, Pictures!memory,
     Pictures!history
<1>8. CASE Pictures!Prune
  BY <1>8 DEF Pictures!Prune, Pictures!Referenced, Pictures!trackVars, Pictures!memory,
     Pictures!history
<1>9. CASE Pictures!Finish
  BY <1>9 DEF Pictures!Finish, Pictures!Persisted, Pictures!trackVars, Pictures!memory,
     Pictures!history
<1>10. CASE Pictures!Restart
  BY <1>10 DEF Pictures!Restart, Pictures!trackVars, Pictures!memory, Pictures!history
<1>11. ASSUME NEW t \in Pictures!Tracks, Pictures!Change(t) PROVE Stored'
  BY <1>11 DEF Pictures!Change, Pictures!trackVars, Pictures!memory, Pictures!history
<1>12. ASSUME NEW a \in Albums, Pictures!Fetch(a) PROVE Stored'
  <2>1. /\ disk' = disk \/ (art[a] = 0 /\ disk' = [disk EXCEPT !.noArt = disk.noArt \cup {a}])
        /\ build'.at = build.at /\ build'.changed = build.changed
        /\ UNCHANGED <<artDue, artOvertaken, art, mtime>>
    BY <1>12 DEF Pictures!Fetch, Pictures!Checkpoint, Pictures!trackVars, Pictures!history
  <2>2. /\ disk'.covers = disk.covers /\ disk'.last = disk.last
        /\ \A b \in disk'.noArt : b \in disk.noArt \/ art[b] = 0
    BY <2>1
  <2> QED
    BY <2>1, <2>2
<1>13. ASSUME NEW a \in Albums, NEW hash \in 1 .. MaxArtEvents + 1, Pictures!Work(a,
        hash) PROVE Stored'
  <2>1. disk' = disk \/ disk' = [disk EXCEPT !.covers = [disk.covers EXCEPT ![a] = hash]]
    <3>1. [disk EXCEPT !.covers[a] = hash]
              = [disk EXCEPT !.covers = [disk.covers EXCEPT ![a] = hash]]
      OBVIOUS
    <3> QED
      BY <1>13, <3>1 DEF Pictures!Work, Pictures!Checkpoint
  <2>2. /\ build'.at = build.at /\ build'.changed = build.changed
        /\ UNCHANGED <<artDue, artOvertaken, art, mtime>>
    BY <1>13 DEF Pictures!Work, Pictures!trackVars, Pictures!history
  <2>3. /\ disk'.noArt = disk.noArt /\ disk'.last = disk.last
        /\ \A b \in Albums : disk'.covers[b] = disk.covers[b] \/ (b = a /\ disk'.covers[b] = hash)
    BY <2>1
  <2>4. a \notin artDue \cup artOvertaken => hash = art[a]
    <3>1. <<a, hash>> \in build.queued
      BY <1>13 DEF Pictures!Work
    <3> QED
      BY <3>1
  <2> QED
    BY <2>2, <2>3, <2>4
<1>14. ASSUME NEW s \in Singles, Pictures!SaveItem(s) PROVE Stored'
  BY <1>14 DEF Pictures!SaveItem, Pictures!Kept, Pictures!trackVars, Pictures!memory,
     Pictures!history
<1>15. CASE Pictures!Tick \/ Pictures!Stop
  BY <1>15 DEF Pictures!Tick, Pictures!Stop, Pictures!trackVars, Pictures!memory, Pictures!history
<1>16. ASSUME NEW t \in Pictures!Tracks, Pictures!StoreFile(t) PROVE Stored'
  BY <1>16 DEF Pictures!StoreFile, Pictures!trackVars, Pictures!memory, Pictures!history
<1>17. ASSUME NEW a \in Albums, Pictures!AskAlbum(a) \/ Pictures!IndexAlbum(a) PROVE Stored'
  BY <1>17 DEF Pictures!AskAlbum, Pictures!IndexAlbum, Pictures!trackVars, Pictures!memory,
     Pictures!history
<1>18. ASSUME NEW s \in Singles, Pictures!AskItem(s) \/ Pictures!FetchItem(s)
        \/ Pictures!IndexItem(s) PROVE Stored'
  BY <1>18 DEF Pictures!AskItem, Pictures!FetchItem, Pictures!IndexItem, Pictures!Kept,
     Pictures!trackVars, Pictures!memory, Pictures!history
<1> HIDE DEF CoversIInv, Watched, Coming, Remembered, Right, InMemory, OnDisk, Stored, Unseen,
   Pictures!Current, Queued, Steps, Clocks, Pictures!Idle, CoversTyped, LibraryOK, MemoryOK,
   DiskOK, BuildOK, AsksOK, Pictures!Tracks, Items, Tables, Asks, Builds
<1> QED
  BY <1>1, <1>2, <1>3, <1>4, <1>5, <1>6, <1>7, <1>8, <1>9, <1>10, <1>11, <1>12, <1>13, <1>14,
     <1>15, <1>16, <1>17, <1>18 DEF Pictures!Next

\* The entries of singles.
LEMMA EntriesStep ==
    ASSUME CoversIInv, Pictures!Next
    PROVE  Entries'
<1> USE DEF CoversIInv, Entries, Pictures!Kept, Pictures!None, Pictures!NoAsk, CoverAssumption,
   CoversTyped, LibraryOK, MemoryOK, DiskOK, BuildOK, AsksOK, Pictures!Tracks, Items, Tables,
   Asks, Builds
<1>1. CASE Pictures!Reconcile
  BY <1>1, ReconcileLessens DEF Lessened, Pictures!Reconcile, Pictures!Scope, Pictures!trackVars,
     Pictures!memory, Pictures!history
<1>2. CASE Pictures!Forget
  BY <1>2, ForgetLessens DEF Lessened, Pictures!Forget, Pictures!Forgotten, Pictures!trackVars,
     Pictures!memory, Pictures!history
<1>3. CASE Pictures!Begin
  BY <1>3 DEF Pictures!Begin, Pictures!Missing, Pictures!StartPersisted, Pictures!Persisted,
     Pictures!trackVars, Pictures!memory, Pictures!history
<1>4. CASE Pictures!Finish
  BY <1>4 DEF Pictures!Finish, Pictures!Persisted, Pictures!trackVars, Pictures!memory,
     Pictures!history
<1>5. CASE Pictures!Restart
  BY <1>5 DEF Pictures!Restart, Pictures!trackVars, Pictures!memory, Pictures!history
<1>6. ASSUME NEW t \in Pictures!Tracks, Pictures!StoreFile(t) PROVE Entries'
  BY <1>6 DEF Pictures!StoreFile, Pictures!trackVars, Pictures!memory, Pictures!history
<1>7. ASSUME NEW a \in Albums, Pictures!Fetch(a) PROVE Entries'
  BY <1>7 DEF Pictures!Fetch, Pictures!Checkpoint, Pictures!trackVars, Pictures!memory,
     Pictures!history
<1>8. ASSUME NEW a \in Albums, Pictures!AskAlbum(a) PROVE Entries'
  BY <1>8 DEF Pictures!AskAlbum, Pictures!trackVars, Pictures!memory, Pictures!history
<1>9. ASSUME NEW a \in Albums, Pictures!IndexAlbum(a) PROVE Entries'
  BY <1>9 DEF Pictures!IndexAlbum, Pictures!trackVars, Pictures!memory, Pictures!history
<1>10. ASSUME NEW a \in Albums, NEW hash \in 1 .. MaxArtEvents + 1, Pictures!Work(a,
        hash) PROVE Entries'
  BY <1>10 DEF Pictures!Work, Pictures!Checkpoint, Pictures!trackVars, Pictures!memory,
     Pictures!history
<1>11. ASSUME NEW s \in Singles, Pictures!AskItem(s) PROVE Entries'
  BY <1>11 DEF Pictures!AskItem, Pictures!trackVars, Pictures!memory, Pictures!history
<1>12. ASSUME NEW s \in Singles, Pictures!FetchItem(s) PROVE Entries'
  BY <1>12 DEF Pictures!FetchItem, Pictures!trackVars, Pictures!memory, Pictures!history
<1>13. ASSUME NEW s \in Singles, Pictures!SaveItem(s) PROVE Entries'
  BY <1>13 DEF Pictures!SaveItem, Pictures!Kept, Pictures!trackVars, Pictures!memory,
     Pictures!history
<1>14. ASSUME NEW s \in Singles, Pictures!IndexItem(s) PROVE Entries'
  BY <1>14 DEF Pictures!IndexItem, Pictures!Kept, Pictures!trackVars, Pictures!memory,
     Pictures!history
<1>15. CASE Pictures!Tick \/ Pictures!Delta \/ Pictures!ListFails \/ Pictures!WarmUp
        \/ Pictures!Drained \/ Pictures!Prune \/ Pictures!Stop
  BY <1>15 DEF Pictures!Tick, Pictures!Delta, Pictures!ListFails, Pictures!WarmUp,
     Pictures!Drained, Pictures!Prune, Pictures!Stop, Pictures!Current, Pictures!Referenced,
     Pictures!trackVars, Pictures!memory, Pictures!history
<1>16. ASSUME NEW t \in Pictures!Tracks, Pictures!Change(t) PROVE Entries'
  BY <1>16 DEF Pictures!Change, Pictures!trackVars, Pictures!memory, Pictures!history
<1> HIDE DEF CoversIInv, Entries, Pictures!Kept, Pictures!None, Pictures!NoAsk, CoverAssumption,
   CoversTyped, LibraryOK, MemoryOK, DiskOK, BuildOK, AsksOK, Pictures!Tracks, Items, Tables,
   Asks, Builds
<1> QED
  BY <1>1, <1>2, <1>3, <1>4, <1>5, <1>6, <1>7, <1>8, <1>9, <1>10, <1>11, <1>12, <1>13, <1>14,
     <1>15, <1>16 DEF Pictures!Next

\* What is kept of a single.
LEMMA SinglesKeptStep ==
    ASSUME CoversIInv, Pictures!Next
    PROVE  SinglesKept'
<1> USE DEF CoversIInv, SinglesKept, Coming, SinglesAsked, InMemory, Entries, Answers, Watched,
   Clocks, Steps, Pictures!Kept, Pictures!None, Pictures!Idle, CoversTyped, LibraryOK, MemoryOK,
   DiskOK, BuildOK, AsksOK, Pictures!Tracks, Items, Tables, Asks, Builds
<1>1. CASE Pictures!Reconcile
  BY <1>1, ReconcileLessens DEF Lessened, Pictures!Reconcile, Pictures!Scope, Pictures!trackVars,
     Pictures!memory, Pictures!history
<1>2. CASE Pictures!Delta
  BY <1>2 DEF Pictures!Delta, Pictures!trackVars, Pictures!memory, Pictures!history
<1>3. CASE Pictures!ListFails
  BY <1>3 DEF Pictures!ListFails, Pictures!trackVars, Pictures!memory, Pictures!history
<1>4. CASE Pictures!WarmUp
  BY <1>4 DEF Pictures!WarmUp, Pictures!Current, Pictures!trackVars, Pictures!memory,
     Pictures!history
<1>5. CASE Pictures!Forget
  <2>1. /\ Lessened /\ \A s \in build.changed \cap Singles : ~items'[s].kept
    BY <1>5, ForgetLessens
  <2>2. /\ build.at = "warmed" /\ build'.at = "forgotten" /\ build'.changed = build.changed
        /\ UNCHANGED <<artDue, artOvertaken, art, mtime, ask>>
    BY <1>5 DEF Pictures!Forget, Pictures!trackVars, Pictures!history
  <2>3. ASSUME NEW s \in Singles \ (artDue \cup artOvertaken)
        PROVE  Answers(items'[s], s) /\ Answers(disk'.items[s], s)
    <3>1. CASE s \notin build.changed
      BY <2>1, <2>2, <3>1 DEF Lessened
    <3>2. CASE s \in build.changed /\ items'[s] = Pictures!None /\ disk'.items[s] = Pictures!None
      BY <3>2
    <3>3. CASE s \in build.changed /\ items'[s] = items[s] /\ disk'.items[s] = disk.items[s]
      BY <2>1, <2>2, <3>3
    <3> QED
      BY <2>1, <3>1, <3>2, <3>3 DEF Lessened
  <2> QED
    BY <2>2, <2>3
<1>6. CASE Pictures!Begin
  BY <1>6 DEF Pictures!Begin, Pictures!Missing, Pictures!StartPersisted, Pictures!Persisted,
     Pictures!trackVars, Pictures!memory, Pictures!history
<1>7. CASE Pictures!Drained
  BY <1>7 DEF Pictures!Drained, Pictures!Referenced, Pictures!trackVars, Pictures!memory,
     Pictures!history
<1>8. CASE Pictures!Prune
  BY <1>8 DEF Pictures!Prune, Pictures!Referenced, Pictures!trackVars, Pictures!memory,
     Pictures!history
<1>9. CASE Pictures!Finish
  BY <1>9 DEF Pictures!Finish, Pictures!Persisted, Pictures!trackVars, Pictures!memory,
     Pictures!history
<1>10. CASE Pictures!Restart
  BY <1>10 DEF Pictures!Restart, Pictures!trackVars, Pictures!memory, Pictures!history
<1>11. ASSUME NEW t \in Pictures!Tracks, Pictures!Change(t) PROVE SinglesKept'
  <2>1. /\ art' = [art EXCEPT ![t] = art'[t]] /\ mtime' \in {mtime, [mtime EXCEPT ![t] = now]}
        /\ artDue \subseteq artDue' /\ artOvertaken \subseteq artOvertaken'
        /\ t \in artDue' \cup artOvertaken'
             \/ (ask[t].at = "none" /\ mtime'[t] = now /\ mtime[t] # now)
        /\ UNCHANGED <<items, disk, build, ask>>
    BY <1>11 DEF Pictures!Change, Pictures!memory
  <2>2. ASSUME NEW s \in Singles \ (artDue' \cup artOvertaken'), ~InMemory(s)
        PROVE  Answers(items[s], s)' /\ Answers(disk.items[s], s)'
    <3>1. CASE s # t
      BY <2>1, <2>2, <3>1
    <3>2. CASE s = t
      <4>0. mtime'[s] = now /\ mtime[s] # now
        BY <2>1, <2>2, <3>2
      <4>1. mtime'[s] = now /\ mtime[s] < now
        <5>1. mtime[s] <= now /\ mtime[s] \in Nat /\ now \in Nat
          BY <3>2
        <5> HIDE DEF CoversIInv
        <5> QED
          BY <4>0, <5>1
      <4>2. items[s].modified # mtime'[s] /\ disk.items[s].modified # mtime'[s]
        BY <2>2, <4>1
      <4> QED
        BY <2>1, <4>2
    <3> QED
      BY <3>1, <3>2
  <2> QED
    BY <2>1, <2>2
<1>12. ASSUME NEW a \in Albums, Pictures!Fetch(a) PROVE SinglesKept'
  BY <1>12 DEF Pictures!Fetch, Pictures!Checkpoint, Pictures!trackVars, Pictures!memory,
     Pictures!history
<1>13. ASSUME NEW a \in Albums, NEW hash \in 1 .. MaxArtEvents + 1, Pictures!Work(a,
        hash) PROVE SinglesKept'
  <2>1. disk' = disk \/ disk' = [disk EXCEPT !.covers = [disk.covers EXCEPT ![a] = hash]]
    <3>1. [disk EXCEPT !.covers[a] = hash]
              = [disk EXCEPT !.covers = [disk.covers EXCEPT ![a] = hash]]
      OBVIOUS
    <3> QED
      BY <1>13, <3>1 DEF Pictures!Work, Pictures!Checkpoint
  <2>2. disk'.items = disk.items
    BY <2>1
  <2>3. /\ build'.at = build.at /\ build'.changed = build.changed
        /\ UNCHANGED <<artDue, artOvertaken, art, mtime, items, ask>>
    BY <1>13 DEF Pictures!Work, Pictures!trackVars, Pictures!history
  <2> QED
    BY <2>2, <2>3
<1>14. ASSUME NEW s \in Singles, Pictures!SaveItem(s) PROVE SinglesKept'
  BY <1>14 DEF Pictures!SaveItem, Pictures!Kept, Pictures!trackVars, Pictures!memory,
     Pictures!history
<1>15. ASSUME NEW s \in Singles, Pictures!IndexItem(s) PROVE SinglesKept'
  BY <1>15 DEF Pictures!IndexItem, Pictures!Kept, Pictures!trackVars, Pictures!memory,
     Pictures!history
<1>16. CASE Pictures!Tick \/ Pictures!Stop
  BY <1>16 DEF Pictures!Tick, Pictures!Stop, Pictures!trackVars, Pictures!memory, Pictures!history
<1>17. ASSUME NEW t \in Pictures!Tracks, Pictures!StoreFile(t) PROVE SinglesKept'
  BY <1>17 DEF Pictures!StoreFile, Pictures!trackVars, Pictures!memory, Pictures!history
<1>18. ASSUME NEW a \in Albums, Pictures!AskAlbum(a) \/ Pictures!IndexAlbum(a) PROVE SinglesKept'
  BY <1>18 DEF Pictures!AskAlbum, Pictures!IndexAlbum, Pictures!trackVars, Pictures!memory,
     Pictures!history
<1>19. ASSUME NEW s \in Singles, Pictures!AskItem(s) \/ Pictures!FetchItem(s) PROVE SinglesKept'
  BY <1>19 DEF Pictures!AskItem, Pictures!FetchItem, Pictures!trackVars, Pictures!memory,
     Pictures!history
<1> HIDE DEF CoversIInv, SinglesKept, Coming, SinglesAsked, InMemory, Entries, Answers, Watched,
   Clocks, Steps, Pictures!Kept, Pictures!None, Pictures!Idle, CoversTyped, LibraryOK, MemoryOK,
   DiskOK, BuildOK, AsksOK, Pictures!Tracks, Items, Tables, Asks, Builds
<1> QED
  BY <1>1, <1>2, <1>3, <1>4, <1>5, <1>6, <1>7, <1>8, <1>9, <1>10, <1>11, <1>12, <1>13, <1>14,
     <1>15, <1>16, <1>17, <1>18, <1>19 DEF Pictures!Next

\* The files that are named.
LEMMA NamedStep ==
    ASSUME CoversIInv, Pictures!Next
    PROVE  Named'
<1> USE DEF CoversIInv, Named, Entries, Pictures!Kept, Pictures!None, Pictures!NoAsk,
   Pictures!Referenced, CoverAssumption, CoversTyped, LibraryOK, MemoryOK, DiskOK, BuildOK,
   AsksOK, Pictures!Tracks, Items, Tables, Asks, Builds
<1>1. CASE Pictures!Reconcile
  BY <1>1, ReconcileLessens DEF Lessened, Pictures!Reconcile, Pictures!Scope, Pictures!trackVars,
     Pictures!memory, Pictures!history
<1>2. CASE Pictures!Forget
  BY <1>2, ForgetLessens DEF Lessened, Pictures!Forget, Pictures!Forgotten, Pictures!trackVars,
     Pictures!memory, Pictures!history
<1>3. CASE Pictures!Prune
  <2>1. /\ coverFiles' = coverFiles \cap build.kept /\ UNCHANGED <<items, ask>>
        /\ crossed' = (crossed \/ \E hash \in coverFiles \ build.kept :
                          \/ \E t \in Pictures!Tracks : ask[t].at \in {"stored", "saved"}
                                  /\ ask[t].hash = hash
                          \/ hash \in Pictures!Referenced)
    BY <1>3 DEF Pictures!Prune, Pictures!memory
  <2> SUFFICES ASSUME ~crossed' PROVE Named'
    BY <2>1
  <2>2. /\ \A hash \in coverFiles \ build.kept : hash \notin Pictures!Referenced
        /\ \A hash \in coverFiles \ build.kept, t \in Pictures!Tracks :
              ask[t].at \in {"stored", "saved"} => ask[t].hash # hash
    BY <2>1
  <2>3. \A s \in Singles : items[s].hash \in Pictures!Referenced
    BY DEF Pictures!Referenced
  <2>4. ~crossed
    BY <2>1
  <2> QED
    BY <2>1, <2>2, <2>3, <2>4
<1>4. CASE Pictures!Restart
  <2>1. /\ items' = disk.items /\ ask' = [t \in Pictures!Tracks |-> Pictures!NoAsk]
        /\ UNCHANGED <<coverFiles, crossed>>
    BY <1>4 DEF Pictures!Restart
  <2>2. ASSUME ~crossed, NEW s \in Singles PROVE disk.items[s].hash \in coverFiles \cup {0}
    <3>1. items[s].hash \in coverFiles \cup {0} /\ (ask[s].at = "saved"
            => Pictures!Kept(s).hash \in coverFiles \cup {0})
      BY <2>2
    <3> QED
      BY <3>1
  <2> QED
    BY <2>1, <2>2
<1>5. ASSUME NEW t \in Pictures!Tracks, Pictures!StoreFile(t) PROVE Named'
  BY <1>5 DEF Pictures!StoreFile, Pictures!trackVars, Pictures!memory, Pictures!history
<1>6. ASSUME NEW a \in Albums, Pictures!AskAlbum(a) PROVE Named'
  BY <1>6 DEF Pictures!AskAlbum, Pictures!trackVars, Pictures!memory, Pictures!history
<1>7. ASSUME NEW a \in Albums, Pictures!IndexAlbum(a) PROVE Named'
  BY <1>7 DEF Pictures!IndexAlbum, Pictures!trackVars, Pictures!memory, Pictures!history
<1>8. ASSUME NEW a \in Albums, NEW hash \in 1 .. MaxArtEvents + 1, Pictures!Work(a,
        hash) PROVE Named'
  BY <1>8 DEF Pictures!Work, Pictures!Checkpoint, Pictures!trackVars, Pictures!memory,
     Pictures!history
<1>9. ASSUME NEW s \in Singles, Pictures!AskItem(s) PROVE Named'
  BY <1>9 DEF Pictures!AskItem, Pictures!trackVars, Pictures!memory, Pictures!history
<1>10. ASSUME NEW s \in Singles, Pictures!FetchItem(s) PROVE Named'
  BY <1>10 DEF Pictures!FetchItem, Pictures!trackVars, Pictures!memory, Pictures!history
<1>11. ASSUME NEW s \in Singles, Pictures!SaveItem(s) PROVE Named'
  BY <1>11 DEF Pictures!SaveItem, Pictures!Kept, Pictures!trackVars, Pictures!memory,
     Pictures!history
<1>12. ASSUME NEW s \in Singles, Pictures!IndexItem(s) PROVE Named'
  BY <1>12 DEF Pictures!IndexItem, Pictures!Kept, Pictures!trackVars, Pictures!memory,
     Pictures!history
<1>13. CASE Pictures!Tick \/ Pictures!Delta \/ Pictures!ListFails \/ Pictures!WarmUp
        \/ Pictures!Begin \/ Pictures!Drained \/ Pictures!Finish \/ Pictures!Stop
  BY <1>13 DEF Pictures!Tick, Pictures!Delta, Pictures!ListFails, Pictures!WarmUp, Pictures!Begin,
     Pictures!Drained, Pictures!Finish, Pictures!Stop, Pictures!Current, Pictures!Missing,
     Pictures!StartPersisted, Pictures!Persisted, Pictures!Referenced, Pictures!trackVars,
     Pictures!memory, Pictures!history
<1>14. ASSUME NEW t \in Pictures!Tracks, Pictures!Change(t) PROVE Named'
  BY <1>14 DEF Pictures!Change, Pictures!trackVars, Pictures!memory, Pictures!history
<1>15. ASSUME NEW a \in Albums, Pictures!Fetch(a) PROVE Named'
  BY <1>15 DEF Pictures!Fetch, Pictures!Checkpoint, Pictures!trackVars, Pictures!memory,
     Pictures!history
<1> HIDE DEF CoversIInv, Named, Entries, Pictures!Kept, Pictures!None, Pictures!NoAsk,
   Pictures!Referenced, CoverAssumption, CoversTyped, LibraryOK, MemoryOK, DiskOK, BuildOK,
   AsksOK, Pictures!Tracks, Items, Tables, Asks, Builds
<1> QED
  BY <1>1, <1>2, <1>3, <1>4, <1>5, <1>6, <1>7, <1>8, <1>9, <1>10, <1>11, <1>12, <1>13, <1>14,
     <1>15 DEF Pictures!Next

\* Nothing changes.
LEMMA CoversUnchanged ==
    ASSUME CoversIInv, UNCHANGED Pictures!vars
    PROVE  CoversIInv'
<1> USE DEF Pictures!vars, Pictures!trackVars, Pictures!memory, Pictures!history
<1>1. CoversTyped'
  BY DEF CoversIInv, CoversTyped, LibraryOK, MemoryOK, DiskOK, BuildOK, AsksOK
<1>2. Watched' /\ Coming'
  BY DEF CoversIInv, Watched, Clocks, Steps, Unseen, Coming, Queued, AlbumsAsked, SinglesAsked
<1>3. Remembered' /\ Stored'
  BY DEF CoversIInv, Remembered, Stored, Right, InMemory, OnDisk, Pictures!Current
<1>4. Entries' /\ SinglesKept' /\ Named'
  BY DEF CoversIInv, Entries, SinglesKept, Named, Answers, InMemory, Pictures!Kept
<1> QED
  BY <1>1, <1>2, <1>3, <1>4 DEF CoversIInv

\* It holds at first.
LEMMA CoversInit ==
    ASSUME Pictures!Init
    PROVE  CoversIInv
<1> USE DEF Pictures!Init, Pictures!None, Pictures!Idle, Pictures!NoAsk
<1>1. CoversTyped
  <2>1. Pictures!None \in Items /\ Pictures!NoAsk \in Asks /\ Pictures!Idle \in Builds
    BY DEF Items, Asks, Builds
  <2>2. disk \in Tables
    BY <2>1 DEF Tables
  <2> QED
    BY <2>1, <2>2 DEF CoversTyped, LibraryOK, MemoryOK, DiskOK, BuildOK, AsksOK
<1>2. Watched /\ Coming
  BY DEF Watched, Clocks, Steps, Unseen, Coming, Queued, AlbumsAsked, SinglesAsked,
     Pictures!Tracks
<1>3. Remembered /\ Stored
  BY DEF Remembered, Stored, Right, InMemory, OnDisk, Pictures!Current, Pictures!Tracks
<1>4. Entries /\ SinglesKept /\ Named
  BY DEF Entries, SinglesKept, Named, Answers, InMemory, Pictures!Tracks
<1> QED
  BY <1>1, <1>2, <1>3, <1>4 DEF CoversIInv

\* Every step keeps it.
LEMMA CoversStep ==
    ASSUME CoversIInv, [Pictures!Next]_(Pictures!vars)
    PROVE  CoversIInv'
<1>1. CASE Pictures!Next
  <2>1. CoversTyped'
    BY <1>1, LibraryType, MemoryType, DiskType, BuildType, AsksType DEF CoversIInv, CoversTyped
  <2>2. Watched' /\ Coming'
    BY <1>1, ClocksStep, StepsStep, UnseenStep, QueuedStep, AlbumsAskedStep, SinglesAskedStep DEF
       Watched, Coming
  <2> QED
    BY <1>1, <2>1, <2>2, RememberedStep, StoredStep, EntriesStep, SinglesKeptStep, NamedStep DEF
       CoversIInv
<1> QED
  BY <1>1, CoversUnchanged

\* The cover cache's invariant.
THEOREM CoversInvariant == Pictures!Spec => []CoversIInv
  BY CoversInit, CoversStep, PTL DEF Pictures!Spec

\* CoversCurrent, for any albums, tracks and changes.
THEOREM CoversCorrect == Pictures!Spec => []CoversCurrent
<1>1. CoversIInv => CoversCurrent
  <2> SUFFICES ASSUME CoversIInv, build.at = "idle" PROVE CoversCurrent
    BY DEF CoversCurrent, Pictures!CoversCurrent
  <2>1. \A a \in Albums \ (artDue \cup unseen \cup artOvertaken) : Right(covers[a], a \in noArt, a)
    BY DEF CoversIInv, Remembered, InMemory
  <2>2. \A s \in Singles \ (artDue \cup artOvertaken) : Answers(items[s], s)
    BY DEF CoversIInv, SinglesKept, InMemory
  <2> QED
    BY <2>1, <2>2 DEF CoversCurrent, Pictures!CoversCurrent, Right, Answers
<1> QED
  BY <1>1, CoversInvariant, PTL

\* FilesKept, for any albums, tracks and changes.
THEOREM FilesCorrect == Pictures!Spec => []FilesKept
<1>1. CoversIInv => FilesKept
  BY DEF CoversIInv, Named, FilesKept, Pictures!FilesKept
<1> QED
  BY <1>1, CoversInvariant, PTL

-----------------------------------------------------------------------------
(* The rows, TagSync. *)

\* What is proved of TagSync, whose rows are run here as they are.
RowsFacts == INSTANCE TagSyncProofs

\* Both are of the same TagSync.
LEMMA SameRows ==
    /\ Init => RowsFacts!Init
    /\ Next => RowsFacts!Next
  BY DEF Tasks, hostVars, history, vars, NoTags, Idle, NoPass, Init, Happens, Changing, Edit,
     RemoveFile, Held, InHand, AddFile, Browse, Ask, BeginBackfill, Look, Fetch, FetchFails,
     Put, Answer, Apply, Lose, BeginPass, DropRows, DropNothing, Drop, List, Index,
     RecordListing, Record, Host, Request, Scan, Next, AtRest, Settled, DroppedIsRefetched,
     RowsFacts!Tasks, RowsFacts!hostVars, RowsFacts!history, RowsFacts!vars, RowsFacts!NoTags,
     RowsFacts!Idle, RowsFacts!NoPass, RowsFacts!Init, RowsFacts!Happens, RowsFacts!Changing,
     RowsFacts!Edit, RowsFacts!RemoveFile, RowsFacts!Held, RowsFacts!InHand, RowsFacts!AddFile,
     RowsFacts!Browse, RowsFacts!Ask, RowsFacts!BeginBackfill, RowsFacts!Look, RowsFacts!Fetch,
     RowsFacts!FetchFails, RowsFacts!Put, RowsFacts!Answer, RowsFacts!Apply, RowsFacts!Lose,
     RowsFacts!BeginPass, RowsFacts!DropRows, RowsFacts!DropNothing, RowsFacts!Drop,
     RowsFacts!List, RowsFacts!Index, RowsFacts!RecordListing, RowsFacts!Record, RowsFacts!Host,
     RowsFacts!Request, RowsFacts!Scan, RowsFacts!Next, RowsFacts!AtRest, RowsFacts!Settled,
     RowsFacts!DroppedIsRefetched

\* A behaviour of the rows that are run is one of those the theorems are about.
LEMMA SameRowsSpec == Spec => RowsFacts!Spec
<1>1. [Next]_vars => [RowsFacts!Next]_(RowsFacts!vars)
  BY SameRows DEF hostVars, history, vars, RowsFacts!hostVars, RowsFacts!history, RowsFacts!vars
<1> QED
  BY SameRows, <1>1, PTL DEF Spec, RowsFacts!Spec

\* Once nothing is owed the rows hold the tags of the host and a client that has read to the
\* head holds them too, for any files, browses and clients (write-back, drop, library_changes).
THEOREM RowsServed == Spec => [](RowsCurrent /\ ClientsCurrent)
<1>1. RowsFacts!RowsCurrent /\ RowsFacts!ClientsCurrent => RowsCurrent /\ ClientsCurrent
  BY DEF RowsCurrent, ClientsCurrent, RowsFacts!RowsCurrent, RowsFacts!ClientsCurrent, Tasks,
     hostVars, history, vars, NoTags, Idle, NoPass, Init, Happens, Changing, Edit, RemoveFile,
     Held, InHand, AddFile, Browse, Ask, BeginBackfill, Look, Fetch, FetchFails, Put, Answer,
     Apply, Lose, BeginPass, DropRows, DropNothing, Drop, List, Index, RecordListing, Record,
     Host, Request, Scan, Next, AtRest, Settled, DroppedIsRefetched, RowsFacts!Tasks,
     RowsFacts!hostVars, RowsFacts!history, RowsFacts!vars, RowsFacts!NoTags, RowsFacts!Idle,
     RowsFacts!NoPass, RowsFacts!Init, RowsFacts!Happens, RowsFacts!Changing, RowsFacts!Edit,
     RowsFacts!RemoveFile, RowsFacts!Held, RowsFacts!InHand, RowsFacts!AddFile,
     RowsFacts!Browse, RowsFacts!Ask, RowsFacts!BeginBackfill, RowsFacts!Look, RowsFacts!Fetch,
     RowsFacts!FetchFails, RowsFacts!Put, RowsFacts!Answer, RowsFacts!Apply, RowsFacts!Lose,
     RowsFacts!BeginPass, RowsFacts!DropRows, RowsFacts!DropNothing, RowsFacts!Drop,
     RowsFacts!List, RowsFacts!Index, RowsFacts!RecordListing, RowsFacts!Record, RowsFacts!Host,
     RowsFacts!Request, RowsFacts!Scan, RowsFacts!Next, RowsFacts!AtRest, RowsFacts!Settled,
     RowsFacts!DroppedIsRefetched
<1>2. RowsFacts!TagSyncAssumption
  BY TagSyncAssumption DEF TagSyncAssumption, RowsFacts!TagSyncAssumption, IsFiniteSet,
     RowsFacts!IsFiniteSet
<1>3. RowsFacts!Spec => []RowsFacts!RowsCurrent
  BY <1>2, RowsFacts!RowsCorrect, PTL
<1>4. RowsFacts!Spec => []RowsFacts!ClientsCurrent
  BY <1>2, RowsFacts!ClientsCorrect, PTL
<1> QED
  BY SameRowsSpec, <1>3, <1>4, <1>1, PTL

-----------------------------------------------------------------------------
(* All, as they are run. *)

\* What run library checks of the rows, the passes, the covers and the categories, for any
\* constants: a run of them is one of each.
THEOREM LibraryCorrect ==
    MCSpec => /\ [](RowsCurrent /\ ClientsCurrent)
              /\ [](LogHoldsLibrary /\ NoEditLost /\ StaysInService)
              /\ [](CoversCurrent /\ FilesKept /\ TagsCurrent)
<1>1. MCInit => Init /\ Passes!Init /\ Pictures!Init /\ Category!Init
  BY DEF MCInit
<1>2. [MCNext]_<<side, vars, coverVars, mediaVars, passVars>> => [Next]_vars
  BY DEF MCNext, coverVars, mediaVars, passVars, vars, history, hostVars
<1>3. [MCNext]_<<side, vars, coverVars, mediaVars, passVars>> => [Passes!Next]_(Passes!vars)
  BY DEF MCNext, coverVars, mediaVars, passVars, Passes!vars, Passes!scanVars, Passes!storeVars,
     Passes!hostVars
<1>4. [MCNext]_<<side, vars, coverVars, mediaVars, passVars>> => [Pictures!Next]_(Pictures!vars)
  BY DEF MCNext, coverVars, mediaVars, passVars, Pictures!vars, Pictures!history,
     Pictures!memory, Pictures!trackVars
<1>5. [MCNext]_<<side, vars, coverVars, mediaVars, passVars>> => [Category!Next]_(Category!vars)
  BY DEF MCNext, coverVars, mediaVars, passVars, Category!vars, Category!clientVars,
     Category!taskVars, Category!hostVars
<1>6. MCSpec => Spec /\ Passes!Spec /\ Pictures!Spec /\ Category!Spec
  BY <1>1, <1>2, <1>3, <1>4, <1>5, PTL DEF MCSpec, Spec, Passes!Spec, Pictures!Spec,
     Category!Spec
<1> QED
  BY <1>6, RowsServed, PassesLog, PassesEdits, PassesService, CoversCorrect, FilesCorrect,
     TagsCorrect, PTL
=============================================================================
