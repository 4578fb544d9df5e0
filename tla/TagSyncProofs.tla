---------------------------- MODULE TagSyncProofs ----------------------------
(***************************************************************************)
(* Proofs about the tags a client is sent, for every set of files, browses *)
(* and clients and any number of things the host does.                     *)
(*                                                                         *)
(* The invariant says who will set right what is stale.  A row, or what a  *)
(* request will write to it, is right or about to be dropped; a client's   *)
(* track is right, being read, still to be asked for, or about to be filed *)
(* again.  That the drop comes before the filing is what makes a page that *)
(* serves a change serve the new tags.                                     *)
(***************************************************************************)
EXTENDS TagSync, TLAPS

\* A pass has listed the library exactly while it indexes and files it.
PassShape == pass.listed <=> pass.step \in {"index", "record"}

\* A request holds tags of what it asked for, and none of what it found missing
\* before the host answers; the backfill asks for what the log holds.
ShapeOf(t) ==
    /\ task[t].step = "idle" => task[t] = Idle
    /\ task[t].missed \subseteq task[t].asked
    /\ \A p \in Paths : task[t].got[p] # 0 => p \in task[t].asked
    /\ task[t].step = "fetch" => \A p \in task[t].missed : task[t].got[p] = 0
    /\ t = Backfill => task[t].asked \subseteq live
TaskShape == \A t \in Tasks : ShapeOf(t)

\* An edit whose row will be dropped, and one that will be filed.
DropDue(p) == p \in reported \/ (pass.step = "drop" /\ p \in pass.edited)
EditDue(p) ==
    \/ p \in reported
    \/ pass.step \in {"drop", "list", "index", "record"} /\ p \in pass.edited

\* A row is right or about to be dropped, and so is what a request will write.
RowsHold ==
    \A p \in Paths : Settled(p) => row[p] \in {0, tags[p]} \/ DropDue(p)
PutsHold ==
    \A t \in Tasks, p \in Paths :
        (Settled(p) /\ task[t].step = "put" /\ p \in task[t].missed) =>
            task[t].got[p] \in {0, tags[p]} \/ DropDue(p)

\* The log holds the library, or a pass is to list it, or has and will file it.
LibraryHolds ==
    \/ relist
    \/ pass.step \in {"drop", "list"}
    \/ pass.step \in {"index", "record"} /\ pass.listing = library
    \/ pass.step \in {"none", "backfill"} /\ live = library

\* Client c has the tags of p, or will have once its request is answered.
Reads(c, p) ==
    IF p \notin task[c].asked THEN copy[c][p] = tags[p]
    ELSE \/ task[c].step = "look"
         \/ task[c].step = "fetch" /\ p \in task[c].missed
         \/ task[c].got[p] = tags[p]

\* What the log will file of p without another report.
FileDue(p) == EditDue(p) \/ p \notin library \/ (pass.listed /\ p \notin pass.listing)

\* A client that is not behind on p has it as the log does.
CopyHolds(c, p) ==
    IF p \in live
    THEN p \notin task[c].gone /\ (Settled(p) => Reads(c, p) \/ FileDue(p))
    ELSE p \notin task[c].asked /\ (p \in task[c].gone \/ copy[c][p] = 0)
CopiesHold == \A c \in Clients : \A p \in Paths \ behind[c] : CopyHolds(c, p)

IInv == /\ TypeOK /\ PassShape /\ TaskShape
        /\ RowsHold /\ PutsHold /\ LibraryHolds /\ CopiesHold

\* A task of the state.
Task == [step : {"idle", "look", "fetch", "put", "reply"},
         asked : SUBSET Paths, gone : SUBSET Paths, missed : SUBSET Paths, got : [Paths -> Nat]]
\* The parts of the type invariant.
FilesOK ==
    /\ library \subseteq Paths /\ live \subseteq Paths /\ reported \subseteq Paths
    /\ relist \in BOOLEAN /\ overtaken \subseteq Paths /\ replaced \subseteq Paths
ListsOK ==
    /\ tags \in [Paths -> Nat \ {0}] /\ row \in [Paths -> Nat]
    /\ behind \in [Clients -> SUBSET Paths] /\ events \in Nat
CopyOK == copy \in [Clients -> [Paths -> Nat]]
TasksOK == task \in [Tasks -> Task]
PassOK ==
    pass \in [step : {"none", "drop", "list", "index", "record", "backfill"},
                 edited : SUBSET Paths, listed : BOOLEAN, listing : SUBSET Paths]
GuardOK == task[Backfill].step # "idle" => pass = NoPass

-----------------------------------------------------------------------------
\* What a request becomes when it has read the rows of what it asks for.
LEMMA LookEffect ==
    ASSUME TypeOK, NEW u \in Tasks, Look(u)
    PROVE  /\ UNCHANGED <<library, tags, reported, relist, events, row, live, behind, copy, pass,
                          overtaken, replaced>>
           /\ task' \in [Tasks -> Task]
           /\ \A t \in Tasks \ {u} : task'[t] = task[t]
           /\ task[u].step = "look"
           /\ task'[u].asked = task[u].asked /\ task'[u].gone = task[u].gone
           /\ task'[u].missed = {p \in task[u].asked : row[p] = 0}
           /\ \A p \in Paths : task'[u].got[p] = IF p \in task[u].asked THEN row[p] ELSE 0
           /\ task'[u].step = IF task'[u].missed = {} THEN "reply" ELSE "fetch"
<1> DEFINE missed == {p \in task[u].asked : row[p] = 0}
           got == [p \in Paths |-> IF p \in task[u].asked THEN row[p] ELSE 0]
           step == IF missed = {} THEN "reply" ELSE "fetch"
           looked == [step |-> step, asked |-> task[u].asked, gone |-> task[u].gone,
                      missed |-> missed, got |-> got]
<1>1. task \in [Tasks -> Task] /\ task[u] \in Task
  BY DEF TypeOK, Task
<1>2. missed \in SUBSET Paths /\ got \in [Paths -> Nat] /\ step \in {"reply", "fetch"}
  BY <1>1 DEF Task, TypeOK
<1>3. task' = [task EXCEPT ![u] = [[[task[u] EXCEPT !.missed = missed]
                                             EXCEPT !.got = got]
                                             EXCEPT !.step = step]]
  BY <1>1 DEF Look
<1>4. /\ task[u].step = "look"
      /\ UNCHANGED <<library, tags, reported, relist, events, row, live, behind, copy, pass,
                     overtaken, replaced>>
  BY DEF Look, hostVars, history
<1>5. \A p \in Paths : got[p] = IF p \in task[u].asked THEN row[p] ELSE 0
  OBVIOUS
<1> HIDE DEF missed, got, step
<1>6. task' = [task EXCEPT ![u] = looked]
  <2> DEFINE one == [task[u] EXCEPT !.missed = missed]
             two == [one EXCEPT !.got = got]
             all == [two EXCEPT !.step = step]
  <2>1. one = [step |-> task[u].step, asked |-> task[u].asked, gone |-> task[u].gone,
               missed |-> missed, got |-> task[u].got]
    BY <1>1 DEF Task
  <2> HIDE DEF one
  <2>2. two = [step |-> task[u].step, asked |-> task[u].asked, gone |-> task[u].gone,
               missed |-> missed, got |-> got]
    BY <2>1
  <2> HIDE DEF two
  <2>3. all = looked
    BY <2>2
  <2> QED
    BY <1>3, <2>3 DEF one, two
<1>7. task'[u] = looked /\ \A t \in Tasks \ {u} : task'[t] = task[t]
  BY <1>1, <1>6
<1>8. task' \in [Tasks -> Task]
  BY <1>1, <1>2, <1>6 DEF Task
<1> QED
  BY <1>4, <1>5, <1>7, <1>8 DEF missed, step

\* What a request becomes when the host has answered for what it missed.
LEMMA FetchEffect ==
    ASSUME TypeOK, NEW u \in Tasks, Fetch(u)
    PROVE  /\ UNCHANGED <<library, tags, reported, relist, events, row, live, behind, copy, pass,
                          overtaken, replaced>>
           /\ \A t \in Tasks \ {u} : task'[t] = task[t]
           /\ task[u].step = "fetch" /\ task'[u].step = "put"
           /\ task'[u].asked = task[u].asked /\ task'[u].gone = task[u].gone
           /\ task'[u].missed = task[u].missed
           /\ \A p \in Paths : task'[u].got[p] = IF p \in task[u].missed \cap library
                                                 THEN tags[p] ELSE task[u].got[p]
<1> DEFINE got == [p \in Paths |-> IF p \in task[u].missed \cap library
                                   THEN tags[p] ELSE task[u].got[p]]
           fetched == [step |-> "put", asked |-> task[u].asked, gone |-> task[u].gone,
                       missed |-> task[u].missed, got |-> got]
<1>1. task \in [Tasks -> Task] /\ task[u] \in Task
  BY DEF TypeOK, Task
<1>2. task' = [task EXCEPT ![u] = [[task[u] EXCEPT !.got = got] EXCEPT !.step = "put"]]
  BY <1>1 DEF Fetch
<1>3. /\ task[u].step = "fetch"
      /\ UNCHANGED <<library, tags, reported, relist, events, row, live, behind, copy, pass,
                     overtaken, replaced>>
  BY DEF Fetch, hostVars, history
<1>4. \A p \in Paths : got[p] = IF p \in task[u].missed \cap library THEN tags[p]
                              ELSE task[u].got[p]
  OBVIOUS
<1> HIDE DEF got
<1>5. task' = [task EXCEPT ![u] = fetched]
  <2> DEFINE one == [task[u] EXCEPT !.got = got]
             all == [one EXCEPT !.step = "put"]
  <2>1. one = [step |-> task[u].step, asked |-> task[u].asked, gone |-> task[u].gone,
               missed |-> task[u].missed, got |-> got]
    BY <1>1 DEF Task
  <2> HIDE DEF one
  <2>2. all = fetched
    BY <2>1
  <2> QED
    BY <1>2, <2>2 DEF one
<1>6. task'[u] = fetched /\ \A t \in Tasks \ {u} : task'[t] = task[t]
  BY <1>1, <1>5
<1> QED
  BY <1>3, <1>4, <1>6

\* What a request becomes when it has written back what it fetched.
LEMMA PutEffect ==
    ASSUME TypeOK, NEW u \in Tasks, Put(u)
    PROVE  /\ UNCHANGED <<library, tags, reported, relist, events, live, behind, copy, pass,
                          overtaken, replaced>>
           /\ \A p \in Paths : row'[p] = IF p \in task[u].missed /\ task[u].got[p] # 0
                                         THEN task[u].got[p] ELSE row[p]
           /\ task' \in [Tasks -> Task]
           /\ \A t \in Tasks \ {u} : task'[t] = task[t]
           /\ task[u].step = "put"
           /\ \/ u \notin Clients /\ task'[u] = Idle
              \/ /\ u \in Clients /\ task'[u].step = "reply"
                 /\ task'[u].asked = task[u].asked /\ task'[u].gone = task[u].gone
                 /\ task'[u].missed = task[u].missed /\ task'[u].got = task[u].got
<1>1. task \in [Tasks -> Task] /\ task[u] \in Task
  BY DEF TypeOK, Task
<1>2. /\ task[u].step = "put"
      /\ UNCHANGED <<library, tags, reported, relist, events, live, behind, copy, pass,
                     overtaken, replaced>>
      /\ \A p \in Paths : row'[p] = IF p \in task[u].missed /\ task[u].got[p] # 0
                                    THEN task[u].got[p] ELSE row[p]
  BY DEF Put, hostVars, history
<1>3. CASE u \in Clients
  <2>1. task' = [task EXCEPT ![u] = [task[u] EXCEPT !.step = "reply"]]
    BY <1>1, <1>3 DEF Put
  <2>2. [task[u] EXCEPT !.step = "reply"]
          = [step |-> "reply", asked |-> task[u].asked, gone |-> task[u].gone,
             missed |-> task[u].missed, got |-> task[u].got]
    BY <1>1 DEF Task
  <2>3. task' = [task EXCEPT ![u] = [step |-> "reply", asked |-> task[u].asked,
                                     gone |-> task[u].gone, missed |-> task[u].missed,
                                     got |-> task[u].got]]
    BY <2>1, <2>2
  <2>4. task' \in [Tasks -> Task]
    BY <1>1, <2>3 DEF Task
  <2> QED
    BY <1>1, <1>2, <1>3, <2>3, <2>4
<1>4. CASE u \notin Clients
  <2>1. task' = [task EXCEPT ![u] = Idle]
    BY <1>4 DEF Put
  <2>2. Idle \in Task
    BY DEF Idle, NoTags, Task
  <2> QED
    BY <1>1, <1>2, <1>4, <2>1, <2>2
<1> QED
  BY <1>3, <1>4

\* A step keeps what is known of files within Paths.
LEMMA FilesStep ==
    ASSUME TypeOK, [Next]_vars
    PROVE  FilesOK'
<1> USE DEF TypeOK, Tasks, Idle, NoTags, NoPass, FilesOK
<1>1. ASSUME NEW x \in Paths, Changing(x)
      PROVE  FilesOK'
  BY <1>1 DEF Changing, Happens, history
<1>2. ASSUME NEW x \in Paths, Edit(x)
      PROVE  FilesOK'
  BY <1>2 DEF Edit, Happens, history
<1>3. ASSUME NEW x \in Paths, RemoveFile(x)
      PROVE  FilesOK'
  BY <1>3 DEF RemoveFile, Happens, history
<1>4. ASSUME NEW x \in Paths, AddFile(x)
      PROVE  FilesOK'
  BY <1>4 DEF AddFile, Happens
<1>5. ASSUME NEW b \in Browsers, Answer(b)
      PROVE  FilesOK'
  BY <1>5 DEF Answer, hostVars, history
<1>6. ASSUME NEW b \in Browsers, NEW page \in SUBSET live, Browse(b, page)
      PROVE  FilesOK'
  BY <1>6 DEF Browse, hostVars, history
<1>7. ASSUME NEW d \in Clients, Ask(d)
      PROVE  FilesOK'
  BY <1>7 DEF Ask, hostVars, history
<1>8. ASSUME NEW d \in Clients, Apply(d)
      PROVE  FilesOK'
  BY <1>8 DEF Apply, hostVars, history
<1>9. ASSUME NEW d \in Clients, Lose(d)
      PROVE  FilesOK'
  BY <1>9 DEF Lose, hostVars, history
<1>10. ASSUME NEW u \in Tasks, Look(u)
      PROVE  FilesOK'
  BY <1>10 DEF Look, hostVars, history
<1>11. ASSUME NEW u \in Tasks, Fetch(u)
      PROVE  FilesOK'
  BY <1>11 DEF Fetch, hostVars, history
<1>12. ASSUME NEW u \in Tasks, FetchFails(u)
      PROVE  FilesOK'
  BY <1>12 DEF FetchFails, hostVars, history
<1>13. ASSUME NEW u \in Tasks, Put(u)
      PROVE  FilesOK'
  BY <1>13 DEF Put, hostVars, history
<1>14. CASE BeginBackfill
  BY <1>14 DEF BeginBackfill, hostVars, history
<1>15. CASE BeginPass
  BY <1>15 DEF BeginPass, history
<1>16. CASE Drop
  BY <1>16 DEF Drop, DropRows, hostVars
<1>17. CASE List
  BY <1>17 DEF List, hostVars, history
<1>18. CASE Index
  BY <1>18 DEF Index, DropRows, hostVars
<1>19. CASE Record
  BY <1>19 DEF Record, hostVars, history
<1>20. CASE UNCHANGED vars
  BY <1>20 DEF vars, hostVars, history
<1> QED
  BY <1>1, <1>2, <1>3, <1>4, <1>5, <1>6, <1>7, <1>8, <1>9, <1>10, <1>11, <1>12, <1>13, <1>14,
     <1>15, <1>16, <1>17, <1>18, <1>19, <1>20 DEF Next, Host, Request, Scan

\* A step keeps the tags, the rows and what each client has not read in their
\* types.
LEMMA ListsStep ==
    ASSUME TypeOK, [Next]_vars
    PROVE  ListsOK'
<1> USE DEF TypeOK, Tasks, Idle, NoTags, NoPass, ListsOK
<1>1. ASSUME NEW x \in Paths, Changing(x)
      PROVE  ListsOK'
  BY <1>1 DEF Changing, Happens, history
<1>2. ASSUME NEW x \in Paths, Edit(x)
      PROVE  ListsOK'
  BY <1>2 DEF Edit, Happens, history
<1>3. ASSUME NEW x \in Paths, RemoveFile(x)
      PROVE  ListsOK'
  BY <1>3 DEF RemoveFile, Happens, history
<1>4. ASSUME NEW x \in Paths, AddFile(x)
      PROVE  ListsOK'
  BY <1>4 DEF AddFile, Happens
<1>5. ASSUME NEW b \in Browsers, Answer(b)
      PROVE  ListsOK'
  BY <1>5 DEF Answer, hostVars, history
<1>6. ASSUME NEW b \in Browsers, NEW page \in SUBSET live, Browse(b, page)
      PROVE  ListsOK'
  BY <1>6 DEF Browse, hostVars, history
<1>7. ASSUME NEW d \in Clients, Ask(d)
      PROVE  ListsOK'
  BY <1>7 DEF Ask, hostVars, history
<1>8. ASSUME NEW d \in Clients, Apply(d)
      PROVE  ListsOK'
  BY <1>8 DEF Apply, hostVars, history
<1>9. ASSUME NEW d \in Clients, Lose(d)
      PROVE  ListsOK'
  BY <1>9 DEF Lose, hostVars, history
<1>10. ASSUME NEW u \in Tasks, Look(u)
      PROVE  ListsOK'
  BY <1>10 DEF Look, hostVars, history
<1>11. ASSUME NEW u \in Tasks, Fetch(u)
      PROVE  ListsOK'
  BY <1>11 DEF Fetch, hostVars, history
<1>12. ASSUME NEW u \in Tasks, FetchFails(u)
      PROVE  ListsOK'
  BY <1>12 DEF FetchFails, hostVars, history
<1>13. ASSUME NEW u \in Tasks, Put(u)
      PROVE  ListsOK'
  BY <1>13 DEF Put, hostVars, history
<1>14. CASE BeginBackfill
  BY <1>14 DEF BeginBackfill, hostVars, history
<1>15. CASE BeginPass
  BY <1>15 DEF BeginPass, history
<1>16. CASE Drop
  BY <1>16 DEF Drop, DropRows, hostVars
<1>17. CASE List
  BY <1>17 DEF List, hostVars, history
<1>18. CASE Index
  BY <1>18 DEF Index, DropRows, hostVars
<1>19. CASE Record
  BY <1>19 DEF Record, hostVars, history
<1>20. CASE UNCHANGED vars
  BY <1>20 DEF vars, hostVars, history
<1> QED
  BY <1>1, <1>2, <1>3, <1>4, <1>5, <1>6, <1>7, <1>8, <1>9, <1>10, <1>11, <1>12, <1>13, <1>14,
     <1>15, <1>16, <1>17, <1>18, <1>19, <1>20 DEF Next, Host, Request, Scan

\* A client only ever takes tags or none into its copy (Apply).
LEMMA CopyStep ==
    ASSUME TypeOK, [Next]_vars
    PROVE  CopyOK'
<1> USE DEF TypeOK, Tasks, Idle, NoTags, NoPass, CopyOK
<1>1. ASSUME NEW x \in Paths, Changing(x)
      PROVE  CopyOK'
  BY <1>1 DEF Changing, Happens, history
<1>2. ASSUME NEW x \in Paths, Edit(x)
      PROVE  CopyOK'
  BY <1>2 DEF Edit, Happens, history
<1>3. ASSUME NEW x \in Paths, RemoveFile(x)
      PROVE  CopyOK'
  BY <1>3 DEF RemoveFile, Happens, history
<1>4. ASSUME NEW x \in Paths, AddFile(x)
      PROVE  CopyOK'
  BY <1>4 DEF AddFile, Happens
<1>5. ASSUME NEW b \in Browsers, Answer(b)
      PROVE  CopyOK'
  BY <1>5 DEF Answer, hostVars, history
<1>6. ASSUME NEW b \in Browsers, NEW page \in SUBSET live, Browse(b, page)
      PROVE  CopyOK'
  BY <1>6 DEF Browse, hostVars, history
<1>7. ASSUME NEW d \in Clients, Ask(d)
      PROVE  CopyOK'
  BY <1>7 DEF Ask, hostVars, history
<1>8. ASSUME NEW d \in Clients, Apply(d)
      PROVE  CopyOK'
  BY <1>8 DEF Apply, hostVars, history
<1>9. ASSUME NEW d \in Clients, Lose(d)
      PROVE  CopyOK'
  BY <1>9 DEF Lose, hostVars, history
<1>10. ASSUME NEW u \in Tasks, Look(u)
      PROVE  CopyOK'
  BY <1>10 DEF Look, hostVars, history
<1>11. ASSUME NEW u \in Tasks, Fetch(u)
      PROVE  CopyOK'
  BY <1>11 DEF Fetch, hostVars, history
<1>12. ASSUME NEW u \in Tasks, FetchFails(u)
      PROVE  CopyOK'
  BY <1>12 DEF FetchFails, hostVars, history
<1>13. ASSUME NEW u \in Tasks, Put(u)
      PROVE  CopyOK'
  BY <1>13 DEF Put, hostVars, history
<1>14. CASE BeginBackfill
  BY <1>14 DEF BeginBackfill, hostVars, history
<1>15. CASE BeginPass
  BY <1>15 DEF BeginPass, history
<1>16. CASE Drop
  BY <1>16 DEF Drop, DropRows, hostVars
<1>17. CASE List
  BY <1>17 DEF List, hostVars, history
<1>18. CASE Index
  BY <1>18 DEF Index, DropRows, hostVars
<1>19. CASE Record
  BY <1>19 DEF Record, hostVars, history
<1>20. CASE UNCHANGED vars
  BY <1>20 DEF vars, hostVars, history
<1> QED
  BY <1>1, <1>2, <1>3, <1>4, <1>5, <1>6, <1>7, <1>8, <1>9, <1>10, <1>11, <1>12, <1>13, <1>14,
     <1>15, <1>16, <1>17, <1>18, <1>19, <1>20 DEF Next, Host, Request, Scan

\* A step keeps the requests in their type.
LEMMA TasksStep ==
    ASSUME TypeOK, [Next]_vars
    PROVE  TasksOK'
<1> USE DEF TypeOK, Tasks, Idle, NoTags, NoPass, TasksOK, Task
<1>1. ASSUME NEW x \in Paths, Changing(x)
      PROVE  TasksOK'
  BY <1>1 DEF Changing, Happens, history
<1>2. ASSUME NEW x \in Paths, Edit(x)
      PROVE  TasksOK'
  BY <1>2 DEF Edit, Happens, history
<1>3. ASSUME NEW x \in Paths, RemoveFile(x)
      PROVE  TasksOK'
  BY <1>3 DEF RemoveFile, Happens, history
<1>4. ASSUME NEW x \in Paths, AddFile(x)
      PROVE  TasksOK'
  BY <1>4 DEF AddFile, Happens
<1>5. ASSUME NEW b \in Browsers, Answer(b)
      PROVE  TasksOK'
  BY <1>5 DEF Answer, hostVars, history
<1>6. ASSUME NEW b \in Browsers, NEW page \in SUBSET live, Browse(b, page)
      PROVE  TasksOK'
  BY <1>6 DEF Browse, hostVars, history
<1>7. ASSUME NEW d \in Clients, Ask(d)
      PROVE  TasksOK'
  BY <1>7 DEF Ask, hostVars, history
<1>8. ASSUME NEW d \in Clients, Apply(d)
      PROVE  TasksOK'
  BY <1>8 DEF Apply, hostVars, history
<1>9. ASSUME NEW d \in Clients, Lose(d)
      PROVE  TasksOK'
  BY <1>9 DEF Lose, hostVars, history
<1>10. ASSUME NEW u \in Tasks, Look(u)
      PROVE  TasksOK'
  BY <1>10, LookEffect
<1>11. ASSUME NEW u \in Tasks, Fetch(u)
      PROVE  TasksOK'
  BY <1>11 DEF Fetch, hostVars, history
<1>12. ASSUME NEW u \in Tasks, FetchFails(u)
      PROVE  TasksOK'
  BY <1>12 DEF FetchFails, hostVars, history
<1>13. ASSUME NEW u \in Tasks, Put(u)
      PROVE  TasksOK'
  BY <1>13, PutEffect
<1>14. CASE BeginBackfill
  BY <1>14 DEF BeginBackfill, hostVars, history
<1>15. CASE BeginPass
  BY <1>15 DEF BeginPass, history
<1>16. CASE Drop
  BY <1>16 DEF Drop, DropRows, hostVars
<1>17. CASE List
  BY <1>17 DEF List, hostVars, history
<1>18. CASE Index
  BY <1>18 DEF Index, DropRows, hostVars
<1>19. CASE Record
  BY <1>19 DEF Record, hostVars, history
<1>20. CASE UNCHANGED vars
  BY <1>20 DEF vars, hostVars, history
<1> QED
  BY <1>1, <1>2, <1>3, <1>4, <1>5, <1>6, <1>7, <1>8, <1>9, <1>10, <1>11, <1>12, <1>13, <1>14,
     <1>15, <1>16, <1>17, <1>18, <1>19, <1>20 DEF Next, Host, Request, Scan

\* A step keeps the pass in its type.
LEMMA PassStep ==
    ASSUME TypeOK, [Next]_vars
    PROVE  PassOK'
<1> USE DEF TypeOK, Tasks, Idle, NoTags, NoPass, PassOK
<1>1. ASSUME NEW x \in Paths, Changing(x)
      PROVE  PassOK'
  BY <1>1 DEF Changing, Happens, history
<1>2. ASSUME NEW x \in Paths, Edit(x)
      PROVE  PassOK'
  BY <1>2 DEF Edit, Happens, history
<1>3. ASSUME NEW x \in Paths, RemoveFile(x)
      PROVE  PassOK'
  BY <1>3 DEF RemoveFile, Happens, history
<1>4. ASSUME NEW x \in Paths, AddFile(x)
      PROVE  PassOK'
  BY <1>4 DEF AddFile, Happens
<1>5. ASSUME NEW b \in Browsers, Answer(b)
      PROVE  PassOK'
  BY <1>5 DEF Answer, hostVars, history
<1>6. ASSUME NEW b \in Browsers, NEW page \in SUBSET live, Browse(b, page)
      PROVE  PassOK'
  BY <1>6 DEF Browse, hostVars, history
<1>7. ASSUME NEW d \in Clients, Ask(d)
      PROVE  PassOK'
  BY <1>7 DEF Ask, hostVars, history
<1>8. ASSUME NEW d \in Clients, Apply(d)
      PROVE  PassOK'
  BY <1>8 DEF Apply, hostVars, history
<1>9. ASSUME NEW d \in Clients, Lose(d)
      PROVE  PassOK'
  BY <1>9 DEF Lose, hostVars, history
<1>10. ASSUME NEW u \in Tasks, Look(u)
      PROVE  PassOK'
  BY <1>10 DEF Look, hostVars, history
<1>11. ASSUME NEW u \in Tasks, Fetch(u)
      PROVE  PassOK'
  BY <1>11 DEF Fetch, hostVars, history
<1>12. ASSUME NEW u \in Tasks, FetchFails(u)
      PROVE  PassOK'
  BY <1>12 DEF FetchFails, hostVars, history
<1>13. ASSUME NEW u \in Tasks, Put(u)
      PROVE  PassOK'
  BY <1>13 DEF Put, hostVars, history
<1>14. CASE BeginBackfill
  BY <1>14 DEF BeginBackfill, hostVars, history
<1>15. CASE BeginPass
  BY <1>15 DEF BeginPass, history
<1>16. CASE Drop
  BY <1>16 DEF Drop, DropRows, hostVars
<1>17. CASE List
  BY <1>17 DEF List, hostVars, history
<1>18. CASE Index
  BY <1>18 DEF Index, DropRows, hostVars
<1>19. CASE Record
  BY <1>19 DEF Record, hostVars, history
<1>20. CASE UNCHANGED vars
  BY <1>20 DEF vars, hostVars, history
<1> QED
  BY <1>1, <1>2, <1>3, <1>4, <1>5, <1>6, <1>7, <1>8, <1>9, <1>10, <1>11, <1>12, <1>13, <1>14,
     <1>15, <1>16, <1>17, <1>18, <1>19, <1>20 DEF Next, Host, Request, Scan

\* The backfill and a pass never run together (the guard): a pass waits for it,
\* and it waits for a pass or ends it.
LEMMA GuardStep ==
    ASSUME TypeOK, [Next]_vars
    PROVE  GuardOK'
<1> USE DEF TypeOK, Tasks, Idle, NoTags, NoPass, GuardOK
<1>1. ASSUME NEW x \in Paths, Changing(x)
      PROVE  GuardOK'
  BY <1>1 DEF Changing, Happens, history
<1>2. ASSUME NEW x \in Paths, Edit(x)
      PROVE  GuardOK'
  BY <1>2 DEF Edit, Happens, history
<1>3. ASSUME NEW x \in Paths, RemoveFile(x)
      PROVE  GuardOK'
  BY <1>3 DEF RemoveFile, Happens, history
<1>4. ASSUME NEW x \in Paths, AddFile(x)
      PROVE  GuardOK'
  BY <1>4 DEF AddFile, Happens
<1>5. ASSUME NEW b \in Browsers, Answer(b)
      PROVE  GuardOK'
  BY <1>5 DEF Answer, hostVars, history
<1>6. ASSUME NEW b \in Browsers, NEW page \in SUBSET live, Browse(b, page)
      PROVE  GuardOK'
  <2>1. b # Backfill /\ b \in Tasks /\ Backfill \in Tasks
    BY TagSyncAssumption
  <2>2. task' = [task EXCEPT ![b] = [Idle EXCEPT !.step = "look", !.asked = page]] /\ pass' = pass
    BY <1>6 DEF Browse
  <2>3. task'[Backfill] = task[Backfill]
    BY <2>1, <2>2
  <2> QED
    BY <2>2, <2>3
<1>7. ASSUME NEW d \in Clients, Ask(d)
      PROVE  GuardOK'
  <2>1. d # Backfill /\ d \in Tasks /\ Backfill \in Tasks
    BY TagSyncAssumption
  <2>2. /\ task' = [task EXCEPT ![d] = [Idle EXCEPT !.step = "look",
                                                  !.asked = behind[d] \cap live,
                                                  !.gone = behind[d] \ live]]
        /\ pass' = pass
    BY <1>7 DEF Ask
  <2>3. task'[Backfill] = task[Backfill]
    BY <2>1, <2>2
  <2> QED
    BY <2>2, <2>3
<1>8. ASSUME NEW d \in Clients, Apply(d)
      PROVE  GuardOK'
  BY <1>8 DEF Apply, hostVars, history
<1>9. ASSUME NEW d \in Clients, Lose(d)
      PROVE  GuardOK'
  BY <1>9 DEF Lose, hostVars, history
<1>10. ASSUME NEW u \in Tasks, Look(u)
      PROVE  GuardOK'
  BY <1>10, LookEffect
<1>11. ASSUME NEW u \in Tasks, Fetch(u)
      PROVE  GuardOK'
  BY <1>11 DEF Fetch, hostVars, history
<1>12. ASSUME NEW u \in Tasks, FetchFails(u)
      PROVE  GuardOK'
  BY <1>12 DEF FetchFails, hostVars, history
<1>13. ASSUME NEW u \in Tasks, Put(u)
      PROVE  GuardOK'
  BY <1>13, PutEffect
<1>14. CASE BeginBackfill
  BY <1>14 DEF BeginBackfill, hostVars, history
<1>15. CASE BeginPass
  BY <1>15 DEF BeginPass, history
<1>16. CASE Drop
  BY <1>16 DEF Drop, DropRows, hostVars
<1>17. CASE List
  BY <1>17 DEF List, hostVars, history
<1>18. CASE Index
  BY <1>18 DEF Index, DropRows, hostVars
<1>19. CASE Record
  BY <1>19 DEF Record, hostVars, history
<1>20. CASE UNCHANGED vars
  BY <1>20 DEF vars, hostVars, history
<1> QED
  BY <1>1, <1>2, <1>3, <1>4, <1>5, <1>6, <1>7, <1>8, <1>9, <1>10, <1>11, <1>12, <1>13, <1>14,
     <1>15, <1>16, <1>17, <1>18, <1>19, <1>20 DEF Next, Host, Request, Scan

\* The parts make up the type invariant, which is inductive.
LEMMA TypeStep == ASSUME TypeOK, [Next]_vars PROVE TypeOK'
<1>1. FilesOK' /\ ListsOK' /\ CopyOK' /\ TasksOK' /\ PassOK' /\ GuardOK'
  BY FilesStep, ListsStep, CopyStep, TasksStep, PassStep, GuardStep
<1> QED
  BY <1>1 DEF TypeOK, FilesOK, ListsOK, CopyOK, TasksOK, PassOK, GuardOK, Task

\* A pass holds a listing from its listing to its record.
LEMMA ShapeStep ==
    ASSUME TypeOK, PassShape, [Next]_vars
    PROVE  PassShape'
<1> USE DEF TypeOK, Tasks, Idle, NoTags, NoPass, PassShape
<1>1. ASSUME NEW x \in Paths, Changing(x)
      PROVE  PassShape'
  BY <1>1 DEF Changing, Happens, history
<1>2. ASSUME NEW x \in Paths, Edit(x)
      PROVE  PassShape'
  BY <1>2 DEF Edit, Happens, history
<1>3. ASSUME NEW x \in Paths, RemoveFile(x)
      PROVE  PassShape'
  BY <1>3 DEF RemoveFile, Happens, history
<1>4. ASSUME NEW x \in Paths, AddFile(x)
      PROVE  PassShape'
  BY <1>4 DEF AddFile, Happens
<1>5. ASSUME NEW b \in Browsers, Answer(b)
      PROVE  PassShape'
  BY <1>5 DEF Answer, hostVars, history
<1>6. ASSUME NEW b \in Browsers, NEW page \in SUBSET live, Browse(b, page)
      PROVE  PassShape'
  BY <1>6 DEF Browse, hostVars, history
<1>7. ASSUME NEW d \in Clients, Ask(d)
      PROVE  PassShape'
  BY <1>7 DEF Ask, hostVars, history
<1>8. ASSUME NEW d \in Clients, Apply(d)
      PROVE  PassShape'
  BY <1>8 DEF Apply, hostVars, history
<1>9. ASSUME NEW d \in Clients, Lose(d)
      PROVE  PassShape'
  BY <1>9 DEF Lose, hostVars, history
<1>10. ASSUME NEW u \in Tasks, Look(u)
      PROVE  PassShape'
  BY <1>10 DEF Look, hostVars, history
<1>11. ASSUME NEW u \in Tasks, Fetch(u)
      PROVE  PassShape'
  BY <1>11 DEF Fetch, hostVars, history
<1>12. ASSUME NEW u \in Tasks, FetchFails(u)
      PROVE  PassShape'
  BY <1>12 DEF FetchFails, hostVars, history
<1>13. ASSUME NEW u \in Tasks, Put(u)
      PROVE  PassShape'
  BY <1>13 DEF Put, hostVars, history
<1>14. CASE BeginBackfill
  BY <1>14 DEF BeginBackfill, hostVars, history
<1>15. CASE BeginPass
  BY <1>15 DEF BeginPass, history
<1>16. CASE Drop
  BY <1>16 DEF Drop, DropRows, hostVars
<1>17. CASE List
  BY <1>17 DEF List, hostVars, history
<1>18. CASE Index
  BY <1>18 DEF Index, DropRows, hostVars
<1>19. CASE Record
  BY <1>19 DEF Record, hostVars, history
<1>20. CASE UNCHANGED vars
  BY <1>20 DEF vars, hostVars, history
<1> QED
  BY <1>1, <1>2, <1>3, <1>4, <1>5, <1>6, <1>7, <1>8, <1>9, <1>10, <1>11, <1>12, <1>13, <1>14,
     <1>15, <1>16, <1>17, <1>18, <1>19, <1>20 DEF Next, Host, Request, Scan

\* A request holds tags of what it asked for only, and the log keeps what a
\* backfill asked for, since no pass files anything beside it.
LEMMA TaskShapeStep ==
    ASSUME TypeOK, PassShape, TaskShape, [Next]_vars
    PROVE  TaskShape'
<1> USE DEF TypeOK, Tasks, Idle, NoTags, NoPass, PassShape, TaskShape, ShapeOf
<1>1. ASSUME NEW x \in Paths, Changing(x)
      PROVE  TaskShape'
  BY <1>1 DEF Changing, Happens, history
<1>2. ASSUME NEW x \in Paths, Edit(x)
      PROVE  TaskShape'
  BY <1>2 DEF Edit, Happens, history
<1>3. ASSUME NEW x \in Paths, RemoveFile(x)
      PROVE  TaskShape'
  BY <1>3 DEF RemoveFile, Happens, history
<1>4. ASSUME NEW x \in Paths, AddFile(x)
      PROVE  TaskShape'
  BY <1>4 DEF AddFile, Happens
<1>5. ASSUME NEW b \in Browsers, Answer(b)
      PROVE  TaskShape'
  BY <1>5 DEF Answer, hostVars, history
<1>6. ASSUME NEW b \in Browsers, NEW page \in SUBSET live, Browse(b, page)
      PROVE  TaskShape'
  BY <1>6 DEF Browse, hostVars, history
<1>7. ASSUME NEW d \in Clients, Ask(d)
      PROVE  TaskShape'
  BY <1>7 DEF Ask, hostVars, history
<1>8. ASSUME NEW d \in Clients, Apply(d)
      PROVE  TaskShape'
  BY <1>8 DEF Apply, hostVars, history
<1>9. ASSUME NEW d \in Clients, Lose(d)
      PROVE  TaskShape'
  BY <1>9 DEF Lose, hostVars, history
<1>10. ASSUME NEW u \in Tasks, Look(u)
      PROVE  TaskShape'
  <2> SUFFICES ASSUME NEW t \in Tasks
               PROVE  ShapeOf(t)'
    OBVIOUS
  <2>1. CASE t = u
    BY <1>10, <2>1, LookEffect
  <2>2. CASE t # u
    <3>1. task'[t] = task[t] /\ live' = live
      BY <1>10, <2>2, LookEffect
    <3> QED
      BY <3>1
  <2> QED
    BY <2>1, <2>2
<1>11. ASSUME NEW u \in Tasks, Fetch(u)
      PROVE  TaskShape'
  <2> SUFFICES ASSUME NEW t \in Tasks
               PROVE  ShapeOf(t)'
    OBVIOUS
  <2>1. CASE t = u
    BY <1>11, <2>1, FetchEffect
  <2>2. CASE t # u
    <3>1. task'[t] = task[t] /\ live' = live
      BY <1>11, <2>2, FetchEffect
    <3> QED
      BY <3>1
  <2> QED
    BY <2>1, <2>2
<1>12. ASSUME NEW u \in Tasks, FetchFails(u)
      PROVE  TaskShape'
  BY <1>12 DEF FetchFails, hostVars, history
<1>13. ASSUME NEW u \in Tasks, Put(u)
      PROVE  TaskShape'
  <2> SUFFICES ASSUME NEW t \in Tasks
               PROVE  ShapeOf(t)'
    OBVIOUS
  <2>1. CASE t = u
    <3>1. CASE t \in Clients
      BY <1>13, <2>1, <3>1, PutEffect
    <3>2. CASE t \notin Clients
      <4>1. task'[t] = Idle /\ live' = live
        BY <1>13, <2>1, <3>2, PutEffect
      <4>2. /\ Idle.asked = {} /\ Idle.missed = {} /\ Idle.step = "idle"
            /\ \A p \in Paths : Idle.got[p] = 0
        OBVIOUS
      <4> QED
        BY <4>1, <4>2 DEF ShapeOf
    <3> QED
      BY <3>1, <3>2
  <2>2. CASE t # u
    <3>1. task'[t] = task[t] /\ live' = live
      BY <1>13, <2>2, PutEffect
    <3> QED
      BY <3>1
  <2> QED
    BY <2>1, <2>2
<1>14. CASE BeginBackfill
  BY <1>14 DEF BeginBackfill, hostVars, history
<1>15. CASE BeginPass
  BY <1>15 DEF BeginPass, history
<1>16. CASE Drop
  BY <1>16 DEF Drop, DropRows, hostVars
<1>17. CASE List
  BY <1>17 DEF List, hostVars, history
<1>18. CASE Index
  BY <1>18 DEF Index, DropRows, hostVars
<1>19. CASE Record
  <2>1. task[Backfill].asked = {} /\ task' = task
    BY <1>19 DEF Record
  <2> SUFFICES ASSUME NEW t \in Tasks
               PROVE  ShapeOf(t)'
    OBVIOUS
  <2> QED
    BY <2>1
<1>20. CASE UNCHANGED vars
  BY <1>20 DEF vars, hostVars, history
<1> QED
  BY <1>1, <1>2, <1>3, <1>4, <1>5, <1>6, <1>7, <1>8, <1>9, <1>10, <1>11, <1>12, <1>13, <1>14,
     <1>15, <1>16, <1>17, <1>18, <1>19, <1>20 DEF Next, Host, Request, Scan

\* A row is only written by a request whose tags are right or due to be dropped
\* with it, and only an edit that is reported makes it wrong.
LEMMA RowsStep ==
    ASSUME TypeOK, PassShape, TaskShape, RowsHold, PutsHold, [Next]_vars
    PROVE  RowsHold'
<1> USE DEF TypeOK, Tasks, Idle, NoTags, NoPass, PassShape, TaskShape, ShapeOf, RowsHold,
   PutsHold, DropDue, Settled, Held, InHand
<1>1. ASSUME NEW x \in Paths, Changing(x)
      PROVE  RowsHold'
  BY <1>1 DEF Changing, Happens, history
<1>2. ASSUME NEW x \in Paths, Edit(x)
      PROVE  RowsHold'
  BY <1>2 DEF Edit, Happens, history
<1>3. ASSUME NEW x \in Paths, RemoveFile(x)
      PROVE  RowsHold'
  BY <1>3 DEF RemoveFile, Happens, history
<1>4. ASSUME NEW x \in Paths, AddFile(x)
      PROVE  RowsHold'
  BY <1>4 DEF AddFile, Happens
<1>5. ASSUME NEW b \in Browsers, Answer(b)
      PROVE  RowsHold'
  BY <1>5 DEF Answer, hostVars, history
<1>6. ASSUME NEW b \in Browsers, NEW page \in SUBSET live, Browse(b, page)
      PROVE  RowsHold'
  BY <1>6 DEF Browse, hostVars, history
<1>7. ASSUME NEW d \in Clients, Ask(d)
      PROVE  RowsHold'
  BY <1>7 DEF Ask, hostVars, history
<1>8. ASSUME NEW d \in Clients, Apply(d)
      PROVE  RowsHold'
  BY <1>8 DEF Apply, hostVars, history
<1>9. ASSUME NEW d \in Clients, Lose(d)
      PROVE  RowsHold'
  BY <1>9 DEF Lose, hostVars, history
<1>10. ASSUME NEW u \in Tasks, Look(u)
      PROVE  RowsHold'
  BY <1>10, LookEffect
<1>11. ASSUME NEW u \in Tasks, Fetch(u)
      PROVE  RowsHold'
  BY <1>11, FetchEffect
<1>12. ASSUME NEW u \in Tasks, FetchFails(u)
      PROVE  RowsHold'
  BY <1>12 DEF FetchFails, hostVars, history
<1>13. ASSUME NEW u \in Tasks, Put(u)
      PROVE  RowsHold'
  BY <1>13, PutEffect
<1>14. CASE BeginBackfill
  BY <1>14 DEF BeginBackfill, hostVars, history
<1>15. CASE BeginPass
  BY <1>15 DEF BeginPass, history
<1>16. CASE Drop
  BY <1>16 DEF Drop, DropRows, hostVars
<1>17. CASE List
  BY <1>17 DEF List, hostVars, history
<1>18. CASE Index
  BY <1>18 DEF Index, DropRows, hostVars
<1>19. CASE Record
  BY <1>19 DEF Record, hostVars, history
<1>20. CASE UNCHANGED vars
  BY <1>20 DEF vars, hostVars, history
<1> QED
  BY <1>1, <1>2, <1>3, <1>4, <1>5, <1>6, <1>7, <1>8, <1>9, <1>10, <1>11, <1>12, <1>13, <1>14,
     <1>15, <1>16, <1>17, <1>18, <1>19, <1>20 DEF Next, Host, Request, Scan

\* What a request is about to write is the host's answer, and an edit after the
\* answer is reported; a pass that drops the row meanwhile marks it overtaken.
LEMMA PutsStep ==
    ASSUME TypeOK, PassShape, TaskShape, RowsHold, PutsHold, [Next]_vars
    PROVE  PutsHold'
<1> USE DEF TypeOK, Tasks, Idle, NoTags, NoPass, PassShape, TaskShape, ShapeOf, RowsHold,
   PutsHold, DropDue, Settled, Held, InHand
<1>1. ASSUME NEW x \in Paths, Changing(x)
      PROVE  PutsHold'
  BY <1>1 DEF Changing, Happens, history
<1>2. ASSUME NEW x \in Paths, Edit(x)
      PROVE  PutsHold'
  BY <1>2 DEF Edit, Happens, history
<1>3. ASSUME NEW x \in Paths, RemoveFile(x)
      PROVE  PutsHold'
  BY <1>3 DEF RemoveFile, Happens, history
<1>4. ASSUME NEW x \in Paths, AddFile(x)
      PROVE  PutsHold'
  BY <1>4 DEF AddFile, Happens
<1>5. ASSUME NEW b \in Browsers, Answer(b)
      PROVE  PutsHold'
  BY <1>5 DEF Answer, hostVars, history
<1>6. ASSUME NEW b \in Browsers, NEW page \in SUBSET live, Browse(b, page)
      PROVE  PutsHold'
  BY <1>6 DEF Browse, hostVars, history
<1>7. ASSUME NEW d \in Clients, Ask(d)
      PROVE  PutsHold'
  BY <1>7 DEF Ask, hostVars, history
<1>8. ASSUME NEW d \in Clients, Apply(d)
      PROVE  PutsHold'
  BY <1>8 DEF Apply, hostVars, history
<1>9. ASSUME NEW d \in Clients, Lose(d)
      PROVE  PutsHold'
  BY <1>9 DEF Lose, hostVars, history
<1>10. ASSUME NEW u \in Tasks, Look(u)
      PROVE  PutsHold'
  BY <1>10, LookEffect
<1>11. ASSUME NEW u \in Tasks, Fetch(u)
      PROVE  PutsHold'
  BY <1>11, FetchEffect
<1>12. ASSUME NEW u \in Tasks, FetchFails(u)
      PROVE  PutsHold'
  BY <1>12 DEF FetchFails, hostVars, history
<1>13. ASSUME NEW u \in Tasks, Put(u)
      PROVE  PutsHold'
  BY <1>13, PutEffect
<1>14. CASE BeginBackfill
  BY <1>14 DEF BeginBackfill, hostVars, history
<1>15. CASE BeginPass
  BY <1>15 DEF BeginPass, history
<1>16. CASE Drop
  BY <1>16 DEF Drop, DropRows, hostVars
<1>17. CASE List
  BY <1>17 DEF List, hostVars, history
<1>18. CASE Index
  BY <1>18 DEF Index, DropRows, hostVars
<1>19. CASE Record
  BY <1>19 DEF Record, hostVars, history
<1>20. CASE UNCHANGED vars
  BY <1>20 DEF vars, hostVars, history
<1> QED
  BY <1>1, <1>2, <1>3, <1>4, <1>5, <1>6, <1>7, <1>8, <1>9, <1>10, <1>11, <1>12, <1>13, <1>14,
     <1>15, <1>16, <1>17, <1>18, <1>19, <1>20 DEF Next, Host, Request, Scan

\* The log holds the library, or a re-list is due, or a pass lists and files
\* it.
LEMMA LibraryStep ==
    ASSUME TypeOK, PassShape, LibraryHolds, [Next]_vars
    PROVE  LibraryHolds'
<1> USE DEF TypeOK, Tasks, Idle, NoTags, NoPass, PassShape, LibraryHolds
<1>1. ASSUME NEW x \in Paths, Changing(x)
      PROVE  LibraryHolds'
  BY <1>1 DEF Changing, Happens, history
<1>2. ASSUME NEW x \in Paths, Edit(x)
      PROVE  LibraryHolds'
  BY <1>2 DEF Edit, Happens, history
<1>3. ASSUME NEW x \in Paths, RemoveFile(x)
      PROVE  LibraryHolds'
  BY <1>3 DEF RemoveFile, Happens, history
<1>4. ASSUME NEW x \in Paths, AddFile(x)
      PROVE  LibraryHolds'
  BY <1>4 DEF AddFile, Happens
<1>5. ASSUME NEW b \in Browsers, Answer(b)
      PROVE  LibraryHolds'
  BY <1>5 DEF Answer, hostVars, history
<1>6. ASSUME NEW b \in Browsers, NEW page \in SUBSET live, Browse(b, page)
      PROVE  LibraryHolds'
  BY <1>6 DEF Browse, hostVars, history
<1>7. ASSUME NEW d \in Clients, Ask(d)
      PROVE  LibraryHolds'
  BY <1>7 DEF Ask, hostVars, history
<1>8. ASSUME NEW d \in Clients, Apply(d)
      PROVE  LibraryHolds'
  BY <1>8 DEF Apply, hostVars, history
<1>9. ASSUME NEW d \in Clients, Lose(d)
      PROVE  LibraryHolds'
  BY <1>9 DEF Lose, hostVars, history
<1>10. ASSUME NEW u \in Tasks, Look(u)
      PROVE  LibraryHolds'
  BY <1>10 DEF Look, hostVars, history
<1>11. ASSUME NEW u \in Tasks, Fetch(u)
      PROVE  LibraryHolds'
  BY <1>11 DEF Fetch, hostVars, history
<1>12. ASSUME NEW u \in Tasks, FetchFails(u)
      PROVE  LibraryHolds'
  BY <1>12 DEF FetchFails, hostVars, history
<1>13. ASSUME NEW u \in Tasks, Put(u)
      PROVE  LibraryHolds'
  BY <1>13 DEF Put, hostVars, history
<1>14. CASE BeginBackfill
  BY <1>14 DEF BeginBackfill, hostVars, history
<1>15. CASE BeginPass
  BY <1>15 DEF BeginPass, history
<1>16. CASE Drop
  BY <1>16 DEF Drop, DropRows, hostVars
<1>17. CASE List
  BY <1>17 DEF List, hostVars, history
<1>18. CASE Index
  BY <1>18 DEF Index, DropRows, hostVars
<1>19. CASE Record
  BY <1>19 DEF Record, hostVars, history
<1>20. CASE UNCHANGED vars
  BY <1>20 DEF vars, hostVars, history
<1> QED
  BY <1>1, <1>2, <1>3, <1>4, <1>5, <1>6, <1>7, <1>8, <1>9, <1>10, <1>11, <1>12, <1>13, <1>14,
     <1>15, <1>16, <1>17, <1>18, <1>19, <1>20 DEF Next, Host, Request, Scan

\* A client's track goes stale only by an edit, a listing or a removal that a
\* pass will file, and a pass drops the row before it files the edit, so the
\* read of a filed path finds the new tags or none.
LEMMA CopiesStep ==
    ASSUME TypeOK, PassShape, TaskShape, RowsHold, CopiesHold, [Next]_vars
    PROVE  CopiesHold'
<1> USE DEF TypeOK, Tasks, Idle, NoTags, NoPass, PassShape, TaskShape, ShapeOf, RowsHold,
   CopiesHold, CopyHolds, Reads, FileDue, EditDue, DropDue, Settled, Held, InHand
<1>1. ASSUME NEW x \in Paths, Changing(x)
      PROVE  CopiesHold'
  BY <1>1 DEF Changing, Happens, history
<1>2. ASSUME NEW x \in Paths, Edit(x)
      PROVE  CopiesHold'
  BY <1>2 DEF Edit, Happens, history
<1>3. ASSUME NEW x \in Paths, RemoveFile(x)
      PROVE  CopiesHold'
  BY <1>3 DEF RemoveFile, Happens, history
<1>4. ASSUME NEW x \in Paths, AddFile(x)
      PROVE  CopiesHold'
  BY <1>4 DEF AddFile, Happens
<1>5. ASSUME NEW b \in Browsers, Answer(b)
      PROVE  CopiesHold'
  BY <1>5, TagSyncAssumption DEF Answer, hostVars, history
<1>6. ASSUME NEW b \in Browsers, NEW page \in SUBSET live, Browse(b, page)
      PROVE  CopiesHold'
  BY <1>6 DEF Browse, hostVars, history
<1>7. ASSUME NEW d \in Clients, Ask(d)
      PROVE  CopiesHold'
  BY <1>7 DEF Ask, hostVars, history
<1>8. ASSUME NEW d \in Clients, Apply(d)
      PROVE  CopiesHold'
  BY <1>8 DEF Apply, hostVars, history
<1>9. ASSUME NEW d \in Clients, Lose(d)
      PROVE  CopiesHold'
  BY <1>9 DEF Lose, hostVars, history
<1>10. ASSUME NEW u \in Tasks, Look(u)
      PROVE  CopiesHold'
  <2> SUFFICES ASSUME NEW c \in Clients, NEW p \in Paths, p \notin behind'[c]
               PROVE  CopyHolds(c, p)'
    OBVIOUS
  <2>1. CASE c = u
    BY <1>10, <2>1, LookEffect
  <2>2. CASE c # u
    <3>1. task'[c] = task[c]
      BY <1>10, <2>2, LookEffect
    <3> QED
      BY <1>10, <3>1, LookEffect
  <2> QED
    BY <2>1, <2>2
<1>11. ASSUME NEW u \in Tasks, Fetch(u)
      PROVE  CopiesHold'
  BY <1>11 DEF Fetch, hostVars, history
<1>12. ASSUME NEW u \in Tasks, FetchFails(u)
      PROVE  CopiesHold'
  BY <1>12 DEF FetchFails, hostVars, history
<1>13. ASSUME NEW u \in Tasks, Put(u)
      PROVE  CopiesHold'
  BY <1>13, PutEffect
<1>14. CASE BeginBackfill
  BY <1>14 DEF BeginBackfill, hostVars, history
<1>15. CASE BeginPass
  BY <1>15 DEF BeginPass, history
<1>16. CASE Drop
  BY <1>16 DEF Drop, DropRows, hostVars
<1>17. CASE List
  BY <1>17 DEF List, hostVars, history
<1>18. CASE Index
  BY <1>18 DEF Index, DropRows, hostVars
<1>19. CASE Record
  BY <1>19 DEF Record, hostVars, history
<1>20. CASE UNCHANGED vars
  BY <1>20 DEF vars, hostVars, history
<1> QED
  BY <1>1, <1>2, <1>3, <1>4, <1>5, <1>6, <1>7, <1>8, <1>9, <1>10, <1>11, <1>12, <1>13, <1>14,
     <1>15, <1>16, <1>17, <1>18, <1>19, <1>20 DEF Next, Host, Request, Scan

-----------------------------------------------------------------------------
\* Nothing is owed yet but the library itself, which every client is behind on.
LEMMA InitInvariant == ASSUME Init PROVE IInv
<1> USE DEF Init, NoPass, Idle, NoTags
<1>1. TypeOK
  <2>1. FilesOK
    BY DEF FilesOK
  <2>2. NoTags \in [Paths -> Nat] /\ Idle \in Task
    BY DEF Task
  <2>3. CopyOK
    <3> HIDE DEF NoTags
    <3> QED
      BY <2>2 DEF CopyOK
  <2>4. ListsOK
    <3> HIDE DEF NoTags
    <3>1. [p \in Paths |-> 1] \in [Paths -> Nat \ {0}]
      OBVIOUS
    <3>2. [c \in Clients |-> Paths] \in [Clients -> SUBSET Paths]
      OBVIOUS
    <3> QED
      BY <2>2, <3>1, <3>2 DEF ListsOK
  <2>5. TasksOK
    BY <2>2 DEF TasksOK
  <2>6. PassOK /\ GuardOK
    BY DEF PassOK, GuardOK, Tasks
  <2> QED
    BY <2>1, <2>3, <2>4, <2>5, <2>6
    DEF TypeOK, FilesOK, ListsOK, CopyOK, TasksOK, PassOK, GuardOK, Task
<1>2. PassShape /\ TaskShape /\ LibraryHolds
  BY DEF PassShape, TaskShape, ShapeOf, LibraryHolds
<1>3. RowsHold /\ PutsHold /\ CopiesHold
  BY DEF RowsHold, PutsHold, CopiesHold
<1> QED
  BY <1>1, <1>2, <1>3 DEF IInv

\* The parts of the invariant, together, are inductive.
LEMMA StepInvariant == ASSUME IInv, [Next]_vars PROVE IInv'
<1>1. TypeOK' /\ PassShape' /\ TaskShape' /\ LibraryHolds'
  BY TypeStep, ShapeStep, TaskShapeStep, LibraryStep DEF IInv
<1>2. RowsHold' /\ PutsHold' /\ CopiesHold'
  BY RowsStep, PutsStep, CopiesStep DEF IInv
<1> QED
  BY <1>1, <1>2 DEF IInv

\* Who will set right what is stale, at every moment of every run.
THEOREM Invariant == Spec => []IInv
  BY InitInvariant, StepInvariant, PTL DEF Spec

\* At rest no drop is due, so a row nobody marked holds the host's tags
\* (drop_track_tags, put_track_tags).
THEOREM RowsCorrect == Spec => []RowsCurrent
<1>1. ASSUME IInv PROVE RowsCurrent
  BY <1>1 DEF IInv, TypeOK, RowsHold, DropDue, RowsCurrent, AtRest, NoPass
<1> QED
  BY Invariant, <1>1, PTL

\* At rest the log holds the library and nobody reads, so a client that is not
\* behind on a path has its tags, or none if it is gone (library_changes, items).
THEOREM ClientsCorrect == Spec => []ClientsCurrent
<1>1. ASSUME IInv PROVE ClientsCurrent
  <2> SUFFICES ASSUME AtRest, NEW c \in Clients, behind[c] = {},
                      NEW p \in Paths, Settled(p)
               PROVE  copy[c][p] = IF p \in library THEN tags[p] ELSE 0
    BY DEF ClientsCurrent
  <2>1. live = library
    BY <1>1 DEF IInv, LibraryHolds, AtRest, NoPass
  <2>2. task[c].asked = {} /\ task[c].gone = {}
    BY DEF AtRest, Tasks, Idle
  <2>3. CopyHolds(c, p)
    BY <1>1 DEF IInv, CopiesHold
  <2>4. p \in live => ~FileDue(p)
    BY <2>1 DEF FileDue, EditDue, AtRest, NoPass
  <2> QED
    BY <2>1, <2>2, <2>3, <2>4 DEF CopyHolds, Reads
<1> QED
  BY Invariant, <1>1, PTL
=============================================================================
