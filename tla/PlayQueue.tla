----------------------------- MODULE PlayQueue -----------------------------
(***************************************************************************)
(* The version of the play queue.                                          *)
(*                                                                         *)
(* The queue stays with MusicBee, which addresses it by index alone.  The  *)
(* core counts its changes, tells clients of them once a burst settles,    *)
(* and refuses a change that names a count the queue has moved past.       *)
(***************************************************************************)
EXTENDS Integers

CONSTANTS Clients,     \* clients that read the queue and change it
          MaxChanges   \* bound on the changes of the queue

VARIABLES queue,       \* MusicBee's queue: how often it has changed
          due,         \* notifications MusicBee has yet to raise: of changes made
                       \* in MusicBee, and of those made through the core
          version,     \* NowPlayingCache.list_version
          pending,     \* PendingListChange.pending
          nudge,       \* its permit
          task,        \* the list task: waits, sleeps SETTLE, broadcasts, comes back
          announced,   \* the queue when clients were last told it changed
          page,        \* what each client has of the queue
          misplaced    \* history: a change was accepted against another list than was read

listVars == <<version, pending, nudge, task, announced>>
clientVars == <<page, misplaced>>
vars == <<queue, due, listVars, clientVars>>

Origins == {"host", "core"}
NoPage == [at |-> "none", list |-> 0, version |-> 0, crossed |-> FALSE]

Init ==
    /\ queue = 0 /\ due = [by \in Origins |-> 0]
    /\ version = 0 /\ pending = FALSE /\ nudge = FALSE /\ task = "waiting" /\ announced = 0
    /\ page = [c \in Clients |-> NoPage]
    /\ misplaced = "no"

-----------------------------------------------------------------------------
(* Its changes, their count and their announcement. *)

QueueChanges ==
    /\ queue < MaxChanges
    /\ queue' = queue + 1
    /\ due' = [due EXCEPT !["host"] = @ + 1]
    /\ UNCHANGED <<listVars, clientVars>>

\* Mutant: the nudge wakes a task that waits and leaves no permit.
QueueNotifiedWaiter(by) ==
    /\ due[by] > 0
    /\ due' = [due EXCEPT ![by] = @ - 1]
    /\ version' = version + 1
    /\ pending' = TRUE
    /\ nudge' = (nudge \/ task = "waiting")
    /\ UNCHANGED <<queue, task, announced, clientVars>>

\* The notification of a queue change: counted at once, announced later.
QueueNotified(by) ==
    /\ due[by] > 0
    /\ due' = [due EXCEPT ![by] = @ - 1]
    /\ version' = version + 1
    /\ pending' = TRUE
    /\ nudge' = TRUE
    /\ UNCHANGED <<queue, task, announced, clientVars>>

Settle ==
    /\ nudge /\ task = "waiting"
    /\ nudge' = FALSE
    /\ task' = "settling"
    /\ UNCHANGED <<queue, due, version, pending, announced, clientVars>>

\* SETTLE is over and the mark is taken.  One made since the nudge was taken has
\* left a permit of its own, which may find no mark.
Take ==
    /\ task = "settling"
    /\ pending' = FALSE
    /\ task' = IF pending THEN "telling" ELSE "waiting"
    /\ UNCHANGED <<queue, due, version, nudge, announced, clientVars>>

\* The broadcast, on which clients read the queue again.
Announce ==
    /\ task = "telling"
    /\ announced' = queue
    /\ task' = "returning"
    /\ UNCHANGED <<queue, due, version, pending, nudge, clientVars>>

Return ==
    /\ task = "returning"
    /\ task' = "waiting"
    /\ UNCHANGED <<queue, due, version, pending, nudge, announced, clientVars>>

-----------------------------------------------------------------------------
(* Pages, and changes that name a version. *)

\* A page of the queue is asked of the host; the version is read last.
ReadPage(c) ==
    /\ page[c].at = "none"
    /\ page' = [page EXCEPT ![c] = [NoPage EXCEPT !.at = "fetched", !.list = queue]]
    /\ UNCHANGED <<queue, due, misplaced, listVars>>

ReadVersion(c) ==
    /\ page[c].at = "fetched"
    /\ page' = [page EXCEPT ![c].at = "read", ![c].version = version,
                            ![c].crossed = page[c].list # queue]
    /\ UNCHANGED <<queue, due, misplaced, listVars>>

\* Changes no version can know of yet: those MusicBee has made and not reported,
\* and those another request has made and not counted.
Uncounted == due["host"] > 0 \/ \E c \in Clients : page[c].at = "bump"

\* check_version: a page the queue has moved past is refused.
Check(c) ==
    LET accepted == page[c].version = version IN
    /\ page[c].at = "read"
    /\ page' = [page EXCEPT ![c] = IF accepted THEN [NoPage EXCEPT !.at = "checked"] ELSE NoPage]
    /\ misplaced' = CASE ~accepted \/ page[c].list = queue \/ Uncounted -> misplaced
                     [] page[c].crossed /\ misplaced = "no" -> "crossed"
                     [] page[c].crossed -> misplaced
                     [] OTHER -> "lost"
    /\ UNCHANGED <<queue, due, listVars>>

\* The host changes the queue, and will notify of it.
Mutate(c) ==
    /\ page[c].at = "checked"
    /\ queue < MaxChanges
    /\ queue' = queue + 1
    /\ due' = [due EXCEPT !["core"] = @ + 1]
    /\ page' = [page EXCEPT ![c].at = "bump"]
    /\ UNCHANGED <<misplaced, listVars>>

\* The host refuses: a removal counts all the same, the others do not.
\* (Such a count that stands for no change is bounded too.)
MutateFails(c) ==
    /\ page[c].at = "checked"
    /\ \E removal \in {r \in BOOLEAN : r => version < MaxChanges} :
          page' = [page EXCEPT ![c] = IF removal THEN [@ EXCEPT !.at = "bump"] ELSE NoPage]
    /\ UNCHANGED <<queue, due, misplaced, listVars>>

\* Mutant: the count of a change is left to its notification.
BumpNothing(c) ==
    /\ page[c].at = "bump"
    /\ page' = [page EXCEPT ![c] = NoPage]
    /\ UNCHANGED <<queue, due, misplaced, listVars>>

\* The second count of one change: the notification brings another.
Bump(c) ==
    /\ page[c].at = "bump"
    /\ version' = version + 1
    /\ page' = [page EXCEPT ![c] = NoPage]
    /\ UNCHANGED <<queue, due, misplaced, pending, nudge, task, announced>>

Next ==
    \/ QueueChanges \/ Settle \/ Take \/ Announce \/ Return
    \/ \E by \in Origins : QueueNotified(by)
    \/ \E c \in Clients : \/ ReadPage(c) \/ ReadVersion(c) \/ Check(c)
                          \/ Mutate(c) \/ MutateFails(c) \/ Bump(c)

\* MusicBee raises what is due and the list task is scheduled; nothing is owed
\* by clients.
Fairness ==
    /\ \A by \in Origins : WF_vars(QueueNotified(by))
    /\ WF_vars(Settle) /\ WF_vars(Take) /\ WF_vars(Announce) /\ WF_vars(Return)

Spec == Init /\ [][Next]_vars
FairSpec == Spec /\ Fairness

-----------------------------------------------------------------------------
(* What a client of the queue may rely on. *)

\* Every change of the queue is announced after it is made: no mark is lost
\* between the sleep and the take.
QueueAnnounced == <>[](announced = queue)

\* A change that names a version is accepted only for the list as it is, as far
\* as MusicBee and other requests have said, or for a page the queue moved
\* under while it was read.
AcceptedUnlessCrossed == misplaced # "lost"

\* commands_v6/nowplaying_list.rs: a client that sends the version it read is
\* refused when the queue moved under it.
StaleListRefused == misplaced = "no"
=============================================================================
