-------------------------- MODULE NowPlayingProofs --------------------------
(***************************************************************************)
(* Proofs about what MCNowPlaying composes.                                *)
(*                                                                         *)
(* The queue, PlayQueue: for any clients and any number of changes, a      *)
(* change that names a version is accepted only for the list that was      *)
(* read, as far as anybody has said. The invariant says what a version is  *)
(* worth: while the count stands still, a list that has moved on leaves a  *)
(* trace of the change that has yet to be counted.                         *)
(*                                                                         *)
(* The playing track and the player, NowPlaying, as the instance Mirror:   *)
(* for any number of notification threads and of changes, the cache and    *)
(* what clients are told come to what MusicBee plays. The invariant says   *)
(* who still owes it: a notification, or a job that has not read it yet or *)
(* holds it. NowPlayingCorrect puts the two together.                      *)
(***************************************************************************)
EXTENDS MCNowPlaying, TLAPS

(* The queue, PlayQueue. *)

PageType == [at : {"none", "fetched", "read", "checked", "bump"}, list : Nat, version : Nat,
             crossed : BOOLEAN]

Counts ==
    /\ queue \in Nat /\ version \in Nat
    /\ due \in [Origins -> Nat]
    /\ page \in [Clients -> PageType]
    /\ misplaced \in {"no", "crossed", "lost"}

\* A page that was read in one piece, and names the count as it is, is of the
\* queue as it is, or of one that moved by a change nobody has counted.
Vouched(c) ==
    page[c].at = "read" /\ ~page[c].crossed =>
        /\ page[c].version <= version
        /\ page[c].version = version => page[c].list = queue \/ Uncounted

IInv == Counts /\ (\A c \in Clients : Vouched(c)) /\ misplaced # "lost"

-----------------------------------------------------------------------------
(* Types. *)

\* Every step keeps the types, for any clients and changes.
LEMMA TypeStep == Counts /\ [Next]_vars => Counts'
<1> SUFFICES ASSUME Counts, [Next]_vars PROVE Counts'
  OBVIOUS
<1> USE DEF Counts, PageType, Origins, NoPage
<1>1. CASE UNCHANGED vars
  BY <1>1 DEF vars, listVars, clientVars
<1>2. CASE QueueChanges
  BY <1>2 DEF QueueChanges, listVars, clientVars
<1>3. CASE Settle \/ Take \/ Announce \/ Return
  BY <1>3 DEF Settle, Take, Announce, Return, clientVars
<1>4. ASSUME NEW by \in Origins, QueueNotified(by) PROVE Counts'
  <2>1. due[by] - 1 \in Nat
    BY <1>4 DEF QueueNotified
  <2>. QED
    BY <1>4, <2>1 DEF QueueNotified, clientVars
<1>5. ASSUME NEW c \in Clients, ReadPage(c) \/ ReadVersion(c) PROVE Counts'
  <2>1. page[c] \in PageType
    OBVIOUS
  <2>2. CASE ReadPage(c)
    BY <2>2 DEF ReadPage, listVars
  <2>3. CASE ReadVersion(c)
    <3>1. page'[c] \in PageType
      BY <2>1, <2>3 DEF ReadVersion
    <3>. QED
      BY <2>3, <3>1 DEF ReadVersion, listVars
  <2>. QED
    BY <1>5, <2>2, <2>3
<1>6. ASSUME NEW c \in Clients, Check(c) PROVE Counts'
  <2>1. page' \in [Clients -> PageType]
    BY <1>6 DEF Check
  <2>2. misplaced' \in {"no", "crossed", "lost"}
    BY <1>6 DEF Check
  <2>. QED
    BY <1>6, <2>1, <2>2 DEF Check, listVars
<1>7. ASSUME NEW c \in Clients, Mutate(c) \/ MutateFails(c) PROVE Counts'
  <2>1. page'[c] \in PageType
    <3>1. page[c] \in PageType
      OBVIOUS
    <3>2. page'[c] \in {NoPage, [page[c] EXCEPT !.at = "bump"]}
      BY <1>7 DEF Mutate, MutateFails
    <3>3. [page[c] EXCEPT !.at = "bump"] \in PageType
      BY <3>1
    <3>4. NoPage \in PageType
      OBVIOUS
    <3>. QED
      BY <3>2, <3>3, <3>4
  <2>2. \A d \in Clients : d # c => page'[d] = page[d]
    BY <1>7 DEF Mutate, MutateFails
  <2>3. page' \in [Clients -> PageType]
    <3>1. page' = [d \in Clients |-> page'[d]]
      BY <1>7 DEF Mutate, MutateFails
    <3>. QED
      BY <2>1, <2>2, <3>1
  <2>4. queue' \in Nat /\ version' \in Nat /\ due' \in [Origins -> Nat] /\ misplaced' = misplaced
    BY <1>7 DEF Mutate, MutateFails, listVars
  <2>. QED
    BY <2>3, <2>4
<1>8. ASSUME NEW c \in Clients, Bump(c) PROVE Counts'
  BY <1>8 DEF Bump
<1>. QED
  BY <1>1, <1>2, <1>3, <1>4, <1>5, <1>6, <1>7, <1>8 DEF Next

-----------------------------------------------------------------------------
(* What a version is worth. *)

\* The queue moves, the count moves, or a page is read: each keeps what the
\* pages of the clients are worth (QueueChanges, guarded, bump_list_version).
LEMMA VouchedStep ==
    ASSUME Counts, \A c \in Clients : Vouched(c), [Next]_vars
    PROVE  \A c \in Clients : Vouched(c)'
<1> SUFFICES ASSUME NEW c \in Clients PROVE Vouched(c)'
  OBVIOUS
<1> USE DEF Counts, PageType, Origins, NoPage, Vouched
<1>1. CASE UNCHANGED vars
  BY <1>1 DEF vars, listVars, clientVars, Uncounted
<1>2. CASE QueueChanges
  <2>1. due'["host"] > 0
    BY <1>2 DEF QueueChanges
  <2>. QED
    BY <1>2, <2>1 DEF QueueChanges, listVars, clientVars, Uncounted
<1>3. CASE Settle \/ Take \/ Announce \/ Return
  BY <1>3 DEF Settle, Take, Announce, Return, clientVars, Uncounted
<1>4. ASSUME NEW by \in Origins, QueueNotified(by) PROVE Vouched(c)'
  BY <1>4 DEF QueueNotified, clientVars
<1>5. ASSUME NEW d \in Clients, ReadPage(d) PROVE Vouched(c)'
  <2>1. CASE c = d
    BY <1>5, <2>1 DEF ReadPage
  <2>2. CASE c # d
    BY <1>5, <2>2 DEF ReadPage, listVars, Uncounted
  <2>. QED
    BY <2>1, <2>2
<1>6. ASSUME NEW d \in Clients, ReadVersion(d) PROVE Vouched(c)'
  <2>1. CASE c = d
    BY <1>6, <2>1 DEF ReadVersion, listVars
  <2>2. CASE c # d
    BY <1>6, <2>2 DEF ReadVersion, listVars, Uncounted
  <2>. QED
    BY <2>1, <2>2
<1>7. ASSUME NEW d \in Clients, Check(d) PROVE Vouched(c)'
  <2>1. page[d].at = "read" /\ page'[d].at \in {"checked", "none"}
    BY <1>7 DEF Check
  <2>2. \A e \in Clients : e # d => page'[e] = page[e]
    BY <1>7 DEF Check
  <2>3. UNCHANGED <<queue, due, version>>
    BY <1>7 DEF Check, listVars
  <2>4. Uncounted' <=> Uncounted
    BY <2>1, <2>2, <2>3 DEF Uncounted
  <2>. QED
    BY <2>1, <2>2, <2>3, <2>4
<1>8. ASSUME NEW d \in Clients, Mutate(d) PROVE Vouched(c)'
  <2>1. Uncounted'
    BY <1>8 DEF Mutate, Uncounted
  <2>. QED
    BY <1>8, <2>1 DEF Mutate, listVars
<1>9. ASSUME NEW d \in Clients, MutateFails(d) PROVE Vouched(c)'
  <2>1. page[d].at = "checked" /\ page'[d].at \in {"bump", "none"}
    BY <1>9 DEF MutateFails
  <2>2. \A e \in Clients : e # d => page'[e] = page[e]
    BY <1>9 DEF MutateFails
  <2>3. UNCHANGED <<queue, due, version>>
    BY <1>9 DEF MutateFails, listVars
  <2>4. Uncounted => Uncounted'
    BY <2>1, <2>2, <2>3 DEF Uncounted
  <2>. QED
    BY <2>1, <2>2, <2>3, <2>4
<1>10. ASSUME NEW d \in Clients, Bump(d) PROVE Vouched(c)'
  BY <1>10 DEF Bump
<1>. QED
  BY <1>1, <1>2, <1>3, <1>4, <1>5, <1>6, <1>7, <1>8, <1>9, <1>10 DEF Next

\* The check is the only step that accepts anything (check_version).
LEMMA AcceptedStep ==
    ASSUME IInv, [Next]_vars
    PROVE  misplaced' # "lost"
<1> USE DEF IInv, Counts, PageType
<1>1. CASE UNCHANGED misplaced
  BY <1>1
<1>2. ASSUME NEW c \in Clients, Check(c) PROVE misplaced' # "lost"
  <2>1. CASE page[c].version # version \/ page[c].list = queue \/ Uncounted
    BY <1>2, <2>1 DEF Check
  <2>2. CASE page[c].crossed
    BY <1>2, <2>2 DEF Check
  <2>. QED
    BY <1>2, <2>1, <2>2 DEF Check, Vouched
<1>. QED
  BY <1>1, <1>2 DEF Next, vars, clientVars, listVars, QueueChanges, Settle, Take, Announce, Return,
                    QueueNotified, ReadPage, ReadVersion, Mutate, MutateFails, Bump

-----------------------------------------------------------------------------
(* The theorem. *)

\* A change that names the version of a page is accepted only for the queue that
\* was read, unless the queue moved while it was read, or by a change that neither
\* MusicBee nor another request has counted (guarded, check_version).
THEOREM AcceptedCorrect == Spec => []AcceptedUnlessCrossed
<1>1. Init => IInv
  BY DEF Init, IInv, Counts, PageType, Origins, NoPage, Vouched
<1>2. IInv /\ [Next]_vars => IInv'
  BY TypeStep, VouchedStep, AcceptedStep DEF IInv
<1>3. IInv => AcceptedUnlessCrossed
  BY DEF IInv, AcceptedUnlessCrossed
<1>. QED
  BY <1>1, <1>2, <1>3, PTL DEF Spec

-----------------------------------------------------------------------------
(* The playing track and the player, NowPlaying. *)

\* What MusicBee plays.
HostState == [track : Nat, play : BOOLEAN, mode : BOOLEAN, events : Nat]
\* The threads that run jobs: notifications', and the one that seeds.
All == Threads \cup {Seeder}

\* Jobs that read the track.
Carries(j) == j.seeding \/ j.kind = "track"

\* A job that will store the track MusicBee plays now.
Fresh(j) ==
    /\ Carries(j)
    /\ \/ j.at \in {"player", "info"}
       \/ j.at \in {"lyrics", "store"} /\ j.info = host.track

\* What a job holds at a step: it read no track that is yet to play, the lyrics last.
InOrder(j) ==
    /\ j.at = "flag" => j.seeding
    /\ j.seeding => j.at \in {"player", "info", "lyrics", "store", "flag"}
    /\ j.at \in {"info", "lyrics"} => Carries(j)
    /\ (Carries(j) /\ j.at \in {"lyrics", "store"}) => j.info <= host.track
    /\ (Carries(j) /\ j.at = "store") => j.info <= j.lyrics /\ j.lyrics <= host.track

\* The lyrics are read after the track (refresh_track_fields).
TrackOrder == cache.info <= cache.lyrics /\ cache.lyrics <= host.track
JobsInOrder == \A t \in All : InOrder(job[t])

\* Who still brings the cache to the track: a notification, or a job under way.
TrackOwed ==
    overtaken \/ cache.info = host.track \/ dueOfPlayer["track"] > 0 \/ \E t \in All : Fresh(job[t])

\* A state that is about to be broadcast.
Sends(state) == \E t \in All : job[t].at = "send" /\ job[t].player.play = state
Telling == told = host.play \/ Sends(host.play)

\* A job that will compare MusicBee's state with the one recorded last.
Hears(j) ==
    \/ j.kind = "play" /\ j.at \in {"player", "info", "lyrics", "store"}
    \/ j.kind = "play" /\ j.at \in {"flag", "snap"} /\ cache.player.play = host.play
    \/ j.at = "moved" /\ j.player.play = host.play

\* Who still tells clients the play state.
PlayOwed == crossed \/ Telling \/ dueOfPlayer["play"] > 0 \/ \E t \in All : Hears(job[t])

\* What was recorded as sent is sent, or about to be (play_state_moved, notifications.rs).
SentTold == crossed \/ sent = None \/ told = sent \/ Sends(sent)

MirrorIInv == Mirror!TypeOK /\ JobsInOrder /\ TrackOrder /\ TrackOwed /\ SentTold /\ PlayOwed

-----------------------------------------------------------------------------
\* A thread with nothing to do is a job too.
LEMMA IdleType == Mirror!Idle \in Mirror!Job
  BY DEF Mirror!Idle, Mirror!Job, Mirror!PlayerState

\* Every step of the cache, the jobs and the monitor keeps the types.
LEMMA MirrorTypeStep == ASSUME Mirror!TypeOK, [Mirror!Next]_(Mirror!vars) PROVE Mirror!TypeOK'
<1> USE DEF Mirror!TypeOK, Mirror!PlayerState, All, HostState
<1>1. CASE Mirror!TrackChanges
  <2>1. [host EXCEPT !.track = host.track + 1] \in HostState
    BY DEF HostState
  <2>2. host' \in HostState
    <3> DEFINE h == [host EXCEPT !.track = host.track + 1]
    <3>1. host' = [h EXCEPT !.events = h.events + 1]
      BY <1>1 DEF Mirror!TrackChanges, Mirror!Happens
    <3>2. h \in HostState
      BY <2>1
    <3> HIDE DEF h
    <3> QED
      BY <3>1, <3>2 DEF HostState
  <2>3. dueOfPlayer' \in [Mirror!Kinds -> Nat]
    BY <1>1 DEF Mirror!TrackChanges, Mirror!Happens, Mirror!Kinds
  <2> QED
    BY <1>1, <2>2, <2>3 DEF Mirror!TrackChanges, Mirror!Happens, Mirror!mirrorVars,
       Mirror!pollVars
<1>2. CASE Mirror!PlayStateChanges
  <2>1. [host EXCEPT !.play = ~host.play] \in HostState
    BY DEF HostState
  <2>2. host' \in HostState
    <3> DEFINE h == [host EXCEPT !.play = ~host.play]
    <3>1. host' = [h EXCEPT !.events = h.events + 1]
      BY <1>2 DEF Mirror!PlayStateChanges, Mirror!Happens
    <3>2. h \in HostState
      BY <2>1
    <3> HIDE DEF h
    <3> QED
      BY <3>1, <3>2 DEF HostState
  <2>3. dueOfPlayer' \in [Mirror!Kinds -> Nat]
    BY <1>2 DEF Mirror!PlayStateChanges, Mirror!Happens, Mirror!Kinds
  <2> QED
    BY <1>2, <2>2, <2>3 DEF Mirror!PlayStateChanges, Mirror!Happens, Mirror!mirrorVars,
       Mirror!pollVars
<1>3. CASE Mirror!ModeChanges
  <2>1. [host EXCEPT !.mode = ~host.mode] \in HostState
    BY DEF HostState
  <2>2. host' \in HostState
    <3> DEFINE h == [host EXCEPT !.mode = ~host.mode]
    <3>1. host' = [h EXCEPT !.events = h.events + 1]
      BY <1>3 DEF Mirror!ModeChanges, Mirror!Happens
    <3>2. h \in HostState
      BY <2>1
    <3> HIDE DEF h
    <3> QED
      BY <3>1, <3>2 DEF HostState
  <2>3. dueOfPlayer' \in [Mirror!Kinds -> Nat]
    BY <1>3 DEF Mirror!ModeChanges, Mirror!Happens, Mirror!Kinds
  <2> QED
    BY <1>3, <2>2, <2>3 DEF Mirror!ModeChanges, Mirror!Happens, Mirror!mirrorVars, Mirror!pollVars
<1>4. CASE Mirror!ModeChangesSilently
  <2>1. host' \in HostState
    <3>1. [host EXCEPT !.mode = ~host.mode] \in HostState
      BY DEF HostState
    <3> DEFINE h == [host EXCEPT !.mode = ~host.mode]
    <3>2. host' = [h EXCEPT !.events = h.events + 1]
      BY <1>4 DEF Mirror!ModeChangesSilently
    <3>3. h \in HostState
      BY <3>1
    <3> HIDE DEF h
    <3> QED
      BY <3>2, <3>3 DEF HostState
  <2> QED
    BY <1>4, <2>1 DEF Mirror!ModeChangesSilently, Mirror!mirrorVars, Mirror!pollVars
<1>5. ASSUME NEW t \in Threads, Mirror!ColdRead(t) PROVE Mirror!TypeOK'
  <2>1. job[t] \in Mirror!Job
    OBVIOUS
  <2>2. job' = [job EXCEPT ![t] = job'[t]] /\ job'[t] \in Mirror!Job
    BY <1>5, <2>1, IdleType DEF Mirror!ColdRead, Mirror!pollVars, Mirror!Job, Mirror!Kinds
  <2>3. job' \in [Threads \cup {Seeder} -> Mirror!Job]
    BY <2>2
  <2> QED
    BY <1>5, <2>3 DEF Mirror!ColdRead, Mirror!pollVars
<1>6. ASSUME NEW t \in Threads, NEW kind \in Mirror!Kinds, Mirror!Deliver(t,
        kind) PROVE Mirror!TypeOK'
  <2>1. dueOfPlayer' \in [Mirror!Kinds -> Nat]
    BY <1>6 DEF Mirror!Deliver
  <2>2. [Mirror!Idle EXCEPT !.at = Mirror!FirstStep(kind), !.kind = kind] \in Mirror!Job
    BY IdleType DEF Mirror!FirstStep, Mirror!Job, Mirror!Kinds
  <2>3. job' \in [Threads \cup {Seeder} -> Mirror!Job]
    BY <1>6, <2>2 DEF Mirror!Deliver
  <2> QED
    BY <1>6, <2>1, <2>3 DEF Mirror!Deliver
<1>7. ASSUME NEW t \in All, Mirror!AskPlayer(t) PROVE Mirror!TypeOK'
  <2>1. job[t] \in Mirror!Job
    OBVIOUS
  <2>2. job' = [job EXCEPT ![t] = job'[t]] /\ job'[t] \in Mirror!Job
    BY <1>7, <2>1, IdleType DEF Mirror!AskPlayer, Mirror!Ask, Mirror!Player, Mirror!pollVars,
       Mirror!Job, Mirror!Kinds
  <2>3. job' \in [Threads \cup {Seeder} -> Mirror!Job]
    BY <2>2
  <2> QED
    BY <1>7, <2>3 DEF Mirror!AskPlayer, Mirror!Ask, Mirror!pollVars
<1>8. ASSUME NEW t \in All, Mirror!AskInfo(t) PROVE Mirror!TypeOK'
  <2>1. job[t] \in Mirror!Job
    OBVIOUS
  <2>2. job' = [job EXCEPT ![t] = job'[t]] /\ job'[t] \in Mirror!Job
    BY <1>8, <2>1, IdleType DEF Mirror!AskInfo, Mirror!Ask, Mirror!Player, Mirror!pollVars,
       Mirror!Job, Mirror!Kinds
  <2>3. job' \in [Threads \cup {Seeder} -> Mirror!Job]
    BY <2>2
  <2> QED
    BY <1>8, <2>3 DEF Mirror!AskInfo, Mirror!Ask, Mirror!pollVars
<1>9. ASSUME NEW t \in All, Mirror!AskLyrics(t) PROVE Mirror!TypeOK'
  <2>1. job[t] \in Mirror!Job
    OBVIOUS
  <2>2. job' = [job EXCEPT ![t] = job'[t]] /\ job'[t] \in Mirror!Job
    BY <1>9, <2>1, IdleType DEF Mirror!AskLyrics, Mirror!Ask, Mirror!Player, Mirror!pollVars,
       Mirror!Job, Mirror!Kinds
  <2>3. job' \in [Threads \cup {Seeder} -> Mirror!Job]
    BY <2>2
  <2> QED
    BY <1>9, <2>3 DEF Mirror!AskLyrics, Mirror!Ask, Mirror!pollVars
<1>10. ASSUME NEW t \in All, Mirror!Store(t) PROVE Mirror!TypeOK'
  <2>1. job[t] \in Mirror!Job
    OBVIOUS
  <2>2. job' = [job EXCEPT ![t] = job'[t]] /\ job'[t] \in Mirror!Job
    BY <1>10, <2>1 DEF Mirror!Store, Mirror!Job
  <2>3. job' \in [Threads \cup {Seeder} -> Mirror!Job]
    BY <2>2
  <2>4. Mirror!Stored(t) \in [info : Nat, lyrics : Nat, player : Mirror!PlayerState]
    BY <2>1 DEF Mirror!Stored, Mirror!Job
  <2> QED
    BY <1>10, <2>3, <2>4 DEF Mirror!Store, Mirror!pollVars
<1>11. ASSUME NEW t \in All, Mirror!Flag(t) PROVE Mirror!TypeOK'
  <2>1. job[t] \in Mirror!Job
    OBVIOUS
  <2>2. job' = [job EXCEPT ![t] = job'[t]] /\ job'[t] \in Mirror!Job
    <3>1. CASE job[t].kind = "seed"
      BY <1>11, <2>1, <3>1, IdleType DEF Mirror!Flag, Mirror!Job, Mirror!PlayerState
    <3>2. CASE ~((job[t].kind = "seed"))
      BY <1>11, <2>1, <3>2, IdleType DEF Mirror!Flag, Mirror!Job, Mirror!PlayerState
    <3> QED
      BY <3>1, <3>2
  <2>3. job' \in [Threads \cup {Seeder} -> Mirror!Job]
    BY <2>2
  <2> QED
    BY <1>11, <2>3 DEF Mirror!Flag, Mirror!pollVars
<1>12. ASSUME NEW t \in All, Mirror!Snapshot(t) PROVE Mirror!TypeOK'
  <2>1. job[t] \in Mirror!Job
    OBVIOUS
  <2>2. job' = [job EXCEPT ![t] = job'[t]] /\ job'[t] \in Mirror!Job
    <3>1. CASE ~seeded
      BY <1>12, <2>1, <3>1, IdleType DEF Mirror!Snapshot, Mirror!Job, Mirror!PlayerState
    <3>2. CASE seeded /\ job[t].kind = "play"
      BY <1>12, <2>1, <3>2, IdleType DEF Mirror!Snapshot, Mirror!Job, Mirror!PlayerState
    <3>3. CASE ~((~seeded) \/ (seeded /\ job[t].kind = "play"))
      BY <1>12, <2>1, <3>3, IdleType DEF Mirror!Snapshot, Mirror!Job, Mirror!PlayerState
    <3> QED
      BY <3>1, <3>2, <3>3
  <2>3. job' \in [Threads \cup {Seeder} -> Mirror!Job]
    BY <2>2
  <2> QED
    BY <1>12, <2>3 DEF Mirror!Snapshot, Mirror!pollVars
<1>13. ASSUME NEW t \in All, Mirror!Moved(t) PROVE Mirror!TypeOK'
  <2>1. job[t] \in Mirror!Job
    OBVIOUS
  <2>2. job' = [job EXCEPT ![t] = job'[t]] /\ job'[t] \in Mirror!Job
    BY <1>13, <2>1, IdleType DEF Mirror!Moved, Mirror!Job
  <2>3. job' \in [Threads \cup {Seeder} -> Mirror!Job]
    BY <2>2
  <2>4. sent' \in BOOLEAN
    BY <1>13, <2>1 DEF Mirror!Moved, Mirror!Job
  <2> QED
    BY <1>13, <2>3, <2>4 DEF Mirror!Moved, Mirror!pollVars
<1>14. ASSUME NEW t \in All, Mirror!Send(t) PROVE Mirror!TypeOK'
  <2>1. job[t] \in Mirror!Job
    OBVIOUS
  <2>2. job' \in [Threads \cup {Seeder} -> Mirror!Job]
    BY <1>14, IdleType DEF Mirror!Send
  <2>3. told' \in BOOLEAN
    BY <1>14, <2>1 DEF Mirror!Send, Mirror!Job
  <2> QED
    BY <1>14, <2>2, <2>3 DEF Mirror!Send, Mirror!pollVars
<1>15. CASE Mirror!Connect
  BY <1>15 DEF Mirror!Connect, Mirror!mirrorVars
<1>16. CASE Mirror!PollFetch
  BY <1>16 DEF Mirror!PollFetch, Mirror!Player, Mirror!mirrorVars
<1>17. CASE Mirror!PollNothing
  BY <1>17 DEF Mirror!PollNothing, Mirror!mirrorVars
<1>18. CASE Mirror!PollStore
  BY <1>18 DEF Mirror!PollStore, Mirror!Polled
<1>19. CASE UNCHANGED Mirror!vars
  BY <1>19 DEF Mirror!vars, Mirror!mirrorVars, Mirror!pollVars
<1> QED
  BY <1>1, <1>2, <1>3, <1>4, <1>5, <1>6, <1>7, <1>8, <1>9, <1>10, <1>11, <1>12, <1>13, <1>14,
     <1>15, <1>16, <1>17, <1>18, <1>19 DEF Mirror!Next, Mirror!Work, All

\* A job carries a track it read before, never one that is yet to play
\* (refresh_track_fields, refresh_all).
LEMMA OrderStep ==
    ASSUME Mirror!TypeOK, JobsInOrder, [Mirror!Next]_(Mirror!vars)
    PROVE  JobsInOrder'
<1> USE DEF Mirror!TypeOK, Mirror!Job, All, JobsInOrder, InOrder, Carries, Mirror!Kinds
<1>1. CASE Mirror!TrackChanges
  BY <1>1 DEF Mirror!TrackChanges, Mirror!Happens, Mirror!mirrorVars, Mirror!pollVars
<1>2. CASE Mirror!PlayStateChanges
  BY <1>2 DEF Mirror!PlayStateChanges, Mirror!Happens, Mirror!mirrorVars, Mirror!pollVars
<1>3. CASE Mirror!ModeChanges
  BY <1>3 DEF Mirror!ModeChanges, Mirror!Happens, Mirror!mirrorVars, Mirror!pollVars
<1>4. CASE Mirror!ModeChangesSilently
  BY <1>4 DEF Mirror!ModeChangesSilently, Mirror!mirrorVars, Mirror!pollVars
<1>5. ASSUME NEW t \in Threads, Mirror!ColdRead(t) PROVE JobsInOrder'
  BY <1>5 DEF Mirror!ColdRead, Mirror!pollVars, Mirror!Idle
<1>6. ASSUME NEW t \in Threads, NEW kind \in Mirror!Kinds, Mirror!Deliver(t,
        kind) PROVE JobsInOrder'
  BY <1>6 DEF Mirror!Deliver, Mirror!FirstStep, Mirror!Idle, Mirror!Kinds
<1>7. ASSUME NEW t \in All, Mirror!AskPlayer(t) PROVE JobsInOrder'
  BY <1>7 DEF Mirror!AskPlayer, Mirror!Ask, Mirror!Player, Mirror!pollVars
<1>8. ASSUME NEW t \in All, Mirror!AskInfo(t) PROVE JobsInOrder'
  BY <1>8 DEF Mirror!AskInfo, Mirror!Ask, Mirror!pollVars
<1>9. ASSUME NEW t \in All, Mirror!AskLyrics(t) PROVE JobsInOrder'
  BY <1>9 DEF Mirror!AskLyrics, Mirror!Ask, Mirror!pollVars
<1>10. ASSUME NEW t \in All, Mirror!Store(t) PROVE JobsInOrder'
  BY <1>10 DEF Mirror!Store, Mirror!Stored, Mirror!pollVars
<1>11. ASSUME NEW t \in All, Mirror!Flag(t) PROVE JobsInOrder'
  BY <1>11 DEF Mirror!Flag, Mirror!Idle, Mirror!pollVars
<1>12. ASSUME NEW t \in All, Mirror!Snapshot(t) PROVE JobsInOrder'
  BY <1>12 DEF Mirror!Snapshot, Mirror!Idle, Mirror!pollVars
<1>13. ASSUME NEW t \in All, Mirror!Moved(t) PROVE JobsInOrder'
  BY <1>13 DEF Mirror!Moved, Mirror!Moves, Mirror!Idle, Mirror!pollVars
<1>14. ASSUME NEW t \in All, Mirror!Send(t) PROVE JobsInOrder'
  BY <1>14 DEF Mirror!Send, Mirror!Idle, Mirror!pollVars
<1>15. CASE Mirror!Connect
  BY <1>15 DEF Mirror!Connect, Mirror!mirrorVars
<1>16. CASE Mirror!PollFetch
  BY <1>16 DEF Mirror!PollFetch, Mirror!Player, Mirror!mirrorVars
<1>17. CASE Mirror!PollNothing
  BY <1>17 DEF Mirror!PollNothing, Mirror!mirrorVars
<1>18. CASE Mirror!PollStore
  BY <1>18 DEF Mirror!PollStore, Mirror!Polled
<1>19. CASE UNCHANGED Mirror!vars
  BY <1>19 DEF Mirror!vars, Mirror!mirrorVars, Mirror!pollVars
<1> QED
  BY <1>1, <1>2, <1>3, <1>4, <1>5, <1>6, <1>7, <1>8, <1>9, <1>10, <1>11, <1>12, <1>13, <1>14,
     <1>15, <1>16, <1>17, <1>18, <1>19 DEF Mirror!Next, Mirror!Work, All

\* The lyrics of the cache are of its track or of a later one (refresh_track_fields).
LEMMA TrackStep ==
    ASSUME Mirror!TypeOK, JobsInOrder, TrackOrder, [Mirror!Next]_(Mirror!vars)
    PROVE  TrackOrder'
<1> USE DEF Mirror!TypeOK, Mirror!Job, All, JobsInOrder, InOrder, Carries, TrackOrder,
   Mirror!Kinds
<1>1. CASE Mirror!TrackChanges
  BY <1>1 DEF Mirror!TrackChanges, Mirror!Happens, Mirror!mirrorVars, Mirror!pollVars
<1>2. CASE Mirror!PlayStateChanges
  BY <1>2 DEF Mirror!PlayStateChanges, Mirror!Happens, Mirror!mirrorVars, Mirror!pollVars
<1>3. CASE Mirror!ModeChanges
  BY <1>3 DEF Mirror!ModeChanges, Mirror!Happens, Mirror!mirrorVars, Mirror!pollVars
<1>4. CASE Mirror!ModeChangesSilently
  BY <1>4 DEF Mirror!ModeChangesSilently, Mirror!mirrorVars, Mirror!pollVars
<1>5. ASSUME NEW t \in Threads, Mirror!ColdRead(t) PROVE TrackOrder'
  BY <1>5 DEF Mirror!ColdRead, Mirror!pollVars, Mirror!Idle
<1>6. ASSUME NEW t \in Threads, NEW kind \in Mirror!Kinds, Mirror!Deliver(t,
        kind) PROVE TrackOrder'
  BY <1>6 DEF Mirror!Deliver, Mirror!FirstStep, Mirror!Idle, Mirror!Kinds
<1>7. ASSUME NEW t \in All, Mirror!AskPlayer(t) PROVE TrackOrder'
  BY <1>7 DEF Mirror!AskPlayer, Mirror!Ask, Mirror!Player, Mirror!pollVars
<1>8. ASSUME NEW t \in All, Mirror!AskInfo(t) PROVE TrackOrder'
  BY <1>8 DEF Mirror!AskInfo, Mirror!Ask, Mirror!pollVars
<1>9. ASSUME NEW t \in All, Mirror!AskLyrics(t) PROVE TrackOrder'
  BY <1>9 DEF Mirror!AskLyrics, Mirror!Ask, Mirror!pollVars
<1>10. ASSUME NEW t \in All, Mirror!Store(t) PROVE TrackOrder'
  BY <1>10 DEF Mirror!Store, Mirror!Stored, Mirror!pollVars
<1>11. ASSUME NEW t \in All, Mirror!Flag(t) PROVE TrackOrder'
  BY <1>11 DEF Mirror!Flag, Mirror!Idle, Mirror!pollVars
<1>12. ASSUME NEW t \in All, Mirror!Snapshot(t) PROVE TrackOrder'
  BY <1>12 DEF Mirror!Snapshot, Mirror!Idle, Mirror!pollVars
<1>13. ASSUME NEW t \in All, Mirror!Moved(t) PROVE TrackOrder'
  BY <1>13 DEF Mirror!Moved, Mirror!Moves, Mirror!Idle, Mirror!pollVars
<1>14. ASSUME NEW t \in All, Mirror!Send(t) PROVE TrackOrder'
  BY <1>14 DEF Mirror!Send, Mirror!Idle, Mirror!pollVars
<1>15. CASE Mirror!Connect
  BY <1>15 DEF Mirror!Connect, Mirror!mirrorVars
<1>16. CASE Mirror!PollFetch
  BY <1>16 DEF Mirror!PollFetch, Mirror!Player, Mirror!mirrorVars
<1>17. CASE Mirror!PollNothing
  BY <1>17 DEF Mirror!PollNothing, Mirror!mirrorVars
<1>18. CASE Mirror!PollStore
  BY <1>18 DEF Mirror!PollStore, Mirror!Polled
<1>19. CASE UNCHANGED Mirror!vars
  BY <1>19 DEF Mirror!vars, Mirror!mirrorVars, Mirror!pollVars
<1> QED
  BY <1>1, <1>2, <1>3, <1>4, <1>5, <1>6, <1>7, <1>8, <1>9, <1>10, <1>11, <1>12, <1>13, <1>14,
     <1>15, <1>16, <1>17, <1>18, <1>19 DEF Mirror!Next, Mirror!Work, All

\* A track that is not in the cache has a notification due, or a job that will still read it.
LEMMA OwedStep ==
    ASSUME Mirror!TypeOK, JobsInOrder, TrackOrder, TrackOwed, [Mirror!Next]_(Mirror!vars)
    PROVE  TrackOwed'
<1> USE DEF Mirror!TypeOK, Mirror!Job, All, JobsInOrder, InOrder, Carries, TrackOrder,
   Mirror!Kinds, TrackOwed, Fresh
<1>1. CASE Mirror!TrackChanges
  BY <1>1 DEF Mirror!TrackChanges, Mirror!Happens, Mirror!mirrorVars, Mirror!pollVars
<1>2. CASE Mirror!PlayStateChanges
  BY <1>2 DEF Mirror!PlayStateChanges, Mirror!Happens, Mirror!mirrorVars, Mirror!pollVars
<1>3. CASE Mirror!ModeChanges
  BY <1>3 DEF Mirror!ModeChanges, Mirror!Happens, Mirror!mirrorVars, Mirror!pollVars
<1>4. CASE Mirror!ModeChangesSilently
  BY <1>4 DEF Mirror!ModeChangesSilently, Mirror!mirrorVars, Mirror!pollVars
<1>5. ASSUME NEW t \in Threads, Mirror!ColdRead(t) PROVE TrackOwed'
  BY <1>5 DEF Mirror!ColdRead, Mirror!pollVars, Mirror!Idle
<1>6. ASSUME NEW t \in Threads, NEW kind \in Mirror!Kinds, Mirror!Deliver(t,
        kind) PROVE TrackOwed'
  BY <1>6 DEF Mirror!Deliver, Mirror!FirstStep, Mirror!Idle, Mirror!Kinds
<1>7. ASSUME NEW t \in All, Mirror!AskPlayer(t) PROVE TrackOwed'
  BY <1>7 DEF Mirror!AskPlayer, Mirror!Ask, Mirror!Player, Mirror!pollVars
<1>8. ASSUME NEW t \in All, Mirror!AskInfo(t) PROVE TrackOwed'
  BY <1>8 DEF Mirror!AskInfo, Mirror!Ask, Mirror!pollVars
<1>9. ASSUME NEW t \in All, Mirror!AskLyrics(t) PROVE TrackOwed'
  BY <1>9 DEF Mirror!AskLyrics, Mirror!Ask, Mirror!pollVars
<1>10. ASSUME NEW t \in All, Mirror!Store(t) PROVE TrackOwed'
  <2>1. /\ Mirror!Stored(t).info \in Nat /\ Mirror!Stored(t).lyrics \in Nat /\ cache.info \in Nat
        /\ cache.lyrics \in Nat /\ host.track \in Nat /\ cache' = Mirror!Stored(t)
    BY <1>10 DEF Mirror!Store, Mirror!Stored
  <2>2. CASE Carries(job[t]) /\ job[t].info = host.track
    BY <1>10, <2>2 DEF Mirror!Store, Mirror!Stored
  <2>3. CASE Carries(job[t]) /\ job[t].info # host.track
    <3>1. Mirror!Stored(t).info = job[t].info /\ Mirror!Stored(t).info < host.track
      BY <1>10, <2>3 DEF Mirror!Store, Mirror!Stored
    <3>2. CASE cache.info = host.track \/ overtaken
      BY <1>10, <2>1, <3>1, <3>2 DEF Mirror!Store
    <3>3. ASSUME NEW u \in All, Fresh(job[u]) PROVE Fresh(job'[u])
      BY <1>10, <2>3, <3>3 DEF Mirror!Store
    <3> QED
      BY <1>10, <3>2, <3>3 DEF Mirror!Store, Mirror!pollVars
  <2>4. CASE ~Carries(job[t])
    <3>1. Mirror!Stored(t).info = cache.info /\ Mirror!Stored(t).lyrics = cache.lyrics
      BY <1>10, <2>4 DEF Mirror!Store, Mirror!Stored
    <3>2. CASE cache.info = host.track
      BY <1>10, <2>1, <3>1, <3>2 DEF Mirror!Store
    <3>3. CASE cache.info # host.track /\ overtaken
      BY <1>10, <2>1, <3>1, <3>3 DEF Mirror!Store
    <3>4. ASSUME NEW u \in All, Fresh(job[u]) PROVE Fresh(job'[u])
      BY <1>10, <2>4, <3>4 DEF Mirror!Store
    <3> QED
      BY <1>10, <3>2, <3>3, <3>4 DEF Mirror!Store, Mirror!pollVars
  <2> QED
    BY <2>2, <2>3, <2>4
<1>11. ASSUME NEW t \in All, Mirror!Flag(t) PROVE TrackOwed'
  BY <1>11 DEF Mirror!Flag, Mirror!Idle, Mirror!pollVars
<1>12. ASSUME NEW t \in All, Mirror!Snapshot(t) PROVE TrackOwed'
  BY <1>12 DEF Mirror!Snapshot, Mirror!Idle, Mirror!pollVars
<1>13. ASSUME NEW t \in All, Mirror!Moved(t) PROVE TrackOwed'
  BY <1>13 DEF Mirror!Moved, Mirror!Moves, Mirror!Idle, Mirror!pollVars
<1>14. ASSUME NEW t \in All, Mirror!Send(t) PROVE TrackOwed'
  BY <1>14 DEF Mirror!Send, Mirror!Idle, Mirror!pollVars
<1>15. CASE Mirror!Connect
  BY <1>15 DEF Mirror!Connect, Mirror!mirrorVars
<1>16. CASE Mirror!PollFetch
  BY <1>16 DEF Mirror!PollFetch, Mirror!Player, Mirror!mirrorVars
<1>17. CASE Mirror!PollNothing
  BY <1>17 DEF Mirror!PollNothing, Mirror!mirrorVars
<1>18. CASE Mirror!PollStore
  BY <1>18 DEF Mirror!PollStore, Mirror!Polled
<1>19. CASE UNCHANGED Mirror!vars
  BY <1>19 DEF Mirror!vars, Mirror!mirrorVars, Mirror!pollVars
<1> QED
  BY <1>1, <1>2, <1>3, <1>4, <1>5, <1>6, <1>7, <1>8, <1>9, <1>10, <1>11, <1>12, <1>13, <1>14,
     <1>15, <1>16, <1>17, <1>18, <1>19 DEF Mirror!Next, Mirror!Work, All

\* The state recorded last is the one clients were told, or a job is about to send it
\* (play_state_moved).
LEMMA SentStep == ASSUME Mirror!TypeOK, SentTold, [Mirror!Next]_(Mirror!vars) PROVE SentTold'
<1> USE NoneAssumption DEF Mirror!TypeOK, Mirror!Job, All, SentTold, Sends
<1>1. CASE Mirror!TrackChanges
  BY <1>1 DEF Mirror!TrackChanges, Mirror!Happens, Mirror!mirrorVars, Mirror!pollVars
<1>2. CASE Mirror!PlayStateChanges
  BY <1>2 DEF Mirror!PlayStateChanges, Mirror!Happens, Mirror!mirrorVars, Mirror!pollVars
<1>3. CASE Mirror!ModeChanges
  BY <1>3 DEF Mirror!ModeChanges, Mirror!Happens, Mirror!mirrorVars, Mirror!pollVars
<1>4. CASE Mirror!ModeChangesSilently
  BY <1>4 DEF Mirror!ModeChangesSilently, Mirror!mirrorVars, Mirror!pollVars
<1>5. ASSUME NEW t \in Threads, Mirror!ColdRead(t) PROVE SentTold'
  BY <1>5 DEF Mirror!ColdRead, Mirror!pollVars, Mirror!Idle
<1>6. ASSUME NEW t \in Threads, NEW kind \in Mirror!Kinds, Mirror!Deliver(t, kind) PROVE SentTold'
  BY <1>6 DEF Mirror!Deliver, Mirror!FirstStep, Mirror!Idle, Mirror!Kinds
<1>7. ASSUME NEW t \in All, Mirror!AskPlayer(t) PROVE SentTold'
  BY <1>7 DEF Mirror!AskPlayer, Mirror!Ask, Mirror!Player, Mirror!pollVars
<1>8. ASSUME NEW t \in All, Mirror!AskInfo(t) PROVE SentTold'
  BY <1>8 DEF Mirror!AskInfo, Mirror!Ask, Mirror!pollVars
<1>9. ASSUME NEW t \in All, Mirror!AskLyrics(t) PROVE SentTold'
  BY <1>9 DEF Mirror!AskLyrics, Mirror!Ask, Mirror!pollVars
<1>10. ASSUME NEW t \in All, Mirror!Store(t) PROVE SentTold'
  BY <1>10 DEF Mirror!Store, Mirror!Stored, Mirror!pollVars
<1>11. ASSUME NEW t \in All, Mirror!Flag(t) PROVE SentTold'
  BY <1>11 DEF Mirror!Flag, Mirror!Idle, Mirror!pollVars
<1>12. ASSUME NEW t \in All, Mirror!Snapshot(t) PROVE SentTold'
  BY <1>12 DEF Mirror!Snapshot, Mirror!Idle, Mirror!pollVars
<1>13. ASSUME NEW t \in All, Mirror!Moved(t) PROVE SentTold'
  BY <1>13 DEF Mirror!Moved, Mirror!Moves, Mirror!Idle, Mirror!pollVars
<1>14. ASSUME NEW t \in All, Mirror!Send(t) PROVE SentTold'
  BY <1>14 DEF Mirror!Send, Mirror!Idle, Mirror!pollVars
<1>15. CASE Mirror!Connect
  BY <1>15 DEF Mirror!Connect, Mirror!mirrorVars
<1>16. CASE Mirror!PollFetch
  BY <1>16 DEF Mirror!PollFetch, Mirror!Player, Mirror!mirrorVars
<1>17. CASE Mirror!PollNothing
  BY <1>17 DEF Mirror!PollNothing, Mirror!mirrorVars
<1>18. CASE Mirror!PollStore
  BY <1>18 DEF Mirror!PollStore, Mirror!Polled
<1>19. CASE UNCHANGED Mirror!vars
  BY <1>19 DEF Mirror!vars, Mirror!mirrorVars, Mirror!pollVars
<1> QED
  BY <1>1, <1>2, <1>3, <1>4, <1>5, <1>6, <1>7, <1>8, <1>9, <1>10, <1>11, <1>12, <1>13, <1>14,
     <1>15, <1>16, <1>17, <1>18, <1>19 DEF Mirror!Next, Mirror!Work, All

\* A play state clients were not told has a notification due, or a job that will tell them.
LEMMA PlayStep ==
    ASSUME Mirror!TypeOK, JobsInOrder, SentTold, PlayOwed, [Mirror!Next]_(Mirror!vars)
    PROVE  PlayOwed'
<1> USE NoneAssumption DEF Mirror!TypeOK, Mirror!Job, All, JobsInOrder, InOrder, Carries,
   SentTold, Sends, PlayOwed, Telling, Hears, Mirror!Kinds, Mirror!PlayerState
<1>1. CASE Mirror!TrackChanges
  BY <1>1 DEF Mirror!TrackChanges, Mirror!Happens, Mirror!mirrorVars, Mirror!pollVars
<1>2. CASE Mirror!PlayStateChanges
  BY <1>2 DEF Mirror!PlayStateChanges, Mirror!Happens, Mirror!mirrorVars, Mirror!pollVars
<1>3. CASE Mirror!ModeChanges
  BY <1>3 DEF Mirror!ModeChanges, Mirror!Happens, Mirror!mirrorVars, Mirror!pollVars
<1>4. CASE Mirror!ModeChangesSilently
  BY <1>4 DEF Mirror!ModeChangesSilently, Mirror!mirrorVars, Mirror!pollVars
<1>5. ASSUME NEW t \in Threads, Mirror!ColdRead(t) PROVE PlayOwed'
  BY <1>5 DEF Mirror!ColdRead, Mirror!pollVars, Mirror!Idle
<1>6. ASSUME NEW t \in Threads, NEW kind \in Mirror!Kinds, Mirror!Deliver(t, kind) PROVE PlayOwed'
  BY <1>6 DEF Mirror!Deliver, Mirror!FirstStep, Mirror!Idle, Mirror!Kinds
<1>7. ASSUME NEW t \in All, Mirror!AskPlayer(t) PROVE PlayOwed'
  BY <1>7 DEF Mirror!AskPlayer, Mirror!Ask, Mirror!Player, Mirror!pollVars
<1>8. ASSUME NEW t \in All, Mirror!AskInfo(t) PROVE PlayOwed'
  BY <1>8 DEF Mirror!AskInfo, Mirror!Ask, Mirror!pollVars
<1>9. ASSUME NEW t \in All, Mirror!AskLyrics(t) PROVE PlayOwed'
  BY <1>9 DEF Mirror!AskLyrics, Mirror!Ask, Mirror!pollVars
<1>10. ASSUME NEW t \in All, Mirror!Store(t) PROVE PlayOwed'
  BY <1>10 DEF Mirror!Store, Mirror!Stored, Mirror!pollVars
<1>11. ASSUME NEW t \in All, Mirror!Flag(t) PROVE PlayOwed'
  BY <1>11 DEF Mirror!Flag, Mirror!Idle, Mirror!pollVars
<1>12. ASSUME NEW t \in All, Mirror!Snapshot(t) PROVE PlayOwed'
  BY <1>12 DEF Mirror!Snapshot, Mirror!Idle, Mirror!pollVars
<1>13. ASSUME NEW t \in All, Mirror!Moved(t) PROVE PlayOwed'
  BY <1>13 DEF Mirror!Moved, Mirror!Moves, Mirror!Idle, Mirror!pollVars
<1>14. ASSUME NEW t \in All, Mirror!Send(t) PROVE PlayOwed'
  BY <1>14 DEF Mirror!Send, Mirror!Idle, Mirror!pollVars
<1>15. CASE Mirror!Connect
  BY <1>15 DEF Mirror!Connect, Mirror!mirrorVars
<1>16. CASE Mirror!PollFetch
  BY <1>16 DEF Mirror!PollFetch, Mirror!Player, Mirror!mirrorVars
<1>17. CASE Mirror!PollNothing
  BY <1>17 DEF Mirror!PollNothing, Mirror!mirrorVars
<1>18. CASE Mirror!PollStore
  BY <1>18 DEF Mirror!PollStore, Mirror!Polled
<1>19. CASE UNCHANGED Mirror!vars
  BY <1>19 DEF Mirror!vars, Mirror!mirrorVars, Mirror!pollVars
<1> QED
  BY <1>1, <1>2, <1>3, <1>4, <1>5, <1>6, <1>7, <1>8, <1>9, <1>10, <1>11, <1>12, <1>13, <1>14,
     <1>15, <1>16, <1>17, <1>18, <1>19 DEF Mirror!Next, Mirror!Work, All

\* A core begins with the seeder owing the track and nobody having heard a state.
LEMMA MirrorInit == ASSUME Mirror!Init PROVE MirrorIInv
<1>1. Mirror!TypeOK
  BY IdleType DEF Mirror!Init, Mirror!TypeOK, Mirror!Idle, Mirror!Job, Mirror!PlayerState,
     Mirror!Kinds
<1>2. JobsInOrder
  <2> SUFFICES ASSUME NEW t \in All PROVE InOrder(job[t])
    BY DEF JobsInOrder
  <2>1. CASE t = Seeder
    BY <2>1 DEF Mirror!Init, InOrder, Carries, Mirror!Idle, All
  <2>2. CASE t # Seeder
    BY <2>2 DEF Mirror!Init, InOrder, Carries, Mirror!Idle, All
  <2> QED
    BY <2>1, <2>2
<1>5. TrackOrder
  BY DEF Mirror!Init, TrackOrder
<1>3. TrackOwed
  BY DEF Mirror!Init, TrackOwed, Fresh, Carries, Mirror!Idle, All
<1>4. SentTold /\ PlayOwed
  BY DEF Mirror!Init, SentTold, PlayOwed, Telling
<1> QED
  BY <1>1, <1>2, <1>3, <1>4, <1>5 DEF MirrorIInv

\* Every step of the host, of a job and of the poll keeps the invariant.
LEMMA MirrorStep == ASSUME MirrorIInv, [Mirror!Next]_(Mirror!vars) PROVE MirrorIInv'
  BY MirrorTypeStep, OrderStep, TrackStep, OwedStep, SentStep, PlayStep DEF MirrorIInv

\* Who still owes the cache the track, and clients the play state (nowplaying.rs,
\* notifications.rs, monitor.rs), for any threads and any number of changes.
THEOREM MirrorInvariant == Mirror!Spec => []MirrorIInv
  BY MirrorInit, MirrorStep, PTL DEF Mirror!Spec

\* With no notification due and no refresh running the cache holds what plays, and clients
\* have heard the play state, unless answers or states crossed (notifications.rs, nowplaying.rs).
THEOREM MirrorCorrect == Mirror!Spec => []MirrorAtRest
<1>1. ASSUME MirrorIInv PROVE MirrorAtRest
  <2> SUFFICES ASSUME \A k \in Mirror!Kinds : dueOfPlayer[k] = 0,
          \A t \in All : job[t].at = "idle"
               PROVE  /\ overtaken \/ (cache.info = host.track /\ cache.lyrics = host.track)
                      /\ crossed \/ told = host.play
    BY DEF MirrorAtRest, Mirror!MirrorAtRest, All, Mirror!Kinds
  <2>1. overtaken \/ cache.info = host.track
    BY <1>1 DEF MirrorIInv, TrackOwed, Fresh, Mirror!Kinds
  <2>2. cache.info = host.track => cache.lyrics = host.track
    BY <1>1 DEF MirrorIInv, TrackOrder, Mirror!TypeOK
  <2>3. crossed \/ told = host.play
    BY <1>1 DEF MirrorIInv, PlayOwed, Telling, Sends, Hears, Mirror!Kinds
  <2> QED
    BY <2>1, <2>2, <2>3
<1> QED
  BY MirrorInvariant, <1>1, PTL

-----------------------------------------------------------------------------
(* Both, as they are run. *)

\* What run now_playing checks of the queue and of the mirror, for any clients, items and
\* threads: a run of the two is one of each.
THEOREM NowPlayingCorrect == MCSpec => [](AcceptedUnlessCrossed /\ MirrorAtRest)
<1>1. MCInit => Init /\ Mirror!Init
  BY DEF MCInit
<1>2. [MCNext]_<<side, vars, mirrorVars>> => [Next]_vars
  BY DEF MCNext, mirrorVars, vars, clientVars, listVars
<1>3. [MCNext]_<<side, vars, mirrorVars>> => [Mirror!Next]_(Mirror!vars)
  BY DEF MCNext, mirrorVars, Mirror!vars, Mirror!pollVars, Mirror!mirrorVars
<1>4. MCSpec => Spec /\ Mirror!Spec
  BY <1>1, <1>2, <1>3, PTL DEF MCSpec, Spec, Mirror!Spec
<1> QED
  BY <1>4, AcceptedCorrect, MirrorCorrect, PTL
=============================================================================
