----------------------------- MODULE NowPlaying -----------------------------
(***************************************************************************)
(* The mirror of what MusicBee plays.                                      *)
(*                                                                         *)
(* The core keeps the playing track and the player's state, refreshed by   *)
(* MusicBee's notifications (each on a thread of the host), by the seed of *)
(* the network start, by a cold read, and by a poll.  Every refresh asks   *)
(* the host first and takes the lock after, so two of them can store in    *)
(* the other order than they asked.                                        *)
(***************************************************************************)
EXTENDS Integers

CONSTANTS Threads,     \* threads that run notifications and cold reads
          Seeder,      \* the worker that seeds the mirror at the start
          MaxEvents,   \* bound on what the host does
          None

VARIABLES host,        \* MusicBee: the playing track, play state and mode
          due,         \* notifications MusicBee has yet to raise, by kind
          cache,       \* NowPlayingCache.state
          seeded,      \* NowPlayingCache.seeded
          job,         \* what each thread does
          sent,        \* play_state_sent
          told,        \* the play state clients heard last
          listening,   \* a client is connected
          pollNow,     \* poll_now holds a permit
          poll,        \* the player state the poll has fetched
          seen,        \* the mode the poll saw last (Cached)
          overtaken,   \* history: an older track was stored over a newer one
          crossed      \* history: a play state was stored, or the last one sent,
                       \* that was past, or that others had recorded one after

mirrorVars == <<cache, seeded, job, sent, told, overtaken, crossed>>
pollVars == <<listening, pollNow, poll, seen>>
vars == <<host, due, mirrorVars, pollVars>>

Kinds == {"track", "play", "mode"}
Player(h) == [play |-> h.play, mode |-> h.mode]
Idle == [at |-> "idle", kind |-> "none", seeding |-> FALSE, info |-> 0, lyrics |-> 0,
         player |-> [play |-> FALSE, mode |-> FALSE]]

\* The track counts its changes.
\* mode stands for the four modes that only the poll announces.
Init ==
    /\ host = [track |-> 1, play |-> FALSE, mode |-> FALSE, events |-> 0]
    /\ due = [k \in Kinds |-> 0]
    /\ cache = [info |-> 0, lyrics |-> 0, player |-> [play |-> FALSE, mode |-> FALSE]]
    /\ seeded = FALSE
    /\ job = [t \in Threads \cup {Seeder} |->
                IF t = Seeder THEN [Idle EXCEPT !.at = "player", !.kind = "seed", !.seeding = TRUE]
                ELSE Idle]
    /\ sent = None /\ told = FALSE
    /\ listening = FALSE /\ pollNow = FALSE /\ poll = None /\ seen = None
    /\ overtaken = FALSE /\ crossed = FALSE

-----------------------------------------------------------------------------
(* MusicBee. *)

\* One thing happens at the host; its notification is raised some time after.
Happens(change, kind) ==
    /\ host.events < MaxEvents
    /\ host' = [change EXCEPT !.events = @ + 1]
    /\ due' = [due EXCEPT ![kind] = @ + 1]
    /\ UNCHANGED <<mirrorVars, pollVars>>

TrackChanges == Happens([host EXCEPT !.track = @ + 1], "track")
PlayStateChanges == Happens([host EXCEPT !.play = ~@], "play")
ModeChanges == Happens([host EXCEPT !.mode = ~@], "mode")

\* Scrobbling changes, and stop-after-current clears, without a notification.
ModeChangesSilently ==
    /\ host.events < MaxEvents
    /\ host' = [host EXCEPT !.mode = ~@, !.events = @ + 1]
    /\ UNCHANGED <<due, mirrorVars, pollVars>>

-----------------------------------------------------------------------------
(* Refreshes: ask, then store. *)

\* Mutant: a cold mirror is left to the seed.
FirstStepWhenSeeded(kind) ==
    IF kind = "track" THEN (IF seeded THEN "info" ELSE "snap") ELSE "player"

\* Which slice a notification refreshes first.
FirstStep(kind) == IF kind = "track" THEN "info" ELSE "player"

\* A notification runs on a thread of the host: the shuffle, repeat and
\* stop-after-current ones also bring the poll forward.
Deliver(t, kind) ==
    /\ job[t].at = "idle" /\ due[kind] > 0
    /\ due' = [due EXCEPT ![kind] = @ - 1]
    /\ job' = [job EXCEPT ![t] = [Idle EXCEPT !.at = FirstStep(kind), !.kind = kind]]
    /\ pollNow' = (pollNow \/ kind = "mode")
    /\ UNCHANGED <<host, cache, seeded, sent, told, overtaken, crossed, listening, poll, seen>>

\* A request reads the mirror; only a cold one changes it.
ColdRead(t) ==
    /\ job[t].at = "idle" /\ ~seeded
    /\ job' = [job EXCEPT ![t] = [Idle EXCEPT !.at = "snap", !.kind = "request"]]
    /\ UNCHANGED <<host, due, cache, seeded, sent, told, overtaken, crossed>>
    /\ UNCHANGED <<pollVars>>

Ask(t, from, to, field, value) ==
    /\ job[t].at = from
    /\ job' = [job EXCEPT ![t][field] = value, ![t].at = to]
    /\ UNCHANGED <<host, due, cache, seeded, sent, told, overtaken, crossed>>
    /\ UNCHANGED <<pollVars>>

AskPlayer(t) ==
    Ask(t, "player", IF job[t].seeding THEN "info" ELSE "store", "player", Player(host))
AskInfo(t) == Ask(t, "info", "lyrics", "info", host.track)
AskLyrics(t) == Ask(t, "lyrics", "store", "lyrics", host.track)

\* What one write of the lock stores.
Stored(t) ==
    LET j == job[t] IN
    CASE j.seeding -> [info |-> j.info, lyrics |-> j.lyrics, player |-> j.player]
      [] j.kind = "track" -> [cache EXCEPT !.info = j.info, !.lyrics = j.lyrics]
      [] OTHER -> [cache EXCEPT !.player = j.player]

Store(t) ==
    /\ job[t].at = "store"
    /\ cache' = Stored(t)
    /\ overtaken' = IF Stored(t).info < cache.info \/ Stored(t).lyrics < cache.lyrics THEN TRUE
                    ELSE overtaken /\ Stored(t).info # host.track
    /\ crossed' = (crossed \/ Stored(t).player.play # host.play)
    /\ job' = [job EXCEPT ![t] = [@ EXCEPT !.at = IF job[t].seeding THEN "flag" ELSE "snap"]]
    /\ UNCHANGED <<host, due, seeded, sent, told, pollVars>>

\* refresh_all ends: a cold reader goes on to its snapshot.
Flag(t) ==
    /\ job[t].at = "flag"
    /\ seeded' = TRUE
    /\ job' = [job EXCEPT ![t] = IF job[t].kind = "seed" THEN Idle
                                 ELSE [@ EXCEPT !.at = "snap", !.seeding = FALSE]]
    /\ UNCHANGED <<host, due, cache, sent, told, overtaken, crossed, pollVars>>

\* snapshot, which seeds a cold mirror first; only a play-state notification
\* does more with it than send it.
Snapshot(t) ==
    /\ job[t].at = "snap"
    /\ job' = [job EXCEPT ![t] =
                  IF ~seeded THEN [@ EXCEPT !.at = "player", !.seeding = TRUE]
                  ELSE IF job[t].kind = "play"
                  THEN [@ EXCEPT !.at = "moved", !.player = cache.player] ELSE Idle]
    /\ UNCHANGED <<host, due, cache, seeded, sent, told, overtaken, crossed>>
    /\ UNCHANGED <<pollVars>>

Moves(state) == sent # state

\* play_state_moved: a state already sent is not sent again.
Moved(t) ==
    /\ job[t].at = "moved"
    /\ sent' = job[t].player.play
    /\ job' = [job EXCEPT ![t] = IF Moves(sent') THEN [@ EXCEPT !.at = "send"] ELSE Idle]
    /\ UNCHANGED <<host, due, cache, seeded, told, overtaken, crossed, pollVars>>

Send(t) ==
    /\ job[t].at = "send"
    /\ told' = job[t].player.play
    /\ crossed' = (told' # host.play \/ told' # sent)
    /\ job' = [job EXCEPT ![t] = Idle]
    /\ UNCHANGED <<host, due, cache, seeded, sent, overtaken, pollVars>>

Work(t) ==
    \/ AskPlayer(t) \/ AskInfo(t) \/ AskLyrics(t)
    \/ Store(t) \/ Flag(t) \/ Snapshot(t) \/ Moved(t) \/ Send(t)

-----------------------------------------------------------------------------
(* The poll, which runs only while a client is connected. *)

Connect ==
    /\ listening' = ~listening
    /\ UNCHANGED <<host, due, mirrorVars, pollNow, poll, seen>>

\* A tick of the second, or the permit of poll_now; the host may fail.
PollFetch ==
    /\ poll = None
    /\ pollNow' = FALSE
    /\ listening
    /\ poll' = Player(host)
    /\ UNCHANGED <<host, due, mirrorVars, listening, seen>>

\* A permit is spent though nobody listens or the host fails.
PollNothing ==
    /\ poll = None /\ pollNow
    /\ pollNow' = FALSE
    /\ UNCHANGED <<host, due, mirrorVars, listening, poll, seen>>

\* Mutant: only a change of a polled mode is stored.
PolledWhenChanged(state) == IF seen = state.mode THEN cache.player ELSE state
Polled(state) == state

\* set_player and the events of the modes that moved since the last poll; the
\* first sight of a mode only seeds.
PollStore ==
    /\ poll # None
    /\ cache' = [cache EXCEPT !.player = Polled(poll)]
    /\ crossed' = (crossed \/ Polled(poll).play # host.play)
    /\ seen' = poll.mode
    /\ poll' = None
    /\ UNCHANGED <<host, due, seeded, job, sent, told, overtaken, listening, pollNow>>

Next ==
    \/ TrackChanges \/ PlayStateChanges \/ ModeChanges \/ ModeChangesSilently
    \/ \E t \in Threads : ColdRead(t) \/ \E kind \in Kinds : Deliver(t, kind)
    \/ \E t \in Threads \cup {Seeder} : Work(t)
    \/ Connect \/ PollFetch \/ PollNothing \/ PollStore

\* MusicBee raises what is due, its calls return, and the core's tasks and
\* threads are scheduled.
Fairness ==
    /\ \A t \in Threads : \A kind \in Kinds : WF_vars(Deliver(t, kind))
    /\ \A t \in Threads \cup {Seeder} : WF_vars(Work(t))
    /\ WF_vars(PollFetch) /\ WF_vars(PollStore)

Spec == Init /\ [][Next]_vars
FairSpec == Spec /\ Fairness

-----------------------------------------------------------------------------
(* What a reader of the mirror may rely on. *)

PlayerState == [play : BOOLEAN, mode : BOOLEAN]
Job == [at : {"idle", "player", "info", "lyrics", "store", "flag", "snap", "moved", "send"},
        kind : Kinds \cup {"none", "seed", "request"}, seeding : BOOLEAN,
        info : Nat, lyrics : Nat, player : PlayerState]
TypeOK ==
    /\ host \in [track : Nat, play : BOOLEAN, mode : BOOLEAN, events : Nat]
    /\ due \in [Kinds -> Nat]
    /\ cache \in [info : Nat, lyrics : Nat, player : PlayerState]
    /\ job \in [Threads \cup {Seeder} -> Job]
    /\ seeded \in BOOLEAN /\ sent \in BOOLEAN \cup {None} /\ told \in BOOLEAN
    /\ poll \in PlayerState \cup {None}

\* With no notification due and no refresh running, the mirror holds the
\* playing track, its lyrics with it, and clients have heard the play state:
\* unless an older answer was stored over a newer one (refresh_track_fields and
\* poll ask before they lock, the seed for seconds), or of two states that were
\* recorded the first was sent last (play_state_moved lets its lock go).
MirrorAtRest ==
    (seeded /\ \A k \in Kinds : due[k] = 0 /\ \A t \in Threads \cup {Seeder} : job[t].at = "idle") =>
        /\ overtaken \/ (cache.info = host.track /\ cache.lyrics = host.track)
        /\ crossed \/ told = host.play

\* While a client stays connected the mirror comes to the player's state and
\* stays there, whatever order polls and notifications stored in, and the poll
\* has announced the mode: no stale store is for ever.
PlayerComesRound ==
    <>[]listening => <>[](cache.player = Player(host) /\ seen = host.mode)
=============================================================================
