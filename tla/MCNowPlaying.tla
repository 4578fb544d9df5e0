---------------------------- MODULE MCNowPlaying ----------------------------
(* What clients copy from MusicBee: the queue, and the playing track with    *)
(* the player state.  The two share no state: each is run by itself.         *)
EXTENDS PlayQueue

CONSTANTS Threads, Seeder, MaxEvents, None

\* No state has been sent yet: not one that can be.
ASSUME NoneAssumption == None \notin BOOLEAN

VARIABLES side,
          host, dueOfPlayer, cache, seeded, job, sent, told, listening, pollNow, poll, seen,
          overtaken, crossed

mirrorVars == <<host, dueOfPlayer, cache, seeded, job, sent, told, listening, pollNow, poll, seen,
                overtaken, crossed>>
Mirror == INSTANCE NowPlaying WITH due <- dueOfPlayer

MCInit == side \in {"mirror", "queue"} /\ Init /\ Mirror!Init
MCNext ==
    /\ UNCHANGED side
    /\ \/ side = "queue" /\ Next /\ UNCHANGED mirrorVars
       \/ side = "mirror" /\ Mirror!Next /\ UNCHANGED vars

\* What is not run stays in its initial state, where only the mirror's seed is due.
MCSpec ==
    /\ MCInit /\ [][MCNext]_<<side, vars, mirrorVars>>
    /\ side = "mirror" => Mirror!Fairness
    /\ Fairness

\* The properties of NowPlaying, by name.
MirrorAtRest == Mirror!MirrorAtRest
PlayerComesRound == Mirror!PlayerComesRound
=============================================================================
