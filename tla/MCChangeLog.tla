----------------------------- MODULE MCChangeLog -----------------------------
(* What clients copy of the library: the change log with its readers, the    *)
(* passes that end in the log, and a category of media files.  The three     *)
(* share no state here: each is run by itself, from initial states of its    *)
(* own.                                                                      *)
EXTENDS ChangeLog

CONSTANTS Commands, MaxEvents, Files, Phones, MaxFileEvents

VARIABLES side,
          held, up, validated, index, live, marked, since, queue, nudge, scanner, batch,
          waiting, pass, dirty, unheard, silent, crossed, events,
          files, tags, filesDue, fileEvents, mediaListing, mediaPending, mediaNudge, mediaTask,
          deferred, budget, read, connected, news, mediaCopy, outrun

passVars == <<held, up, validated, index, live, marked, since, queue, nudge, scanner, batch,
              waiting, pass, dirty, unheard, silent, crossed, events>>
mediaVars == <<files, tags, filesDue, fileEvents, mediaListing, mediaPending, mediaNudge,
               mediaTask, deferred, budget, read, connected, news, mediaCopy, outrun>>

Passes == INSTANCE LibraryScan WITH library <- held
Category == INSTANCE Media WITH
    Clients <- Phones, MaxEvents <- MaxFileEvents, due <- filesDue, events <- fileEvents,
    listing <- mediaListing, pending <- mediaPending, nudge <- mediaNudge,
    task <- mediaTask, copy <- mediaCopy

MCInit ==
    /\ side \in {"log", "passes", "category"}
    /\ Init /\ Passes!Init /\ Category!Init
    /\ side # "passes" => held = {}
    /\ side # "category" => files = {}

MCNext ==
    /\ UNCHANGED side
    /\ \/ side = "log" /\ Next /\ UNCHANGED <<passVars, mediaVars>>
       \/ side = "passes" /\ Passes!Next /\ UNCHANGED <<vars, mediaVars>>
       \/ side = "category" /\ Category!Next /\ UNCHANGED <<vars, passVars>>

\* What is not run stays in an initial state, where nothing is fair.
MCSpec ==
    /\ MCInit /\ [][MCNext]_<<side, vars, passVars, mediaVars>>
    /\ Fairness /\ Passes!Fairness /\ Category!Fairness

\* The properties of LibraryScan and Media, by name.
ComesToRest == Passes!ComesToRest
CopyComesRound == Category!CopyComesRound
=============================================================================
