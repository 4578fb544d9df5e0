------------------------------ MODULE MCLibrary ------------------------------
(* What is kept of the library: the tag rows with a file or two, one browse  *)
(* and one syncing client; the index and the log with the passes over both;  *)
(* the covers of an album and of a track without one; and a media category.  *)
(* They share no state here: each is run by itself, from initial states of   *)
(* its own.                                                                  *)
EXTENDS TagSync, TLC

CONSTANTS Albums, Singles, MaxArtEvents, MaxTime, Files, MaxFileEvents,
          Commands, MaxPassEvents

\* An album is known by a track of its own: no other track keeps its cover.
ASSUME CoverAssumption == Albums \cap Singles = {}

VARIABLES side,
          now, art, mtime, artDue, artEvents, stopping, warmed, covers, noArt, items, disk,
          coverFiles, build, ask, unseen, artOvertaken, crossed,
          files, fileTags, filesDue, fileEvents, listing, pending, nudge, mediaTask,
          deferred, budget, read, connected, news, mediaCopy, outrun,
          held, up, validated, listed, logged, marked, since, queue, scanNudge, scanner,
          batch, waiting, sweep, dirty, unheard, silent, met, passEvents

coverVars == <<now, art, mtime, artDue, artEvents, stopping, warmed, covers, noArt, items,
               disk, coverFiles, build, ask, unseen, artOvertaken, crossed>>
mediaVars == <<files, fileTags, filesDue, fileEvents, listing, pending, nudge, mediaTask,
               deferred, budget, read, connected, news, mediaCopy, outrun>>
passVars == <<held, up, validated, listed, logged, marked, since, queue, scanNudge, scanner,
              batch, waiting, sweep, dirty, unheard, silent, met, passEvents>>

Pictures == INSTANCE Cover WITH
    MaxEvents <- MaxArtEvents, due <- artDue, events <- artEvents, files <- coverFiles,
    overtaken <- artOvertaken
Category == INSTANCE Media WITH
    MaxEvents <- MaxFileEvents, tags <- fileTags, due <- filesDue, events <- fileEvents,
    task <- mediaTask, copy <- mediaCopy
Passes == INSTANCE LibraryScan WITH
    MaxEvents <- MaxPassEvents, library <- held, live <- logged,
    index <- listed, nudge <- scanNudge, pass <- sweep, crossed <- met, events <- passEvents

MCInit ==
    /\ side \in {"rows", "passes", "covers", "media"}
    /\ Init /\ Pictures!Init /\ Category!Init /\ Passes!Init
    /\ side # "media" => files = {}
    /\ side # "passes" => held = {}

MCNext ==
    /\ UNCHANGED side
    /\ \/ side = "rows" /\ Next /\ UNCHANGED <<coverVars, mediaVars, passVars>>
       \/ side = "covers" /\ Pictures!Next /\ UNCHANGED <<vars, mediaVars, passVars>>
       \/ side = "media" /\ Category!Next /\ UNCHANGED <<vars, coverVars, passVars>>
       \/ side = "passes" /\ Passes!Next /\ UNCHANGED <<vars, coverVars, mediaVars>>

Symmetry == Permutations(Paths)
MCSpec == MCInit /\ [][MCNext]_<<side, vars, coverVars, mediaVars, passVars>>

\* The properties of LibraryScan, Cover and Media, by name.
LogHoldsLibrary == Passes!LogHoldsLibrary
NoEditLost == Passes!NoEditLost
StaysInService == Passes!StaysInService
CoversCurrent == Pictures!CoversCurrent
FilesKept == Pictures!FilesKept
RebuildAsksAgain == Pictures!RebuildAsksAgain
TagsCurrent == Category!TagsCurrent
=============================================================================
