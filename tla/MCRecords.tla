----------------------------- MODULE MCRecords -----------------------------
(* What is kept in step: the browsers and apps with their roles, the update  *)
(* service's state and what it stages, the plugin's files, which a helper    *)
(* replaces, and a playlist that is edited from several places.  They share  *)
(* no state here: each is run by itself, from initial states of its own.     *)
EXTENDS Install, TLC

CONSTANTS Browsers, Installs, App, Threads, Panel, MaxOps, MaxTokens, MaxEdition, MaxStarts,
          Tracks, PageSize, MaxEdits, MaxAsks, None

\* A browser is known by the id of its cookie, an app by its client_id: no principal, and
\* no client, is both.
ASSUME PartyAssumption == App \notin Browsers /\ Installs \cap Browsers = {}

VARIABLES side,
          code, tokens, paired, roles, kept, identity, enabled, op, client, minted, holds,
          ops, answered, revoked, grantee, aged, crossed,
          release, installed, running, status, available, shown, startup, job, skip, saved,
          dirs, staged, sweep, refused, skipMet, swept,
          list, kind, edits, wire, work, view, store, asked, harm

partyVars == <<code, tokens, paired, roles, kept, identity, enabled, op, client, minted,
               holds, ops, answered, revoked, grantee, aged, crossed>>
serviceVars == <<release, installed, running, status, available, shown, startup, job, skip,
                 saved, dirs, staged, sweep, refused, skipMet, swept>>
listVars == <<list, kind, edits, wire, work, view, store, asked, harm>>

Remote == INSTANCE Party
Service == INSTANCE Updates WITH
    MaxSessions <- MaxStarts, session <- running, marker <- staged, crossed <- skipMet
Listed == INSTANCE Playlists

\* Of the playlists to start from, only its own runs need more than one.
MCInit ==
    /\ side \in {"party", "service", "helper", "playlist"}
    /\ Init /\ Remote!Init /\ Service!Init /\ Listed!Init
    /\ side # "playlist" => list = <<>> /\ kind = "list"

MCNext ==
    /\ UNCHANGED side
    /\ \/ side = "party" /\ Remote!Next /\ UNCHANGED <<vars, serviceVars, listVars>>
       \/ side = "service" /\ Service!Next /\ UNCHANGED <<vars, partyVars, listVars>>
       \/ side = "helper" /\ Next /\ UNCHANGED <<partyVars, serviceVars, listVars>>
       \/ side = "playlist" /\ Listed!Next /\ UNCHANGED <<vars, partyVars, serviceVars>>

MCSpec == MCInit /\ [][MCNext]_<<side, vars, partyVars, serviceVars, listVars>>

Symmetry == Permutations(Helpers)

\* The properties of the modules that are instantiated, by name.
RightsLast == Remote!RightsLast
HolderKnown == Remote!HolderKnown
ToldOrWoken == Remote!ToldOrWoken
OfferStands == Service!OfferStands
MarkerCommits == Service!MarkerCommits
OfferKept == Service!OfferKept
AcceptedUnlessStitched == Listed!AcceptedUnlessStitched
=============================================================================
