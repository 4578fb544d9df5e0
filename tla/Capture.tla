------------------------------ MODULE Capture ------------------------------
(***************************************************************************)
(* The diagnostics capture and the log level.                              *)
(*                                                                         *)
(* The panel's thread runs the host's calls one after another, each a few  *)
(* steps: a capture takes or gives up the session under the lock and sets  *)
(* the level, the record on disk and the watchdog after it.  A watchdog    *)
(* thread per capture ends one that nobody stopped; a writer thread zips   *)
(* the bundle.  The process may be closed or killed at any step, and what  *)
(* it finds when it comes back is the record and the saved settings.       *)
(*                                                                         *)
(* The host sets the level too: at start, and when a change of the saved   *)
(* level is applied.  It compares with the settings the core was made      *)
(* with, which an applied change does not touch.                           *)
(***************************************************************************)
EXTENDS Integers, Sequences

CONSTANTS MaxCaptures,  \* bound on the captures begun from the panel
          MaxApplies,   \* bound on the settings applied
          MaxStarts,    \* bound on the starts of MusicBee
          None          \* no session

Info == 1
Debug == 2
Trace == 3
Levels == {Info, Debug, Trace}

VARIABLES session,     \* STATE.session: its generation, and whether its time is up
          resting,     \* STATE.resting
          record,      \* capture.json: "none", "fresh", or "spent" when too old to resume
          saved,       \* log_level in core_settings.json
          config,      \* log_level in the core's config, read when the core was made
          level,       \* the level the log filter lets through
          core,        \* whether there is a core
          generation,  \* GENERATION
          watchdogs,   \* the watchdog threads: their capture and where they are
          writer,      \* the thread that writes the bundle
          call,        \* the steps left of the host's call
          budget,      \* captures, applies and starts left
          disturbed    \* history: the level was last set without regard to the session
                     \* or to the saved settings

captureVars == <<session, resting, generation, watchdogs, writer>>
levelVars == <<saved, config, level, disturbed>>
vars == <<captureVars, levelVars, record, core, call, budget>>

Steps == {"raise", "watch", "restore", "clear", "write", "push", "shutdown", "initialize", "resume"}

TypeOK ==
    /\ session \in [generation : 1 .. generation, spent : BOOLEAN] \cup {None}
    /\ resting \in {"idle", "writing", "done", "error", "expired"}
    /\ record \in {"none", "fresh", "spent"}
    /\ {saved, config, level} \subseteq Levels
    /\ core \in BOOLEAN /\ generation \in Nat /\ disturbed \in BOOLEAN
    /\ watchdogs \subseteq [generation : 1 .. generation,
                            at : {"asleep", "due", "restore", "clear"}]
    /\ writer \in {"none", "spawned", "building"}
    /\ call \in Seq(Steps)
    /\ budget \in [captures : 0 .. MaxCaptures, applies : 0 .. MaxApplies,
                   starts : 0 .. MaxStarts]

\* MusicBee starts the plugin: the core is made, a recorded capture resumed, and
\* the saved level pushed.
Boot == <<"initialize", "resume", "push">>

Init ==
    /\ session = None /\ resting = "idle" /\ record = "none"
    /\ saved = Info /\ config = Info /\ level = Info
    /\ core = FALSE /\ generation = 0
    /\ watchdogs = {} /\ writer = "none" /\ call = <<>>
    /\ budget = [captures |-> MaxCaptures, applies |-> MaxApplies, starts |-> MaxStarts]
    /\ disturbed = FALSE

Spend(what) == budget[what] > 0 /\ budget' = [budget EXCEPT ![what] = @ - 1]

Idle == call = <<>> /\ core

Begun == [generation |-> generation + 1, spent |-> FALSE]

(***************************************************************************)
(* The panel's calls                                                       *)
(***************************************************************************)

\* start.  The panel offers it while nothing is captured or written.  The record
\* may fail to be written, which costs the restart and not the capture.
Start ==
    /\ Idle /\ session = None /\ resting # "writing"
    /\ Spend("captures")
    /\ session' = Begun /\ generation' = generation + 1
    /\ record' \in {"fresh", record}
    /\ resting' = "idle"
    /\ call' = <<"raise", "watch">>
    /\ UNCHANGED <<levelVars, core, watchdogs, writer>>

\* Mutant: an end forgets the record.
EndWithoutClear == <<"restore">>

\* What is left of an end once the session is taken.
EndSteps == <<"restore", "clear">>

End(rest, after) ==
    /\ Idle /\ session # None
    /\ session' = None
    /\ resting' = rest
    /\ call' = EndSteps \o after
    /\ UNCHANGED <<levelVars, record, core, generation, watchdogs, writer, budget>>

Stop == End("writing", <<"write">>)
Cancel == End("idle", <<>>)

\* Settings are applied: the file is written, a level that differs from the core's
\* is pushed, and a change of the listener's settings reloads the core.
ApplySettings ==
    \E log_level \in Levels, reload \in BOOLEAN :
        /\ Idle
        /\ Spend("applies")
        /\ saved' = log_level
        /\ call' = (IF log_level # config THEN <<"push">> ELSE <<>>)
                   \o (IF reload THEN <<"shutdown", "initialize", "resume">> ELSE <<>>)
        /\ disturbed' = (disturbed \/ (log_level = config /\ config # saved))
        /\ UNCHANGED <<config, level, record, core, captureVars>>

(***************************************************************************)
(* The steps of a call                                                     *)
(***************************************************************************)

Step(name) == call # <<>> /\ Head(call) = name

Done == call' = Tail(call)

\* raise_level: to debug, and never down from a configured trace.
Raised == IF config = Trace THEN Trace ELSE Debug

Raise ==
    /\ Step("raise") /\ Done
    /\ level' = Raised /\ disturbed' = (config # saved)
    /\ UNCHANGED <<saved, config, captureVars, record, core, budget>>

\* spawn_watchdog for the capture just begun.
Watch ==
    /\ Step("watch") /\ Done
    /\ watchdogs' = watchdogs \cup {[generation |-> generation, at |-> "asleep"]}
    /\ UNCHANGED <<levelVars, session, resting, generation, writer, record, core, budget>>

\* Mutant: the level is put back to a fixed one.
RestoredToDebug == Debug

\* restore_level: to what the core's config says.
Restored == config

Restore ==
    /\ Step("restore") /\ Done
    /\ level' = Restored /\ disturbed' = (config # saved)
    /\ UNCHANGED <<saved, config, captureVars, record, core, budget>>

Clear ==
    /\ Step("clear") /\ Done
    /\ record' = "none"
    /\ UNCHANGED <<levelVars, captureVars, core, budget>>

\* The bundle is written by a thread of its own.
Write ==
    /\ Step("write") /\ Done
    /\ writer' = "spawned"
    /\ UNCHANGED <<levelVars, session, resting, generation, watchdogs, record, core, budget>>

\* SetLogLevel with the saved level, whether or not a capture runs.
Push ==
    /\ Step("push") /\ Done
    /\ level' = saved /\ disturbed' = (session # None)
    /\ UNCHANGED <<saved, config, captureVars, record, core, budget>>

Shutdown ==
    /\ Step("shutdown") /\ Done
    /\ core' = FALSE
    /\ UNCHANGED <<levelVars, captureVars, record, budget>>

Initialize ==
    /\ Step("initialize") /\ Done
    /\ core' = TRUE /\ config' = saved
    /\ UNCHANGED <<saved, level, disturbed, captureVars, record, budget>>

\* Mutant: a resumed capture has no watchdog.
ResumeUnwatched == <<"raise">>

ResumeSteps == <<"raise", "watch">>

\* resume_after_restart: a live session is left alone, a record past its window
\* is dropped, and any other is taken up again.
Resume ==
    /\ Step("resume")
    /\ IF session # None \/ record # "fresh"
          THEN /\ record' = IF session # None THEN record ELSE "none"
               /\ Done
               /\ UNCHANGED <<session, resting, generation>>
          ELSE /\ session' = Begun /\ generation' = generation + 1
               /\ resting' = "idle"
               /\ call' = ResumeSteps \o Tail(call)
               /\ UNCHANGED record
    /\ UNCHANGED <<levelVars, watchdogs, writer, core, budget>>

HostStep == Raise \/ Watch \/ Restore \/ Clear \/ Write \/ Push \/ Shutdown \/ Initialize \/ Resume

(***************************************************************************)
(* Time, the watchdogs, the writer, and the end of the process             *)
(***************************************************************************)

\* MAX_CAPTURE passes: for the session and its record alike.
TimePasses ==
    /\ \/ session # None /\ ~session.spent
       \/ session = None /\ record = "fresh" /\ ~core
    /\ session' = IF session = None THEN None ELSE [session EXCEPT !.spent = TRUE]
    /\ record' = IF record = "fresh" THEN "spent" ELSE record
    /\ UNCHANGED <<levelVars, resting, generation, watchdogs, writer, core, call, budget>>

Guards(w) == session # None /\ session.generation = w.generation

Become(w, at) == watchdogs' = (watchdogs \ {w}) \cup {[w EXCEPT !.at = at]}

\* A watchdog wakes: it leaves when its capture is over, and goes on to end it
\* when its time is up.
Wake(w) ==
    /\ w.at = "asleep"
    /\ \/ ~Guards(w) /\ watchdogs' = watchdogs \ {w}
       \/ Guards(w) /\ session.spent /\ Become(w, "due")
    /\ UNCHANGED <<levelVars, session, resting, generation, writer, record, core, call, budget>>

\* Whether expire ends the capture it finds: only its own.
Ends(w) == Guards(w)

\* expire, under the lock.
Expire(w) ==
    /\ w.at = "due"
    /\ IF Ends(w)
          THEN session' = None /\ resting' = "expired" /\ Become(w, "restore")
          ELSE watchdogs' = watchdogs \ {w} /\ UNCHANGED <<session, resting>>
    /\ UNCHANGED <<levelVars, generation, writer, record, core, call, budget>>

\* The rest of expire: without a core the level and the record stay.
ExpireRestores(w) ==
    /\ w.at = "restore"
    /\ IF core
          THEN /\ level' = Restored /\ disturbed' = (session # None \/ config # saved)
               /\ Become(w, "clear")
          ELSE /\ disturbed' = TRUE
               /\ watchdogs' = watchdogs \ {w}
               /\ UNCHANGED level
    /\ UNCHANGED <<saved, config, session, resting, generation, writer, record, core, call, budget>>

ExpireClears(w) ==
    /\ w.at = "clear"
    /\ record' = "none"
    /\ watchdogs' = watchdogs \ {w}
    /\ UNCHANGED <<levelVars, session, resting, generation, writer, core, call, budget>>

WatchdogStep == \E w \in watchdogs : Wake(w) \/ Expire(w) \/ ExpireRestores(w) \/ ExpireClears(w)

\* The status the writer leaves when it finds the core gone.
Abandoned == "idle"

\* The writer looks for a core before it builds.
WriterLooks ==
    /\ writer = "spawned"
    /\ IF core THEN writer' = "building" /\ UNCHANGED resting
               ELSE writer' = "none" /\ resting' = Abandoned
    /\ UNCHANGED <<levelVars, session, generation, watchdogs, record, core, call, budget>>

\* finish: the outcome is recorded whatever happened meanwhile.
WriterFinishes ==
    /\ writer = "building"
    /\ writer' = "none"
    /\ resting' \in {"done", "error"}
    /\ UNCHANGED <<levelVars, session, generation, watchdogs, record, core, call, budget>>

\* MusicBee starts, for the first time or after it was closed or killed.
Launch ==
    /\ Spend("starts")
    /\ session' = None /\ resting' = "idle" /\ generation' = 0
    /\ watchdogs' = {} /\ writer' = "none"
    /\ core' = FALSE /\ level' = Info /\ disturbed' = FALSE
    /\ call' = Boot
    /\ UNCHANGED <<saved, config, record>>

HostCall == Start \/ Stop \/ Cancel \/ ApplySettings

Next ==
    \/ HostCall \/ HostStep
    \/ TimePasses \/ WatchdogStep \/ WriterLooks \/ WriterFinishes
    \/ Launch

Spec == Init /\ [][Next]_vars

\* The host's thread finishes the call it makes; threads are scheduled; time passes.
Fairness ==
    /\ WF_vars(HostStep) /\ WF_vars(TimePasses)
    /\ WF_vars(WatchdogStep) /\ WF_vars(WriterLooks) /\ WF_vars(WriterFinishes)

FairSpec == Spec /\ Fairness

(***************************************************************************)
(* Properties                                                              *)
(***************************************************************************)

\* Nothing is under way: no call of the host, and no watchdog that ends a capture.
Quiet == Idle /\ \A w \in watchdogs : w.at = "asleep"

\* Between calls, when the core has the settings that are saved and nobody set
\* the level without regard to the capture or to them, it is at least debug while a capture
\* runs and the saved one otherwise (raise_level, restore_level).
LevelFollows ==
    Quiet /\ ~disturbed /\ config = saved =>
        level = IF session # None THEN Raised ELSE saved

\* Between calls a record on disk belongs to a capture that runs, so a restart
\* takes up no capture that was ended (clear_persisted).
RecordHasCapture == Quiet /\ record # "none" => session # None

\* The level and the record follow the capture, whichever of its ends it meets.
FollowsCapture == LevelFollows /\ RecordHasCapture

\* The auto-stop ends no capture before its time: a watchdog that outlived its
\* capture leaves the next one alone (expire).
OnlyDueExpire ==
    [][session # None /\ session' = None /\ resting' = "expired" => session.spent]_vars

\* A bundle being written is in the end written, failed or given up (finish).
BundleSettles == resting = "writing" ~> resting # "writing"

\* A capture always ends, across restarts too, and never by the auto-stop of an
\* earlier one: in the end neither a session nor a record of one is left, and its
\* bundle is settled (the auto-stop, spawn_watchdog in resume_after_restart).
CaptureEnds ==
    /\ [](session # None \/ record # "none" => <>(session = None /\ record = "none"))
    /\ OnlyDueExpire
    /\ BundleSettles

\* CAPTURE_CAPTURING: a capture is running; the log is at debug level.
CaptureIsAtDebug == Quiet /\ session # None => level >= Debug

\* ApplySettings: the log level is applied live, no restart needed.
LevelIsApplied == Quiet /\ session = None => level = saved
=============================================================================
