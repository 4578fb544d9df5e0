----------------------------- MODULE MCRuntime -----------------------------
(* What must end or come round: the host's calls on the core, the            *)
(* connections with their tasks scheduled, the capture session, and the web  *)
(* app's connection.  They share no state here: each is run by itself, from  *)
(* initial states of its own.                                                *)
EXTENDS Lifecycle, Integers, Sequences

CONSTANTS Conns, Remote, Ips, Loopback, ClientIds, MaxPerIp, MaxPerClient, EvictAfter, ReapAfter,
          MaxCaptures, MaxApplies, MaxStarts,
          Calls, MaxAttempts, MaxChanges, None

VARIABLES side,
          task, ip, session, age, writer, watched, permit, slots, role, groups, subscribed,
          captured, resting, record, saved, config, level, core, generation, watchdogs,
          bundler, steps, budget, disturbed,
          up, admits, taken, opens, changes, socket, outbox, inbox, handshaked, attempt,
          timer, stream, goodbye, calls, left, page, binds, asking, shown, misled

\* MAX_ATTEMPTS is a number, and no call has the name of another frame.
ASSUME ClientAssumption ==
    /\ MaxAttempts \in Nat
    /\ Calls \cap {"handshake", "welcome", "refused", "shutdown"} = {}

\* No session is not a session.
ASSUME CaptureAssumption == None \notin [generation : Nat, spent : BOOLEAN]

connVars == <<task, ip, session, age, writer, watched, permit, slots, role, groups, subscribed>>
captureVars == <<captured, resting, record, saved, config, level, core, generation,
                 watchdogs, bundler, steps, budget, disturbed>>
webVars == <<up, admits, taken, opens, changes, socket, outbox, inbox, handshaked, attempt,
             timer, stream, goodbye, calls, left, page, binds, asking, shown, misled>>

Served == INSTANCE Connections
Diagnosed == INSTANCE Capture WITH session <- captured, writer <- bundler, call <- steps
Browsed == INSTANCE WebClient

MCInit ==
    /\ side \in {"core", "connections", "capture", "browser"}
    /\ Init /\ Served!Init /\ Diagnosed!Init /\ Browsed!Init
    /\ side # "browser" => ~admits /\ ~taken /\ ~opens

MCNext ==
    /\ UNCHANGED side
    /\ \/ side = "core" /\ Next
          /\ UNCHANGED <<connVars, captureVars, webVars>>
       \/ side = "connections" /\ Served!Next
          /\ (\A c \in Remote : ip'[c] \notin Loopback)
          /\ UNCHANGED <<vars, captureVars, webVars>>
       \/ side = "capture" /\ Diagnosed!Next
          /\ UNCHANGED <<vars, connVars, webVars>>
       \/ side = "browser" /\ Browsed!Next
          /\ UNCHANGED <<vars, connVars, captureVars>>

\* The three that are not run stay in an initial state, where nothing is fair.
MCSpec ==
    /\ MCInit /\ [][MCNext]_<<side, vars, connVars, captureVars, webVars>>
    /\ Fairness /\ Served!Fairness /\ Diagnosed!Fairness
    /\ Browsed!Fairness

\* The properties of the modules that are instantiated, by name.
UnwantedLeave == Served!UnwantedLeave
FollowsCapture == Diagnosed!FollowsCapture
CaptureEnds == Diagnosed!CaptureEnds
LevelIsApplied == Diagnosed!LevelIsApplied
OneRoad == Browsed!OneRoad
ShownIsTried == Browsed!ShownIsTried
ComesBack == Browsed!ComesBack
CallsSettleUnlessLeft == Browsed!CallsSettleUnlessLeft
=============================================================================
