------------------------------ MODULE Lifecycle ------------------------------
(***************************************************************************)
(* Init, start, stop and shutdown of the core, and what outlives them.     *)
(*                                                                         *)
(* The host's calls hold the STATE lock to their end, so there is one at a *)
(* time.  A start spawns the network thread and waits for it to bind; a    *)
(* stop wakes it and joins it.  The wake-up is notify_waiters, which is    *)
(* heard only by who already waits.  The thread's runtime ends once the    *)
(* blocking workers it runs have ended.  Rebuilds, library switches and    *)
(* update jobs run on plain threads that nobody joins: each keeps the core *)
(* it was given, and with it the one store file.                           *)
(***************************************************************************)
EXTENDS Naturals

CONSTANTS Workers,   \* blocking workers of the network runtime
          Threads,   \* plain threads: rebuilds, switches, update jobs
          MaxCores   \* bound on the cores the host makes

ASSUME LifecycleAssumption == MaxCores \in Nat

Cores == 1 .. MaxCores

VARIABLES runtime,    \* STATE: the core; 0 for None
          held,       \* STATE: whether the runtime has a NetHandle
          call,       \* the host call that holds the STATE lock
          net,        \* the network thread and the core it was given
          mdns,       \* whether its mDNS advertisement has yet to withdraw
          worker,     \* the blocking workers that run
          thread,     \* the core each plain thread keeps; 0 for no thread
          stopping,   \* Core::stopping, for each core
          cores,      \* the cores made so far
          opened,     \* the file each core's store opened; 0 for none
          file,       \* the file on disk: it is the file-th that was created
          announced,  \* history: the host said it is about to tear down
          unheard     \* history: a stop was signalled to nobody

stateVars == <<runtime, held, call>>
netVars == <<net, mdns, worker>>
storeVars == <<cores, opened, file>>
history == <<announced, unheard>>
vars == <<stateVars, netVars, thread, stopping, storeVars, history>>

NoCall == [kind |-> "none", step |-> "none", core |-> 0]
NoNet == [phase |-> "none", core |-> 0]

TypeOK ==
    /\ runtime \in 0 .. cores /\ held \in BOOLEAN /\ cores \in 0 .. MaxCores
    /\ call \in [kind : {"none", "start", "stop", "shutdown"},
                 step : {"none", "bind", "signal", "join"}, core : 0 .. cores]
    /\ net \in [phase : {"none", "binding", "spawning", "serving", "leaving", "draining"},
                core : 0 .. cores]
    /\ mdns \in BOOLEAN
    /\ worker \subseteq Workers
    /\ thread \in [Threads -> 0 .. cores]
    /\ stopping \subseteq 1 .. cores
    /\ opened \in [Cores -> 0 .. file] /\ file \in 1 .. MaxCores
    /\ announced \in BOOLEAN /\ unheard \in BOOLEAN
    /\ (net.phase = "none" => worker = {} /\ ~mdns)

\* A store left by an earlier run of the host, and no core yet.
Init ==
    /\ runtime = 0 /\ held = FALSE /\ call = NoCall
    /\ net = NoNet /\ mdns = FALSE /\ worker = {}
    /\ thread = [t \in Threads |-> 0] /\ stopping = {}
    /\ cores = 0 /\ opened = [c \in Cores |-> 0] /\ file = 1
    /\ announced = FALSE /\ unheard = FALSE

-----------------------------------------------------------------------------
(* The host's calls. *)

\* Who keeps a core, and so its store, from being dropped.
Kept(c) == \/ runtime = c \/ call.core = c \/ net.core = c
           \/ \E t \in Threads : thread[t] = c
InUse == \E c \in 1 .. cores : Kept(c) /\ opened[c] = file

\* initialize, and Db::open: a file that does not open, for whatever reason, is
\* removed and created again; where it cannot be removed, persistence is off.
Initialize ==
    /\ call = NoCall /\ runtime = 0 /\ cores < MaxCores
    /\ cores' = cores + 1
    /\ runtime' = cores'
    /\ \/ ~InUse /\ opened' = [opened EXCEPT ![cores'] = file] /\ file' = file
       \/ InUse /\ file' = file + 1 /\ opened' = [opened EXCEPT ![cores'] = file']
       \/ InUse /\ UNCHANGED <<opened, file>>
    /\ UNCHANGED <<held, call, netVars, thread, stopping, history>>

\* begin_stopping: notice of a teardown, which stops nothing by itself.
BeginStopping ==
    /\ call = NoCall /\ runtime # 0
    /\ stopping' = stopping \cup {runtime}
    /\ announced' = TRUE
    /\ UNCHANGED <<stateVars, netVars, thread, storeVars, unheard>>

\* start_networking: the thread is spawned, and waited for until it has bound.
Start ==
    /\ call = NoCall /\ runtime # 0 /\ ~held
    /\ stopping' = stopping \ {runtime}
    /\ call' = [kind |-> "start", step |-> "bind", core |-> runtime]
    /\ net' = [phase |-> "binding", core |-> runtime]
    /\ announced' = FALSE
    /\ UNCHANGED <<runtime, held, mdns, worker, thread, storeVars, unheard>>

Started ==
    /\ call.kind = "start" /\ net.phase # "binding"
    /\ held' = (net.phase # "none")
    /\ call' = NoCall
    /\ UNCHANGED <<runtime, netVars, thread, stopping, storeVars, history>>

\* stop_networking: the handle is taken and the work told to stop before the join.
Stop ==
    /\ call = NoCall /\ runtime # 0 /\ held
    /\ held' = FALSE
    /\ stopping' = stopping \cup {runtime}
    /\ call' = [kind |-> "stop", step |-> "signal", core |-> runtime]
    /\ UNCHANGED <<runtime, netVars, thread, storeVars, history>>

\* shutdown: the core leaves STATE first, and is dropped when the call returns.
Shutdown ==
    /\ call = NoCall /\ runtime # 0
    /\ runtime' = 0 /\ held' = FALSE
    /\ stopping' = stopping \cup {runtime}
    /\ call' = IF held THEN [kind |-> "shutdown", step |-> "signal", core |-> runtime] ELSE NoCall
    /\ UNCHANGED <<netVars, thread, storeVars, history>>

\* NetHandle::stop: notify_waiters wakes the thread if its select has begun.
Signal ==
    /\ call.step = "signal"
    /\ call' = [call EXCEPT !.step = "join"]
    /\ IF net.phase = "serving"
       THEN net' = [net EXCEPT !.phase = "leaving"] /\ UNCHANGED unheard
       ELSE unheard' = TRUE /\ UNCHANGED net
    /\ UNCHANGED <<runtime, held, mdns, worker, thread, stopping, storeVars, announced>>

\* Mutant: the handle is dropped without a join.
JoinedAtOnce ==
    /\ call.step = "join"
    /\ call' = NoCall
    /\ UNCHANGED <<runtime, held, netVars, thread, stopping, storeVars, history>>

Joined ==
    /\ call.step = "join" /\ net.phase = "none"
    /\ call' = NoCall
    /\ UNCHANGED <<runtime, held, netVars, thread, stopping, storeVars, history>>

-----------------------------------------------------------------------------
(* The network thread (run_thread). *)

\* The host is told before the tasks are spawned and the select begins.
Bind ==
    /\ net.phase = "binding"
    /\ \/ net' = [net EXCEPT !.phase = "spawning"]
       \/ net' = NoNet
    /\ UNCHANGED <<stateVars, mdns, worker, thread, stopping, storeVars, history>>

Serve ==
    /\ net.phase = "spawning"
    /\ net' = [net EXCEPT !.phase = "serving"]
    /\ mdns' \in BOOLEAN
    /\ UNCHANGED <<stateVars, worker, thread, stopping, storeVars, history>>

\* Passes, bursts and requests that block run on workers while the runtime lives.
WorkerStarts(w) ==
    /\ net.phase \in {"spawning", "serving", "leaving"} /\ w \notin worker
    /\ worker' = worker \cup {w}
    /\ UNCHANGED <<stateVars, net, mdns, thread, stopping, storeVars, history>>

WorkerEnds(w) ==
    /\ w \in worker
    /\ worker' = worker \ {w}
    /\ UNCHANGED <<stateVars, net, mdns, thread, stopping, storeVars, history>>

\* The advertisement withdraws by itself, unless its daemon is wedged.
MdnsWithdraws ==
    /\ net.phase = "leaving" /\ mdns
    /\ mdns' = FALSE
    /\ UNCHANGED <<stateVars, net, worker, thread, stopping, storeVars, history>>

\* Mutant: the withdrawal is waited for without a bound.
WithdrawFully ==
    /\ net.phase = "leaving" /\ ~mdns
    /\ net' = [net EXCEPT !.phase = "draining"]
    /\ UNCHANGED <<stateVars, mdns, worker, thread, stopping, storeVars, history>>

\* withdraw_mdns: it is waited for, but not for ever; then the tasks are aborted.
Withdraw ==
    /\ net.phase = "leaving"
    /\ net' = [net EXCEPT !.phase = "draining"]
    /\ mdns' = FALSE
    /\ UNCHANGED <<stateVars, worker, thread, stopping, storeVars, history>>

\* The runtime is dropped: tasks end where they wait, workers are waited for.
Drain ==
    /\ net.phase = "draining" /\ worker = {}
    /\ net' = NoNet
    /\ UNCHANGED <<stateVars, mdns, worker, thread, stopping, storeVars, history>>

-----------------------------------------------------------------------------
(* Plain threads: rebuild, a library switch, an update job. *)

\* A call or a notification of the host spawns one, under the STATE lock.
Spawn(t) ==
    /\ call = NoCall /\ runtime # 0 /\ thread[t] = 0
    /\ thread' = [thread EXCEPT ![t] = runtime]
    /\ UNCHANGED <<stateVars, netVars, stopping, storeVars, history>>

\* spawn_startup_update_check: begun by the network runtime, under no lock.
StartupCheck(t) ==
    /\ net.phase \in {"serving", "leaving"} /\ thread[t] = 0
    /\ thread' = [thread EXCEPT ![t] = net.core]
    /\ UNCHANGED <<stateVars, netVars, stopping, storeVars, history>>

Ends(t) ==
    /\ thread[t] # 0
    /\ thread' = [thread EXCEPT ![t] = 0]
    /\ UNCHANGED <<stateVars, netVars, stopping, storeVars, history>>

-----------------------------------------------------------------------------
Host == Initialize \/ BeginStopping \/ Start \/ Started \/ Stop \/ Shutdown \/ Signal \/ Joined
NetThread == Bind \/ Serve \/ Withdraw \/ Drain

Next ==
    \/ Host \/ NetThread \/ MdnsWithdraws
    \/ \E w \in Workers : WorkerStarts(w) \/ WorkerEnds(w)
    \/ \E t \in Threads : Spawn(t) \/ StartupCheck(t) \/ Ends(t)

\* A call goes on, the network thread is scheduled, and a worker's host call
\* answers.  Nothing is owed by the mDNS daemon.
Fairness ==
    /\ WF_vars(Started) /\ WF_vars(Signal) /\ WF_vars(Joined) /\ WF_vars(NetThread)
    /\ \A w \in Workers : WF_vars(WorkerEnds(w))

Spec == Init /\ [][Next]_vars
FairSpec == Spec /\ Fairness

-----------------------------------------------------------------------------
(* Properties. *)

\* When no call is in hand, a network thread and its workers live only while the
\* runtime holds their handle, for the core it holds: a stop that has returned
\* leaves none of them to call the host (NetHandle::stop, run_thread).
NoneLeft == call = NoCall => IF held THEN net.phase # "none" /\ net.core = runtime ELSE net = NoNet

\* The long work is told to stop before the join that waits for it, and a core
\* that serves again is not still being told (begin_stopping, clear_stopping).
ToldToStop ==
    /\ call.step = "join" => call.core \in stopping
    /\ (net.phase = "serving" /\ call.step \notin {"signal", "join"} /\ ~announced) =>
            net.core \notin stopping

\* The network thread and the work it started end with the stop that waits for them.
NothingOutlivesStop == NoneLeft /\ ToldToStop

\* Every call gives the lock back, a wedged mDNS daemon or a busy worker
\* notwithstanding, but for a stop nobody heard (NetHandle::stop, withdraw_mdns).
CallsReturn == call # NoCall ~> (call = NoCall \/ unheard)

\* "Signals the server thread to stop and wait for it to finish"
\* (server/mod.rs, NetHandle::stop): it finishes.
StopFinishes == call.step = "join" ~> call = NoCall

\* "A corrupt file is deleted and recreated once" (store/mod.rs, Db::open): a
\* file that is not corrupt is not.
OnlyCorruptIsRecreated == [][file' = file]_vars
=============================================================================
