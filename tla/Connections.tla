----------------------------- MODULE Connections -----------------------------
(***************************************************************************)
(* The sockets of the command server: the accept loop, the connection      *)
(* task, the registry that bounds connections per address and per client,  *)
(* and the broadcaster's subscriber set.                                   *)
(*                                                                         *)
(* Every connection is a task of its own.  The registry never stops a task *)
(* itself: it leaves a permit the task finds when it next waits, and the   *)
(* task's slot is released only once its writer has drained.  A client may *)
(* send anything in any order, a legacy client may handshake again, and a  *)
(* task can be dropped in any state, by a panicking handler or by the      *)
(* runtime going away under it.                                            *)
(*                                                                         *)
(* Time is the age of each connection: the time since its last frame, or   *)
(* since it was opened while it has not handshaked.                        *)
(***************************************************************************)
EXTENDS Integers, FiniteSets

CONSTANTS Conns,         \* connections there can be at one time
          Ips,           \* addresses clients connect from
          Loopback,      \* those of them that are this machine
          ClientIds,     \* the client_ids handshakes carry
          MaxPerIp,      \* config.max_conns_per_ip
          MaxPerClient,  \* config.max_conns_per_client
          EvictAfter,    \* MIN_EVICT_IDLE_MS
          ReapAfter,     \* the idle windows of on_ping_tick
          None           \* no address, no client_id, no connection

ASSUME ConnectionsAssumption ==
    /\ IsFiniteSet(Conns) /\ None \notin Conns
    /\ Loopback \subseteq Ips /\ None \notin Ips
    /\ None \notin ClientIds
    /\ MaxPerIp \in Nat \ {0} /\ MaxPerClient \in Nat \ {0}
    /\ EvictAfter \in Nat \ {0} /\ ReapAfter \in Nat /\ EvictAfter <= ReapAfter

VARIABLES task,        \* the connection's task
          ip,          \* its peer's address
          session,     \* what its handshake negotiated
          age,         \* how long it has been silent, up to ReapAfter
          writer,      \* whether its writer task can still write
          watched,     \* a permissions watch holds a sender of its writer
          permit,      \* a close signal its task has not taken yet (Notify)
          slots,       \* Inner.by_ip
          role,        \* Inner.conns: the role a connection registered with
          groups,      \* Inner.by_client
          subscribed   \* the broadcasters' clients

taskVars == <<task, ip, session, age, writer, watched>>
registryVars == <<permit, slots, role, groups>>
vars == <<taskVars, registryVars, subscribed>>

\* A connection is registered exactly when its session has a protocol.
Session == [proto : {"none", "legacy", "v6"}, client : ClientIds \cup {None}, main : BOOLEAN]
NoSession == [proto |-> "none", client |-> None, main |-> FALSE]
NoGroup == [conns |-> {}, main |-> None]

TypeOK ==
    /\ task \in [Conns -> {"none", "open", "draining"}]
    /\ ip \in [Conns -> Ips \cup {None}]
    /\ session \in [Conns -> Session]
    /\ age \in [Conns -> 0 .. ReapAfter]
    /\ writer \in [Conns -> BOOLEAN]
    /\ watched \subseteq Conns
    /\ permit \in [Conns -> BOOLEAN]
    /\ slots \in [Ips -> Nat]
    /\ role \in [Conns -> {"none", "subscriber", "auxiliary"}]
    /\ groups \in [ClientIds -> [conns : SUBSET Conns, main : Conns \cup {None}]]
    /\ subscribed \subseteq Conns

Init ==
    /\ task = [c \in Conns |-> "none"]
    /\ ip = [c \in Conns |-> None]
    /\ session = [c \in Conns |-> NoSession]
    /\ age = [c \in Conns |-> 0]
    /\ writer = [c \in Conns |-> TRUE]
    /\ watched = {}
    /\ permit = [c \in Conns |-> FALSE]
    /\ slots = [i \in Ips |-> 0]
    /\ role = [c \in Conns |-> "none"]
    /\ groups = [k \in ClientIds |-> NoGroup]
    /\ subscribed = {}

-----------------------------------------------------------------------------
(* Accepting. *)

\* An id is used once: a connection still named anywhere keeps its own.
Fresh(c) ==
    /\ task[c] = "none" /\ role[c] = "none" /\ c \notin subscribed
    /\ \A k \in ClientIds : c \notin groups[k].conns

\* Mutant: subscribers are evicted too.
EvictableAnyRole(i) == {c \in Conns : ip[c] = i /\ role[c] # "none" /\ age[c] >= EvictAfter}

\* The connections from i the cap may close, and which of them it picks: the
\* one silent longest.
Evictable(i) ==
    {c \in Conns : ip[c] = i /\ role[c] = "auxiliary" /\ age[c] >= EvictAfter}
Victim(c, i) == c \in Evictable(i) /\ \A d \in Evictable(i) : age[d] <= age[c]

Open(c, i) ==
    /\ task' = [task EXCEPT ![c] = "open"]
    /\ ip' = [ip EXCEPT ![c] = i]
    /\ session' = [session EXCEPT ![c] = NoSession]
    /\ age' = [age EXCEPT ![c] = 0]
    /\ writer' = [writer EXCEPT ![c] = TRUE]
    /\ UNCHANGED <<watched, role, groups, subscribed>>

\* admit_ip finds a free slot, or the peer is this machine and takes none.
Accept(i) ==
    \E c \in Conns :
        /\ Fresh(c)
        /\ i \in Loopback \/ slots[i] < MaxPerIp
        /\ slots' = IF i \in Loopback THEN slots ELSE [slots EXCEPT ![i] = @ + 1]
        /\ permit' = [permit EXCEPT ![c] = FALSE]
        /\ Open(c, i)

\* admit_ip at the cap: the victim is told to close and the newcomer admitted.
\* With no victim the peer is turned away and nothing changes.
AcceptByEvicting(i) ==
    \E c, victim \in Conns :
        /\ Fresh(c)
        /\ i \notin Loopback /\ slots[i] >= MaxPerIp
        /\ Victim(victim, i)
        /\ slots' = [slots EXCEPT ![i] = @ + 1]
        /\ permit' = [permit EXCEPT ![c] = FALSE, ![victim] = TRUE]
        /\ Open(c, i)

-----------------------------------------------------------------------------
(* Closing. *)

\* Mutant: a close clears the group's main, whoever it is now.
LeavesWithoutMain(g, c) == [conns |-> g.conns \ {c}, main |-> None]

\* unregister: the registry forgets c under the client_id its session has now.
Leaves(g, c) == [conns |-> g.conns \ {c}, main |-> IF g.main = c THEN None ELSE g.main]
Unregister(c) ==
    /\ role' = [role EXCEPT ![c] = "none"]
    /\ groups' = [k \in ClientIds |->
                    IF k = session[c].client THEN Leaves(groups[k], c) ELSE groups[k]]

\* The task leaves its loop, unregisters everywhere and waits for its writer.
Close(c) ==
    /\ task' = [task EXCEPT ![c] = "draining"]
    /\ Unregister(c)
    /\ subscribed' = subscribed \ {c}
    /\ session' = [session EXCEPT ![c] = NoSession]
    /\ age' = [age EXCEPT ![c] = 0]
    /\ permit' = [permit EXCEPT ![c] = FALSE]
    /\ UNCHANGED <<ip, writer, watched, slots>>

\* release_ip: a loopback address took no slot.
ReleaseSlot(c) ==
    slots' = IF ip[c] \in Loopback \/ slots[ip[c]] = 0 THEN slots
             ELSE [slots EXCEPT ![ip[c]] = @ - 1]

\* The peer closed, asked to, broke the protocol, or could not be answered.
Leave(c) ==
    /\ task[c] = "open"
    /\ Close(c)

\* Mutant: only a superseded main looks for its permit.
TakePermitOfMain(c) ==
    /\ task[c] = "open" /\ permit[c] /\ role[c] = "subscriber"
    /\ Close(c)

\* The task finds the permit an eviction or a newer main left.
TakePermit(c) ==
    /\ task[c] = "open" /\ permit[c]
    /\ Close(c)

\* on_ping_tick's idle policy.  Only a legacy subscriber is sent a ping, and
\* one that cannot be sent retires it.
\* Mutant: the un-handshaked window never closes.
AbandonedOnceHandshaked(c) ==
    \/ session[c].proto = "v6" /\ age[c] >= ReapAfter
    \/ session[c].proto # "none" /\ ~session[c].main /\ age[c] >= ReapAfter
Abandoned(c) ==
    LET s == session[c] IN
    \/ s.proto = "none" /\ age[c] >= ReapAfter
    \/ s.proto = "v6" /\ age[c] >= ReapAfter
    \/ s.proto # "none" /\ ~s.main /\ age[c] >= ReapAfter
Retire(c) ==
    /\ task[c] = "open"
    /\ \/ Abandoned(c)
       \/ session[c].proto = "legacy" /\ session[c].main /\ ~writer[c]
    /\ Close(c)

\* The writer ends once it has drained and no sender is left, the one of a
\* permissions watch included; the task ends with it and its slot guard drops.
Release(c) ==
    /\ task[c] = "draining" /\ c \notin watched
    /\ task' = [task EXCEPT ![c] = "none"]
    /\ ip' = [ip EXCEPT ![c] = None]
    /\ writer' = [writer EXCEPT ![c] = TRUE]
    /\ ReleaseSlot(c)
    /\ UNCHANGED <<session, age, watched, permit, role, groups, subscribed>>

\* Mutant: the slot is released by the task, not by a guard.
DieKeepingSlot(c) ==
    /\ task[c] # "none"
    /\ task' = [task EXCEPT ![c] = "none"]
    /\ session' = [session EXCEPT ![c] = NoSession]
    /\ watched' = watched \ {c}
    /\ UNCHANGED <<ip, age, writer, permit, slots, role, groups, subscribed>>

\* The task is dropped where it stands: the slot guard runs, nothing else does.
\* What its watch and its writer still do concerns no other connection.
Die(c) ==
    /\ task[c] # "none"
    /\ task' = [task EXCEPT ![c] = "none"]
    /\ session' = [session EXCEPT ![c] = NoSession]
    /\ watched' = watched \ {c}
    /\ ReleaseSlot(c)
    /\ UNCHANGED <<ip, age, writer, permit, role, groups, subscribed>>

-----------------------------------------------------------------------------
(* Frames. *)

Admits(c, k) ==
    k = None \/ ip[c] \in Loopback \/ Cardinality(groups[k].conns) < MaxPerClient

\* What a client's group becomes with c registered.
Joins(g, c, main) == [conns |-> g.conns \cup {c}, main |-> IF main THEN c ELSE g.main]

\* register and the broadcaster's register: c joins its client's group, and a
\* main closes the main it replaces.
Register(c, k, main) ==
    LET replaced == IF k # None /\ main THEN groups[k].main ELSE None IN
    /\ role' = [role EXCEPT ![c] = IF main THEN "subscriber" ELSE "auxiliary"]
    /\ groups' = IF k = None THEN groups ELSE [groups EXCEPT ![k] = Joins(@, c, main)]
    /\ permit' = [d \in Conns |-> permit[d] \/ (d = replaced /\ d # c /\ role[d] # "none")]
    /\ subscribed' = IF main THEN subscribed \cup {c} ELSE subscribed

\* A first handshake registers, or is refused by the client's cap and closes.
\* A V6 main is watched for permission changes while its writer can write.
FirstHandshake(c, proto, k, main) ==
    /\ task[c] = "open" /\ session[c].proto = "none"
    /\ IF Admits(c, k)
       THEN /\ Register(c, k, main)
            /\ session' = [session EXCEPT ![c] = [proto |-> proto, client |-> k, main |-> main]]
            /\ age' = [age EXCEPT ![c] = 0]
            /\ watched' = IF proto = "v6" /\ main /\ writer[c] THEN watched \cup {c} ELSE watched
            /\ UNCHANGED <<task, ip, writer, slots>>
       ELSE Close(c)

\* A V6 handshake always carries a client_id.
Handshake(c) ==
    \/ \E k \in ClientIds \cup {None}, main \in BOOLEAN : FirstHandshake(c, "legacy", k, main)
    \/ \E k \in ClientIds, main \in BOOLEAN : FirstHandshake(c, "v6", k, main)

\* A legacy session that handshakes again takes the new fields; the connection
\* is registered already and stays as it was registered.
Rehandshake(c) ==
    /\ task[c] = "open" /\ session[c].proto = "legacy"
    /\ \E k \in ClientIds \cup {None}, main \in BOOLEAN :
          session' = [session EXCEPT ![c] = [proto |-> "legacy", client |-> k, main |-> main]]
    /\ age' = [age EXCEPT ![c] = 0]
    /\ UNCHANGED <<task, ip, writer, watched, subscribed>>
    /\ UNCHANGED registryVars

\* Any other frame; before the handshake the age counts on from the open.
Traffic(c) ==
    /\ task[c] = "open" /\ session[c].proto # "none"
    /\ age' = [age EXCEPT ![c] = 0]
    /\ UNCHANGED <<task, ip, session, writer, watched, subscribed>>
    /\ UNCHANGED registryVars

-----------------------------------------------------------------------------
(* Time, the network and broadcasts. *)

\* A frame cannot be written: the writer ends, its channel closes, and with it
\* the watch.
WriterFails(c) ==
    /\ writer[c]
    /\ task[c] # "none" \/ c \in subscribed
    /\ writer' = [writer EXCEPT ![c] = FALSE]
    /\ watched' = watched \ {c}
    /\ UNCHANGED <<task, ip, session, age, subscribed>>
    /\ UNCHANGED registryVars

\* A broadcast prunes the clients whose channel is closed.
Broadcast ==
    /\ subscribed' = {c \in subscribed : writer[c]}
    /\ subscribed' # subscribed
    /\ UNCHANGED taskVars
    /\ UNCHANGED registryVars

Ages(c) == task[c] = "open" \/ role[c] # "none"
Tick ==
    /\ \E c \in Conns : Ages(c) /\ age[c] < ReapAfter
    /\ age' = [c \in Conns |-> IF Ages(c) /\ age[c] < ReapAfter THEN age[c] + 1 ELSE age[c]]
    /\ UNCHANGED <<task, ip, session, writer, watched, subscribed>>
    /\ UNCHANGED registryVars

Next ==
    \/ \E i \in Ips : Accept(i) \/ AcceptByEvicting(i)
    \/ \E c \in Conns : Handshake(c) \/ Rehandshake(c) \/ Traffic(c)
    \/ \E c \in Conns : Leave(c) \/ TakePermit(c) \/ Retire(c) \/ Release(c) \/ Die(c)
    \/ \E c \in Conns : WriterFails(c)
    \/ Broadcast
    \/ Tick

\* A task that waits takes its permit and its ping ticks, and a writer that
\* nothing holds drains: its peer reads, or the keepalive fails the write.
Fairness ==
    \A c \in Conns :
        WF_vars(TakePermit(c)) /\ WF_vars(Retire(c)) /\ WF_vars(Release(c))

Spec == Init /\ [][Next]_vars
FairSpec == Spec /\ Fairness

-----------------------------------------------------------------------------
(* What must hold whatever clients and tasks do. *)

\* A slot is held exactly as long as a task from its address lives, on every
\* way a task can end (registry.rs admit_ip and release_ip, IpSlotGuard).
SlotsCounted ==
    \A i \in Ips :
        slots[i] = IF i \in Loopback THEN 0
                   ELSE Cardinality({c \in Conns : task[c] # "none" /\ ip[c] = i})

\* A client has one main: every other subscriber of its group that is still
\* open has been told to close, however registrations, late closes and
\* repeated handshakes were ordered (registry.rs register and unregister).
OneMain ==
    \A k \in ClientIds : \A c \in groups[k].conns :
        (task[c] = "open" /\ role[c] = "subscriber" /\ groups[k].main # c) => permit[c]

\* No push is lost: a connection that registered as a subscriber is in the
\* broadcast set until it closes or its writer has failed, and nothing that
\* did not is (connection.rs register_and_subscribe, Broadcaster::broadcast).
MainsSubscribed ==
    /\ \A c \in Conns : (task[c] = "open" /\ role[c] = "subscriber" /\ writer[c]) => c \in subscribed
    /\ \A c \in subscribed : role[c] = "subscriber"

\* The client's one main is the one that is pushed to.
MainsServed == OneMain /\ MainsSubscribed

\* A subscriber is only ever told to close by a newer main of its own client,
\* never to make room (registry.rs, Role::Subscriber: never evicted).
OnlyNewerMainCloses ==
    [][\A c \in Conns :
          (role[c] = "subscriber" /\ ~permit[c] /\ permit'[c]) =>
              \E k \in ClientIds : /\ groups[k].main = c
                                   /\ groups'[k].main \in subscribed' \ {c}]_vars

\* At the cap a newcomer is one over it only until the evicted connection's
\* task finishes (registry.rs admit_ip).
OneOverTheCap == \A i \in Ips : slots[i] <= MaxPerIp + 1

\* A connection that has left its loop ends and gives its slot back: dropping
\* the last sender lets the writer drain and exit (connection.rs run, and
\* admit_ip: a slot frees when its task finishes).
ClosedConnectionEnds == \A c \in Conns : task[c] = "draining" ~> task[c] = "none"

\* A connection that has been told to close leaves its loop: the permit waits
\* for a task that is busy (registry.rs register, notify_one).
ToldToCloseCloses ==
    \A c \in Conns : (task[c] = "open" /\ permit[c]) ~> task[c] # "open"

\* No socket is served for ever while it is silent, but a legacy subscriber's
\* (connection.rs run, the idle policy).
SilentSocketsEnd ==
    \A c \in Conns :
        []<>(\/ task[c] # "open" \/ age[c] < ReapAfter
             \/ session[c].proto = "legacy" /\ session[c].main)

\* No connection is kept for ever that was told to close or has gone silent: both
\* leave the loop, whoever is told and however often a newcomer comes.
UnwantedLeave == ToldToCloseCloses /\ SilentSocketsEnd
=============================================================================
