--------------------------- MODULE ConnectionsProofs ---------------------------
(***************************************************************************)
(* Proofs about the sockets of the command server, for any number of       *)
(* connections, addresses, clients and any caps.                           *)
(*                                                                         *)
(* The types and what a task's address is make the slots count             *)
(* (SlotsCorrect).  That a connection registers once, with its first       *)
(* handshake (Unregistered), makes one main per client and keeps the       *)
(* broadcast set with the mains (MainsCorrect).                            *)
(***************************************************************************)
EXTENDS Connections, FiniteSetTheorems, TLAPS

\* A task has the address it was accepted from for as long as it lives.
Placed == \A c \in Conns : task[c] # "none" => ip[c] \in Ips

\* The tasks that hold a slot of address i, or would if i were counted.
Living(i) == {c \in Conns : task[c] # "none" /\ ip[c] = i}

\* A connection that has not handshaked is known to nobody but its task.
Unregistered ==
    \A c \in Conns :
        (task[c] = "open" /\ session[c].proto = "none") =>
            /\ role[c] = "none" /\ c \notin subscribed
            /\ \A k \in ClientIds : c \notin groups[k].conns

\* What the slots need, and what the mains need.
SlotInv == TypeOK /\ Placed /\ SlotsCounted
IInv == TypeOK /\ Unregistered /\ OneMain /\ MainsSubscribed

-----------------------------------------------------------------------------
(* Types. *)

\* No socket is open yet.
LEMMA InitType == Init => TypeOK /\ Placed
BY ConnectionsAssumption DEF Init, TypeOK, Placed, Session, NoSession, NoGroup

\* A connection without a session has a session of the type.
LEMMA NoSessionType == NoSession \in Session
BY DEF Session, NoSession

\* Accepting a connection keeps the types.
LEMMA TypeAccept ==
    ASSUME TypeOK, Placed, NEW i \in Ips, Accept(i) \/ AcceptByEvicting(i)
    PROVE  TypeOK' /\ Placed'
<1>1. PICK c \in Conns :
          /\ Open(c, i)
          /\ slots' = slots \/ slots' = [slots EXCEPT ![i] = @ + 1]
          /\ \/ permit' = [permit EXCEPT ![c] = FALSE]
             \/ \E victim \in Conns : permit' = [permit EXCEPT ![c] = FALSE, ![victim] = TRUE]
  BY DEF Accept, AcceptByEvicting
<1>2. slots' \in [Ips -> Nat] /\ permit' \in [Conns -> BOOLEAN]
  <2>1. slots \in [Ips -> Nat] /\ slots[i] + 1 \in Nat /\ permit \in [Conns -> BOOLEAN]
    BY DEF TypeOK
  <2>2. slots' \in [Ips -> Nat]
    BY <1>1, <2>1
  <2>3. permit' \in [Conns -> BOOLEAN]
    BY <1>1, <2>1, Zenon
  <2>4. QED
    BY <2>2, <2>3
<1>3. age' \in [Conns -> 0 .. ReapAfter]
  BY <1>1, ConnectionsAssumption DEF Open, TypeOK
<1>4. session' \in [Conns -> Session]
  BY <1>1, NoSessionType DEF Open, TypeOK
<1>5. /\ task' = [task EXCEPT ![c] = "open"] /\ ip' = [ip EXCEPT ![c] = i]
      /\ writer' = [writer EXCEPT ![c] = TRUE]
      /\ UNCHANGED <<watched, role, groups, subscribed>>
  BY <1>1 DEF Open
<1>6. QED
  BY <1>2, <1>3, <1>4, <1>5 DEF TypeOK, Placed

\* The ways a task leaves its loop.
LEMMA TypeClose ==
    ASSUME TypeOK, Placed, NEW c \in Conns, task[c] = "open", Close(c)
    PROVE  TypeOK' /\ Placed'
<1>1. session' \in [Conns -> Session]
  BY NoSessionType DEF Close, TypeOK
<1>2. /\ groups' \in [ClientIds -> [conns : SUBSET Conns, main : Conns \cup {None}]]
      /\ role' \in [Conns -> {"none", "subscriber", "auxiliary"}]
  BY DEF TypeOK, Close, Unregister, Leaves
<1>3. age' \in [Conns -> 0 .. ReapAfter]
  BY ConnectionsAssumption DEF Close, TypeOK
<1>4. /\ task' = [task EXCEPT ![c] = "draining"]
      /\ permit' = [permit EXCEPT ![c] = FALSE] /\ subscribed' = subscribed \ {c}
      /\ UNCHANGED <<ip, writer, watched, slots>>
  BY DEF Close
<1>5. QED
  BY <1>1, <1>2, <1>3, <1>4 DEF TypeOK, Placed

\* A task that ends gives back the slot of the address it was accepted from.
LEMMA TypeEnd ==
    ASSUME TypeOK, Placed, NEW c \in Conns, Release(c) \/ Die(c)
    PROVE  TypeOK' /\ Placed'
<1>1. task[c] # "none" /\ ip[c] \in Ips
  BY DEF Release, Die, Placed
<1>2. slots' \in [Ips -> Nat]
  <2>1. ReleaseSlot(c)
    BY DEF Release, Die
  <2>2. slots[ip[c]] \in Nat /\ slots \in [Ips -> Nat]
    BY <1>1 DEF TypeOK
  <2>3. CASE ip[c] \in Loopback \/ slots[ip[c]] = 0
    BY <2>1, <2>2, <2>3 DEF ReleaseSlot
  <2>4. CASE ip[c] \notin Loopback /\ slots[ip[c]] # 0
    <3>1. slots[ip[c]] - 1 \in Nat
      BY <2>2, <2>4
    <3>2. slots' = [slots EXCEPT ![ip[c]] = slots[ip[c]] - 1]
      BY <2>1, <2>4 DEF ReleaseSlot
    <3>3. QED
      BY <2>2, <3>1, <3>2
  <2>5. QED
    BY <2>3, <2>4
<1>3. session' \in [Conns -> Session]
  BY NoSessionType DEF TypeOK, Release, Die
<1>4. QED
  BY <1>2, <1>3 DEF TypeOK, Placed, Release, Die

\* A frame changes the session, and a first handshake the registry too, or closes.
LEMMA TypeFrame ==
    ASSUME TypeOK, Placed, NEW c \in Conns, Handshake(c) \/ Rehandshake(c) \/ Traffic(c)
    PROVE  TypeOK' /\ Placed'
<1>1. ASSUME NEW proto \in {"legacy", "v6"}, NEW k \in ClientIds \cup {None},
             NEW main \in BOOLEAN, FirstHandshake(c, proto, k, main)
      PROVE  TypeOK' /\ Placed'
  <2>1. CASE Admits(c, k)
    <3>1. session' \in [Conns -> Session]
      BY <1>1, <2>1 DEF FirstHandshake, TypeOK, Session
    <3>2. groups' \in [ClientIds -> [conns : SUBSET Conns, main : Conns \cup {None}]]
      BY <1>1, <2>1 DEF FirstHandshake, Register, Joins, TypeOK
    <3>3. age' \in [Conns -> 0 .. ReapAfter]
      BY <1>1, <2>1, ConnectionsAssumption DEF FirstHandshake, TypeOK
    <3>4. permit' \in [Conns -> BOOLEAN] /\ role' \in [Conns -> {"none", "subscriber", "auxiliary"}]
      BY <1>1, <2>1 DEF FirstHandshake, Register, TypeOK
    <3>5. watched' \subseteq Conns /\ subscribed' \subseteq Conns
      BY <1>1, <2>1 DEF FirstHandshake, Register, TypeOK
    <3>6. UNCHANGED <<task, ip, writer, slots>>
      BY <1>1, <2>1 DEF FirstHandshake
    <3>7. QED
      BY <3>1, <3>2, <3>3, <3>4, <3>5, <3>6 DEF TypeOK, Placed
  <2>2. CASE ~Admits(c, k)
    BY <1>1, <2>2, TypeClose DEF FirstHandshake
  <2>3. QED
    BY <2>1, <2>2
<1>2. ASSUME Rehandshake(c) PROVE TypeOK' /\ Placed'
  <2>1. session' \in [Conns -> Session] /\ age' \in [Conns -> 0 .. ReapAfter]
    BY <1>2, ConnectionsAssumption DEF Rehandshake, TypeOK, Session
  <2>2. QED
    BY <1>2, <2>1 DEF Rehandshake, registryVars, TypeOK, Placed
<1>3. ASSUME Traffic(c) PROVE TypeOK' /\ Placed'
  BY <1>3, ConnectionsAssumption DEF Traffic, registryVars, TypeOK, Placed
<1>4. QED
  BY <1>1, <1>2, <1>3 DEF Handshake

\* Every step keeps the types and the addresses.
LEMMA TypeStep == TypeOK /\ Placed /\ [Next]_vars => TypeOK' /\ Placed'
<1> SUFFICES ASSUME TypeOK, Placed, [Next]_vars
             PROVE  TypeOK' /\ Placed'
  OBVIOUS
<1>1. ASSUME NEW i \in Ips, Accept(i) \/ AcceptByEvicting(i) PROVE TypeOK' /\ Placed'
  BY <1>1, TypeAccept
<1>2. ASSUME NEW c \in Conns, Handshake(c) \/ Rehandshake(c) \/ Traffic(c)
      PROVE  TypeOK' /\ Placed'
  BY <1>2, TypeFrame
<1>3. ASSUME NEW c \in Conns, Leave(c) \/ TakePermit(c) \/ Retire(c) PROVE TypeOK' /\ Placed'
  BY <1>3, TypeClose DEF Leave, TakePermit, Retire
<1>4. ASSUME NEW c \in Conns, Release(c) \/ Die(c) PROVE TypeOK' /\ Placed'
  BY <1>4, TypeEnd
<1>5. ASSUME NEW c \in Conns, WriterFails(c) PROVE TypeOK' /\ Placed'
  BY <1>5 DEF WriterFails, registryVars, TypeOK, Placed
<1>6. ASSUME Broadcast PROVE TypeOK' /\ Placed'
  BY <1>6 DEF Broadcast, taskVars, registryVars, TypeOK, Placed
<1>7. ASSUME Tick PROVE TypeOK' /\ Placed'
  BY <1>7, ConnectionsAssumption DEF Tick, registryVars, TypeOK, Placed
<1>8. CASE UNCHANGED vars
  BY <1>8 DEF vars, taskVars, registryVars, TypeOK, Placed
<1>9. QED
  BY <1>1, <1>2, <1>3, <1>4, <1>5, <1>6, <1>7, <1>8 DEF Next

-----------------------------------------------------------------------------
(* The slots. *)

\* The tasks of an address can be counted.
LEMMA LivingFinite == \A i \in Ips : IsFiniteSet(Living(i)) /\ Cardinality(Living(i)) \in Nat
<1>1. TAKE i \in Ips
<1>2. Living(i) \subseteq Conns
  BY DEF Living
<1>3. QED
  BY <1>2, FS_Subset, FS_CardinalityType, ConnectionsAssumption

\* Accepting adds one task to those of its address.
LEMMA SlotsAccept ==
    ASSUME TypeOK, SlotsCounted, NEW i \in Ips, Accept(i) \/ AcceptByEvicting(i)
    PROVE  SlotsCounted'
<1>1. PICK c \in Conns :
          /\ Fresh(c) /\ Open(c, i)
          /\ slots' = IF i \in Loopback THEN slots ELSE [slots EXCEPT ![i] = @ + 1]
  BY DEF Accept, AcceptByEvicting
<1>2. c \notin Living(i) /\ Living(i)' = Living(i) \cup {c}
  BY <1>1 DEF Living, Fresh, Open, TypeOK
<1>3. \A j \in Ips \ {i} : Living(j)' = Living(j)
  BY <1>1 DEF Living, Fresh, Open, TypeOK
<1>4. Cardinality(Living(i)') = Cardinality(Living(i)) + 1
  BY <1>2, LivingFinite, FS_AddElement
<1>5. SUFFICES ASSUME NEW j \in Ips
               PROVE  slots'[j] = IF j \in Loopback THEN 0 ELSE Cardinality(Living(j)')
  BY DEF SlotsCounted, Living
<1>6. slots[j] = IF j \in Loopback THEN 0 ELSE Cardinality(Living(j))
  BY DEF SlotsCounted, Living
<1>7. CASE j = i
  BY <1>1, <1>4, <1>6, <1>7 DEF TypeOK
<1>8. CASE j # i
  BY <1>1, <1>3, <1>6, <1>8 DEF TypeOK
<1>9. QED
  BY <1>7, <1>8

\* A task that ends is one less of its address, whichever way it ends.
LEMMA SlotsEnd ==
    ASSUME TypeOK, Placed, SlotsCounted, NEW c \in Conns, Release(c) \/ Die(c)
    PROVE  SlotsCounted'
<1>1. PICK i \in Ips : task[c] # "none" /\ i = ip[c]
  BY DEF Release, Die, Placed
<1>2. c \in Living(i) /\ Living(i)' = Living(i) \ {c}
  BY <1>1 DEF Living, Release, Die, TypeOK
<1>3. \A j \in Ips \ {i} : Living(j)' = Living(j)
  BY <1>1, ConnectionsAssumption DEF Living, Release, Die, TypeOK
<1>4. Cardinality(Living(i)') = Cardinality(Living(i)) - 1 /\ Cardinality(Living(i)) # 0
  <2>1. IsFiniteSet(Living(i)) /\ Cardinality(Living(i)) \in Nat
    BY <1>1, LivingFinite
  <2>2. Cardinality(Living(i) \ {c}) = Cardinality(Living(i)) - 1
    BY <1>2, <2>1, FS_RemoveElement
  <2>3. Cardinality(Living(i)) # 0
    BY <1>2, <2>1, FS_EmptySet
  <2>4. QED
    BY <1>2, <2>2, <2>3
<1>5. SUFFICES ASSUME NEW j \in Ips
               PROVE  slots'[j] = IF j \in Loopback THEN 0 ELSE Cardinality(Living(j)')
  BY DEF SlotsCounted, Living
<1>6. /\ slots[j] = IF j \in Loopback THEN 0 ELSE Cardinality(Living(j))
      /\ slots[i] = IF i \in Loopback THEN 0 ELSE Cardinality(Living(i))
  BY <1>1 DEF SlotsCounted, Living
<1>7. slots' = IF i \in Loopback \/ slots[i] = 0 THEN slots ELSE [slots EXCEPT ![i] = @ - 1]
  BY <1>1 DEF Release, Die, ReleaseSlot
<1>8. CASE j = i
  <2>1. CASE i \in Loopback
    BY <1>6, <1>7, <1>8, <2>1
  <2>2. CASE i \notin Loopback
    <3>1. slots[i] = Cardinality(Living(i)) /\ slots[i] # 0
      BY <1>4, <1>6, <2>2
    <3>2. slots' = [slots EXCEPT ![i] = slots[i] - 1] /\ slots \in [Ips -> Nat]
      BY <1>7, <2>2, <3>1 DEF TypeOK
    <3>3. slots'[i] = Cardinality(Living(i)')
      BY <1>1, <1>4, <3>1, <3>2
    <3>4. QED
      BY <1>8, <2>2, <3>3
  <2>3. QED
    BY <2>1, <2>2
<1>9. CASE j # i
  BY <1>1, <1>3, <1>6, <1>7, <1>9 DEF TypeOK
<1>10. QED
  BY <1>8, <1>9

\* Every other step leaves the slots, the addresses and who is alive.
LEMMA SlotsKept ==
    ASSUME SlotsCounted, slots' = slots, \A i \in Ips : Living(i)' = Living(i)
    PROVE  SlotsCounted'
BY DEF SlotsCounted, Living

\* Only an accept and the end of a task move a slot.
LEMMA SlotsStep == SlotInv /\ [Next]_vars => SlotInv'
<1> SUFFICES ASSUME TypeOK, Placed, SlotsCounted, [Next]_vars
             PROVE  SlotsCounted'
  BY TypeStep DEF SlotInv
<1>1. ASSUME NEW i \in Ips, Accept(i) \/ AcceptByEvicting(i) PROVE SlotsCounted'
  BY <1>1, SlotsAccept
<1>2. ASSUME NEW c \in Conns, Handshake(c) \/ Rehandshake(c) \/ Traffic(c)
                              \/ Leave(c) \/ TakePermit(c) \/ Retire(c) \/ WriterFails(c)
      PROVE  SlotsCounted'
  <2>1. /\ UNCHANGED <<ip, slots>>
        /\ \/ task' = task
           \/ task[c] = "open" /\ task' = [task EXCEPT ![c] = "draining"]
    BY <1>2 DEF Handshake, FirstHandshake, Rehandshake, Traffic, Leave, TakePermit, Retire,
                WriterFails, Close, Unregister, registryVars
  <2>2. \A i \in Ips : Living(i)' = Living(i)
    BY <2>1 DEF Living, TypeOK
  <2>3. QED
    BY <2>1, <2>2, SlotsKept
<1>3. ASSUME NEW c \in Conns, Release(c) \/ Die(c) PROVE SlotsCounted'
  BY <1>3, SlotsEnd
<1>4. CASE Broadcast \/ Tick \/ UNCHANGED vars
  BY <1>4, SlotsKept DEF Broadcast, Tick, vars, taskVars, registryVars, Living
<1>5. QED
  BY <1>1, <1>2, <1>3, <1>4 DEF Next

\* An address has as many slots taken as it has tasks, and this machine none, however
\* connections are admitted, evicted, closed and dropped (registry.rs admit_ip and
\* release_ip, IpSlotGuard).
THEOREM SlotsCorrect == Spec => []SlotsCounted
<1>1. Init => SlotsCounted
  BY FS_EmptySet DEF Init, SlotsCounted
<1>2. Init => SlotInv
  BY <1>1, InitType DEF SlotInv
<1>3. SlotInv => SlotsCounted
  BY DEF SlotInv
<1>4. QED
  BY <1>2, <1>3, SlotsStep, PTL DEF Spec

-----------------------------------------------------------------------------
(* The mains. *)

\* A new connection is known to nobody yet.
LEMMA MainsAccept ==
    ASSUME IInv, NEW i \in Ips, Accept(i) \/ AcceptByEvicting(i)
    PROVE  Unregistered' /\ OneMain' /\ MainsSubscribed'
<1>1. PICK c \in Conns :
          /\ Fresh(c) /\ Open(c, i)
          /\ \A d \in Conns \ {c} : permit[d] => permit'[d]
  <2>1. CASE Accept(i)
    BY <2>1 DEF Accept, IInv, TypeOK
  <2>2. CASE AcceptByEvicting(i)
    <3>1. PICK c \in Conns, victim \in Conns :
              Fresh(c) /\ Open(c, i) /\ permit' = [permit EXCEPT ![c] = FALSE, ![victim] = TRUE]
      BY <2>2 DEF AcceptByEvicting
    <3>2. \A d \in Conns \ {c} : permit[d] => permit'[d]
      BY <3>1 DEF IInv, TypeOK
    <3>3. QED
      BY <3>1, <3>2
  <2>3. QED
    BY <2>1, <2>2
<1>2. /\ role[c] = "none" /\ c \notin subscribed /\ \A k \in ClientIds : c \notin groups[k].conns
      /\ UNCHANGED <<role, groups, subscribed>>
      /\ \A d \in Conns \ {c} : /\ task'[d] = task[d] /\ session'[d] = session[d]
                                /\ writer'[d] = writer[d]
  BY <1>1 DEF Fresh, Open, IInv, TypeOK
<1>3. Unregistered'
  BY <1>2 DEF IInv, Unregistered
<1>4. OneMain'
  BY <1>1, <1>2 DEF IInv, OneMain, TypeOK
<1>5. MainsSubscribed'
  BY <1>2 DEF IInv, MainsSubscribed, TypeOK
<1>6. QED
  BY <1>3, <1>4, <1>5

\* A connection that closes leaves its group and the broadcast set; nobody else's
\* main changes.
LEMMA MainsClose ==
    ASSUME IInv, NEW c \in Conns, task[c] = "open", Close(c)
    PROVE  Unregistered' /\ OneMain' /\ MainsSubscribed'
<1>1. /\ task'[c] = "draining" /\ role'[c] = "none" /\ subscribed' = subscribed \ {c}
      /\ UNCHANGED writer
      /\ \A d \in Conns \ {c} : /\ task'[d] = task[d] /\ session'[d] = session[d]
                                /\ role'[d] = role[d] /\ permit'[d] = permit[d]
  BY DEF Close, Unregister, IInv, TypeOK
<1>2. \A k \in ClientIds :
        /\ groups'[k].conns \subseteq groups[k].conns
        /\ groups'[k].main # groups[k].main => groups[k].main = c
  BY DEF Close, Unregister, Leaves, IInv, TypeOK
<1>3. Unregistered'
  BY <1>1, <1>2 DEF IInv, Unregistered
<1>4. OneMain'
  <2> SUFFICES ASSUME NEW k \in ClientIds, NEW d \in groups'[k].conns, task'[d] = "open",
                      role'[d] = "subscriber", groups'[k].main # d
               PROVE  permit'[d]
    BY DEF OneMain
  <2>1. d \in Conns /\ d \in groups[k].conns
    BY <1>2 DEF IInv, TypeOK
  <2>2. d # c
    BY <1>1
  <2>3. groups[k].main # d
    BY <1>2, <2>2
  <2>4. task[d] = "open" /\ role[d] = "subscriber" /\ permit'[d] = permit[d]
    BY <1>1, <2>1, <2>2
  <2>5. QED
    BY <2>1, <2>3, <2>4 DEF IInv, OneMain
<1>5. MainsSubscribed'
  BY <1>1 DEF IInv, MainsSubscribed, TypeOK
<1>6. QED
  BY <1>3, <1>4, <1>5

\* A first handshake that is let in: the main it replaces is told to close.
LEMMA MainsRegister ==
    ASSUME IInv, NEW c \in Conns, NEW proto \in {"legacy", "v6"},
           NEW k \in ClientIds \cup {None}, NEW main \in BOOLEAN,
           FirstHandshake(c, proto, k, main), Admits(c, k)
    PROVE  Unregistered' /\ OneMain' /\ MainsSubscribed'
<1> DEFINE replaced == IF k # None /\ main THEN groups[k].main ELSE None
<1>1. /\ task[c] = "open" /\ session[c].proto = "none" /\ Register(c, k, main)
      /\ session' = [session EXCEPT ![c] = [proto |-> proto, client |-> k, main |-> main]]
      /\ UNCHANGED <<task, writer>>
  BY DEF FirstHandshake
<1>2. role[c] = "none" /\ c \notin subscribed /\ \A j \in ClientIds : c \notin groups[j].conns
  BY <1>1 DEF IInv, Unregistered
<1>3. /\ role'[c] = IF main THEN "subscriber" ELSE "auxiliary"
      /\ subscribed' = IF main THEN subscribed \cup {c} ELSE subscribed
      /\ session'[c].proto # "none"
      /\ \A d \in Conns \ {c} : role'[d] = role[d] /\ session'[d] = session[d]
      /\ \A d \in Conns : permit'[d] = (permit[d] \/ (d = replaced /\ d # c /\ role[d] # "none"))
  BY <1>1 DEF Register, IInv, TypeOK
<1>4. \A j \in ClientIds :
        \/ groups'[j] = groups[j]
        \/ /\ j = k /\ groups'[j].conns = groups[j].conns \cup {c}
           /\ groups'[j].main = IF main THEN c ELSE groups[j].main
  BY <1>1 DEF Register, Joins, IInv, TypeOK
<1>5. Unregistered'
  BY <1>1, <1>3, <1>4 DEF IInv, Unregistered
<1>6. OneMain'
  <2> SUFFICES ASSUME NEW j \in ClientIds, NEW d \in groups'[j].conns, task'[d] = "open",
                      role'[d] = "subscriber", groups'[j].main # d
               PROVE  permit'[d]
    BY DEF OneMain
  <2>1. CASE d = c
    <3>1. j = k /\ groups'[j].main = IF main THEN c ELSE groups[j].main
      BY <1>2, <1>4, <2>1
    <3>2. QED
      BY <1>3, <2>1, <3>1
  <2>2. CASE d # c
    <3>1. d \in groups[j].conns /\ d \in Conns
      BY <1>4, <2>2 DEF IInv, TypeOK
    <3>2. role[d] = "subscriber" /\ task[d] = "open"
      BY <1>1, <1>3, <2>2, <3>1
    <3>3. CASE groups[j].main # d
      BY <1>3, <3>1, <3>2, <3>3 DEF IInv, OneMain
    <3>4. CASE groups[j].main = d
      <4>1. j = k /\ main /\ k # None
        BY <1>4, <3>4, ConnectionsAssumption
      <4>2. replaced = d
        BY <3>4, <4>1
      <4>3. QED
        BY <1>3, <2>2, <3>1, <3>2, <4>2
    <3>5. QED
      BY <3>3, <3>4
  <2>3. QED
    BY <2>1, <2>2
<1>7. MainsSubscribed'
  BY <1>1, <1>2, <1>3 DEF IInv, MainsSubscribed, TypeOK
<1>8. QED
  BY <1>5, <1>6, <1>7

\* A task that ends keeps what it left behind, but is no longer open.
LEMMA MainsEnd ==
    ASSUME IInv, NEW c \in Conns, Release(c) \/ Die(c)
    PROVE  Unregistered' /\ OneMain' /\ MainsSubscribed'
<1>1. /\ task'[c] = "none" /\ UNCHANGED <<permit, role, groups, subscribed>>
      /\ \A d \in Conns \ {c} : /\ task'[d] = task[d] /\ session'[d] = session[d]
                                /\ writer'[d] = writer[d]
  BY DEF Release, Die, IInv, TypeOK
<1>2. Unregistered' /\ OneMain'
  BY <1>1 DEF IInv, Unregistered, OneMain, TypeOK
<1>3. MainsSubscribed'
  BY <1>1 DEF IInv, MainsSubscribed, TypeOK
<1>4. QED
  BY <1>2, <1>3

\* The mains' invariant is inductive.
LEMMA MainsStep == IInv /\ Placed /\ [Next]_vars => IInv' /\ Placed'
<1> SUFFICES ASSUME IInv, Placed, [Next]_vars
             PROVE  Unregistered' /\ OneMain' /\ MainsSubscribed'
  BY TypeStep DEF IInv
<1>1. ASSUME NEW i \in Ips, Accept(i) \/ AcceptByEvicting(i)
      PROVE  Unregistered' /\ OneMain' /\ MainsSubscribed'
  BY <1>1, MainsAccept
<1>2. ASSUME NEW c \in Conns, Leave(c) \/ TakePermit(c) \/ Retire(c)
      PROVE  Unregistered' /\ OneMain' /\ MainsSubscribed'
  BY <1>2, MainsClose DEF Leave, TakePermit, Retire
<1>3. ASSUME NEW c \in Conns, Handshake(c)
      PROVE  Unregistered' /\ OneMain' /\ MainsSubscribed'
  <2>1. PICK proto \in {"legacy", "v6"}, k \in ClientIds \cup {None}, main \in BOOLEAN :
            FirstHandshake(c, proto, k, main)
    BY <1>3 DEF Handshake
  <2>2. CASE Admits(c, k)
    BY <2>1, <2>2, MainsRegister
  <2>3. CASE ~Admits(c, k)
    BY <2>1, <2>3, MainsClose DEF FirstHandshake
  <2>4. QED
    BY <2>2, <2>3
<1>4. ASSUME NEW c \in Conns, Rehandshake(c)
      PROVE  Unregistered' /\ OneMain' /\ MainsSubscribed'
  <2>1. /\ UNCHANGED <<task, writer, permit, role, groups, subscribed>>
        /\ session[c].proto = "legacy"
        /\ \A d \in Conns \ {c} : session'[d] = session[d]
    BY <1>4 DEF Rehandshake, registryVars, IInv, TypeOK
  <2>2. session'[c].proto = "legacy"
    BY <1>4 DEF Rehandshake, IInv, TypeOK
  <2>3. QED
    BY <2>1, <2>2 DEF IInv, Unregistered, OneMain, MainsSubscribed
<1>5. ASSUME NEW c \in Conns, Release(c) \/ Die(c)
      PROVE  Unregistered' /\ OneMain' /\ MainsSubscribed'
  BY <1>5, MainsEnd
<1>6. ASSUME NEW c \in Conns, WriterFails(c)
      PROVE  Unregistered' /\ OneMain' /\ MainsSubscribed'
  BY <1>6 DEF WriterFails, registryVars, IInv, TypeOK, Unregistered, OneMain, MainsSubscribed
<1>7. CASE Broadcast
  BY <1>7 DEF Broadcast, taskVars, registryVars, IInv, TypeOK, Unregistered, OneMain,
              MainsSubscribed
<1>8. ASSUME NEW c \in Conns, Traffic(c)
      PROVE  Unregistered' /\ OneMain' /\ MainsSubscribed'
  BY <1>8 DEF Traffic, registryVars, IInv, Unregistered, OneMain, MainsSubscribed
<1>9. CASE Tick \/ UNCHANGED vars
  BY <1>9 DEF Tick, vars, taskVars, registryVars, IInv, Unregistered, OneMain, MainsSubscribed
<1>10. QED
  BY <1>1, <1>2, <1>3, <1>4, <1>5, <1>6, <1>7, <1>8, <1>9 DEF Next

\* Nobody is registered yet.
LEMMA MainsInit == Init => IInv /\ Placed
<1> SUFFICES ASSUME Init PROVE Unregistered /\ OneMain /\ MainsSubscribed
  BY InitType DEF IInv
<1>1. QED
  BY DEF Init, NoGroup, Unregistered, OneMain, MainsSubscribed

\* The mains' invariant holds at every moment of every run.
LEMMA MainsInvariant == Spec => [](IInv /\ Placed)
BY MainsInit, MainsStep, PTL DEF Spec

\* However handshakes, repeated handshakes, late closes and dropped tasks are ordered,
\* a client has one main that is not on its way out, and the broadcast set is the mains
\* that can be written to (registry.rs register and unregister, connection.rs
\* register_and_subscribe).
THEOREM MainsCorrect == Spec => []MainsServed
<1>1. IInv /\ Placed => MainsServed
  BY DEF IInv, MainsServed
<1>2. QED
  BY <1>1, MainsInvariant, PTL

\* No step tells a subscriber to close but the registration of a newer main of its
\* client: at a full address it is never the one that makes room (registry.rs
\* Role::Subscriber).
THEOREM NewerMainCorrect == Spec => OnlyNewerMainCloses
<1>1. IInv /\ [Next]_vars =>
        [\A c \in Conns :
            (role[c] = "subscriber" /\ ~permit[c] /\ permit'[c]) =>
                \E k \in ClientIds : /\ groups[k].main = c
                                     /\ groups'[k].main \in subscribed' \ {c}]_vars
  <2> SUFFICES ASSUME IInv, [Next]_vars, NEW c \in Conns,
                      role[c] = "subscriber", ~permit[c], permit'[c]
               PROVE  \E k \in ClientIds : /\ groups[k].main = c
                                           /\ groups'[k].main \in subscribed' \ {c}
    OBVIOUS
  <2>1. PICK d \in Conns, proto \in {"legacy", "v6"}, k \in ClientIds \cup {None},
             main \in BOOLEAN : FirstHandshake(d, proto, k, main) /\ Admits(d, k)
    <3>1. ASSUME NEW i \in Ips, Accept(i) \/ AcceptByEvicting(i) PROVE FALSE
      BY <3>1 DEF Accept, AcceptByEvicting, Victim, Evictable, IInv, TypeOK
    <3>2. ASSUME NEW d \in Conns, Close(d) PROVE FALSE
      BY <3>2 DEF Close, IInv, TypeOK
    <3>3. ASSUME UNCHANGED permit PROVE FALSE
      BY <3>3
    <3>4. ASSUME NEW d \in Conns, Rehandshake(d) \/ Traffic(d) \/ Release(d) \/ Die(d)
                                  \/ WriterFails(d)
          PROVE  FALSE
      BY <3>3, <3>4 DEF Rehandshake, Traffic, Release, Die, WriterFails, registryVars
    <3>5. ASSUME Broadcast \/ Tick \/ UNCHANGED vars PROVE FALSE
      BY <3>3, <3>5 DEF Broadcast, Tick, registryVars, vars
    <3>6. PICK d \in Conns : Handshake(d)
      BY <3>1, <3>2, <3>4, <3>5 DEF Next, Leave, TakePermit, Retire
    <3>7. PICK proto \in {"legacy", "v6"}, k \in ClientIds \cup {None}, main \in BOOLEAN :
              FirstHandshake(d, proto, k, main)
      BY <3>6 DEF Handshake
    <3>8. QED
      BY <3>2, <3>7 DEF FirstHandshake
  <2>2. k \in ClientIds /\ main /\ groups[k].main = c /\ c # d
    BY <2>1, ConnectionsAssumption DEF FirstHandshake, Register, IInv, TypeOK
  <2>3. groups'[k].main = d /\ d \in subscribed'
    BY <2>1, <2>2, ConnectionsAssumption DEF FirstHandshake, Register, Joins, IInv, TypeOK
  <2>4. QED
    BY <2>2, <2>3
<1>2. QED
  BY <1>1, MainsInvariant, PTL DEF Spec, OnlyNewerMainCloses

=============================================================================
