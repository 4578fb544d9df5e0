--------------------------- MODULE RuntimeProofs ----------------------------
(***************************************************************************)
(* Proofs about what MCRuntime runs: for any workers, plain threads and    *)
(* number of cores, a stop that has returned leaves no network thread, and *)
(* tells the long work to stop before it waits for it (Lifecycle); for any *)
(* calls and number of attempts, a web app hears every event by one road,  *)
(* and shows what it is doing about it (WebClient); for any number of      *)
(* captures, changes of the settings and starts, the log level and the     *)
(* record on disk follow the capture (Capture).                            *)
(*                                                                         *)
(* Lifecycle's invariant follows a call from its first step to its last,   *)
(* and says what the network thread may be doing meanwhile. WebClient's    *)
(* follows the frames on the socket, and knows of each state of the page   *)
(* what still stands behind what it shows. Capture's goes by what is left  *)
(* of the host's call: who still sets the level, and who still clears the  *)
(* record. RuntimeCorrect puts the three together.                         *)
(***************************************************************************)
EXTENDS MCRuntime, SequenceTheorems, TLAPS

(* The host's calls, Lifecycle. *)

\* Types of the host's calls and of the network thread.
HostCalls ==
    /\ runtime \in Nat /\ held \in BOOLEAN /\ cores \in Nat
    /\ runtime = 0 => ~held
    /\ call \in [kind : {"none", "start", "stop", "shutdown"},
                 step : {"none", "bind", "signal", "join"}, core : Nat]
    /\ net \in [phase : {"none", "binding", "spawning", "serving", "leaving", "draining"},
                core : Nat]
    /\ announced \in BOOLEAN

\* A thread that has ended has given up its core.
Ended == net.phase = "none" => net = NoNet

\* A start has no handle yet, and its thread is on its way up or has failed.
Starting ==
    /\ call.kind = "start" <=> call.step = "bind"
    /\ call.kind = "none" => call = NoCall
    /\ call.step = "none" => call = NoCall
    /\ call.step = "bind" =>
         /\ ~held /\ runtime # 0 /\ call.core = runtime
         /\ net.phase \in {"none", "binding", "spawning", "serving"}
         /\ net.phase # "none" => net.core = call.core
    /\ net.phase = "binding" => call.step = "bind"

\* A stop has taken the handle and told the work, and only it ends the thread.
Stopping ==
    /\ call.step \in {"signal", "join"} => ~held /\ call.core \in stopping
    /\ net.phase \in {"leaving", "draining"} => call.step = "join"

\* What serves, or is about to, has not been told to stop.
Unstopped ==
    net.phase # "none" /\ call.step \notin {"signal", "join"} /\ ~announced =>
        net.core \notin stopping

HostIInv == HostCalls /\ Ended /\ Starting /\ Stopping /\ NoneLeft /\ Unstopped

-----------------------------------------------------------------------------
(* The host's calls. *)

\* Every call of the host keeps the invariant (state.rs, server/mod.rs).
LEMMA HostStep == HostIInv /\ Host => HostIInv'
<1> SUFFICES ASSUME HostIInv, Host PROVE HostIInv'
  OBVIOUS
<1> USE DEF HostIInv, HostCalls, Ended, Starting, Stopping, NoneLeft, Unstopped, NoCall, NoNet
<1>1. CASE Initialize
  <2>1. runtime' \in Nat /\ ~held /\ net = NoNet
    BY <1>1 DEF Initialize
  <2>. QED
    BY <1>1, <2>1 DEF Initialize, netVars, history
<1>2. CASE BeginStopping
  BY <1>2 DEF BeginStopping, stateVars, netVars, storeVars
<1>3. CASE Start
  BY <1>3 DEF Start, storeVars
<1>4. CASE Started
  BY <1>4 DEF Started, netVars, storeVars, history
<1>5. CASE Stop
  BY <1>5 DEF Stop, netVars, storeVars, history
<1>6. CASE Shutdown
  <2>1. CASE held
    BY <1>6, <2>1 DEF Shutdown, netVars, storeVars, history
  <2>2. CASE ~held
    <3>1. call = NoCall /\ net = NoNet
      BY <1>6, <2>2 DEF Shutdown
    <3>2. call' = call /\ net' = net
      BY <1>6, <2>2, <3>1 DEF Shutdown, netVars
    <3>3. runtime' = 0 /\ held' = FALSE /\ cores' = cores /\ announced' = announced
      BY <1>6 DEF Shutdown, storeVars, history
    <3>. QED
      BY <3>1, <3>2, <3>3
  <2>. QED
    BY <2>1, <2>2
<1>7. CASE Signal
  BY <1>7 DEF Signal, storeVars
<1>8. CASE Joined
  BY <1>8 DEF Joined, netVars, storeVars, history
<1>. QED
  BY <1>1, <1>2, <1>3, <1>4, <1>5, <1>6, <1>7, <1>8 DEF Host

\* So does the network thread, which a call cannot end without its stop (run_thread).
LEMMA ThreadStep == HostIInv /\ NetThread => HostIInv'
<1> SUFFICES ASSUME HostIInv, NetThread PROVE HostIInv'
  OBVIOUS
<1> USE DEF HostIInv, HostCalls, Ended, Starting, Stopping, NoneLeft, Unstopped, NoCall, NoNet
<1>1. CASE Bind
  BY <1>1 DEF Bind, stateVars, storeVars, history
<1>2. CASE Serve
  BY <1>2 DEF Serve, stateVars, storeVars, history
<1>3. CASE Withdraw
  BY <1>3 DEF Withdraw, stateVars, storeVars, history
<1>4. CASE Drain
  BY <1>4 DEF Drain, stateVars, storeVars, history
<1>. QED
  BY <1>1, <1>2, <1>3, <1>4 DEF NetThread

-----------------------------------------------------------------------------
(* The theorem. *)

\* Workers, plain threads and the advertisement touch nothing of the invariant.
LEMMA LifecycleStep == HostIInv /\ [Next]_vars => HostIInv'
<1> SUFFICES ASSUME HostIInv, [Next]_vars PROVE HostIInv'
  OBVIOUS
<1>1. CASE UNCHANGED <<stateVars, net, stopping, cores, history>>
  BY <1>1 DEF HostIInv, HostCalls, Ended, Starting, Stopping, NoneLeft, Unstopped, stateVars, history
<1>2. CASE MdnsWithdraws \/ \E w \in Workers : WorkerStarts(w) \/ WorkerEnds(w)
  BY <1>1, <1>2 DEF MdnsWithdraws, WorkerStarts, WorkerEnds, storeVars
<1>3. CASE \E t \in Threads : Spawn(t) \/ StartupCheck(t) \/ Ends(t)
  BY <1>1, <1>3 DEF Spawn, StartupCheck, Ends, netVars, storeVars
<1>. QED
  BY <1>1, <1>2, <1>3, HostStep, ThreadStep DEF Next, vars, netVars, storeVars

\* A stop that has returned leaves no network thread and no worker of it, the
\* work was told to stop before the join, and what serves again was told nothing
\* (NetHandle::stop, begin_stopping, clear_stopping).
THEOREM StopCorrect == Spec => []NothingOutlivesStop
<1>1. Init => HostIInv
  <2> SUFFICES ASSUME Init PROVE HostIInv
    OBVIOUS
  <2>1. /\ call.kind = "none" /\ call.step = "none" /\ call.core = 0
        /\ net.phase = "none" /\ net.core = 0
    BY DEF Init, NoCall, NoNet
  <2>2. HostCalls
    BY DEF Init, HostCalls, NoCall, NoNet
  <2>3. Ended /\ Starting /\ Stopping /\ NoneLeft /\ Unstopped
    BY <2>1 DEF Init, Ended, Starting, Stopping, NoneLeft, Unstopped
  <2>. QED
    BY <2>2, <2>3 DEF HostIInv
<1>2. HostIInv => NothingOutlivesStop
  BY DEF HostIInv, HostCalls, Stopping, Unstopped, NothingOutlivesStop, ToldToStop
<1>. QED
  BY <1>1, <1>2, LifecycleStep, PTL DEF Spec

-----------------------------------------------------------------------------
(* The web app's connection, WebClient. *)

\* The frames from the server and to it.
Frames == {"welcome", "refused", "shutdown"} \cup Calls
Requests == {"handshake"} \cup Calls

\* Types.
Links ==
    /\ socket \in {"none", "connecting", "open", "cut", "closed"}
    /\ outbox \in Seq(Requests) /\ inbox \in Seq(Frames)
Scalars ==
    /\ up \in BOOLEAN /\ admits \in BOOLEAN /\ taken \in BOOLEAN /\ opens \in BOOLEAN
    /\ handshaked \in BOOLEAN /\ attempt \in Nat /\ timer \in BOOLEAN
    /\ stream \in {"none", "connecting", "open"} /\ goodbye \in BOOLEAN
    /\ page \in {"none", "blank", "app", "pairing"} /\ binds \in Nat /\ asking \in Nat
    /\ misled \in BOOLEAN
CallsOK == calls \in [Calls -> {"unused", "socket", "http", "answered", "denied", "settled"}]
ShownOK == shown \in [connected : BOOLEAN, retrying : BOOLEAN]
BrowserTyped == Links /\ Scalars /\ CallsOK /\ ShownOK

\* Before its listeners are bound the page has no road, no call and asks once.
Unbound ==
    /\ binds = 0 =>
         /\ page # "app" /\ socket = "none" /\ stream = "none" /\ ~timer
         /\ asking = IF page = "blank" THEN 1 ELSE 0
         /\ \A c \in Calls : calls[c] = "unused"
    /\ page \in {"none", "blank"} => binds = 0

\* A socket is let go with its stream and its timer, and one that has closed is tried again
\* until the attempts are used up.
Roads ==
    /\ socket = "none" => stream = "none" /\ ~timer
    /\ socket = "closed" /\ ~timer => attempt >= MaxAttempts
    /\ socket \notin {"open", "cut"} => inbox = <<>>
    /\ socket # "open" => outbox = <<>>
    /\ handshaked => stream = "none"
    /\ goodbye => stream = "open"
    /\ stream = "open" => ~shown.retrying \/ misled

\* What is on the socket: the handshake is the first frame to the server, a refusal the only
\* one from it.
Stands == handshaked /\ ~shown.retrying
Wire ==
    /\ \A n \in 2 .. Len(outbox) : outbox[n] # "handshake"
    /\ outbox # <<>> /\ outbox[1] = "handshake" => inbox = <<>>
    /\ \A n \in 1 .. Len(inbox) : inbox[n] = "refused" => socket = "cut" /\ Len(inbox) = 1
    /\ \A n \in 1 .. Len(inbox) : inbox[n] = "shutdown" =>
          Stands \/ \E m \in 1 .. n - 1 : inbox[m] = "welcome"
    /\ socket = "open" => \/ Stands \/ (outbox # <<>> /\ outbox[1] = "handshake")
                          \/ \E n \in 1 .. Len(inbox) : inbox[n] = "welcome"

\* Where nothing is tried any more the page says so.
GivenUp == page = "app" /\ ~Browsed!Trying => ~shown.connected /\ (~shown.retrying \/ misled)

BrowserIInv == BrowserTyped /\ Unbound /\ Roads /\ Wire /\ GivenUp

\* What the frames are.
LEMMA FrameTypes ==
    /\ {"welcome", "refused", "shutdown"} \subseteq Frames /\ "handshake" \in Requests
    /\ \A c \in Calls : c \in Frames /\ c \in Requests /\ c \notin {"handshake", "welcome",
            "refused", "shutdown"}
    /\ \A r \in Requests : r # "handshake" => r \in Calls
    /\ <<>> \in Seq(Requests) /\ <<>> \in Seq(Frames) /\ <<"handshake">> \in Seq(Requests)
  BY ClientAssumption DEF Frames, Requests

\* open and connect.
LEMMA Opens ==
    ASSUME Browsed!OpenSocket
    PROVE  \/ /\ socket \in {"connecting", "open", "cut"}
              /\ socket' = socket /\ outbox' = outbox /\ inbox' = inbox
           \/ /\ socket \notin {"connecting", "open", "cut"}
              /\ socket' = "connecting" /\ outbox' = <<>> /\ inbox' = <<>>
  BY DEF Browsed!OpenSocket, Browsed!linkVars

\* What the page is told to show.
LEMMA Showing ==
    ASSUME NEW a \in BOOLEAN, NEW b \in BOOLEAN, binds \in Nat, Browsed!Shows(a, b)
    PROVE  \/ binds = 0 /\ shown' = shown
           \/ /\ binds > 0 /\ shown' \in [connected : BOOLEAN, retrying : BOOLEAN]
              /\ shown'.connected = a /\ shown'.retrying = b
  BY DEF Browsed!Shows

\* scheduleReconnect and startEventStream.
LEMMA Chases ==
    ASSUME BrowserTyped, Browsed!Chase
    PROVE  /\ \/ attempt < MaxAttempts /\ timer' = TRUE /\ attempt' = attempt + 1
              \/ attempt >= MaxAttempts /\ timer' = FALSE /\ attempt' = attempt
           /\ \/ stream # "none" /\ stream' = stream /\ shown' = shown
              \/ /\ stream = "none" /\ stream' = "connecting"
                 /\ \/ binds = 0 /\ shown' = shown
                    \/ /\ binds > 0 /\ shown' \in [connected : BOOLEAN, retrying : BOOLEAN]
                       /\ ~shown'.connected /\ (shown'.retrying <=> attempt < MaxAttempts)
<1>1. attempt \in Nat /\ MaxAttempts \in Nat /\ binds \in Nat
  BY ClientAssumption DEF BrowserTyped, Scalars
<1>2. /\ timer' = (attempt < MaxAttempts)
      /\ attempt' = IF attempt < MaxAttempts THEN attempt + 1 ELSE attempt
      /\ stream # "none" => stream' = stream /\ shown' = shown
      /\ stream = "none" => stream' = "connecting" /\ Browsed!Shows(FALSE, attempt < MaxAttempts)
  BY DEF Browsed!Chase
<1>3. \/ attempt < MaxAttempts /\ timer' = TRUE /\ attempt' = attempt + 1
      \/ attempt >= MaxAttempts /\ timer' = FALSE /\ attempt' = attempt
  <2>1. CASE attempt < MaxAttempts
    BY <1>2, <2>1
  <2>2. CASE ~(attempt < MaxAttempts)
    <3>1. attempt >= MaxAttempts
      BY <1>1, <2>2
    <3>2. (attempt < MaxAttempts) = FALSE
      BY <2>2
    <3>3. timer' = FALSE
      BY <1>2, <3>2, Zenon
    <3>4. attempt' = attempt
      BY <1>2, <2>2, Zenon
    <3> QED
      BY <3>1, <3>3, <3>4
  <2> QED
    BY <2>1, <2>2
<1>4. stream = "none" => \/ binds = 0 /\ shown' = shown
                         \/ /\ binds > 0 /\ shown' \in [connected : BOOLEAN, retrying : BOOLEAN]
                            /\ ~shown'.connected /\ (shown'.retrying <=> attempt < MaxAttempts)
  <2>1. CASE attempt < MaxAttempts
    <3>1. stream = "none" => Browsed!Shows(FALSE, TRUE)
      BY <1>2, <2>1 DEF Browsed!Shows
    <3> QED
      BY <1>1, <2>1, <3>1, Showing
  <2>2. CASE ~(attempt < MaxAttempts)
    <3>0. (attempt < MaxAttempts) = FALSE
      BY <2>2
    <3>1. stream = "none" => Browsed!Shows(FALSE, FALSE)
      BY <1>2, <3>0, Zenon
    <3> QED
      BY <1>1, <2>2, <3>1, Showing
  <2> QED
    BY <2>1, <2>2
<1> QED
  BY <1>2, <1>3, <1>4

\* A call over the socket, or by HTTP.
LEMMA Calling ==
    ASSUME NEW c \in Calls, Browsed!Call(c)
    PROVE  /\ page = "app" /\ socket' = socket /\ inbox' = inbox
           /\ \/ socket = "open" /\ outbox' = Append(outbox, c)
              \/ outbox' = outbox
           /\ \E w \in {"socket", "http"} : calls' = [calls EXCEPT ![c] = w]
  BY DEF Browsed!Call, Browsed!linkVars

\* The server takes the first frame.
LEMMA Serving ==
    ASSUME BrowserTyped, Browsed!ServeFrame
    PROVE  /\ socket = "open" /\ outbox # <<>>
           /\ \/ /\ outbox[1] = "handshake" /\ inbox' = Append(inbox, "refused")
                 /\ socket' = "cut" /\ outbox' = <<>>
              \/ /\ outbox[1] = "handshake" /\ inbox' = Append(inbox, "welcome")
                 /\ socket' = socket /\ outbox' = Tail(outbox)
              \/ /\ outbox[1] # "handshake" /\ outbox[1] \in Calls /\ inbox' = Append(inbox, outbox[1])
                 /\ socket' = socket /\ outbox' = Tail(outbox)
<1>1. socket = "open" /\ outbox # <<>> /\ outbox \in Seq(Requests)
  BY DEF Browsed!ServeFrame, BrowserTyped, Links
<1>2. Head(outbox) = outbox[1] /\ outbox[1] \in Requests
  BY <1>1
<1>3. CASE outbox[1] = "handshake" /\ taken
  BY <1>1, <1>2, <1>3 DEF Browsed!ServeFrame
<1>4. CASE outbox[1] = "handshake" /\ ~taken
  BY <1>1, <1>2, <1>4 DEF Browsed!ServeFrame
<1>5. CASE outbox[1] # "handshake"
  BY <1>1, <1>2, <1>5, FrameTypes DEF Browsed!ServeFrame
<1> QED
  BY <1>3, <1>4, <1>5

\* What is on the socket, one frame more or one frame fewer.
LEMMA Moves ==
    ASSUME BrowserTyped
    PROVE  /\ Len(inbox) \in Nat /\ Len(outbox) \in Nat
           /\ inbox # <<>> => Len(inbox) >= 1 /\ Head(inbox) = inbox[1]
           /\ inbox # <<>> => /\ Tail(inbox) \in Seq(Frames) /\ Len(Tail(inbox)) = Len(inbox) - 1
                              /\ \A n \in 1 .. Len(inbox) - 1 : Tail(inbox)[n] = inbox[n + 1]
           /\ outbox # <<>> => Len(outbox) >= 1 /\ Head(outbox) = outbox[1]
           /\ outbox # <<>> => /\ Tail(outbox) \in Seq(Requests)
                               /\ Len(Tail(outbox)) = Len(outbox) - 1
                               /\ \A n \in 1 .. Len(outbox) - 1 : Tail(outbox)[n] = outbox[n + 1]
           /\ \A f \in Frames :
                 /\ Append(inbox, f) \in Seq(Frames) /\ Len(Append(inbox, f)) = Len(inbox) + 1
                 /\ \A n \in 1 .. Len(inbox) : Append(inbox, f)[n] = inbox[n]
                 /\ Append(inbox, f)[Len(inbox) + 1] = f
           /\ \A r \in Requests :
                 /\ Append(outbox, r) \in Seq(Requests) /\ Len(Append(outbox, r)) = Len(outbox) + 1
                 /\ \A n \in 1 .. Len(outbox) : Append(outbox, r)[n] = outbox[n]
                 /\ Append(outbox, r)[Len(outbox) + 1] = r
<1>1. inbox \in Seq(Frames) /\ outbox \in Seq(Requests)
  BY DEF BrowserTyped, Links
<1>2. Len(inbox) \in Nat /\ Len(outbox) \in Nat
  BY <1>1
<1>3. inbox # <<>> => Len(inbox) >= 1 /\ Head(inbox) = inbox[1]
  BY <1>1
<1>4. outbox # <<>> => Len(outbox) >= 1 /\ Head(outbox) = outbox[1]
  BY <1>1
<1>5. inbox # <<>> => /\ Tail(inbox) \in Seq(Frames) /\ Len(Tail(inbox)) = Len(inbox) - 1
                      /\ \A n \in 1 .. Len(inbox) - 1 : Tail(inbox)[n] = inbox[n + 1]
  BY <1>1, HeadTailProperties
<1>6. outbox # <<>> => /\ Tail(outbox) \in Seq(Requests) /\ Len(Tail(outbox)) = Len(outbox) - 1
                       /\ \A n \in 1 .. Len(outbox) - 1 : Tail(outbox)[n] = outbox[n + 1]
  BY <1>1, HeadTailProperties
<1>7. ASSUME NEW f \in Frames
      PROVE  /\ Append(inbox, f) \in Seq(Frames) /\ Len(Append(inbox, f)) = Len(inbox) + 1
             /\ \A n \in 1 .. Len(inbox) : Append(inbox, f)[n] = inbox[n]
             /\ Append(inbox, f)[Len(inbox) + 1] = f
  BY <1>1, AppendProperties
<1>8. ASSUME NEW r \in Requests
      PROVE  /\ Append(outbox, r) \in Seq(Requests) /\ Len(Append(outbox, r)) = Len(outbox) + 1
             /\ \A n \in 1 .. Len(outbox) : Append(outbox, r)[n] = outbox[n]
             /\ Append(outbox, r)[Len(outbox) + 1] = r
  BY <1>1, AppendProperties
<1> QED
  BY <1>2, <1>3, <1>4, <1>5, <1>6, <1>7, <1>8

\* Every step keeps the types of the socket.
LEMMA LinksStep == ASSUME BrowserTyped, [Browsed!Next]_(Browsed!vars) PROVE Links'
<1> USE DEF BrowserTyped, Links
<1>1. CASE Browsed!NetworkDrops
  BY <1>1, FrameTypes DEF Browsed!NetworkDrops, Browsed!Changes, Browsed!Cut, Browsed!serverVars,
     Browsed!linkVars, Browsed!clientVars, Browsed!callVars, Browsed!appVars
<1>2. CASE Browsed!ServerDies
  BY <1>2, FrameTypes DEF Browsed!ServerDies, Browsed!Changes, Browsed!Cut, Browsed!serverVars,
     Browsed!linkVars, Browsed!clientVars, Browsed!callVars, Browsed!appVars
<1>3. CASE Browsed!ServerStops
  BY <1>3, FrameTypes DEF Browsed!ServerStops, Browsed!Changes, Browsed!Subscribed,
     Browsed!serverVars, Browsed!linkVars, Browsed!clientVars, Browsed!callVars, Browsed!appVars
<1>4. CASE Browsed!ServerStarts
  BY <1>4, FrameTypes DEF Browsed!ServerStarts, Browsed!Changes, Browsed!serverVars,
     Browsed!linkVars, Browsed!clientVars, Browsed!callVars, Browsed!appVars
<1>5. CASE Browsed!AdmissionChanges
  BY <1>5, FrameTypes DEF Browsed!AdmissionChanges, Browsed!Changes, Browsed!serverVars,
     Browsed!linkVars, Browsed!clientVars, Browsed!callVars, Browsed!appVars
<1>6. CASE Browsed!ServeFrame
  <2>1. {"refused", "welcome"} \subseteq Frames /\ Calls \subseteq Frames /\ <<>> \in Seq(Requests)
    BY FrameTypes
  <2>2. socket' \in {"none", "connecting", "open", "cut", "closed"}
    BY <1>6, Serving
  <2>3. outbox' \in Seq(Requests)
    BY <1>6, <2>1, Serving, Moves
  <2>4. inbox' \in Seq(Frames)
    BY <1>6, <2>1, Serving, Moves
  <2> QED
    BY <2>2, <2>3, <2>4
<1>7. CASE Browsed!TimerFires
  BY <1>7, Opens, FrameTypes DEF Browsed!TimerFires, Browsed!serverVars, Browsed!linkVars,
     Browsed!clientVars, Browsed!callVars, Browsed!appVars
<1>8. CASE Browsed!SocketOpens
  BY <1>8, FrameTypes DEF Browsed!SocketOpens, Browsed!serverVars, Browsed!linkVars,
     Browsed!clientVars, Browsed!callVars, Browsed!appVars
<1>9. CASE Browsed!SocketCloses
  BY <1>9, Chases, FrameTypes DEF Browsed!SocketCloses, Browsed!Settled, Browsed!Pending,
     Browsed!serverVars, Browsed!linkVars, Browsed!clientVars, Browsed!callVars, Browsed!appVars
<1>10. CASE Browsed!Welcomed
  BY <1>10, FrameTypes DEF Browsed!Welcomed, Browsed!Takes, Browsed!Receives, Browsed!Shows,
     Browsed!serverVars, Browsed!linkVars, Browsed!clientVars, Browsed!callVars, Browsed!appVars
<1>11. CASE Browsed!IdentityRefused
  BY <1>11, FrameTypes DEF Browsed!IdentityRefused, Browsed!Takes, Browsed!Receives,
     Browsed!Shows, Browsed!serverVars, Browsed!linkVars, Browsed!clientVars, Browsed!callVars,
     Browsed!appVars
<1>12. CASE Browsed!ShutdownHeard
  BY <1>12, FrameTypes DEF Browsed!ShutdownHeard, Browsed!Receives, Browsed!Disconnect,
     Browsed!serverVars, Browsed!linkVars, Browsed!clientVars, Browsed!callVars, Browsed!appVars
<1>13. CASE Browsed!StreamOpens
  BY <1>13, FrameTypes DEF Browsed!StreamOpens, Browsed!Shows, Browsed!serverVars,
     Browsed!linkVars, Browsed!clientVars, Browsed!callVars, Browsed!appVars
<1>14. CASE Browsed!StreamRefused
  BY <1>14, FrameTypes DEF Browsed!StreamRefused, Browsed!Shows, Browsed!serverVars,
     Browsed!linkVars, Browsed!clientVars, Browsed!callVars, Browsed!appVars
<1>15. CASE Browsed!StreamDrops
  BY <1>15, FrameTypes DEF Browsed!StreamDrops, Browsed!serverVars, Browsed!linkVars,
     Browsed!clientVars, Browsed!callVars, Browsed!appVars
<1>16. CASE Browsed!Mounted
  BY <1>16, FrameTypes DEF Browsed!Mounted, Browsed!serverVars, Browsed!linkVars,
     Browsed!clientVars, Browsed!callVars, Browsed!appVars
<1>17. CASE Browsed!FirstAsked
  BY <1>17, Opens, FrameTypes DEF Browsed!FirstAsked, Browsed!Connect, Browsed!serverVars,
     Browsed!linkVars, Browsed!clientVars, Browsed!callVars, Browsed!appVars
<1>18. CASE Browsed!AskedAgain
  BY <1>18, Opens, FrameTypes DEF Browsed!AskedAgain, Browsed!Connect, Browsed!serverVars,
     Browsed!linkVars, Browsed!clientVars, Browsed!callVars, Browsed!appVars
<1>19. CASE Browsed!Paired
  BY <1>19, Opens, FrameTypes DEF Browsed!Paired, Browsed!Connect, Browsed!serverVars,
     Browsed!linkVars, Browsed!clientVars, Browsed!callVars, Browsed!appVars
<1>20. CASE Browsed!PairedForRole
  BY <1>20, FrameTypes DEF Browsed!PairedForRole, Browsed!Changes, Browsed!Settled,
     Browsed!Pending, Browsed!serverVars, Browsed!linkVars, Browsed!clientVars, Browsed!callVars,
     Browsed!appVars
<1>21. CASE Browsed!TryAgain
  BY <1>21, Opens, FrameTypes DEF Browsed!TryAgain, Browsed!Connect, Browsed!Changes,
     Browsed!serverVars, Browsed!linkVars, Browsed!clientVars, Browsed!callVars, Browsed!appVars
<1>22. ASSUME NEW c \in Calls, Browsed!Replied(c) PROVE Links'
  BY <1>22, FrameTypes DEF Browsed!Replied, Browsed!Takes, Browsed!Receives, Browsed!serverVars,
     Browsed!linkVars, Browsed!clientVars, Browsed!callVars, Browsed!appVars
<1>23. ASSUME NEW c \in Calls, Browsed!Call(c) PROVE Links'
  BY <1>23, Calling, FrameTypes DEF Browsed!Call, Browsed!serverVars, Browsed!linkVars,
     Browsed!clientVars, Browsed!callVars, Browsed!appVars
<1>24. ASSUME NEW c \in Calls, Browsed!ServeHttp(c) PROVE Links'
  BY <1>24, FrameTypes DEF Browsed!ServeHttp, Browsed!serverVars, Browsed!linkVars,
     Browsed!clientVars, Browsed!callVars, Browsed!appVars
<1>25. ASSUME NEW c \in Calls, Browsed!HttpAnswered(c) PROVE Links'
  BY <1>25, FrameTypes DEF Browsed!HttpAnswered, Browsed!serverVars, Browsed!linkVars,
     Browsed!clientVars, Browsed!callVars, Browsed!appVars
<1>26. ASSUME NEW c \in Calls, Browsed!HttpDenied(c) PROVE Links'
  BY <1>26, FrameTypes DEF Browsed!HttpDenied, Browsed!Disconnect, Browsed!serverVars,
     Browsed!linkVars, Browsed!clientVars, Browsed!callVars, Browsed!appVars
<1>27. CASE UNCHANGED Browsed!vars
  BY <1>27, FrameTypes DEF Browsed!vars, Browsed!serverVars, Browsed!linkVars, Browsed!clientVars,
     Browsed!callVars, Browsed!appVars
<1> QED
  BY <1>1, <1>2, <1>3, <1>4, <1>5, <1>6, <1>7, <1>8, <1>9, <1>10, <1>11, <1>12, <1>13, <1>14,
     <1>15, <1>16, <1>17, <1>18, <1>19, <1>20, <1>21, <1>22, <1>23, <1>24, <1>25, <1>26, <1>27 DEF
     Browsed!Next

\* Every step keeps the types of what the client and the page keep.
LEMMA ScalarsStep == ASSUME BrowserTyped, [Browsed!Next]_(Browsed!vars) PROVE Scalars'
<1> USE DEF BrowserTyped, Scalars
<1>1. CASE Browsed!NetworkDrops
  BY <1>1, ClientAssumption DEF Browsed!NetworkDrops, Browsed!Changes, Browsed!Cut,
     Browsed!serverVars, Browsed!linkVars, Browsed!clientVars, Browsed!callVars, Browsed!appVars
<1>2. CASE Browsed!ServerDies
  BY <1>2, ClientAssumption DEF Browsed!ServerDies, Browsed!Changes, Browsed!Cut,
     Browsed!serverVars, Browsed!linkVars, Browsed!clientVars, Browsed!callVars, Browsed!appVars
<1>3. CASE Browsed!ServerStops
  BY <1>3, ClientAssumption DEF Browsed!ServerStops, Browsed!Changes, Browsed!Subscribed,
     Browsed!serverVars, Browsed!linkVars, Browsed!clientVars, Browsed!callVars, Browsed!appVars
<1>4. CASE Browsed!ServerStarts
  BY <1>4, ClientAssumption DEF Browsed!ServerStarts, Browsed!Changes, Browsed!serverVars,
     Browsed!linkVars, Browsed!clientVars, Browsed!callVars, Browsed!appVars
<1>5. CASE Browsed!AdmissionChanges
  BY <1>5, ClientAssumption DEF Browsed!AdmissionChanges, Browsed!Changes, Browsed!serverVars,
     Browsed!linkVars, Browsed!clientVars, Browsed!callVars, Browsed!appVars
<1>6. CASE Browsed!ServeFrame
  BY <1>6, Serving, ClientAssumption DEF Browsed!ServeFrame, Browsed!serverVars, Browsed!linkVars,
     Browsed!clientVars, Browsed!callVars, Browsed!appVars
<1>7. CASE Browsed!TimerFires
  BY <1>7, Opens, ClientAssumption DEF Browsed!TimerFires, Browsed!serverVars, Browsed!linkVars,
     Browsed!clientVars, Browsed!callVars, Browsed!appVars
<1>8. CASE Browsed!SocketOpens
  BY <1>8, ClientAssumption DEF Browsed!SocketOpens, Browsed!serverVars, Browsed!linkVars,
     Browsed!clientVars, Browsed!callVars, Browsed!appVars
<1>9. CASE Browsed!SocketCloses
  <2>1. attempt' \in Nat /\ timer' \in BOOLEAN /\ stream' \in {"none", "connecting", "open"}
    <3>1. Browsed!Chase
      BY <1>9 DEF Browsed!SocketCloses
    <3>2. attempt + 1 \in Nat
      OBVIOUS
    <3> QED
      BY <3>1, <3>2, Chases
  <2> QED
    BY <1>9, <2>1 DEF Browsed!SocketCloses, Browsed!serverVars, Browsed!appVars
<1>10. CASE Browsed!Welcomed
  BY <1>10, ClientAssumption DEF Browsed!Welcomed, Browsed!Takes, Browsed!Receives, Browsed!Shows,
     Browsed!serverVars, Browsed!linkVars, Browsed!clientVars, Browsed!callVars, Browsed!appVars
<1>11. CASE Browsed!IdentityRefused
  BY <1>11, ClientAssumption DEF Browsed!IdentityRefused, Browsed!Takes, Browsed!Receives,
     Browsed!Shows, Browsed!serverVars, Browsed!linkVars, Browsed!clientVars, Browsed!callVars,
     Browsed!appVars
<1>12. CASE Browsed!ShutdownHeard
  BY <1>12, ClientAssumption DEF Browsed!ShutdownHeard, Browsed!Receives, Browsed!Disconnect,
     Browsed!serverVars, Browsed!linkVars, Browsed!clientVars, Browsed!callVars, Browsed!appVars
<1>13. CASE Browsed!StreamOpens
  BY <1>13, ClientAssumption DEF Browsed!StreamOpens, Browsed!Shows, Browsed!serverVars,
     Browsed!linkVars, Browsed!clientVars, Browsed!callVars, Browsed!appVars
<1>14. CASE Browsed!StreamRefused
  BY <1>14, ClientAssumption DEF Browsed!StreamRefused, Browsed!Shows, Browsed!serverVars,
     Browsed!linkVars, Browsed!clientVars, Browsed!callVars, Browsed!appVars
<1>15. CASE Browsed!StreamDrops
  BY <1>15, ClientAssumption DEF Browsed!StreamDrops, Browsed!serverVars, Browsed!linkVars,
     Browsed!clientVars, Browsed!callVars, Browsed!appVars
<1>16. CASE Browsed!Mounted
  BY <1>16, ClientAssumption DEF Browsed!Mounted, Browsed!serverVars, Browsed!linkVars,
     Browsed!clientVars, Browsed!callVars, Browsed!appVars
<1>17. CASE Browsed!FirstAsked
  <2>1. asking \in Nat /\ binds \in Nat /\ attempt \in Nat
    OBVIOUS
  <2>2. asking' \in Nat /\ binds' \in Nat /\ attempt' \in Nat
    BY <1>17, <2>1 DEF Browsed!FirstAsked, Browsed!Connect, Browsed!serverVars, Browsed!linkVars,
       Browsed!clientVars, Browsed!callVars, Browsed!appVars
  <2> QED
    BY <1>17, <2>2 DEF Browsed!FirstAsked, Browsed!Connect, Browsed!serverVars, Browsed!linkVars,
       Browsed!clientVars, Browsed!callVars, Browsed!appVars
<1>18. CASE Browsed!AskedAgain
  <2>1. asking \in Nat /\ binds \in Nat /\ attempt \in Nat
    OBVIOUS
  <2>2. asking' \in Nat /\ binds' \in Nat /\ attempt' \in Nat
    BY <1>18, <2>1 DEF Browsed!AskedAgain, Browsed!Connect, Browsed!serverVars, Browsed!linkVars,
       Browsed!clientVars, Browsed!callVars, Browsed!appVars
  <2> QED
    BY <1>18, <2>2 DEF Browsed!AskedAgain, Browsed!Connect, Browsed!serverVars, Browsed!linkVars,
       Browsed!clientVars, Browsed!callVars, Browsed!appVars
<1>19. CASE Browsed!Paired
  <2>1. asking \in Nat /\ binds \in Nat /\ attempt \in Nat
    OBVIOUS
  <2>2. asking' \in Nat /\ binds' \in Nat /\ attempt' \in Nat
    BY <1>19, <2>1 DEF Browsed!Paired, Browsed!Connect, Browsed!serverVars, Browsed!linkVars,
       Browsed!clientVars, Browsed!callVars, Browsed!appVars
  <2> QED
    BY <1>19, <2>2 DEF Browsed!Paired, Browsed!Connect, Browsed!serverVars, Browsed!linkVars,
       Browsed!clientVars, Browsed!callVars, Browsed!appVars
<1>20. CASE Browsed!PairedForRole
  BY <1>20, ClientAssumption DEF Browsed!PairedForRole, Browsed!Changes, Browsed!Settled,
     Browsed!Pending, Browsed!serverVars, Browsed!linkVars, Browsed!clientVars, Browsed!callVars,
     Browsed!appVars
<1>21. CASE Browsed!TryAgain
  BY <1>21, Opens, ClientAssumption DEF Browsed!TryAgain, Browsed!Connect, Browsed!Changes,
     Browsed!serverVars, Browsed!linkVars, Browsed!clientVars, Browsed!callVars, Browsed!appVars
<1>22. ASSUME NEW c \in Calls, Browsed!Replied(c) PROVE Scalars'
  BY <1>22, ClientAssumption DEF Browsed!Replied, Browsed!Takes, Browsed!Receives,
     Browsed!serverVars, Browsed!linkVars, Browsed!clientVars, Browsed!callVars, Browsed!appVars
<1>23. ASSUME NEW c \in Calls, Browsed!Call(c) PROVE Scalars'
  BY <1>23, Calling, ClientAssumption DEF Browsed!Call, Browsed!serverVars, Browsed!linkVars,
     Browsed!clientVars, Browsed!callVars, Browsed!appVars
<1>24. ASSUME NEW c \in Calls, Browsed!ServeHttp(c) PROVE Scalars'
  BY <1>24, ClientAssumption DEF Browsed!ServeHttp, Browsed!serverVars, Browsed!linkVars,
     Browsed!clientVars, Browsed!callVars, Browsed!appVars
<1>25. ASSUME NEW c \in Calls, Browsed!HttpAnswered(c) PROVE Scalars'
  BY <1>25, ClientAssumption DEF Browsed!HttpAnswered, Browsed!serverVars, Browsed!linkVars,
     Browsed!clientVars, Browsed!callVars, Browsed!appVars
<1>26. ASSUME NEW c \in Calls, Browsed!HttpDenied(c) PROVE Scalars'
  <2>1. asking' = asking + binds
    BY <1>26 DEF Browsed!HttpDenied
  <2>2. asking' \in Nat
    BY <2>1
  <2> QED
    BY <1>26, <2>2 DEF Browsed!HttpDenied, Browsed!Disconnect, Browsed!serverVars,
       Browsed!linkVars, Browsed!clientVars, Browsed!callVars, Browsed!appVars
<1>27. CASE UNCHANGED Browsed!vars
  BY <1>27, ClientAssumption DEF Browsed!vars, Browsed!serverVars, Browsed!linkVars,
     Browsed!clientVars, Browsed!callVars, Browsed!appVars
<1> QED
  BY <1>1, <1>2, <1>3, <1>4, <1>5, <1>6, <1>7, <1>8, <1>9, <1>10, <1>11, <1>12, <1>13, <1>14,
     <1>15, <1>16, <1>17, <1>18, <1>19, <1>20, <1>21, <1>22, <1>23, <1>24, <1>25, <1>26, <1>27 DEF
     Browsed!Next

\* Every step keeps the types of the calls.
LEMMA CallsStep == ASSUME BrowserTyped, [Browsed!Next]_(Browsed!vars) PROVE CallsOK'
<1> USE DEF BrowserTyped, CallsOK
<1>1. CASE Browsed!NetworkDrops
  BY <1>1 DEF Browsed!NetworkDrops, Browsed!Changes, Browsed!Cut, Browsed!serverVars,
     Browsed!linkVars, Browsed!clientVars, Browsed!callVars, Browsed!appVars
<1>2. CASE Browsed!ServerDies
  BY <1>2 DEF Browsed!ServerDies, Browsed!Changes, Browsed!Cut, Browsed!serverVars,
     Browsed!linkVars, Browsed!clientVars, Browsed!callVars, Browsed!appVars
<1>3. CASE Browsed!ServerStops
  BY <1>3 DEF Browsed!ServerStops, Browsed!Changes, Browsed!Subscribed, Browsed!serverVars,
     Browsed!linkVars, Browsed!clientVars, Browsed!callVars, Browsed!appVars
<1>4. CASE Browsed!ServerStarts
  BY <1>4 DEF Browsed!ServerStarts, Browsed!Changes, Browsed!serverVars, Browsed!linkVars,
     Browsed!clientVars, Browsed!callVars, Browsed!appVars
<1>5. CASE Browsed!AdmissionChanges
  BY <1>5 DEF Browsed!AdmissionChanges, Browsed!Changes, Browsed!serverVars, Browsed!linkVars,
     Browsed!clientVars, Browsed!callVars, Browsed!appVars
<1>6. CASE Browsed!ServeFrame
  BY <1>6, Serving DEF Browsed!ServeFrame, Browsed!serverVars, Browsed!linkVars,
     Browsed!clientVars, Browsed!callVars, Browsed!appVars
<1>7. CASE Browsed!TimerFires
  BY <1>7, Opens DEF Browsed!TimerFires, Browsed!serverVars, Browsed!linkVars, Browsed!clientVars,
     Browsed!callVars, Browsed!appVars
<1>8. CASE Browsed!SocketOpens
  BY <1>8 DEF Browsed!SocketOpens, Browsed!serverVars, Browsed!linkVars, Browsed!clientVars,
     Browsed!callVars, Browsed!appVars
<1>9. CASE Browsed!SocketCloses
  BY <1>9, Chases DEF Browsed!SocketCloses, Browsed!Settled, Browsed!Pending, Browsed!serverVars,
     Browsed!linkVars, Browsed!clientVars, Browsed!callVars, Browsed!appVars
<1>10. CASE Browsed!Welcomed
  BY <1>10 DEF Browsed!Welcomed, Browsed!Takes, Browsed!Receives, Browsed!Shows,
     Browsed!serverVars, Browsed!linkVars, Browsed!clientVars, Browsed!callVars, Browsed!appVars
<1>11. CASE Browsed!IdentityRefused
  BY <1>11 DEF Browsed!IdentityRefused, Browsed!Takes, Browsed!Receives, Browsed!Shows,
     Browsed!serverVars, Browsed!linkVars, Browsed!clientVars, Browsed!callVars, Browsed!appVars
<1>12. CASE Browsed!ShutdownHeard
  BY <1>12 DEF Browsed!ShutdownHeard, Browsed!Receives, Browsed!Disconnect, Browsed!serverVars,
     Browsed!linkVars, Browsed!clientVars, Browsed!callVars, Browsed!appVars
<1>13. CASE Browsed!StreamOpens
  BY <1>13 DEF Browsed!StreamOpens, Browsed!Shows, Browsed!serverVars, Browsed!linkVars,
     Browsed!clientVars, Browsed!callVars, Browsed!appVars
<1>14. CASE Browsed!StreamRefused
  BY <1>14 DEF Browsed!StreamRefused, Browsed!Shows, Browsed!serverVars, Browsed!linkVars,
     Browsed!clientVars, Browsed!callVars, Browsed!appVars
<1>15. CASE Browsed!StreamDrops
  BY <1>15 DEF Browsed!StreamDrops, Browsed!serverVars, Browsed!linkVars, Browsed!clientVars,
     Browsed!callVars, Browsed!appVars
<1>16. CASE Browsed!Mounted
  BY <1>16 DEF Browsed!Mounted, Browsed!serverVars, Browsed!linkVars, Browsed!clientVars,
     Browsed!callVars, Browsed!appVars
<1>17. CASE Browsed!FirstAsked
  BY <1>17, Opens DEF Browsed!FirstAsked, Browsed!Connect, Browsed!serverVars, Browsed!linkVars,
     Browsed!clientVars, Browsed!callVars, Browsed!appVars
<1>18. CASE Browsed!AskedAgain
  BY <1>18, Opens DEF Browsed!AskedAgain, Browsed!Connect, Browsed!serverVars, Browsed!linkVars,
     Browsed!clientVars, Browsed!callVars, Browsed!appVars
<1>19. CASE Browsed!Paired
  BY <1>19, Opens DEF Browsed!Paired, Browsed!Connect, Browsed!serverVars, Browsed!linkVars,
     Browsed!clientVars, Browsed!callVars, Browsed!appVars
<1>20. CASE Browsed!PairedForRole
  BY <1>20 DEF Browsed!PairedForRole, Browsed!Changes, Browsed!Settled, Browsed!Pending,
     Browsed!serverVars, Browsed!linkVars, Browsed!clientVars, Browsed!callVars, Browsed!appVars
<1>21. CASE Browsed!TryAgain
  BY <1>21, Opens DEF Browsed!TryAgain, Browsed!Connect, Browsed!Changes, Browsed!serverVars,
     Browsed!linkVars, Browsed!clientVars, Browsed!callVars, Browsed!appVars
<1>22. ASSUME NEW c \in Calls, Browsed!Replied(c) PROVE CallsOK'
  BY <1>22 DEF Browsed!Replied, Browsed!Takes, Browsed!Receives, Browsed!serverVars,
     Browsed!linkVars, Browsed!clientVars, Browsed!callVars, Browsed!appVars
<1>23. ASSUME NEW c \in Calls, Browsed!Call(c) PROVE CallsOK'
  BY <1>23, Calling DEF Browsed!Call, Browsed!serverVars, Browsed!linkVars, Browsed!clientVars,
     Browsed!callVars, Browsed!appVars
<1>24. ASSUME NEW c \in Calls, Browsed!ServeHttp(c) PROVE CallsOK'
  BY <1>24 DEF Browsed!ServeHttp, Browsed!serverVars, Browsed!linkVars, Browsed!clientVars,
     Browsed!callVars, Browsed!appVars
<1>25. ASSUME NEW c \in Calls, Browsed!HttpAnswered(c) PROVE CallsOK'
  BY <1>25 DEF Browsed!HttpAnswered, Browsed!serverVars, Browsed!linkVars, Browsed!clientVars,
     Browsed!callVars, Browsed!appVars
<1>26. ASSUME NEW c \in Calls, Browsed!HttpDenied(c) PROVE CallsOK'
  BY <1>26 DEF Browsed!HttpDenied, Browsed!Disconnect, Browsed!serverVars, Browsed!linkVars,
     Browsed!clientVars, Browsed!callVars, Browsed!appVars
<1>27. CASE UNCHANGED Browsed!vars
  BY <1>27 DEF Browsed!vars, Browsed!serverVars, Browsed!linkVars, Browsed!clientVars,
     Browsed!callVars, Browsed!appVars
<1> QED
  BY <1>1, <1>2, <1>3, <1>4, <1>5, <1>6, <1>7, <1>8, <1>9, <1>10, <1>11, <1>12, <1>13, <1>14,
     <1>15, <1>16, <1>17, <1>18, <1>19, <1>20, <1>21, <1>22, <1>23, <1>24, <1>25, <1>26, <1>27 DEF
     Browsed!Next

\* Every step keeps the type of what the page shows.
LEMMA ShownStep == ASSUME BrowserTyped, [Browsed!Next]_(Browsed!vars) PROVE ShownOK'
<1> USE DEF BrowserTyped, Scalars, ShownOK
<1>1. CASE Browsed!NetworkDrops
  BY <1>1, ClientAssumption DEF Browsed!NetworkDrops, Browsed!Changes, Browsed!Cut,
     Browsed!serverVars, Browsed!linkVars, Browsed!clientVars, Browsed!callVars, Browsed!appVars
<1>2. CASE Browsed!ServerDies
  BY <1>2, ClientAssumption DEF Browsed!ServerDies, Browsed!Changes, Browsed!Cut,
     Browsed!serverVars, Browsed!linkVars, Browsed!clientVars, Browsed!callVars, Browsed!appVars
<1>3. CASE Browsed!ServerStops
  BY <1>3, ClientAssumption DEF Browsed!ServerStops, Browsed!Changes, Browsed!Subscribed,
     Browsed!serverVars, Browsed!linkVars, Browsed!clientVars, Browsed!callVars, Browsed!appVars
<1>4. CASE Browsed!ServerStarts
  BY <1>4, ClientAssumption DEF Browsed!ServerStarts, Browsed!Changes, Browsed!serverVars,
     Browsed!linkVars, Browsed!clientVars, Browsed!callVars, Browsed!appVars
<1>5. CASE Browsed!AdmissionChanges
  BY <1>5, ClientAssumption DEF Browsed!AdmissionChanges, Browsed!Changes, Browsed!serverVars,
     Browsed!linkVars, Browsed!clientVars, Browsed!callVars, Browsed!appVars
<1>6. CASE Browsed!ServeFrame
  BY <1>6, Serving, ClientAssumption DEF Browsed!ServeFrame, Browsed!serverVars, Browsed!linkVars,
     Browsed!clientVars, Browsed!callVars, Browsed!appVars
<1>7. CASE Browsed!TimerFires
  BY <1>7, Opens, ClientAssumption DEF Browsed!TimerFires, Browsed!serverVars, Browsed!linkVars,
     Browsed!clientVars, Browsed!callVars, Browsed!appVars
<1>8. CASE Browsed!SocketOpens
  BY <1>8, ClientAssumption DEF Browsed!SocketOpens, Browsed!serverVars, Browsed!linkVars,
     Browsed!clientVars, Browsed!callVars, Browsed!appVars
<1>9. CASE Browsed!SocketCloses
  BY <1>9, Chases, ClientAssumption DEF Browsed!SocketCloses, Browsed!Settled, Browsed!Pending,
     Browsed!serverVars, Browsed!linkVars, Browsed!clientVars, Browsed!callVars, Browsed!appVars
<1>10. CASE Browsed!Welcomed
  BY <1>10, ClientAssumption DEF Browsed!Welcomed, Browsed!Takes, Browsed!Receives, Browsed!Shows,
     Browsed!serverVars, Browsed!linkVars, Browsed!clientVars, Browsed!callVars, Browsed!appVars
<1>11. CASE Browsed!IdentityRefused
  BY <1>11, ClientAssumption DEF Browsed!IdentityRefused, Browsed!Takes, Browsed!Receives,
     Browsed!Shows, Browsed!serverVars, Browsed!linkVars, Browsed!clientVars, Browsed!callVars,
     Browsed!appVars
<1>12. CASE Browsed!ShutdownHeard
  BY <1>12, ClientAssumption DEF Browsed!ShutdownHeard, Browsed!Receives, Browsed!Disconnect,
     Browsed!serverVars, Browsed!linkVars, Browsed!clientVars, Browsed!callVars, Browsed!appVars
<1>13. CASE Browsed!StreamOpens
  BY <1>13, ClientAssumption DEF Browsed!StreamOpens, Browsed!Shows, Browsed!serverVars,
     Browsed!linkVars, Browsed!clientVars, Browsed!callVars, Browsed!appVars
<1>14. CASE Browsed!StreamRefused
  BY <1>14, ClientAssumption DEF Browsed!StreamRefused, Browsed!Shows, Browsed!serverVars,
     Browsed!linkVars, Browsed!clientVars, Browsed!callVars, Browsed!appVars
<1>15. CASE Browsed!StreamDrops
  BY <1>15, ClientAssumption DEF Browsed!StreamDrops, Browsed!serverVars, Browsed!linkVars,
     Browsed!clientVars, Browsed!callVars, Browsed!appVars
<1>16. CASE Browsed!Mounted
  BY <1>16, ClientAssumption DEF Browsed!Mounted, Browsed!serverVars, Browsed!linkVars,
     Browsed!clientVars, Browsed!callVars, Browsed!appVars
<1>17. CASE Browsed!FirstAsked
  BY <1>17, Opens, ClientAssumption DEF Browsed!FirstAsked, Browsed!Connect, Browsed!serverVars,
     Browsed!linkVars, Browsed!clientVars, Browsed!callVars, Browsed!appVars
<1>18. CASE Browsed!AskedAgain
  BY <1>18, Opens, ClientAssumption DEF Browsed!AskedAgain, Browsed!Connect, Browsed!serverVars,
     Browsed!linkVars, Browsed!clientVars, Browsed!callVars, Browsed!appVars
<1>19. CASE Browsed!Paired
  BY <1>19, Opens, ClientAssumption DEF Browsed!Paired, Browsed!Connect, Browsed!serverVars,
     Browsed!linkVars, Browsed!clientVars, Browsed!callVars, Browsed!appVars
<1>20. CASE Browsed!PairedForRole
  BY <1>20, ClientAssumption DEF Browsed!PairedForRole, Browsed!Changes, Browsed!Settled,
     Browsed!Pending, Browsed!serverVars, Browsed!linkVars, Browsed!clientVars, Browsed!callVars,
     Browsed!appVars
<1>21. CASE Browsed!TryAgain
  BY <1>21, Opens, ClientAssumption DEF Browsed!TryAgain, Browsed!Connect, Browsed!Changes,
     Browsed!serverVars, Browsed!linkVars, Browsed!clientVars, Browsed!callVars, Browsed!appVars
<1>22. ASSUME NEW c \in Calls, Browsed!Replied(c) PROVE ShownOK'
  BY <1>22, ClientAssumption DEF Browsed!Replied, Browsed!Takes, Browsed!Receives,
     Browsed!serverVars, Browsed!linkVars, Browsed!clientVars, Browsed!callVars, Browsed!appVars
<1>23. ASSUME NEW c \in Calls, Browsed!Call(c) PROVE ShownOK'
  BY <1>23, Calling, ClientAssumption DEF Browsed!Call, Browsed!serverVars, Browsed!linkVars,
     Browsed!clientVars, Browsed!callVars, Browsed!appVars
<1>24. ASSUME NEW c \in Calls, Browsed!ServeHttp(c) PROVE ShownOK'
  BY <1>24, ClientAssumption DEF Browsed!ServeHttp, Browsed!serverVars, Browsed!linkVars,
     Browsed!clientVars, Browsed!callVars, Browsed!appVars
<1>25. ASSUME NEW c \in Calls, Browsed!HttpAnswered(c) PROVE ShownOK'
  BY <1>25, ClientAssumption DEF Browsed!HttpAnswered, Browsed!serverVars, Browsed!linkVars,
     Browsed!clientVars, Browsed!callVars, Browsed!appVars
<1>26. ASSUME NEW c \in Calls, Browsed!HttpDenied(c) PROVE ShownOK'
  BY <1>26, ClientAssumption DEF Browsed!HttpDenied, Browsed!Disconnect, Browsed!serverVars,
     Browsed!linkVars, Browsed!clientVars, Browsed!callVars, Browsed!appVars
<1>27. CASE UNCHANGED Browsed!vars
  BY <1>27, ClientAssumption DEF Browsed!vars, Browsed!serverVars, Browsed!linkVars,
     Browsed!clientVars, Browsed!callVars, Browsed!appVars
<1> QED
  BY <1>1, <1>2, <1>3, <1>4, <1>5, <1>6, <1>7, <1>8, <1>9, <1>10, <1>11, <1>12, <1>13, <1>14,
     <1>15, <1>16, <1>17, <1>18, <1>19, <1>20, <1>21, <1>22, <1>23, <1>24, <1>25, <1>26, <1>27 DEF
     Browsed!Next

\* Every step binds the listeners before it opens a road or makes a call.
LEMMA UnboundStep == ASSUME BrowserTyped, Unbound, [Browsed!Next]_(Browsed!vars) PROVE Unbound'
<1> USE DEF Unbound, BrowserTyped, Links, Scalars, CallsOK
<1>1. CASE Browsed!NetworkDrops
  BY <1>1 DEF Browsed!NetworkDrops, Browsed!Changes, Browsed!Cut, Browsed!serverVars,
     Browsed!linkVars, Browsed!clientVars, Browsed!callVars, Browsed!appVars
<1>2. CASE Browsed!ServerDies
  BY <1>2 DEF Browsed!ServerDies, Browsed!Changes, Browsed!Cut, Browsed!serverVars,
     Browsed!linkVars, Browsed!clientVars, Browsed!callVars, Browsed!appVars
<1>3. CASE Browsed!ServerStops
  BY <1>3 DEF Browsed!ServerStops, Browsed!Changes, Browsed!Subscribed, Browsed!serverVars,
     Browsed!linkVars, Browsed!clientVars, Browsed!callVars, Browsed!appVars
<1>4. CASE Browsed!ServerStarts
  BY <1>4 DEF Browsed!ServerStarts, Browsed!Changes, Browsed!serverVars, Browsed!linkVars,
     Browsed!clientVars, Browsed!callVars, Browsed!appVars
<1>5. CASE Browsed!AdmissionChanges
  BY <1>5 DEF Browsed!AdmissionChanges, Browsed!Changes, Browsed!serverVars, Browsed!linkVars,
     Browsed!clientVars, Browsed!callVars, Browsed!appVars
<1>6. CASE Browsed!ServeFrame
  BY <1>6, Serving DEF Browsed!ServeFrame, Browsed!serverVars, Browsed!linkVars,
     Browsed!clientVars, Browsed!callVars, Browsed!appVars
<1>7. CASE Browsed!TimerFires
  BY <1>7, Opens DEF Browsed!TimerFires, Browsed!serverVars, Browsed!linkVars, Browsed!clientVars,
     Browsed!callVars, Browsed!appVars
<1>8. CASE Browsed!SocketOpens
  BY <1>8 DEF Browsed!SocketOpens, Browsed!serverVars, Browsed!linkVars, Browsed!clientVars,
     Browsed!callVars, Browsed!appVars
<1>9. CASE Browsed!SocketCloses
  BY <1>9, Chases DEF Browsed!SocketCloses, Browsed!Settled, Browsed!Pending, Browsed!serverVars,
     Browsed!linkVars, Browsed!clientVars, Browsed!callVars, Browsed!appVars
<1>10. CASE Browsed!Welcomed
  BY <1>10 DEF Browsed!Welcomed, Browsed!Takes, Browsed!Receives, Browsed!Shows,
     Browsed!serverVars, Browsed!linkVars, Browsed!clientVars, Browsed!callVars, Browsed!appVars
<1>11. CASE Browsed!IdentityRefused
  BY <1>11 DEF Browsed!IdentityRefused, Browsed!Takes, Browsed!Receives, Browsed!Shows,
     Browsed!serverVars, Browsed!linkVars, Browsed!clientVars, Browsed!callVars, Browsed!appVars
<1>12. CASE Browsed!ShutdownHeard
  BY <1>12 DEF Browsed!ShutdownHeard, Browsed!Receives, Browsed!Disconnect, Browsed!serverVars,
     Browsed!linkVars, Browsed!clientVars, Browsed!callVars, Browsed!appVars
<1>13. CASE Browsed!StreamOpens
  BY <1>13 DEF Browsed!StreamOpens, Browsed!Shows, Browsed!serverVars, Browsed!linkVars,
     Browsed!clientVars, Browsed!callVars, Browsed!appVars
<1>14. CASE Browsed!StreamRefused
  BY <1>14 DEF Browsed!StreamRefused, Browsed!Shows, Browsed!serverVars, Browsed!linkVars,
     Browsed!clientVars, Browsed!callVars, Browsed!appVars
<1>15. CASE Browsed!StreamDrops
  BY <1>15 DEF Browsed!StreamDrops, Browsed!serverVars, Browsed!linkVars, Browsed!clientVars,
     Browsed!callVars, Browsed!appVars
<1>16. CASE Browsed!Mounted
  BY <1>16 DEF Browsed!Mounted, Browsed!serverVars, Browsed!linkVars, Browsed!clientVars,
     Browsed!callVars, Browsed!appVars
<1>17. CASE Browsed!FirstAsked
  BY <1>17, Opens DEF Browsed!FirstAsked, Browsed!Connect, Browsed!serverVars, Browsed!linkVars,
     Browsed!clientVars, Browsed!callVars, Browsed!appVars
<1>18. CASE Browsed!AskedAgain
  BY <1>18, Opens DEF Browsed!AskedAgain, Browsed!Connect, Browsed!serverVars, Browsed!linkVars,
     Browsed!clientVars, Browsed!callVars, Browsed!appVars
<1>19. CASE Browsed!Paired
  BY <1>19, Opens DEF Browsed!Paired, Browsed!Connect, Browsed!serverVars, Browsed!linkVars,
     Browsed!clientVars, Browsed!callVars, Browsed!appVars
<1>20. CASE Browsed!PairedForRole
  BY <1>20 DEF Browsed!PairedForRole, Browsed!Changes, Browsed!Settled, Browsed!Pending,
     Browsed!serverVars, Browsed!linkVars, Browsed!clientVars, Browsed!callVars, Browsed!appVars
<1>21. CASE Browsed!TryAgain
  <2>1. page = "app" /\ page' = page /\ binds' = binds
    BY <1>21 DEF Browsed!TryAgain, Browsed!Offered, Browsed!appVars
  <2>2. binds # 0
    BY <2>1
  <2> QED
    BY <2>1, <2>2
<1>22. ASSUME NEW c \in Calls, Browsed!Replied(c) PROVE Unbound'
  BY <1>22 DEF Browsed!Replied, Browsed!Takes, Browsed!Receives, Browsed!serverVars,
     Browsed!linkVars, Browsed!clientVars, Browsed!callVars, Browsed!appVars
<1>23. ASSUME NEW c \in Calls, Browsed!Call(c) PROVE Unbound'
  BY <1>23, Calling DEF Browsed!Call, Browsed!serverVars, Browsed!linkVars, Browsed!clientVars,
     Browsed!callVars, Browsed!appVars
<1>24. ASSUME NEW c \in Calls, Browsed!ServeHttp(c) PROVE Unbound'
  BY <1>24 DEF Browsed!ServeHttp, Browsed!serverVars, Browsed!linkVars, Browsed!clientVars,
     Browsed!callVars, Browsed!appVars
<1>25. ASSUME NEW c \in Calls, Browsed!HttpAnswered(c) PROVE Unbound'
  BY <1>25 DEF Browsed!HttpAnswered, Browsed!serverVars, Browsed!linkVars, Browsed!clientVars,
     Browsed!callVars, Browsed!appVars
<1>26. ASSUME NEW c \in Calls, Browsed!HttpDenied(c) PROVE Unbound'
  BY <1>26 DEF Browsed!HttpDenied, Browsed!Disconnect, Browsed!serverVars, Browsed!linkVars,
     Browsed!clientVars, Browsed!callVars, Browsed!appVars
<1>27. CASE UNCHANGED Browsed!vars
  BY <1>27 DEF Browsed!vars, Browsed!serverVars, Browsed!linkVars, Browsed!clientVars,
     Browsed!callVars, Browsed!appVars
<1> QED
  BY <1>1, <1>2, <1>3, <1>4, <1>5, <1>6, <1>7, <1>8, <1>9, <1>10, <1>11, <1>12, <1>13, <1>14,
     <1>15, <1>16, <1>17, <1>18, <1>19, <1>20, <1>21, <1>22, <1>23, <1>24, <1>25, <1>26, <1>27 DEF
     Browsed!Next

\* Every step keeps the socket, the timer and the stream to their order.
LEMMA RoadsStep == ASSUME BrowserTyped, Unbound, Roads, [Browsed!Next]_(Browsed!vars) PROVE Roads'
<1> USE DEF Roads, BrowserTyped, Links, Scalars, ShownOK
<1>1. CASE Browsed!NetworkDrops
  BY <1>1, ClientAssumption DEF Browsed!NetworkDrops, Browsed!Changes, Browsed!Cut,
     Browsed!serverVars, Browsed!linkVars, Browsed!clientVars, Browsed!callVars, Browsed!appVars
<1>2. CASE Browsed!ServerDies
  BY <1>2, ClientAssumption DEF Browsed!ServerDies, Browsed!Changes, Browsed!Cut,
     Browsed!serverVars, Browsed!linkVars, Browsed!clientVars, Browsed!callVars, Browsed!appVars
<1>3. CASE Browsed!ServerStops
  BY <1>3, ClientAssumption DEF Browsed!ServerStops, Browsed!Changes, Browsed!Subscribed,
     Browsed!serverVars, Browsed!linkVars, Browsed!clientVars, Browsed!callVars, Browsed!appVars
<1>4. CASE Browsed!ServerStarts
  BY <1>4, ClientAssumption DEF Browsed!ServerStarts, Browsed!Changes, Browsed!serverVars,
     Browsed!linkVars, Browsed!clientVars, Browsed!callVars, Browsed!appVars
<1>5. CASE Browsed!AdmissionChanges
  BY <1>5, ClientAssumption DEF Browsed!AdmissionChanges, Browsed!Changes, Browsed!serverVars,
     Browsed!linkVars, Browsed!clientVars, Browsed!callVars, Browsed!appVars
<1>6. CASE Browsed!ServeFrame
  BY <1>6, Serving, ClientAssumption DEF Browsed!ServeFrame, Browsed!serverVars, Browsed!linkVars,
     Browsed!clientVars, Browsed!callVars, Browsed!appVars
<1>7. CASE Browsed!TimerFires
  BY <1>7, Opens, ClientAssumption DEF Browsed!TimerFires, Browsed!serverVars, Browsed!linkVars,
     Browsed!clientVars, Browsed!callVars, Browsed!appVars
<1>8. CASE Browsed!SocketOpens
  BY <1>8, ClientAssumption DEF Browsed!SocketOpens, Browsed!serverVars, Browsed!linkVars,
     Browsed!clientVars, Browsed!callVars, Browsed!appVars
<1>9. CASE Browsed!SocketCloses
  BY <1>9, Chases, ClientAssumption DEF Browsed!SocketCloses, Browsed!Settled, Browsed!Pending,
     Browsed!serverVars, Browsed!linkVars, Browsed!clientVars, Browsed!callVars, Browsed!appVars
<1>10. CASE Browsed!Welcomed
  BY <1>10, ClientAssumption DEF Browsed!Welcomed, Browsed!Takes, Browsed!Receives, Browsed!Shows,
     Browsed!serverVars, Browsed!linkVars, Browsed!clientVars, Browsed!callVars, Browsed!appVars
<1>11. CASE Browsed!IdentityRefused
  BY <1>11, ClientAssumption DEF Browsed!IdentityRefused, Browsed!Takes, Browsed!Receives,
     Browsed!Shows, Browsed!serverVars, Browsed!linkVars, Browsed!clientVars, Browsed!callVars,
     Browsed!appVars
<1>12. CASE Browsed!ShutdownHeard
  BY <1>12, ClientAssumption DEF Browsed!ShutdownHeard, Browsed!Receives, Browsed!Disconnect,
     Browsed!serverVars, Browsed!linkVars, Browsed!clientVars, Browsed!callVars, Browsed!appVars
<1>13. CASE Browsed!StreamOpens
  <2>1. stream = "connecting" /\ stream' = "open" /\ Browsed!Shows(TRUE, FALSE) /\ binds # 0
    BY <1>13 DEF Browsed!StreamOpens, Unbound
  <2>2. ~shown'.retrying
    BY <2>1, Showing
  <2> QED
    BY <1>13, <2>1, <2>2 DEF Browsed!StreamOpens, Browsed!linkVars
<1>14. CASE Browsed!StreamRefused
  BY <1>14, ClientAssumption DEF Browsed!StreamRefused, Browsed!Shows, Browsed!serverVars,
     Browsed!linkVars, Browsed!clientVars, Browsed!callVars, Browsed!appVars
<1>15. CASE Browsed!StreamDrops
  BY <1>15, ClientAssumption DEF Browsed!StreamDrops, Browsed!serverVars, Browsed!linkVars,
     Browsed!clientVars, Browsed!callVars, Browsed!appVars
<1>16. CASE Browsed!Mounted
  BY <1>16, ClientAssumption DEF Browsed!Mounted, Browsed!serverVars, Browsed!linkVars,
     Browsed!clientVars, Browsed!callVars, Browsed!appVars
<1>17. CASE Browsed!FirstAsked
  BY <1>17, Opens, ClientAssumption DEF Browsed!FirstAsked, Browsed!Connect, Browsed!serverVars,
     Browsed!linkVars, Browsed!clientVars, Browsed!callVars, Browsed!appVars
<1>18. CASE Browsed!AskedAgain
  BY <1>18, Opens, ClientAssumption DEF Browsed!AskedAgain, Browsed!Connect, Browsed!serverVars,
     Browsed!linkVars, Browsed!clientVars, Browsed!callVars, Browsed!appVars
<1>19. CASE Browsed!Paired
  BY <1>19, Opens, ClientAssumption DEF Browsed!Paired, Browsed!Connect, Browsed!serverVars,
     Browsed!linkVars, Browsed!clientVars, Browsed!callVars, Browsed!appVars
<1>20. CASE Browsed!PairedForRole
  BY <1>20, ClientAssumption DEF Browsed!PairedForRole, Browsed!Changes, Browsed!Settled,
     Browsed!Pending, Browsed!serverVars, Browsed!linkVars, Browsed!clientVars, Browsed!callVars,
     Browsed!appVars
<1>21. CASE Browsed!TryAgain
  BY <1>21, Opens, ClientAssumption DEF Browsed!TryAgain, Browsed!Connect, Browsed!Changes,
     Browsed!serverVars, Browsed!linkVars, Browsed!clientVars, Browsed!callVars, Browsed!appVars
<1>22. ASSUME NEW c \in Calls, Browsed!Replied(c) PROVE Roads'
  BY <1>22, ClientAssumption DEF Browsed!Replied, Browsed!Takes, Browsed!Receives,
     Browsed!serverVars, Browsed!linkVars, Browsed!clientVars, Browsed!callVars, Browsed!appVars
<1>23. ASSUME NEW c \in Calls, Browsed!Call(c) PROVE Roads'
  BY <1>23, Calling, ClientAssumption DEF Browsed!Call, Browsed!serverVars, Browsed!linkVars,
     Browsed!clientVars, Browsed!callVars, Browsed!appVars
<1>24. ASSUME NEW c \in Calls, Browsed!ServeHttp(c) PROVE Roads'
  BY <1>24, ClientAssumption DEF Browsed!ServeHttp, Browsed!serverVars, Browsed!linkVars,
     Browsed!clientVars, Browsed!callVars, Browsed!appVars
<1>25. ASSUME NEW c \in Calls, Browsed!HttpAnswered(c) PROVE Roads'
  BY <1>25, ClientAssumption DEF Browsed!HttpAnswered, Browsed!serverVars, Browsed!linkVars,
     Browsed!clientVars, Browsed!callVars, Browsed!appVars
<1>26. ASSUME NEW c \in Calls, Browsed!HttpDenied(c) PROVE Roads'
  BY <1>26, ClientAssumption DEF Browsed!HttpDenied, Browsed!Disconnect, Browsed!serverVars,
     Browsed!linkVars, Browsed!clientVars, Browsed!callVars, Browsed!appVars
<1>27. CASE UNCHANGED Browsed!vars
  BY <1>27, ClientAssumption DEF Browsed!vars, Browsed!serverVars, Browsed!linkVars,
     Browsed!clientVars, Browsed!callVars, Browsed!appVars
<1> QED
  BY <1>1, <1>2, <1>3, <1>4, <1>5, <1>6, <1>7, <1>8, <1>9, <1>10, <1>11, <1>12, <1>13, <1>14,
     <1>15, <1>16, <1>17, <1>18, <1>19, <1>20, <1>21, <1>22, <1>23, <1>24, <1>25, <1>26, <1>27 DEF
     Browsed!Next

\* Every step that gives up says so on the page.
LEMMA GivenUpStep ==
    ASSUME BrowserTyped, Unbound, Roads, Wire, GivenUp, [Browsed!Next]_(Browsed!vars)
    PROVE  GivenUp'
<1> USE DEF GivenUp, Browsed!Trying, BrowserTyped, Unbound, Roads, Links, Scalars, ShownOK
<1>1. CASE Browsed!NetworkDrops
  BY <1>1, ClientAssumption DEF Browsed!NetworkDrops, Browsed!Changes, Browsed!Cut,
     Browsed!serverVars, Browsed!linkVars, Browsed!clientVars, Browsed!callVars, Browsed!appVars
<1>2. CASE Browsed!ServerDies
  BY <1>2, ClientAssumption DEF Browsed!ServerDies, Browsed!Changes, Browsed!Cut,
     Browsed!serverVars, Browsed!linkVars, Browsed!clientVars, Browsed!callVars, Browsed!appVars
<1>3. CASE Browsed!ServerStops
  BY <1>3, ClientAssumption DEF Browsed!ServerStops, Browsed!Changes, Browsed!Subscribed,
     Browsed!serverVars, Browsed!linkVars, Browsed!clientVars, Browsed!callVars, Browsed!appVars
<1>4. CASE Browsed!ServerStarts
  BY <1>4, ClientAssumption DEF Browsed!ServerStarts, Browsed!Changes, Browsed!serverVars,
     Browsed!linkVars, Browsed!clientVars, Browsed!callVars, Browsed!appVars
<1>5. CASE Browsed!AdmissionChanges
  BY <1>5, ClientAssumption DEF Browsed!AdmissionChanges, Browsed!Changes, Browsed!serverVars,
     Browsed!linkVars, Browsed!clientVars, Browsed!callVars, Browsed!appVars
<1>6. CASE Browsed!ServeFrame
  BY <1>6, Serving, ClientAssumption DEF Browsed!ServeFrame, Browsed!serverVars, Browsed!linkVars,
     Browsed!clientVars, Browsed!callVars, Browsed!appVars
<1>7. CASE Browsed!TimerFires
  BY <1>7, Opens, ClientAssumption DEF Browsed!TimerFires, Browsed!serverVars, Browsed!linkVars,
     Browsed!clientVars, Browsed!callVars, Browsed!appVars
<1>8. CASE Browsed!SocketOpens
  BY <1>8, ClientAssumption DEF Browsed!SocketOpens, Browsed!serverVars, Browsed!linkVars,
     Browsed!clientVars, Browsed!callVars, Browsed!appVars
<1>9. CASE Browsed!SocketCloses
  BY <1>9, Chases, ClientAssumption DEF Browsed!SocketCloses, Browsed!Settled, Browsed!Pending,
     Browsed!serverVars, Browsed!linkVars, Browsed!clientVars, Browsed!callVars, Browsed!appVars
<1>10. CASE Browsed!Welcomed
  BY <1>10, ClientAssumption DEF Browsed!Welcomed, Browsed!Takes, Browsed!Receives, Browsed!Shows,
     Browsed!serverVars, Browsed!linkVars, Browsed!clientVars, Browsed!callVars, Browsed!appVars
<1>11. CASE Browsed!IdentityRefused
  BY <1>11, ClientAssumption DEF Browsed!IdentityRefused, Browsed!Takes, Browsed!Receives,
     Browsed!Shows, Browsed!serverVars, Browsed!linkVars, Browsed!clientVars, Browsed!callVars,
     Browsed!appVars
<1>12. CASE Browsed!ShutdownHeard
  <2>1. page' = page /\ misled' = misled /\ binds' = binds
    BY <1>12 DEF Browsed!ShutdownHeard
  <2>2. CASE page # "app"
    BY <2>1, <2>2
  <2>3. CASE page = "app"
    <3>1. binds > 0
      BY <2>3
    <3>2. shown' = [shown EXCEPT !.connected = FALSE]
      BY <1>12, <3>1 DEF Browsed!ShutdownHeard
    <3>3. ~shown'.connected /\ shown'.retrying = shown.retrying
      BY <3>2
    <3>4. ~shown.retrying \/ misled
      <4>1. CASE goodbye
        BY <4>1
      <4>2. CASE Browsed!Receives /\ Head(inbox) = "shutdown"
        <5>1. 1 \in 1 .. Len(inbox) /\ inbox[1] = "shutdown"
          BY <4>2, Moves DEF Browsed!Receives
        <5>2. Stands \/ \E m \in 1 .. 0 : inbox[m] = "welcome"
          BY <5>1 DEF Wire
        <5> QED
          BY <5>2 DEF Stands
      <4> QED
        BY <1>12, <4>1, <4>2 DEF Browsed!ShutdownHeard
    <3> QED
      BY <2>1, <3>3, <3>4
  <2> QED
    BY <2>2, <2>3
<1>13. CASE Browsed!StreamOpens
  BY <1>13, ClientAssumption DEF Browsed!StreamOpens, Browsed!Shows, Browsed!serverVars,
     Browsed!linkVars, Browsed!clientVars, Browsed!callVars, Browsed!appVars
<1>14. CASE Browsed!StreamRefused
  BY <1>14, ClientAssumption DEF Browsed!StreamRefused, Browsed!Shows, Browsed!serverVars,
     Browsed!linkVars, Browsed!clientVars, Browsed!callVars, Browsed!appVars
<1>15. CASE Browsed!StreamDrops
  BY <1>15, ClientAssumption DEF Browsed!StreamDrops, Browsed!serverVars, Browsed!linkVars,
     Browsed!clientVars, Browsed!callVars, Browsed!appVars
<1>16. CASE Browsed!Mounted
  BY <1>16, ClientAssumption DEF Browsed!Mounted, Browsed!serverVars, Browsed!linkVars,
     Browsed!clientVars, Browsed!callVars, Browsed!appVars
<1>17. CASE Browsed!FirstAsked
  BY <1>17, Opens, ClientAssumption DEF Browsed!FirstAsked, Browsed!Connect, Browsed!serverVars,
     Browsed!linkVars, Browsed!clientVars, Browsed!callVars, Browsed!appVars
<1>18. CASE Browsed!AskedAgain
  BY <1>18, Opens, ClientAssumption DEF Browsed!AskedAgain, Browsed!Connect, Browsed!serverVars,
     Browsed!linkVars, Browsed!clientVars, Browsed!callVars, Browsed!appVars
<1>19. CASE Browsed!Paired
  BY <1>19, Opens, ClientAssumption DEF Browsed!Paired, Browsed!Connect, Browsed!serverVars,
     Browsed!linkVars, Browsed!clientVars, Browsed!callVars, Browsed!appVars
<1>20. CASE Browsed!PairedForRole
  BY <1>20, ClientAssumption DEF Browsed!PairedForRole, Browsed!Changes, Browsed!Settled,
     Browsed!Pending, Browsed!serverVars, Browsed!linkVars, Browsed!clientVars, Browsed!callVars,
     Browsed!appVars
<1>21. CASE Browsed!TryAgain
  BY <1>21, Opens, ClientAssumption DEF Browsed!TryAgain, Browsed!Connect, Browsed!Changes,
     Browsed!serverVars, Browsed!linkVars, Browsed!clientVars, Browsed!callVars, Browsed!appVars
<1>22. ASSUME NEW c \in Calls, Browsed!Replied(c) PROVE GivenUp'
  BY <1>22, ClientAssumption DEF Browsed!Replied, Browsed!Takes, Browsed!Receives,
     Browsed!serverVars, Browsed!linkVars, Browsed!clientVars, Browsed!callVars, Browsed!appVars
<1>23. ASSUME NEW c \in Calls, Browsed!Call(c) PROVE GivenUp'
  BY <1>23, Calling, ClientAssumption DEF Browsed!Call, Browsed!serverVars, Browsed!linkVars,
     Browsed!clientVars, Browsed!callVars, Browsed!appVars
<1>24. ASSUME NEW c \in Calls, Browsed!ServeHttp(c) PROVE GivenUp'
  BY <1>24, ClientAssumption DEF Browsed!ServeHttp, Browsed!serverVars, Browsed!linkVars,
     Browsed!clientVars, Browsed!callVars, Browsed!appVars
<1>25. ASSUME NEW c \in Calls, Browsed!HttpAnswered(c) PROVE GivenUp'
  BY <1>25, ClientAssumption DEF Browsed!HttpAnswered, Browsed!serverVars, Browsed!linkVars,
     Browsed!clientVars, Browsed!callVars, Browsed!appVars
<1>26. ASSUME NEW c \in Calls, Browsed!HttpDenied(c) PROVE GivenUp'
  BY <1>26, ClientAssumption DEF Browsed!HttpDenied, Browsed!Disconnect, Browsed!serverVars,
     Browsed!linkVars, Browsed!clientVars, Browsed!callVars, Browsed!appVars
<1>27. CASE UNCHANGED Browsed!vars
  BY <1>27, ClientAssumption DEF Browsed!vars, Browsed!serverVars, Browsed!linkVars,
     Browsed!clientVars, Browsed!callVars, Browsed!appVars
<1> QED
  BY <1>1, <1>2, <1>3, <1>4, <1>5, <1>6, <1>7, <1>8, <1>9, <1>10, <1>11, <1>12, <1>13, <1>14,
     <1>15, <1>16, <1>17, <1>18, <1>19, <1>20, <1>21, <1>22, <1>23, <1>24, <1>25, <1>26, <1>27 DEF
     Browsed!Next

\* Every step keeps the order of the frames.
LEMMA WireStep ==
    ASSUME BrowserTyped, Unbound, Roads, Wire, [Browsed!Next]_(Browsed!vars)
    PROVE  Wire'
<1> USE DEF Wire, Stands, BrowserTyped, Links, ShownOK
<1>1. CASE Browsed!NetworkDrops
  BY <1>1, FrameTypes DEF Browsed!NetworkDrops, Browsed!Changes, Browsed!Cut, Browsed!serverVars,
     Browsed!linkVars, Browsed!clientVars, Browsed!callVars, Browsed!appVars
<1>2. CASE Browsed!ServerDies
  BY <1>2, FrameTypes DEF Browsed!ServerDies, Browsed!Changes, Browsed!Cut, Browsed!serverVars,
     Browsed!linkVars, Browsed!clientVars, Browsed!callVars, Browsed!appVars
<1>3. CASE Browsed!ServerStops
  BY <1>3, FrameTypes DEF Browsed!ServerStops, Browsed!Changes, Browsed!Subscribed,
     Browsed!serverVars, Browsed!linkVars, Browsed!clientVars, Browsed!callVars, Browsed!appVars
<1>4. CASE Browsed!ServerStarts
  BY <1>4, FrameTypes DEF Browsed!ServerStarts, Browsed!Changes, Browsed!serverVars,
     Browsed!linkVars, Browsed!clientVars, Browsed!callVars, Browsed!appVars
<1>5. CASE Browsed!AdmissionChanges
  BY <1>5, FrameTypes DEF Browsed!AdmissionChanges, Browsed!Changes, Browsed!serverVars,
     Browsed!linkVars, Browsed!clientVars, Browsed!callVars, Browsed!appVars
<1>6. CASE Browsed!ServeFrame
  <2>1. socket = "open" /\ outbox # <<>> /\ Len(outbox) \in Nat /\ Len(inbox) \in Nat
    BY <1>6, Serving, Moves
  <2>2. \A n \in 1 .. Len(inbox) : inbox[n] # "refused"
    BY <2>1
  <2>3. ASSUME outbox' = Tail(outbox)
        PROVE  /\ \A n \in 2 .. Len(outbox') : outbox'[n] # "handshake"
               /\ outbox' = <<>> \/ outbox'[1] # "handshake"
    <3>1. Len(outbox') = Len(outbox) - 1 /\ \A n \in 1 .. Len(outbox) - 1 : outbox'[n] = outbox[n + 1]
      BY <2>1, <2>3, Moves
    <3>2. ASSUME NEW n \in 1 .. Len(outbox')
          PROVE  outbox'[n] # "handshake"
      <4>1. n \in 1 .. Len(outbox) - 1 /\ n + 1 \in 2 .. Len(outbox)
        BY <2>1, <3>1
      <4> QED
        BY <3>1, <4>1
    <3>3. Tail(outbox) \in Seq(Requests)
      BY <2>1, Moves
    <3>4. outbox' = <<>> \/ 1 \in 1 .. Len(outbox')
      BY <2>3, <3>3
    <3>5. \A n \in 2 .. Len(outbox') : n \in 1 .. Len(outbox')
      BY <2>1, <3>1
    <3> QED
      BY <3>2, <3>4, <3>5
  <2>4. ASSUME NEW f \in Frames, inbox' = Append(inbox, f)
        PROVE  /\ Len(inbox') = Len(inbox) + 1 /\ inbox'[Len(inbox) + 1] = f
               /\ \A n \in 1 .. Len(inbox) : inbox'[n] = inbox[n]
               /\ \A n \in 1 .. Len(inbox') : n = Len(inbox) + 1 \/ n \in 1 .. Len(inbox)
    BY <2>1, <2>4, Moves
  <2>5. handshaked' = handshaked /\ shown' = shown
    BY <1>6 DEF Browsed!ServeFrame, Browsed!clientVars, Browsed!appVars
  <2>6. Stands' = Stands
    BY <2>5
  <2>7. CASE /\ outbox[1] = "handshake" /\ inbox' = Append(inbox, "refused")
             /\ socket' = "cut" /\ outbox' = <<>>
    <3>1. inbox = <<>> /\ "refused" \in Frames
      BY <2>1, <2>7, FrameTypes
    <3>2. Len(inbox') = 1 /\ inbox'[1] = "refused"
      BY <2>4, <2>7, <3>1
    <3> QED
      BY <2>7, <3>2
  <2>8. CASE /\ outbox[1] = "handshake" /\ inbox' = Append(inbox, "welcome")
             /\ socket' = socket /\ outbox' = Tail(outbox)
    <3>1. inbox = <<>> /\ "welcome" \in Frames
      BY <2>1, <2>8, FrameTypes
    <3>2. Len(inbox') = 1 /\ inbox'[1] = "welcome"
      BY <2>4, <2>8, <3>1
    <3> QED
      BY <2>3, <2>8, <3>2
  <2>9. CASE /\ outbox[1] # "handshake" /\ outbox[1] \in Calls /\ inbox' = Append(inbox, outbox[1])
             /\ socket' = socket /\ outbox' = Tail(outbox)
    <3>1. outbox[1] \in Frames /\ outbox[1] \notin {"welcome", "refused", "shutdown"}
      BY <2>9, FrameTypes
    <3>2. /\ Len(inbox') = Len(inbox) + 1 /\ inbox'[Len(inbox) + 1] = outbox[1]
          /\ \A n \in 1 .. Len(inbox) : inbox'[n] = inbox[n]
          /\ \A n \in 1 .. Len(inbox') : n = Len(inbox) + 1 \/ n \in 1 .. Len(inbox)
      BY <2>4, <2>9, <3>1
    <3>3. \A n \in 1 .. Len(inbox') : inbox'[n] # "refused"
      BY <2>2, <3>1, <3>2
    <3>4. \A n \in 1 .. Len(inbox') : inbox'[n] = "shutdown" =>
             Stands \/ \E m \in 1 .. n - 1 : inbox'[m] = "welcome"
      <4>1. TAKE n \in 1 .. Len(inbox')
      <4>2. HAVE inbox'[n] = "shutdown"
      <4>3. n \in 1 .. Len(inbox) /\ inbox[n] = "shutdown"
        BY <3>1, <3>2, <4>1, <4>2
      <4>4. \A m \in 1 .. n - 1 : m \in 1 .. Len(inbox)
        BY <2>1, <4>3
      <4>5. Stands \/ \E m \in 1 .. n - 1 : inbox[m] = "welcome"
        BY <4>3
      <4> QED
        BY <3>2, <4>4, <4>5
    <3>5. Stands \/ \E n \in 1 .. Len(inbox') : inbox'[n] = "welcome"
      <4>1. Stands \/ \E n \in 1 .. Len(inbox) : inbox[n] = "welcome"
        BY <2>1, <2>9
      <4>2. \A n \in 1 .. Len(inbox) : n \in 1 .. Len(inbox')
        BY <2>1, <3>2
      <4> QED
        BY <3>2, <4>1, <4>2
    <3> QED
      BY <2>3, <2>6, <2>9, <3>3, <3>4, <3>5
  <2> QED
    BY <1>6, <2>7, <2>8, <2>9, Serving
<1>7. CASE Browsed!TimerFires
  BY <1>7, Opens, FrameTypes DEF Browsed!TimerFires, Browsed!serverVars, Browsed!linkVars,
     Browsed!clientVars, Browsed!callVars, Browsed!appVars
<1>8. CASE Browsed!SocketOpens
  <2>1. socket = "connecting" /\ socket' = "open" /\ outbox' = <<"handshake">> /\ inbox' = inbox
    BY <1>8 DEF Browsed!SocketOpens
  <2>2. inbox = <<>>
    BY <2>1 DEF Roads
  <2>3. Len(outbox') = 1 /\ outbox'[1] = "handshake" /\ Len(inbox') = 0 /\ outbox' # <<>>
    BY <2>1, <2>2
  <2>5. \A n \in 2 .. Len(outbox') : outbox'[n] # "handshake"
    BY <2>3
  <2>6. outbox' # <<>> /\ outbox'[1] = "handshake" => inbox' = <<>>
    BY <2>1, <2>2
  <2>7. \A n \in 1 .. Len(inbox') : inbox'[n] = "refused" => socket' = "cut" /\ Len(inbox') = 1
    BY <2>3
  <2>8. \A n \in 1 .. Len(inbox') : inbox'[n] = "shutdown" =>
           Stands' \/ \E m \in 1 .. n - 1 : inbox'[m] = "welcome"
    BY <2>3
  <2>9. socket' = "open" => \/ Stands' \/ (outbox' # <<>> /\ outbox'[1] = "handshake")
                            \/ \E n \in 1 .. Len(inbox') : inbox'[n] = "welcome"
    BY <2>3
  <2> QED
    BY <2>5, <2>6, <2>7, <2>8, <2>9 DEF Wire
<1>9. CASE Browsed!SocketCloses
  BY <1>9, Chases, FrameTypes DEF Browsed!SocketCloses, Browsed!Settled, Browsed!Pending,
     Browsed!serverVars, Browsed!linkVars, Browsed!clientVars, Browsed!callVars, Browsed!appVars
<1>10. CASE Browsed!Welcomed
  <2>1. /\ inbox # <<>> /\ inbox[1] = "welcome" /\ inbox' = Tail(inbox)
        /\ socket' = socket /\ outbox' = outbox /\ handshaked'
    BY <1>10, Moves DEF Browsed!Welcomed, Browsed!Takes, Browsed!Receives
  <2>2. /\ Len(inbox) \in Nat /\ Len(inbox') = Len(inbox) - 1
        /\ \A n \in 1 .. Len(inbox) - 1 : inbox'[n] = inbox[n + 1]
    BY <2>1, Moves
  <2>3. Stands'
    <3>1. binds # 0 /\ Browsed!Shows(TRUE, FALSE)
      BY <1>10 DEF Browsed!Welcomed, Browsed!Takes, Browsed!Receives, Unbound
    <3> QED
      BY <2>1, <3>1, Showing DEF Scalars
  <2>5. \A n \in 2 .. Len(outbox') : outbox'[n] # "handshake"
    BY <2>1, <2>2
  <2>6. outbox' # <<>> /\ outbox'[1] = "handshake" => inbox' = <<>>
    BY <2>1, <2>2
  <2>7. \A n \in 1 .. Len(inbox') : inbox'[n] = "refused" => socket' = "cut" /\ Len(inbox') = 1
    <3>1. TAKE n \in 1 .. Len(inbox')
    <3>2. HAVE inbox'[n] = "refused"
    <3>3. n + 1 \in 1 .. Len(inbox) /\ inbox[n + 1] = "refused"
      BY <2>1, <2>2, <3>1, <3>2
    <3> QED
      BY <2>2, <3>3
  <2>8. \A n \in 1 .. Len(inbox') : inbox'[n] = "shutdown" =>
           Stands' \/ \E m \in 1 .. n - 1 : inbox'[m] = "welcome"
    BY <2>3
  <2>9. socket' = "open" => \/ Stands' \/ (outbox' # <<>> /\ outbox'[1] = "handshake")
                            \/ \E n \in 1 .. Len(inbox') : inbox'[n] = "welcome"
    BY <2>3
  <2> QED
    BY <2>5, <2>6, <2>7, <2>8, <2>9 DEF Wire
<1>11. CASE Browsed!IdentityRefused
  BY <1>11, FrameTypes DEF Browsed!IdentityRefused, Browsed!Takes, Browsed!Receives,
     Browsed!Shows, Browsed!serverVars, Browsed!linkVars, Browsed!clientVars, Browsed!callVars,
     Browsed!appVars
<1>12. CASE Browsed!ShutdownHeard
  BY <1>12, FrameTypes DEF Browsed!ShutdownHeard, Browsed!Receives, Browsed!Disconnect,
     Browsed!serverVars, Browsed!linkVars, Browsed!clientVars, Browsed!callVars, Browsed!appVars
<1>13. CASE Browsed!StreamOpens
  BY <1>13, FrameTypes DEF Browsed!StreamOpens, Browsed!Shows, Browsed!serverVars,
     Browsed!linkVars, Browsed!clientVars, Browsed!callVars, Browsed!appVars
<1>14. CASE Browsed!StreamRefused
  <2>1. ~handshaked /\ handshaked' = handshaked
    BY <1>14 DEF Browsed!StreamRefused, Roads
  <2>2. socket' = socket /\ outbox' = outbox /\ inbox' = inbox
    BY <1>14 DEF Browsed!StreamRefused, Browsed!linkVars
  <2> QED
    BY <2>1, <2>2
<1>15. CASE Browsed!StreamDrops
  BY <1>15, FrameTypes DEF Browsed!StreamDrops, Browsed!serverVars, Browsed!linkVars,
     Browsed!clientVars, Browsed!callVars, Browsed!appVars
<1>16. CASE Browsed!Mounted
  BY <1>16, FrameTypes DEF Browsed!Mounted, Browsed!serverVars, Browsed!linkVars,
     Browsed!clientVars, Browsed!callVars, Browsed!appVars
<1>17. CASE Browsed!FirstAsked
  BY <1>17, Opens, FrameTypes DEF Browsed!FirstAsked, Browsed!Connect, Browsed!serverVars,
     Browsed!linkVars, Browsed!clientVars, Browsed!callVars, Browsed!appVars
<1>18. CASE Browsed!AskedAgain
  BY <1>18, Opens, FrameTypes DEF Browsed!AskedAgain, Browsed!Connect, Browsed!serverVars,
     Browsed!linkVars, Browsed!clientVars, Browsed!callVars, Browsed!appVars
<1>19. CASE Browsed!Paired
  BY <1>19, Opens, FrameTypes DEF Browsed!Paired, Browsed!Connect, Browsed!serverVars,
     Browsed!linkVars, Browsed!clientVars, Browsed!callVars, Browsed!appVars
<1>20. CASE Browsed!PairedForRole
  BY <1>20, FrameTypes DEF Browsed!PairedForRole, Browsed!Changes, Browsed!Settled,
     Browsed!Pending, Browsed!serverVars, Browsed!linkVars, Browsed!clientVars, Browsed!callVars,
     Browsed!appVars
<1>21. CASE Browsed!TryAgain
  BY <1>21, Opens, FrameTypes DEF Browsed!TryAgain, Browsed!Connect, Browsed!Changes,
     Browsed!serverVars, Browsed!linkVars, Browsed!clientVars, Browsed!callVars, Browsed!appVars
<1>22. ASSUME NEW c \in Calls, Browsed!Replied(c) PROVE Wire'
  <2>1. /\ inbox # <<>> /\ inbox[1] = c /\ inbox' = Tail(inbox)
        /\ socket' = socket /\ outbox' = outbox /\ Stands' = Stands
    BY <1>22, Moves DEF Browsed!Replied, Browsed!Takes, Browsed!Receives, Browsed!clientVars,
       Browsed!appVars
  <2>2. /\ Len(inbox) \in Nat /\ Len(inbox') = Len(inbox) - 1
        /\ \A n \in 1 .. Len(inbox) - 1 : inbox'[n] = inbox[n + 1]
    BY <2>1, Moves
  <2>3. c # "welcome"
    BY FrameTypes
  <2>4. ASSUME NEW n \in 1 .. Len(inbox), inbox[n] = "welcome"
        PROVE  n - 1 \in 1 .. Len(inbox') /\ inbox'[n - 1] = "welcome"
    <3>1. n # 1
      BY <2>1, <2>3, <2>4
    <3>2. n - 1 \in 1 .. Len(inbox) - 1 /\ (n - 1) + 1 = n
      BY <2>2, <3>1
    <3> QED
      BY <2>2, <2>4, <3>2
  <2>5. \A n \in 2 .. Len(outbox') : outbox'[n] # "handshake"
    BY <2>1, <2>2
  <2>6. outbox' # <<>> /\ outbox'[1] = "handshake" => inbox' = <<>>
    BY <2>1, <2>2
  <2>7. \A n \in 1 .. Len(inbox') : inbox'[n] = "refused" => socket' = "cut" /\ Len(inbox') = 1
    <3>1. TAKE n \in 1 .. Len(inbox')
    <3>2. HAVE inbox'[n] = "refused"
    <3>3. n + 1 \in 1 .. Len(inbox) /\ inbox[n + 1] = "refused"
      BY <2>1, <2>2, <3>1, <3>2
    <3> QED
      BY <2>2, <3>3
  <2>8. \A n \in 1 .. Len(inbox') : inbox'[n] = "shutdown" =>
           Stands' \/ \E m \in 1 .. n - 1 : inbox'[m] = "welcome"
    <3>1. TAKE n \in 1 .. Len(inbox')
    <3>2. HAVE inbox'[n] = "shutdown"
    <3>3. n + 1 \in 1 .. Len(inbox) /\ inbox[n + 1] = "shutdown"
      BY <2>2, <3>1, <3>2
    <3>4. Stands \/ \E m \in 1 .. n : inbox[m] = "welcome"
      BY <2>2, <3>3
    <3>5. ASSUME NEW m \in 1 .. n, inbox[m] = "welcome"
          PROVE  m - 1 \in 1 .. n - 1 /\ inbox'[m - 1] = "welcome"
      <4>1. m \in 1 .. Len(inbox)
        BY <2>2, <3>3
      <4> QED
        BY <2>2, <2>4, <3>5, <4>1
    <3> QED
      BY <2>1, <3>4, <3>5
  <2>9. socket' = "open" => \/ Stands' \/ (outbox' # <<>> /\ outbox'[1] = "handshake")
                            \/ \E n \in 1 .. Len(inbox') : inbox'[n] = "welcome"
    BY <2>1, <2>2, <2>4
  <2> QED
    BY <2>5, <2>6, <2>7, <2>8, <2>9 DEF Wire
<1>23. ASSUME NEW c \in Calls, Browsed!Call(c) PROVE Wire'
  <2>1. /\ socket' = socket /\ inbox' = inbox /\ Stands' = Stands
        /\ \/ outbox' = Append(outbox, c)
           \/ outbox' = outbox
    BY <1>23, Calling DEF Browsed!Call, Browsed!clientVars, Browsed!appVars
  <2>2. CASE outbox' = outbox
    BY <2>1, <2>2 DEF Wire
  <2>3. CASE outbox' = Append(outbox, c)
    <3>1. /\ c # "handshake" /\ Len(outbox) \in Nat
          /\ Len(outbox') = Len(outbox) + 1 /\ outbox'[Len(outbox) + 1] = c
          /\ \A n \in 1 .. Len(outbox) : outbox'[n] = outbox[n]
      BY <2>3, FrameTypes, Moves
    <3>2. Len(outbox) >= 1 \/ (outbox = <<>> /\ Len(outbox) = 0)
      BY Moves
    <3>3. outbox'[1] = "handshake" <=> outbox # <<>> /\ outbox[1] = "handshake"
      BY <3>1, <3>2
    <3>4. outbox' # <<>>
      BY <3>1
    <3>5. \A n \in 2 .. Len(outbox') : outbox'[n] # "handshake"
      <4>1. TAKE n \in 2 .. Len(outbox')
      <4>2. n = Len(outbox) + 1 \/ n \in 2 .. Len(outbox)
        BY <3>1, <4>1
      <4> QED
        BY <3>1, <4>2
    <3> QED
      BY <2>1, <3>3, <3>4, <3>5
  <2> QED
    BY <2>1, <2>2, <2>3
<1>24. ASSUME NEW c \in Calls, Browsed!ServeHttp(c) PROVE Wire'
  BY <1>24, FrameTypes DEF Browsed!ServeHttp, Browsed!serverVars, Browsed!linkVars,
     Browsed!clientVars, Browsed!callVars, Browsed!appVars
<1>25. ASSUME NEW c \in Calls, Browsed!HttpAnswered(c) PROVE Wire'
  BY <1>25, FrameTypes DEF Browsed!HttpAnswered, Browsed!serverVars, Browsed!linkVars,
     Browsed!clientVars, Browsed!callVars, Browsed!appVars
<1>26. ASSUME NEW c \in Calls, Browsed!HttpDenied(c) PROVE Wire'
  BY <1>26, FrameTypes DEF Browsed!HttpDenied, Browsed!Disconnect, Browsed!serverVars,
     Browsed!linkVars, Browsed!clientVars, Browsed!callVars, Browsed!appVars
<1>27. CASE UNCHANGED Browsed!vars
  BY <1>27, FrameTypes DEF Browsed!vars, Browsed!serverVars, Browsed!linkVars, Browsed!clientVars,
     Browsed!callVars, Browsed!appVars
<1> QED
  BY <1>1, <1>2, <1>3, <1>4, <1>5, <1>6, <1>7, <1>8, <1>9, <1>10, <1>11, <1>12, <1>13, <1>14,
     <1>15, <1>16, <1>17, <1>18, <1>19, <1>20, <1>21, <1>22, <1>23, <1>24, <1>25, <1>26, <1>27 DEF
     Browsed!Next

\* No road is open before the page is.
LEMMA BrowserInit == Browsed!Init => BrowserIInv
<1> SUFFICES ASSUME Browsed!Init PROVE BrowserIInv
  OBVIOUS
<1> USE DEF Browsed!Init
<1>1. BrowserTyped
  BY FrameTypes DEF BrowserTyped, Links, Scalars, CallsOK, ShownOK
<1>2. Unbound
  BY DEF Unbound
<1>3. Roads
  BY DEF Roads
<1>4. Wire
  BY DEF Wire
<1>5. GivenUp
  BY DEF GivenUp
<1> QED
  BY <1>1, <1>2, <1>3, <1>4, <1>5 DEF BrowserIInv

\* Every step keeps the invariant.
LEMMA BrowserStep == BrowserIInv /\ [Browsed!Next]_(Browsed!vars) => BrowserIInv'
<1> SUFFICES ASSUME BrowserIInv, [Browsed!Next]_(Browsed!vars) PROVE BrowserIInv'
  OBVIOUS
<1>1. BrowserTyped'
  BY LinksStep, ScalarsStep, CallsStep, ShownStep DEF BrowserIInv, BrowserTyped
<1>2. Unbound' /\ Roads'
  BY UnboundStep, RoadsStep DEF BrowserIInv
<1>3. Wire' /\ GivenUp'
  BY WireStep, GivenUpStep DEF BrowserIInv
<1> QED
  BY <1>1, <1>2, <1>3 DEF BrowserIInv

\* The web client's invariant.
THEOREM ClientInvariant == Browsed!Spec => []BrowserIInv
<1> QED
  BY BrowserInit, BrowserStep, PTL DEF Browsed!Spec

\* OneRoad, for any calls and any number of attempts.
THEOREM OneRoadCorrect == Browsed!Spec => []OneRoad
<1>1. BrowserIInv => OneRoad
  BY DEF BrowserIInv, Roads, OneRoad, Browsed!OneRoad
<1> QED
  BY <1>1, ClientInvariant, PTL

\* ShownIsTried, for any calls and any number of attempts.
THEOREM ShownCorrect == Browsed!Spec => []ShownIsTried
<1>1. BrowserIInv => ShownIsTried
  BY DEF BrowserIInv, GivenUp, BrowserTyped, ShownOK, ShownIsTried, Browsed!ShownIsTried,
     Browsed!ToldNot, Browsed!Offered
<1> QED
  BY <1>1, ClientInvariant, PTL

-----------------------------------------------------------------------------
(* The diagnostics capture, Capture. *)

\* The steps of the host's calls, by what is left of them: those after which the level is not
\* set any more, and the others.
Reload == <<"shutdown", "initialize", "resume">>
Calm == {<<>>, <<"watch">>, <<"write">>, <<"clear">>, <<"clear", "write">>, <<"resume">>,
         <<"initialize", "resume">>, Reload}
Loud == {<<"raise", "watch">>, <<"restore", "clear">>, <<"restore", "clear", "write">>,
         <<"push">>, <<"push", "shutdown", "initialize", "resume">>, Diagnosed!Boot,
         <<"resume", "push">>, <<"raise", "watch", "push">>, <<"watch", "push">>}

\* Those with a watchdog to come, with a record to clear, of a start of MusicBee, with a
\* record to take up, and without a core.
Watching == {<<"raise", "watch">>, <<"watch">>, <<"raise", "watch", "push">>,
             <<"watch", "push">>}
Clearing == {<<"restore", "clear">>, <<"restore", "clear", "write">>, <<"clear">>,
             <<"clear", "write">>}
Booting == {Diagnosed!Boot, <<"resume", "push">>}
Resuming == {<<"initialize", "resume">>, <<"resume">>} \cup Booting
Down == {<<"initialize", "resume">>, Diagnosed!Boot}

Sessions == [generation : Nat, spent : BOOLEAN]
CaptureTyped ==
    /\ captured \in Sessions \cup {None}
    /\ record \in {"none", "fresh", "spent"}
    /\ core \in BOOLEAN /\ disturbed \in BOOLEAN /\ generation \in Nat
    /\ watchdogs \subseteq [generation : Nat, at : {"asleep", "due", "restore", "clear"}]
    /\ steps \in Calm \cup Loud

\* The session is the last one begun, and a watchdog that is due finds its own at its end.
Generations ==
    /\ captured # None => captured.generation = generation
    /\ \A w \in watchdogs :
          /\ w.generation <= generation
          /\ w.at = "due" /\ captured # None /\ captured.generation = w.generation => captured.spent

\* What a call has done to the session it began or ended, and when there is no core.
Courses ==
    /\ steps \in Watching => captured # None /\ \A w \in watchdogs : w.generation # generation
    /\ steps \in Clearing => captured = None
    /\ ~core => steps \in Down \/ (steps = <<>> /\ watchdogs = {})

\* Who still clears a record that is left without its capture, or takes it up.
Owed ==
    /\ record = "fresh" =>
          IF captured # None THEN ~captured.spent ELSE steps \in Clearing \cup Booting
    /\ record = "spent" /\ captured = None =>
          \/ steps \in Clearing \cup Resuming
          \/ \E w \in watchdogs : w.at \in {"restore", "clear"}

\* The level, once nobody is about to set it.
LevelKept ==
    ~disturbed /\ steps \in Calm /\ (\A w \in watchdogs : w.at # "restore") =>
        IF config = saved THEN level = IF captured # None THEN Diagnosed!Raised ELSE saved
        ELSE captured = None /\ level = saved

CaptureIInv == CaptureTyped /\ Generations /\ Courses /\ Owed /\ LevelKept

\* Where each course is.
LEMMA Places ==
    /\ \A p : p = <<>> => p \in Calm
            /\ p \notin Watching \cup Clearing \cup Booting \cup Resuming \cup Down
    /\ \A p : p = <<"watch">> => p \in Calm \cap Watching
            /\ p \notin Clearing \cup Booting \cup Resuming \cup Down
    /\ \A p : p = <<"write">> => p \in Calm
            /\ p \notin Watching \cup Clearing \cup Booting \cup Resuming \cup Down
    /\ \A p : p = <<"clear">> => p \in Calm \cap Clearing
            /\ p \notin Watching \cup Booting \cup Resuming \cup Down
    /\ \A p : p = <<"clear", "write">> => p \in Calm \cap Clearing
            /\ p \notin Watching \cup Booting \cup Resuming \cup Down
    /\ \A p : p = <<"resume">> => p \in Calm \cap Resuming
            /\ p \notin Watching \cup Clearing \cup Booting \cup Down
    /\ \A p : p = <<"initialize", "resume">> => p \in Calm \cap Resuming \cap Down
            /\ p \notin Watching \cup Clearing \cup Booting
    /\ \A p : p = <<"shutdown", "initialize", "resume">> => p \in Calm
            /\ p \notin Watching \cup Clearing \cup Booting \cup Resuming \cup Down
    /\ \A p : p = <<"raise", "watch">> => p \in Loud \cap Watching
            /\ p \notin Calm \cup Clearing \cup Booting \cup Resuming \cup Down
    /\ \A p : p = <<"restore", "clear">> => p \in Loud \cap Clearing
            /\ p \notin Calm \cup Watching \cup Booting \cup Resuming \cup Down
    /\ \A p : p = <<"restore", "clear", "write">> => p \in Loud \cap Clearing
            /\ p \notin Calm \cup Watching \cup Booting \cup Resuming \cup Down
    /\ \A p : p = <<"push">> => p \in Loud
            /\ p \notin Calm \cup Watching \cup Clearing \cup Booting \cup Resuming \cup Down
    /\ \A p : p = <<"push", "shutdown", "initialize", "resume">> => p \in Loud
            /\ p \notin Calm \cup Watching \cup Clearing \cup Booting \cup Resuming \cup Down
    /\ \A p : p = <<"initialize", "resume", "push">>
            => p \in Loud \cap Booting \cap Resuming \cap Down
                    /\ p \notin Calm \cup Watching \cup Clearing
    /\ \A p : p = <<"resume", "push">> => p \in Loud \cap Booting \cap Resuming
            /\ p \notin Calm \cup Watching \cup Clearing \cup Down
    /\ \A p : p = <<"raise", "watch", "push">> => p \in Loud \cap Watching
            /\ p \notin Calm \cup Clearing \cup Booting \cup Resuming \cup Down
    /\ \A p : p = <<"watch", "push">> => p \in Loud \cap Watching
            /\ p \notin Calm \cup Clearing \cup Booting \cup Resuming \cup Down
<1>1. \A p : p = <<>> => p \in Calm
        /\ p \notin Watching \cup Clearing \cup Booting \cup Resuming \cup Down
  BY DEF Calm, Loud, Watching, Clearing, Booting, Resuming, Down, Diagnosed!Boot, Reload
<1>2. \A p : p = <<"watch">> => p \in Calm \cap Watching
        /\ p \notin Clearing \cup Booting \cup Resuming \cup Down
  BY DEF Calm, Loud, Watching, Clearing, Booting, Resuming, Down, Diagnosed!Boot, Reload
<1>3. \A p : p = <<"write">> => p \in Calm
        /\ p \notin Watching \cup Clearing \cup Booting \cup Resuming \cup Down
  BY DEF Calm, Loud, Watching, Clearing, Booting, Resuming, Down, Diagnosed!Boot, Reload
<1>4. \A p : p = <<"clear">> => p \in Calm \cap Clearing
        /\ p \notin Watching \cup Booting \cup Resuming \cup Down
  BY DEF Calm, Loud, Watching, Clearing, Booting, Resuming, Down, Diagnosed!Boot, Reload
<1>5. \A p : p = <<"clear", "write">> => p \in Calm \cap Clearing
        /\ p \notin Watching \cup Booting \cup Resuming \cup Down
  BY DEF Calm, Loud, Watching, Clearing, Booting, Resuming, Down, Diagnosed!Boot, Reload
<1>6. \A p : p = <<"resume">> => p \in Calm \cap Resuming
        /\ p \notin Watching \cup Clearing \cup Booting \cup Down
  BY DEF Calm, Loud, Watching, Clearing, Booting, Resuming, Down, Diagnosed!Boot, Reload
<1>7. \A p : p = <<"initialize", "resume">> => p \in Calm \cap Resuming \cap Down
        /\ p \notin Watching \cup Clearing \cup Booting
  BY DEF Calm, Loud, Watching, Clearing, Booting, Resuming, Down, Diagnosed!Boot, Reload
<1>8. \A p : p = <<"shutdown", "initialize", "resume">> => p \in Calm
        /\ p \notin Watching \cup Clearing \cup Booting \cup Resuming \cup Down
  BY DEF Calm, Loud, Watching, Clearing, Booting, Resuming, Down, Diagnosed!Boot, Reload
<1>9. \A p : p = <<"raise", "watch">> => p \in Loud \cap Watching
        /\ p \notin Calm \cup Clearing \cup Booting \cup Resuming \cup Down
  BY DEF Calm, Loud, Watching, Clearing, Booting, Resuming, Down, Diagnosed!Boot, Reload
<1>10. \A p : p = <<"restore", "clear">> => p \in Loud \cap Clearing
        /\ p \notin Calm \cup Watching \cup Booting \cup Resuming \cup Down
  BY DEF Calm, Loud, Watching, Clearing, Booting, Resuming, Down, Diagnosed!Boot, Reload
<1>11. \A p : p = <<"restore", "clear", "write">> => p \in Loud \cap Clearing
        /\ p \notin Calm \cup Watching \cup Booting \cup Resuming \cup Down
  BY DEF Calm, Loud, Watching, Clearing, Booting, Resuming, Down, Diagnosed!Boot, Reload
<1>12. \A p : p = <<"push">> => p \in Loud
        /\ p \notin Calm \cup Watching \cup Clearing \cup Booting \cup Resuming \cup Down
  BY DEF Calm, Loud, Watching, Clearing, Booting, Resuming, Down, Diagnosed!Boot, Reload
<1>13. \A p : p = <<"push", "shutdown", "initialize", "resume">> => p \in Loud
        /\ p \notin Calm \cup Watching \cup Clearing \cup Booting \cup Resuming \cup Down
  BY DEF Calm, Loud, Watching, Clearing, Booting, Resuming, Down, Diagnosed!Boot, Reload
<1>14. \A p : p = <<"initialize", "resume", "push">>
        => p \in Loud \cap Booting \cap Resuming \cap Down /\ p \notin Calm \cup Watching \cup Clearing
  BY DEF Calm, Loud, Watching, Clearing, Booting, Resuming, Down, Diagnosed!Boot, Reload
<1>15. \A p : p = <<"resume", "push">> => p \in Loud \cap Booting \cap Resuming
        /\ p \notin Calm \cup Watching \cup Clearing \cup Down
  BY DEF Calm, Loud, Watching, Clearing, Booting, Resuming, Down, Diagnosed!Boot, Reload
<1>16. \A p : p = <<"raise", "watch", "push">> => p \in Loud \cap Watching
        /\ p \notin Calm \cup Clearing \cup Booting \cup Resuming \cup Down
  BY DEF Calm, Loud, Watching, Clearing, Booting, Resuming, Down, Diagnosed!Boot, Reload
<1>17. \A p : p = <<"watch", "push">> => p \in Loud \cap Watching
        /\ p \notin Calm \cup Clearing \cup Booting \cup Resuming \cup Down
  BY DEF Calm, Loud, Watching, Clearing, Booting, Resuming, Down, Diagnosed!Boot, Reload
<1> QED
  BY <1>1, <1>2, <1>3, <1>4, <1>5, <1>6, <1>7, <1>8, <1>9, <1>10, <1>11, <1>12, <1>13, <1>14,
     <1>15, <1>16, <1>17

\* The first step of each course and what is left after it.
LEMMA Courseheads ==
    /\ <<"watch">> # <<>> /\ Head(<<"watch">>) = "watch" /\ Tail(<<"watch">>) = <<>>
    /\ <<"write">> # <<>> /\ Head(<<"write">>) = "write" /\ Tail(<<"write">>) = <<>>
    /\ <<"clear">> # <<>> /\ Head(<<"clear">>) = "clear" /\ Tail(<<"clear">>) = <<>>
    /\ <<"clear", "write">> # <<>> /\ Head(<<"clear", "write">>) = "clear" /\ Tail(<<"clear",
            "write">>) = <<"write">>
    /\ <<"resume">> # <<>> /\ Head(<<"resume">>) = "resume" /\ Tail(<<"resume">>) = <<>>
    /\ <<"initialize", "resume">> # <<>> /\ Head(<<"initialize", "resume">>) = "initialize"
            /\ Tail(<<"initialize", "resume">>) = <<"resume">>
    /\ <<"shutdown", "initialize", "resume">> # <<>> /\ Head(<<"shutdown", "initialize",
            "resume">>) = "shutdown" /\ Tail(<<"shutdown", "initialize",
                    "resume">>) = <<"initialize", "resume">>
    /\ <<"raise", "watch">> # <<>> /\ Head(<<"raise", "watch">>) = "raise" /\ Tail(<<"raise",
            "watch">>) = <<"watch">>
    /\ <<"restore", "clear">> # <<>> /\ Head(<<"restore", "clear">>) = "restore"
            /\ Tail(<<"restore", "clear">>) = <<"clear">>
    /\ <<"restore", "clear", "write">> # <<>> /\ Head(<<"restore", "clear",
            "write">>) = "restore" /\ Tail(<<"restore", "clear", "write">>) = <<"clear", "write">>
    /\ <<"push">> # <<>> /\ Head(<<"push">>) = "push" /\ Tail(<<"push">>) = <<>>
    /\ <<"push", "shutdown", "initialize", "resume">> # <<>> /\ Head(<<"push", "shutdown",
            "initialize", "resume">>) = "push" /\ Tail(<<"push", "shutdown", "initialize",
                    "resume">>) = <<"shutdown", "initialize", "resume">>
    /\ <<"initialize", "resume", "push">> # <<>> /\ Head(<<"initialize", "resume",
            "push">>) = "initialize" /\ Tail(<<"initialize", "resume", "push">>) = <<"resume", "push">>
    /\ <<"resume", "push">> # <<>> /\ Head(<<"resume", "push">>) = "resume" /\ Tail(<<"resume",
            "push">>) = <<"push">>
    /\ <<"raise", "watch", "push">> # <<>> /\ Head(<<"raise", "watch", "push">>) = "raise"
            /\ Tail(<<"raise", "watch", "push">>) = <<"watch", "push">>
    /\ <<"watch", "push">> # <<>> /\ Head(<<"watch", "push">>) = "watch" /\ Tail(<<"watch",
            "push">>) = <<"push">>
  OBVIOUS

\* What is left of a call after each of its steps.
LEMMA Stepping ==
    ASSUME steps \in Calm \cup Loud, steps # <<>>, Diagnosed!Done
    PROVE  /\ steps' \in Calm \cup Loud /\ steps # <<>> /\ (steps \in Down
            => Diagnosed!Step("initialize"))
           /\ Diagnosed!Step("raise") =>
                 /\ {steps, steps'} \subseteq Watching /\ steps \notin Calm
                 /\ steps' \notin Clearing \cup Resuming
           /\ Diagnosed!Step("watch") =>
                 /\ steps \in Watching /\ (steps' \in Calm => steps \in Calm)
                 /\ steps' \notin Watching \cup Clearing \cup Resuming
           /\ Diagnosed!Step("restore") =>
                 {steps, steps'} \subseteq Clearing /\ steps' \notin Watching
           /\ Diagnosed!Step("clear") =>
                 /\ steps \in Clearing /\ steps \in Calm
                 /\ steps' \notin Watching \cup Clearing \cup Resuming
           /\ Diagnosed!Step("write") =>
                 /\ steps \in Calm /\ steps \notin Clearing \cup Resuming
                 /\ steps' \notin Watching \cup Clearing \cup Resuming
           /\ Diagnosed!Step("push") =>
                 /\ steps \notin Clearing \cup Resuming
                 /\ steps' \notin Watching \cup Clearing \cup Resuming
           /\ Diagnosed!Step("shutdown") =>
                 /\ steps \in Calm /\ steps \notin Clearing \cup Resuming
                 /\ steps' \in Down /\ steps' \notin Watching \cup Clearing \cup Booting
           /\ Diagnosed!Step("initialize") =>
                 /\ steps \in Down \cap Resuming /\ steps' \in Resuming
                 /\ {steps, steps'} \cap (Watching \cup Clearing) = {}
                 /\ (steps \in Booting <=> steps' \in Booting)
                 /\ (steps' \in Calm => steps \in Calm)
           /\ Diagnosed!Step("resume") =>
                 \/ /\ steps = <<"resume">> /\ steps' = <<>>
                    /\ steps \notin Clearing \cup Booting
                 \/ /\ steps = <<"resume", "push">> /\ steps' = <<"push">>
                    /\ steps \in Booting /\ steps' \notin Calm
<1>1. CASE steps = <<"watch">>
  <2>1. \A n : Diagnosed!Step(n) <=> n = "watch"
    BY <1>1, Courseheads DEF Diagnosed!Step
  <2>2. steps' = <<>>
    BY <1>1, Courseheads DEF Diagnosed!Done
  <2> QED
    BY <1>1, <2>1, <2>2, Places
<1>2. CASE steps = <<"write">>
  <2>1. \A n : Diagnosed!Step(n) <=> n = "write"
    BY <1>2, Courseheads DEF Diagnosed!Step
  <2>2. steps' = <<>>
    BY <1>2, Courseheads DEF Diagnosed!Done
  <2> QED
    BY <1>2, <2>1, <2>2, Places
<1>3. CASE steps = <<"clear">>
  <2>1. \A n : Diagnosed!Step(n) <=> n = "clear"
    BY <1>3, Courseheads DEF Diagnosed!Step
  <2>2. steps' = <<>>
    BY <1>3, Courseheads DEF Diagnosed!Done
  <2> QED
    BY <1>3, <2>1, <2>2, Places
<1>4. CASE steps = <<"clear", "write">>
  <2>1. \A n : Diagnosed!Step(n) <=> n = "clear"
    BY <1>4, Courseheads DEF Diagnosed!Step
  <2>2. steps' = <<"write">>
    BY <1>4, Courseheads DEF Diagnosed!Done
  <2> QED
    BY <1>4, <2>1, <2>2, Places
<1>5. CASE steps = <<"resume">>
  <2>1. \A n : Diagnosed!Step(n) <=> n = "resume"
    BY <1>5, Courseheads DEF Diagnosed!Step
  <2>2. steps' = <<>>
    BY <1>5, Courseheads DEF Diagnosed!Done
  <2> QED
    BY <1>5, <2>1, <2>2, Places
<1>6. CASE steps = <<"initialize", "resume">>
  <2>1. \A n : Diagnosed!Step(n) <=> n = "initialize"
    BY <1>6, Courseheads DEF Diagnosed!Step
  <2>2. steps' = <<"resume">>
    BY <1>6, Courseheads DEF Diagnosed!Done
  <2> QED
    BY <1>6, <2>1, <2>2, Places
<1>7. CASE steps = <<"shutdown", "initialize", "resume">>
  <2>1. \A n : Diagnosed!Step(n) <=> n = "shutdown"
    BY <1>7, Courseheads DEF Diagnosed!Step
  <2>2. steps' = <<"initialize", "resume">>
    BY <1>7, Courseheads DEF Diagnosed!Done
  <2> QED
    BY <1>7, <2>1, <2>2, Places
<1>8. CASE steps = <<"raise", "watch">>
  <2>1. \A n : Diagnosed!Step(n) <=> n = "raise"
    BY <1>8, Courseheads DEF Diagnosed!Step
  <2>2. steps' = <<"watch">>
    BY <1>8, Courseheads DEF Diagnosed!Done
  <2> QED
    BY <1>8, <2>1, <2>2, Places
<1>9. CASE steps = <<"restore", "clear">>
  <2>1. \A n : Diagnosed!Step(n) <=> n = "restore"
    BY <1>9, Courseheads DEF Diagnosed!Step
  <2>2. steps' = <<"clear">>
    BY <1>9, Courseheads DEF Diagnosed!Done
  <2> QED
    BY <1>9, <2>1, <2>2, Places
<1>10. CASE steps = <<"restore", "clear", "write">>
  <2>1. \A n : Diagnosed!Step(n) <=> n = "restore"
    BY <1>10, Courseheads DEF Diagnosed!Step
  <2>2. steps' = <<"clear", "write">>
    BY <1>10, Courseheads DEF Diagnosed!Done
  <2> QED
    BY <1>10, <2>1, <2>2, Places
<1>11. CASE steps = <<"push">>
  <2>1. \A n : Diagnosed!Step(n) <=> n = "push"
    BY <1>11, Courseheads DEF Diagnosed!Step
  <2>2. steps' = <<>>
    BY <1>11, Courseheads DEF Diagnosed!Done
  <2> QED
    BY <1>11, <2>1, <2>2, Places
<1>12. CASE steps = <<"push", "shutdown", "initialize", "resume">>
  <2>1. \A n : Diagnosed!Step(n) <=> n = "push"
    BY <1>12, Courseheads DEF Diagnosed!Step
  <2>2. steps' = <<"shutdown", "initialize", "resume">>
    BY <1>12, Courseheads DEF Diagnosed!Done
  <2> QED
    BY <1>12, <2>1, <2>2, Places
<1>13. CASE steps = <<"initialize", "resume", "push">>
  <2>1. \A n : Diagnosed!Step(n) <=> n = "initialize"
    BY <1>13, Courseheads DEF Diagnosed!Step
  <2>2. steps' = <<"resume", "push">>
    BY <1>13, Courseheads DEF Diagnosed!Done
  <2> QED
    BY <1>13, <2>1, <2>2, Places
<1>14. CASE steps = <<"resume", "push">>
  <2>1. \A n : Diagnosed!Step(n) <=> n = "resume"
    BY <1>14, Courseheads DEF Diagnosed!Step
  <2>2. steps' = <<"push">>
    BY <1>14, Courseheads DEF Diagnosed!Done
  <2> QED
    BY <1>14, <2>1, <2>2, Places
<1>15. CASE steps = <<"raise", "watch", "push">>
  <2>1. \A n : Diagnosed!Step(n) <=> n = "raise"
    BY <1>15, Courseheads DEF Diagnosed!Step
  <2>2. steps' = <<"watch", "push">>
    BY <1>15, Courseheads DEF Diagnosed!Done
  <2> QED
    BY <1>15, <2>1, <2>2, Places
<1>16. CASE steps = <<"watch", "push">>
  <2>1. \A n : Diagnosed!Step(n) <=> n = "watch"
    BY <1>16, Courseheads DEF Diagnosed!Step
  <2>2. steps' = <<"push">>
    BY <1>16, Courseheads DEF Diagnosed!Done
  <2> QED
    BY <1>16, <2>1, <2>2, Places
<1> QED
  BY <1>1, <1>2, <1>3, <1>4, <1>5, <1>6, <1>7, <1>8, <1>9, <1>10, <1>11, <1>12, <1>13, <1>14,
     <1>15, <1>16 DEF Calm, Loud, Diagnosed!Boot, Reload

\* A course put together of two.
LEMMA TwoAndOne ==
    ASSUME NEW S, NEW a \in S, NEW b \in S, NEW c \in S
    PROVE  <<a, b>> \o <<c>> = <<a, b, c>>
<1> DEFINE u == <<a, b>> \o <<c>>
<1>1. <<a, b>> \in Seq(S) /\ <<c>> \in Seq(S) /\ <<a, b, c>> \in Seq(S)
  OBVIOUS
<1>2. u \in Seq(S) /\ Len(u) = 3
  BY <1>1, ConcatProperties
<1>3. u[1] = a /\ u[2] = b /\ u[3] = c
  BY <1>1, ConcatProperties
<1> HIDE DEF u
<1>4. u = <<a, b, c>>
  BY <1>1, <1>2, <1>3, SeqEqual
<1> QED
  BY <1>4 DEF u

\* A course put together of two.
LEMMA OneAndThree ==
    ASSUME NEW S, NEW a \in S, NEW b \in S, NEW c \in S, NEW d \in S
    PROVE  <<a>> \o <<b, c, d>> = <<a, b, c, d>>
<1> DEFINE u == <<a>> \o <<b, c, d>>
<1>1. <<a>> \in Seq(S) /\ <<b, c, d>> \in Seq(S) /\ <<a, b, c, d>> \in Seq(S)
  OBVIOUS
<1>2. u \in Seq(S) /\ Len(u) = 4
  BY <1>1, ConcatProperties
<1>3. u[1] = a /\ u[2] = b /\ u[3] = c /\ u[4] = d
  BY <1>1, ConcatProperties
<1> HIDE DEF u
<1>4. u = <<a, b, c, d>>
  BY <1>1, <1>2, <1>3, SeqEqual
<1> QED
  BY <1>4 DEF u

\* The courses that calls begin with.
LEMMA Beginnings ==
    /\ Diagnosed!EndSteps \o <<"write">> = <<"restore", "clear", "write">>
    /\ Diagnosed!EndSteps \o <<>> = <<"restore", "clear">>
    /\ Diagnosed!ResumeSteps \o <<>> = <<"raise", "watch">>
    /\ Diagnosed!ResumeSteps \o <<"push">> = <<"raise", "watch", "push">>
    /\ <<>> \o <<>> = <<>> /\ <<"push">> \o <<>> = <<"push">>
    /\ <<>> \o Reload = Reload
    /\ <<"push">> \o Reload = <<"push", "shutdown", "initialize", "resume">>
<1>0. /\ {"raise", "watch", "restore", "clear", "write"} \subseteq Diagnosed!Steps
      /\ {"push", "shutdown", "initialize", "resume"} \subseteq Diagnosed!Steps
  BY DEF Diagnosed!Steps
<1>1. Diagnosed!EndSteps \o <<"write">> = <<"restore", "clear", "write">>
  BY <1>0, TwoAndOne DEF Diagnosed!EndSteps
<1>2. Diagnosed!EndSteps \o <<>> = <<"restore", "clear">>
  BY DEF Diagnosed!EndSteps
<1>3. Diagnosed!ResumeSteps \o <<>> = <<"raise", "watch">>
  BY DEF Diagnosed!ResumeSteps
<1>4. Diagnosed!ResumeSteps \o <<"push">> = <<"raise", "watch", "push">>
  BY <1>0, TwoAndOne DEF Diagnosed!ResumeSteps
<1>5. <<>> \o <<>> = <<>> /\ <<"push">> \o <<>> = <<"push">>
  OBVIOUS
<1>6. <<>> \o Reload = Reload
  BY DEF Reload
<1>7. <<"push">> \o Reload = <<"push", "shutdown", "initialize", "resume">>
  BY <1>0, OneAndThree DEF Reload
<1> QED
  BY <1>1, <1>2, <1>3, <1>4, <1>5, <1>6, <1>7

\* ApplySettings: what is saved, and which course it takes.
LEMMA Applying ==
    ASSUME Diagnosed!ApplySettings
    PROVE  /\ steps = <<>> /\ core
           /\ \/ saved' # config /\ steps' \in Loud
              \/ saved' = config /\ steps' \in Calm
           /\ steps' \in Calm \cup Loud /\ steps' \notin Watching \cup Clearing \cup Resuming
           /\ disturbed' = (disturbed \/ (saved' = config /\ config # saved))
           /\ UNCHANGED <<config, level, record, core, Diagnosed!captureVars>>
<1>1. PICK log_level \in Diagnosed!Levels, reload \in BOOLEAN :
        /\ Diagnosed!Idle /\ saved' = log_level
        /\ steps' = (IF log_level # config THEN <<"push">> ELSE <<>>)
                   \o (IF reload THEN <<"shutdown", "initialize", "resume">> ELSE <<>>)
        /\ disturbed' = (disturbed \/ (log_level = config /\ config # saved))
        /\ UNCHANGED <<config, level, record, core, Diagnosed!captureVars>>
  BY DEF Diagnosed!ApplySettings
<1>2. steps = <<>> /\ core
  BY <1>1 DEF Diagnosed!Idle
<1>3. disturbed' = (disturbed \/ (saved' = config /\ config # saved))
  BY <1>1
<1>4. CASE log_level # config
  <2>1. steps' = <<"push">> \/ steps' = <<"push", "shutdown", "initialize", "resume">>
    BY <1>1, <1>4, Beginnings DEF Reload
  <2> QED
    BY <1>1, <1>2, <1>3, <1>4, <2>1, Places
<1>5. CASE log_level = config
  <2>1. steps' = <<>> \/ steps' = <<"shutdown", "initialize", "resume">>
    BY <1>1, <1>5, Beginnings DEF Reload
  <2> QED
    BY <1>1, <1>2, <1>3, <1>5, <2>1, Places
<1> QED
  BY <1>4, <1>5

\* A watchdog that goes on.
LEMMA Becoming ==
    ASSUME CaptureTyped, NEW w \in watchdogs, NEW at \in {"asleep", "due", "restore", "clear"},
           Diagnosed!Become(w, at)
    PROVE  /\ watchdogs' \subseteq [generation : Nat, at : {"asleep", "due", "restore", "clear"}]
           /\ \A x \in watchdogs' : \/ x \in watchdogs
                                    \/ x.generation = w.generation /\ x.at = at
           /\ \E x \in watchdogs' : x.generation = w.generation /\ x.at = at
           /\ \A x \in watchdogs : x = w \/ x \in watchdogs'
<1>1. w \in [generation : Nat, at : {"asleep", "due", "restore", "clear"}]
  BY DEF CaptureTyped
<1> DEFINE v == [w EXCEPT !.at = at]
<1>2. /\ v \in [generation : Nat, at : {"asleep", "due", "restore", "clear"}]
      /\ v.generation = w.generation /\ v.at = at
  BY <1>1
<1>3. watchdogs' = (watchdogs \ {w}) \cup {v}
  BY DEF Diagnosed!Become
<1> HIDE DEF v
<1> QED
  BY <1>2, <1>3 DEF CaptureTyped

\* A session that begins, and one whose time is up.
LEMMA Beginning ==
    /\ generation \in Nat =>
         Diagnosed!Begun \in Sessions /\ Diagnosed!Begun # None
                 /\ Diagnosed!Begun.generation = generation + 1 /\ ~Diagnosed!Begun.spent
    /\ \A s \in Sessions : /\ s # None /\ [s EXCEPT !.spent = TRUE] \in Sessions
                           /\ [s EXCEPT !.spent = TRUE] # None
                           /\ [s EXCEPT !.spent = TRUE].generation = s.generation
                           /\ [s EXCEPT !.spent = TRUE].spent
<1>1. None \notin Sessions
  BY CaptureAssumption DEF Sessions
<1>2. generation \in Nat => /\ Diagnosed!Begun \in Sessions
                            /\ Diagnosed!Begun.generation = generation + 1
                            /\ ~Diagnosed!Begun.spent
  BY DEF Diagnosed!Begun, Sessions
<1>3. ASSUME NEW s \in Sessions
      PROVE  /\ [s EXCEPT !.spent = TRUE] \in Sessions
             /\ [s EXCEPT !.spent = TRUE].generation = s.generation
             /\ [s EXCEPT !.spent = TRUE].spent
  BY DEF Sessions
<1> QED
  BY <1>1, <1>2, <1>3

\* resume_after_restart runs at the end of a start or of a reload.
LEMMA Resumes ==
    ASSUME steps \in Calm \cup Loud, steps # <<>>, Diagnosed!Step("resume")
    PROVE  \/ steps = <<"resume">> /\ Tail(steps) = <<>>
           \/ steps = <<"resume", "push">> /\ Tail(steps) = <<"push">>
  BY Courseheads DEF Diagnosed!Step, Calm, Loud, Diagnosed!Boot, Reload

\* Every step keeps the types.
LEMMA CaptureTypedStep ==
    ASSUME CaptureTyped, [Diagnosed!Next]_(Diagnosed!vars)
    PROVE  CaptureTyped'
<1> USE DEF CaptureTyped
<1>1. CASE Diagnosed!Start
  <2>1. steps' = <<"raise", "watch">>
    BY <1>1, Beginnings DEF Diagnosed!Start, Diagnosed!End
  <2>2. steps = <<>> /\ core
    BY <1>1 DEF Diagnosed!Start, Diagnosed!End, Diagnosed!Idle
  <2> QED
    BY <1>1, <2>1, <2>2, Places, Beginning DEF Diagnosed!Start, Diagnosed!End, Diagnosed!Spend,
       Diagnosed!Idle, Diagnosed!captureVars, Diagnosed!levelVars
<1>2. CASE Diagnosed!Stop
  <2>1. steps' = <<"restore", "clear", "write">>
    BY <1>2, Beginnings DEF Diagnosed!Stop, Diagnosed!End
  <2>2. steps = <<>> /\ core
    BY <1>2 DEF Diagnosed!Stop, Diagnosed!End, Diagnosed!Idle
  <2> QED
    BY <1>2, <2>1, <2>2, Places, Beginning DEF Diagnosed!Stop, Diagnosed!End, Diagnosed!Spend,
       Diagnosed!Idle, Diagnosed!captureVars, Diagnosed!levelVars
<1>3. CASE Diagnosed!Cancel
  <2>1. steps' = <<"restore", "clear">>
    BY <1>3, Beginnings DEF Diagnosed!Cancel, Diagnosed!End
  <2>2. steps = <<>> /\ core
    BY <1>3 DEF Diagnosed!Cancel, Diagnosed!End, Diagnosed!Idle
  <2> QED
    BY <1>3, <2>1, <2>2, Places, Beginning DEF Diagnosed!Cancel, Diagnosed!End, Diagnosed!Spend,
       Diagnosed!Idle, Diagnosed!captureVars, Diagnosed!levelVars
<1>4. CASE Diagnosed!ApplySettings
  BY <1>4, Applying, Places DEF Diagnosed!captureVars, Diagnosed!levelVars
<1>5. CASE Diagnosed!Raise
  <2>1. Diagnosed!Step("raise") /\ Diagnosed!Done /\ steps # <<>>
    BY <1>5 DEF Diagnosed!Raise, Diagnosed!Step
  <2> QED
    BY <1>5, <2>1, Stepping DEF Diagnosed!Raise, Diagnosed!captureVars, Diagnosed!levelVars
<1>6. CASE Diagnosed!Watch
  <2>1. Diagnosed!Step("watch") /\ Diagnosed!Done /\ steps # <<>>
    BY <1>6 DEF Diagnosed!Watch, Diagnosed!Step
  <2> QED
    BY <1>6, <2>1, Stepping DEF Diagnosed!Watch, Diagnosed!captureVars, Diagnosed!levelVars
<1>7. CASE Diagnosed!Restore
  <2>1. Diagnosed!Step("restore") /\ Diagnosed!Done /\ steps # <<>>
    BY <1>7 DEF Diagnosed!Restore, Diagnosed!Step
  <2> QED
    BY <1>7, <2>1, Stepping DEF Diagnosed!Restore, Diagnosed!Restored, Diagnosed!captureVars,
       Diagnosed!levelVars
<1>8. CASE Diagnosed!Clear
  <2>1. Diagnosed!Step("clear") /\ Diagnosed!Done /\ steps # <<>>
    BY <1>8 DEF Diagnosed!Clear, Diagnosed!Step
  <2> QED
    BY <1>8, <2>1, Stepping DEF Diagnosed!Clear, Diagnosed!captureVars, Diagnosed!levelVars
<1>9. CASE Diagnosed!Write
  <2>1. Diagnosed!Step("write") /\ Diagnosed!Done /\ steps # <<>>
    BY <1>9 DEF Diagnosed!Write, Diagnosed!Step
  <2> QED
    BY <1>9, <2>1, Stepping DEF Diagnosed!Write, Diagnosed!captureVars, Diagnosed!levelVars
<1>10. CASE Diagnosed!Push
  <2>1. Diagnosed!Step("push") /\ Diagnosed!Done /\ steps # <<>>
    BY <1>10 DEF Diagnosed!Push, Diagnosed!Step
  <2> QED
    BY <1>10, <2>1, Stepping DEF Diagnosed!Push, Diagnosed!captureVars, Diagnosed!levelVars
<1>11. CASE Diagnosed!Shutdown
  <2>1. Diagnosed!Step("shutdown") /\ Diagnosed!Done /\ steps # <<>>
    BY <1>11 DEF Diagnosed!Shutdown, Diagnosed!Step
  <2> QED
    BY <1>11, <2>1, Stepping DEF Diagnosed!Shutdown, Diagnosed!captureVars, Diagnosed!levelVars
<1>12. CASE Diagnosed!Initialize
  <2>1. Diagnosed!Step("initialize") /\ Diagnosed!Done /\ steps # <<>>
    BY <1>12 DEF Diagnosed!Initialize, Diagnosed!Step
  <2> QED
    BY <1>12, <2>1, Stepping DEF Diagnosed!Initialize, Diagnosed!captureVars, Diagnosed!levelVars
<1>13. CASE Diagnosed!Resume
  <2>1. Diagnosed!Step("resume") /\ steps # <<>>
    BY <1>13 DEF Diagnosed!Resume, Diagnosed!Step
  <2>2. CASE captured # None \/ record # "fresh"
    <3>1. Diagnosed!Done /\ record' = (IF captured # None THEN record ELSE "none")
      BY <1>13, <2>2 DEF Diagnosed!Resume
    <3>2. captured' = captured /\ generation' = generation /\ watchdogs' = watchdogs /\ core' = core
      BY <1>13, <2>2 DEF Diagnosed!Resume
    <3>3. UNCHANGED Diagnosed!levelVars
      BY <1>13 DEF Diagnosed!Resume
    <3>4. \/ steps = <<"resume">> /\ steps' = <<>>
          \/ steps = <<"resume", "push">> /\ steps' = <<"push">>
      BY <2>1, <3>1, Stepping
    <3> QED
      BY <2>2, <3>1, <3>2, <3>3, <3>4, Places DEF Diagnosed!levelVars
  <2>3. CASE captured = None /\ record = "fresh"
    <3>1. captured' = Diagnosed!Begun /\ generation' = generation + 1 /\ record' = record
      BY <1>13, <2>3 DEF Diagnosed!Resume
    <3>2. steps' = Diagnosed!ResumeSteps \o Tail(steps) /\ watchdogs' = watchdogs /\ core' = core
      BY <1>13, <2>3 DEF Diagnosed!Resume
    <3>3. UNCHANGED Diagnosed!levelVars
      BY <1>13 DEF Diagnosed!Resume
    <3>4. \/ steps = <<"resume">> /\ steps' = <<"raise", "watch">>
          \/ steps = <<"resume", "push">> /\ steps' = <<"raise", "watch", "push">>
      BY <2>1, <3>2, Resumes, Beginnings
    <3>5. /\ captured' \in Sessions /\ captured' # None /\ captured'.generation = generation + 1
          /\ ~captured'.spent
      BY <3>1, Beginning
    <3>6. steps' \in Watching \cap Loud /\ steps' \notin Calm \cup Clearing \cup Resuming
      BY <3>4, Places
    <3>7. steps \notin Down
      BY <3>4, Places
    <3>8. UNCHANGED <<disturbed, level, saved, config>>
      BY <3>3 DEF Diagnosed!levelVars
    <3>9. \A w \in watchdogs : w.generation \in Nat
      OBVIOUS
    <3> QED
      BY <2>1, <2>3, <3>1, <3>2, <3>5, <3>6, <3>7, <3>8, <3>9
  <2> QED
    BY <2>2, <2>3
<1>14. CASE Diagnosed!TimePasses
  BY <1>14, Beginning DEF Diagnosed!TimePasses, Diagnosed!captureVars, Diagnosed!levelVars
<1>15. CASE Diagnosed!WriterLooks
  BY <1>15 DEF Diagnosed!WriterLooks, Diagnosed!captureVars, Diagnosed!levelVars
<1>16. CASE Diagnosed!WriterFinishes
  BY <1>16 DEF Diagnosed!WriterFinishes, Diagnosed!captureVars, Diagnosed!levelVars
<1>17. CASE Diagnosed!Launch
  <2>1. steps' = Diagnosed!Boot
    BY <1>17, Beginnings DEF Diagnosed!Launch, Diagnosed!End
  <2>2. Diagnosed!Boot = <<"initialize", "resume", "push">>
    BY DEF Diagnosed!Boot
  <2> QED
    BY <1>17, <2>1, <2>2, Places, Beginning DEF Diagnosed!Launch, Diagnosed!End, Diagnosed!Spend,
       Diagnosed!Idle, Diagnosed!captureVars, Diagnosed!levelVars
<1>18. ASSUME NEW w \in watchdogs, Diagnosed!Wake(w) PROVE CaptureTyped'
  BY <1>18, Becoming DEF Diagnosed!Wake, Diagnosed!Guards, Diagnosed!captureVars,
     Diagnosed!levelVars
<1>19. ASSUME NEW w \in watchdogs, Diagnosed!Expire(w) PROVE CaptureTyped'
  BY <1>19, Becoming DEF Diagnosed!Expire, Diagnosed!Ends, Diagnosed!Guards,
     Diagnosed!captureVars, Diagnosed!levelVars
<1>20. ASSUME NEW w \in watchdogs, Diagnosed!ExpireRestores(w) PROVE CaptureTyped'
  BY <1>20, Becoming DEF Diagnosed!ExpireRestores, Diagnosed!Restored, Diagnosed!captureVars,
     Diagnosed!levelVars
<1>21. ASSUME NEW w \in watchdogs, Diagnosed!ExpireClears(w) PROVE CaptureTyped'
  BY <1>21 DEF Diagnosed!ExpireClears, Diagnosed!captureVars, Diagnosed!levelVars
<1>22. CASE UNCHANGED Diagnosed!vars
  BY <1>22 DEF Diagnosed!vars, Diagnosed!captureVars, Diagnosed!levelVars
<1> QED
  BY <1>1, <1>2, <1>3, <1>4, <1>5, <1>6, <1>7, <1>8, <1>9, <1>10, <1>11, <1>12, <1>13, <1>14,
     <1>15, <1>16, <1>17, <1>18, <1>19, <1>20, <1>21, <1>22 DEF Diagnosed!Next,
     Diagnosed!HostCall, Diagnosed!HostStep, Diagnosed!WatchdogStep

\* Every step keeps the sessions and the watchdogs to their order.
LEMMA GenerationsStep ==
    ASSUME CaptureTyped, Generations, Courses, [Diagnosed!Next]_(Diagnosed!vars)
    PROVE  Generations'
<1> USE DEF CaptureTyped, Generations, Courses
<1>1. CASE Diagnosed!Start
  <2>1. steps' = <<"raise", "watch">>
    BY <1>1, Beginnings DEF Diagnosed!Start, Diagnosed!End
  <2>2. steps = <<>> /\ core
    BY <1>1 DEF Diagnosed!Start, Diagnosed!End, Diagnosed!Idle
  <2> QED
    BY <1>1, <2>1, <2>2, Places, Beginning DEF Diagnosed!Start, Diagnosed!End, Diagnosed!Spend,
       Diagnosed!Idle, Diagnosed!captureVars, Diagnosed!levelVars
<1>2. CASE Diagnosed!Stop
  <2>1. steps' = <<"restore", "clear", "write">>
    BY <1>2, Beginnings DEF Diagnosed!Stop, Diagnosed!End
  <2>2. steps = <<>> /\ core
    BY <1>2 DEF Diagnosed!Stop, Diagnosed!End, Diagnosed!Idle
  <2> QED
    BY <1>2, <2>1, <2>2, Places, Beginning DEF Diagnosed!Stop, Diagnosed!End, Diagnosed!Spend,
       Diagnosed!Idle, Diagnosed!captureVars, Diagnosed!levelVars
<1>3. CASE Diagnosed!Cancel
  <2>1. steps' = <<"restore", "clear">>
    BY <1>3, Beginnings DEF Diagnosed!Cancel, Diagnosed!End
  <2>2. steps = <<>> /\ core
    BY <1>3 DEF Diagnosed!Cancel, Diagnosed!End, Diagnosed!Idle
  <2> QED
    BY <1>3, <2>1, <2>2, Places, Beginning DEF Diagnosed!Cancel, Diagnosed!End, Diagnosed!Spend,
       Diagnosed!Idle, Diagnosed!captureVars, Diagnosed!levelVars
<1>4. CASE Diagnosed!ApplySettings
  BY <1>4, Applying, Places DEF Diagnosed!captureVars, Diagnosed!levelVars
<1>5. CASE Diagnosed!Raise
  <2>1. Diagnosed!Step("raise") /\ Diagnosed!Done /\ steps # <<>>
    BY <1>5 DEF Diagnosed!Raise, Diagnosed!Step
  <2> QED
    BY <1>5, <2>1, Stepping DEF Diagnosed!Raise, Diagnosed!captureVars, Diagnosed!levelVars
<1>6. CASE Diagnosed!Watch
  <2>1. Diagnosed!Step("watch") /\ Diagnosed!Done /\ steps # <<>>
    BY <1>6 DEF Diagnosed!Watch, Diagnosed!Step
  <2> QED
    BY <1>6, <2>1, Stepping DEF Diagnosed!Watch, Diagnosed!captureVars, Diagnosed!levelVars
<1>7. CASE Diagnosed!Restore
  <2>1. Diagnosed!Step("restore") /\ Diagnosed!Done /\ steps # <<>>
    BY <1>7 DEF Diagnosed!Restore, Diagnosed!Step
  <2> QED
    BY <1>7, <2>1, Stepping DEF Diagnosed!Restore, Diagnosed!Restored, Diagnosed!captureVars,
       Diagnosed!levelVars
<1>8. CASE Diagnosed!Clear
  <2>1. Diagnosed!Step("clear") /\ Diagnosed!Done /\ steps # <<>>
    BY <1>8 DEF Diagnosed!Clear, Diagnosed!Step
  <2> QED
    BY <1>8, <2>1, Stepping DEF Diagnosed!Clear, Diagnosed!captureVars, Diagnosed!levelVars
<1>9. CASE Diagnosed!Write
  <2>1. Diagnosed!Step("write") /\ Diagnosed!Done /\ steps # <<>>
    BY <1>9 DEF Diagnosed!Write, Diagnosed!Step
  <2> QED
    BY <1>9, <2>1, Stepping DEF Diagnosed!Write, Diagnosed!captureVars, Diagnosed!levelVars
<1>10. CASE Diagnosed!Push
  <2>1. Diagnosed!Step("push") /\ Diagnosed!Done /\ steps # <<>>
    BY <1>10 DEF Diagnosed!Push, Diagnosed!Step
  <2> QED
    BY <1>10, <2>1, Stepping DEF Diagnosed!Push, Diagnosed!captureVars, Diagnosed!levelVars
<1>11. CASE Diagnosed!Shutdown
  <2>1. Diagnosed!Step("shutdown") /\ Diagnosed!Done /\ steps # <<>>
    BY <1>11 DEF Diagnosed!Shutdown, Diagnosed!Step
  <2> QED
    BY <1>11, <2>1, Stepping DEF Diagnosed!Shutdown, Diagnosed!captureVars, Diagnosed!levelVars
<1>12. CASE Diagnosed!Initialize
  <2>1. Diagnosed!Step("initialize") /\ Diagnosed!Done /\ steps # <<>>
    BY <1>12 DEF Diagnosed!Initialize, Diagnosed!Step
  <2> QED
    BY <1>12, <2>1, Stepping DEF Diagnosed!Initialize, Diagnosed!captureVars, Diagnosed!levelVars
<1>13. CASE Diagnosed!Resume
  <2>1. Diagnosed!Step("resume") /\ steps # <<>>
    BY <1>13 DEF Diagnosed!Resume, Diagnosed!Step
  <2>2. CASE captured # None \/ record # "fresh"
    <3>1. Diagnosed!Done /\ record' = (IF captured # None THEN record ELSE "none")
      BY <1>13, <2>2 DEF Diagnosed!Resume
    <3>2. captured' = captured /\ generation' = generation /\ watchdogs' = watchdogs /\ core' = core
      BY <1>13, <2>2 DEF Diagnosed!Resume
    <3>3. UNCHANGED Diagnosed!levelVars
      BY <1>13 DEF Diagnosed!Resume
    <3>4. \/ steps = <<"resume">> /\ steps' = <<>>
          \/ steps = <<"resume", "push">> /\ steps' = <<"push">>
      BY <2>1, <3>1, Stepping
    <3> QED
      BY <2>2, <3>1, <3>2, <3>3, <3>4, Places DEF Diagnosed!levelVars
  <2>3. CASE captured = None /\ record = "fresh"
    <3>1. captured' = Diagnosed!Begun /\ generation' = generation + 1 /\ record' = record
      BY <1>13, <2>3 DEF Diagnosed!Resume
    <3>2. steps' = Diagnosed!ResumeSteps \o Tail(steps) /\ watchdogs' = watchdogs /\ core' = core
      BY <1>13, <2>3 DEF Diagnosed!Resume
    <3>3. UNCHANGED Diagnosed!levelVars
      BY <1>13 DEF Diagnosed!Resume
    <3>4. \/ steps = <<"resume">> /\ steps' = <<"raise", "watch">>
          \/ steps = <<"resume", "push">> /\ steps' = <<"raise", "watch", "push">>
      BY <2>1, <3>2, Resumes, Beginnings
    <3>5. /\ captured' \in Sessions /\ captured' # None /\ captured'.generation = generation + 1
          /\ ~captured'.spent
      BY <3>1, Beginning
    <3>6. steps' \in Watching \cap Loud /\ steps' \notin Calm \cup Clearing \cup Resuming
      BY <3>4, Places
    <3>7. steps \notin Down
      BY <3>4, Places
    <3>8. UNCHANGED <<disturbed, level, saved, config>>
      BY <3>3 DEF Diagnosed!levelVars
    <3>9. \A w \in watchdogs : w.generation \in Nat
      OBVIOUS
    <3> QED
      BY <2>1, <2>3, <3>1, <3>2, <3>5, <3>6, <3>7, <3>8, <3>9
  <2> QED
    BY <2>2, <2>3
<1>14. CASE Diagnosed!TimePasses
  BY <1>14, Beginning DEF Diagnosed!TimePasses, Diagnosed!captureVars, Diagnosed!levelVars
<1>15. CASE Diagnosed!WriterLooks
  BY <1>15 DEF Diagnosed!WriterLooks, Diagnosed!captureVars, Diagnosed!levelVars
<1>16. CASE Diagnosed!WriterFinishes
  BY <1>16 DEF Diagnosed!WriterFinishes, Diagnosed!captureVars, Diagnosed!levelVars
<1>17. CASE Diagnosed!Launch
  <2>1. steps' = Diagnosed!Boot
    BY <1>17, Beginnings DEF Diagnosed!Launch, Diagnosed!End
  <2>2. Diagnosed!Boot = <<"initialize", "resume", "push">>
    BY DEF Diagnosed!Boot
  <2> QED
    BY <1>17, <2>1, <2>2, Places, Beginning DEF Diagnosed!Launch, Diagnosed!End, Diagnosed!Spend,
       Diagnosed!Idle, Diagnosed!captureVars, Diagnosed!levelVars
<1>18. ASSUME NEW w \in watchdogs, Diagnosed!Wake(w) PROVE Generations'
  BY <1>18, Becoming DEF Diagnosed!Wake, Diagnosed!Guards, Diagnosed!captureVars,
     Diagnosed!levelVars
<1>19. ASSUME NEW w \in watchdogs, Diagnosed!Expire(w) PROVE Generations'
  BY <1>19, Becoming DEF Diagnosed!Expire, Diagnosed!Ends, Diagnosed!Guards,
     Diagnosed!captureVars, Diagnosed!levelVars
<1>20. ASSUME NEW w \in watchdogs, Diagnosed!ExpireRestores(w) PROVE Generations'
  BY <1>20, Becoming DEF Diagnosed!ExpireRestores, Diagnosed!Restored, Diagnosed!captureVars,
     Diagnosed!levelVars
<1>21. ASSUME NEW w \in watchdogs, Diagnosed!ExpireClears(w) PROVE Generations'
  BY <1>21 DEF Diagnosed!ExpireClears, Diagnosed!captureVars, Diagnosed!levelVars
<1>22. CASE UNCHANGED Diagnosed!vars
  BY <1>22 DEF Diagnosed!vars, Diagnosed!captureVars, Diagnosed!levelVars
<1> QED
  BY <1>1, <1>2, <1>3, <1>4, <1>5, <1>6, <1>7, <1>8, <1>9, <1>10, <1>11, <1>12, <1>13, <1>14,
     <1>15, <1>16, <1>17, <1>18, <1>19, <1>20, <1>21, <1>22 DEF Diagnosed!Next,
     Diagnosed!HostCall, Diagnosed!HostStep, Diagnosed!WatchdogStep

\* Every step keeps the calls to their session and their core.
LEMMA CoursesStep ==
    ASSUME CaptureTyped, Generations, Courses, [Diagnosed!Next]_(Diagnosed!vars)
    PROVE  Courses'
<1> USE DEF CaptureTyped, Generations, Courses
<1>1. CASE Diagnosed!Start
  <2>1. steps' = <<"raise", "watch">>
    BY <1>1, Beginnings DEF Diagnosed!Start, Diagnosed!End
  <2>2. steps = <<>> /\ core
    BY <1>1 DEF Diagnosed!Start, Diagnosed!End, Diagnosed!Idle
  <2> QED
    BY <1>1, <2>1, <2>2, Places, Beginning DEF Diagnosed!Start, Diagnosed!End, Diagnosed!Spend,
       Diagnosed!Idle, Diagnosed!captureVars, Diagnosed!levelVars
<1>2. CASE Diagnosed!Stop
  <2>1. steps' = <<"restore", "clear", "write">>
    BY <1>2, Beginnings DEF Diagnosed!Stop, Diagnosed!End
  <2>2. steps = <<>> /\ core
    BY <1>2 DEF Diagnosed!Stop, Diagnosed!End, Diagnosed!Idle
  <2> QED
    BY <1>2, <2>1, <2>2, Places, Beginning DEF Diagnosed!Stop, Diagnosed!End, Diagnosed!Spend,
       Diagnosed!Idle, Diagnosed!captureVars, Diagnosed!levelVars
<1>3. CASE Diagnosed!Cancel
  <2>1. steps' = <<"restore", "clear">>
    BY <1>3, Beginnings DEF Diagnosed!Cancel, Diagnosed!End
  <2>2. steps = <<>> /\ core
    BY <1>3 DEF Diagnosed!Cancel, Diagnosed!End, Diagnosed!Idle
  <2> QED
    BY <1>3, <2>1, <2>2, Places, Beginning DEF Diagnosed!Cancel, Diagnosed!End, Diagnosed!Spend,
       Diagnosed!Idle, Diagnosed!captureVars, Diagnosed!levelVars
<1>4. CASE Diagnosed!ApplySettings
  BY <1>4, Applying, Places DEF Diagnosed!captureVars, Diagnosed!levelVars
<1>5. CASE Diagnosed!Raise
  <2>1. Diagnosed!Step("raise") /\ Diagnosed!Done /\ steps # <<>>
    BY <1>5 DEF Diagnosed!Raise, Diagnosed!Step
  <2> QED
    BY <1>5, <2>1, Stepping DEF Diagnosed!Raise, Diagnosed!captureVars, Diagnosed!levelVars
<1>6. CASE Diagnosed!Watch
  <2>1. Diagnosed!Step("watch") /\ Diagnosed!Done /\ steps # <<>>
    BY <1>6 DEF Diagnosed!Watch, Diagnosed!Step
  <2> QED
    BY <1>6, <2>1, Stepping DEF Diagnosed!Watch, Diagnosed!captureVars, Diagnosed!levelVars
<1>7. CASE Diagnosed!Restore
  <2>1. Diagnosed!Step("restore") /\ Diagnosed!Done /\ steps # <<>>
    BY <1>7 DEF Diagnosed!Restore, Diagnosed!Step
  <2> QED
    BY <1>7, <2>1, Stepping DEF Diagnosed!Restore, Diagnosed!Restored, Diagnosed!captureVars,
       Diagnosed!levelVars
<1>8. CASE Diagnosed!Clear
  <2>1. Diagnosed!Step("clear") /\ Diagnosed!Done /\ steps # <<>>
    BY <1>8 DEF Diagnosed!Clear, Diagnosed!Step
  <2> QED
    BY <1>8, <2>1, Stepping DEF Diagnosed!Clear, Diagnosed!captureVars, Diagnosed!levelVars
<1>9. CASE Diagnosed!Write
  <2>1. Diagnosed!Step("write") /\ Diagnosed!Done /\ steps # <<>>
    BY <1>9 DEF Diagnosed!Write, Diagnosed!Step
  <2> QED
    BY <1>9, <2>1, Stepping DEF Diagnosed!Write, Diagnosed!captureVars, Diagnosed!levelVars
<1>10. CASE Diagnosed!Push
  <2>1. Diagnosed!Step("push") /\ Diagnosed!Done /\ steps # <<>>
    BY <1>10 DEF Diagnosed!Push, Diagnosed!Step
  <2> QED
    BY <1>10, <2>1, Stepping DEF Diagnosed!Push, Diagnosed!captureVars, Diagnosed!levelVars
<1>11. CASE Diagnosed!Shutdown
  <2>1. Diagnosed!Step("shutdown") /\ Diagnosed!Done /\ steps # <<>>
    BY <1>11 DEF Diagnosed!Shutdown, Diagnosed!Step
  <2> QED
    BY <1>11, <2>1, Stepping DEF Diagnosed!Shutdown, Diagnosed!captureVars, Diagnosed!levelVars
<1>12. CASE Diagnosed!Initialize
  <2>1. Diagnosed!Step("initialize") /\ Diagnosed!Done /\ steps # <<>>
    BY <1>12 DEF Diagnosed!Initialize, Diagnosed!Step
  <2> QED
    BY <1>12, <2>1, Stepping DEF Diagnosed!Initialize, Diagnosed!captureVars, Diagnosed!levelVars
<1>13. CASE Diagnosed!Resume
  <2>1. Diagnosed!Step("resume") /\ steps # <<>>
    BY <1>13 DEF Diagnosed!Resume, Diagnosed!Step
  <2>2. CASE captured # None \/ record # "fresh"
    <3>1. Diagnosed!Done /\ record' = (IF captured # None THEN record ELSE "none")
      BY <1>13, <2>2 DEF Diagnosed!Resume
    <3>2. captured' = captured /\ generation' = generation /\ watchdogs' = watchdogs /\ core' = core
      BY <1>13, <2>2 DEF Diagnosed!Resume
    <3>3. UNCHANGED Diagnosed!levelVars
      BY <1>13 DEF Diagnosed!Resume
    <3>4. \/ steps = <<"resume">> /\ steps' = <<>>
          \/ steps = <<"resume", "push">> /\ steps' = <<"push">>
      BY <2>1, <3>1, Stepping
    <3> QED
      BY <2>2, <3>1, <3>2, <3>3, <3>4, Places DEF Diagnosed!levelVars
  <2>3. CASE captured = None /\ record = "fresh"
    <3>1. captured' = Diagnosed!Begun /\ generation' = generation + 1 /\ record' = record
      BY <1>13, <2>3 DEF Diagnosed!Resume
    <3>2. steps' = Diagnosed!ResumeSteps \o Tail(steps) /\ watchdogs' = watchdogs /\ core' = core
      BY <1>13, <2>3 DEF Diagnosed!Resume
    <3>3. UNCHANGED Diagnosed!levelVars
      BY <1>13 DEF Diagnosed!Resume
    <3>4. \/ steps = <<"resume">> /\ steps' = <<"raise", "watch">>
          \/ steps = <<"resume", "push">> /\ steps' = <<"raise", "watch", "push">>
      BY <2>1, <3>2, Resumes, Beginnings
    <3>5. /\ captured' \in Sessions /\ captured' # None /\ captured'.generation = generation + 1
          /\ ~captured'.spent
      BY <3>1, Beginning
    <3>6. steps' \in Watching \cap Loud /\ steps' \notin Calm \cup Clearing \cup Resuming
      BY <3>4, Places
    <3>7. steps \notin Down
      BY <3>4, Places
    <3>8. UNCHANGED <<disturbed, level, saved, config>>
      BY <3>3 DEF Diagnosed!levelVars
    <3>9. \A w \in watchdogs : w.generation \in Nat
      OBVIOUS
    <3> QED
      BY <2>1, <2>3, <3>1, <3>2, <3>5, <3>6, <3>7, <3>8, <3>9
  <2> QED
    BY <2>2, <2>3
<1>14. CASE Diagnosed!TimePasses
  BY <1>14, Beginning DEF Diagnosed!TimePasses, Diagnosed!captureVars, Diagnosed!levelVars
<1>15. CASE Diagnosed!WriterLooks
  BY <1>15 DEF Diagnosed!WriterLooks, Diagnosed!captureVars, Diagnosed!levelVars
<1>16. CASE Diagnosed!WriterFinishes
  BY <1>16 DEF Diagnosed!WriterFinishes, Diagnosed!captureVars, Diagnosed!levelVars
<1>17. CASE Diagnosed!Launch
  <2>1. steps' = Diagnosed!Boot
    BY <1>17, Beginnings DEF Diagnosed!Launch, Diagnosed!End
  <2>2. Diagnosed!Boot = <<"initialize", "resume", "push">>
    BY DEF Diagnosed!Boot
  <2> QED
    BY <1>17, <2>1, <2>2, Places, Beginning DEF Diagnosed!Launch, Diagnosed!End, Diagnosed!Spend,
       Diagnosed!Idle, Diagnosed!captureVars, Diagnosed!levelVars
<1>18. ASSUME NEW w \in watchdogs, Diagnosed!Wake(w) PROVE Courses'
  BY <1>18, Becoming DEF Diagnosed!Wake, Diagnosed!Guards, Diagnosed!captureVars,
     Diagnosed!levelVars
<1>19. ASSUME NEW w \in watchdogs, Diagnosed!Expire(w) PROVE Courses'
  BY <1>19, Becoming DEF Diagnosed!Expire, Diagnosed!Ends, Diagnosed!Guards,
     Diagnosed!captureVars, Diagnosed!levelVars
<1>20. ASSUME NEW w \in watchdogs, Diagnosed!ExpireRestores(w) PROVE Courses'
  BY <1>20, Becoming DEF Diagnosed!ExpireRestores, Diagnosed!Restored, Diagnosed!captureVars,
     Diagnosed!levelVars
<1>21. ASSUME NEW w \in watchdogs, Diagnosed!ExpireClears(w) PROVE Courses'
  BY <1>21 DEF Diagnosed!ExpireClears, Diagnosed!captureVars, Diagnosed!levelVars
<1>22. CASE UNCHANGED Diagnosed!vars
  BY <1>22 DEF Diagnosed!vars, Diagnosed!captureVars, Diagnosed!levelVars
<1> QED
  BY <1>1, <1>2, <1>3, <1>4, <1>5, <1>6, <1>7, <1>8, <1>9, <1>10, <1>11, <1>12, <1>13, <1>14,
     <1>15, <1>16, <1>17, <1>18, <1>19, <1>20, <1>21, <1>22 DEF Diagnosed!Next,
     Diagnosed!HostCall, Diagnosed!HostStep, Diagnosed!WatchdogStep

\* Every step leaves a record to who clears it or takes it up.
LEMMA OwedStep ==
    ASSUME CaptureTyped, Generations, Courses, Owed, [Diagnosed!Next]_(Diagnosed!vars)
    PROVE  Owed'
<1> USE DEF CaptureTyped, Generations, Courses, Owed
<1>1. CASE Diagnosed!Start
  <2>1. steps' = <<"raise", "watch">>
    BY <1>1, Beginnings DEF Diagnosed!Start, Diagnosed!End
  <2>2. steps = <<>> /\ core
    BY <1>1 DEF Diagnosed!Start, Diagnosed!End, Diagnosed!Idle
  <2> QED
    BY <1>1, <2>1, <2>2, Places, Beginning DEF Diagnosed!Start, Diagnosed!End, Diagnosed!Spend,
       Diagnosed!Idle, Diagnosed!captureVars, Diagnosed!levelVars
<1>2. CASE Diagnosed!Stop
  <2>1. steps' = <<"restore", "clear", "write">>
    BY <1>2, Beginnings DEF Diagnosed!Stop, Diagnosed!End
  <2>2. steps = <<>> /\ core
    BY <1>2 DEF Diagnosed!Stop, Diagnosed!End, Diagnosed!Idle
  <2> QED
    BY <1>2, <2>1, <2>2, Places, Beginning DEF Diagnosed!Stop, Diagnosed!End, Diagnosed!Spend,
       Diagnosed!Idle, Diagnosed!captureVars, Diagnosed!levelVars
<1>3. CASE Diagnosed!Cancel
  <2>1. steps' = <<"restore", "clear">>
    BY <1>3, Beginnings DEF Diagnosed!Cancel, Diagnosed!End
  <2>2. steps = <<>> /\ core
    BY <1>3 DEF Diagnosed!Cancel, Diagnosed!End, Diagnosed!Idle
  <2> QED
    BY <1>3, <2>1, <2>2, Places, Beginning DEF Diagnosed!Cancel, Diagnosed!End, Diagnosed!Spend,
       Diagnosed!Idle, Diagnosed!captureVars, Diagnosed!levelVars
<1>4. CASE Diagnosed!ApplySettings
  BY <1>4, Applying, Places DEF Diagnosed!captureVars, Diagnosed!levelVars
<1>5. CASE Diagnosed!Raise
  <2>1. Diagnosed!Step("raise") /\ Diagnosed!Done /\ steps # <<>>
    BY <1>5 DEF Diagnosed!Raise, Diagnosed!Step
  <2> QED
    BY <1>5, <2>1, Stepping DEF Diagnosed!Raise, Diagnosed!captureVars, Diagnosed!levelVars
<1>6. CASE Diagnosed!Watch
  <2>1. Diagnosed!Step("watch") /\ Diagnosed!Done /\ steps # <<>>
    BY <1>6 DEF Diagnosed!Watch, Diagnosed!Step
  <2> QED
    BY <1>6, <2>1, Stepping DEF Diagnosed!Watch, Diagnosed!captureVars, Diagnosed!levelVars
<1>7. CASE Diagnosed!Restore
  <2>1. Diagnosed!Step("restore") /\ Diagnosed!Done /\ steps # <<>>
    BY <1>7 DEF Diagnosed!Restore, Diagnosed!Step
  <2> QED
    BY <1>7, <2>1, Stepping DEF Diagnosed!Restore, Diagnosed!Restored, Diagnosed!captureVars,
       Diagnosed!levelVars
<1>8. CASE Diagnosed!Clear
  <2>1. Diagnosed!Step("clear") /\ Diagnosed!Done /\ steps # <<>>
    BY <1>8 DEF Diagnosed!Clear, Diagnosed!Step
  <2> QED
    BY <1>8, <2>1, Stepping DEF Diagnosed!Clear, Diagnosed!captureVars, Diagnosed!levelVars
<1>9. CASE Diagnosed!Write
  <2>1. Diagnosed!Step("write") /\ Diagnosed!Done /\ steps # <<>>
    BY <1>9 DEF Diagnosed!Write, Diagnosed!Step
  <2>2. steps \notin Clearing \cup Resuming
    BY <2>1, Stepping
  <2>3. record' = record /\ captured' = captured /\ watchdogs' = watchdogs
    BY <1>9 DEF Diagnosed!Write, Diagnosed!captureVars
  <2>4. record = "fresh" => captured # None /\ ~captured.spent
    BY <2>2 DEF Resuming
  <2>5. record = "spent" /\ captured = None => \E w \in watchdogs : w.at \in {"restore", "clear"}
    BY <2>2
  <2> QED
    BY <2>3, <2>4, <2>5
<1>10. CASE Diagnosed!Push
  <2>1. Diagnosed!Step("push") /\ Diagnosed!Done /\ steps # <<>>
    BY <1>10 DEF Diagnosed!Push, Diagnosed!Step
  <2>2. steps \notin Clearing \cup Resuming
    BY <2>1, Stepping
  <2>3. record' = record /\ captured' = captured /\ watchdogs' = watchdogs
    BY <1>10 DEF Diagnosed!Push, Diagnosed!captureVars
  <2>4. record = "fresh" => captured # None /\ ~captured.spent
    BY <2>2 DEF Resuming
  <2>5. record = "spent" /\ captured = None => \E w \in watchdogs : w.at \in {"restore", "clear"}
    BY <2>2
  <2> QED
    BY <2>3, <2>4, <2>5
<1>11. CASE Diagnosed!Shutdown
  <2>1. Diagnosed!Step("shutdown") /\ Diagnosed!Done /\ steps # <<>>
    BY <1>11 DEF Diagnosed!Shutdown, Diagnosed!Step
  <2>2. steps \notin Clearing \cup Resuming
    BY <2>1, Stepping
  <2>3. record' = record /\ captured' = captured /\ watchdogs' = watchdogs
    BY <1>11 DEF Diagnosed!Shutdown, Diagnosed!captureVars
  <2>4. record = "fresh" => captured # None /\ ~captured.spent
    BY <2>2 DEF Resuming
  <2>5. record = "spent" /\ captured = None => \E w \in watchdogs : w.at \in {"restore", "clear"}
    BY <2>2
  <2> QED
    BY <2>3, <2>4, <2>5
<1>12. CASE Diagnosed!Initialize
  <2>1. Diagnosed!Step("initialize") /\ Diagnosed!Done /\ steps # <<>>
    BY <1>12 DEF Diagnosed!Initialize, Diagnosed!Step
  <2> QED
    BY <1>12, <2>1, Stepping DEF Diagnosed!Initialize, Diagnosed!captureVars, Diagnosed!levelVars
<1>13. CASE Diagnosed!Resume
  <2>1. Diagnosed!Step("resume") /\ steps # <<>>
    BY <1>13 DEF Diagnosed!Resume, Diagnosed!Step
  <2>2. CASE captured # None \/ record # "fresh"
    <3>1. Diagnosed!Done /\ record' = (IF captured # None THEN record ELSE "none")
      BY <1>13, <2>2 DEF Diagnosed!Resume
    <3>2. captured' = captured /\ generation' = generation /\ watchdogs' = watchdogs /\ core' = core
      BY <1>13, <2>2 DEF Diagnosed!Resume
    <3>3. UNCHANGED Diagnosed!levelVars
      BY <1>13 DEF Diagnosed!Resume
    <3>4. \/ steps = <<"resume">> /\ steps' = <<>>
          \/ steps = <<"resume", "push">> /\ steps' = <<"push">>
      BY <2>1, <3>1, Stepping
    <3> QED
      BY <2>2, <3>1, <3>2, <3>3, <3>4, Places DEF Diagnosed!levelVars
  <2>3. CASE captured = None /\ record = "fresh"
    <3>1. captured' = Diagnosed!Begun /\ generation' = generation + 1 /\ record' = record
      BY <1>13, <2>3 DEF Diagnosed!Resume
    <3>2. steps' = Diagnosed!ResumeSteps \o Tail(steps) /\ watchdogs' = watchdogs /\ core' = core
      BY <1>13, <2>3 DEF Diagnosed!Resume
    <3>3. UNCHANGED Diagnosed!levelVars
      BY <1>13 DEF Diagnosed!Resume
    <3>4. \/ steps = <<"resume">> /\ steps' = <<"raise", "watch">>
          \/ steps = <<"resume", "push">> /\ steps' = <<"raise", "watch", "push">>
      BY <2>1, <3>2, Resumes, Beginnings
    <3>5. /\ captured' \in Sessions /\ captured' # None /\ captured'.generation = generation + 1
          /\ ~captured'.spent
      BY <3>1, Beginning
    <3>6. steps' \in Watching \cap Loud /\ steps' \notin Calm \cup Clearing \cup Resuming
      BY <3>4, Places
    <3>7. steps \notin Down
      BY <3>4, Places
    <3>8. UNCHANGED <<disturbed, level, saved, config>>
      BY <3>3 DEF Diagnosed!levelVars
    <3>9. \A w \in watchdogs : w.generation \in Nat
      OBVIOUS
    <3> QED
      BY <2>1, <2>3, <3>1, <3>2, <3>5, <3>6, <3>7, <3>8, <3>9
  <2> QED
    BY <2>2, <2>3
<1>14. CASE Diagnosed!TimePasses
  <2>1. steps' = steps /\ watchdogs' = watchdogs
    BY <1>14 DEF Diagnosed!TimePasses
  <2>2. record' = IF record = "fresh" THEN "spent" ELSE record
    BY <1>14 DEF Diagnosed!TimePasses
  <2>3. captured' # None <=> captured # None
    BY <1>14, Beginning DEF Diagnosed!TimePasses
  <2>4. CASE captured # None
    BY <2>2, <2>3, <2>4
  <2>5. CASE captured = None
    <3>1. record = "fresh" => steps \in Clearing \cup Resuming
      BY <2>5 DEF Resuming
    <3> QED
      BY <2>1, <2>2, <2>3, <2>5, <3>1
  <2> QED
    BY <2>4, <2>5
<1>15. CASE Diagnosed!WriterLooks
  BY <1>15 DEF Diagnosed!WriterLooks, Diagnosed!captureVars, Diagnosed!levelVars
<1>16. CASE Diagnosed!WriterFinishes
  BY <1>16 DEF Diagnosed!WriterFinishes, Diagnosed!captureVars, Diagnosed!levelVars
<1>17. CASE Diagnosed!Launch
  <2>1. steps' = Diagnosed!Boot
    BY <1>17, Beginnings DEF Diagnosed!Launch, Diagnosed!End
  <2>2. Diagnosed!Boot = <<"initialize", "resume", "push">>
    BY DEF Diagnosed!Boot
  <2> QED
    BY <1>17, <2>1, <2>2, Places, Beginning DEF Diagnosed!Launch, Diagnosed!End, Diagnosed!Spend,
       Diagnosed!Idle, Diagnosed!captureVars, Diagnosed!levelVars
<1>18. ASSUME NEW w \in watchdogs, Diagnosed!Wake(w) PROVE Owed'
  BY <1>18, Becoming DEF Diagnosed!Wake, Diagnosed!Guards, Diagnosed!captureVars,
     Diagnosed!levelVars
<1>19. ASSUME NEW w \in watchdogs, Diagnosed!Expire(w) PROVE Owed'
  BY <1>19, Becoming DEF Diagnosed!Expire, Diagnosed!Ends, Diagnosed!Guards,
     Diagnosed!captureVars, Diagnosed!levelVars
<1>20. ASSUME NEW w \in watchdogs, Diagnosed!ExpireRestores(w) PROVE Owed'
  <2>1. steps' = steps /\ record' = record /\ captured' = captured
    BY <1>20 DEF Diagnosed!ExpireRestores
  <2>2. w.at = "restore"
    BY <1>20 DEF Diagnosed!ExpireRestores
  <2>3. CASE core
    <3>1. Diagnosed!Become(w, "clear")
      BY <1>20, <2>3 DEF Diagnosed!ExpireRestores
    <3>2. \E x \in watchdogs' : x.at = "clear"
      BY <3>1, Becoming
    <3> QED
      BY <2>1, <3>2
  <2>4. CASE ~core
    <3>1. steps \in Down
      BY <2>4
    <3>2. steps \in Resuming
      BY <3>1 DEF Down, Resuming, Booting
    <3> QED
      BY <2>1, <3>2
  <2> QED
    BY <2>3, <2>4
<1>21. ASSUME NEW w \in watchdogs, Diagnosed!ExpireClears(w) PROVE Owed'
  BY <1>21 DEF Diagnosed!ExpireClears, Diagnosed!captureVars, Diagnosed!levelVars
<1>22. CASE UNCHANGED Diagnosed!vars
  BY <1>22 DEF Diagnosed!vars, Diagnosed!captureVars, Diagnosed!levelVars
<1> QED
  BY <1>1, <1>2, <1>3, <1>4, <1>5, <1>6, <1>7, <1>8, <1>9, <1>10, <1>11, <1>12, <1>13, <1>14,
     <1>15, <1>16, <1>17, <1>18, <1>19, <1>20, <1>21, <1>22 DEF Diagnosed!Next,
     Diagnosed!HostCall, Diagnosed!HostStep, Diagnosed!WatchdogStep

\* Every step that leaves the level alone leaves it right.
LEMMA LevelStep ==
    ASSUME CaptureTyped, Generations, Courses, Owed, LevelKept, [Diagnosed!Next]_(Diagnosed!vars)
    PROVE  LevelKept'
<1> USE DEF CaptureTyped, Generations, Courses, Owed, LevelKept, Diagnosed!Raised
<1>1. CASE Diagnosed!Start
  <2>1. steps' = <<"raise", "watch">>
    BY <1>1, Beginnings DEF Diagnosed!Start, Diagnosed!End
  <2>2. steps = <<>> /\ core
    BY <1>1 DEF Diagnosed!Start, Diagnosed!End, Diagnosed!Idle
  <2> QED
    BY <1>1, <2>1, <2>2, Places, Beginning DEF Diagnosed!Start, Diagnosed!End, Diagnosed!Spend,
       Diagnosed!Idle, Diagnosed!captureVars, Diagnosed!levelVars
<1>2. CASE Diagnosed!Stop
  <2>1. steps' = <<"restore", "clear", "write">>
    BY <1>2, Beginnings DEF Diagnosed!Stop, Diagnosed!End
  <2>2. steps = <<>> /\ core
    BY <1>2 DEF Diagnosed!Stop, Diagnosed!End, Diagnosed!Idle
  <2> QED
    BY <1>2, <2>1, <2>2, Places, Beginning DEF Diagnosed!Stop, Diagnosed!End, Diagnosed!Spend,
       Diagnosed!Idle, Diagnosed!captureVars, Diagnosed!levelVars
<1>3. CASE Diagnosed!Cancel
  <2>1. steps' = <<"restore", "clear">>
    BY <1>3, Beginnings DEF Diagnosed!Cancel, Diagnosed!End
  <2>2. steps = <<>> /\ core
    BY <1>3 DEF Diagnosed!Cancel, Diagnosed!End, Diagnosed!Idle
  <2> QED
    BY <1>3, <2>1, <2>2, Places, Beginning DEF Diagnosed!Cancel, Diagnosed!End, Diagnosed!Spend,
       Diagnosed!Idle, Diagnosed!captureVars, Diagnosed!levelVars
<1>4. CASE Diagnosed!ApplySettings
  <2>1. UNCHANGED <<config, level, captured, watchdogs>>
    BY <1>4, Applying DEF Diagnosed!captureVars
  <2>2. steps \in Calm
    BY <1>4, Applying, Places
  <2>3. CASE saved' # config
    <3>1. steps' \in Loud
      BY <1>4, <2>3, Applying
    <3>2. steps' \notin Calm
      BY <3>1, Places DEF Loud, Diagnosed!Boot
    <3> QED
      BY <3>2
  <2>4. CASE saved' = config
    <3>1. ~disturbed' => ~disturbed /\ config = saved
      BY <1>4, <2>4, Applying
    <3> QED
      BY <2>1, <2>2, <2>4, <3>1
  <2> QED
    BY <2>3, <2>4
<1>5. CASE Diagnosed!Raise
  <2>1. Diagnosed!Step("raise") /\ Diagnosed!Done /\ steps # <<>>
    BY <1>5 DEF Diagnosed!Raise, Diagnosed!Step
  <2> QED
    BY <1>5, <2>1, Stepping DEF Diagnosed!Raise, Diagnosed!captureVars, Diagnosed!levelVars
<1>6. CASE Diagnosed!Watch
  <2>1. Diagnosed!Step("watch") /\ Diagnosed!Done /\ steps # <<>>
    BY <1>6 DEF Diagnosed!Watch, Diagnosed!Step
  <2> QED
    BY <1>6, <2>1, Stepping DEF Diagnosed!Watch, Diagnosed!captureVars, Diagnosed!levelVars
<1>7. CASE Diagnosed!Restore
  <2>1. Diagnosed!Step("restore") /\ Diagnosed!Done /\ steps # <<>>
    BY <1>7 DEF Diagnosed!Restore, Diagnosed!Step
  <2> QED
    BY <1>7, <2>1, Stepping DEF Diagnosed!Restore, Diagnosed!Restored, Diagnosed!captureVars,
       Diagnosed!levelVars
<1>8. CASE Diagnosed!Clear
  <2>1. Diagnosed!Step("clear") /\ Diagnosed!Done /\ steps # <<>>
    BY <1>8 DEF Diagnosed!Clear, Diagnosed!Step
  <2> QED
    BY <1>8, <2>1, Stepping DEF Diagnosed!Clear, Diagnosed!captureVars, Diagnosed!levelVars
<1>9. CASE Diagnosed!Write
  <2>1. Diagnosed!Step("write") /\ Diagnosed!Done /\ steps # <<>>
    BY <1>9 DEF Diagnosed!Write, Diagnosed!Step
  <2> QED
    BY <1>9, <2>1, Stepping DEF Diagnosed!Write, Diagnosed!captureVars, Diagnosed!levelVars
<1>10. CASE Diagnosed!Push
  <2>1. Diagnosed!Step("push") /\ Diagnosed!Done /\ steps # <<>>
    BY <1>10 DEF Diagnosed!Push, Diagnosed!Step
  <2> QED
    BY <1>10, <2>1, Stepping DEF Diagnosed!Push, Diagnosed!captureVars, Diagnosed!levelVars
<1>11. CASE Diagnosed!Shutdown
  <2>1. Diagnosed!Step("shutdown") /\ Diagnosed!Done /\ steps # <<>>
    BY <1>11 DEF Diagnosed!Shutdown, Diagnosed!Step
  <2> QED
    BY <1>11, <2>1, Stepping DEF Diagnosed!Shutdown, Diagnosed!captureVars, Diagnosed!levelVars
<1>12. CASE Diagnosed!Initialize
  <2>1. Diagnosed!Step("initialize") /\ Diagnosed!Done /\ steps # <<>>
    BY <1>12 DEF Diagnosed!Initialize, Diagnosed!Step
  <2> QED
    BY <1>12, <2>1, Stepping DEF Diagnosed!Initialize, Diagnosed!captureVars, Diagnosed!levelVars
<1>13. CASE Diagnosed!Resume
  <2>1. Diagnosed!Step("resume") /\ steps # <<>>
    BY <1>13 DEF Diagnosed!Resume, Diagnosed!Step
  <2>2. CASE captured # None \/ record # "fresh"
    <3>1. Diagnosed!Done /\ record' = (IF captured # None THEN record ELSE "none")
      BY <1>13, <2>2 DEF Diagnosed!Resume
    <3>2. captured' = captured /\ generation' = generation /\ watchdogs' = watchdogs /\ core' = core
      BY <1>13, <2>2 DEF Diagnosed!Resume
    <3>3. UNCHANGED Diagnosed!levelVars
      BY <1>13 DEF Diagnosed!Resume
    <3>4. \/ steps = <<"resume">> /\ steps' = <<>>
          \/ steps = <<"resume", "push">> /\ steps' = <<"push">>
      BY <2>1, <3>1, Stepping
    <3> QED
      BY <2>2, <3>1, <3>2, <3>3, <3>4, Places DEF Diagnosed!levelVars
  <2>3. CASE captured = None /\ record = "fresh"
    <3>1. captured' = Diagnosed!Begun /\ generation' = generation + 1 /\ record' = record
      BY <1>13, <2>3 DEF Diagnosed!Resume
    <3>2. steps' = Diagnosed!ResumeSteps \o Tail(steps) /\ watchdogs' = watchdogs /\ core' = core
      BY <1>13, <2>3 DEF Diagnosed!Resume
    <3>3. UNCHANGED Diagnosed!levelVars
      BY <1>13 DEF Diagnosed!Resume
    <3>4. \/ steps = <<"resume">> /\ steps' = <<"raise", "watch">>
          \/ steps = <<"resume", "push">> /\ steps' = <<"raise", "watch", "push">>
      BY <2>1, <3>2, Resumes, Beginnings
    <3>5. /\ captured' \in Sessions /\ captured' # None /\ captured'.generation = generation + 1
          /\ ~captured'.spent
      BY <3>1, Beginning
    <3>6. steps' \in Watching \cap Loud /\ steps' \notin Calm \cup Clearing \cup Resuming
      BY <3>4, Places
    <3>7. steps \notin Down
      BY <3>4, Places
    <3>8. UNCHANGED <<disturbed, level, saved, config>>
      BY <3>3 DEF Diagnosed!levelVars
    <3>9. \A w \in watchdogs : w.generation \in Nat
      OBVIOUS
    <3> QED
      BY <2>1, <2>3, <3>1, <3>2, <3>5, <3>6, <3>7, <3>8, <3>9
  <2> QED
    BY <2>2, <2>3
<1>14. CASE Diagnosed!TimePasses
  BY <1>14, Beginning DEF Diagnosed!TimePasses, Diagnosed!captureVars, Diagnosed!levelVars
<1>15. CASE Diagnosed!WriterLooks
  BY <1>15 DEF Diagnosed!WriterLooks, Diagnosed!captureVars, Diagnosed!levelVars
<1>16. CASE Diagnosed!WriterFinishes
  BY <1>16 DEF Diagnosed!WriterFinishes, Diagnosed!captureVars, Diagnosed!levelVars
<1>17. CASE Diagnosed!Launch
  <2>1. steps' = Diagnosed!Boot
    BY <1>17, Beginnings DEF Diagnosed!Launch, Diagnosed!End
  <2>2. Diagnosed!Boot = <<"initialize", "resume", "push">>
    BY DEF Diagnosed!Boot
  <2> QED
    BY <1>17, <2>1, <2>2, Places, Beginning DEF Diagnosed!Launch, Diagnosed!End, Diagnosed!Spend,
       Diagnosed!Idle, Diagnosed!captureVars, Diagnosed!levelVars
<1>18. ASSUME NEW w \in watchdogs, Diagnosed!Wake(w) PROVE LevelKept'
  BY <1>18, Becoming DEF Diagnosed!Wake, Diagnosed!Guards, Diagnosed!captureVars,
     Diagnosed!levelVars
<1>19. ASSUME NEW w \in watchdogs, Diagnosed!Expire(w) PROVE LevelKept'
  BY <1>19, Becoming DEF Diagnosed!Expire, Diagnosed!Ends, Diagnosed!Guards,
     Diagnosed!captureVars, Diagnosed!levelVars
<1>20. ASSUME NEW w \in watchdogs, Diagnosed!ExpireRestores(w) PROVE LevelKept'
  BY <1>20, Becoming DEF Diagnosed!ExpireRestores, Diagnosed!Restored, Diagnosed!captureVars,
     Diagnosed!levelVars
<1>21. ASSUME NEW w \in watchdogs, Diagnosed!ExpireClears(w) PROVE LevelKept'
  BY <1>21 DEF Diagnosed!ExpireClears, Diagnosed!captureVars, Diagnosed!levelVars
<1>22. CASE UNCHANGED Diagnosed!vars
  BY <1>22 DEF Diagnosed!vars, Diagnosed!captureVars, Diagnosed!levelVars
<1> QED
  BY <1>1, <1>2, <1>3, <1>4, <1>5, <1>6, <1>7, <1>8, <1>9, <1>10, <1>11, <1>12, <1>13, <1>14,
     <1>15, <1>16, <1>17, <1>18, <1>19, <1>20, <1>21, <1>22 DEF Diagnosed!Next,
     Diagnosed!HostCall, Diagnosed!HostStep, Diagnosed!WatchdogStep

\* Nothing is captured before MusicBee starts.
LEMMA CaptureInit == Diagnosed!Init => CaptureIInv
<1> SUFFICES ASSUME Diagnosed!Init PROVE CaptureIInv
  OBVIOUS
<1> USE DEF Diagnosed!Init
<1>1. steps \in Calm /\ steps \notin Watching \cup Clearing \cup Resuming
  BY Places
<1> QED
  BY <1>1 DEF CaptureIInv, CaptureTyped, Generations, Courses, Owed, LevelKept

\* Every step keeps the invariant.
LEMMA CaptureStep == CaptureIInv /\ [Diagnosed!Next]_(Diagnosed!vars) => CaptureIInv'
<1> SUFFICES ASSUME CaptureIInv, [Diagnosed!Next]_(Diagnosed!vars) PROVE CaptureIInv'
  OBVIOUS
<1>1. CaptureTyped' /\ Generations' /\ Courses'
  BY CaptureTypedStep, GenerationsStep, CoursesStep DEF CaptureIInv
<1>2. Owed' /\ LevelKept'
  BY OwedStep, LevelStep DEF CaptureIInv
<1> QED
  BY <1>1, <1>2 DEF CaptureIInv

\* The capture's invariant.
THEOREM CaptureInvariant == Diagnosed!Spec => []CaptureIInv
<1> QED
  BY CaptureInit, CaptureStep, PTL DEF Diagnosed!Spec

\* FollowsCapture, for any number of captures, changes of the settings and starts.
THEOREM FollowsCorrect == Diagnosed!Spec => []FollowsCapture
<1>1. CaptureIInv => FollowsCapture
  <2> SUFFICES ASSUME CaptureIInv, Diagnosed!Quiet PROVE FollowsCapture
    BY DEF FollowsCapture, Diagnosed!FollowsCapture, Diagnosed!LevelFollows,
       Diagnosed!RecordHasCapture
  <2>1. steps \in Calm /\ steps \notin Watching \cup Clearing \cup Resuming
    BY Places DEF Diagnosed!Quiet, Diagnosed!Idle
  <2>2. \A w \in watchdogs : w.at \notin {"restore", "clear"}
    BY DEF Diagnosed!Quiet
  <2>3. Diagnosed!LevelFollows
    BY <2>1, <2>2 DEF Diagnosed!LevelFollows, CaptureIInv, LevelKept
  <2>4. Diagnosed!RecordHasCapture
    BY <2>1, <2>2 DEF Diagnosed!RecordHasCapture, CaptureIInv, CaptureTyped, Owed, Resuming
  <2> QED
    BY <2>3, <2>4 DEF FollowsCapture, Diagnosed!FollowsCapture
<1> QED
  BY <1>1, CaptureInvariant, PTL

-----------------------------------------------------------------------------
(* All, as they are run. *)

\* What run runtime checks of the core, the capture and the web app, for any constants: a
\* run of them is one of each.
THEOREM RuntimeCorrect == MCSpec => [](NothingOutlivesStop /\ FollowsCapture /\ OneRoad /\ ShownIsTried)
<1>1. MCInit => Init /\ Diagnosed!Init /\ Browsed!Init
  BY DEF MCInit
<1>2. [MCNext]_<<side, vars, connVars, captureVars, webVars>> => [Next]_vars
  BY DEF MCNext, connVars, captureVars, webVars, vars, history, storeVars, netVars, stateVars
<1>3. [MCNext]_<<side, vars, connVars, captureVars, webVars>> => [Diagnosed!Next]_(Diagnosed!vars)
  BY DEF MCNext, connVars, captureVars, webVars, Diagnosed!vars, Diagnosed!levelVars,
     Diagnosed!captureVars
<1>4. [MCNext]_<<side, vars, connVars, captureVars, webVars>> => [Browsed!Next]_(Browsed!vars)
  BY DEF MCNext, connVars, captureVars, webVars, Browsed!vars, Browsed!appVars,
     Browsed!callVars, Browsed!clientVars, Browsed!linkVars, Browsed!serverVars
<1>5. MCSpec => Spec /\ Diagnosed!Spec /\ Browsed!Spec
  BY <1>1, <1>2, <1>3, <1>4, PTL DEF MCSpec, Spec, Diagnosed!Spec, Browsed!Spec
<1> QED
  BY <1>5, StopCorrect, FollowsCorrect, OneRoadCorrect, ShownCorrect, PTL
=============================================================================
