----------------------------- MODULE WebClient -----------------------------
(***************************************************************************)
(* The web app's connection: api/client.ts, event-stream.ts and App.vue.   *)
(*                                                                         *)
(* A browser speaks V6 over one WebSocket, which it chases with a backoff  *)
(* for a number of attempts.  Behind it, an EventSource carries the events *)
(* and plain HTTP the calls.  A browser that has to pair is refused by     *)
(* HTTP alone: its sockets just do not open.                               *)
(*                                                                         *)
(* A socket is "cut" when its server end is gone and the browser has not   *)
(* yet been told; its readyState is still OPEN then.                       *)
(***************************************************************************)
EXTENDS Sequences, Integers

CONSTANTS Calls,         \* calls the app makes, each once
          MaxAttempts,   \* MAX_ATTEMPTS
          MaxChanges     \* bound on what happens to the server and the network

VARIABLES up,            \* the server runs
          admits,        \* it lets this browser in: pairing is off, or it is paired
          taken,         \* it holds the browser's client_id for another installation
          opens,         \* a WebSocket opens on this network at all
          changes,       \* history: what has happened to the server and the network
          socket,        \* V6Client.socket by its state, or "none"
          outbox,        \* frames to the server
          inbox,         \* frames from it
          handshaked,    \* V6Client.handshaked
          attempt,       \* V6Client.attempt
          timer,         \* the reconnect timer is set
          stream,        \* EventStream.source by its state, or "none"
          goodbye,       \* a server_shutdown is under way on the stream
          calls,         \* each call: the road it took and how far it is
          left,          \* history: calls in flight on a socket that was let go
          page,          \* App.vue: not loaded, "blank", "app" or "pairing"
          binds,         \* how often its listeners are bound
          asking,        \* mustPair requests under way
          shown,         \* player.connected and player.retrying
          misled         \* history: an identity was refused beside a stream

serverVars == <<up, admits, taken, opens, changes>>
linkVars == <<socket, outbox, inbox>>
clientVars == <<handshaked, attempt, timer, stream, goodbye>>
callVars == <<calls, left>>
appVars == <<page, binds, asking, shown, misled>>
vars == <<serverVars, linkVars, clientVars, callVars, appVars>>

Init ==
    /\ up = TRUE /\ admits \in BOOLEAN /\ taken \in BOOLEAN /\ opens \in BOOLEAN
    /\ changes = 0
    /\ socket = "none" /\ outbox = <<>> /\ inbox = <<>>
    /\ handshaked = FALSE /\ attempt = 0 /\ timer = FALSE /\ stream = "none"
    /\ goodbye = FALSE
    /\ calls = [c \in Calls |-> "unused"] /\ left = {}
    /\ page = "none" /\ binds = 0 /\ asking = 0
    /\ shown = [connected |-> FALSE, retrying |-> TRUE]
    /\ misled = FALSE

-----------------------------------------------------------------------------
(* The server and the network. *)

Changes == changes < MaxChanges /\ changes' = changes + 1

\* What the loss of the server or of the network does to the two roads.
Cut ==
    /\ socket' = IF socket = "open" THEN "cut" ELSE socket
    /\ outbox' = <<>>
    /\ stream' = IF stream = "open" THEN "connecting" ELSE stream
    /\ goodbye' = FALSE

NetworkDrops ==
    /\ Changes /\ Cut
    /\ UNCHANGED <<up, admits, taken, opens, inbox, handshaked, attempt, timer, callVars,
                   appVars>>

ServerDies ==
    /\ Changes /\ up /\ Cut
    /\ up' = FALSE
    /\ UNCHANGED <<admits, taken, opens, inbox, handshaked, attempt, timer, callVars,
                   appVars>>

\* A socket is served its broadcasts once its handshake is.
Subscribed == socket = "open" /\ (outbox = <<>> \/ Head(outbox) # "handshake")

\* An orderly stop says goodbye to whoever hears broadcasts.
ServerStops ==
    /\ Changes /\ up
    /\ up' = FALSE
    /\ socket' = IF socket = "open" THEN "cut" ELSE socket
    /\ outbox' = <<>>
    /\ inbox' = IF Subscribed THEN Append(inbox, "shutdown") ELSE inbox
    /\ goodbye' = (stream = "open")
    /\ UNCHANGED <<admits, taken, opens, handshaked, attempt, timer, stream, callVars, appVars>>

ServerStarts ==
    /\ Changes /\ ~up
    /\ up' = TRUE
    /\ UNCHANGED <<admits, taken, opens, linkVars, clientVars, callVars, appVars>>

\* Pairing is enforced or not, the browser paired or revoked: open roads stay.
AdmissionChanges ==
    /\ Changes
    /\ admits' = ~admits
    /\ UNCHANGED <<up, taken, opens, linkVars, clientVars, callVars, appVars>>

\* The first frame is the handshake; its refusal ends the connection.
ServeFrame ==
    /\ socket = "open" /\ outbox # <<>>
    /\ IF Head(outbox) = "handshake" /\ taken
       THEN /\ inbox' = Append(inbox, "refused")
            /\ socket' = "cut" /\ outbox' = <<>>
       ELSE /\ inbox' = Append(inbox, IF Head(outbox) = "handshake" THEN "welcome"
                                      ELSE Head(outbox))
            /\ outbox' = Tail(outbox) /\ UNCHANGED socket
    /\ UNCHANGED <<serverVars, clientVars, callVars, appVars>>

-----------------------------------------------------------------------------
(* What the handlers below are made of. *)

Shows(connected, retrying) ==
    shown' = IF binds > 0 THEN [connected |-> connected, retrying |-> retrying] ELSE shown
Settled(pending) == [c \in Calls |-> IF c \in pending THEN "settled" ELSE calls[c]]
Pending == {c \in Calls : calls[c] = "socket"}

\* Mutant: a socket that has closed is kept too.
OpenSocketOnce ==
    IF socket # "none" THEN UNCHANGED linkVars
    ELSE socket' = "connecting" /\ outbox' = <<>> /\ inbox' = <<>>

\* open: a socket that opens or is open is kept.
OpenSocket ==
    IF socket \in {"connecting", "open", "cut"} THEN UNCHANGED linkVars
    ELSE socket' = "connecting" /\ outbox' = <<>> /\ inbox' = <<>>

\* connect: the attempts start over.
Connect == OpenSocket /\ attempt' = 0 /\ timer' = FALSE

\* disconnect: the socket is let go, so that its close is nobody's.  What is in
\* flight on it is not failed, and handshaked not cleared.
Disconnect ==
    /\ socket' = "none" /\ outbox' = <<>> /\ inbox' = <<>>
    /\ timer' = FALSE /\ stream' = "none" /\ goodbye' = FALSE
    /\ left' = left \cup Pending
    /\ UNCHANGED <<handshaked, attempt>>

-----------------------------------------------------------------------------
(* The socket. *)

TimerFires ==
    /\ timer /\ timer' = FALSE
    /\ OpenSocket
    /\ UNCHANGED <<serverVars, handshaked, attempt, stream, goodbye, callVars, appVars>>

SocketOpens ==
    /\ socket = "connecting" /\ up /\ admits /\ opens
    /\ socket' = "open" /\ outbox' = <<"handshake">>
    /\ UNCHANGED <<serverVars, inbox, clientVars, callVars, appVars>>

\* scheduleReconnect and startEventStream, the stream last: a stream that has
\* been started keeps the socket's progress, and its end, to itself.
Chase ==
    LET started == stream # "none"
        again == attempt < MaxAttempts
    IN
    /\ timer' = again
    /\ attempt' = IF again THEN attempt + 1 ELSE attempt
    /\ IF started THEN UNCHANGED shown ELSE Shows(FALSE, again)
    /\ stream' = IF started THEN stream ELSE "connecting"

\* Mutant: a drop fails nothing.
SocketClosesKeepingCalls ==
    /\ \/ socket = "cut"
       \/ socket = "connecting" /\ ~(up /\ admits /\ opens)
    /\ socket' = "closed" /\ outbox' = <<>> /\ inbox' = <<>>
    /\ handshaked' = FALSE
    /\ Chase
    /\ UNCHANGED <<serverVars, goodbye, callVars, page, binds, asking, misled>>

\* The close event, of a socket that is still the client's; frames may be lost.
SocketCloses ==
    /\ \/ socket = "cut"
       \/ socket = "connecting" /\ ~(up /\ admits /\ opens)
    /\ socket' = "closed" /\ outbox' = <<>> /\ inbox' = <<>>
    /\ handshaked' = FALSE
    /\ calls' = Settled(Pending)
    /\ Chase
    /\ UNCHANGED <<serverVars, goodbye, left, page, binds, asking, misled>>

Receives == socket \in {"open", "cut"} /\ inbox # <<>>
Takes(frame) == Receives /\ Head(inbox) = frame /\ inbox' = Tail(inbox)

\* Mutant: the stream stays open beside the socket.
WelcomedBesideStream ==
    /\ Takes("welcome")
    /\ handshaked' = TRUE /\ attempt' = 0
    /\ Shows(TRUE, FALSE)
    /\ UNCHANGED <<serverVars, socket, outbox, timer, stream, goodbye, callVars, page, binds,
                   asking, misled>>

\* The handshake stands: the attempts are forgotten and the stream is stopped.
Welcomed ==
    /\ Takes("welcome")
    /\ handshaked' = TRUE /\ attempt' = 0
    /\ stream' = "none" /\ goodbye' = FALSE
    /\ Shows(TRUE, FALSE)
    /\ UNCHANGED <<serverVars, socket, outbox, timer, callVars, page, binds, asking, misled>>

\* The client_id is another's: a new one is taken for the next attempt.
IdentityRefused ==
    /\ Takes("refused")
    /\ handshaked' = FALSE
    /\ taken' = FALSE
    /\ Shows(FALSE, TRUE)
    /\ misled' = (misled \/ stream # "none")
    /\ UNCHANGED <<up, admits, opens, changes, socket, outbox, attempt, timer, stream, goodbye,
                   callVars, page, binds, asking>>

Replied(c) ==
    /\ Takes(c)
    /\ calls' = IF calls[c] = "socket" THEN [calls EXCEPT ![c] = "settled"] ELSE calls
    /\ UNCHANGED <<serverVars, socket, outbox, clientVars, left, appVars>>

\* MusicBee closes: no more attempts until the reader asks.
ShutdownHeard ==
    /\ \/ Receives /\ Head(inbox) = "shutdown"
       \/ goodbye
    /\ Disconnect
    /\ shown' = IF binds > 0 THEN [shown EXCEPT !.connected = FALSE] ELSE shown
    /\ UNCHANGED <<serverVars, calls, page, binds, asking, misled>>

-----------------------------------------------------------------------------
(* The event stream, which its browser reconnects, but for a refusal. *)

StreamOpens ==
    /\ stream = "connecting" /\ up /\ admits
    /\ stream' = "open"
    /\ Shows(TRUE, FALSE)
    /\ UNCHANGED <<serverVars, linkVars, handshaked, attempt, timer, goodbye, callVars, page,
                   binds, asking, misled>>

StreamRefused ==
    /\ stream = "connecting" /\ up /\ ~admits
    /\ stream' = "none" /\ goodbye' = FALSE
    /\ Shows(FALSE, attempt < MaxAttempts)
    /\ UNCHANGED <<serverVars, linkVars, handshaked, attempt, timer, callVars, page, binds,
                   asking, misled>>

\* The goodbye of a stop came too late, or not at all.
StreamDrops ==
    /\ stream = "open" /\ ~up
    /\ stream' = "connecting" /\ goodbye' = FALSE
    /\ UNCHANGED <<serverVars, linkVars, handshaked, attempt, timer, callVars, appVars>>

-----------------------------------------------------------------------------
(* Calls and the page. *)

\* call: by socket when it is up and handshaked, by HTTP otherwise.
Call(c) ==
    /\ page = "app" /\ calls[c] = "unused"
    /\ IF socket \in {"open", "cut"} /\ handshaked
       THEN /\ calls' = [calls EXCEPT ![c] = "socket"]
            /\ outbox' = IF socket = "open" THEN Append(outbox, c) ELSE outbox
       ELSE calls' = [calls EXCEPT ![c] = "http"] /\ UNCHANGED outbox
    /\ UNCHANGED <<serverVars, socket, inbox, clientVars, left, appVars>>

\* The answer over HTTP, or that there is none, on its way back.
ServeHttp(c) ==
    /\ calls[c] = "http"
    /\ calls' = [calls EXCEPT ![c] = IF up /\ ~admits THEN "denied" ELSE "answered"]
    /\ UNCHANGED <<serverVars, linkVars, clientVars, left, appVars>>

HttpAnswered(c) ==
    /\ calls[c] = "answered"
    /\ calls' = [calls EXCEPT ![c] = "settled"]
    /\ UNCHANGED <<serverVars, linkVars, clientVars, left, appVars>>

\* rejectAuth, however late: all roads are closed, and each listener of
\* auth_required asks the server whether there is a code to enter.
HttpDenied(c) ==
    /\ calls[c] = "denied"
    /\ calls' = [calls EXCEPT ![c] = "settled"]
    /\ Disconnect
    /\ asking' = asking + binds
    /\ UNCHANGED <<serverVars, page, binds, shown, misled>>

\* The reader opens the page, which asks first whether it must pair.
Mounted ==
    /\ page = "none"
    /\ page' = "blank" /\ asking' = 1
    /\ UNCHANGED <<serverVars, linkVars, clientVars, callVars, binds, shown, misled>>

\* mustPair at the first load, and start.
FirstAsked ==
    /\ page = "blank" /\ asking > 0
    /\ asking' = asking - 1
    /\ IF up /\ ~admits
       THEN page' = "pairing" /\ UNCHANGED <<binds, linkVars, attempt, timer>>
       ELSE page' = "app" /\ binds' = binds + 1 /\ Connect
    /\ UNCHANGED <<serverVars, handshaked, stream, goodbye, callVars, shown, misled>>

\* Mutant: a refusal that pairing does not help is left at that.
AskedAgainOnce ==
    /\ page \notin {"none", "blank"} /\ asking > 0
    /\ asking' = asking - 1
    /\ page' = IF up /\ ~admits THEN "pairing" ELSE page
    /\ UNCHANGED <<serverVars, linkVars, clientVars, callVars, binds, shown, misled>>

\* mustPair after a refusal: what cannot be paired away is tried again.
AskedAgain ==
    /\ page \notin {"none", "blank"} /\ asking > 0
    /\ asking' = asking - 1
    /\ IF up /\ ~admits
       THEN page' = "pairing" /\ UNCHANGED <<linkVars, attempt, timer>>
       ELSE Connect /\ UNCHANGED page
    /\ UNCHANGED <<serverVars, handshaked, stream, goodbye, callVars, binds, shown, misled>>

\* onPaired: start once more, with a second set of listeners after a second time.
Paired ==
    /\ page = "pairing" /\ up
    /\ admits' = TRUE
    /\ page' = "app" /\ binds' = binds + 1
    /\ Connect
    /\ UNCHANGED <<up, taken, opens, changes, handshaked, stream, goodbye, callVars, asking,
                   shown, misled>>

\* onPairedForRole and reconnect: a fresh socket, and all in flight is failed.
PairedForRole ==
    /\ Changes /\ page = "app" /\ up
    /\ socket' = "connecting" /\ outbox' = <<>> /\ inbox' = <<>>
    /\ handshaked' = FALSE /\ attempt' = 0 /\ timer' = FALSE
    /\ stream' = "none" /\ goodbye' = FALSE
    /\ calls' = Settled(Pending)
    /\ UNCHANGED <<up, admits, taken, opens, left, appVars>>

Offered == page = "app" /\ ~shown.connected /\ ~shown.retrying

\* The button that stands where the spinner was.
TryAgain ==
    /\ Changes /\ Offered
    /\ Connect
    /\ UNCHANGED <<up, admits, taken, opens, handshaked, stream, goodbye, callVars, appVars>>

Next ==
    \/ NetworkDrops \/ ServerDies \/ ServerStops \/ ServerStarts \/ AdmissionChanges
    \/ ServeFrame \/ TimerFires \/ SocketOpens \/ SocketCloses
    \/ Welcomed \/ IdentityRefused \/ ShutdownHeard
    \/ StreamOpens \/ StreamRefused \/ StreamDrops
    \/ Mounted \/ FirstAsked \/ AskedAgain \/ Paired \/ PairedForRole \/ TryAgain
    \/ \E c \in Calls : Replied(c) \/ Call(c) \/ ServeHttp(c) \/ HttpAnswered(c) \/ HttpDenied(c)

\* The browser runs its timers and reports what happens to its roads; the server
\* serves while it is up.  Nothing is owed by the reader, nor by what the server
\* and the network do.
Fairness ==
    /\ WF_vars(ServeFrame) /\ WF_vars(TimerFires) /\ WF_vars(SocketOpens)
    /\ WF_vars(SocketCloses) /\ WF_vars(Welcomed \/ IdentityRefused)
    /\ WF_vars(ShutdownHeard)
    /\ WF_vars(StreamOpens) /\ WF_vars(StreamRefused) /\ WF_vars(StreamDrops)
    /\ WF_vars(FirstAsked) /\ WF_vars(AskedAgain)
    /\ \A c \in Calls : WF_vars(Replied(c)) /\ WF_vars(ServeHttp(c))
                        /\ WF_vars(HttpAnswered(c)) /\ WF_vars(HttpDenied(c))

Spec == Init /\ [][Next]_vars
FairSpec == Spec /\ Fairness

-----------------------------------------------------------------------------
(* What the reader is shown, and what the app may count on. *)

\* Every event comes once: a socket that carries them has no stream beside it.
OneRoad == socket \in {"open", "cut"} /\ handshaked /\ inbox = <<>> => stream = "none"

Trying == timer \/ socket \in {"connecting", "open", "cut"} \/ stream # "none" \/ asking > 0

\* The button, or the one spinner that stays: an identity refused beside a stream
\* puts it over a live page, where neither the stream nor a shutdown takes it away.
ToldNot == Offered \/ (misled /\ ~shown.connected)

\* A page that says it is connected, or shows a spinner, has a road open or on
\* its way: everything else is the button.
ShownIsTried == page = "app" => Trying \/ ToldNot

\* The page comes back by itself, or offers to try: with the server up and the
\* browser let in, a road is open and shown as such in the end.
Live == stream = "open" \/ (socket = "open" /\ handshaked)
ComesBack == <>[](\/ ~up \/ ~admits \/ page \in {"none", "pairing"} \/ ToldNot
                  \/ (Live /\ shown.connected))

\* Every call comes to an end, unless its socket was let go under it.
CallsSettleUnlessLeft ==
    \A c \in Calls : (calls[c] # "unused") ~> (calls[c] = "settled" \/ c \in left)

\* client.ts: "Giving up is reported rather than silent", so that the app offers
\* to try again over a server that has gone.
GivingUpIsReported == <>[](~up) => <>[](page = "app" => Offered)
=============================================================================
