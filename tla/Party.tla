------------------------------- MODULE Party -------------------------------
(***************************************************************************)
(* Who may do what: pairing codes and paired browsers, the identities of   *)
(* apps, the roles given to either, and what each client was told it may   *)
(* do.                                                                     *)
(*                                                                         *)
(* Each of these is a map in memory and a table in the store.  An          *)
(* operation changes the map under its lock, lets go, writes the table and *)
(* then wakes whoever watches: it is a sequence of steps other operations  *)
(* run between, and a crash cuts.                                          *)
(***************************************************************************)
EXTENDS Integers, Sequences, Functions

CONSTANTS Browsers,   \* browsers, each paired at most once: its id is its token's
          Installs,   \* installations of one app, all with its client_id
          App,        \* that app
          Threads,    \* requests served at once
          Panel,      \* the settings panel's thread
          MaxOps,     \* bound on what the panel does
          MaxTokens   \* bound on the client tokens issued

Principals == Browsers \cup {App}
Clients == Browsers \cup Installs
PrincipalOf(c) == IF c \in Browsers THEN c ELSE App
Actors == Threads \cup {Panel}
NoCode == "none"

VARIABLES code,      \* the role the live code grants
          tokens,    \* Pairing.tokens
          paired,    \* the table of paired browsers
          roles,     \* Roles.assigned
          kept,      \* the table of roles
          identity,  \* the token the app's record was issued with; 0 is no record
          enabled,   \* party mode
          op,        \* what each thread has left to do
          client,    \* each client: its connection, its watch, and what it was told
          minted,    \* tokens issued so far
          holds,     \* the client token each installation keeps
          ops,       \* panel operations so far
          answered,  \* history: browsers told they are paired, and not revoked since
          revoked,   \* history: browsers whose revocation was completed
          grantee,   \* history: the token the app's role was given under
          aged,      \* history: the tokens of the app's records that aged out
          crossed    \* history: principals two operations were on at once

stores == <<tokens, paired, roles, kept, identity>>
history == <<answered, revoked, grantee, aged, crossed>>
vars == <<code, stores, enabled, op, client, minted, holds, ops, history>>

Idle == [steps |-> <<>>, who |-> {}, role |-> "guest", token |-> 0, for |-> Panel, gone |-> {}]
Away == [at |-> "away", told |-> "none", notified |-> FALSE]

Init ==
    /\ code = NoCode /\ tokens = {} /\ paired = {}
    /\ roles = [p \in Principals |-> "guest"] /\ kept = roles
    /\ identity = 0 /\ enabled = TRUE
    /\ op = [t \in Actors |-> Idle] /\ client = [c \in Clients |-> Away]
    /\ minted = 0 /\ holds = [i \in Installs |-> 0] /\ ops = 0
    /\ answered = {} /\ revoked = {} /\ grantee = 0 /\ aged = {} /\ crossed = {}

Busy(p) == \E t \in Actors : p \in op[t].who

\* A thread starts on some principals.
Starts(t, steps, who, role, token, for) ==
    /\ op[t] = Idle
    /\ op' = [op EXCEPT ![t] =
                 [steps |-> steps, who |-> who, role |-> role, token |-> token, for |-> for,
                  gone |-> IF Head(steps) = "forget" THEN who ELSE {}]]
    /\ crossed' = crossed \cup {p \in who : Busy(p)}

Panels == ops < MaxOps /\ ops' = ops + 1

\* Mutant: a role is only kept in memory.
RoleInMemory == <<"role", "bump">>
\* assign_role, unassign_role: memory, the table, then whoever watches.
SetRole == <<"role", "persist", "bump">>

-----------------------------------------------------------------------------
(* The panel. *)

\* For any role but the default one.
NewCode ==
    /\ op[Panel] = Idle /\ Panels
    /\ code' = "dj"
    /\ UNCHANGED <<stores, enabled, op, client, minted, holds, history>>

Revoke(b) ==
    /\ Panels /\ b \in tokens
    /\ tokens' = tokens \ {b}
    /\ Starts(Panel, <<"forget">> \o SetRole \o <<"revoked">>, {b}, "guest", 0, b)
    /\ answered' = answered \ {b}
    /\ UNCHANGED <<code, paired, roles, kept, identity, enabled, client, minted, holds, revoked, grantee, aged>>

\* The roles that go are those of every browser that holds one by then.
RevokeAll ==
    /\ Panels
    /\ tokens' = {} /\ code' = NoCode
    /\ Starts(Panel, <<"forget", "browsers">> \o SetRole \o <<"revoked">>, tokens, "guest", 0, Panel)
    /\ answered' = answered \ tokens
    /\ UNCHANGED <<paired, roles, kept, identity, enabled, client, minted, holds, revoked, grantee, aged>>

Assign(p, role) ==
    /\ Panels /\ p \in tokens \cup (IF identity = 0 THEN {} ELSE {App})
    /\ Starts(Panel, SetRole, {p}, role, 0, p)
    /\ grantee' = IF p = App THEN identity ELSE grantee
    /\ UNCHANGED <<code, stores, enabled, client, minted, holds, answered, revoked, aged>>

Switch ==
    /\ Panels
    /\ Starts(Panel, <<"bump">>, {}, "guest", 0, Panel)
    /\ enabled' = ~enabled
    /\ UNCHANGED <<code, stores, client, minted, holds, answered, revoked, grantee, aged>>

-----------------------------------------------------------------------------
(* Requests. *)

\* Mutant: the browser is answered before it is saved.
AnswerFirst == <<"token", "answer", "keep">> \o SetRole
\* POST /api/pair: the code is consumed, the browser kept and given its role.
RedeemSteps == <<"token", "keep">> \o SetRole \o <<"answer">>

Redeem(t, b) ==
    /\ code # NoCode
    /\ b \notin tokens \cup paired \cup revoked \cup answered /\ ~Busy(b)
    /\ Starts(t, RedeemSteps, {b}, code, 0, b)
    /\ code' = NoCode
    /\ UNCHANGED <<stores, enabled, client, minted, holds, ops, answered, revoked, grantee, aged>>

\* paired_id, on every request of a browser, and rename: the record is copied
\* under the lock and written after it.
Touch(t, b) ==
    /\ b \in tokens
    /\ Starts(t, <<"keep">>, {b}, "guest", 0, b)
    /\ UNCHANGED <<code, stores, enabled, client, minted, holds, ops, answered, revoked, grantee, aged>>

\* Mutant: an installation with no token, or another's, is taken for a new one.
NeverRefuses(i) == FALSE
\* identify: a record exists, and this is not its token.
Refuses(i) == identity # 0 /\ holds[i] # identity

\* The handshake: a returning installation is touched, a first contact issued a
\* token and left no role another had.
Hello(t, i) ==
    /\ client[i] = Away /\ ~Refuses(i)
    /\ IF identity # 0 /\ holds[i] = identity
       THEN Starts(t, <<"touch", "welcome">>, {App}, "guest", identity, i) /\ UNCHANGED minted
       ELSE /\ minted < MaxTokens
            /\ minted' = minted + 1
            /\ Starts(t, <<"issue">> \o SetRole \o <<"welcome">>, {App}, "guest", minted + 1, i)
    /\ client' = [client EXCEPT ![i].at = "coming"]
    /\ UNCHANGED <<code, stores, enabled, holds, ops, answered, revoked, grantee, aged>>

\* The pair op of an app's connection.
PairApp(t, i) ==
    /\ client[i].at \in {"told", "look", "wait"} /\ code # NoCode
    /\ holds[i] \notin aged    \* no connection is open for as long as a record is kept
    /\ Starts(t, SetRole, {App}, code, holds[i], i)
    /\ code' = NoCode
    /\ grantee' = holds[i]
    /\ UNCHANGED <<stores, enabled, client, minted, holds, ops, answered, revoked, aged>>

\* A paired browser opens its socket.
Open(b) ==
    /\ client[b] = Away /\ b \in answered
    /\ client' = [client EXCEPT ![b].at = "coming"]
    /\ UNCHANGED <<code, stores, enabled, op, minted, holds, ops, history>>

-----------------------------------------------------------------------------
(* The steps of an operation. *)

Wakes(cs) == client' = [c \in Clients |->
    IF c \in cs /\ client[c].at \in {"look", "wait"} THEN [client[c] EXCEPT !.notified = TRUE] ELSE client[c]]

\* The permissions of a client, of which the role and the switch are all that changes.
Permissions(c) == IF enabled THEN roles[PrincipalOf(c)] ELSE "all"

\* The steps that change a store.
Stores(t, step) ==
    LET o == op[t] IN
    /\ \/ step = "token" /\ tokens' = tokens \cup o.who /\ UNCHANGED <<paired, roles, kept, identity>>
       \/ step = "keep" /\ paired' = paired \cup o.who /\ UNCHANGED <<tokens, roles, kept, identity>>
       \* (revoke_all: one commit for each)
       \/ step = "forget" /\ paired' = paired \ o.who /\ UNCHANGED <<tokens, roles, kept, identity>>
       \/ /\ step = "role" /\ UNCHANGED <<tokens, paired, kept, identity>>
          /\ roles' = [p \in Principals |-> IF p \in o.who THEN o.role ELSE roles[p]]
       \/ /\ step = "persist" /\ UNCHANGED <<tokens, paired, roles, identity>>
          /\ kept' = [p \in Principals |-> IF p \in o.who THEN o.role ELSE kept[p]]
       \/ step \in {"touch", "issue"} /\ identity' = o.token /\ UNCHANGED <<tokens, paired, roles, kept>>
       \/ step \in {"browsers", "bump", "answer", "revoked", "welcome"} /\ UNCHANGED stores

Run(t) ==
    LET o == op[t]
        step == Head(o.steps)
        rest == [o EXCEPT !.steps = Tail(@)]
    IN  /\ o.steps # <<>>
        /\ Stores(t, step)
        /\ op' = [op EXCEPT ![t] = IF rest.steps = <<>> THEN Idle
                                   ELSE IF step = "browsers"
                                   THEN [rest EXCEPT !.who = @ \cup {b \in Browsers : roles[b] # "guest"}]
                                   ELSE rest]
        /\ crossed' = IF step # "browsers" THEN crossed
                      ELSE crossed \cup {b \in Browsers : roles[b] # "guest" /\ \E u \in Actors \ {t} : b \in op[u].who}
        /\ IF step = "bump" THEN Wakes(Clients)
           ELSE IF step = "welcome" /\ client[o.for].at = "coming"
           THEN client' = [client EXCEPT ![o.for] = [Away EXCEPT !.at = "told", !.told = Permissions(o.for)]]
           ELSE UNCHANGED client
        /\ holds' = IF step = "welcome" THEN [holds EXCEPT ![o.for] = o.token] ELSE holds
        /\ answered' = IF step = "answer" THEN answered \cup o.who ELSE answered
        /\ revoked' = IF step = "revoked" THEN revoked \cup o.gone ELSE revoked
    /\ UNCHANGED <<code, enabled, minted, ops, grantee, aged>>

\* pinned_apps
Pinned == kept[App] # "guest"

\* prune, in the handshake of some other app: a record no role pins.
AgeOut ==
    /\ identity # 0 /\ ~Pinned
    /\ identity' = 0
    /\ aged' = aged \cup {identity}
    /\ crossed' = IF Busy(App) THEN crossed \cup {App} ELSE crossed
    /\ UNCHANGED <<code, tokens, paired, roles, kept, enabled, op, client, minted, holds, ops,
                   answered, revoked, grantee>>

-----------------------------------------------------------------------------
(* What a connected client is told. *)

\* The reply of a browser's handshake names its permissions.
Told(b) ==
    /\ b \in Browsers /\ client[b].at = "coming"
    /\ client' = [client EXCEPT ![b] = [Away EXCEPT !.at = "told", !.told = Permissions(b)]]
    /\ UNCHANGED <<code, stores, enabled, op, minted, holds, ops, history>>

\* Mutant: the watch waits for a change before it compares.
WaitFirst == "wait"
\* watch: subscribe, then compare with what was told.
FirstLook == "look"

Watch(c) ==
    /\ client[c].at = "told"
    /\ client' = [client EXCEPT ![c].at = FirstLook]
    /\ UNCHANGED <<code, stores, enabled, op, minted, holds, ops, history>>

Look(c) ==
    /\ client[c].at = "look"
    /\ client' = [client EXCEPT ![c].at = "wait", ![c].told = Permissions(c)]
    /\ UNCHANGED <<code, stores, enabled, op, minted, holds, ops, history>>

Changed(c) ==
    /\ client[c].at = "wait" /\ client[c].notified
    /\ client' = [client EXCEPT ![c].at = "look", ![c].notified = FALSE]
    /\ UNCHANGED <<code, stores, enabled, op, minted, holds, ops, history>>

Close(c) ==
    /\ client[c].at # "away" /\ client[c].at # "coming"
    /\ client' = [client EXCEPT ![c] = Away]
    /\ UNCHANGED <<code, stores, enabled, op, minted, holds, ops, history>>

\* MusicBee stops or is killed: the maps are read back from the tables, and an
\* operation it cut is over.
Restart ==
    /\ ops < MaxOps /\ ops' = ops + 1
    /\ code' = NoCode
    /\ tokens' = paired /\ roles' = kept
    /\ op' = [t \in Actors |-> Idle]
    /\ client' = [c \in Clients |-> Away]
    /\ UNCHANGED <<paired, kept, identity, enabled, minted, holds, history>>

Delivers(c) == Told(c) \/ Watch(c) \/ Look(c) \/ Changed(c)

Next ==
    \/ NewCode \/ \E role \in {"guest", "dj"}, p \in Principals : Assign(p, role)
    \/ \E b \in Browsers : Revoke(b) \/ Open(b)
    \/ RevokeAll \/ Switch \/ AgeOut \/ Restart
    \/ \E t \in Threads, b \in Browsers : Redeem(t, b) \/ Touch(t, b)
    \/ \E t \in Threads, i \in Installs : Hello(t, i) \/ PairApp(t, i)
    \/ \E t \in Actors : Run(t)
    \/ \E c \in Clients : Delivers(c) \/ Close(c)

Spec == Init /\ [][Next]_vars

-----------------------------------------------------------------------------
(* Properties. *)

TypeOK ==
    /\ code \in {NoCode, "dj"}
    /\ tokens \subseteq Browsers /\ paired \subseteq Browsers
    /\ roles \in [Principals -> {"guest", "dj"}] /\ kept \in [Principals -> {"guest", "dj"}]
    /\ identity \in 0 .. MaxTokens /\ holds \in [Installs -> 0 .. MaxTokens]
    /\ \A c \in Clients : client[c].at \in {"away", "coming", "told", "look", "wait"}

\* A browser told it is paired is admitted from then on, and after any crash,
\* until it is revoked; once revoked it stays out, after any crash too, unless
\* the revocation crossed its pairing, a request of its or a rename: that writes
\* its record back.
PairingLasts ==
    /\ answered \ crossed \subseteq tokens \cap paired
    /\ (revoked \ crossed) \cap (tokens \cup paired) = {}

\* A role in memory is the one in the store once no operation is on its holder,
\* so a restart changes nobody's role, unless two operations on it crossed.
RolesKept == \A p \in Principals \ crossed : ~Busy(p) => roles[p] = kept[p]

\* The installation a token was issued to is known by it, and no other one gets
\* in under its id, until the record ages out, unless two first contacts crossed.
HolderKnown ==
    (App \notin crossed /\ ~Busy(App)) =>
        \A i \in Installs : holds[i] \in aged \cup {0, identity}

\* The app's role is never another installation's, after a crash either: a record
\* with a role does not age out, and a token is issued with no role, though in a
\* commit of its own.
RoleOfGrantee ==
    (App \notin crossed /\ ~Busy(App) /\ roles[App] # "guest") => identity \in {0, grantee}

\* A role stays with who it was given to, and with nobody else, through crashes
\* and the ageing of records.
RolesLast == RolesKept /\ RoleOfGrantee

\* Who is let in and what they may do outlast every restart, and nothing else
\* does.
RightsLast == PairingLasts /\ RolesLast

\* No change of what a client may do is missed, wherever in its handshake and its
\* watch the role or the switch changes: one that waits knows what holds now, or
\* has been woken, or is about to be.
ToldOrWoken ==
    \A c \in Clients :
        client[c].at = "wait" /\ client[c].told # Permissions(c) =>
            client[c].notified \/ \E t \in Actors : "bump" \in Range(op[t].steps)

\* web/auth.rs: every token is dropped, so all paired browsers must pair again.
\* (A request under way writes its record back after the lock: the browser is
\* admitted again once MusicBee restarts.)
RevokedStaysOut == revoked \cap (tokens \cup paired) = {}

\* server/clients.rs: whoever returns with the token is the original install.
\* (Two first contacts both read no record, and the later write wins.)
FirstInstallStays ==
    ~Busy(App) => \A i \in Installs : holds[i] \in aged \cup {0, identity}
=============================================================================
