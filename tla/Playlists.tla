----------------------------- MODULE Playlists -----------------------------
(***************************************************************************)
(* A playlist as the web app shows and edits it.                           *)
(*                                                                         *)
(* The playlist stays with MusicBee, whose users change it too.  The core  *)
(* reads it whole for every request and rewrites it whole for every edit.  *)
(* The web app keeps the pages it has read and names tracks by their slot, *)
(* with the version of the last page.  A version is a hash of the ordered  *)
(* paths: here it is the list itself.                                      *)
(*                                                                         *)
(* Requests of one socket are served one at a time and answered in order.  *)
(* Search terms, durations and what is said of a failure are left out.     *)
(***************************************************************************)
EXTENDS SequencesExt, Integers

CONSTANTS Tracks,      \* what MusicBee may put into the playlist
          PageSize,    \* rows of a page (PAGE_SIZE)
          MaxEdits,    \* bound on what is done to the playlist in MusicBee
          MaxAsks,     \* bound on what is asked of the web app
          None

VARIABLES list,        \* MusicBee's playlist
          kind,        \* its format: "list", "auto" (a rule) or "gone"
          edits,       \* history: changes made in MusicBee
          wire,        \* the socket: requests in order, with the answers they have
          work,        \* the edit the core has checked and not yet written: what it read
          view,        \* the web app's address names the playlist
          store,       \* its playlist store
          asked,       \* history: what has been asked of the web app
          harm         \* history: how edits of slots went wrong

hostVars == <<list, kind, edits>>
coreVars == <<work, harm>>
appVars == <<view, store, asked>>
vars == <<hostVars, wire, coreVars, appVars>>

Lists == {l \in UNION {[1..n -> Tracks] : n \in 0..Cardinality(Tracks)} : IsInjective(l)}

Closed == [open |-> FALSE, rows |-> <<>>, version |-> <<>>, editable |-> FALSE,
           total |-> 0, loading |-> FALSE]

Init ==
    /\ list \in Lists /\ kind \in {"list", "auto"} /\ edits = 0
    /\ wire = <<>> /\ work = None
    /\ view = FALSE /\ store = Closed /\ asked = 0
    /\ harm = {}

-----------------------------------------------------------------------------
(* In MusicBee. *)

\* Tracks are added, removed and moved, or a rule is evaluated again.
HostEdits ==
    /\ kind # "gone" /\ edits < MaxEdits
    /\ list' \in Lists \ {list}
    /\ edits' = edits + 1
    /\ UNCHANGED <<kind, wire, coreVars, appVars>>

HostDeletes ==
    /\ kind # "gone" /\ edits < MaxEdits
    /\ kind' = "gone" /\ list' = <<>>
    /\ edits' = edits + 1
    /\ UNCHANGED <<wire, coreVars, appVars>>

-----------------------------------------------------------------------------
(* The core, commands_v6/playlist.rs: the first request without an answer. *)

Unserved == SelectInSeq(wire, LAMBDA w : w.answer = None)
Asked == wire[Unserved].call
Answer(a) == wire' = [wire EXCEPT ![Unserved].answer = a]
Refusal(code) == [code |-> code]

\* The window of the playlist from an offset on, each row with its slot.
Window(l, offset) ==
    [i \in 1..(IF offset >= Len(l) THEN 0
               ELSE IF Len(l) - offset < PageSize THEN Len(l) - offset ELSE PageSize) |->
        [order |-> offset + i - 1, track |-> l[offset + i]]]

\* playlist_tracks: MusicBee is asked once, for the whole list.
ServePage ==
    /\ Unserved # 0 /\ Asked.op = "read"
    /\ \/ Answer([code |-> "ok", rows |-> Window(list, Asked.offset), version |-> list,
                  total |-> Len(list), editable |-> kind = "list"])
       \/ Answer(Refusal("internal"))
    /\ UNCHANGED <<hostVars, coreVars, appVars>>

SlotEdit(r) == r.op \in {"remove", "move"}

\* Mutant: the version a request carries is not looked at.
RefusedAnyVersion(r) ==
    CASE kind = "gone" -> "not_found"
      [] kind = "auto" /\ r.op # "delete" -> "unavailable"
      [] SlotEdit(r) /\ (r.from >= Len(list) \/ r.to >= Len(list)) -> "invalid_field"
      [] OTHER -> "no"

\* What editable_files, known_files and check_in_range refuse.
Refused(r) ==
    CASE kind = "gone" -> "not_found"
      [] kind = "auto" /\ r.op # "delete" -> "unavailable"
      [] SlotEdit(r) /\ r.version # list -> "stale_list"
      [] SlotEdit(r) /\ (r.from >= Len(list) \/ r.to >= Len(list)) -> "invalid_field"
      [] OTHER -> "no"

\* An edit is checked against one read of the playlist, which it keeps.
Check ==
    /\ Unserved # 0 /\ Asked.op # "read" /\ work = None
    /\ IF Refused(Asked) = "no"
       THEN work' = [files |-> list] /\ UNCHANGED wire
       ELSE Answer(Refusal(Refused(Asked))) /\ UNCHANGED work
    /\ UNCHANGED <<hostVars, harm, appVars>>

\* moved_to: lifted out, and put back so that it lands at its new slot.
MovedTo(l, from, to) == InsertAt(RemoveAt(l, from + 1), to + 1, l[from + 1])

Edited(r, files) ==
    CASE r.op = "remove" -> RemoveAt(files, r.from + 1)
      [] r.op = "move" -> MovedTo(files, r.from, r.to)
      [] r.op = "add" -> Append(list, r.track)
      [] r.op = "delete" -> <<>>

\* What a slot edit does to tracks it did not mean, or to changes it did not see.
Harm(r, files) ==
    LET astray == files[r.from + 1] # r.shown.track \/ files[r.to + 1] # r.target.track IN
    IF ~SlotEdit(r) THEN {}
    ELSE (IF astray THEN {IF r.stitched THEN "stitched" ELSE "lost"} ELSE {})
         \cup (IF files # list THEN {"overwrote"} ELSE {})

\* MusicBee is given the edit: slots as a whole new list, made of the one read.
\* The version read back is of no use to the web app.
Write ==
    /\ work # None
    /\ kind # "gone"
    /\ list' = Edited(Asked, work.files)
    /\ kind' = IF Asked.op = "delete" THEN "gone" ELSE kind
    /\ harm' = harm \cup Harm(Asked, work.files)
    /\ work' = None
    /\ Answer([code |-> "ok"])
    /\ UNCHANGED <<edits, appVars>>

WriteFails ==
    /\ work # None
    /\ work' = None
    /\ Answer(Refusal("internal"))
    /\ UNCHANGED <<hostVars, harm, appVars>>

-----------------------------------------------------------------------------
(* The web app, stores/playlist.ts and PlaylistsView.vue. *)

Held(call) == [call |-> call, answer |-> None]

\* load: from the start, or from past the rows held, once or until nothing is left.
Load(from, append, rest) ==
    Held([op |-> "read", offset |-> IF append THEN Len(from.rows) ELSE 0,
          append |-> append, rest |-> rest])
HasMore(s) == Len(s.rows) < s.total
Asks == asked < MaxAsks /\ asked' = asked + 1

Open ==
    /\ Asks /\ ~view
    /\ view' = TRUE
    /\ store' = [Closed EXCEPT !.loading = TRUE]
    /\ wire' = Append(wire, Load(Closed, FALSE, FALSE))
    /\ UNCHANGED <<hostVars, coreVars>>

\* The address changes first: what is in flight still comes in.
Leave ==
    /\ view
    /\ view' = FALSE
    /\ store' = [Closed EXCEPT !.loading = store.loading]
    /\ UNCHANGED <<hostVars, wire, coreVars, asked>>

\* The end of the rows is scrolled to.
LoadMore ==
    /\ Asks /\ view /\ HasMore(store) /\ ~store.loading
    /\ store' = [store EXCEPT !.loading = TRUE]
    /\ wire' = Append(wire, Load(store, TRUE, FALSE))
    /\ UNCHANGED <<hostVars, coreVars, view>>

\* "Select all" reads the rest first, whatever is being read.
LoadAll ==
    /\ Asks /\ view /\ store.open /\ HasMore(store)
    /\ store' = [store EXCEPT !.loading = TRUE]
    /\ wire' = Append(wire, Load(store, TRUE, TRUE))
    /\ UNCHANGED <<hostVars, coreVars, view>>

\* A row is of the version it is held with.
Current(row) ==
    /\ row.order < Len(store.version)
    /\ store.version[row.order + 1] = row.track

\* edit: the slots of rows as shown, and the version of the last page.
Slots(op, row, target) ==
    Held([op |-> op, from |-> row.order, to |-> target.order, version |-> store.version,
          shown |-> row, target |-> target,
          stitched |-> ~Current(row) \/ ~Current(target)])

RemoveRow ==
    /\ Asks /\ view /\ store.open
    /\ \E row \in ToSet(store.rows) : wire' = Append(wire, Slots("remove", row, row))
    /\ UNCHANGED <<hostVars, coreVars, view, store>>

MoveRow ==
    /\ Asks /\ view /\ store.open /\ store.editable
    /\ \E row, target \in ToSet(store.rows) :
          row # target /\ wire' = Append(wire, Slots("move", row, target))
    /\ UNCHANGED <<hostVars, coreVars, view, store>>

\* addTo, from anywhere in the app; it names no slot and no version.
AddTo ==
    /\ Asks
    /\ \E t \in Tracks : wire' = Append(wire, Held([op |-> "add", track |-> t]))
    /\ UNCHANGED <<hostVars, coreVars, view, store>>

Delete ==
    /\ Asks /\ view
    /\ wire' = Append(wire, Held([op |-> "delete"]))
    /\ UNCHANGED <<hostVars, coreVars, view, store>>

Taken(page, append) ==
    [open |-> TRUE,
     rows |-> IF append THEN store.rows \o page.rows ELSE page.rows,
     version |-> page.version, editable |-> page.editable, total |-> page.total,
     loading |-> FALSE]

\* A page arrives.  loadAll goes on while there is more and the page added some.
TakePage ==
    LET call == Head(wire).call
        page == Head(wire).answer
        after == Taken(page, call.append)
        goesOn == call.rest /\ HasMore(after) /\ Len(after.rows) > call.offset
    IN
    /\ wire # <<>> /\ Head(wire).call.op = "read" /\ Head(wire).answer # None
    /\ IF page.code # "ok"
       THEN store' = [store EXCEPT !.loading = FALSE] /\ wire' = Tail(wire)
       ELSE /\ store' = [after EXCEPT !.loading = goesOn]
            /\ wire' = Tail(wire) \o IF goesOn THEN <<Load(after, TRUE, TRUE)>> ELSE <<>>
    /\ UNCHANGED <<hostVars, coreVars, view, asked>>

\* The answer to an edit, good or bad, and what is open is read again; a refused
\* add changes nothing, and a delete closes it.
TakeEdit ==
    LET call == Head(wire).call
        done == Head(wire).answer.code = "ok"
        again == store.open /\ (SlotEdit(call) \/ (call.op = "add" /\ done))
    IN
    /\ wire # <<>> /\ Head(wire).call.op # "read" /\ Head(wire).answer # None
    /\ wire' = Tail(wire) \o IF again THEN <<Load(store, FALSE, FALSE)>> ELSE <<>>
    /\ store' = CASE again -> [store EXCEPT !.loading = TRUE]
                  [] call.op = "delete" /\ done /\ store.open ->
                         [Closed EXCEPT !.loading = store.loading]
                  [] OTHER -> store
    /\ UNCHANGED <<hostVars, coreVars, view, asked>>

Next ==
    \/ HostEdits \/ HostDeletes
    \/ ServePage \/ Check \/ Write \/ WriteFails
    \/ Open \/ Leave \/ LoadMore \/ LoadAll \/ RemoveRow \/ MoveRow \/ AddTo \/ Delete
    \/ TakePage \/ TakeEdit

Spec == Init /\ [][Next]_vars

-----------------------------------------------------------------------------
(* What an edit may do. *)

\* An edit of slots reaches the tracks that were shown at them, unless the rows
\* are of more than one version: whatever is read again or changes meanwhile,
\* rows of the version that is echoed are edited or refused.
AcceptedUnlessStitched == "lost" \notin harm

\* stores/playlist.ts: the version is "echoed back on an edit, so a playlist that
\* moved since is refused".
MovedPlaylistRefused == harm \cap {"lost", "stitched"} = {}
=============================================================================
