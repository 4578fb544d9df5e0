------------------------------ MODULE Replica ------------------------------
(***************************************************************************)
(* What library sync promises, without the log, its cursors and its pages: *)
(* the paths a reader has settled are right in its copy, reading on never  *)
(* unsettles one, and only a change of the track, or of what the server    *)
(* can still answer, does.                                                 *)
(***************************************************************************)
EXTENDS Naturals

CONSTANTS Paths, Readers

VARIABLES library,  \* the version of each track in the library; 0 for none
          held,     \* the version each reader's copy holds
          settled   \* the paths each reader need not ask about again

vars == <<library, held, settled>>

Nothing == [p \in Paths |-> 0]

Init ==
    /\ library = Nothing
    /\ held = [r \in Readers |-> Nothing]
    /\ settled = [r \in Readers |-> {}]

Agrees(r) == \A p \in settled[r] : held[r][p] = library[p]

\* Tracks change: a changed path is settled for nobody, and a reader the server
\* can no longer answer has settled nothing.
Change ==
    /\ held' = held
    /\ \A r \in Readers :
         /\ Agrees(r)'
         /\ \A p \in Paths : library'[p] # library[p] => p \notin settled'[r]

\* A reader applies a page: what it settled stays, and what it is told of a
\* path is the library's version, or one the track has since moved on from.  One
\* the server can no longer answer settles nothing and will start over.
Learn(r) ==
    /\ library' = library
    /\ settled[r] \subseteq settled'[r]
    /\ Agrees(r)'
    /\ settled'[r] # {} =>
          \A p \in Paths :
             held'[r][p] # held[r][p] => held'[r][p] <= library[p] \/ library[p] = 0
    /\ \A o \in Readers \ {r} : held'[o] = held[o] /\ settled'[o] = settled[o]

\* A reader drops its copy and asks for everything.
StartOver(r) ==
    /\ library' = library
    /\ held' = [held EXCEPT ![r] = Nothing]
    /\ settled' = [settled EXCEPT ![r] = {}]

Next == Change \/ \E r \in Readers : Learn(r) \/ StartOver(r)

Spec == Init /\ [][Next]_vars
=============================================================================
