--------------------------- MODULE VersionedMemory ---------------------------
(***************************************************************************)
(* What the memory store promises its callers: a memory is an identity     *)
(* with a growing list of immutable revisions and at most one of them in   *)
(* force.  Every operation of PostgresMemoryStore is one atomic step here; *)
(* MemoryStore shows how transactions of several statements provide it.    *)
(***************************************************************************)
EXTENDS Naturals

CONSTANTS
  Ids,        \* memory identities
  Contents    \* what a revision may say

VARIABLES
  revisions,  \* the set of all revisions ever written
  current     \* per identity: the revision in force, 0 when there is none

absVars == <<revisions, current>>

Revision == [id : Ids, revision : Nat \ {0}, content : Contents]

HistoryOf(id) == {r \in revisions : r.id = id}

Init ==
  /\ revisions = {}
  /\ current = [id \in Ids |-> 0]

\* write(): a new identity at revision 1.
Create(id, content) ==
  /\ HistoryOf(id) = {}
  /\ revisions' = revisions \cup {[id |-> id, revision |-> 1, content |-> content]}
  /\ current' = [current EXCEPT ![id] = 1]

\* write(supersedes=old): the new identity replaces the one in force.
Replace(id, content, old) ==
  /\ HistoryOf(id) = {}
  /\ old # id
  /\ current[old] # 0
  /\ revisions' = revisions \cup {[id |-> id, revision |-> 1, content |-> content]}
  /\ current' = [current EXCEPT ![id] = 1, ![old] = 0]

\* supersede(): nothing of this identity is in force any more.
Supersede(id) ==
  /\ current[id] # 0
  /\ current' = [current EXCEPT ![id] = 0]
  /\ UNCHANGED revisions

\* revert(): an earlier revision's content is appended at the next number and
\* is the one in force, whatever was in force before.
Revert(id) ==
  \E to, last \in HistoryOf(id) :
    /\ \A r \in HistoryOf(id) : r.revision <= last.revision
    /\ revisions' = revisions \cup
         {[id |-> id, revision |-> last.revision + 1, content |-> to.content]}
    /\ current' = [current EXCEPT ![id] = last.revision + 1]

Next ==
  \E id \in Ids :
    \/ \E content \in Contents :
         \/ Create(id, content)
         \/ \E old \in Ids : Replace(id, content, old)
    \/ Supersede(id)
    \/ Revert(id)

Spec == Init /\ [][Next]_absVars
=============================================================================
