----------------------------- MODULE MemoryStore -----------------------------
(***************************************************************************)
(* PostgresMemoryStore (app/memory/store.py): write, supersede and revert  *)
(* as the transactions they are.  asyncpg's conn.transaction() runs at     *)
(* READ COMMITTED, so every statement sees what was committed when it      *)
(* began, an UPDATE waits for a row another transaction has updated and    *)
(* then looks at that row again, and an INSERT waits for another           *)
(* transaction inserting the same primary key.  A transaction's own        *)
(* changes are kept in its record until it commits.                        *)
(*                                                                         *)
(* A row's validity window is the flag "live" (valid_to IS NULL); the      *)
(* timestamps, the embedding and the other copied columns are left out.    *)
(***************************************************************************)
EXTENDS Naturals

CONSTANTS
  Ids,          \* memory identities; uuid4, so a new one is never in use
  Contents,     \* what a revision may say
  Writers,      \* callers of write: memory_write tool, Extractor, Consolidator
  Superseders,  \* callers of supersede: Consolidator
  Reverters,    \* callers of revert: POST /memory/{id}/revert
  None,         \* SQL NULL
  MaxRevision   \* bound: no revert starts once an identity has this revision

Clients == Writers \cup Superseders \cup Reverters

ASSUME NoneAssumption == None \notin Ids
ASSUME BoundAssumption == MaxRevision \in Nat

VARIABLES
  memories,     \* table memories: the committed rows
  audit,        \* table memory_audit: the committed rows
  tx            \* per client: the transaction it is running

vars == <<memories, audit, tx>>

Row == [id : Ids, revision : Nat \ {0}, content : Contents,
        live : BOOLEAN, superseded_by : Ids \cup {None}]

\* before: the row whose payload goes in the column, if any.
AuditRow == [id : Ids, revision : Nat \ {0},
             op : {"create", "supersede", "revert"}, before : SUBSET Row]

Ops == {"none", "write", "supersede", "revert"}

PCs == {"idle", "read_live", "read_max", "update", "scan", "insert", "commit"}

Tx == [op : Ops, pc : PCs,
       target : Ids \cup {None},  \* the identity whose window is closed
       by : Ids \cup {None},      \* superseded_by, and the identity written
       content : Contents \cup {None},
       next : Nat,                \* revision to insert
       before : SUBSET Row,       \* the live row the code holds, or none
       scan : SUBSET Row,         \* rows the UPDATE has yet to visit
       closed : SUBSET Row,       \* rows it has closed, and locks
       inserted : SUBSET Row]     \* the row it has inserted

Idle == [op |-> "none", pc |-> "idle", target |-> None, by |-> None,
         content |-> None, next |-> 1, before |-> {}, scan |-> {},
         closed |-> {}, inserted |-> {}]

-----------------------------------------------------------------------------
RowsOf(id) == {r \in memories : r.id = id}

LiveRows(id) == {r \in RowsOf(id) : r.live}

SameKey(r, s) == r.id = s.id /\ r.revision = s.revision

\* A fresh uuid names no row and is in no running transaction's hands.
Unused(id) == RowsOf(id) = {} /\ \A c \in Clients : tx[c].by # id

Close(r, by) == [r EXCEPT !.live = FALSE, !.superseded_by = by]

\* Mutants of AuditEntries: every insert is a create; no entry for the window
\* a write or a supersede closes.
AuditEntriesCreate(t) ==
  {[id |-> r.id, revision |-> r.revision, op |-> "create", before |-> {}] :
     r \in t.inserted}
  \cup
  {[id |-> r.id, revision |-> r.revision, op |-> "supersede", before |-> {r}] :
     r \in t.before}

AuditEntriesInsert(t) ==
  {[id |-> r.id, revision |-> r.revision,
    op |-> IF t.op = "revert" THEN "revert" ELSE "create",
    before |-> IF t.op = "revert" THEN t.before ELSE {}] : r \in t.inserted}

\* The payloads _audit records: one for the row inserted, and one against the
\* row a write or a supersede has closed.
AuditEntries(t) ==
  {[id |-> r.id, revision |-> r.revision,
    op |-> IF t.op = "revert" THEN "revert" ELSE "create",
    before |-> IF t.op = "revert" THEN t.before ELSE {}] : r \in t.inserted}
  \cup
  {[id |-> r.id, revision |-> r.revision, op |-> "supersede", before |-> {r}] :
     r \in IF t.op = "revert" THEN {} ELSE t.before}

-----------------------------------------------------------------------------
Init ==
  /\ memories = {}
  /\ audit = {}
  /\ tx = [c \in Clients |-> Idle]

\* write(): with supersedes the window is closed first, without it the
\* transaction is the INSERT alone.
Write(c) ==
  /\ c \in Writers
  /\ tx[c].pc = "idle"
  /\ \E id \in Ids, content \in Contents, old \in Ids \cup {None} :
       /\ Unused(id)
       /\ old # id
       /\ tx' = [tx EXCEPT ![c] =
            [Idle EXCEPT !.op = "write", !.by = id, !.content = content,
                         !.target = old,
                         !.pc = IF old = None THEN "insert" ELSE "update"]]
  /\ UNCHANGED <<memories, audit>>

\* supersede(): by is a memory written before.
Supersede(c) ==
  /\ c \in Superseders
  /\ tx[c].pc = "idle"
  /\ \E id, by \in Ids :
       /\ id # by
       /\ RowsOf(by) # {}
       /\ tx' = [tx EXCEPT ![c] =
            [Idle EXCEPT !.op = "supersede", !.pc = "update",
                         !.target = id, !.by = by]]
  /\ UNCHANGED <<memories, audit>>

\* Mutant: the SELECT lacks id = $1.
RevertAnyMemory(c) ==
  /\ c \in Reverters
  /\ tx[c].pc = "idle"
  /\ \E target, any \in memories :
       /\ any.revision = target.revision
       /\ \A r \in RowsOf(target.id) : r.revision < MaxRevision
       /\ tx' = [tx EXCEPT ![c] =
            [Idle EXCEPT !.op = "revert", !.pc = "read_live",
                         !.target = target.id, !.content = any.content]]
  /\ UNCHANGED <<memories, audit>>

\* revert(): the SELECT of the target revision.  When it finds none the
\* request fails with nothing changed.
Revert(c) ==
  /\ c \in Reverters
  /\ tx[c].pc = "idle"
  /\ \E target \in memories :
       /\ \A r \in RowsOf(target.id) : r.revision < MaxRevision
       /\ tx' = [tx EXCEPT ![c] =
            [Idle EXCEPT !.op = "revert", !.pc = "read_live",
                         !.target = target.id, !.content = target.content]]
  /\ UNCHANGED <<memories, audit>>

\* revert's SELECT of the live row; fetchrow keeps one.
ReadLive(c) ==
  /\ tx[c].pc = "read_live"
  /\ \E before \in IF LiveRows(tx[c].target) = {} THEN {{}}
                   ELSE {{r} : r \in LiveRows(tx[c].target)} :
       tx' = [tx EXCEPT ![c].before = before, ![c].pc = "read_max"]
  /\ UNCHANGED <<memories, audit>>

\* Mutants of ReadMax: one revision too far; without the UPDATE that closes the
\* live row.
ReadMaxSkips(c) ==
  /\ tx[c].pc = "read_max"
  /\ \E last \in RowsOf(tx[c].target) :
       /\ \A r \in RowsOf(tx[c].target) : r.revision <= last.revision
       /\ tx' = [tx EXCEPT ![c].next = last.revision + 2,
                           ![c].pc = IF tx[c].before = {} THEN "insert" ELSE "update"]
  /\ UNCHANGED <<memories, audit>>

ReadMaxKeepsLive(c) ==
  /\ tx[c].pc = "read_max"
  /\ \E last \in RowsOf(tx[c].target) :
       /\ \A r \in RowsOf(tx[c].target) : r.revision <= last.revision
       /\ tx' = [tx EXCEPT ![c].next = last.revision + 1, ![c].pc = "insert"]
  /\ UNCHANGED <<memories, audit>>

\* revert's SELECT max(revision) + 1, and its branch on the live row.
ReadMax(c) ==
  /\ tx[c].pc = "read_max"
  /\ \E last \in RowsOf(tx[c].target) :
       /\ \A r \in RowsOf(tx[c].target) : r.revision <= last.revision
       /\ tx' = [tx EXCEPT ![c].next = last.revision + 1,
                           ![c].pc = IF tx[c].before = {} THEN "insert" ELSE "update"]
  /\ UNCHANGED <<memories, audit>>

\* The UPDATE takes its snapshot: only rows live now are ever closed by it.
BeginUpdate(c) ==
  /\ tx[c].pc = "update"
  /\ tx' = [tx EXCEPT ![c].scan = LiveRows(tx[c].target), ![c].pc = "scan"]
  /\ UNCHANGED <<memories, audit>>

\* It visits a row nobody else holds.  A row closed while it waited no longer
\* satisfies the WHERE clause and is skipped.
UpdateRow(c) ==
  /\ tx[c].pc = "scan"
  /\ \E r \in tx[c].scan :
       /\ \A d \in Clients \ {c} : r \notin tx[d].closed
       /\ tx' = [tx EXCEPT ![c].scan = @ \ {r},
                           ![c].closed = IF r \in memories THEN @ \cup {r} ELSE @]
  /\ UNCHANGED <<memories, audit>>

\* Mutant: the windows are closed in a transaction of their own, and the INSERT
\* that was to follow is lost.
EndUpdateCommits(c) ==
  /\ tx[c].pc = "scan"
  /\ tx[c].scan = {}
  /\ \E r \in tx[c].closed : tx' = [tx EXCEPT ![c].before = {r}, ![c].pc = "commit"]
  /\ UNCHANGED <<memories, audit>>

\* RETURNING hands _close_window one closed row; revert ignores the result.
EndUpdate(c) ==
  /\ tx[c].pc = "scan"
  /\ tx[c].scan = {}
  /\ \/ /\ tx[c].op = "revert"
        /\ tx' = [tx EXCEPT ![c].pc = "insert"]
     \/ /\ tx[c].op # "revert"
        /\ \E r \in tx[c].closed :
             tx' = [tx EXCEPT ![c].before = {r},
                      ![c].pc = IF tx[c].op = "write" THEN "insert" ELSE "commit"]
  /\ UNCHANGED <<memories, audit>>

\* _close_window found no row: MemoryNotFound, and the transaction rolls back.
NotFound(c) ==
  /\ tx[c].pc = "scan"
  /\ tx[c].scan = {}
  /\ tx[c].op # "revert"
  /\ tx[c].closed = {}
  /\ tx' = [tx EXCEPT ![c] = Idle]
  /\ UNCHANGED <<memories, audit>>

NewRow(t) == [id |-> IF t.op = "write" THEN t.by ELSE t.target,
              revision |-> t.next, content |-> t.content,
              live |-> TRUE, superseded_by |-> None]

\* The INSERT waits while another transaction holds the same key.
Insert(c) ==
  /\ tx[c].pc = "insert"
  /\ \A r \in memories : ~SameKey(r, NewRow(tx[c]))
  /\ \A d \in Clients : \A r \in tx[d].inserted : ~SameKey(r, NewRow(tx[c]))
  /\ tx' = [tx EXCEPT ![c].inserted = {NewRow(tx[c])}, ![c].pc = "commit"]
  /\ UNCHANGED <<memories, audit>>

\* The key was committed by another transaction: unique violation, rollback.
DuplicateKey(c) ==
  /\ tx[c].pc = "insert"
  /\ \E r \in memories : SameKey(r, NewRow(tx[c]))
  /\ tx' = [tx EXCEPT ![c] = Idle]
  /\ UNCHANGED <<memories, audit>>

\* Mutant: the closed row is deleted.
CommitDeletes(c) ==
  /\ tx[c].pc = "commit"
  /\ memories' = (memories \ tx[c].closed) \cup tx[c].inserted
  /\ audit' = audit \cup AuditEntries(tx[c])
  /\ tx' = [tx EXCEPT ![c] = Idle]

\* The audit rows are written and everything becomes visible at once.
Commit(c) ==
  /\ tx[c].pc = "commit"
  /\ memories' = (memories \ tx[c].closed)
       \cup {Close(r, IF tx[c].op = "revert" THEN None ELSE tx[c].by) : r \in tx[c].closed}
       \cup tx[c].inserted
  /\ audit' = audit \cup AuditEntries(tx[c])
  /\ tx' = [tx EXCEPT ![c] = Idle]

\* A lost connection, a statement that fails, a deadlock victim or a process
\* that dies: Postgres rolls the transaction back.
Rollback(c) ==
  /\ tx[c].pc # "idle"
  /\ tx' = [tx EXCEPT ![c] = Idle]
  /\ UNCHANGED <<memories, audit>>

Begin(c) == Write(c) \/ Supersede(c) \/ Revert(c)

Statement(c) ==
  \/ ReadLive(c) \/ ReadMax(c)
  \/ BeginUpdate(c) \/ UpdateRow(c) \/ EndUpdate(c) \/ NotFound(c)
  \/ Insert(c) \/ DuplicateKey(c) \/ Commit(c)

Next == \E c \in Clients : Begin(c) \/ Statement(c) \/ Rollback(c)

Spec == Init /\ [][Next]_vars

-----------------------------------------------------------------------------
\* Every variable holds values of its table's or record's shape.
TypeOK ==
  /\ memories \subseteq Row
  /\ audit \subseteq AuditRow
  /\ tx \in [Clients -> Tx]

\* No two rows share (id, revision), however many reverts number their
\* revision from the same max(revision): the loser waits, then fails.
PrimaryKey == \A r, s \in memories : SameKey(r, s) => r = s

\* Revisions of an identity are 1..n with no gap, so every number up to the
\* newest can be the target of a revert.
NoGaps ==
  \A r \in memories : \A n \in 1..r.revision :
    \E s \in memories : s.id = r.id /\ s.revision = n

\* At most one revision of an identity is in force: what the transactions of
\* write, supersede and revert exist to keep (TRD 4.1).
AtMostOneLive ==
  \A r, s \in memories : r.id = s.id /\ r.live /\ s.live => r = s

\* What is no longer in force was replaced by something that is stored, though
\* no constraint says so: a later revision, whatever other reverts did since
\* max(revision) was read, or else the memory that superseded_by names.  A close
\* that commits without what it made room for could not be told from a memory
\* that was forgotten (write, _close_window, supersede, revert).
ClosedIsReplaced ==
  \A r \in memories : ~r.live =>
    IF r.superseded_by = None
    THEN \E s \in memories : s.id = r.id /\ s.revision > r.revision
    ELSE RowsOf(r.superseded_by) # {}

\* Whoever reads a memory's trail finds out why a window was closed: by a
\* supersede entry for that revision, or by a revert that names it as the
\* revision it replaced.
EveryCloseAudited ==
  \A r \in memories : ~r.live =>
    \E e \in audit : e.id = r.id /\ \E b \in e.before : SameKey(b, r)

\* A revision that is in the table was audited by the operation that wrote it.
EveryRevisionAudited ==
  \A r \in memories : \E e \in audit :
    /\ SameKey(e, r)
    /\ e.op = IF r.revision = 1 THEN "create" ELSE "revert"

\* A step never deletes a row, edits one or reopens a closed window: the one
\* change a row ever sees is the closing of its window (ADR 4).
AppendOnly ==
  [][\A r \in memories :
       \/ r \in memories'
       \/ r.live /\ \E by \in Ids \cup {None} : Close(r, by) \in memories']_vars

-----------------------------------------------------------------------------
\* Which operation a transaction that has come this far is running.
OpAtPC ==
  \A c \in Clients :
    /\ tx[c].pc \in {"read_live", "read_max"} => tx[c].op = "revert"
    /\ tx[c].pc = "insert" => tx[c].op \in {"write", "revert"}
    /\ tx[c].pc \in {"update", "scan", "commit"} => tx[c].op # "none"

\* A row a transaction holds is still live in the table, and held once.
LocksAreLive ==
  \A c \in Clients :
    /\ \A r \in tx[c].scan \cup tx[c].closed : r.live /\ r.id = tx[c].target
    /\ tx[c].closed \subseteq memories
    /\ \A d \in Clients \ {c} : tx[c].closed \cap tx[d].closed = {}

\* The identity a write creates belongs to that transaction alone until it commits.
NewIdentity ==
  \A c \in Clients : tx[c].op = "write" =>
    /\ tx[c].by \in Ids \ {tx[c].target}
    /\ tx[c].content \in Contents
    /\ tx[c].next = 1
    /\ RowsOf(tx[c].by) = {}
    /\ \A d \in Clients \ {c} : tx[d].by # tx[c].by

\* What revert read about its target stays true of the table: the content is
\* one of its revisions', and every number below the next one is taken.
RevertTarget ==
  \A c \in Clients : tx[c].op = "revert" =>
    /\ c \in Reverters
    /\ tx[c].by = None
    /\ \E r \in memories : r.id = tx[c].target /\ r.content = tx[c].content
    /\ tx[c].next \in Nat \ {0}
    /\ \A n \in 1..(tx[c].next - 1) :
         \E r \in memories : r.id = tx[c].target /\ r.revision = n

\* What supersede closes a window in favour of is in the table.
SupersededBy ==
  \A c \in Clients : tx[c].op = "supersede" => tx[c].by \in Ids /\ RowsOf(tx[c].by) # {}

\* Only a transaction about to commit holds a row to insert, and no row of the
\* table or of another transaction has its key.
PendingInsert ==
  \A c \in Clients :
    /\ tx[c].inserted = IF tx[c].pc = "commit" /\ tx[c].op # "supersede"
                        THEN {NewRow(tx[c])} ELSE {}
    /\ \A r \in tx[c].inserted :
         /\ \A s \in memories : ~SameKey(r, s)
         /\ \A d \in Clients \ {c} : \A s \in tx[d].inserted : ~SameKey(r, s)

\* The inductive invariant of any number of concurrent clients.
StoreInv ==
  /\ TypeOK
  /\ OpAtPC
  /\ LocksAreLive
  /\ NewIdentity
  /\ RevertTarget
  /\ SupersededBy
  /\ PendingInsert
  /\ PrimaryKey
  /\ NoGaps
  /\ ClosedIsReplaced

\* What a revert has read of its target is still so: past its UPDATE it holds
\* every live row, and no revision has been added since it took its number.
RevertIsCurrent ==
  \A c \in Clients : tx[c].op = "revert" =>
    /\ tx[c].pc = "read_max" /\ tx[c].before = {} => LiveRows(tx[c].target) = {}
    /\ tx[c].pc = "scan" => LiveRows(tx[c].target) \subseteq tx[c].scan \cup tx[c].closed
    /\ tx[c].pc \in {"insert", "commit"} => LiveRows(tx[c].target) \subseteq tx[c].closed
    /\ tx[c].pc \in {"update", "scan", "insert", "commit"} =>
         \A r \in RowsOf(tx[c].target) : r.revision < tx[c].next

\* With StoreInv, inductive when there is one client that reverts.
LiveInv == RevertIsCurrent /\ AtMostOneLive

-----------------------------------------------------------------------------
\* The promise kept: a commit is one step of VersionedMemory, and every other
\* statement leaves its state alone.
Promise == INSTANCE VersionedMemory WITH
  revisions <- {[id |-> r.id, revision |-> r.revision, content |-> r.content] :
                  r \in memories},
  current <- [id \in Ids |-> IF LiveRows(id) = {} THEN 0
                             ELSE (CHOOSE r \in LiveRows(id) : TRUE).revision]

\* Every behaviour of the transactions is one of atomic operations.
ImplementsPromise == Promise!Spec
=============================================================================
