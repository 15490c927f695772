-------------------------- MODULE MemoryStoreProofs --------------------------
(***************************************************************************)
(* Theorems about MemoryStore.  All steps but Commit change one client's   *)
(* transaction record and nothing else, so the invariant is proved in two  *)
(* parts: what a new record must satisfy for such a step (LocalStep), and  *)
(* what a commit does to the table (CommitStep).                           *)
(***************************************************************************)
EXTENDS MemoryStore, TLAPS

\* What StoreInv asks of a transaction record t of client c, given the table
\* and the other clients' records.
RecordOK(c, t) ==
  /\ t \in Tx
  /\ t.pc \in {"read_live", "read_max"} => t.op = "revert"
  /\ t.pc = "insert" => t.op \in {"write", "revert"}
  /\ t.pc \in {"update", "scan", "commit"} => t.op # "none"
  /\ \A r \in t.scan \cup t.closed : r.live /\ r.id = t.target
  /\ t.closed \subseteq memories
  /\ \A d \in Clients \ {c} :
       /\ t.closed \cap tx[d].closed = {}
       /\ tx[d].op = "write" => t.by # tx[d].by
  /\ t.op = "write" =>
       /\ t.by \in Ids \ {t.target}
       /\ t.content \in Contents
       /\ t.next = 1
       /\ RowsOf(t.by) = {}
       /\ \A d \in Clients \ {c} : tx[d].by # t.by
  /\ t.op = "revert" =>
       /\ c \in Reverters
       /\ t.by = None
       /\ \E r \in memories : r.id = t.target /\ r.content = t.content
       /\ t.next \in Nat \ {0}
       /\ \A n \in 1..(t.next - 1) :
            \E r \in memories : r.id = t.target /\ r.revision = n
  /\ t.op = "supersede" => t.by \in Ids /\ RowsOf(t.by) # {}
  /\ t.inserted = IF t.pc = "commit" /\ t.op # "supersede" THEN {NewRow(t)} ELSE {}
  /\ \A r \in t.inserted :
       /\ \A s \in memories : ~SameKey(r, s)
       /\ \A d \in Clients \ {c} : \A s \in tx[d].inserted : ~SameKey(r, s)

\* A step that only gives client c an admissible record keeps StoreInv.
LEMMA LocalStep ==
  ASSUME StoreInv, UNCHANGED <<memories, audit>>,
         NEW c \in Clients, NEW t, RecordOK(c, t), tx' = [tx EXCEPT ![c] = t]
  PROVE  StoreInv'
<1> USE DEF StoreInv
<1>0. /\ tx' \in [Clients -> Tx]
      /\ \A d \in Clients : tx'[d] = IF d = c THEN t ELSE tx[d]
  BY DEF TypeOK, RecordOK
<1>1. TypeOK'
  BY <1>0 DEF TypeOK
<1>2. OpAtPC'
  BY <1>0 DEF OpAtPC, RecordOK
<1>3. LocksAreLive'
  BY <1>0 DEF LocksAreLive, RecordOK
<1>4. NewIdentity'
  BY <1>0 DEF NewIdentity, RecordOK, RowsOf
<1>5. RevertTarget'
  BY <1>0 DEF RevertTarget, RecordOK
<1>6. PendingInsert'
  <2> SUFFICES ASSUME NEW d \in Clients
               PROVE  /\ tx'[d].inserted =
                           IF tx'[d].pc = "commit" /\ tx'[d].op # "supersede"
                           THEN {NewRow(tx'[d])} ELSE {}
                      /\ \A r \in tx'[d].inserted :
                           /\ \A s \in memories : ~SameKey(r, s)
                           /\ \A e \in Clients \ {d} : \A s \in tx'[e].inserted : ~SameKey(r, s)
    BY DEF PendingInsert
  <2>1. CASE d = c
    BY <1>0, <2>1 DEF RecordOK
  <2>2. CASE d # c
    <3>1. tx'[d] = tx[d]
      BY <1>0, <2>2
    <3>2. \A r \in tx[d].inserted : \A s \in t.inserted : ~SameKey(r, s)
      BY <2>2 DEF RecordOK, SameKey
    <3>3. \A e \in Clients \ {d} : tx'[e].inserted = t.inserted \/ tx'[e] = tx[e]
      BY <1>0
    <3>4. QED
      BY <3>1, <3>2, <3>3, <2>2 DEF PendingInsert
  <2>3. QED
    BY <2>1, <2>2
<1>7. PrimaryKey' /\ NoGaps' /\ ClosedIsReplaced'
  BY DEF PrimaryKey, NoGaps, ClosedIsReplaced, SameKey, RowsOf
<1>8. SupersededBy'
  BY <1>0 DEF SupersededBy, RecordOK, RowsOf
<1>9. QED
  BY <1>1, <1>2, <1>3, <1>4, <1>5, <1>6, <1>7, <1>8

\* The record a client has now is admissible.
LEMMA CurrentRecord ==
  ASSUME StoreInv, NEW c \in Clients
  PROVE  RecordOK(c, tx[c])
<1> USE DEF StoreInv
<1>1. tx[c] \in Tx
  BY DEF TypeOK
<1>2. /\ tx[c].pc \in {"read_live", "read_max"} => tx[c].op = "revert"
      /\ tx[c].pc = "insert" => tx[c].op \in {"write", "revert"}
      /\ tx[c].pc \in {"update", "scan", "commit"} => tx[c].op # "none"
  BY DEF OpAtPC
<1>3. \A d \in Clients \ {c} : tx[d].op = "write" => tx[c].by # tx[d].by
  BY DEF NewIdentity
<1>4. QED
  BY <1>1, <1>2, <1>3 DEF LocksAreLive, NewIdentity, RevertTarget, SupersededBy, PendingInsert,
     RecordOK

\* So is the record of a client that runs nothing.
LEMMA IdleRecord ==
  ASSUME StoreInv, NEW c \in Clients
  PROVE  RecordOK(c, Idle)
  BY NoneAssumption DEF StoreInv, TypeOK, NewIdentity, RecordOK, Idle, Tx, Ops, PCs

\* Every step but Commit is a local step to an admissible record.
LEMMA BeginStep ==
  ASSUME StoreInv, NEW c \in Clients, Begin(c)
  PROVE  StoreInv'
<1>1. CASE Write(c)
  <2>1. PICK id \in Ids, content \in Contents, old \in Ids \cup {None} :
          /\ Unused(id)
          /\ old # id
          /\ tx' = [tx EXCEPT ![c] =
               [Idle EXCEPT !.op = "write", !.by = id, !.content = content,
                            !.target = old,
                            !.pc = IF old = None THEN "insert" ELSE "update"]]
    BY <1>1 DEF Write
  <2> DEFINE t == [Idle EXCEPT !.op = "write", !.by = id, !.content = content,
                               !.target = old,
                               !.pc = IF old = None THEN "insert" ELSE "update"]
  <2>2. RecordOK(c, t)
    BY <2>1, NoneAssumption DEF Unused, StoreInv, Idle, Tx, Ops, PCs, RecordOK
  <2>3. QED
    BY <1>1, <2>1, <2>2, LocalStep DEF Write
<1>2. CASE Supersede(c)
  <2>1. PICK id \in Ids, by \in Ids :
          /\ id # by
          /\ RowsOf(by) # {}
          /\ tx' = [tx EXCEPT ![c] =
               [Idle EXCEPT !.op = "supersede", !.pc = "update",
                            !.target = id, !.by = by]]
    BY <1>2 DEF Supersede
  <2> DEFINE t == [Idle EXCEPT !.op = "supersede", !.pc = "update",
                               !.target = id, !.by = by]
  <2>2. RecordOK(c, t)
    BY <2>1, NoneAssumption DEF NewIdentity, StoreInv, Idle, Tx, Ops, PCs, RecordOK
  <2>3. QED
    BY <1>2, <2>1, <2>2, LocalStep DEF Supersede
<1>3. CASE Revert(c)
  <2>1. PICK target \in memories :
          tx' = [tx EXCEPT ![c] =
            [Idle EXCEPT !.op = "revert", !.pc = "read_live",
                         !.target = target.id, !.content = target.content]]
    BY <1>3 DEF Revert
  <2> DEFINE t == [Idle EXCEPT !.op = "revert", !.pc = "read_live",
                               !.target = target.id, !.content = target.content]
  <2>2. target.id \in Ids /\ target.content \in Contents
    BY <2>1 DEF StoreInv, TypeOK, Row
  <2>3. /\ t \in Tx
        /\ t.op = "revert" /\ t.pc = "read_live" /\ t.by = None /\ t.next = 1
        /\ t.target = target.id /\ t.content = target.content
        /\ t.scan = {} /\ t.closed = {} /\ t.inserted = {}
    BY <2>2, NoneAssumption DEF Idle, Tx, Ops, PCs
  <2>4. \A d \in Clients : tx[d].op = "write" => tx[d].by # None
    BY NoneAssumption DEF StoreInv, NewIdentity
  <2> HIDE DEF t
  <2>5. RecordOK(c, t)
    BY <1>3, <2>1, <2>3, <2>4 DEF Revert, RecordOK
  <2>6. QED
    BY <1>3, <2>1, <2>5, LocalStep DEF Revert, t
<1>4. QED
  BY <1>1, <1>2, <1>3 DEF Begin

\* A statement that is not the INSERT keeps who the transaction works for; what
\* it changes is the rows it holds, the next revision, and where it is.
LEMMA StatementRecord ==
  ASSUME StoreInv, NEW c \in Clients, tx[c].pc # "commit",
         NEW t \in Tx,
         t.op = tx[c].op, t.target = tx[c].target, t.by = tx[c].by,
         t.content = tx[c].content, t.inserted = tx[c].inserted,
         t.pc \in {"read_live", "read_max"} => t.op = "revert",
         t.pc = "insert" => t.op \in {"write", "revert"},
         t.pc \in {"update", "scan", "commit"} => t.op # "none",
         t.pc = "commit" => t.op = "supersede",
         \A r \in t.scan \cup t.closed : r.live /\ r.id = t.target,
         t.closed \subseteq memories,
         \A d \in Clients \ {c} : t.closed \cap tx[d].closed = {},
         \/ t.next = tx[c].next
         \/ /\ t.op = "revert"
            /\ t.next \in Nat \ {0}
            /\ \A n \in 1..(t.next - 1) :
                 \E r \in memories : r.id = t.target /\ r.revision = n
  PROVE  RecordOK(c, t)
<1>1. RecordOK(c, tx[c])
  BY CurrentRecord
<1>2. t.inserted = {}
  BY <1>1 DEF RecordOK
<1>3. t.op = "write" => t.next = 1
  BY <1>1 DEF RecordOK
<1>4. t.op = "revert" =>
        /\ t.next \in Nat \ {0}
        /\ \A n \in 1..(t.next - 1) :
             \E r \in memories : r.id = t.target /\ r.revision = n
  BY <1>1 DEF RecordOK
<1>5. QED
  BY <1>1, <1>2, <1>3, <1>4 DEF RecordOK

LEMMA ReadStep ==
  ASSUME StoreInv, NEW c \in Clients, ReadLive(c) \/ ReadMax(c)
  PROVE  StoreInv'
<1>1. RecordOK(c, tx[c])
  BY CurrentRecord
<1>2. CASE ReadLive(c)
  <2>1. PICK before \in IF LiveRows(tx[c].target) = {} THEN {{}}
                       ELSE {{r} : r \in LiveRows(tx[c].target)} :
          tx' = [tx EXCEPT ![c].before = before, ![c].pc = "read_max"]
    BY <1>2 DEF ReadLive
  <2> DEFINE t == [tx[c] EXCEPT !.before = before, !.pc = "read_max"]
  <2>2. before \in SUBSET Row
    BY <2>1 DEF StoreInv, TypeOK, LiveRows, RowsOf
  <2>3. /\ t \in Tx
        /\ t.op = tx[c].op /\ t.target = tx[c].target /\ t.by = tx[c].by
        /\ t.content = tx[c].content /\ t.inserted = tx[c].inserted
        /\ t.scan = tx[c].scan /\ t.closed = tx[c].closed
        /\ t.next = tx[c].next /\ t.pc = "read_max"
    BY <1>1, <2>2 DEF RecordOK, Tx, PCs
  <2>4. tx' = [tx EXCEPT ![c] = t]
    BY <2>1 DEF StoreInv, TypeOK
  <2> HIDE DEF t
  <2>5. RecordOK(c, t)
    BY <1>1, <1>2, <2>3, StatementRecord DEF ReadLive, RecordOK
  <2>6. QED
    BY <1>2, <2>4, <2>5, LocalStep DEF ReadLive
<1>3. CASE ReadMax(c)
  <2>1. PICK last \in RowsOf(tx[c].target) :
          /\ \A r \in RowsOf(tx[c].target) : r.revision <= last.revision
          /\ tx' = [tx EXCEPT ![c].next = last.revision + 1,
                ![c].pc = IF tx[c].before = {} THEN "insert" ELSE "update"]
    BY <1>3 DEF ReadMax
  <2> DEFINE t == [tx[c] EXCEPT !.next = last.revision + 1,
                    !.pc = IF tx[c].before = {} THEN "insert" ELSE "update"]
  <2>2. /\ last.revision \in Nat \ {0}
        /\ last.revision + 1 \in Nat
        /\ \A n \in 1..last.revision :
             \E r \in memories : r.id = tx[c].target /\ r.revision = n
    BY <2>1 DEF StoreInv, TypeOK, RowsOf, Row, NoGaps
  <2>3. /\ t \in Tx
        /\ t.op = tx[c].op /\ t.target = tx[c].target /\ t.by = tx[c].by
        /\ t.content = tx[c].content /\ t.inserted = tx[c].inserted
        /\ t.scan = tx[c].scan /\ t.closed = tx[c].closed
        /\ t.next = last.revision + 1 /\ t.pc \in {"insert", "update"}
    <3>1. (IF tx[c].before = {} THEN "insert" ELSE "update") \in {"insert", "update"}
      OBVIOUS
    <3>2. QED
      BY <1>1, <2>2, <3>1 DEF RecordOK, Tx, PCs
  <2>4. tx' = [tx EXCEPT ![c] = t]
    BY <2>1, <1>1 DEF StoreInv, TypeOK, RecordOK, Tx
  <2> HIDE DEF t
  <2>5. t.next \in Nat \ {0} /\ t.next - 1 = last.revision
    BY <2>2, <2>3
  <2>6. RecordOK(c, t)
    BY <1>1, <1>3, <2>2, <2>3, <2>5, StatementRecord DEF ReadMax, RecordOK
  <2>7. QED
    BY <1>3, <2>4, <2>6, LocalStep DEF ReadMax
<1>4. QED
  BY <1>2, <1>3

LEMMA UpdateStep ==
  ASSUME StoreInv, NEW c \in Clients, BeginUpdate(c) \/ UpdateRow(c) \/ EndUpdate(c)
  PROVE  StoreInv'
<1>1. RecordOK(c, tx[c])
  BY CurrentRecord
<1>2. CASE BeginUpdate(c)
  <2> DEFINE t == [tx[c] EXCEPT !.scan = LiveRows(tx[c].target), !.pc = "scan"]
  <2>1. /\ LiveRows(tx[c].target) \subseteq Row
        /\ \A r \in LiveRows(tx[c].target) : r.live /\ r.id = tx[c].target
    BY DEF StoreInv, TypeOK, LiveRows, RowsOf
  <2>2. /\ t \in Tx
        /\ t.op = tx[c].op /\ t.target = tx[c].target /\ t.by = tx[c].by
        /\ t.content = tx[c].content /\ t.inserted = tx[c].inserted
        /\ t.scan = LiveRows(tx[c].target) /\ t.closed = tx[c].closed
        /\ t.next = tx[c].next /\ t.pc = "scan"
    BY <1>1, <2>1 DEF RecordOK, Tx, PCs
  <2>3. tx' = [tx EXCEPT ![c] = t]
    BY <1>2 DEF BeginUpdate, StoreInv, TypeOK
  <2> HIDE DEF t
  <2>4. RecordOK(c, t)
    BY <1>1, <1>2, <2>1, <2>2, StatementRecord DEF BeginUpdate, RecordOK
  <2>5. QED
    BY <1>2, <2>3, <2>4, LocalStep DEF BeginUpdate
<1>3. CASE UpdateRow(c)
  <2>1. PICK r \in tx[c].scan :
          /\ \A d \in Clients \ {c} : r \notin tx[d].closed
          /\ tx' = [tx EXCEPT ![c].scan = @ \ {r},
                ![c].closed = IF r \in memories THEN @ \cup {r} ELSE @]
    BY <1>3 DEF UpdateRow
  <2> DEFINE t == [tx[c] EXCEPT !.scan = @ \ {r},
                    !.closed = IF r \in memories THEN @ \cup {r} ELSE @]
  <2>2. /\ t \in Tx
        /\ t.op = tx[c].op /\ t.target = tx[c].target /\ t.by = tx[c].by
        /\ t.content = tx[c].content /\ t.inserted = tx[c].inserted
        /\ t.scan = tx[c].scan \ {r}
        /\ t.closed = IF r \in memories THEN tx[c].closed \cup {r} ELSE tx[c].closed
        /\ t.next = tx[c].next /\ t.pc = tx[c].pc
    BY <1>1 DEF RecordOK, Tx
  <2>3. tx' = [tx EXCEPT ![c] = t]
    BY <2>1 DEF StoreInv, TypeOK
  <2> HIDE DEF t
  <2>4. RecordOK(c, t)
    BY <1>1, <1>3, <2>1, <2>2, StatementRecord DEF UpdateRow, RecordOK
  <2>5. QED
    BY <1>3, <2>3, <2>4, LocalStep DEF UpdateRow
<1>4. CASE EndUpdate(c)
  <2> DEFINE pc == IF tx[c].op = "supersede" THEN "commit" ELSE "insert"
  <2>1. PICK before \in SUBSET Row :
          tx' = [tx EXCEPT ![c] = [tx[c] EXCEPT !.before = before, !.pc = pc]]
    <3>1. CASE tx[c].op = "revert" /\ tx' = [tx EXCEPT ![c].pc = "insert"]
      <4>1. tx' = [tx EXCEPT ![c] = [tx[c] EXCEPT !.before = tx[c].before, !.pc = "insert"]]
        BY <1>1, <3>1 DEF RecordOK, Tx, StoreInv, TypeOK
      <4>2. tx[c].before \in SUBSET Row
        BY <1>1 DEF RecordOK, Tx
      <4>3. QED
        BY <3>1, <4>1, <4>2
    <3>2. ASSUME tx[c].op # "revert", NEW r \in tx[c].closed,
                 tx' = [tx EXCEPT ![c].before = {r},
                          ![c].pc = IF tx[c].op = "write" THEN "insert" ELSE "commit"]
          PROVE  \E before \in SUBSET Row :
                   tx' = [tx EXCEPT ![c] = [tx[c] EXCEPT !.before = before, !.pc = pc]]
      <4>1. pc = IF tx[c].op = "write" THEN "insert" ELSE "commit"
        BY <1>1, <1>4, <3>2 DEF EndUpdate, RecordOK, Tx, Ops
      <4> HIDE DEF pc
      <4>2. tx' = [tx EXCEPT ![c] = [tx[c] EXCEPT !.before = {r}, !.pc = pc]]
        BY <3>2, <4>1 DEF StoreInv, TypeOK
      <4>3. {r} \in SUBSET Row
        BY <1>1, <3>2 DEF RecordOK, Tx
      <4>4. QED
        BY <4>2, <4>3
    <3>3. QED
      BY <1>4, <3>1, <3>2 DEF EndUpdate
  <2> DEFINE t == [tx[c] EXCEPT !.before = before, !.pc = pc]
  <2>2. /\ t \in Tx
        /\ t.op = tx[c].op /\ t.target = tx[c].target /\ t.by = tx[c].by
        /\ t.content = tx[c].content /\ t.inserted = tx[c].inserted
        /\ t.scan = tx[c].scan /\ t.closed = tx[c].closed
        /\ t.next = tx[c].next /\ t.pc = pc
    BY <1>1, <2>1 DEF RecordOK, Tx, PCs
  <2>3. tx' = [tx EXCEPT ![c] = t]
    BY <2>1
  <2> HIDE DEF t
  <2>4. RecordOK(c, t)
    BY <1>1, <1>4, <2>1, <2>2, StatementRecord DEF EndUpdate, RecordOK, Tx, Ops
  <2>5. QED
    BY <1>4, <2>3, <2>4, LocalStep DEF EndUpdate
<1>5. QED
  BY <1>2, <1>3, <1>4

LEMMA InsertStep ==
  ASSUME StoreInv, NEW c \in Clients, Insert(c)
  PROVE  StoreInv'
<1> DEFINE t == [tx[c] EXCEPT !.inserted = {NewRow(tx[c])}, !.pc = "commit"]
<1>1. RecordOK(c, tx[c])
  BY CurrentRecord
<1>2. tx[c].op \in {"write", "revert"}
  BY <1>1 DEF Insert, RecordOK
<1>3. NewRow(tx[c]) \in Row
  <2>1. CASE tx[c].op = "write"
    BY <1>1, <2>1 DEF NewRow, RecordOK, Row
  <2>2. CASE tx[c].op = "revert"
    BY <1>1, <2>2 DEF NewRow, RecordOK, Row, StoreInv, TypeOK
  <2>3. QED
    BY <1>2, <2>1, <2>2
<1>4. /\ t \in Tx
      /\ t.op = tx[c].op /\ t.target = tx[c].target /\ t.by = tx[c].by
      /\ t.content = tx[c].content /\ t.inserted = {NewRow(tx[c])}
      /\ t.scan = tx[c].scan /\ t.closed = tx[c].closed
      /\ t.next = tx[c].next /\ t.pc = "commit"
  BY <1>1, <1>3 DEF RecordOK, Tx, PCs
<1>5. tx' = [tx EXCEPT ![c] = t]
  BY DEF Insert, StoreInv, TypeOK
<1> HIDE DEF t
<1>6. NewRow(t) = NewRow(tx[c])
  BY <1>4 DEF NewRow
<1>7. \A r \in t.inserted :
        /\ \A s \in memories : ~SameKey(r, s)
        /\ \A d \in Clients \ {c} : \A s \in tx[d].inserted : ~SameKey(r, s)
  BY <1>4 DEF Insert, SameKey
<1>8. RecordOK(c, t)
  BY <1>1, <1>2, <1>4, <1>6, <1>7 DEF RecordOK
<1>9. QED
  BY <1>5, <1>8, LocalStep DEF Insert

\* The ways a transaction ends without effect.
LEMMA EndStep ==
  ASSUME StoreInv, NEW c \in Clients, NotFound(c) \/ DuplicateKey(c) \/ Rollback(c)
  PROVE  StoreInv'
  BY IdleRecord, LocalStep DEF NotFound, DuplicateKey, Rollback

\* A commit keeps every key and content of the table, and the keys it adds are new.
LEMMA CommitTable ==
  ASSUME StoreInv, NEW c \in Clients, Commit(c)
  PROVE  /\ memories' \subseteq Row
         /\ \A r \in memories : \E s \in memories' : SameKey(r, s) /\ r.content = s.content
         /\ \A r \in memories' \ tx[c].inserted :
              \E s \in memories : SameKey(r, s) /\ r.content = s.content
         /\ tx[c].inserted \subseteq memories'
         /\ tx[c].inserted \subseteq {NewRow(tx[c])}
         /\ tx[c].inserted # {} => tx[c].op \in {"write", "revert"}
         /\ \A d \in Clients \ {c} : tx[d].closed \subseteq memories'
<1> DEFINE by == IF tx[c].op = "revert" THEN None ELSE tx[c].by
<1>1. RecordOK(c, tx[c])
  BY CurrentRecord
<1>2. memories' = (memories \ tx[c].closed)
                    \cup {Close(r, by) : r \in tx[c].closed} \cup tx[c].inserted
  BY DEF Commit
<1>3. by \in Ids \cup {None}
  BY <1>1 DEF RecordOK, Tx
<1> HIDE DEF by
<1>4. \A r \in Row : Close(r, by) \in Row /\ SameKey(r, Close(r, by))
                      /\ SameKey(Close(r, by), r) /\ r.content = Close(r, by).content
  BY <1>3 DEF Close, Row, SameKey
<1>5. memories \subseteq Row /\ tx[c].inserted \subseteq Row /\ tx[c].closed \subseteq memories
  BY <1>1 DEF RecordOK, Tx, StoreInv, TypeOK
<1>6. memories' \subseteq Row
  BY <1>2, <1>4, <1>5
<1>7. \A r \in memories : \E s \in memories' : SameKey(r, s) /\ r.content = s.content
  BY <1>2, <1>4, <1>5 DEF SameKey
<1>8. \A r \in memories' \ tx[c].inserted :
        \E s \in memories : SameKey(r, s) /\ r.content = s.content
  BY <1>2, <1>4, <1>5 DEF SameKey
<1>9. /\ tx[c].inserted \subseteq {NewRow(tx[c])}
      /\ tx[c].inserted # {} => tx[c].op \in {"write", "revert"}
  BY <1>1 DEF RecordOK, Tx, Ops
<1>10. \A d \in Clients \ {c} : tx[d].closed \subseteq memories'
  BY <1>1, <1>2 DEF StoreInv, LocksAreLive
<1>11. QED
  BY <1>2, <1>6, <1>7, <1>8, <1>9, <1>10

\* What a commit closes it replaces: a write by the row it inserts, a revert by
\* the next revision, a supersede by a memory that was there.
LEMMA ReplacedAfterCommit ==
  ASSUME StoreInv, NEW c \in Clients, Commit(c)
  PROVE  ClosedIsReplaced'
<1> DEFINE by == IF tx[c].op = "revert" THEN None ELSE tx[c].by
<1>1. RecordOK(c, tx[c])
  BY CurrentRecord
<1>2. memories' = (memories \ tx[c].closed)
                    \cup {Close(r, by) : r \in tx[c].closed} \cup tx[c].inserted
  BY DEF Commit
<1>3. /\ tx[c].pc = "commit" /\ tx[c].op \in {"write", "supersede", "revert"}
      /\ tx[c].op # "supersede" => tx[c].inserted = {NewRow(tx[c])}
  BY <1>1 DEF Commit, RecordOK, Tx, Ops
<1>4. tx[c].op # "supersede" => NewRow(tx[c]) \in memories'
  BY <1>2, <1>3
<1>5. \A id : RowsOf(id) # {} => \E s \in memories' : s.id = id
  BY CommitTable DEF RowsOf, SameKey
<1> SUFFICES ASSUME NEW r \in memories', ~r.live
             PROVE  IF r.superseded_by = None
                    THEN \E s \in memories' : s.id = r.id /\ s.revision > r.revision
                    ELSE \E s \in memories' : s.id = r.superseded_by
  BY DEF ClosedIsReplaced, RowsOf
<1>6. CASE r \in memories
  BY <1>5, <1>6, CommitTable DEF StoreInv, ClosedIsReplaced, SameKey
<1>7. CASE r \in tx[c].inserted
  BY <1>1, <1>7, CommitTable DEF NewRow
<1>8. ASSUME NEW q \in tx[c].closed, r = Close(q, by)
      PROVE  IF r.superseded_by = None
             THEN \E s \in memories' : s.id = r.id /\ s.revision > r.revision
             ELSE \E s \in memories' : s.id = r.superseded_by
  <2>1. /\ q \in memories /\ q \in Row /\ q.id = tx[c].target
        /\ r.id = q.id /\ r.revision = q.revision /\ r.superseded_by = by
    BY <1>1, <1>8 DEF RecordOK, StoreInv, TypeOK, Row, Close
  <2>2. CASE tx[c].op = "write"
    <3>1. by = tx[c].by /\ by # None
      BY <1>1, <2>2, NoneAssumption DEF RecordOK
    <3>2. NewRow(tx[c]).id = by
      BY <2>2 DEF NewRow
    <3>3. QED
      BY <1>4, <2>1, <2>2, <3>1, <3>2
  <2>3. CASE tx[c].op = "supersede"
    <3>1. by = tx[c].by /\ by # None /\ RowsOf(by) # {}
      BY <1>1, <2>3, NoneAssumption DEF RecordOK
    <3>2. QED
      BY <1>5, <2>1, <3>1
  <2>4. CASE tx[c].op = "revert"
    <3>1. by = None
      BY <2>4
    <3>2. NewRow(tx[c]).id = q.id /\ NewRow(tx[c]).revision = tx[c].next
      BY <2>1, <2>4 DEF NewRow
    <3>3. tx[c].next \in Nat \ {0} /\ q.revision \in Nat
      BY <1>1, <2>1, <2>4 DEF RecordOK, Row
    <3>4. tx[c].next > q.revision
      <4> SUFFICES ASSUME ~(tx[c].next > q.revision) PROVE FALSE
        OBVIOUS
      <4>1. tx[c].next \in 1..q.revision
        BY <3>3
      <4>2. PICK s \in memories : s.id = q.id /\ s.revision = tx[c].next
        BY <2>1, <4>1 DEF StoreInv, NoGaps
      <4>3. SameKey(NewRow(tx[c]), s)
        BY <3>2, <4>2 DEF SameKey
      <4>4. QED
        BY <1>1, <1>3, <2>4, <4>3 DEF RecordOK
    <3>5. QED
      BY <1>4, <2>1, <2>4, <3>1, <3>2, <3>4
  <2>5. QED
    BY <1>3, <2>2, <2>3, <2>4
<1>9. QED
  BY <1>2, <1>6, <1>7, <1>8

LEMMA CommitStep ==
  ASSUME StoreInv, NEW c \in Clients, Commit(c)
  PROVE  StoreInv'
<1>1. RecordOK(c, tx[c]) /\ RecordOK(c, Idle)
  BY CurrentRecord, IdleRecord
<1>2. /\ tx' \in [Clients -> Tx]
      /\ \A d \in Clients : tx'[d] = IF d = c THEN Idle ELSE tx[d]
  BY <1>1 DEF Commit, StoreInv, TypeOK, RecordOK
<1>3. TypeOK'
  <2>1. AuditEntries(tx[c]) \subseteq AuditRow
    <3>1. tx[c].inserted \subseteq Row /\ tx[c].before \subseteq Row
      BY <1>1 DEF RecordOK, Tx
    <3>2. QED
      BY <3>1 DEF AuditEntries, AuditRow, Row
  <2>2. QED
    BY <1>2, <2>1, CommitTable DEF Commit, StoreInv, TypeOK
<1>4. OpAtPC'
  BY <1>1, <1>2 DEF StoreInv, OpAtPC, RecordOK
<1>5. LocksAreLive'
  BY <1>1, <1>2, CommitTable DEF StoreInv, LocksAreLive, RecordOK, Idle
<1>6. NewIdentity'
  <2> SUFFICES ASSUME NEW d \in Clients \ {c}, tx[d].op = "write"
               PROVE  \A r \in memories' : r.id # tx[d].by
    BY <1>1, <1>2, NoneAssumption DEF StoreInv, NewIdentity, RowsOf, Idle
  <2>1. tx[d].by \in Ids /\ RowsOf(tx[d].by) = {} /\ tx[c].by # tx[d].by
    BY DEF StoreInv, NewIdentity
  <2>2. \A r \in tx[c].inserted : r.id # tx[d].by
    <3>1. tx[c].op = "revert" => tx[c].target # tx[d].by
      BY <1>1, <2>1 DEF RecordOK, RowsOf
    <3>2. QED
      BY <2>1, <3>1, CommitTable DEF NewRow
  <2>3. QED
    BY <2>1, <2>2, CommitTable DEF RowsOf, SameKey
<1>7. RevertTarget'
  <2> SUFFICES ASSUME NEW d \in Clients \ {c}, tx[d].op = "revert"
               PROVE  /\ \E r \in memories' : r.id = tx[d].target /\ r.content = tx[d].content
                      /\ \A n \in 1..(tx[d].next - 1) :
                           \E r \in memories' : r.id = tx[d].target /\ r.revision = n
    BY <1>2 DEF StoreInv, RevertTarget, Idle
  <2>1. RecordOK(d, tx[d])
    BY CurrentRecord
  <2>2. QED
    BY <2>1, CommitTable DEF RecordOK, SameKey
<1>8. PendingInsert'
  <2> SUFFICES ASSUME NEW d \in Clients \ {c}
               PROVE  /\ tx[d].inserted = IF tx[d].pc = "commit" /\ tx[d].op # "supersede"
                                          THEN {NewRow(tx[d])} ELSE {}
                      /\ \A r \in tx[d].inserted :
                           /\ \A s \in memories' : ~SameKey(r, s)
                           /\ \A e \in Clients \ {c, d} : \A s \in tx[e].inserted : ~SameKey(r, s)
    <3>1. /\ Idle.inserted = {} /\ Idle.pc # "commit"
      BY DEF Idle
    <3>2. tx'[c] = Idle /\ \A d \in Clients \ {c} : tx'[d] = tx[d]
      BY <1>2
    <3>3. \A d, e \in Clients : d = c \/ e = c \/ e \in Clients \ {c, d} \/ e = d
      OBVIOUS
    <3>4. QED
      BY <3>1, <3>2, <3>3 DEF PendingInsert
  <2>1. RecordOK(d, tx[d])
    BY CurrentRecord
  <2>2. \A r \in tx[d].inserted : \A s \in memories' : ~SameKey(r, s)
    BY <2>1, CommitTable DEF RecordOK, SameKey
  <2>3. QED
    BY <2>1, <2>2 DEF RecordOK
<1>9. PrimaryKey'
  <2>1. \A r, s \in memories' \ tx[c].inserted : SameKey(r, s) => r = s
    <3>1. \A r, s \in Row : r \in memories /\ s \in memories /\ SameKey(r, s) => r = s
      BY DEF StoreInv, PrimaryKey
    <3> DEFINE by == IF tx[c].op = "revert" THEN None ELSE tx[c].by
    <3>2. \A r \in memories' \ tx[c].inserted :
            \E q \in memories : r = IF q \in tx[c].closed THEN Close(q, by) ELSE q
      BY <1>1 DEF Commit, RecordOK
    <3>3. \A q \in Row : SameKey(Close(q, by), q)
      BY DEF Close, SameKey, Row
    <3>4. \A r \in memories' \ tx[c].inserted : \E q \in memories :
            SameKey(q, r) /\ r = IF q \in tx[c].closed THEN Close(q, by) ELSE q
      BY <3>2, <3>3 DEF SameKey, StoreInv, TypeOK
    <3> HIDE DEF by
    <3>5. QED
      BY <3>4 DEF StoreInv, PrimaryKey, SameKey
  <2>2. \A r \in tx[c].inserted : \A s \in memories' \ tx[c].inserted : ~SameKey(r, s)
    BY <1>1, CommitTable DEF RecordOK, SameKey
  <2>3. \A r, s \in tx[c].inserted : r = s
    BY CommitTable
  <2>4. QED
    BY <2>1, <2>2, <2>3 DEF PrimaryKey, SameKey
<1>10. NoGaps'
  <2>1. \A r \in memories : \A n \in 1..r.revision :
          \E s \in memories' : s.id = r.id /\ s.revision = n
    BY CommitTable DEF StoreInv, NoGaps, SameKey
  <2>2. \A r \in tx[c].inserted : \A n \in 1..r.revision :
          \E s \in memories' : s.id = r.id /\ s.revision = n
    <3> SUFFICES ASSUME NEW r \in tx[c].inserted, NEW n \in 1..r.revision
                 PROVE  \E s \in memories' : s.id = r.id /\ s.revision = n
      OBVIOUS
    <3>1. r \in memories' /\ r = NewRow(tx[c]) /\ tx[c].op \in {"write", "revert"}
      BY CommitTable
    <3>2. CASE n = tx[c].next
      BY <3>1, <3>2 DEF NewRow
    <3>3. CASE n # tx[c].next
      <4>1. tx[c].op = "revert" /\ r.id = tx[c].target /\ n \in 1..(tx[c].next - 1)
        BY <1>1, <3>1, <3>3 DEF RecordOK, NewRow
      <4>2. QED
        BY <1>1, <4>1, CommitTable DEF RecordOK, SameKey
    <3>4. QED
      BY <3>2, <3>3
  <2>3. QED
    BY <2>1, <2>2, CommitTable DEF NoGaps, SameKey
<1>11. SupersededBy'
  <2> SUFFICES ASSUME NEW d \in Clients \ {c}, tx[d].op = "supersede"
               PROVE  tx[d].by \in Ids /\ RowsOf(tx[d].by)' # {}
    BY <1>2 DEF SupersededBy, Idle, RowsOf
  <2>1. tx[d].by \in Ids /\ RowsOf(tx[d].by) # {}
    BY DEF StoreInv, SupersededBy
  <2>2. PICK r \in memories : r.id = tx[d].by
    BY <2>1 DEF RowsOf
  <2>3. PICK s \in memories' : s.id = tx[d].by
    BY <2>2, CommitTable DEF SameKey
  <2>4. QED
    BY <1>2, <2>1, <2>3 DEF RowsOf
<1>12. ClosedIsReplaced'
  BY ReplacedAfterCommit
<1>13. QED
  BY <1>3, <1>4, <1>5, <1>6, <1>7, <1>8, <1>9, <1>10, <1>11, <1>12 DEF StoreInv

LEMMA StoreInvStep == StoreInv /\ [Next]_vars => StoreInv'
<1> SUFFICES ASSUME StoreInv, [Next]_vars
             PROVE  StoreInv'
  OBVIOUS
<1>1. CASE UNCHANGED vars
  <2>1. memories' = memories /\ audit' = audit /\ tx' = tx
    BY <1>1 DEF vars
  <2>2. TypeOK' /\ OpAtPC' /\ LocksAreLive' /\ NewIdentity' /\ RevertTarget'
    BY <2>1 DEF StoreInv, TypeOK, OpAtPC, LocksAreLive, NewIdentity, RevertTarget, RowsOf
  <2>3. PendingInsert'
    <3>1. \A c \in Clients : NewRow(tx'[c]) = NewRow(tx[c])
      BY <2>1
    <3>2. PendingInsert
      BY DEF StoreInv
    <3>3. \A c \in Clients :
            tx'[c].inserted = IF tx'[c].pc = "commit" /\ tx'[c].op # "supersede"
                              THEN {NewRow(tx'[c])} ELSE {}
      BY <2>1, <3>1, <3>2 DEF PendingInsert
    <3>4. \A c \in Clients : \A r \in tx'[c].inserted :
            /\ \A s \in memories' : ~SameKey(r, s)
            /\ \A d \in Clients \ {c} : \A s \in tx'[d].inserted : ~SameKey(r, s)
      BY <2>1, <3>2 DEF PendingInsert
    <3>5. QED
      BY <3>3, <3>4 DEF PendingInsert
  <2>4. PrimaryKey' /\ NoGaps' /\ ClosedIsReplaced' /\ SupersededBy'
    BY <2>1 DEF StoreInv, PrimaryKey, NoGaps, ClosedIsReplaced, SupersededBy, SameKey, RowsOf
  <2>5. QED
    BY <2>2, <2>3, <2>4 DEF StoreInv
<1>2. ASSUME NEW c \in Clients, Begin(c) \/ Statement(c) \/ Rollback(c)
      PROVE  StoreInv'
  BY <1>2, BeginStep, ReadStep, UpdateStep, InsertStep, EndStep, CommitStep DEF Statement
<1>3. QED
  BY <1>1, <1>2 DEF Next

\* However many clients write, supersede and revert at once: keys stay unique,
\* revisions have no gaps, what is closed is replaced, and locks are held once.
THEOREM StoreInvariant == Spec => []StoreInv
<1>1. Init => StoreInv
  BY NoneAssumption DEF Init, StoreInv, TypeOK, OpAtPC, LocksAreLive, NewIdentity,
     RevertTarget, SupersededBy, PendingInsert, PrimaryKey, NoGaps, ClosedIsReplaced, Idle, Tx,
     Ops, PCs
<1>2. QED
  BY <1>1, StoreInvStep, PTL DEF Spec

\* Every variable keeps its shape.
THEOREM TypeCorrect == Spec => []TypeOK
<1>1. StoreInv => TypeOK
  BY DEF StoreInv
<1>2. QED
  BY <1>1, StoreInvariant, PTL

\* No step deletes a row, edits one or reopens a closed window.
THEOREM AppendOnlyHolds == Spec => AppendOnly
<1> DEFINE Appends ==
      \A r \in memories :
        \/ r \in memories'
        \/ r.live /\ \E by \in Ids \cup {None} : Close(r, by) \in memories'
<1>1. StoreInv /\ [Next]_vars => [Appends]_vars
  <2> SUFFICES ASSUME StoreInv, NEW c \in Clients, Begin(c) \/ Statement(c) \/ Rollback(c)
               PROVE  Appends
    BY DEF Next
  <2>1. CASE Commit(c)
    <3>1. RecordOK(c, tx[c])
      BY CurrentRecord
    <3>2. QED
      BY <2>1, <3>1 DEF Commit, RecordOK, Tx
  <2>2. CASE memories' = memories
    BY <2>2
  <2>3. QED
    BY <2>1, <2>2 DEF Begin, Statement, Rollback, Write, Supersede, Revert, ReadLive,
       ReadMax, BeginUpdate, UpdateRow, EndUpdate, NotFound, Insert, DuplicateKey
<1>2. QED
  BY <1>1, StoreInvariant, PTL DEF Spec, AppendOnly

-----------------------------------------------------------------------------
\* With one client that reverts, nobody else adds a revision to the identity a
\* revert works on, so what it read about it stays true.

\* The identity a running write creates is not the target of a revert.
LEMMA WriteElsewhere ==
  ASSUME StoreInv, NEW c \in Clients, NEW d \in Clients,
         tx[c].op = "write", tx[d].op = "revert"
  PROVE  tx[c].by # tx[d].target
<1>1. RecordOK(c, tx[c]) /\ RecordOK(d, tx[d])
  BY CurrentRecord
<1>2. QED
  BY <1>1 DEF RecordOK, RowsOf

LEMMA LiveInvCommit ==
  ASSUME \A p, q \in Reverters : p = q,
         StoreInv, LiveInv, NEW c \in Clients, Commit(c)
  PROVE  LiveInv'
<1> DEFINE by == IF tx[c].op = "revert" THEN None ELSE tx[c].by
<1>1. RecordOK(c, tx[c])
  BY CurrentRecord
<1>2. memories' = (memories \ tx[c].closed)
                    \cup {Close(r, by) : r \in tx[c].closed} \cup tx[c].inserted
  BY DEF Commit
<1> HIDE DEF by
<1>3. \A r \in Row : Close(r, by).live = FALSE
  BY DEF Close, Row
<1>4. tx[c].closed \subseteq Row
  BY <1>1 DEF RecordOK, Tx
<1>5. \A r \in memories' : r.live => r \in memories \ tx[c].closed \/ r \in tx[c].inserted
  BY <1>2, <1>3, <1>4
<1>6. /\ tx[c].inserted \subseteq {NewRow(tx[c])}
      /\ tx[c].inserted # {} => tx[c].op \in {"write", "revert"}
  BY CommitTable
<1>7. RevertIsCurrent'
  <2>1. \A d \in Clients : tx'[d] = IF d = c THEN Idle ELSE tx[d]
    BY DEF Commit, StoreInv, TypeOK
  <2> SUFFICES ASSUME NEW d \in Clients \ {c}, tx[d].op = "revert"
               PROVE  /\ \A r \in memories' : r.id = tx[d].target /\ r.live => r \in memories
                      /\ \A r \in memories' : r.id = tx[d].target =>
                           \E s \in memories : SameKey(r, s)
    BY <2>1 DEF LiveInv, RevertIsCurrent, LiveRows, RowsOf, Idle, SameKey
  <2>2. tx[c].op # "revert"
    BY <1>1 DEF StoreInv, RevertTarget
  <2>3. \A r \in tx[c].inserted : r.id # tx[d].target
    BY <1>6, <2>2, WriteElsewhere DEF NewRow
  <2>4. QED
    BY <1>5, <2>3, CommitTable
<1>8. AtMostOneLive'
  <2>1. \A r \in memories \ tx[c].closed, s \in tx[c].inserted : r.live => r.id # s.id
    <3>1. CASE tx[c].op = "write"
      BY <1>1, <1>6, <3>1 DEF RecordOK, RowsOf, NewRow
    <3>2. CASE tx[c].op = "revert"
      BY <1>6, <3>2 DEF Commit, LiveInv, RevertIsCurrent, LiveRows, RowsOf, NewRow
    <3>3. QED
      BY <1>6, <3>1, <3>2
  <2>2. QED
    BY <1>5, <1>6, <2>1 DEF AtMostOneLive, LiveInv
<1>9. QED
  BY <1>7, <1>8 DEF LiveInv

LEMMA LiveInvStep ==
  ASSUME \A p, q \in Reverters : p = q, StoreInv, LiveInv, [Next]_vars
  PROVE  LiveInv'
<1>1. CASE UNCHANGED vars
  BY <1>1 DEF vars, LiveInv, RevertIsCurrent, AtMostOneLive, LiveRows, RowsOf
<1>2. ASSUME NEW c \in Clients, Begin(c) \/ Statement(c) \/ Rollback(c), ~Commit(c)
      PROVE  LiveInv'
  <2>1. memories' = memories /\ \A d \in Clients \ {c} : tx'[d] = tx[d]
    BY <1>2 DEF StoreInv, TypeOK, Begin, Statement, Rollback, Write, Supersede, Revert, ReadLive,
       ReadMax, BeginUpdate, UpdateRow, EndUpdate, NotFound, Insert, DuplicateKey
  <2>2. RecordOK(c, tx[c])
    BY CurrentRecord
  <2> DEFINE Current(t) ==
        /\ t.pc = "read_max" /\ t.before = {} => LiveRows(t.target) = {}
        /\ t.pc = "scan" => LiveRows(t.target) \subseteq t.scan \cup t.closed
        /\ t.pc \in {"insert", "commit"} => LiveRows(t.target) \subseteq t.closed
        /\ t.pc \in {"update", "scan", "insert", "commit"} =>
             \A r \in RowsOf(t.target) : r.revision < t.next
  <2>3. tx[c].op = "revert" => Current(tx[c])
    BY DEF LiveInv, RevertIsCurrent
  <2>4. tx'[c].op = "revert" => Current(tx'[c])
    <3>1. CASE Begin(c)
      <4>1. tx'[c].op = "revert" => tx'[c].pc = "read_live"
        <5>1. CASE Write(c)
          BY <5>1 DEF Write, Idle, StoreInv, TypeOK
        <5>2. CASE Supersede(c)
          BY <5>2 DEF Supersede, Idle, StoreInv, TypeOK
        <5>3. CASE Revert(c)
          BY <5>3 DEF Revert, Idle, StoreInv, TypeOK
        <5>4. QED
          BY <3>1, <5>1, <5>2, <5>3 DEF Begin
      <4>2. QED
        BY <4>1
    <3>2. CASE ReadLive(c)
      BY <2>2, <3>2 DEF ReadLive, StoreInv, TypeOK, RecordOK, Tx
    <3>3. CASE ReadMax(c)
      <4>1. PICK last \in RowsOf(tx[c].target) :
              /\ \A r \in RowsOf(tx[c].target) : r.revision <= last.revision
              /\ tx' = [tx EXCEPT ![c].next = last.revision + 1,
                    ![c].pc = IF tx[c].before = {} THEN "insert" ELSE "update"]
        BY <3>3 DEF ReadMax
      <4>2. \A r \in RowsOf(tx[c].target) : r.revision < last.revision + 1
        BY <4>1 DEF RowsOf, StoreInv, TypeOK, Row
      <4>3. /\ tx'[c].target = tx[c].target /\ tx'[c].op = tx[c].op
            /\ tx'[c].next = last.revision + 1
            /\ tx'[c].pc = IF tx[c].before = {} THEN "insert" ELSE "update"
        BY <4>1 DEF StoreInv, TypeOK, Tx
      <4>4. QED
        BY <2>3, <3>3, <4>2, <4>3 DEF ReadMax
    <3>4. CASE BeginUpdate(c)
      BY <2>2, <2>3, <3>4 DEF BeginUpdate, StoreInv, TypeOK, RecordOK, Tx
    <3>5. CASE UpdateRow(c)
      BY <2>2, <2>3, <3>5 DEF UpdateRow, StoreInv, TypeOK, RecordOK, Tx, LiveRows, RowsOf
    <3>6. CASE EndUpdate(c)
      <4>1. tx'[c].op = "revert" => tx' = [tx EXCEPT ![c].pc = "insert"] /\ tx[c].op = "revert"
        <5>1. ASSUME tx[c].op # "revert", NEW r \in tx[c].closed,
                     tx' = [tx EXCEPT ![c].before = {r},
                              ![c].pc = IF tx[c].op = "write" THEN "insert" ELSE "commit"]
              PROVE  tx'[c].op = tx[c].op
          BY <5>1 DEF StoreInv, TypeOK, Tx
        <5>2. QED
          BY <3>6, <5>1 DEF EndUpdate
      <4>2. QED
        BY <2>2, <2>3, <3>6, <4>1 DEF EndUpdate, StoreInv, TypeOK, RecordOK, Tx
    <3>7. CASE Insert(c)
      BY <2>2, <2>3, <3>7 DEF Insert, StoreInv, TypeOK, RecordOK, Tx
    <3>8. CASE NotFound(c) \/ DuplicateKey(c) \/ Rollback(c)
      BY <3>8 DEF NotFound, DuplicateKey, Rollback, Idle, StoreInv, TypeOK
    <3>9. QED
      BY <1>2, <3>1, <3>2, <3>3, <3>4, <3>5, <3>6, <3>7, <3>8 DEF Statement
  <2>5. QED
    BY <2>1, <2>4 DEF LiveInv, RevertIsCurrent, AtMostOneLive, LiveRows, RowsOf
<1>3. QED
  BY <1>1, <1>2, LiveInvCommit DEF Next

\* With a single client that reverts, whatever the writers and superseders do,
\* no identity ever has two revisions in force.
THEOREM OneLiveRevision ==
  ASSUME \A p, q \in Reverters : p = q
  PROVE  Spec => []AtMostOneLive
<1>1. Init => LiveInv
  BY DEF Init, LiveInv, RevertIsCurrent, AtMostOneLive, Idle
<1>2. StoreInv /\ LiveInv /\ [Next]_vars => LiveInv'
  BY LiveInvStep
<1>3. LiveInv => AtMostOneLive
  BY DEF LiveInv
<1>4. QED
  BY <1>1, <1>2, <1>3, StoreInvariant, PTL DEF Spec

-----------------------------------------------------------------------------
\* Refinement of VersionedMemory.

\* A supersede past its UPDATE holds a row it closes: it would have ended in
\* MemoryNotFound otherwise.
CloserHolds ==
  \A c \in Clients :
    \/ tx[c].op = "supersede" /\ tx[c].pc = "commit"
    \/ tx[c].op = "write" /\ tx[c].target # None /\ tx[c].pc \in {"insert", "commit"}
    => tx[c].closed # {}

LEMMA CloserHoldsStep ==
  ASSUME StoreInv, CloserHolds, [Next]_vars
  PROVE  CloserHolds'
<1>1. CASE UNCHANGED vars
  BY <1>1 DEF vars, CloserHolds
<1>2. ASSUME NEW c \in Clients, Begin(c) \/ Statement(c) \/ Rollback(c)
      PROVE  CloserHolds'
  <2>1. \A d \in Clients \ {c} : tx'[d] = tx[d]
    BY <1>2 DEF StoreInv, TypeOK, Begin, Statement, Rollback, Write, Supersede, Revert, ReadLive,
       ReadMax, BeginUpdate, UpdateRow, EndUpdate, NotFound, Insert, DuplicateKey, Commit
  <2>2. RecordOK(c, tx[c])
    BY CurrentRecord
  <2> DEFINE Holds(t) ==
        \/ t.op = "supersede" /\ t.pc = "commit"
        \/ t.op = "write" /\ t.target # None /\ t.pc \in {"insert", "commit"}
        => t.closed # {}
  <2>3. Holds(tx[c])
    BY DEF CloserHolds
  <2>4. Holds(tx'[c])
    <3>1. CASE Write(c)
      <4>1. PICK id \in Ids, content \in Contents, old \in Ids \cup {None} :
              tx' = [tx EXCEPT ![c] =
                [Idle EXCEPT !.op = "write", !.by = id, !.content = content,
                             !.target = old,
                             !.pc = IF old = None THEN "insert" ELSE "update"]]
        BY <3>1 DEF Write
      <4>2. /\ tx'[c].op = "write" /\ tx'[c].target = old
            /\ tx'[c].pc = IF old = None THEN "insert" ELSE "update"
        BY <4>1 DEF Idle, StoreInv, TypeOK
      <4>3. QED
        BY <4>2
    <3>2. CASE Supersede(c)
      BY <3>2 DEF Supersede, Idle, StoreInv, TypeOK
    <3>3. CASE Revert(c)
      BY <3>3 DEF Revert, Idle, StoreInv, TypeOK
    <3>4. CASE ReadLive(c) \/ ReadMax(c)
      <4>1. tx'[c].op = tx[c].op
        <5>1. ASSUME NEW b, tx' = [tx EXCEPT ![c].before = b, ![c].pc = "read_max"]
              PROVE  tx'[c].op = tx[c].op
          BY <5>1 DEF StoreInv, TypeOK, Tx
        <5>2. ASSUME NEW n, NEW pc, tx' = [tx EXCEPT ![c].next = n, ![c].pc = pc]
              PROVE  tx'[c].op = tx[c].op
          BY <5>2 DEF StoreInv, TypeOK, Tx
        <5>3. QED
          BY <3>4, <5>1, <5>2 DEF ReadLive, ReadMax
      <4>2. tx[c].op = "revert"
        BY <2>2, <3>4 DEF ReadLive, ReadMax, RecordOK
      <4>3. QED
        BY <4>1, <4>2
    <3>5. CASE BeginUpdate(c)
      BY <2>2, <3>5 DEF BeginUpdate, StoreInv, TypeOK, RecordOK, Tx
    <3>6. CASE UpdateRow(c)
      BY <2>2, <3>6 DEF UpdateRow, StoreInv, TypeOK, RecordOK, Tx
    <3>7. CASE EndUpdate(c)
      <4>1. CASE tx[c].op = "revert" /\ tx' = [tx EXCEPT ![c].pc = "insert"]
        BY <2>2, <4>1 DEF StoreInv, TypeOK, RecordOK, Tx
      <4>2. ASSUME tx[c].op # "revert", NEW r \in tx[c].closed,
                   tx' = [tx EXCEPT ![c].before = {r},
                            ![c].pc = IF tx[c].op = "write" THEN "insert" ELSE "commit"]
            PROVE  Holds(tx'[c])
        <5>1. tx'[c].closed = tx[c].closed
          BY <4>2 DEF StoreInv, TypeOK, Tx
        <5>2. QED
          BY <4>2, <5>1
      <4>3. QED
        BY <3>7, <4>1, <4>2 DEF EndUpdate
    <3>8. CASE Insert(c)
      BY <2>2, <2>3, <3>8 DEF Insert, StoreInv, TypeOK, RecordOK, Tx
    <3>9. CASE NotFound(c) \/ DuplicateKey(c) \/ Commit(c) \/ Rollback(c)
      BY <3>9 DEF NotFound, DuplicateKey, Commit, Rollback, Idle, StoreInv, TypeOK
    <3>10. QED
      BY <1>2, <3>1, <3>2, <3>3, <3>4, <3>5, <3>6, <3>7, <3>8, <3>9 DEF Begin, Statement
  <2> HIDE DEF Holds
  <2>5. QED
    BY <2>1, <2>4 DEF CloserHolds, Holds
<1>3. QED
  BY <1>1, <1>2 DEF Next

\* Whether an identity has a revision in force, and which, as Promise sees it.
LEMMA CurrentIs ==
  ASSUME AtMostOneLive, NEW r \in memories, r.live
  PROVE  /\ LiveRows(r.id) # {}
         /\ \A s \in LiveRows(r.id) : s = r
         /\ (CHOOSE s \in LiveRows(r.id) : TRUE) = r
  BY DEF AtMostOneLive, LiveRows, RowsOf

\* What a commit does to the revisions in force.
LEMMA CommitLive ==
  ASSUME StoreInv, NEW c \in Clients, Commit(c)
  PROVE  \A r : r \in memories' /\ r.live
                 <=> \/ r \in memories \ tx[c].closed /\ r.live
                     \/ r \in tx[c].inserted
<1>1. RecordOK(c, tx[c])
  BY CurrentRecord
<1>2. \A r \in Row : \A by : Close(r, by).live = FALSE
  BY DEF Close, Row
<1>3. \A r \in tx[c].inserted : r.live
  BY <1>1 DEF RecordOK, NewRow
<1>4. tx[c].closed \subseteq Row
  BY <1>1 DEF RecordOK, Tx
<1>5. QED
  BY <1>2, <1>3, <1>4 DEF Commit

Fact(r) == [id |-> r.id, revision |-> r.revision, content |-> r.content]

Facts(rows) == {Fact(r) : r \in rows}

InForce(id) == IF LiveRows(id) = {} THEN 0
               ELSE (CHOOSE r \in LiveRows(id) : TRUE).revision

\* The same revisions, plus the one inserted.
LEMMA CommitFacts ==
  ASSUME StoreInv, NEW c \in Clients, Commit(c)
  PROVE  Facts(memories') = Facts(memories) \cup Facts(tx[c].inserted)
<1>1. \A r, s : SameKey(r, s) /\ r.content = s.content => Fact(r) = Fact(s)
  BY DEF SameKey, Fact
<1>2. Facts(memories) \subseteq Facts(memories')
  BY <1>1, CommitTable DEF Facts
<1>3. Facts(memories' \ tx[c].inserted) \subseteq Facts(memories)
  BY <1>1, CommitTable DEF Facts
<1>4. QED
  BY <1>2, <1>3, CommitTable DEF Facts

\* A commit puts the inserted revision in force, takes the closed one out of
\* force, and leaves every other identity alone.
LEMMA CommitInForce ==
  ASSUME StoreInv, LiveInv, LiveInv', NEW c \in Clients, Commit(c), NEW id \in Ids
  PROVE  /\ tx[c].inserted # {} /\ id = NewRow(tx[c]).id => InForce(id)' = tx[c].next
         /\ tx[c].inserted = {} \/ id # NewRow(tx[c]).id =>
              InForce(id)' = IF tx[c].closed # {} /\ id = tx[c].target THEN 0 ELSE InForce(id)
<1>1. RecordOK(c, tx[c])
  BY CurrentRecord
<1>2. LiveRows(id)' = (LiveRows(id) \ tx[c].closed) \cup {r \in tx[c].inserted : r.id = id}
  BY CommitLive DEF LiveRows, RowsOf
<1>3. ASSUME tx[c].inserted # {}, id = NewRow(tx[c]).id
      PROVE  InForce(id)' = tx[c].next
  <2>1. NewRow(tx[c]) \in LiveRows(id)'
    BY <1>1, <1>2, <1>3 DEF RecordOK
  <2>2. \A r \in LiveRows(id)' : r = NewRow(tx[c])
    BY <2>1 DEF LiveInv, AtMostOneLive, LiveRows, RowsOf
  <2>3. NewRow(tx[c]).revision = tx[c].next
    BY DEF NewRow
  <2>4. QED
    BY <2>1, <2>2, <2>3 DEF InForce
<1>4. ASSUME tx[c].inserted = {} \/ id # NewRow(tx[c]).id, tx[c].closed # {}, id = tx[c].target
      PROVE  InForce(id)' = 0
  <2>1. \A r \in LiveRows(id) : r \in tx[c].closed
    BY <1>1, <1>4 DEF LiveInv, AtMostOneLive, LiveRows, RowsOf, RecordOK
  <2>2. LiveRows(id)' = {}
    BY <1>1, <1>2, <1>4, <2>1 DEF RecordOK
  <2>3. QED
    BY <2>2 DEF InForce
<1>5. ASSUME tx[c].inserted = {} \/ id # NewRow(tx[c]).id, tx[c].closed = {} \/ id # tx[c].target
      PROVE  InForce(id)' = InForce(id)
  <2>1. LiveRows(id) \cap tx[c].closed = {}
    BY <1>1, <1>5 DEF RecordOK, LiveRows, RowsOf
  <2>2. LiveRows(id)' = LiveRows(id)
    BY <1>1, <1>2, <1>5, <2>1 DEF RecordOK
  <2>3. QED
    BY <2>2 DEF InForce
<1>6. QED
  BY <1>3, <1>4, <1>5

\* A row that is in force gives its identity a current revision.
LEMMA LiveInForce ==
  ASSUME StoreInv, AtMostOneLive, NEW r \in memories, r.live
  PROVE  InForce(r.id) # 0
<1>1. InForce(r.id) = r.revision
  BY CurrentIs DEF InForce
<1>2. r.revision # 0
  BY DEF StoreInv, TypeOK, Row
<1>3. QED
  BY <1>1, <1>2

\* Each kind of commit is the step of that name in VersionedMemory.
LEMMA CommitRefines ==
  ASSUME StoreInv, LiveInv, LiveInv', CloserHolds, NEW c \in Clients, Commit(c)
  PROVE  Promise!Next
<1> DEFINE revs == Facts(memories)
           cur  == [id \in Ids |-> InForce(id)]
           new  == NewRow(tx[c])
<1>1. RecordOK(c, tx[c]) /\ tx[c].pc = "commit"
  BY CurrentRecord DEF Commit
<1>2. \A r \in memories : r.id \in Ids /\ r.content \in Contents /\ r.revision \in Nat \ {0}
  BY DEF StoreInv, TypeOK, Row
<1>3. /\ revs' = revs \cup Facts(tx[c].inserted)
      /\ cur' = [id \in Ids |-> InForce(id)']
  BY CommitFacts
<1>4. CASE tx[c].op = "write" /\ tx[c].target = None
  <2>0. PICK id \in Ids, text \in Contents : id = tx[c].by /\ text = tx[c].content
    BY <1>1, <1>4 DEF RecordOK
  <2>1. /\ tx[c].next = 1
        /\ tx[c].inserted = {new} /\ new.id = id
        /\ Fact(new) = [id |-> id, revision |-> 1, content |-> text]
    BY <1>1, <1>4, <2>0 DEF RecordOK, NewRow, Fact
  <2>2. {f \in revs : f.id = id} = {}
    BY <1>1, <1>4, <2>0 DEF RecordOK, RowsOf, Facts, Fact
  <2>3. revs' = revs \cup {[id |-> id, revision |-> 1, content |-> text]}
    BY <1>3, <2>1 DEF Facts
  <2>4. cur' = [cur EXCEPT ![id] = 1]
    <3>1. tx[c].closed = {}
      BY <1>1, <1>2, <1>4, NoneAssumption DEF RecordOK
    <3>2. \A i \in Ids : InForce(i)' = IF i = id THEN 1 ELSE InForce(i)
      BY <2>1, <3>1, CommitInForce
    <3>3. QED
      BY <1>3, <3>2
  <2>5. Promise!Create(id, text)
    BY <2>2, <2>3, <2>4 DEF Promise!Create, Promise!HistoryOf, Facts, Fact, InForce
  <2>6. QED
    BY <2>1, <2>5 DEF Promise!Next
<1>5. CASE tx[c].op = "write" /\ tx[c].target # None
  <2>0. PICK id \in Ids, old \in Ids, text \in Contents :
          id = tx[c].by /\ old = tx[c].target /\ text = tx[c].content
    BY <1>1, <1>5 DEF RecordOK, Tx
  <2>1. /\ tx[c].next = 1 /\ old # id
        /\ tx[c].inserted = {new} /\ new.id = id
        /\ Fact(new) = [id |-> id, revision |-> 1, content |-> text]
    BY <1>1, <1>5, <2>0 DEF RecordOK, NewRow, Fact
  <2>2. {f \in revs : f.id = id} = {}
    BY <1>1, <1>5, <2>0 DEF RecordOK, RowsOf, Facts, Fact
  <2>3. revs' = revs \cup {[id |-> id, revision |-> 1, content |-> text]}
    BY <1>3, <2>1 DEF Facts
  <2>4. tx[c].closed # {}
    BY <1>1, <1>5 DEF CloserHolds
  <2>5. InForce(old) # 0
    BY <1>1, <2>0, <2>4, LiveInForce DEF RecordOK, LiveInv
  <2>6. cur' = [cur EXCEPT ![id] = 1, ![old] = 0]
    <3>1. \A i \in Ids : InForce(i)' = IF i = id THEN 1 ELSE IF i = old THEN 0 ELSE InForce(i)
      BY <2>0, <2>1, <2>4, CommitInForce
    <3>2. QED
      BY <1>3, <2>1, <3>1
  <2>7. Promise!Replace(id, text, old)
    BY <2>1, <2>2, <2>3, <2>5, <2>6 DEF Promise!Replace, Promise!HistoryOf, Facts, Fact, InForce
  <2>8. QED
    BY <2>1, <2>5, <2>7 DEF Promise!Next
<1>6. CASE tx[c].op = "supersede"
  <2>0. tx[c].closed # {} /\ tx[c].inserted = {}
    BY <1>1, <1>6 DEF CloserHolds, RecordOK
  <2>1. PICK id \in Ids : id = tx[c].target
    BY <1>1, <1>2, <2>0 DEF RecordOK
  <2>2. InForce(id) # 0
    BY <1>1, <2>0, <2>1, LiveInForce DEF RecordOK, LiveInv
  <2>3. revs' = revs
    BY <1>3, <2>0 DEF Facts
  <2>4. cur' = [cur EXCEPT ![id] = 0]
    <3>1. \A i \in Ids : InForce(i)' = IF i = id THEN 0 ELSE InForce(i)
      BY <2>0, <2>1, CommitInForce
    <3>2. QED
      BY <1>3, <3>1
  <2>5. Promise!Supersede(id)
    BY <2>2, <2>3, <2>4 DEF Promise!Supersede, Facts, Fact, InForce
  <2>6. QED
    BY <2>2, <2>5 DEF Promise!Next
<1>7. CASE tx[c].op = "revert"
  <2>0. PICK id \in Ids : id = tx[c].target
    BY <1>1, <1>2, <1>7 DEF RecordOK
  <2>1. PICK to \in memories : to.id = id /\ to.content = tx[c].content
    BY <1>1, <1>7, <2>0 DEF RecordOK
  <2>2. \A r \in memories : r.id = id => r.revision < tx[c].next
    BY <1>1, <1>7, <2>0 DEF LiveInv, RevertIsCurrent, RowsOf
  <2>3. PICK last \in memories : last.id = id /\ last.revision + 1 = tx[c].next
    <3>1. tx[c].next - 1 \in 1..(tx[c].next - 1)
      BY <1>1, <1>2, <1>7, <2>1, <2>2 DEF RecordOK
    <3>2. tx[c].next \in Nat
      BY <1>1 DEF RecordOK, Tx
    <3>3. QED
      BY <1>1, <1>7, <2>0, <3>1, <3>2 DEF RecordOK
  <2>4. /\ tx[c].inserted = {new} /\ new.id = id
        /\ Fact(new) = [id |-> id, revision |-> last.revision + 1, content |-> to.content]
    BY <1>1, <1>7, <2>0, <2>1, <2>3 DEF RecordOK, NewRow, Fact
  <2>5. revs' = revs \cup {[id |-> id, revision |-> last.revision + 1, content |-> to.content]}
    BY <1>3, <2>4 DEF Facts
  <2>6. cur' = [cur EXCEPT ![id] = last.revision + 1]
    <3>1. \A i \in Ids : i # new.id => i # tx[c].target
      BY <2>0, <2>4
    <3>2. \A i \in Ids : InForce(i)' = IF i = id THEN last.revision + 1 ELSE InForce(i)
      BY <2>3, <2>4, <3>1, CommitInForce
    <3>3. QED
      BY <1>3, <3>2
  <2>7. /\ Fact(to) \in revs /\ Fact(to).id = id /\ Fact(to).content = to.content
        /\ Fact(last) \in revs /\ Fact(last).id = id /\ Fact(last).revision = last.revision
    BY <2>1, <2>3 DEF Facts, Fact
  <2>8. \A f \in revs : f.id = id => f.revision <= last.revision
    BY <1>2, <2>2, <2>3 DEF Facts, Fact
  <2>9. Promise!Revert(id)
    <3>1. /\ Fact(to) \in Promise!HistoryOf(id) /\ Fact(last) \in Promise!HistoryOf(id)
          /\ \A f \in Promise!HistoryOf(id) : f.revision <= Fact(last).revision
      BY <2>7, <2>8 DEF Promise!HistoryOf, Facts, Fact
    <3>2. revs' = revs \cup
            {[id |-> id, revision |-> Fact(last).revision + 1, content |-> Fact(to).content]}
      BY <2>5, <2>7
    <3>3. cur' = [cur EXCEPT ![id] = Fact(last).revision + 1]
      BY <2>6, <2>7
    <3>4. PICK a, b \in Promise!HistoryOf(id) :
            /\ \A f \in Promise!HistoryOf(id) : f.revision <= b.revision
            /\ revs' = revs \cup {[id |-> id, revision |-> b.revision + 1, content |-> a.content]}
            /\ cur' = [cur EXCEPT ![id] = b.revision + 1]
      BY <3>1, <3>2, <3>3
    <3>5. QED
      BY <3>4 DEF Promise!Revert, Facts, Fact, InForce
  <2>10. QED
    BY <2>4, <2>9 DEF Promise!Next
<1>8. QED
  BY <1>1, <1>4, <1>5, <1>6, <1>7 DEF RecordOK, Tx, Ops

\* With a single client that reverts, every behaviour of the transactions is a
\* behaviour of the atomic operations: what VersionedMemory promises holds.
THEOREM StoreRefines ==
  ASSUME \A p, q \in Reverters : p = q
  PROVE  Spec => ImplementsPromise
<1>1. Init => LiveInv /\ CloserHolds /\ Promise!Init
  BY DEF Init, LiveInv, RevertIsCurrent, AtMostOneLive, CloserHolds, Idle, Promise!Init,
     LiveRows, RowsOf
<1>2. StoreInv /\ LiveInv /\ [Next]_vars => LiveInv'
  BY LiveInvStep
<1>3. StoreInv /\ CloserHolds /\ [Next]_vars => CloserHolds'
  BY CloserHoldsStep
<1>4. StoreInv /\ LiveInv /\ LiveInv' /\ CloserHolds /\ [Next]_vars
        => [Promise!Next]_(Promise!absVars)
  <2> SUFFICES ASSUME StoreInv, LiveInv, LiveInv', CloserHolds, [Next]_vars
               PROVE  Promise!Next \/ UNCHANGED Promise!absVars
    OBVIOUS
  <2>1. CASE memories' = memories
    BY <2>1 DEF Promise!absVars, LiveRows, RowsOf
  <2>2. CASE \E c \in Clients : Commit(c)
    BY <2>2, CommitRefines
  <2>3. QED
    BY <2>1, <2>2 DEF Next, vars, Begin, Statement, Rollback, Write, Supersede, Revert, ReadLive,
       ReadMax, BeginUpdate, UpdateRow, EndUpdate, NotFound, Insert, DuplicateKey
<1>5. QED
  BY <1>1, <1>2, <1>3, <1>4, StoreInvariant, PTL DEF Spec, ImplementsPromise, Promise!Spec

-----------------------------------------------------------------------------
(* What the store's tables owe their readers: revisions without a gap,    *)
(* a replacement of what is closed, and an audit trail of every revision and, where one       *)
(* client reverts, of every window closed.                                 *)

\* Any revision up to the newest can be reverted to (revert's SELECT of the
\* target revision, and its max(revision) + 1).
THEOREM RevisionsHaveNoGaps == Spec => []NoGaps
<1>1. StoreInv => NoGaps
  BY DEF StoreInv
<1>2. QED
  BY <1>1, StoreInvariant, PTL

\* However the transactions of any clients interleave, fail or are cut off, no
\* window is closed without its replacement in the table (write, _close_window,
\* supersede, revert).
THEOREM EveryCloseReplaced == Spec => []ClosedIsReplaced
<1>1. StoreInv => ClosedIsReplaced
  BY DEF StoreInv
<1>2. QED
  BY <1>1, StoreInvariant, PTL

-----------------------------------------------------------------------------
\* A step other than a commit leaves the tables alone.
LEMMA QuietStep ==
  ASSUME [Next]_vars, ~\E c \in Clients : Commit(c)
  PROVE  UNCHANGED <<memories, audit>>
  BY DEF Next, vars, Begin, Statement, Rollback, Write, Supersede, Revert, ReadLive, ReadMax,
     BeginUpdate, UpdateRow, EndUpdate, NotFound, Insert, DuplicateKey

\* What a revert inserts is not the first revision: that one is taken.
LEMMA InsertedOp ==
  ASSUME StoreInv, NEW c \in Clients, tx[c].pc = "commit", NEW r \in tx[c].inserted
  PROVE  IF r.revision = 1 THEN tx[c].op = "write" ELSE tx[c].op = "revert"
<1>1. RecordOK(c, tx[c])
  BY CurrentRecord
<1>2. r = NewRow(tx[c]) /\ r.revision = tx[c].next /\ tx[c].op \in {"write", "revert"}
  BY <1>1 DEF RecordOK, NewRow, Tx, Ops
<1>3. CASE tx[c].op = "write"
  BY <1>1, <1>2, <1>3 DEF RecordOK
<1>4. CASE tx[c].op = "revert"
  <2>1. r.id = tx[c].target
    BY <1>2, <1>4 DEF NewRow
  <2>2. PICK s \in memories : s.id = r.id
    BY <1>1, <1>4, <2>1 DEF RecordOK
  <2>3. \E q \in memories : q.id = r.id /\ q.revision = 1
    BY <2>2 DEF StoreInv, NoGaps, TypeOK, Row
  <2>4. r.revision # 1
    BY <1>1, <2>3 DEF RecordOK, SameKey
  <2>5. QED
    BY <1>4, <2>4
<1>5. QED
  BY <1>2, <1>3, <1>4

LEMMA RevisionAuditedCommit ==
  ASSUME StoreInv, EveryRevisionAudited, NEW c \in Clients, Commit(c)
  PROVE  EveryRevisionAudited'
<1> SUFFICES ASSUME NEW r \in memories'
             PROVE  \E e \in audit' :
                      SameKey(e, r) /\ e.op = IF r.revision = 1 THEN "create" ELSE "revert"
  BY DEF EveryRevisionAudited
<1>1. audit \subseteq audit' /\ AuditEntries(tx[c]) \subseteq audit' /\ tx[c].pc = "commit"
  BY DEF Commit
<1>2. CASE r \in tx[c].inserted
  <2> DEFINE e == [id |-> r.id, revision |-> r.revision,
                   op |-> IF tx[c].op = "revert" THEN "revert" ELSE "create",
                   before |-> IF tx[c].op = "revert" THEN tx[c].before ELSE {}]
  <2>1. e \in audit'
    BY <1>1, <1>2 DEF AuditEntries
  <2>2. SameKey(e, r) /\ e.op = IF tx[c].op = "revert" THEN "revert" ELSE "create"
    BY DEF SameKey
  <2>3. e.op = IF r.revision = 1 THEN "create" ELSE "revert"
    BY <1>1, <1>2, <2>2, InsertedOp
  <2> HIDE DEF e
  <2>4. QED
    BY <2>1, <2>2, <2>3
<1>3. CASE r \notin tx[c].inserted
  <2>1. PICK s \in memories : SameKey(r, s)
    BY <1>3, CommitTable
  <2>2. PICK e \in audit : SameKey(e, s) /\ e.op = IF s.revision = 1 THEN "create" ELSE "revert"
    BY DEF EveryRevisionAudited
  <2>3. QED
    BY <1>1, <2>1, <2>2 DEF SameKey
<1>4. QED
  BY <1>2, <1>3

\* Whoever wrote a revision left an audit row for it, however many clients
\* there are (_audit within the transaction of write and revert).
THEOREM RevisionsAreAudited == Spec => []EveryRevisionAudited
<1>1. Init => EveryRevisionAudited
  BY DEF Init, EveryRevisionAudited
<1>2. StoreInv /\ EveryRevisionAudited /\ [Next]_vars => EveryRevisionAudited'
  <2> SUFFICES ASSUME StoreInv, EveryRevisionAudited, [Next]_vars
               PROVE  EveryRevisionAudited'
    OBVIOUS
  <2>1. CASE \E c \in Clients : Commit(c)
    BY <2>1, RevisionAuditedCommit
  <2>2. CASE ~\E c \in Clients : Commit(c)
    BY <2>2, QuietStep DEF EveryRevisionAudited
  <2>3. QED
    BY <2>1, <2>2
<1>3. QED
  BY <1>1, <1>2, StoreInvariant, PTL DEF Spec

-----------------------------------------------------------------------------
\* What a transaction t is about to close is what its audit row will name: a
\* revert's live row is the one it read, for no other comes into force, and the
\* UPDATE of the others closes one row.
Names(t) ==
  /\ t.op = "none" => t.pc = "idle"
  /\ t.pc = "read_live" => t.scan = {} /\ t.closed = {}
  /\ t.op = "revert" /\ t.pc # "read_live" =>
       LiveRows(t.target) \cup t.scan \cup t.closed \subseteq t.before
  /\ t.op \in {"write", "supersede"} /\ t.pc \in {"insert", "commit"} => t.closed \subseteq t.before

BeforeNames == \A c \in Clients : Names(tx[c])

LEMMA IdleNames == Names(Idle)
  BY DEF Names, Idle

\* A client's own step, up to its commit.
LEMMA NamesOwn ==
  ASSUME StoreInv, AtMostOneLive, NEW c \in Clients, Names(tx[c]),
         Begin(c) \/ Statement(c) \/ Rollback(c), ~Commit(c)
  PROVE  \E t \in Tx : tx' = [tx EXCEPT ![c] = t] /\ Names(t)
<1>1. RecordOK(c, tx[c]) /\ tx[c] \in Tx
  BY CurrentRecord DEF RecordOK
<1>2. Idle \in Tx
  BY IdleRecord DEF RecordOK
<1>3. CASE Begin(c)
  <2>1. CASE Write(c)
    <3>1. PICK id \in Ids, content \in Contents, old \in Ids \cup {None} :
            tx' = [tx EXCEPT ![c] =
              [Idle EXCEPT !.op = "write", !.by = id, !.content = content, !.target = old,
                           !.pc = IF old = None THEN "insert" ELSE "update"]]
      BY <2>1 DEF Write
    <3> DEFINE t == [Idle EXCEPT !.op = "write", !.by = id, !.content = content,
                                 !.target = old,
                                 !.pc = IF old = None THEN "insert" ELSE "update"]
    <3>2. t \in Tx
      BY <1>2 DEF Tx, Ops, PCs
    <3>3. Names(t)
      BY DEF Names, Idle
    <3>4. QED
      BY <3>1, <3>2, <3>3
  <2>2. CASE Supersede(c)
    <3>1. PICK id \in Ids, by \in Ids :
            tx' = [tx EXCEPT ![c] = [Idle EXCEPT !.op = "supersede", !.pc = "update",
                                                 !.target = id, !.by = by]]
      BY <2>2 DEF Supersede
    <3> DEFINE t == [Idle EXCEPT !.op = "supersede", !.pc = "update", !.target = id, !.by = by]
    <3>2. t \in Tx
      BY <1>2 DEF Tx, Ops, PCs
    <3>3. Names(t)
      BY DEF Names, Idle
    <3>4. QED
      BY <3>1, <3>2, <3>3
  <2>3. CASE Revert(c)
    <3>1. PICK target \in memories :
            tx' = [tx EXCEPT ![c] = [Idle EXCEPT !.op = "revert", !.pc = "read_live",
                                                 !.target = target.id, !.content = target.content]]
      BY <2>3 DEF Revert
    <3> DEFINE t == [Idle EXCEPT !.op = "revert", !.pc = "read_live",
                                 !.target = target.id, !.content = target.content]
    <3>2. t \in Tx
      BY <1>2 DEF StoreInv, TypeOK, Row, Tx, Ops, PCs
    <3>3. Names(t)
      BY DEF Names, Idle
    <3>4. QED
      BY <3>1, <3>2, <3>3
  <2>4. QED
    BY <1>3, <2>1, <2>2, <2>3 DEF Begin
<1>4. CASE ReadLive(c)
  <2>1. PICK before \in IF LiveRows(tx[c].target) = {} THEN {{}}
                       ELSE {{r} : r \in LiveRows(tx[c].target)} :
          tx' = [tx EXCEPT ![c].before = before, ![c].pc = "read_max"]
    BY <1>4 DEF ReadLive
  <2> DEFINE t == [tx[c] EXCEPT !.before = before, !.pc = "read_max"]
  <2>2. before \in SUBSET Row /\ LiveRows(tx[c].target) \subseteq before
    BY <2>1 DEF StoreInv, TypeOK, LiveRows, RowsOf, AtMostOneLive
  <2>3. /\ t \in Tx /\ t.op = tx[c].op /\ t.pc = "read_max" /\ t.before = before
        /\ t.target = tx[c].target /\ t.scan = tx[c].scan /\ t.closed = tx[c].closed
    BY <1>1, <2>2 DEF Tx, PCs
  <2>4. tx[c].op = "revert" /\ tx[c].scan = {} /\ tx[c].closed = {}
    BY <1>1, <1>4 DEF ReadLive, RecordOK, Names
  <2>5. tx' = [tx EXCEPT ![c] = t]
    BY <2>1 DEF StoreInv, TypeOK
  <2> HIDE DEF t
  <2>6. Names(t)
    BY <2>2, <2>3, <2>4 DEF Names
  <2>7. QED
    BY <2>3, <2>5, <2>6
<1>5. CASE ReadMax(c)
  <2>1. PICK last \in RowsOf(tx[c].target) :
          tx' = [tx EXCEPT ![c].next = last.revision + 1,
                ![c].pc = IF tx[c].before = {} THEN "insert" ELSE "update"]
    BY <1>5 DEF ReadMax
  <2> DEFINE t == [tx[c] EXCEPT !.next = last.revision + 1,
                    !.pc = IF tx[c].before = {} THEN "insert" ELSE "update"]
  <2>2. last.revision + 1 \in Nat
    BY DEF StoreInv, TypeOK, RowsOf, Row
  <2>3. (IF tx[c].before = {} THEN "insert" ELSE "update") \in {"insert", "update"}
    OBVIOUS
  <2>4. /\ t \in Tx /\ t.op = tx[c].op /\ t.pc \in {"insert", "update"}
        /\ t.before = tx[c].before /\ t.target = tx[c].target
        /\ t.scan = tx[c].scan /\ t.closed = tx[c].closed
    BY <1>1, <2>2, <2>3 DEF Tx, PCs
  <2>5. tx[c].op = "revert" /\ tx[c].pc = "read_max"
    BY <1>1, <1>5 DEF ReadMax, RecordOK
  <2>6. tx' = [tx EXCEPT ![c] = t]
    BY <2>1 DEF StoreInv, TypeOK
  <2> HIDE DEF t
  <2>7. Names(t)
    BY <2>4, <2>5 DEF Names
  <2>8. QED
    BY <2>4, <2>6, <2>7
<1>6. CASE BeginUpdate(c)
  <2> DEFINE t == [tx[c] EXCEPT !.scan = LiveRows(tx[c].target), !.pc = "scan"]
  <2>1. LiveRows(tx[c].target) \subseteq Row
    BY DEF StoreInv, TypeOK, LiveRows, RowsOf
  <2>2. /\ t \in Tx /\ t.op = tx[c].op /\ t.pc = "scan" /\ t.before = tx[c].before
        /\ t.target = tx[c].target /\ t.scan = LiveRows(tx[c].target)
        /\ t.closed = tx[c].closed
    BY <1>1, <2>1 DEF Tx, PCs
  <2>3. tx[c].pc = "update" /\ tx[c].op # "none"
    BY <1>1, <1>6 DEF BeginUpdate, RecordOK
  <2>4. tx' = [tx EXCEPT ![c] = t]
    BY <1>6 DEF BeginUpdate, StoreInv, TypeOK
  <2> HIDE DEF t
  <2>5. Names(t)
    BY <2>2, <2>3 DEF Names
  <2>6. QED
    BY <2>2, <2>4, <2>5
<1>7. CASE UpdateRow(c)
  <2>1. PICK r \in tx[c].scan :
          tx' = [tx EXCEPT ![c].scan = @ \ {r},
                ![c].closed = IF r \in memories THEN @ \cup {r} ELSE @]
    BY <1>7 DEF UpdateRow
  <2> DEFINE t == [tx[c] EXCEPT !.scan = @ \ {r},
                    !.closed = IF r \in memories THEN @ \cup {r} ELSE @]
  <2>2. /\ t \in Tx /\ t.op = tx[c].op /\ t.pc = tx[c].pc /\ t.before = tx[c].before
        /\ t.target = tx[c].target /\ t.scan \subseteq tx[c].scan
        /\ t.closed \subseteq tx[c].closed \cup {r}
    BY <1>1 DEF Tx
  <2>3. tx[c].pc = "scan" /\ tx[c].op # "none"
    BY <1>7 DEF UpdateRow, Names
  <2>4. tx' = [tx EXCEPT ![c] = t]
    BY <2>1 DEF StoreInv, TypeOK
  <2> HIDE DEF t
  <2>5. Names(t)
    BY <2>2, <2>3 DEF Names
  <2>6. QED
    BY <2>2, <2>4, <2>5
<1>8. CASE EndUpdate(c)
  <2>1. CASE tx[c].op = "revert"
    <3> DEFINE t == [tx[c] EXCEPT !.pc = "insert"]
    <3>1. /\ t \in Tx /\ t.op = tx[c].op /\ t.pc = "insert" /\ t.before = tx[c].before
          /\ t.target = tx[c].target /\ t.scan = tx[c].scan /\ t.closed = tx[c].closed
      BY <1>1 DEF Tx, PCs
    <3>2. tx' = [tx EXCEPT ![c] = t] /\ tx[c].pc = "scan"
      BY <1>8, <2>1 DEF EndUpdate, StoreInv, TypeOK
    <3> HIDE DEF t
    <3>3. Names(t)
      BY <2>1, <3>1, <3>2 DEF Names
    <3>4. QED
      BY <3>1, <3>2, <3>3
  <2>2. CASE tx[c].op # "revert"
    <3>1. PICK r \in tx[c].closed :
            tx' = [tx EXCEPT ![c].before = {r},
                     ![c].pc = IF tx[c].op = "write" THEN "insert" ELSE "commit"]
      BY <1>8, <2>2 DEF EndUpdate
    <3> DEFINE t == [tx[c] EXCEPT !.before = {r},
                       !.pc = IF tx[c].op = "write" THEN "insert" ELSE "commit"]
    <3>2. \A s \in tx[c].closed : s = r
      BY <1>1 DEF RecordOK, AtMostOneLive
    <3>3. {r} \in SUBSET Row
      BY <1>1 DEF Tx
    <3>4. (IF tx[c].op = "write" THEN "insert" ELSE "commit") \in {"insert", "commit"}
      OBVIOUS
    <3>5. /\ t \in Tx /\ t.op = tx[c].op /\ t.pc \in {"insert", "commit"}
          /\ t.before = {r} /\ t.closed = tx[c].closed
      BY <1>1, <3>3, <3>4 DEF Tx, PCs
    <3>6. tx' = [tx EXCEPT ![c] = t] /\ tx[c].op # "none"
      BY <1>8, <3>1 DEF EndUpdate, Names, StoreInv, TypeOK
    <3> HIDE DEF t
    <3>7. Names(t)
      BY <2>2, <3>2, <3>5, <3>6 DEF Names
    <3>8. QED
      BY <3>5, <3>6, <3>7
  <2>3. QED
    BY <2>1, <2>2
<1>9. CASE Insert(c)
  <2> DEFINE t == [tx[c] EXCEPT !.inserted = {NewRow(tx[c])}, !.pc = "commit"]
  <2>1. tx' = [tx EXCEPT ![c] = t] /\ tx[c].pc = "insert"
    BY <1>9 DEF Insert, StoreInv, TypeOK
  <2>2. StoreInv'
    BY <1>9, InsertStep
  <2>3. t = tx'[c] /\ t \in Tx
    BY <2>1, <2>2 DEF StoreInv, TypeOK
  <2>4. /\ t.op = tx[c].op /\ t.pc = "commit" /\ t.before = tx[c].before
        /\ t.target = tx[c].target /\ t.scan = tx[c].scan /\ t.closed = tx[c].closed
    BY <1>1 DEF Tx
  <2> HIDE DEF t
  <2>5. Names(t)
    BY <2>1, <2>4 DEF Names
  <2>6. QED
    BY <2>1, <2>3, <2>5
<1>10. CASE NotFound(c) \/ DuplicateKey(c) \/ Rollback(c)
  BY <1>2, <1>10, IdleNames DEF NotFound, DuplicateKey, Rollback
<1>11. QED
  BY <1>3, <1>4, <1>5, <1>6, <1>7, <1>8, <1>9, <1>10 DEF Statement

\* Nobody else brings a revision of a revert's memory into force.
LEMMA NamesOthers ==
  ASSUME \A p, q \in Reverters : p = q,
         StoreInv, NEW c \in Clients, Commit(c), NEW d \in Clients \ {c},
         tx[d].op = "revert"
  PROVE  LiveRows(tx[d].target)' \subseteq LiveRows(tx[d].target)
<1>1. tx'[d] = tx[d] /\ RecordOK(c, tx[c])
  BY CurrentRecord DEF Commit, StoreInv, TypeOK
<1>2. tx[c].op # "revert"
  BY DEF StoreInv, RevertTarget
<1>3. \A r \in tx[c].inserted : r.id # tx[d].target
  <2>1. \A r \in tx[c].inserted : tx[c].op = "write" /\ r.id = tx[c].by
    BY <1>1, <1>2 DEF RecordOK, NewRow, Commit, Tx, Ops
  <2>2. QED
    BY <2>1, WriteElsewhere
<1>4. \A r \in memories' : r.live => r \in memories \/ r \in tx[c].inserted
  BY CommitLive
<1>5. QED
  BY <1>1, <1>3, <1>4 DEF LiveRows, RowsOf

LEMMA NamesStep ==
  ASSUME \A p, q \in Reverters : p = q,
         StoreInv, AtMostOneLive, BeforeNames, [Next]_vars
  PROVE  BeforeNames'
<1>1. CASE UNCHANGED vars
  BY <1>1 DEF vars, BeforeNames, Names, LiveRows, RowsOf
<1>2. ASSUME NEW c \in Clients, Begin(c) \/ Statement(c) \/ Rollback(c), ~Commit(c)
      PROVE  BeforeNames'
  <2>1. PICK t \in Tx : tx' = [tx EXCEPT ![c] = t] /\ Names(t)
    BY <1>2, NamesOwn DEF BeforeNames
  <2>2. memories' = memories
    BY <1>2 DEF Begin, Statement, Rollback, Write, Supersede, Revert, ReadLive, ReadMax,
       BeginUpdate, UpdateRow, EndUpdate, NotFound, Insert, DuplicateKey
  <2>3. \A d \in Clients : tx'[d] = IF d = c THEN t ELSE tx[d]
    BY <2>1 DEF StoreInv, TypeOK
  <2>4. QED
    BY <2>1, <2>2, <2>3 DEF BeforeNames, Names, LiveRows, RowsOf
<1>3. ASSUME NEW c \in Clients, Commit(c)
      PROVE  BeforeNames'
  <2>1. \A d \in Clients : tx'[d] = IF d = c THEN Idle ELSE tx[d]
    BY <1>3 DEF Commit, StoreInv, TypeOK
  <2>2. ASSUME NEW d \in Clients PROVE Names(tx[d])'
    <3>1. CASE d = c
      BY <2>1, <3>1 DEF Names, Idle
    <3>2. CASE d # c
      <4>1. tx[d].op = "revert" => LiveRows(tx[d].target)' \subseteq LiveRows(tx[d].target)
        BY <1>3, <3>2, NamesOthers
      <4>2. tx'[d] = tx[d] /\ Names(tx[d])
        BY <2>1, <3>2 DEF BeforeNames
      <4>3. QED
        BY <4>1, <4>2 DEF Names
    <3>3. QED
      BY <3>1, <3>2
  <2>3. QED
    BY <2>2 DEF BeforeNames
<1>4. QED
  BY <1>1, <1>2, <1>3 DEF Next

LEMMA CloseAuditedCommit ==
  ASSUME StoreInv, BeforeNames, EveryCloseAudited, NEW c \in Clients, Commit(c)
  PROVE  EveryCloseAudited'
<1>1. RecordOK(c, tx[c]) /\ tx[c].pc = "commit"
  BY CurrentRecord DEF Commit
<1>2. audit \subseteq audit' /\ AuditEntries(tx[c]) \subseteq audit'
  BY DEF Commit
<1>3. tx[c].closed \subseteq tx[c].before
  BY <1>1 DEF BeforeNames, Names, RecordOK, Tx, Ops
<1>4. ASSUME NEW r \in tx[c].closed
      PROVE  \E e \in audit' : e.id = r.id /\ \E b \in e.before : SameKey(b, r)
  <2>1. CASE tx[c].op = "revert"
    <3> DEFINE new == NewRow(tx[c])
               e == [id |-> new.id, revision |-> new.revision,
                     op |-> IF tx[c].op = "revert" THEN "revert" ELSE "create",
                     before |-> IF tx[c].op = "revert" THEN tx[c].before ELSE {}]
    <3>1. new \in tx[c].inserted /\ new.id = tx[c].target /\ r.id = tx[c].target
      BY <1>1, <1>4, <2>1 DEF RecordOK, NewRow
    <3>2. e \in AuditEntries(tx[c])
      BY <3>1 DEF AuditEntries
    <3>3. e.id = r.id /\ r \in e.before
      BY <1>3, <1>4, <2>1, <3>1
    <3> HIDE DEF e
    <3>4. QED
      BY <1>2, <3>2, <3>3 DEF SameKey
  <2>2. CASE tx[c].op # "revert"
    <3> DEFINE e == [id |-> r.id, revision |-> r.revision, op |-> "supersede", before |-> {r}]
    <3>1. e \in AuditEntries(tx[c])
      BY <1>3, <1>4, <2>2 DEF AuditEntries
    <3>2. e.id = r.id /\ r \in e.before
      OBVIOUS
    <3> HIDE DEF e
    <3>3. QED
      BY <1>2, <3>1, <3>2 DEF SameKey
  <2>3. QED
    BY <2>1, <2>2
<1>5. ASSUME NEW r \in memories', ~r.live
      PROVE  \E e \in audit' : e.id = r.id /\ \E b \in e.before : SameKey(b, r)
  <2>1. CASE r \in memories
    BY <1>2, <1>5, <2>1 DEF EveryCloseAudited
  <2>2. CASE r \in tx[c].inserted
    <3>1. r = NewRow(tx[c])
      BY <1>1, <2>2 DEF RecordOK
    <3>2. QED
      BY <1>5, <3>1 DEF NewRow
  <2>3. CASE r \notin memories /\ r \notin tx[c].inserted
    <3>1. PICK s \in tx[c].closed :
            r = Close(s, IF tx[c].op = "revert" THEN None ELSE tx[c].by)
      BY <2>3 DEF Commit
    <3>2. s \in Row
      BY <1>1 DEF RecordOK, Tx
    <3>3. r.id = s.id /\ r.revision = s.revision
      BY <3>1, <3>2 DEF Close, Row
    <3>4. QED
      BY <1>4, <3>3 DEF SameKey
  <2>4. QED
    BY <2>1, <2>2, <2>3
<1>6. QED
  BY <1>5 DEF EveryCloseAudited

\* With a single client that reverts, the trail of a memory says why each of its
\* windows was closed (_audit in write, supersede and revert).  With two, a
\* revert's UPDATE may close a revision its audit row does not name.
THEOREM ClosesAreAudited ==
  ASSUME \A p, q \in Reverters : p = q
  PROVE  Spec => []EveryCloseAudited
<1>1. Init => BeforeNames /\ EveryCloseAudited
  BY DEF Init, BeforeNames, Names, EveryCloseAudited, Idle
<1>2. StoreInv /\ AtMostOneLive /\ BeforeNames /\ [Next]_vars => BeforeNames'
  BY NamesStep
<1>3. StoreInv /\ BeforeNames /\ EveryCloseAudited /\ [Next]_vars => EveryCloseAudited'
  <2> SUFFICES ASSUME StoreInv, BeforeNames, EveryCloseAudited, [Next]_vars
               PROVE  EveryCloseAudited'
    OBVIOUS
  <2>1. CASE \E c \in Clients : Commit(c)
    BY <2>1, CloseAuditedCommit
  <2>2. CASE ~\E c \in Clients : Commit(c)
    BY <2>2, QuietStep DEF EveryCloseAudited
  <2>3. QED
    BY <2>1, <2>2
<1>4. Spec => []AtMostOneLive
  BY OneLiveRevision
<1>5. QED
  BY <1>1, <1>2, <1>3, <1>4, StoreInvariant, PTL DEF Spec
=============================================================================
