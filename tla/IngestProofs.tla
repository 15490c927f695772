---------------------------- MODULE IngestProofs ----------------------------
(***************************************************************************)
(* Proofs about Ingest, for any items, files and number of runs, any       *)
(* changes on GitHub and a crash anywhere: children are not older than     *)
(* their item, a whole run has stored all that held still, and leaves the  *)
(* index a copy of its tree.                                               *)
(***************************************************************************)
EXTENDS Ingest, SequenceLemmas, FiniteSetTheorems

\* Changes are numbered in their order, and a listing has nothing newer than
\* GitHub.
Numbered ==
  /\ run.began <= now
  /\ \A x \in Items :
       /\ gh[x].updated <= now
       /\ gh[x].updated # 0 => gh[x].text \in Texts(x)
  /\ \A p \in run.page : p.number \in run.kind /\ p.updated <= gh[p.number].updated
  /\ run.pc = "store" => run.page # {}

\* What has been fetched for an item is not older than it.
Fetched ==
  /\ ChildrenNotOlder
  /\ \A c \in cache : c.children >= c.updated
  /\ run.pc = "store" => run.children >= Newest(run.page).updated

\* What has not changed since the run began; what the table has as GitHub has
\* it; what the listing has yet to store.
Stable(x) == gh[x].updated \in 1..run.began

Caught(x) == rows[x].updated = gh[x].updated /\ rows[x].text = gh[x].text

Coming(x) ==
  \/ x \in run.kind /\ (gh[x].updated < run.cursor \/ \E p \in run.page : p.number = x)
  \/ x \in Issues /\ run.kind = PRs

IsListing == run.pc \in {"list", "store"}

HasListed == run.pc \in {"link", "build", "compare", "write", "mark", "complete"}

Catching ==
  /\ \A p \in run.page : Stable(p.number) =>
       p.updated = gh[p.number].updated /\ p.text = gh[p.number].text
  /\ run.mode = "full" => \A x \in Items : Stable(x) =>
       /\ IsListing => Caught(x) \/ Coming(x)
       /\ HasListed => Caught(x)

\* What a whole run produces is the corpus, and what it is done with is stored.
Indexing ==
  run.mode = "full" =>
    /\ run.pc \in {"compare", "write", "mark", "complete"} =>
         \A id \in Ids : run.produced[id] =
           IF id \in Docs THEN run.sha[id]
           ELSE IF rows[id].text = "closed" THEN rows[id].updated ELSE 0
    /\ run.pc = "write" =>
         \A id \in Ids \ run.pending : run.produced[id] # 0 => chunks[id] = run.produced[id]
    /\ run.pc \in {"mark", "complete"} /\ (\E id \in Ids : run.produced[id] # 0) =>
         \A id \in Ids : chunks[id] = run.produced[id]

IngestInv == TypeOK /\ Numbered /\ Fetched /\ Catching /\ Indexing

-----------------------------------------------------------------------------
LEMMA LastIsNat == LastChange \in Nat /\ Cardinality(Items) \in 0..LastChange /\ MaxChanges \in Nat
PROOF
<1>1. Cardinality(Items) \in Nat
  BY ItemsAssumption, FS_CardinalityType
<1> QED
  BY <1>1, BoundsAssumption DEF LastChange

LEMMA Ranges ==
  /\ 0 \in 0..LastChange /\ LastChange + 1 \in 1..(LastChange + 1)
  /\ \A n \in 1..LastChange : n \in 0..LastChange /\ n \in 1..(LastChange + 1)
PROOF
  BY LastIsNat

\* The newest of a page is on it.
LEMMA NewestIsListed ==
  ASSUME NEW page \in SUBSET Payload, page # {}
  PROVE  /\ Newest(page) \in page
         /\ \A q \in page : q.updated <= Newest(page).updated
PROOF
<1> DEFINE U == {p.updated : p \in page}
<1>1. \A p \in page : p.updated \in 1..LastChange
  BY DEF Payload
<1>2. U \in SUBSET Nat /\ U # {} /\ \A u \in U : u <= LastChange
  BY <1>1, LastIsNat
<1>3. PICK u \in U : \A v \in U : v <= u
  BY <1>2, LastIsNat, Greatest
<1>4. PICK p \in page : p.updated = u
  OBVIOUS
<1>5. \A q \in page : q.updated <= p.updated
  BY <1>3, <1>4
<1> QED
  BY <1>5 DEF Newest

\* What a payload has.
LEMMA PayloadFields ==
  ASSUME NEW p \in Payload
  PROVE  p.number \in Items /\ p.updated \in 1..LastChange /\ p.text \in Texts(p.number)
PROOF
  BY DEF Payload

-----------------------------------------------------------------------------
(* Types.                                                                  *)

\* A run is still one with a field of it changed.
LEMMA RunExcept ==
  ASSUME NEW r \in Run
  PROVE  /\ \A v \in {"idle", "list", "store", "link", "build", "compare", "write", "mark",
                      "partial", "complete"} : [r EXCEPT !.pc = v] \in Run
         /\ \A v \in {"full", "limit", "facts"} : [r EXCEPT !.mode = v] \in Run
         /\ \A v \in {PRs, Issues} : [r EXCEPT !.kind = v] \in Run
         /\ \A v \in 0..LastChange : [r EXCEPT !.began = v] \in Run
         /\ \A v \in [Docs -> 0..LastChange] : [r EXCEPT !.sha = v] \in Run
         /\ \A v \in 1..(LastChange + 1) : [r EXCEPT !.cursor = v] \in Run
         /\ \A v \in SUBSET Payload : [r EXCEPT !.page = v] \in Run
         /\ \A v \in 0..LastChange : [r EXCEPT !.children = v] \in Run
         /\ \A v \in [Issues -> PRs \cup {None}] : [r EXCEPT !.closing = v] \in Run
         /\ \A v \in [Ids -> 0..LastChange] : [r EXCEPT !.produced = v] \in Run
         /\ \A v \in SUBSET Ids : [r EXCEPT !.pending = v] \in Run
PROOF
  BY DEF Run

LEMMA ChildrenRun ==
  ASSUME NEW r \in Run, NEW c \in 0..LastChange
  PROVE  [r EXCEPT !.pc = "store", !.children = c] \in Run
PROOF
<1>1. [r EXCEPT !.pc = "store"] \in Run
  BY RunExcept
<1> QED
  BY <1>1, RunExcept

LEMMA ListedIsRun ==
  ASSUME NEW r \in Run
  PROVE  Listed(r) \in Run
PROOF
<1>1. [r EXCEPT !.pc = "list"] \in Run /\ [r EXCEPT !.pc = "link"] \in Run
  BY RunExcept
<1>2. [r EXCEPT !.pc = "list", !.kind = Issues] \in Run
  BY <1>1, RunExcept
<1>3. [r EXCEPT !.pc = "list", !.kind = Issues, !.cursor = LastChange + 1] \in Run
  BY <1>2, RunExcept, Ranges
<1>4. [r EXCEPT !.pc = "list", !.kind = Issues, !.cursor = LastChange + 1, !.page = {}] \in Run
  BY <1>3, RunExcept
<1>5. [r EXCEPT !.pc = "link", !.page = {}] \in Run
  BY <1>1, RunExcept
<1> QED
  BY <1>4, <1>5 DEF Listed

LEMMA FreshIsRun == Fresh \in Run
PROOF
  BY LastIsNat DEF Fresh, Run

LEMMA TypeInit == Init => TypeOK
PROOF
<1> SUFFICES ASSUME Init PROVE TypeOK
  OBVIOUS
<1>1. now \in 0..LastChange
  BY LastIsNat DEF Init
<1>2. gh \in [Items -> [updated : 0..LastChange, text : UNION {Texts(x) : x \in Items}]]
  BY LastIsNat DEF Init
<1>3. rows \in [Items -> Row]
  BY LastIsNat DEF Init, Row
<1> QED
  BY <1>1, <1>2, <1>3, FreshIsRun, LastIsNat, BoundsAssumption DEF Init, TypeOK

LEMMA TypeStep == TypeOK /\ Numbered /\ [Next]_vars => TypeOK'
PROOF
<1> SUFFICES ASSUME TypeOK, Numbered, [Next]_vars PROVE TypeOK'
  OBVIOUS
<1> USE LastIsNat
<1>0. run \in Run
  BY DEF TypeOK
<1>1. ASSUME NEW x \in Items, Edit(x) PROVE TypeOK'
  <2>1. PICK text \in Texts(x) : gh' = [gh EXCEPT ![x] = [updated |-> now', text |-> text]]
    BY <1>1 DEF Edit
  <2>2. now' \in 0..LastChange
    BY <1>1 DEF Edit, TypeOK
  <2>3. [updated |-> now', text |-> text] \in [updated : 0..LastChange, text : UNION {Texts(y) : y \in Items}]
    BY <2>2
  <2>4. gh' \in [Items -> [updated : 0..LastChange, text : UNION {Texts(y) : y \in Items}]]
    BY <2>1, <2>3 DEF TypeOK
  <2> QED
    BY <1>1, <2>2, <2>4 DEF Edit, TypeOK
<1>2. ASSUME NEW d \in Docs, Push(d) PROVE TypeOK'
  BY <1>2 DEF Push, TypeOK
<1>3. CASE Start
  <2>1. PICK mode \in {"full", "limit", "facts"} :
          run' = [Fresh EXCEPT !.pc = "list", !.mode = mode, !.began = now, !.sha = tree]
    BY <1>3 DEF Start
  <2>2. run' \in Run
    BY <2>1, FreshIsRun, RunExcept DEF TypeOK
  <2> QED
    BY <1>3, <2>2, BoundsAssumption DEF Start, TypeOK
<1>4. CASE ListPage
  <2> DEFINE left == {x \in run.kind : gh[x].updated \in 1..(run.cursor - 1)}
  <2>1. run.kind \subseteq Items
    BY DEF TypeOK, Run, Items
  <2>2. CASE left = {}
    <3>1. run' = Listed(run)
      BY <1>4, <2>2 DEF ListPage
    <3>2. Listed(run) \in Run
      BY <1>0, ListedIsRun
    <3> QED
      BY <1>4, <3>1, <3>2 DEF ListPage, TypeOK
  <2>3. CASE left # {}
    <3> DEFINE cut(last) == {[number |-> x, updated |-> gh[x].updated, text |-> gh[x].text] :
                               x \in {y \in left : gh[y].updated >= gh[last].updated}}
    <3>1. PICK last \in left :
            run' = [run EXCEPT !.cursor = gh[last].updated, !.page = cut(last)]
      BY <1>4, <2>3 DEF ListPage
    <3>2. \A x \in left : [number |-> x, updated |-> gh[x].updated, text |-> gh[x].text] \in Payload
      BY <2>1 DEF Payload, Numbered, TypeOK
    <3>3. cut(last) \subseteq Payload
      BY <3>2
    <3>4. gh[last].updated \in 1..(LastChange + 1)
      BY <2>1 DEF TypeOK
    <3> HIDE DEF cut
    <3>5. run' \in Run
      BY <3>1, <3>3, <3>4 DEF TypeOK, Run
    <3> QED
      BY <1>4, <3>5 DEF ListPage, TypeOK
  <2> QED
    BY <2>2, <2>3
<1>5. CASE FetchChildren
  <2> DEFINE p == Newest(run.page)
  <2>1. run.page \in SUBSET Payload /\ run.page # {}
    BY <1>5 DEF FetchChildren, TypeOK, Run
  <2>2. p \in run.page
    BY <2>1, NewestIsListed
  <2>3. p.number \in Items /\ p.updated \in 1..LastChange
    BY <2>1, <2>2, PayloadFields
  <2>4. CASE run.kind = Issues
    <3>1. run' = [run EXCEPT !.pc = "store", !.children = p.updated] /\ UNCHANGED cache
      BY <1>5, <2>4 DEF FetchChildren
    <3> HIDE DEF p
    <3>2. run' \in Run
      BY <1>0, <2>3, <3>1, ChildrenRun, Ranges
    <3> QED
      BY <1>5, <3>1, <3>2 DEF FetchChildren, TypeOK
  <2>5. CASE run.kind # Issues
    <3>1. run.kind = PRs /\ p.number \in PRs
      BY <2>2, <2>5 DEF TypeOK, Run, Numbered
    <3> DEFINE hit == {c \in cache : c.number = p.number /\ c.updated = p.updated}
    <3>2. PICK children \in IF hit = {} THEN {gh[p.number].updated} ELSE {c.children : c \in hit} :
            /\ run' = [run EXCEPT !.pc = "store", !.children = children]
            /\ cache' = cache \cup {[number |-> p.number, updated |-> p.updated, children |-> children]}
      BY <1>5, <2>5 DEF FetchChildren
    <3>3. children \in 1..LastChange
      <4>1. gh[p.number].updated \in 1..LastChange
        BY <2>2, <2>3 DEF Numbered, TypeOK
      <4>2. \A c \in hit : c.children \in 1..LastChange
        BY DEF TypeOK
      <4> QED
        BY <4>1, <4>2
    <3> HIDE DEF p
    <3>4. run' \in Run
      BY <1>0, <3>2, <3>3, ChildrenRun, Ranges
    <3>5. cache' \subseteq [number : PRs, updated : 1..LastChange, children : 1..LastChange]
      BY <2>3, <3>1, <3>2, <3>3 DEF TypeOK
    <3> QED
      BY <1>5, <3>4, <3>5 DEF FetchChildren, TypeOK
  <2> QED
    BY <2>4, <2>5
<1>6. CASE Store
  <2> DEFINE p == Newest(run.page)
  <2>1. run.page \in SUBSET Payload /\ run.page # {}
    BY <1>6 DEF Store, Numbered, TypeOK, Run
  <2>2. p \in run.page /\ p \in Payload
    BY <2>1, NewestIsListed
  <2>3. p.number \in Items /\ p.updated \in 1..LastChange /\ p.text \in Texts(p.number)
    BY <2>2, PayloadFields
  <2> DEFINE closing == [i \in Issues |-> IF run.kind = PRs /\ p.text = i THEN p.number ELSE run.closing[i]]
             rest == [run EXCEPT !.pc = "list", !.page = @ \ {p}, !.children = 0, !.closing = closing]
  <2>4. rows' = [rows EXCEPT ![p.number] =
                   [updated |-> p.updated, text |-> p.text, children |-> run.children]]
    BY <1>6 DEF Store
  <2>5. run' = IF run.mode = "limit" THEN Listed(rest) ELSE rest
    BY <1>6 DEF Store
  <2>6. run.kind = PRs => p.number \in PRs
    BY <2>2 DEF Numbered
  <2> HIDE DEF p
  <2>7. closing \in [Issues -> PRs \cup {None}]
    BY <2>6 DEF TypeOK, Run
  <2> HIDE DEF closing
  <2>8. rest \in Run
    <3>1. run.page \ {p} \in SUBSET Payload
      BY <2>1
    <3> QED
      <4>1. [run EXCEPT !.pc = "list"] \in Run
        BY <1>0, RunExcept
      <4>2. [run EXCEPT !.pc = "list", !.page = run.page \ {p}] \in Run
        BY <4>1, <3>1, RunExcept
      <4>3. [run EXCEPT !.pc = "list", !.page = run.page \ {p}, !.children = 0] \in Run
        BY <4>2, RunExcept, Ranges
      <4> QED
        BY <4>3, <2>7, RunExcept
  <2>9. Listed(rest) \in Run
    BY <2>8, ListedIsRun
  <2> HIDE DEF rest
  <2>10. [updated |-> p.updated, text |-> p.text, children |-> run.children] \in Row
    BY <2>3 DEF TypeOK, Run, Row
  <2>11. rows' \in [Items -> Row]
    BY <2>4, <2>10 DEF TypeOK
  <2> QED
    BY <1>6, <2>5, <2>8, <2>9, <2>11 DEF Store, TypeOK
<1>7. CASE Link
  <2>1. closed_by_pr' \in [Issues -> PRs \cup {None}]
    BY <1>7 DEF Link, TypeOK
  <2>2. run' \in Run
    BY <1>7, RunExcept DEF Link, TypeOK
  <2> QED
    BY <1>7, <2>1, <2>2 DEF Link, TypeOK
<1>8. CASE Build
  <2>1. PICK closed \in SUBSET {i \in Issues : rows[i].text = "closed"} :
          run' = [run EXCEPT
            !.produced = [id \in Ids |->
               IF id \in Docs THEN run.sha[id] ELSE IF id \in closed THEN rows[id].updated ELSE 0],
            !.pc = "compare"]
    BY <1>8 DEF Build
  <2>2. \A i \in Issues : rows[i].updated \in 0..LastChange
    BY DEF TypeOK, Row, Items
  <2>3. [id \in Ids |-> IF id \in Docs THEN run.sha[id]
                        ELSE IF id \in closed THEN rows[id].updated ELSE 0] \in [Ids -> 0..LastChange]
    BY <2>2 DEF TypeOK, Run
  <2>4. run' \in Run
    BY <2>1, <2>3, RunExcept DEF TypeOK
  <2> QED
    BY <1>8, <2>4 DEF Build, TypeOK
<1>9. CASE Compare
  BY <1>9 DEF Compare, TypeOK, Run
<1>10. CASE WriteBatch
  <2>1. PICK id \in run.pending :
          /\ chunks' = [chunks EXCEPT ![id] = run.produced[id]]
          /\ run' = [run EXCEPT !.pending = @ \ {id}]
    BY <1>10 DEF WriteBatch
  <2>2. run.pending \ {id} \in SUBSET Ids /\ run.produced[id] \in 0..LastChange
    BY DEF TypeOK, Run
  <2>3. run' \in Run
    BY <2>1, <2>2, RunExcept DEF TypeOK
  <2>4. chunks' \in [Ids -> 0..LastChange]
    BY <2>1, <2>2 DEF TypeOK
  <2> QED
    BY <1>10, <2>3, <2>4 DEF WriteBatch, TypeOK
<1>11. CASE Prune
  BY <1>11 DEF Prune, TypeOK, Run
<1>12. CASE Complete
  BY <1>12 DEF Complete, TypeOK, Run
<1>13. CASE Crash
  BY <1>13 DEF Crash, Fresh, TypeOK, Run
<1>14. CASE UNCHANGED vars
  BY <1>14 DEF vars, TypeOK
<1> QED
  BY <1>1, <1>2, <1>3, <1>4, <1>5, <1>6, <1>7, <1>8, <1>9, <1>10, <1>11, <1>12, <1>13, <1>14 DEF Next

-----------------------------------------------------------------------------
(* Every action preserves the rest.                                        *)

Rest == Numbered /\ Fetched /\ Catching /\ Indexing

LEMMA ItemFields ==
  ASSUME TypeOK
  PROVE  /\ \A x \in Items : gh[x].updated \in 0..LastChange /\ rows[x].updated \in 0..LastChange
         /\ now \in 0..LastChange /\ run.began \in 0..LastChange
         /\ run.page \in SUBSET Payload
         /\ \A p \in run.page : p.number \in Items /\ p.updated \in 1..LastChange
PROOF
<1>1. \A x \in Items : gh[x].updated \in 0..LastChange /\ rows[x].updated \in 0..LastChange
  BY DEF TypeOK, Row
<1>2. run.page \in SUBSET Payload /\ run.began \in 0..LastChange
  BY DEF TypeOK, Run
<1> QED
  BY <1>1, <1>2, PayloadFields DEF TypeOK

\* What has just changed is not stable.
LEMMA EditKeeps ==
  ASSUME IngestInv, NEW x \in Items, Edit(x)
  PROVE  Rest'
PROOF
<1> USE LastIsNat DEF IngestInv
<1>1. /\ now' = now + 1
      /\ UNCHANGED <<tree, rows, chunks, cache, run>>
  BY DEF Edit
<1>2. PICK text \in Texts(x) : gh' = [gh EXCEPT ![x] = [updated |-> now', text |-> text]]
  BY DEF Edit
<1>3. \A y \in Items : y # x => gh'[y] = gh[y]
  BY <1>2 DEF TypeOK
<1>4. gh'[x].updated = now + 1 /\ gh'[x].text \in Texts(x)
  BY <1>1, <1>2 DEF TypeOK
<1>5. ~Stable(x)'
  BY <1>1, <1>4, ItemFields DEF Stable, Numbered
<1>6. \A y \in Items : Stable(y)' => y # x /\ Stable(y)
  BY <1>1, <1>3, <1>5 DEF Stable
<1>7. Numbered'
  <2>1. \A y \in Items : gh'[y].updated <= now' /\ (gh'[y].updated # 0 => gh'[y].text \in Texts(y))
    BY <1>1, <1>3, <1>4, ItemFields DEF Numbered
  <2>2. \A p \in run.page : p.updated <= gh'[p.number].updated
    BY <1>1, <1>3, <1>4, ItemFields DEF Numbered
  <2>3. run.began <= now'
    BY <1>1, ItemFields DEF Numbered
  <2> QED
    BY <1>1, <2>1, <2>2, <2>3 DEF Numbered
<1>8. Fetched'
  BY <1>1 DEF Fetched, ChildrenNotOlder, Newest
<1>9. Catching'
  BY <1>1, <1>3, <1>6, ItemFields DEF Catching, Caught, Coming, IsListing, HasListed
<1>10. Indexing'
  BY <1>1 DEF Indexing
<1> QED
  BY <1>7, <1>8, <1>9, <1>10 DEF Rest

LEMMA PushKeeps ==
  ASSUME IngestInv, NEW d \in Docs, Push(d)
  PROVE  Rest'
PROOF
<1> USE LastIsNat DEF IngestInv
<1>1. now' = now + 1 /\ UNCHANGED <<gh, rows, chunks, cache, run>>
  BY DEF Push
<1>2. Numbered'
  BY <1>1, ItemFields DEF Numbered
<1>3. Fetched'
  BY <1>1 DEF Fetched, ChildrenNotOlder, Newest
<1>4. Catching' /\ Indexing'
  BY <1>1 DEF Catching, Indexing, Caught, Coming, IsListing, HasListed, Stable
<1> QED
  BY <1>2, <1>3, <1>4 DEF Rest

\* A run that has listed nothing yet, or is over.
LEMMA FreshKeeps ==
  ASSUME IngestInv, UNCHANGED <<gh, tree, now, rows, chunks, cache>>,
         run'.page = {}, run'.began \in 0..now, run'.cursor = LastChange + 1, run'.kind = PRs,
         run'.pc \in {"idle", "list"}
  PROVE  Rest'
PROOF
<1> USE LastIsNat DEF IngestInv
<1>1. Numbered'
  BY ItemFields DEF Numbered
<1>2. Fetched'
  BY DEF Fetched, ChildrenNotOlder
<1>3. Catching'
  BY ItemFields DEF Catching, Coming, IsListing, HasListed, Items
<1>4. Indexing'
  BY DEF Indexing
<1> QED
  BY <1>1, <1>2, <1>3, <1>4 DEF Rest

\* Once all is listed, the items are as they are.
LEMMA ListedKeeps ==
  ASSUME IngestInv, UNCHANGED <<gh, now, rows, cache>>, HasListed,
         run'.page = run.page, run'.began = run.began, run'.mode = run.mode,
         run'.kind = run.kind, ~IsListing'
  PROVE  Numbered' /\ Fetched' /\ Catching'
PROOF
<1> USE DEF IngestInv
<1>1. Numbered'
  BY DEF Numbered, IsListing
<1>2. Fetched'
  BY DEF Fetched, ChildrenNotOlder, IsListing
<1>3. Catching'
  BY DEF Catching, Caught, Stable, IsListing, HasListed
<1> QED
  BY <1>1, <1>2, <1>3

LEMMA StartKeeps == IngestInv /\ Start => Rest'
PROOF
<1> SUFFICES ASSUME IngestInv, Start PROVE Rest'
  OBVIOUS
<1>1. PICK mode \in {"full", "limit", "facts"} :
        run' = [Fresh EXCEPT !.pc = "list", !.mode = mode, !.began = now, !.sha = tree]
  BY DEF Start
<1>2. /\ run'.page = {} /\ run'.began = now /\ run'.cursor = LastChange + 1 /\ run'.kind = PRs
      /\ run'.pc = "list"
  BY <1>1 DEF Fresh
<1>3. now \in 0..now
  BY ItemFields, LastIsNat DEF IngestInv
<1> QED
  BY <1>2, <1>3, FreshKeeps DEF Start

LEMMA CrashKeeps == IngestInv /\ Crash => Rest'
PROOF
<1> SUFFICES ASSUME IngestInv, Crash PROVE Rest'
  OBVIOUS
<1>1. 0 \in 0..now
  BY ItemFields, LastIsNat DEF IngestInv
<1> QED
  BY <1>1, FreshKeeps DEF Crash, Fresh

LEMMA ListPageKeeps == IngestInv /\ ListPage => Rest'
PROOF
<1> SUFFICES ASSUME IngestInv, ListPage PROVE Rest'
  OBVIOUS
<1> USE LastIsNat DEF IngestInv
<1> DEFINE left == {x \in run.kind : gh[x].updated \in 1..(run.cursor - 1)}
<1>0. /\ run \in Run /\ run.pc = "list" /\ run.page = {}
      /\ UNCHANGED <<gh, tree, now, rows, closed_by_pr, chunks, cache, runs>>
  BY DEF ListPage, TypeOK
<1>1. run.kind \in {PRs, Issues} /\ run.kind \subseteq Items /\ run.cursor \in 1..(LastChange + 1)
  BY <1>0 DEF Run, Items
<1>2. CASE left = {}
  <2>1. run' = Listed(run)
    BY <1>2 DEF ListPage
  <2>2. /\ run'.page = {} /\ run'.began = run.began /\ run'.mode = run.mode
        /\ run.kind = PRs => run'.pc = "list" /\ run'.kind = Issues /\ run'.cursor = LastChange + 1
        /\ run.kind # PRs => run'.pc = "link" /\ run'.kind = run.kind
    BY <1>0, <2>1 DEF Listed, Run
  <2>3. \A x \in run.kind : ~(Stable(x) /\ gh[x].updated < run.cursor)
    BY <1>1, <1>2, ItemFields DEF Stable
  <2>4. run.mode = "full" => \A x \in Items : Stable(x) =>
          Caught(x) \/ (x \in Issues /\ run.kind = PRs)
    BY <1>0, <2>3 DEF Catching, Coming, IsListing
  <2>5. Numbered'
    BY <1>0, <2>2 DEF Numbered
  <2>6. Fetched'
    BY <1>0, <2>2 DEF Fetched, ChildrenNotOlder
  <2>7. Catching'
    <3>1. \A x \in Items : Stable(x)' <=> Stable(x)
      BY <1>0, <2>2 DEF Stable
    <3>2. \A x \in Items : Caught(x)' <=> Caught(x)
      BY <1>0 DEF Caught
    <3>3. CASE run.kind = PRs
      <4>1. \A x \in Items : x \in Issues => Coming(x)'
        BY <1>0, <2>2, <3>3, ItemFields DEF Coming
      <4> QED
        BY <2>2, <2>4, <3>1, <3>2, <3>3, <4>1 DEF Catching, IsListing, HasListed
    <3>4. CASE run.kind # PRs
      BY <2>2, <2>4, <3>1, <3>2, <3>4 DEF Catching, IsListing, HasListed
    <3> QED
      BY <3>3, <3>4
  <2>8. Indexing'
    BY <2>2 DEF Indexing
  <2> QED
    BY <2>5, <2>6, <2>7, <2>8 DEF Rest
<1>3. CASE left # {}
  <2> DEFINE payload(x) == [number |-> x, updated |-> gh[x].updated, text |-> gh[x].text]
             cut(last) == {payload(x) : x \in {y \in left : gh[y].updated >= gh[last].updated}}
  <2>1. PICK last \in left : run' = [run EXCEPT !.cursor = gh[last].updated, !.page = cut(last)]
    BY <1>3 DEF ListPage
  <2>2. /\ run'.page = cut(last) /\ run'.cursor = gh[last].updated
        /\ run'.pc = "list" /\ run'.mode = run.mode /\ run'.kind = run.kind
        /\ run'.began = run.began
    BY <1>0, <2>1 DEF Run
  <2>3. \A p \in cut(last) : /\ p.number \in run.kind
                             /\ p.updated = gh[p.number].updated /\ p.text = gh[p.number].text
    OBVIOUS
  <2>4. \A x \in left : gh[x].updated >= gh[last].updated => \E p \in cut(last) : p.number = x
    <3>1. \A x \in left : payload(x).number = x
      OBVIOUS
    <3> QED
      BY <3>1
  <2> HIDE DEF cut
  <2>5. Numbered'
    BY <1>0, <1>1, <2>2, <2>3, ItemFields DEF Numbered
  <2>6. Fetched'
    BY <1>0, <2>2 DEF Fetched, ChildrenNotOlder
  <2>7. Catching'
    <3>1. \A x \in Items : Stable(x)' <=> Stable(x)
      BY <1>0, <2>2 DEF Stable
    <3>2. \A x \in Items : Caught(x)' <=> Caught(x)
      BY <1>0 DEF Caught
    <3>3. \A x \in Items : Stable(x) /\ Coming(x) => Coming(x)'
      <4> SUFFICES ASSUME NEW x \in Items, Stable(x), Coming(x) PROVE Coming(x)'
        OBVIOUS
      <4>1. CASE x \in run.kind /\ gh[x].updated < run.cursor
        <5>1. x \in left
          BY <1>1, <4>1, ItemFields DEF Stable
        <5>2. gh[last].updated \in Int /\ gh[x].updated \in Int
          BY <1>1, ItemFields
        <5> QED
          BY <1>0, <2>2, <2>4, <4>1, <5>1, <5>2 DEF Coming
      <4>2. CASE x \in Issues /\ run.kind = PRs
        BY <2>2, <4>2 DEF Coming
      <4> QED
        BY <1>0, <4>1, <4>2 DEF Coming
    <3>4. \A p \in run'.page : p.updated = gh[p.number].updated /\ p.text = gh[p.number].text
      BY <2>2, <2>3
    <3> QED
      BY <1>0, <2>2, <3>1, <3>2, <3>3, <3>4 DEF Catching, IsListing, HasListed
  <2>8. Indexing'
    BY <2>2 DEF Indexing
  <2> QED
    BY <2>5, <2>6, <2>7, <2>8 DEF Rest
<1> QED
  BY <1>2, <1>3

LEMMA FetchKeeps == IngestInv /\ FetchChildren => Rest'
PROOF
<1> SUFFICES ASSUME IngestInv, FetchChildren PROVE Rest'
  OBVIOUS
<1> USE LastIsNat DEF IngestInv
<1> DEFINE p == Newest(run.page)
           hit == {c \in cache : c.number = p.number /\ c.updated = p.updated}
<1>0. /\ run \in Run /\ run.pc = "list" /\ run.page # {}
      /\ UNCHANGED <<gh, tree, now, rows, closed_by_pr, chunks, runs>>
  BY DEF FetchChildren, TypeOK
<1>1. p \in run.page
  BY <1>0, ItemFields, NewestIsListed
<1>2. p.number \in Items /\ p.updated \in 1..LastChange
  BY <1>1, ItemFields
<1>3. PICK children : /\ run' = [run EXCEPT !.pc = "store", !.children = children]
                      /\ \/ children = p.updated /\ cache' = cache
                         \/ /\ children \in IF hit = {} THEN {gh[p.number].updated}
                                              ELSE {c.children : c \in hit}
                            /\ cache' = cache \cup {[number |-> p.number, updated |-> p.updated,
                                                     children |-> children]}
  BY DEF FetchChildren
<1>4. children >= p.updated
  <2>1. gh[p.number].updated >= p.updated
    BY <1>1, <1>2, ItemFields DEF Numbered
  <2>2. \A c \in hit : c.children >= p.updated
    BY DEF Fetched
  <2>3. p.updated >= p.updated
    BY <1>2
  <2> QED
    BY <1>3, <2>1, <2>2, <2>3
<1> HIDE DEF p
<1>5. \A c \in cache' : c.children >= c.updated
  BY <1>3, <1>4 DEF Fetched
<1>6. /\ run'.page = run.page /\ run'.cursor = run.cursor /\ run'.children = children
      /\ run'.pc = "store" /\ run'.mode = run.mode /\ run'.kind = run.kind
      /\ run'.began = run.began
  BY <1>0, <1>3 DEF Run
<1>7. Numbered'
  BY <1>0, <1>6 DEF Numbered
<1>8. Fetched'
  BY <1>0, <1>4, <1>5, <1>6 DEF Fetched, ChildrenNotOlder, p
<1>9. Catching'
  BY <1>0, <1>6 DEF Catching, Caught, Coming, Stable, IsListing, HasListed
<1>10. Indexing'
  BY <1>6 DEF Indexing
<1> QED
  BY <1>7, <1>8, <1>9, <1>10 DEF Rest

LEMMA StoreKeeps == IngestInv /\ Store => Rest'
PROOF
<1> SUFFICES ASSUME IngestInv, Store PROVE Rest'
  OBVIOUS
<1> USE LastIsNat DEF IngestInv
<1>0. /\ run \in Run /\ run.pc = "store" /\ run.page # {}
      /\ UNCHANGED <<gh, tree, now, closed_by_pr, chunks, cache, runs>>
  BY DEF Store, TypeOK, Numbered
<1>1. PICK p \in run.page : p = Newest(run.page)
  BY <1>0, ItemFields, NewestIsListed
<1> DEFINE rest == [run EXCEPT
             !.pc = "list", !.page = @ \ {p}, !.children = 0,
             !.closing = [i \in Issues |-> IF run.kind = PRs /\ p.text = i THEN p.number ELSE @[i]]]
<1>2. p.number \in Items /\ p.updated \in 1..LastChange
  BY <1>1, ItemFields
<1>3. rows' = [rows EXCEPT ![p.number] =
                 [updated |-> p.updated, text |-> p.text, children |-> run.children]]
  BY <1>1 DEF Store
<1>4. run' = IF run.mode = "limit" THEN Listed(rest) ELSE rest
  BY <1>1 DEF Store
<1>5. run.children >= p.updated
  BY <1>0, <1>1 DEF Fetched
<1>6. \A x \in Items : x # p.number => rows'[x] = rows[x]
  BY <1>3 DEF TypeOK
<1>7. /\ rows'[p.number].updated = p.updated /\ rows'[p.number].text = p.text
      /\ rows'[p.number].children = run.children
  BY <1>2, <1>3 DEF TypeOK
<1>8. /\ rest.pc = "list" /\ rest.page = run.page \ {p} /\ rest.mode = run.mode
      /\ rest.kind = run.kind /\ rest.cursor = run.cursor /\ rest.began = run.began
      /\ Listed(rest).began = run.began /\ Listed(rest).mode = run.mode
      /\ Listed(rest).page = {} /\ Listed(rest).pc \in {"list", "link"}
  BY <1>0 DEF Run, Listed
<1> HIDE DEF rest
<1>9. /\ run'.page \subseteq run.page /\ run'.began = run.began /\ run'.mode = run.mode
      /\ run'.pc \in {"list", "link"}
      /\ run.mode = "full" =>
           /\ run'.page = run.page \ {p} /\ run'.kind = run.kind
           /\ run'.cursor = run.cursor /\ run'.pc = "list"
      /\ run'.kind = run.kind \/ run'.page = {}
  BY <1>4, <1>8
<1>10. Numbered'
  BY <1>0, <1>9 DEF Numbered
<1>11. Fetched'
  <2>1. \A x \in Items : rows'[x].children >= rows'[x].updated
    BY <1>5, <1>6, <1>7 DEF Fetched, ChildrenNotOlder
  <2> QED
    BY <1>0, <1>9, <2>1 DEF Fetched, ChildrenNotOlder
<1>12. Catching'
  <2>1. \A x \in Items : Stable(x)' <=> Stable(x)
    BY <1>0, <1>9 DEF Stable
  <2>2. Stable(p.number) => Caught(p.number)'
    BY <1>0, <1>1, <1>7 DEF Catching, Caught
  <2>3. \A x \in Items : Stable(x) /\ Caught(x) => Caught(x)'
    BY <1>0, <1>6, <2>2 DEF Caught
  <2>4. run.mode = "full" => \A x \in Items : x # p.number /\ Coming(x) => Coming(x)'
    BY <1>0, <1>9 DEF Coming
  <2>5. run.mode = "full" => \A x \in Items : Stable(x) => Caught(x) \/ Coming(x)
    BY <1>0 DEF Catching, IsListing
  <2>6. run'.mode = "full" => \A x \in Items : Stable(x)' => Caught(x)' \/ Coming(x)'
    BY <1>9, <2>1, <2>2, <2>3, <2>4, <2>5
  <2>7. \A q \in run'.page : Stable(q.number)' =>
          q.updated = gh'[q.number].updated /\ q.text = gh'[q.number].text
    BY <1>0, <1>9, <2>1, ItemFields DEF Catching
  <2> QED
    BY <1>9, <2>6, <2>7 DEF Catching, HasListed
<1>13. Indexing'
  BY <1>9 DEF Indexing
<1> QED
  BY <1>10, <1>11, <1>12, <1>13 DEF Rest

LEMMA LinkKeeps == IngestInv /\ Link => Rest'
PROOF
<1> SUFFICES ASSUME IngestInv, Link PROVE Rest'
  OBVIOUS
<1>1. run \in Run /\ run.pc = "link" /\ UNCHANGED <<gh, tree, now, rows, chunks, cache, runs>>
  BY DEF Link, IngestInv, TypeOK
<1>2. /\ run'.page = run.page /\ run'.began = run.began /\ run'.mode = run.mode
      /\ run'.kind = run.kind /\ run'.pc \in {"partial", "build"}
  BY <1>1 DEF Link, Run
<1>3. Numbered' /\ Fetched' /\ Catching'
  BY <1>1, <1>2, ListedKeeps DEF HasListed, IsListing
<1>4. Indexing'
  BY <1>2 DEF Indexing
<1> QED
  BY <1>3, <1>4 DEF Rest

LEMMA BuildKeeps == IngestInv /\ Build => Rest'
PROOF
<1> SUFFICES ASSUME IngestInv, Build PROVE Rest'
  OBVIOUS
<1>1. run \in Run /\ run.pc = "build" /\ UNCHANGED <<gh, tree, now, rows, chunks, cache, runs>>
  BY DEF Build, IngestInv, TypeOK
<1>2. PICK closed \in SUBSET {i \in Issues : rows[i].text = "closed"} :
        /\ run.mode = "full" => closed = {i \in Issues : rows[i].text = "closed"}
        /\ run' = [run EXCEPT
             !.produced = [id \in Ids |->
                IF id \in Docs THEN run.sha[id] ELSE IF id \in closed THEN rows[id].updated ELSE 0],
             !.pc = "compare"]
  BY DEF Build
<1>3. /\ run'.page = run.page /\ run'.began = run.began /\ run'.mode = run.mode
      /\ run'.kind = run.kind /\ run'.pc = "compare" /\ run'.sha = run.sha
      /\ run'.produced = [id \in Ids |-> IF id \in Docs THEN run.sha[id]
                                         ELSE IF id \in closed THEN rows[id].updated ELSE 0]
  BY <1>1, <1>2 DEF Run
<1>4. Numbered' /\ Fetched' /\ Catching'
  BY <1>1, <1>3, ListedKeeps DEF HasListed, IsListing
<1>5. Indexing'
  BY <1>1, <1>2, <1>3 DEF Indexing, Ids
<1> QED
  BY <1>4, <1>5 DEF Rest

LEMMA CompareKeeps == IngestInv /\ Compare => Rest'
PROOF
<1> SUFFICES ASSUME IngestInv, Compare PROVE Rest'
  OBVIOUS
<1> DEFINE made == {id \in Ids : run.produced[id] # 0}
           differ == {id \in made : chunks[id] # run.produced[id]}
<1>1. run \in Run /\ run.pc = "compare" /\ UNCHANGED <<gh, tree, now, rows, chunks, cache, runs>>
  BY DEF Compare, IngestInv, TypeOK
<1>2. run' = IF made = {} THEN [run EXCEPT !.pc = "mark"]
             ELSE [run EXCEPT !.pc = "write", !.pending = differ]
  BY DEF Compare
<1>3. /\ run'.page = run.page /\ run'.began = run.began /\ run'.mode = run.mode
      /\ run'.kind = run.kind /\ run'.sha = run.sha /\ run'.produced = run.produced
      /\ \/ run'.pc = "mark" /\ made = {}
         \/ run'.pc = "write" /\ run'.pending = differ
  BY <1>1, <1>2 DEF Run
<1>4. Numbered' /\ Fetched' /\ Catching'
  BY <1>1, <1>3, ListedKeeps DEF HasListed, IsListing
<1>5. Indexing'
  BY <1>1, <1>3 DEF Indexing, IngestInv
<1> QED
  BY <1>4, <1>5 DEF Rest

LEMMA WriteKeeps == IngestInv /\ WriteBatch => Rest'
PROOF
<1> SUFFICES ASSUME IngestInv, WriteBatch PROVE Rest'
  OBVIOUS
<1>1. run \in Run /\ run.pc = "write" /\ UNCHANGED <<gh, tree, now, rows, cache, runs>>
  BY DEF WriteBatch, IngestInv, TypeOK
<1>2. PICK id \in run.pending : /\ chunks' = [chunks EXCEPT ![id] = run.produced[id]]
                                /\ run' = [run EXCEPT !.pending = @ \ {id}]
  BY DEF WriteBatch
<1>3. /\ run'.page = run.page /\ run'.began = run.began /\ run'.mode = run.mode
      /\ run'.kind = run.kind /\ run'.sha = run.sha /\ run'.produced = run.produced
      /\ run'.pc = "write" /\ run'.pending = run.pending \ {id}
  BY <1>1, <1>2 DEF Run
<1>4. \A other \in Ids : chunks'[other] = IF other = id THEN run.produced[id] ELSE chunks[other]
  BY <1>2 DEF IngestInv, TypeOK
<1>5. Numbered' /\ Fetched' /\ Catching'
  BY <1>1, <1>3, ListedKeeps DEF HasListed, IsListing
<1>6. Indexing'
  BY <1>1, <1>3, <1>4 DEF Indexing, IngestInv
<1> QED
  BY <1>5, <1>6 DEF Rest

LEMMA PruneKeeps == IngestInv /\ Prune => Rest'
PROOF
<1> SUFFICES ASSUME IngestInv, Prune PROVE Rest'
  OBVIOUS
<1>1. /\ run \in Run /\ run.pc = "write" /\ run.pending = {}
      /\ UNCHANGED <<gh, tree, now, rows, cache, runs>>
  BY DEF Prune, IngestInv, TypeOK
<1>2. /\ run'.page = run.page /\ run'.began = run.began /\ run'.mode = run.mode
      /\ run'.kind = run.kind /\ run'.sha = run.sha /\ run'.produced = run.produced
      /\ run'.pc = "mark"
  BY <1>1 DEF Prune, Run
<1>3. \A id \in Ids : chunks'[id] = IF run.mode = "limit" \/ run.produced[id] # 0
                                    THEN chunks[id] ELSE 0
  BY DEF Prune
<1>4. Numbered' /\ Fetched' /\ Catching'
  BY <1>1, <1>2, ListedKeeps DEF HasListed, IsListing
<1>5. Indexing'
  BY <1>1, <1>2, <1>3 DEF Indexing, IngestInv
<1> QED
  BY <1>4, <1>5 DEF Rest

LEMMA CompleteKeeps == IngestInv /\ Complete => Rest'
PROOF
<1> SUFFICES ASSUME IngestInv, Complete PROVE Rest'
  OBVIOUS
<1>1. run \in Run /\ run.pc = "mark" /\ UNCHANGED <<gh, tree, now, rows, chunks, cache, runs>>
  BY DEF Complete, IngestInv, TypeOK
<1>2. /\ run'.page = run.page /\ run'.began = run.began /\ run'.mode = run.mode
      /\ run'.kind = run.kind /\ run'.sha = run.sha /\ run'.produced = run.produced
      /\ run'.pc = "complete"
  BY <1>1 DEF Complete, Run
<1>3. Numbered' /\ Fetched' /\ Catching'
  BY <1>1, <1>2, ListedKeeps DEF HasListed, IsListing
<1>4. Indexing'
  BY <1>1, <1>2 DEF Indexing, IngestInv
<1> QED
  BY <1>3, <1>4 DEF Rest

-----------------------------------------------------------------------------
LEMMA IngestBegins == Init => IngestInv
PROOF
<1> SUFFICES ASSUME Init PROVE IngestInv
  OBVIOUS
<1>1. TypeOK
  BY TypeInit
<1>2. now = Cardinality(Items) /\ run = Fresh /\ cache = {}
  BY DEF Init
<1>3. /\ run.pc = "idle" /\ run.page = {} /\ run.began = 0
  BY <1>2 DEF Fresh
<1>4. Numbered
  <2> DEFINE texts == UNION {Texts(x) : x \in Items}
  <2>0. /\ gh \in [Items -> [updated : 0..now, text : texts]]
        /\ \A x \in Items : gh[x].text \in IF gh[x].updated # 0 THEN Texts(x)
                                            ELSE Texts(x) \cap {None, "open"}
    BY DEF Init
  <2> HIDE DEF texts
  <2>1. \A x \in Items : gh[x].updated \in 0..now
    BY <2>0
  <2>2. \A x \in Items : gh[x].updated # 0 => gh[x].text \in Texts(x)
    BY <2>0
  <2> QED
    BY <1>2, <1>3, <2>1, <2>2, LastIsNat DEF Numbered
<1>5. Fetched
  <2>1. \A x \in Items : rows[x] = [updated |-> 0, text |-> None, children |-> 0]
    BY DEF Init
  <2> QED
    BY <1>2, <1>3, <2>1 DEF Fetched, ChildrenNotOlder
<1>6. Catching /\ Indexing
  BY <1>3 DEF Catching, Indexing, IsListing, HasListed
<1> QED
  BY <1>1, <1>4, <1>5, <1>6 DEF IngestInv

LEMMA IngestStep == IngestInv /\ [Next]_vars => IngestInv'
PROOF
<1> SUFFICES ASSUME IngestInv, [Next]_vars PROVE IngestInv'
  OBVIOUS
<1>1. TypeOK'
  BY TypeStep DEF IngestInv
<1>2. Rest'
  <2>1. CASE UNCHANGED vars
    BY <2>1 DEF vars, IngestInv, Rest, Numbered, Fetched, Catching, Indexing, ChildrenNotOlder,
       Newest, Stable, Caught, Coming, IsListing, HasListed
  <2>2. CASE Next
    BY <2>2, EditKeeps, PushKeeps, StartKeeps, ListPageKeeps, FetchKeeps, StoreKeeps, LinkKeeps,
       BuildKeeps, CompareKeeps, WriteKeeps, PruneKeeps, CompleteKeeps, CrashKeeps DEF Next
  <2> QED
    BY <2>1, <2>2
<1> QED
  BY <1>1, <1>2 DEF IngestInv, Rest

\* However GitHub changes and runs die, what Numbered, Fetched, Catching and
\* Indexing say holds between any two steps of a run.
THEOREM IngestInvariant == Spec => []IngestInv
PROOF
  BY IngestBegins, IngestStep, PTL DEF Spec

\* Every variable has its type.
THEOREM IngestTypes == Spec => []TypeOK
PROOF
<1>1. IngestInv => TypeOK
  BY DEF IngestInv
<1> QED
  BY <1>1, IngestInvariant, PTL

\* Files and reviews stored with a pull request are never older than it, for
\* any listing, cache and number of runs.
THEOREM ChildrenAreNotOlder == Spec => []ChildrenNotOlder
PROOF
<1>1. IngestInv => ChildrenNotOlder
  BY DEF IngestInv, Fetched
<1> QED
  BY <1>1, IngestInvariant, PTL

\* A whole run has every item that did not change since it began, as it is on
\* GitHub: no page, cache, limit or crash of an earlier run hides one.
THEOREM StableItemsAreStored == Spec => []StableItemsStored
PROOF
<1>1. IngestInv => StableItemsStored
  BY DEF IngestInv, Catching, StableItemsStored, Whole, Stable, Caught, HasListed
<1> QED
  BY <1>1, IngestInvariant, PTL

\* A whole run leaves the index a copy of its pinned tree and of the issues
\* that are closed, whatever it found there.
THEOREM IndexIsCopy == Spec => []IndexIsOfPinnedTree
PROOF
<1>1. IngestInv => IndexIsOfPinnedTree
  BY IdsAssumption DEF IngestInv, Indexing, IndexIsOfPinnedTree, Whole, Ids
<1> QED
  BY <1>1, IngestInvariant, PTL
=============================================================================
