------------------------------- MODULE Ingest -------------------------------
(***************************************************************************)
(* scripts/ingest.py: one run after the other copies pull requests and     *)
(* issues from GitHub into the facts tables (app/ingest/facts.py) and      *)
(* chunks of the pinned tree and of closed issues into the index           *)
(* (app/ingest/index.py), while GitHub changes.  A run may die anywhere.   *)
(*                                                                         *)
(* A text is the number of the change that made it: 0 is none at all.      *)
(* Commits, releases and areas are upserts that nothing here reads, and    *)
(* are left out; so are the comments of an issue.                          *)
(***************************************************************************)
EXTENDS Integers, FiniteSets

CONSTANTS
  PRs,
  Issues,
  Docs,        \* files of the corpus that make a chunk
  None,
  MaxChanges,  \* bound: changes on GitHub once ingest has begun
  MaxRuns      \* bound: runs

Items == PRs \cup Issues

Ids == Docs \cup Issues  \* of chunks: a file's and a closed issue's

ASSUME ItemsAssumption == IsFiniteSet(Items) /\ PRs \cap Issues = {} /\ None \notin PRs \cup Issues
ASSUME IdsAssumption == Docs \cap Issues = {}
ASSUME BoundsAssumption == MaxChanges \in Nat /\ MaxRuns \in Nat

VARIABLES
  gh,            \* GitHub: the items as they are
  tree,          \*   and the files at CORPUS_REF
  now,           \*   the number of its last change
  rows,          \* tables pull_requests and issues
  closed_by_pr,  \* the column of issues
  chunks,        \* table chunks
  cache,         \* .cache/gh: files and reviews of a pull request
  run,           \* the run in progress, or the last one
  runs           \* how many have been started

vars == <<gh, tree, now, rows, closed_by_pr, chunks, cache, run, runs>>

LastChange == Cardinality(Items) + MaxChanges

\* What an item says: the issue a pull request's body closes; an issue's state.
Texts(x) == IF x \in PRs THEN Issues \cup {None} ELSE {"open", "closed"}

Payload ==
  UNION {[number : {x}, updated : 1..LastChange, text : Texts(x)] : x \in Items}

\* children: the change that made the rows replaced with the item's.
Row == [updated : 0..LastChange, text : {None} \cup UNION {Texts(x) : x \in Items},
        children : 0..LastChange]

Run == [pc : {"idle", "list", "store", "link", "build", "compare", "write", "mark",
              "partial", "complete"},
        mode : {"full", "limit", "facts"},  \* --limit, --facts-only
        kind : {PRs, Issues},               \* what it is listing
        began : 0..LastChange,
        sha : [Docs -> 0..LastChange],      \* the pinned tree
        cursor : 1..(LastChange + 1),       \* the listing has come down to here
        page : SUBSET Payload,              \* listed, not yet stored
        children : 0..LastChange,           \* fetched for the newest of the page
        closing : [Issues -> PRs \cup {None}],
        produced : [Ids -> 0..LastChange],
        pending : SUBSET Ids]

NotRunning == run.pc \in {"idle", "partial", "complete"}

Stored(x) == rows[x].updated # 0

Newest(page) == CHOOSE p \in page : \A q \in page : q.updated <= p.updated

Fresh == [pc |-> "idle", mode |-> "full", kind |-> PRs, began |-> 0,
          sha |-> [d \in Docs |-> 0], cursor |-> LastChange + 1, page |-> {}, children |-> 0,
          closing |-> [i \in Issues |-> None], produced |-> [id \in Ids |-> 0],
          pending |-> {}]

-----------------------------------------------------------------------------
\* The repository has a history before the first run.  updated = 0: not opened
\* yet, or below the window's floor.  The two kinds are listed apart, so the
\* issues may as well be the older ones.
Init ==
  /\ now = Cardinality(Items)
  /\ gh \in {g \in [Items -> [updated : 0..now, text : UNION {Texts(x) : x \in Items}]] :
               /\ \A x \in Items :
                    g[x].text \in IF g[x].updated # 0 THEN Texts(x)
                                  ELSE Texts(x) \cap {None, "open"}
               /\ \A x, y \in Items : g[x].updated = g[y].updated => x = y \/ g[x].updated = 0
               /\ \A x \in Issues : g[x].updated <= Cardinality(Issues)
               /\ \A x \in PRs : g[x].updated \notin 1..Cardinality(Issues)}
  /\ tree = [d \in Docs |-> now]
  /\ rows = [x \in Items |-> [updated |-> 0, text |-> None, children |-> 0]]
  /\ closed_by_pr = [i \in Issues |-> None]
  /\ chunks = [id \in Ids |-> 0]
  /\ cache = {}
  /\ run = Fresh
  /\ runs = 0

\* Somebody opens, edits, closes or reopens an item; somebody pushes.
Edit(x) ==
  /\ now < LastChange
  /\ now' = now + 1
  /\ \E text \in Texts(x) : gh' = [gh EXCEPT ![x] = [updated |-> now', text |-> text]]
  /\ UNCHANGED <<tree, rows, closed_by_pr, chunks, cache, run, runs>>

Push(d) ==
  /\ now < LastChange
  /\ now' = now + 1
  /\ \E text \in {0, now'} : tree' = [tree EXCEPT ![d] = text]
  /\ UNCHANGED <<gh, rows, closed_by_pr, chunks, cache, run, runs>>

-----------------------------------------------------------------------------
\* resolve_ref and start_run.
Start ==
  /\ NotRunning
  /\ runs < MaxRuns
  /\ runs' = runs + 1
  /\ \E mode \in {"full", "limit", "facts"} :
       run' = [Fresh EXCEPT !.pc = "list", !.mode = mode, !.began = now, !.sha = tree]
  /\ UNCHANGED <<gh, tree, now, rows, closed_by_pr, chunks, cache>>

\* The listing of one kind is over.
Listed(r) ==
  IF r.kind = PRs
  THEN [r EXCEPT !.pc = "list", !.kind = Issues, !.cursor = LastChange + 1, !.page = {}]
  ELSE [r EXCEPT !.pc = "link", !.page = {}]

\* Mutant: the next link is not followed.
ListPageOnce ==
  /\ run.pc = "list"
  /\ run.page = {}
  /\ LET left == {x \in run.kind : gh[x].updated \in 1..(run.cursor - 1)} IN
       IF left = {} \/ run.cursor <= LastChange
       THEN run' = Listed(run)
       ELSE \E last \in left :
              run' = [run EXCEPT
                !.cursor = gh[last].updated,
                !.page = {[number |-> x, updated |-> gh[x].updated, text |-> gh[x].text] :
                            x \in {y \in left : gh[y].updated >= gh[last].updated}}]
  /\ UNCHANGED <<gh, tree, now, rows, closed_by_pr, chunks, cache, runs>>

\* paginate: the next page, newest update first.  What is edited meanwhile
\* moves to the front, which the listing has passed.
ListPage ==
  /\ run.pc = "list"
  /\ run.page = {}
  /\ LET left == {x \in run.kind : gh[x].updated \in 1..(run.cursor - 1)} IN
       IF left = {}
       THEN run' = Listed(run)
       ELSE \E last \in left :
              run' = [run EXCEPT
                !.cursor = gh[last].updated,
                !.page = {[number |-> x, updated |-> gh[x].updated, text |-> gh[x].text] :
                            x \in {y \in left : gh[y].updated >= gh[last].updated}}]
  /\ UNCHANGED <<gh, tree, now, rows, closed_by_pr, chunks, cache, runs>>

\* Mutant: the cache key lacks updated_at.
FetchChildrenByNumber ==
  /\ run.pc = "list"
  /\ run.page # {}
  /\ LET p == Newest(run.page)
         hit == {c \in cache : c.number = p.number}
     IN \E children \in IF hit = {} THEN {gh[p.number].updated} ELSE {c.children : c \in hit} :
          /\ run' = [run EXCEPT !.pc = "store", !.children = children]
          /\ cache' = cache \cup {[number |-> p.number, updated |-> p.updated,
                                   children |-> children]}
  /\ UNCHANGED <<gh, tree, now, rows, closed_by_pr, chunks, runs>>

\* get_cached for files and reviews, by number and updated_at.  An issue's
\* labels come with it.
FetchChildren ==
  /\ run.pc = "list"
  /\ run.page # {}
  /\ LET p == Newest(run.page)
         hit == {c \in cache : c.number = p.number /\ c.updated = p.updated}
     IN IF run.kind = Issues
        THEN /\ run' = [run EXCEPT !.pc = "store", !.children = p.updated]
             /\ UNCHANGED cache
        ELSE \E children \in IF hit = {} THEN {gh[p.number].updated}
                             ELSE {c.children : c \in hit} :
               /\ run' = [run EXCEPT !.pc = "store", !.children = children]
               /\ cache' = cache \cup {[number |-> p.number, updated |-> p.updated,
                                        children |-> children]}
  /\ UNCHANGED <<gh, tree, now, rows, closed_by_pr, chunks, runs>>

\* upsert_pull_request or upsert_issue, which leaves closed_by_pr alone, in a
\* transaction.  With --limit (1 here) it is the last of its kind.
Store ==
  /\ run.pc = "store"
  /\ LET p == Newest(run.page)
         rest == [run EXCEPT
           !.pc = "list", !.page = @ \ {p}, !.children = 0,
           !.closing = [i \in Issues |-> IF run.kind = PRs /\ p.text = i THEN p.number ELSE @[i]]]
     IN /\ rows' = [rows EXCEPT ![p.number] =
                      [updated |-> p.updated, text |-> p.text, children |-> run.children]]
        /\ run' = IF run.mode = "limit" THEN Listed(rest) ELSE rest
  /\ UNCHANGED <<gh, tree, now, closed_by_pr, chunks, cache, runs>>

\* link_closing_prs.  Without the index the run ends here, unmarked.
Link ==
  /\ run.pc = "link"
  /\ closed_by_pr' = [i \in Issues |->
       LET n == run.closing[i]
       IN IF n # None /\ rows[i].text = "closed" /\ n \in {x \in PRs : Stored(x)}
          THEN n ELSE closed_by_pr[i]]
  /\ run' = [run EXCEPT !.pc = IF run.mode = "facts" THEN "partial" ELSE "build",
                        !.closing = [i \in Issues |-> None]]
  /\ UNCHANGED <<gh, tree, now, rows, chunks, cache, runs>>

\* build_chunks: the pinned tree and the closed issues of the table, one of
\* them with --limit.
Build ==
  /\ run.pc = "build"
  /\ \E closed \in SUBSET {i \in Issues : rows[i].text = "closed"} :
       /\ IF run.mode = "limit" THEN Cardinality(closed) <= 1
          ELSE closed = {i \in Issues : rows[i].text = "closed"}
       /\ run' = [run EXCEPT
            !.produced = [id \in Ids |->
               IF id \in Docs THEN run.sha[id] ELSE IF id \in closed THEN rows[id].updated ELSE 0],
            !.pc = "compare"]
  /\ UNCHANGED <<gh, tree, now, rows, closed_by_pr, chunks, cache, runs>>

\* Mutant: what is stored under the id is taken for the same.
CompareIds ==
  /\ run.pc = "compare"
  /\ LET made == {id \in Ids : run.produced[id] # 0} IN
       run' = IF made = {} THEN [run EXCEPT !.pc = "mark"]
              ELSE [run EXCEPT !.pc = "write", !.pending = {id \in made : chunks[id] = 0}]
  /\ UNCHANGED <<gh, tree, now, rows, closed_by_pr, chunks, cache, runs>>

\* sync_chunks: nothing to index returns at once; what is absent or differs is
\* to be written.
Compare ==
  /\ run.pc = "compare"
  /\ LET made == {id \in Ids : run.produced[id] # 0} IN
       run' = IF made = {} THEN [run EXCEPT !.pc = "mark"]
              ELSE [run EXCEPT !.pc = "write",
                               !.pending = {id \in made : chunks[id] # run.produced[id]}]
  /\ UNCHANGED <<gh, tree, now, rows, closed_by_pr, chunks, cache, runs>>

\* One batch (of one chunk here), in a transaction.
WriteBatch ==
  /\ run.pc = "write"
  /\ \E id \in run.pending :
       /\ chunks' = [chunks EXCEPT ![id] = run.produced[id]]
       /\ run' = [run EXCEPT !.pending = @ \ {id}]
  /\ UNCHANGED <<gh, tree, now, rows, closed_by_pr, cache, runs>>

\* What was not produced is deleted, unless the run was limited.
Prune ==
  /\ run.pc = "write"
  /\ run.pending = {}
  /\ chunks' = [id \in Ids |->
       IF run.mode = "limit" \/ run.produced[id] # 0 THEN chunks[id] ELSE 0]
  /\ run' = [run EXCEPT !.pc = "mark"]
  /\ UNCHANGED <<gh, tree, now, rows, closed_by_pr, cache, runs>>

\* complete_run.
Complete ==
  /\ run.pc = "mark"
  /\ run' = [run EXCEPT !.pc = "complete"]
  /\ UNCHANGED <<gh, tree, now, rows, closed_by_pr, chunks, cache, runs>>

\* GitHub gives up, a statement fails, the process is killed.
Crash ==
  /\ ~NotRunning
  /\ run' = Fresh
  /\ UNCHANGED <<gh, tree, now, rows, closed_by_pr, chunks, cache, runs>>

Next ==
  \/ \E x \in Items : Edit(x)
  \/ \E d \in Docs : Push(d)
  \/ Start \/ ListPage \/ FetchChildren \/ Store \/ Link
  \/ Build \/ Compare \/ WriteBatch \/ Prune \/ Complete \/ Crash

Spec == Init /\ [][Next]_vars

-----------------------------------------------------------------------------
\* Every variable holds values of its table's or record's shape.
TypeOK ==
  /\ now \in 0..LastChange
  /\ gh \in [Items -> [updated : 0..LastChange, text : UNION {Texts(x) : x \in Items}]]
  /\ tree \in [Docs -> 0..LastChange]
  /\ rows \in [Items -> Row]
  /\ closed_by_pr \in [Issues -> PRs \cup {None}]
  /\ chunks \in [Ids -> 0..LastChange]
  /\ cache \subseteq [number : PRs, updated : 1..LastChange, children : 1..LastChange]
  /\ run \in Run
  /\ runs \in 0..MaxRuns

\* The last run indexed the whole corpus and was marked.
Whole == run.pc = "complete" /\ run.mode = "full"

\* Whatever earlier runs left behind, a whole run leaves the index a copy of
\* the tree it pinned and of the issues the facts tables have as closed: nothing
\* stale, nothing missing, no chunk of a deleted file or a reopened issue.
IndexIsOfPinnedTree ==
  Whole /\ (\E id \in Ids : run.produced[id] # 0) =>
    /\ \A d \in Docs : chunks[d] = run.sha[d]
    /\ \A i \in Issues : chunks[i] = IF rows[i].text = "closed" THEN rows[i].updated ELSE 0

\* The files and reviews stored with a pull request are never older than the
\* pull request, though GitHub changes between its listing and their fetch and
\* the cache outlives the run.
ChildrenNotOlder == \A x \in Items : rows[x].children >= rows[x].updated

\* A whole run has stored, as it still is on GitHub, every item that did not
\* change while the run was listing it: no crash, limit, page or cache hides one.
StableItemsStored ==
  Whole => \A x \in Items : gh[x].updated \in 1..run.began =>
    rows[x].updated = gh[x].updated /\ rows[x].text = gh[x].text
=============================================================================
