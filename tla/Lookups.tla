------------------------------ MODULE Lookups ------------------------------
(***************************************************************************)
(* One tool call of a turn, from the tools the model is offered to what    *)
(* the tool answers: app/tools/selector.py, app/tools/registry.py,         *)
(* app/facts/store.py, app/facts/areas.py and app/retrieval/hybrid.py.     *)
(* Each await is an action; the curated areas and the seeded tools are     *)
(* replaced meanwhile.  The facts are those of one ingest.                 *)
(***************************************************************************)
EXTENDS Windows, Retrieval

CONSTANTS
  PullRequests, Issues, Commits, Releases,  \* the facts, as sets of records
  AreasFile,        \* areas.yaml: name -> set of path prefixes
  Chunks,           \* chunks of the one source a search tool looks in
  Catalog,          \* names of the tools in CATALOG
  MemoryTools,      \* ALWAYS_INJECTED
  SearchTools,      \* the keys of SEARCH_SOURCES
  Settings,         \* records [mode, memory, hybrid]
  Seedings,         \* sets of names that tool_defs may hold at first
  Synthetic,        \* names that pad the catalog
  Dates,            \* values of as_of
  Calls,            \* what the model may call: records [name, ...]
  ToolK, TopK,      \* tool_retrieval_k, retrieval_top_k
  Longest,          \* days that PostgreSQL can subtract from a date
  None

ASSUME CatalogAssumption ==
  /\ MemoryTools \subseteq Catalog
  /\ SearchTools \subseteq Catalog
  /\ "search_docs" \in SearchTools
  /\ SearchTools \cap MemoryTools = {}
  /\ (SearchTools \cup MemoryTools) \cap
       {"merged_prs", "commits_by_author", "open_issues", "stale_prs",
        "release_diff", "pr_state", "issue_state", "release_info"} = {}
  /\ Synthetic \cap Catalog = {}
  /\ IsFiniteSet(Catalog)

\* An unknown mode raises when the request is built, and a table is finite.
ASSUME SettingsAssumption ==
  /\ Settings \subseteq [mode : {"full", "native", "semantic"}, memory : BOOLEAN, hybrid : BOOLEAN]
  /\ \A rows \in Seedings : IsFiniteSet(rows)
  /\ ToolK \in Nat

\* An id is the rank of a citation in the order of strings.
ASSUME SearchAssumption ==
  /\ Chunks \subseteq Nat /\ IsFiniteSet(Chunks)
  /\ TopK \in Nat

\* Primary keys and types of the tables, with None for NULL.
ASSUME SchemaAssumption ==
  /\ \A p \in PullRequests :
       /\ IsMoment(p.created) /\ \A r \in p.reviews : IsMoment(r)
       /\ p.state = "merged" => IsMoment(p.merged)
       /\ None \notin p.paths
  /\ \A r, s \in Releases : IsMoment(r.at) /\ (r.ref = s.ref => r = s)
  /\ \A name \in DOMAIN AreasFile : AreasFile[name] # None

\* What coerce lets through, at a date that datetime can hold.
ASSUME CallsAssumption ==
  /\ \A date \in Dates : IsMoment(date)
  /\ \A c \in Calls : ~c.malformed =>
       /\ c.name \in {"merged_prs", "commits_by_author"} => IsExpression(c.window)
       /\ c.name = "stale_prs" => c.days \in Nat

VARIABLES
  setting,     \* TOOL_RETRIEVAL_MODE, MEMORY_ENABLED, HYBRID_ENABLED
  as_of,
  tool_defs,   \* the table, by name
  areas,       \* the table: what AreasFile had, or has, of it
  stage,       \* the await the call is at, "select", "call" or "done"
  offered,     \* [tools, deferred] of the request
  call,
  window,      \* <<since, until>>, or None
  globs,       \* sql_prefixes of the area, or None
  dense, sparse,
  outcome

lookupVars ==
  <<setting, as_of, tool_defs, areas, stage, offered, call, window, globs, dense, sparse, outcome>>

environment == <<setting, as_of, tool_defs, areas>>

-----------------------------------------------------------------------------
(* Tool selection.                                                         *)

Definitions == IF setting.memory THEN Catalog ELSE Catalog \ MemoryTools

AlwaysInjected == MemoryTools \cap Definitions

\* Mutant: what the table names is offered, a stale seed too.
SemanticStale(rows) == [tools |-> rows \cup AlwaysInjected, deferred |-> {}]

\* A row without a definition is a stale seed.
Semantic(rows) == [tools |-> (rows \cap Definitions) \cup AlwaysInjected, deferred |-> {}]

Full == [tools |-> Definitions, deferred |-> {}]

Native ==
  [tools |-> Definitions, deferred |-> Definitions \ ({"search_docs"} \cup AlwaysInjected)]

\* The rows above the floor, the ToolK nearest of them.
Selections ==
  CASE setting.mode = "full" -> {Full}
    [] setting.mode = "native" -> {Native}
    [] setting.mode = "semantic" ->
         {Semantic(rows) : rows \in {r \in SUBSET tool_defs : Cardinality(r) <= ToolK}}

-----------------------------------------------------------------------------
(* The facts.                                                              *)

Prefixed(ps, path) == \E p \in ps : IsPrefix(p, path)

\* A join with the paths touched: one row per path, or one without a path.
Joined(facts, ps) ==
  {row \in facts \X ((UNION {f.paths : f \in facts}) \cup {None}) :
     /\ IF row[1].paths = {} THEN row[2] = None ELSE row[2] \in row[1].paths
     /\ ps # None => row[2] # None /\ Prefixed(ps, row[2])}

\* SELECT DISTINCT leaves one row per item.
Distinct(rows) == {row[1] : row \in rows}

Aggregate(rows) ==
  [kind |-> "answer", items |-> Distinct(rows), count |-> Cardinality(Distinct(rows))]

MergedPrs(since, until, ps) ==
  Aggregate({row \in Joined(PullRequests, ps) :
               row[1].state = "merged" /\ since <= row[1].merged /\ row[1].merged < until})

CommitsByAuthor(since, ps) ==
  Aggregate({row \in Joined(Commits, ps) : since <= row[1].authored})

OpenIssues(label, milestone, days) ==
  Aggregate({row \in Issues \X ((UNION {i.labels : i \in Issues}) \cup {None}) :
               LET i == row[1] IN
               /\ IF i.labels = {} THEN row[2] = None ELSE row[2] \in i.labels
               /\ i.state = "open"
               /\ label # None => row[2] = label
               /\ milestone # None => i.milestone = milestone
               /\ days # None => i.created < as_of - days})

StalePrs(days) ==
  Aggregate({<<p, None>> : p \in {q \in PullRequests :
               /\ q.state = "open" /\ ~q.draft
               /\ q.created < as_of - days
               /\ \A r \in q.reviews : r <= as_of - days}})

Entities(kind) ==
  CASE kind = "pr" -> PullRequests [] kind = "issue" -> Issues [] kind = "release" -> Releases

\* A miss is an answer.
Entity(kind, ref) ==
  [kind |-> "answer", items |-> {e \in Entities(kind) : e.ref = ref},
   count |-> Cardinality({e \in Entities(kind) : e.ref = ref})]

Tagged(tags) == {r \in Releases : r.ref \in tags}

-----------------------------------------------------------------------------
(* The machine.                                                            *)

LookupInit ==
  /\ setting \in Settings
  /\ as_of \in Dates
  /\ tool_defs \in Seedings
  /\ areas = AreasFile
  /\ stage = "select"
  /\ offered = [tools |-> {}, deferred |-> {}]
  /\ call = None
  /\ window = None
  /\ globs = None
  /\ dense = None
  /\ sparse = None
  /\ outcome = None

Select ==
  /\ stage = "select"
  /\ offered' \in Selections
  /\ stage' = "call"
  /\ UNCHANGED <<environment, call, window, globs, dense, sparse, outcome>>

\* Only ValueError and KeyError become an answer to the model.
Done(result) ==
  /\ stage' = "done"
  /\ outcome' = result
  /\ UNCHANGED <<environment, offered, call, window, globs, dense, sparse>>

Windowed == {"merged_prs", "commits_by_author"}

\* dispatch and _call up to the first await: the call is answered at once, or
\* goes on from a stage.
Answered(c, result) ==
  /\ stage = "call"
  /\ call' = c
  /\ stage' = "done"
  /\ outcome' = result
  /\ UNCHANGED <<environment, offered, window, globs, dense, sparse>>

Starts(c, first, w) ==
  /\ stage = "call"
  /\ call' = c
  /\ stage' = first
  /\ window' = w
  /\ UNCHANGED <<environment, offered, globs, dense, sparse, outcome>>

Refused(c) ==
  \/ c.name \notin Catalog
  \/ c.malformed
  \/ c.name \in MemoryTools /\ ~setting.memory

Refuse(c) == Refused(c) /\ Answered(c, Failure)

\* The memory manager answers.
CallMemory(c) ==
  ~Refused(c) /\ c.name \in MemoryTools /\ Answered(c, [kind |-> "memory"])

AfterWindow(c) == IF c.area = None THEN "rows" ELSE "area"

CallWindowed(c) ==
  /\ ~Refused(c) /\ c.name \in Windowed
  /\ LET w == Resolve(c.window, as_of)
     IN IF c.window.form = "release" THEN Starts(c, "release", None)
        ELSE IF w.kind # "window" THEN Answered(c, w)
        ELSE Starts(c, AfterWindow(c), <<w.since, w.until>>)

FirstStage(name) ==
  CASE name \in {"open_issues", "stale_prs"} -> "rows"
    [] name = "release_diff" -> "bounds"
    [] name \in {"pr_state", "issue_state", "release_info"} -> "entity"
    [] name \in SearchTools -> "search"

CallOther(c) ==
  /\ ~Refused(c) /\ c.name \notin Windowed \cup MemoryTools
  /\ Starts(c, FirstStage(c.name), None)

Dispatch(c) == Refuse(c) \/ CallMemory(c) \/ CallWindowed(c) \/ CallOther(c)

\* _window, the release-anchored form.
ReadRelease ==
  /\ stage = "release"
  /\ LET found == Tagged({call.window.tag})
     IN IF found = {} THEN Done(Failure)
        ELSE /\ window' = <<(CHOOSE r \in found : TRUE).at, as_of>>
             /\ stage' = AfterWindow(call)
             /\ UNCHANGED <<environment, offered, call, globs, dense, sparse, outcome>>

\* Mutant: an area that is not in the table matches nothing.
ReadAreaEmpty ==
  /\ stage = "area"
  /\ globs' = IF call.area \in DOMAIN areas THEN areas[call.area] ELSE {}
  /\ stage' = "rows"
  /\ UNCHANGED <<environment, offered, call, window, dense, sparse, outcome>>

\* An unknown area is an error, never an empty answer.
ReadArea ==
  /\ stage = "area"
  /\ IF call.area \in DOMAIN areas
     THEN /\ globs' = areas[call.area]
          /\ stage' = "rows"
          /\ UNCHANGED <<environment, offered, call, window, dense, sparse, outcome>>
     ELSE Done(Failure)

\* The age is subtracted by PostgreSQL, whose error dispatch does not catch.
TooLong(days) == days # None /\ days > Longest

ReadRows ==
  /\ stage = "rows"
  /\ Done(CASE call.name \in {"merged_prs", "release_diff"} -> MergedPrs(window[1], window[2], globs)
            [] call.name = "commits_by_author" -> CommitsByAuthor(window[1], globs)
            [] call.name = "open_issues" ->
                 IF TooLong(call.days) THEN Raised
                 ELSE OpenIssues(call.label, call.milestone, call.days)
            [] call.name = "stale_prs" ->
                 IF TooLong(call.days) THEN Raised ELSE StalePrs(call.days))

\* release_diff: both tags, in the order of their dates.
ReadBounds ==
  /\ stage = "bounds"
  /\ LET found == {r.at : r \in Tagged({call.from, call.to})}
     IN IF \E tag \in {call.from, call.to} : Tagged({tag}) = {} THEN Done(Failure)
        ELSE /\ window' = <<Min(found), Max(found)>>
             /\ stage' = "rows"
             /\ UNCHANGED <<environment, offered, call, globs, dense, sparse, outcome>>

ReadEntity ==
  /\ stage = "entity"
  /\ Done(Entity(CASE call.name = "pr_state" -> "pr" [] call.name = "issue_state" -> "issue"
                   [] call.name = "release_info" -> "release", call.ref))

\* The dense arm ranks every chunk, the sparse arm those that match; both stop
\* at ArmLimit.
Arms == {a \in SetToAllKPermutations(Chunks) : Len(a) <= ArmLimit}

ReadDense ==
  /\ stage = "search" /\ dense = None
  /\ dense' \in {a \in Arms : Len(a) = ArmLimit \/ ToSet(a) = Chunks}
  /\ UNCHANGED <<environment, stage, offered, call, window, globs, sparse, outcome>>

ReadSparse ==
  /\ stage = "search" /\ sparse = None /\ setting.hybrid
  /\ sparse' \in Arms
  /\ UNCHANGED <<environment, stage, offered, call, window, globs, dense, outcome>>

Ranked(ids) == [kind |-> "answer", items |-> ids, count |-> Len(ids)]

FuseArms ==
  /\ stage = "search" /\ dense # None
  /\ \/ setting.hybrid /\ sparse # None /\ Done(Ranked(Fuse(dense, sparse, TopK)))
     \/ ~setting.hybrid
        /\ Done(Ranked(SubSeq(dense, 1, IF TopK < Len(dense) THEN TopK ELSE Len(dense))))

\* A query fails in a way that is no ValueError.
QueryFails ==
  /\ stage \in {"release", "area", "rows", "bounds", "entity", "search"}
  /\ Done(Raised)

\* ingest's sync_areas, in two statements without a transaction.  What it does
\* before an area is to be read makes no difference.
DeleteAreas ==
  /\ stage \in {"release", "area"}
  /\ areas' = <<>>
  /\ UNCHANGED <<setting, as_of, tool_defs, stage, offered, call, window, globs, dense, sparse, outcome>>

InsertAreas ==
  /\ stage \in {"release", "area"} /\ areas = <<>>
  /\ areas' = AreasFile
  /\ UNCHANGED <<setting, as_of, tool_defs, stage, offered, call, window, globs, dense, sparse, outcome>>

\* seed_tools: the catalog in, what it no longer has out, in one transaction.
Seed ==
  /\ stage = "select"
  /\ tool_defs' = Catalog \cup (tool_defs \cap Synthetic)
  /\ UNCHANGED <<setting, as_of, areas, stage, offered, call, window, globs, dense, sparse, outcome>>

LookupNext ==
  \/ Select \/ (\E c \in Calls : Dispatch(c))
  \/ ReadRelease \/ ReadArea \/ ReadRows \/ ReadBounds \/ ReadEntity
  \/ ReadDense \/ ReadSparse \/ FuseArms \/ QueryFails
  \/ DeleteAreas \/ InsertAreas \/ Seed

LookupSpec == LookupInit /\ [][LookupNext]_lookupVars

-----------------------------------------------------------------------------
(* Properties.                                                             *)

Answer == stage = "done" /\ outcome.kind = "answer"

\* The period of the call's window, and whether there is one.
HasPeriod(w) ==
  CASE w.form = "release" -> Tagged({w.tag}) # {}
    [] w.form = "last" -> w.count > 0
    [] w.form = "month" -> w.month \in 1..12
    [] OTHER -> w.form \in {"since", "range", "year", "quarter", "half"}

During(w, n) ==
  n < as_of /\ IF w.form = "release" THEN \E r \in Tagged({w.tag}) : r.at <= n
               ELSE InPeriod(w, as_of, n)

Touches(f, area) ==
  area = None \/ \E path \in f.paths : \E g \in AreasFile[area] : IsPrefix(g, path)

Refs(fs) == [items |-> fs, count |-> Cardinality(fs), kind |-> "answer"]

\* What a facts tool answers is exactly the pull requests of the period that was
\* asked for, up to the session's date and in the area, each counted once; an
\* expression, area or tag that means nothing is never answered at all
\* (resolve, _window, areas.resolve, merged_prs, release_diff, stale_prs).
AnswersExact ==
  Answer =>
    CASE call.name = "merged_prs" ->
           /\ HasPeriod(call.window)
           /\ call.area \in (DOMAIN AreasFile) \cup {None}
           /\ outcome = Refs({p \in PullRequests : /\ p.state = "merged"
                                                  /\ During(call.window, p.merged)
                                                  /\ Touches(p, call.area)})
      [] call.name = "commits_by_author" ->
           /\ HasPeriod(call.window)
           /\ call.area \in (DOMAIN AreasFile) \cup {None}
           /\ outcome.count = Cardinality(outcome.items)
      [] call.name = "release_diff" ->
           \E r, s \in Releases :
             /\ {r.ref, s.ref} = {call.from, call.to} /\ r.at <= s.at
             /\ outcome = Refs({p \in PullRequests : /\ p.state = "merged"
                                                    /\ r.at <= p.merged /\ p.merged < s.at})
      [] call.name = "stale_prs" ->
           outcome = Refs({p \in PullRequests :
             /\ p.state = "open" /\ ~p.draft /\ as_of - p.created > call.days
             /\ as_of - Max({p.created} \cup p.reviews) >= call.days})
      [] OTHER -> TRUE

\* What both arms found outranks what one of them found, at whatever ranks, and
\* what an arm alone found keeps the arm's order; no chunk is listed twice and
\* none is left out while there is room (fuse, search).
BothArmsFirst ==
  Answer /\ call.name \in SearchTools /\ setting.hybrid =>
    LET ids == outcome.items
        both == ToSet(dense) \cap ToSet(sparse)
        all == ToSet(dense) \cup ToSet(sparse)
    IN /\ Cardinality(ToSet(ids)) = Len(ids)
       /\ Len(ids) = Min({TopK, Cardinality(all)})
       /\ \E n \in 0..Len(ids) :
            /\ ToSet(SubSeq(ids, 1, n)) \subseteq both
            /\ n < Len(ids) => ToSet(SubSeq(ids, 1, n)) = both
       /\ \A arm \in {dense, sparse} : \A r, s \in DOMAIN arm : \A j \in DOMAIN ids :
            r < s /\ {arm[r], arm[s]} \cap both = {} /\ ids[j] = arm[s] =>
              \E i \in 1..(j - 1) : ids[i] = arm[r]

\* Every tool the model is offered is one that dispatch will run: a stale seed is
\* never offered, the memory tools are exactly where there is a memory, ToolK
\* bounds what was retrieved, and something is always loaded (select,
\* extra_request_params, definitions, dispatch).
OffersWhatItDispatches ==
  stage # "select" =>
    /\ MemoryTools \cap offered.tools = (IF setting.memory THEN MemoryTools ELSE {})
    /\ setting.mode = "semantic" => Cardinality(offered.tools \ MemoryTools) <= ToolK
    /\ setting.mode # "semantic" => offered.tools \ MemoryTools = Catalog \ MemoryTools
    /\ offered.deferred \subseteq offered.tools \ MemoryTools
    /\ setting.mode = "native" => offered.deferred # offered.tools
    /\ \A name \in offered.tools : ~Refused([name |-> name, malformed |-> FALSE])
=============================================================================
