--------------------------- MODULE Consolidation ---------------------------
(***************************************************************************)
(* Consolidator.consolidate (app/memory/consolidation.py), the nightly     *)
(* script and POST /admin/consolidate at once, over the store's promise    *)
(* (VersionedMemory): facts may be recorded and a human may revert between *)
(* any two awaits of a run.                                                *)
(*                                                                         *)
(* What the embeddings decide is free: any grouping may come of them.  The *)
(* model's answer is free too.                                             *)
(***************************************************************************)
EXTENDS Integers, FiniteSets

CONSTANTS
  EpisodeIds,     \* uuids of the episodic memories of one user
  SemanticIds,    \* uuids of the semantic memories consolidation writes
  Entities,
  Runs,           \* calls of consolidate, one life each
  MinClusterSize, \* MIN_CLUSTER_SIZE, 3 in the code
  MaxReverts,     \* bound: reverts
  MaxNamed        \* bound: ids the model names as contradicted

Ids == EpisodeIds \cup SemanticIds

ASSUME KindsAssumption == EpisodeIds \cap SemanticIds = {}
ASSUME SizeAssumption == MinClusterSize \in Nat \ {0}
ASSUME BoundsAssumption == MaxReverts \in Nat /\ MaxNamed \in Nat

VARIABLES
  revisions,    \* the store
  current,
  entities,     \* per episodic memory: what it is about
  source_ids,   \* per memory: its evidence
  superseded,   \* the windows closed by a supersede, and by what
  run           \* per call: where it is, and its report

vars == <<revisions, current, entities, source_ids, superseded, run>>

Store == INSTANCE VersionedMemory WITH Contents <- {"episodic", "semantic"}

Run == [pc : {"read", "call", "write", "supersede", "done", "aborted"},
        clusters : SUBSET SUBSET EpisodeIds,  \* yet to be consolidated
        cluster : SUBSET EpisodeIds,          \* the one it is at
        contradicts : SUBSET Ids,             \* ids the model named, yet to close
        written : SUBSET SemanticIds,
        memory : SUBSET SemanticIds,          \* the one it has just written
        superseded : Nat]                     \* memories_superseded

Live(kind) == {id \in kind : current[id] # 0}

SharedEntities(cluster) == {e \in Entities : \A id \in cluster : e \in entities[id]}

-----------------------------------------------------------------------------
Init ==
  /\ Store!Init
  /\ entities = [id \in EpisodeIds |-> {}]
  /\ source_ids = [id \in Ids |-> {}]
  /\ superseded = {}
  /\ run = [r \in Runs |-> [pc |-> "read", clusters |-> {}, cluster |-> {},
                            contradicts |-> {}, written |-> {}, memory |-> {},
                            superseded |-> 0]]

\* An extraction or the memory_write tool writes a fact (Conversation, AgentLoop).
Record(id) ==
  /\ Store!Create(id, "episodic")
  /\ \E about \in SUBSET Entities : entities' = [entities EXCEPT ![id] = about]
  /\ UNCHANGED <<source_ids, superseded, run>>

\* A human reverts: entities and source_ids are copied with the content.
Revert(id) ==
  /\ Cardinality({r \in revisions : r.revision > 1}) < MaxReverts
  /\ Store!Revert(id)
  /\ UNCHANGED <<entities, source_ids, superseded, run>>

\* Mutant of ClustersOf: any number is a pattern.
ClustersOfAnySize(ids) ==
  {C \in SUBSET {c \in SUBSET ids : c # {} /\ SharedEntities(c) # {}} :
     \A c, d \in C : c = d \/ c \cap d = {}}

\* cluster_memories: a label per memory, then the size and the entity rule.
ClustersOf(ids) ==
  {C \in SUBSET {c \in SUBSET ids :
                   Cardinality(c) >= MinClusterSize /\ SharedEntities(c) # {}} :
     \A c, d \in C : c = d \/ c \cap d = {}}

\* live_with_vectors: one query, and everything after it works from its rows.
Read(r) ==
  /\ run[r].pc = "read"
  /\ IF Cardinality(Live(EpisodeIds)) < MinClusterSize
     THEN run' = [run EXCEPT ![r].pc = "done"]
     ELSE \E C \in ClustersOf(Live(EpisodeIds)) :
            run' = [run EXCEPT ![r].pc = "call", ![r].clusters = C]
  /\ UNCHANGED <<revisions, current, entities, source_ids, superseded>>

\* _call on the next cluster: nothing usable, or a statement to write and any
\* ids at all in contradicts.
Call(r) ==
  /\ run[r].pc = "call"
  /\ \E c \in run[r].clusters :
       \/ run' = [run EXCEPT ![r].clusters = @ \ {c}]
       \/ \E named \in SUBSET Ids :
            /\ Cardinality(named) <= MaxNamed
            /\ run' = [run EXCEPT ![r].clusters = @ \ {c}, ![r].cluster = c,
                                  ![r].contradicts = named, ![r].pc = "write"]
  /\ UNCHANGED <<revisions, current, entities, source_ids, superseded>>

\* store.write of the semantic memory, always under a new id.
Write(r) ==
  /\ run[r].pc = "write"
  /\ \E id \in SemanticIds :
       /\ Store!Create(id, "semantic")
       /\ source_ids' = [source_ids EXCEPT ![id] = run[r].cluster]
       /\ run' = [run EXCEPT ![r].written = @ \cup {id}, ![r].memory = {id},
                             ![r].pc = "supersede"]
  /\ UNCHANGED <<entities, superseded>>

\* Mutants: any id the model names is closed; a failure counts as superseded.
InClusterOrNot(r, id) == TRUE

FailsCounted(r, id) ==
  run' = [run EXCEPT ![r].contradicts = @ \ {id}, ![r].superseded = @ + 1]

\* What the model names is closed only when it was shown it.
InCluster(r, id) == id \in run[r].cluster

\* MemoryNotFound, or a store that fails, is logged and passed over.
Fails(r, id) == run' = [run EXCEPT ![r].contradicts = @ \ {id}]

\* The window is closed.  A connection lost after the commit raises all the
\* same, and the run takes it for a failure.
Closes(r, id) ==
  /\ Store!Supersede(id)
  /\ \E by \in run[r].memory :
       superseded' = superseded \cup {[id |-> id, revision |-> current[id], by |-> by]}
  /\ \E counted \in {0, 1} :
       run' = [run EXCEPT ![r].contradicts = @ \ {id}, ![r].superseded = @ + counted]

\* store.supersede for each id the model named, an id from outside the cluster
\* being skipped.
Supersede(r) ==
  /\ run[r].pc = "supersede"
  /\ \E id \in run[r].contradicts :
       \/ InCluster(r, id) /\ Closes(r, id)
       \/ InCluster(r, id) /\ Fails(r, id) /\ UNCHANGED <<revisions, current, superseded>>
       \/ /\ ~InCluster(r, id)
          /\ run' = [run EXCEPT ![r].contradicts = @ \ {id}]
          /\ UNCHANGED <<revisions, current, superseded>>
  /\ UNCHANGED <<entities, source_ids>>

NextCluster(r) ==
  /\ run[r].pc = "supersede"
  /\ run[r].contradicts = {}
  /\ run' = [run EXCEPT ![r].pc = "call", ![r].cluster = {}, ![r].memory = {}]
  /\ UNCHANGED <<revisions, current, entities, source_ids, superseded>>

Report(r) ==
  /\ run[r].pc = "call"
  /\ run[r].clusters = {}
  /\ run' = [run EXCEPT ![r].pc = "done"]
  /\ UNCHANGED <<revisions, current, entities, source_ids, superseded>>

\* The query, the embedder or the write raises, or the process dies: what is
\* written stays written.
Abort(r) ==
  /\ run[r].pc \notin {"done", "aborted"}
  /\ run' = [run EXCEPT ![r].pc = "aborted", ![r].clusters = {}, ![r].cluster = {},
                       ![r].contradicts = {}, ![r].memory = {}]
  /\ UNCHANGED <<revisions, current, entities, source_ids, superseded>>

Step(r) ==
  Read(r) \/ Call(r) \/ Write(r) \/ Supersede(r) \/ NextCluster(r) \/ Report(r)

Next ==
  \/ \E id \in EpisodeIds : Record(id)
  \/ \E id \in Ids : Revert(id)
  \/ \E r \in Runs : Step(r) \/ Abort(r)

Spec == Init /\ [][Next]_vars

-----------------------------------------------------------------------------
\* Every variable holds values of its shape.
TypeOK ==
  /\ revisions \subseteq Store!Revision
  /\ current \in [Ids -> Nat]
  /\ entities \in [EpisodeIds -> SUBSET Entities]
  /\ source_ids \in [Ids -> SUBSET EpisodeIds]
  /\ superseded \subseteq [id : Ids, revision : Nat \ {0}, by : SemanticIds]
  /\ run \in [Runs -> Run]

\* A window consolidation closed was closed by a memory that is stored and
\* whose evidence includes the memory it closed, whatever ids the model named.
ClosesOwnEvidence ==
  \A c \in superseded : Store!HistoryOf(c.by) # {} /\ c.id \in source_ids[c.by]

\* The evidence of every semantic memory is still there, episodic, large
\* enough to be a pattern and about a common entity.
EvidenceStands ==
  \A s \in SemanticIds : Store!HistoryOf(s) # {} =>
    /\ Cardinality(source_ids[s]) >= MinClusterSize
    /\ SharedEntities(source_ids[s]) # {}
    /\ \A id \in source_ids[s] : Store!HistoryOf(id) # {}

\* A run's report never claims more memories superseded than windows it
\* closed, although another run may have closed the same memories before it and
\* a human may reopen them.
ReportNeverOverstates ==
  \A r \in Runs :
    run[r].superseded <= Cardinality({c \in superseded : c.by \in run[r].written})

\* Consolidating an observation's evidence again, with fresh evidence or none,
\* revises the semantic memory instead of adding one beside it (TRD 8.3).
ReconsolidationRevises ==
  \A s, t \in Live(SemanticIds) : source_ids[s] \subseteq source_ids[t] => s = t
=============================================================================
