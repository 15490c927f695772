------------------------ MODULE ConsolidationProofs ------------------------
(***************************************************************************)
(* Proofs about Consolidation, for any number of runs, memories and        *)
(* reverts, any clusters and any answers of the model: evidence stands  *)
(* and is the run's own, and reports do not overstate.                     *)
(***************************************************************************)
EXTENDS Consolidation, FiniteSetTheorems, TLAPS

Recorded(id) == \E x \in revisions : x.id = id

\* A memory in force is a revision, and so is every window closed; the one in
\* force now is a later one.
Windowed ==
  /\ \A id \in Ids : current[id] # 0 =>
       \E x \in revisions : x.id = id /\ x.revision = current[id]
  /\ \A c \in superseded :
       /\ current[c.id] = 0 \/ c.revision < current[c.id]
       /\ \E x \in revisions : x.id = c.id /\ x.revision = c.revision

\* What a semantic memory may be made from.
Pattern(cluster) ==
  /\ Cardinality(cluster) >= MinClusterSize
  /\ SharedEntities(cluster) # {}
  /\ \A id \in cluster : Recorded(id)

\* The clusters a run has yet to come to and the one it is at are patterns, and
\* what it has just written has the evidence of the one it is at.
InHand(r) ==
  /\ \A c \in run[r].clusters : Pattern(c)
  /\ run[r].pc = "write" => Pattern(run[r].cluster)
  /\ \A s \in run[r].written : Recorded(s)
  /\ \A s \in run[r].memory : s \in run[r].written /\ source_ids[s] = run[r].cluster
  /\ run[r].pc # "supersede" => run[r].memory = {}
  /\ run[r].pc = "read" => run[r].written = {}

ClosedBy(r) == {c \in superseded : c.by \in run[r].written}

ConsolidationInv ==
  /\ TypeOK
  /\ Windowed
  /\ \A r \in Runs : InHand(r)
  /\ IsFiniteSet(superseded)
  /\ ClosesOwnEvidence
  /\ EvidenceStands
  /\ ReportNeverOverstates

\* What no step takes back about a memory that is stored.
Keeps ==
  /\ revisions \subseteq revisions'
  /\ \A id \in EpisodeIds : Recorded(id) => entities'[id] = entities[id]
  /\ \A id \in Ids : Recorded(id) => source_ids'[id] = source_ids[id]

-----------------------------------------------------------------------------
LEMMA HistoryIsRecorded ==
  ASSUME NEW id
  PROVE  Store!HistoryOf(id) # {} <=> Recorded(id)
  BY DEF Store!HistoryOf, Recorded

LEMMA CreateTypes ==
  ASSUME TypeOK, NEW id \in Ids, NEW content \in {"episodic", "semantic"},
         Store!Create(id, content)
  PROVE  /\ revisions' \subseteq Store!Revision
         /\ current' \in [Ids -> Nat]
         /\ revisions \subseteq revisions'
         /\ ~Recorded(id)
  BY DEF TypeOK, Store!Create, Store!Revision, Store!HistoryOf, Recorded

LEMMA RevertTypes ==
  ASSUME TypeOK, NEW id \in Ids, Store!Revert(id)
  PROVE  /\ revisions' \subseteq Store!Revision
         /\ current' \in [Ids -> Nat]
         /\ revisions \subseteq revisions'
  <1>1. PICK to, last \in Store!HistoryOf(id) :
          /\ revisions' = revisions \cup
               {[id |-> id, revision |-> last.revision + 1, content |-> to.content]}
          /\ current' = [current EXCEPT ![id] = last.revision + 1]
    BY DEF Store!Revert
  <1>2. to \in Store!Revision /\ last \in Store!Revision
    BY DEF TypeOK, Store!HistoryOf
  <1>3. /\ last.revision + 1 \in Nat \ {0}
        /\ to.content \in {"episodic", "semantic"}
    BY <1>2 DEF Store!Revision
  <1>4. [id |-> id, revision |-> last.revision + 1, content |-> to.content] \in Store!Revision
    BY <1>3 DEF Store!Revision
  <1> QED
    BY <1>1, <1>3, <1>4 DEF TypeOK

LEMMA ClustersTyped ==
  ASSUME NEW ids \in SUBSET EpisodeIds, NEW C \in ClustersOf(ids)
  PROVE  /\ C \in SUBSET SUBSET EpisodeIds
         /\ \A c \in C : Cardinality(c) >= MinClusterSize /\ SharedEntities(c) # {} /\ c \subseteq ids
  BY DEF ClustersOf

-----------------------------------------------------------------------------
LEMMA TypeStep ==
  ASSUME TypeOK, [Next]_vars
  PROVE  TypeOK' /\ Keeps
  <1>1. ASSUME NEW id \in EpisodeIds, Record(id) PROVE TypeOK' /\ Keeps
    <2>1. /\ revisions' \subseteq Store!Revision
          /\ current' \in [Ids -> Nat]
          /\ revisions \subseteq revisions'
          /\ ~Recorded(id)
      BY <1>1, CreateTypes DEF Record, Ids
    <2> QED
      BY <1>1, <2>1 DEF Record, TypeOK, Keeps
  <1>2. ASSUME NEW id \in Ids, Revert(id) PROVE TypeOK' /\ Keeps
    BY <1>2, RevertTypes DEF Revert, TypeOK, Keeps
  <1>3. ASSUME NEW r \in Runs, Read(r) PROVE TypeOK' /\ Keeps
    <2>1. \A C \in ClustersOf(Live(EpisodeIds)) : C \in SUBSET SUBSET EpisodeIds
      BY ClustersTyped DEF Live
    <2> QED
      BY <1>3, <2>1 DEF Read, TypeOK, Keeps, Run
  <1>4. ASSUME NEW r \in Runs, Call(r) PROVE TypeOK' /\ Keeps
    <2> run[r] \in Run
      BY DEF TypeOK
    <2>1. run' \in [Runs -> Run]
      <3>1. ASSUME NEW c \in run[r].clusters,
                   run' = [run EXCEPT ![r].clusters = @ \ {c}]
            PROVE  run' \in [Runs -> Run]
        <4>1. [run[r] EXCEPT !.clusters = @ \ {c}] \in Run
          BY DEF Run
        <4> QED
          BY <3>1, <4>1 DEF TypeOK
      <3>2. ASSUME NEW c \in run[r].clusters, NEW named \in SUBSET Ids,
                   run' = [run EXCEPT ![r].clusters = @ \ {c}, ![r].cluster = c,
                                      ![r].contradicts = named, ![r].pc = "write"]
            PROVE  run' \in [Runs -> Run]
        <4>1. [run[r] EXCEPT !.clusters = @ \ {c}, !.cluster = c,
                             !.contradicts = named, !.pc = "write"] \in Run
          BY DEF Run
        <4> QED
          BY <3>2, <4>1 DEF TypeOK
      <3> QED
        BY <1>4, <3>1, <3>2 DEF Call
    <2> QED
      BY <1>4, <2>1 DEF Call, TypeOK, Keeps
  <1>5. ASSUME NEW r \in Runs, Write(r) PROVE TypeOK' /\ Keeps
    <2>1. PICK id \in SemanticIds :
            /\ Store!Create(id, "semantic")
            /\ source_ids' = [source_ids EXCEPT ![id] = run[r].cluster]
            /\ run' = [run EXCEPT ![r].written = @ \cup {id}, ![r].memory = {id},
                                  ![r].pc = "supersede"]
      BY <1>5 DEF Write
    <2>2. /\ revisions' \subseteq Store!Revision
          /\ current' \in [Ids -> Nat]
          /\ revisions \subseteq revisions'
          /\ ~Recorded(id)
      BY <2>1, CreateTypes DEF Ids
    <2>3. run[r] \in Run
      BY DEF TypeOK
    <2>4. source_ids' \in [Ids -> SUBSET EpisodeIds]
      BY <2>1, <2>3 DEF TypeOK, Run
    <2>5. [run[r] EXCEPT !.written = @ \cup {id}, !.memory = {id}, !.pc = "supersede"] \in Run
      BY <2>3 DEF Run
    <2>6. run' \in [Runs -> Run]
      BY <2>1, <2>5 DEF TypeOK
    <2> QED
      BY <1>5, <2>1, <2>2, <2>4, <2>6 DEF Write, TypeOK, Keeps
  <1>6. ASSUME NEW r \in Runs, Supersede(r) PROVE TypeOK' /\ Keeps
    <2>1. PICK id \in run[r].contradicts :
            \/ Closes(r, id)
            \/ Fails(r, id) /\ UNCHANGED <<revisions, current, superseded>>
            \/ /\ run' = [run EXCEPT ![r].contradicts = @ \ {id}]
               /\ UNCHANGED <<revisions, current, superseded>>
      BY <1>6 DEF Supersede
    <2>0. run[r] \in Run
      BY DEF TypeOK
    <2>2. id \in Ids
      BY <2>0 DEF Run
    <2>6. ASSUME run' = [run EXCEPT ![r].contradicts = @ \ {id}] PROVE run' \in [Runs -> Run]
      <3>1. [run[r] EXCEPT !.contradicts = @ \ {id}] \in Run
        BY <2>0 DEF Run
      <3> QED
        BY <2>6, <3>1 DEF TypeOK
    <2>3. CASE Closes(r, id)
      <3>1. PICK by \in run[r].memory :
              superseded' = superseded \cup {[id |-> id, revision |-> current[id], by |-> by]}
        BY <2>3 DEF Closes
      <3>2. current[id] \in Nat \ {0} /\ by \in SemanticIds
        BY <2>2, <2>3 DEF Closes, Store!Supersede, TypeOK, Run
      <3>3. superseded' \subseteq [id : Ids, revision : Nat \ {0}, by : SemanticIds]
        BY <2>2, <3>1, <3>2 DEF TypeOK
      <3>4. /\ revisions' = revisions
            /\ current' \in [Ids -> Nat]
        BY <2>3 DEF Closes, Store!Supersede, TypeOK
      <3>5. run' \in [Runs -> Run]
        <4>1. PICK counted \in {0, 1} :
                run' = [run EXCEPT ![r].contradicts = @ \ {id}, ![r].superseded = @ + counted]
          BY <2>3 DEF Closes
        <4>2. run[r].superseded + counted \in Nat /\ run[r].contradicts \ {id} \in SUBSET Ids
          BY <2>0 DEF Run
        <4>3. [run[r] EXCEPT !.contradicts = @ \ {id}, !.superseded = @ + counted] \in Run
          BY <2>0, <4>2 DEF Run
        <4> QED
          BY <4>1, <4>3 DEF TypeOK
      <3> QED
        BY <1>6, <3>3, <3>4, <3>5 DEF Supersede, TypeOK, Keeps
    <2>4. CASE Fails(r, id) /\ UNCHANGED <<revisions, current, superseded>>
      BY <1>6, <2>4, <2>6 DEF Supersede, Fails, TypeOK, Keeps
    <2>5. CASE /\ run' = [run EXCEPT ![r].contradicts = @ \ {id}]
               /\ UNCHANGED <<revisions, current, superseded>>
      BY <1>6, <2>5, <2>6 DEF Supersede, TypeOK, Keeps
    <2> QED
      BY <2>1, <2>3, <2>4, <2>5
  <1>7. ASSUME NEW r \in Runs, NextCluster(r) PROVE TypeOK' /\ Keeps
    <2>1. [run[r] EXCEPT !.pc = "call", !.cluster = {}, !.memory = {}] \in Run
      BY DEF TypeOK, Run
    <2>2. run' \in [Runs -> Run]
      BY <1>7, <2>1 DEF NextCluster, TypeOK
    <2> QED
      BY <1>7, <2>2 DEF NextCluster, TypeOK, Keeps
  <1>8. ASSUME NEW r \in Runs, Report(r) PROVE TypeOK' /\ Keeps
    BY <1>8 DEF Report, TypeOK, Keeps, Run
  <1>9. ASSUME NEW r \in Runs, Abort(r) PROVE TypeOK' /\ Keeps
    <2>1. [run[r] EXCEPT !.pc = "aborted", !.clusters = {}, !.cluster = {},
                      !.contradicts = {}, !.memory = {}] \in Run
      BY DEF TypeOK, Run
    <2>2. run' \in [Runs -> Run]
      BY <1>9, <2>1 DEF Abort, TypeOK
    <2> QED
      BY <1>9, <2>2 DEF Abort, TypeOK, Keeps
  <1>10. CASE UNCHANGED vars
    BY <1>10 DEF vars, TypeOK, Keeps
  <1> QED
    BY <1>1, <1>2, <1>3, <1>4, <1>5, <1>6, <1>7, <1>8, <1>9, <1>10 DEF Next, Step

-----------------------------------------------------------------------------
\* A run goes on with no more than it had in hand.
Onward(r) ==
  /\ run'[r].clusters \subseteq run[r].clusters
  /\ run'[r].written = run[r].written
  /\ run'[r].pc \in {"read", "write"} =>
       run'[r].pc = run[r].pc /\ run'[r].cluster = run[r].cluster
  /\ \/ run'[r].memory = {}
     \/ /\ run'[r].memory = run[r].memory
        /\ run'[r].pc = run[r].pc
        /\ run'[r].cluster = run[r].cluster

LEMMA PatternStands ==
  ASSUME Keeps, NEW c \in SUBSET EpisodeIds, Pattern(c)
  PROVE  Pattern(c)'
  <1>1. \A id \in c : Recorded(id)' /\ entities'[id] = entities[id]
    BY DEF Keeps, Pattern, Recorded
  <1>2. SharedEntities(c)' = SharedEntities(c)
    BY <1>1 DEF SharedEntities
  <1> QED
    BY <1>1, <1>2 DEF Pattern

LEMMA OnwardKeepsInHand ==
  ASSUME TypeOK, Keeps, NEW r \in Runs, InHand(r), Onward(r)
  PROVE  InHand(r)'
  <1>1. /\ run[r].clusters \in SUBSET SUBSET EpisodeIds
        /\ run[r].cluster \in SUBSET EpisodeIds
        /\ run[r].written \in SUBSET Ids
    BY DEF TypeOK, Run, Ids
  <1>2. \A c \in run'[r].clusters : Pattern(c)'
    BY <1>1, PatternStands DEF InHand, Onward
  <1>3. run'[r].pc = "write" => Pattern(run[r].cluster)'
    BY <1>1, PatternStands DEF InHand, Onward
  <1>4. \A s \in run[r].written : Recorded(s)' /\ source_ids'[s] = source_ids[s]
    BY <1>1 DEF InHand, Keeps, Recorded
  <1>5. \A s \in run'[r].memory : s \in run'[r].written /\ source_ids'[s] = run'[r].cluster
    BY <1>4 DEF InHand, Onward
  <1>6. /\ run'[r].pc # "supersede" => run'[r].memory = {}
        /\ run'[r].pc = "read" => run'[r].written = {}
    BY DEF InHand, Onward
  <1>7. run'[r].pc = "write" => run'[r].cluster = run[r].cluster
    BY DEF Onward
  <1>8. \A s \in run'[r].written : Recorded(s)'
    BY <1>4 DEF Onward
  <1> QED
    BY <1>2, <1>3, <1>5, <1>6, <1>7, <1>8 DEF InHand

\* The calls of consolidate that take no step, and those that take one which
\* writes nothing new, go onward.
LEMMA OnwardSteps ==
  ASSUME TypeOK, [Next]_vars, NEW r \in Runs, InHand(r)
  PROVE  \/ Onward(r)
         \/ Read(r) /\ run'[r].pc = "call"
         \/ Call(r) /\ run'[r].pc = "write"
         \/ Write(r)
  <1>1. ASSUME run' = run PROVE Onward(r)
    BY <1>1 DEF Onward
  <1>2. ASSUME NEW q \in Runs, q # r, Step(q) \/ Abort(q) PROVE run'[r] = run[r]
    BY <1>2 DEF TypeOK, Step, Abort, Read, Call, Write, Supersede, Closes, Fails, NextCluster, Report
  <1>3. ASSUME run'[r] = run[r] PROVE Onward(r)
    BY <1>3 DEF Onward
  <1>4. ASSUME Read(r), run'[r].pc # "call" PROVE Onward(r)
    <2>1. run' = [run EXCEPT ![r].pc = "done"] /\ run[r].pc = "read"
      <3>1. ASSUME NEW C, run' = [run EXCEPT ![r].pc = "call", ![r].clusters = C]
            PROVE  run'[r].pc = "call"
        BY <3>1 DEF TypeOK, Run
      <3> QED
        BY <1>4, <3>1 DEF Read
    <2> QED
      BY <2>1 DEF Onward, InHand, TypeOK, Run
  <1>5. ASSUME Call(r), run'[r].pc # "write" PROVE Onward(r)
    <2>1. PICK c \in run[r].clusters :
            \/ run' = [run EXCEPT ![r].clusters = @ \ {c}]
            \/ \E named \in SUBSET Ids :
                 run' = [run EXCEPT ![r].clusters = @ \ {c}, ![r].cluster = c,
                                    ![r].contradicts = named, ![r].pc = "write"]
      BY <1>5 DEF Call
    <2>2. run' = [run EXCEPT ![r].clusters = @ \ {c}]
      <3>1. ASSUME NEW named,
                   run' = [run EXCEPT ![r].clusters = @ \ {c}, ![r].cluster = c,
                                      ![r].contradicts = named, ![r].pc = "write"]
            PROVE  run'[r].pc = "write"
        <4>1. run'[r] = [run[r] EXCEPT !.clusters = @ \ {c}, !.cluster = c,
                                       !.contradicts = named, !.pc = "write"]
          BY <3>1 DEF TypeOK
        <4> QED
          BY <4>1 DEF TypeOK, Run
      <3> QED
        BY <1>5, <2>1, <3>1
    <2>3. run'[r].pc = "call"
      BY <1>5, <2>2 DEF Call, TypeOK, Run
    <2> QED
      BY <2>2, <2>3 DEF Onward, TypeOK, Run
  <1>6. ASSUME Supersede(r) PROVE Onward(r)
    <2>1. PICK id \in run[r].contradicts :
            \/ Closes(r, id)
            \/ run' = [run EXCEPT ![r].contradicts = @ \ {id}]
      BY <1>6 DEF Supersede, Fails
    <2>2. run[r].pc = "supersede" /\ run[r] \in Run
      BY <1>6 DEF Supersede, TypeOK
    <2>3. CASE Closes(r, id)
      BY <2>2, <2>3 DEF Closes, Onward, TypeOK, Run
    <2>4. CASE run' = [run EXCEPT ![r].contradicts = @ \ {id}]
      BY <2>2, <2>4 DEF Onward, TypeOK, Run
    <2> QED
      BY <2>1, <2>3, <2>4
  <1>7. ASSUME NextCluster(r) \/ Report(r) \/ Abort(r) PROVE Onward(r)
    <2>1. CASE NextCluster(r)
      <3>1. run'[r] = [run[r] EXCEPT !.pc = "call", !.cluster = {}, !.memory = {}]
        BY <2>1 DEF NextCluster, TypeOK
      <3> QED
        BY <3>1 DEF Onward, TypeOK, Run
    <2>2. CASE Report(r)
      BY <2>2 DEF Report, Onward, InHand, TypeOK, Run
    <2>3. CASE Abort(r)
      <3>1. run'[r] = [run[r] EXCEPT !.pc = "aborted", !.clusters = {}, !.cluster = {},
                                     !.contradicts = {}, !.memory = {}]
        BY <2>3 DEF Abort, TypeOK
      <3> QED
        BY <3>1 DEF Onward, TypeOK, Run
    <2> QED
      BY <1>7, <2>1, <2>2, <2>3
  <1>8. \A id : Record(id) \/ Revert(id) => run' = run
    BY Zenon DEF Record, Revert
  <1> QED
    BY <1>1, <1>2, <1>3, <1>4, <1>5, <1>6, <1>7, <1>8 DEF Next, Step, vars

\* After the query, the clusters found are in hand and nothing is written.
LEMMA ReadKeepsInHand ==
  ASSUME TypeOK, Windowed, Keeps, NEW r \in Runs, InHand(r),
         Read(r), run'[r].pc = "call"
  PROVE  InHand(r)'
  <1>1. run[r] \in Run /\ run[r].pc = "read" /\ run[r].written = {} /\ run[r].memory = {}
    BY DEF Read, InHand, TypeOK
  <1>2. PICK C \in ClustersOf(Live(EpisodeIds)) :
          run' = [run EXCEPT ![r].pc = "call", ![r].clusters = C]
    <2>1. ASSUME run' = [run EXCEPT ![r].pc = "done"] PROVE FALSE
      BY <1>1, <2>1 DEF TypeOK, Run
    <2> QED
      BY <2>1 DEF Read
  <1>3. run'[r] = [run[r] EXCEPT !.pc = "call", !.clusters = C]
    BY <1>2 DEF TypeOK
  <1>4. \A id \in Live(EpisodeIds) : Recorded(id)
    BY DEF Live, Windowed, Recorded, Ids
  <1>5. \A c \in C : c \in SUBSET EpisodeIds /\ Pattern(c)
    BY <1>4, ClustersTyped DEF Pattern, Live
  <1>6. \A c \in C : Pattern(c)'
    BY <1>5, PatternStands
  <1> QED
    BY <1>1, <1>3, <1>6 DEF InHand, Run

\* The cluster the model has answered about was in hand.
LEMMA CallKeepsInHand ==
  ASSUME TypeOK, Keeps, NEW r \in Runs, InHand(r), Call(r), run'[r].pc = "write"
  PROVE  InHand(r)'
  <1>1. run[r] \in Run /\ run[r].pc = "call" /\ run[r].memory = {}
    BY DEF Call, InHand, TypeOK
  <1>2. PICK c \in run[r].clusters, named \in SUBSET Ids :
          run' = [run EXCEPT ![r].clusters = @ \ {c}, ![r].cluster = c,
                             ![r].contradicts = named, ![r].pc = "write"]
    <2>1. ASSUME NEW c, run' = [run EXCEPT ![r].clusters = @ \ {c}] PROVE FALSE
      BY <1>1, <2>1 DEF TypeOK, Run
    <2> QED
      BY <2>1 DEF Call
  <1>3. run'[r] = [run[r] EXCEPT !.clusters = @ \ {c}, !.cluster = c,
                                 !.contradicts = named, !.pc = "write"]
    BY <1>2 DEF TypeOK
  <1>4. /\ run'[r].clusters = run[r].clusters \ {c}
        /\ run'[r].cluster = c
        /\ run'[r].pc = "write"
        /\ run'[r].written = run[r].written
        /\ run'[r].memory = {}
    BY <1>1, <1>3 DEF Run
  <1>5. \A d \in run[r].clusters : Pattern(d)'
    BY <1>1, PatternStands DEF InHand, Run
  <1>6. \A s \in run[r].written : Recorded(s)' /\ source_ids'[s] = source_ids[s]
    BY <1>1 DEF InHand, Keeps, Recorded, Run, Ids
  <1> QED
    BY <1>4, <1>5, <1>6 DEF InHand

LEMMA WritePicks ==
  ASSUME TypeOK, NEW r \in Runs, Write(r)
  PROVE  \E id \in SemanticIds :
           /\ ~Recorded(id) /\ Recorded(id)'
           /\ Store!Create(id, "semantic")
           /\ run[r].pc = "write"
           /\ source_ids'[id] = run[r].cluster
           /\ \A s \in Ids : s # id => source_ids'[s] = source_ids[s]
           /\ \A q \in Runs : q # r => run'[q] = run[q]
           /\ run'[r] = [run[r] EXCEPT !.written = @ \cup {id}, !.memory = {id},
                                       !.pc = "supersede"]
  <1>1. PICK id \in SemanticIds :
          /\ Store!Create(id, "semantic")
          /\ source_ids' = [source_ids EXCEPT ![id] = run[r].cluster]
          /\ run' = [run EXCEPT ![r].written = @ \cup {id}, ![r].memory = {id},
                                ![r].pc = "supersede"]
    BY DEF Write
  <1>2. ~Recorded(id) /\ Recorded(id)'
    <2> DEFINE new == [id |-> id, revision |-> 1, content |-> "semantic"]
    <2>1. ~Recorded(id) /\ revisions' = revisions \cup {new}
      BY <1>1 DEF Store!Create, Store!HistoryOf, Recorded
    <2>2. new \in revisions' /\ new.id = id
      BY <2>1
    <2> QED
      BY <2>1, <2>2 DEF Recorded
  <1>3. id \in Ids
    BY DEF Ids
  <1> QED
    BY <1>1, <1>2, <1>3 DEF Write, TypeOK

\* What is written has the evidence in hand.
LEMMA WriteKeepsInHand ==
  ASSUME TypeOK, Keeps, NEW r \in Runs, InHand(r), Write(r)
  PROVE  InHand(r)'
  <1>1. PICK id \in SemanticIds :
          /\ ~Recorded(id) /\ Recorded(id)'
          /\ run[r].pc = "write"
          /\ source_ids'[id] = run[r].cluster
          /\ run'[r] = [run[r] EXCEPT !.written = @ \cup {id}, !.memory = {id},
                                      !.pc = "supersede"]
    BY WritePicks
  <1>2. run[r] \in Run
    BY DEF TypeOK
  <1>3. /\ run'[r].clusters = run[r].clusters
        /\ run'[r].cluster = run[r].cluster
        /\ run'[r].pc = "supersede"
        /\ run'[r].written = run[r].written \cup {id}
        /\ run'[r].memory = {id}
    BY <1>1, <1>2 DEF Run
  <1>4. \A c \in run[r].clusters : Pattern(c)'
    BY <1>2, PatternStands DEF InHand, Run
  <1>5. \A s \in run[r].written : Recorded(s)'
    BY DEF InHand, Keeps, Recorded
  <1>6. \A s \in run'[r].written : Recorded(s)'
    BY <1>1, <1>3, <1>5
  <1> QED
    BY <1>1, <1>3, <1>4, <1>6 DEF InHand

LEMMA InHandStep ==
  ASSUME TypeOK, Windowed, Keeps, [Next]_vars, NEW r \in Runs, InHand(r)
  PROVE  InHand(r)'
  BY OnwardSteps, OnwardKeepsInHand, ReadKeepsInHand, CallKeepsInHand, WriteKeepsInHand

-----------------------------------------------------------------------------
\* A window is never closed twice: a revision in force again has a new number.
LEMMA WindowedStep ==
  ASSUME TypeOK, Windowed, [Next]_vars
  PROVE  Windowed'
  <1>1. ASSUME NEW id \in Ids, NEW content \in {"episodic", "semantic"},
               Store!Create(id, content), superseded' = superseded
        PROVE  Windowed'
    <2>1. /\ current' = [current EXCEPT ![id] = 1]
          /\ revisions' = revisions \cup {[id |-> id, revision |-> 1, content |-> content]}
          /\ ~Recorded(id)
      BY <1>1 DEF Store!Create, Store!HistoryOf, Recorded
    <2>2. \A i \in Ids : current'[i] = IF i = id THEN 1 ELSE current[i]
      BY <2>1 DEF TypeOK
    <2>3. \E x \in revisions' : x.id = id /\ x.revision = 1
      <3> DEFINE new == [id |-> id, revision |-> 1, content |-> content]
      <3>1. new \in revisions' /\ new.id = id /\ new.revision = 1
        BY <2>1
      <3> QED
        BY <3>1
    <2>4. \A c \in superseded : c.id \in Ids /\ c.id # id
      BY <2>1 DEF Windowed, Recorded, TypeOK
    <2>5. \A i \in Ids : current'[i] # 0 => \E x \in revisions' : x.id = i /\ x.revision = current'[i]
      BY <2>1, <2>2, <2>3 DEF Windowed
    <2>6. \A c \in superseded' :
            /\ current'[c.id] = 0 \/ c.revision < current'[c.id]
            /\ \E x \in revisions' : x.id = c.id /\ x.revision = c.revision
      BY <1>1, <2>1, <2>2, <2>4 DEF Windowed
    <2> QED
      BY <2>5, <2>6 DEF Windowed
  <1>2. ASSUME NEW id \in Ids, Store!Revert(id), superseded' = superseded
        PROVE  Windowed'
    <2>1. PICK to, last \in Store!HistoryOf(id) :
            /\ \A x \in Store!HistoryOf(id) : x.revision <= last.revision
            /\ revisions' = revisions \cup
                 {[id |-> id, revision |-> last.revision + 1, content |-> to.content]}
            /\ current' = [current EXCEPT ![id] = last.revision + 1]
      BY <1>2 DEF Store!Revert
    <2>2. \A i \in Ids : current'[i] = IF i = id THEN last.revision + 1 ELSE current[i]
      BY <2>1 DEF TypeOK
    <2>3. last.revision \in Nat /\ \A x \in revisions : x.revision \in Nat
      BY DEF TypeOK, Store!HistoryOf, Store!Revision
    <2>4. \A x \in revisions : x.id = id => x.revision < last.revision + 1
      BY <2>1, <2>3 DEF Store!HistoryOf
    <2>5. \A i \in Ids : current'[i] # 0 => \E x \in revisions' : x.id = i /\ x.revision = current'[i]
      <3> DEFINE new == [id |-> id, revision |-> last.revision + 1, content |-> to.content]
      <3>0. new \in revisions' /\ new.id = id /\ new.revision = last.revision + 1
        BY <2>1
      <3>1. \E x \in revisions' : x.id = id /\ x.revision = last.revision + 1
        BY <3>0
      <3> QED
        BY <2>1, <2>2, <3>1 DEF Windowed
    <2>6. \A c \in superseded :
            /\ current'[c.id] = 0 \/ c.revision < current'[c.id]
            /\ \E x \in revisions' : x.id = c.id /\ x.revision = c.revision
      <3> TAKE c \in superseded
      <3>1. c.id \in Ids
        BY DEF TypeOK
      <3>2. PICK x \in revisions : x.id = c.id /\ x.revision = c.revision
        BY DEF Windowed
      <3>3. current'[c.id] = 0 \/ c.revision < current'[c.id]
        BY <2>2, <2>4, <3>1, <3>2 DEF Windowed
      <3> QED
        BY <2>1, <3>2, <3>3
    <2> QED
      BY <1>2, <2>5, <2>6 DEF Windowed
  <1>3. ASSUME NEW r \in Runs, NEW id \in Ids, Closes(r, id)
        PROVE  Windowed'
    <2>1. /\ current[id] # 0
          /\ revisions' = revisions
          /\ \A i \in Ids : current'[i] = IF i = id THEN 0 ELSE current[i]
      BY <1>3 DEF Closes, Store!Supersede, TypeOK
    <2>2. PICK by : superseded' = superseded \cup {[id |-> id, revision |-> current[id], by |-> by]}
      BY <1>3 DEF Closes
    <2>3. \A c \in superseded' :
            /\ current'[c.id] = 0 \/ c.revision < current'[c.id]
            /\ \E x \in revisions' : x.id = c.id /\ x.revision = c.revision
      <3>1. \A c \in superseded : c.id \in Ids
        BY DEF TypeOK
      <3> QED
        BY <2>1, <2>2, <3>1 DEF Windowed
    <2> QED
      BY <2>1, <2>3 DEF Windowed
  <1>4. ASSUME UNCHANGED <<revisions, current, superseded>> PROVE Windowed'
    BY <1>4 DEF Windowed
  <1>5. ASSUME NEW r \in Runs, Supersede(r) PROVE Windowed'
    <2>1. run[r].contradicts \subseteq Ids
      BY DEF TypeOK, Run
    <2> QED
      BY <1>3, <1>4, <1>5, <2>1 DEF Supersede
  <1>6. ASSUME NEW r \in Runs, Write(r) PROVE Windowed'
    BY <1>1, <1>6 DEF Write, Ids
  <1>7. ASSUME NEW r \in Runs, Read(r) \/ Call(r) \/ NextCluster(r) \/ Report(r) \/ Abort(r)
        PROVE  Windowed'
    BY <1>4, <1>7 DEF Read, Call, NextCluster, Report, Abort
  <1>8. ASSUME NEW id \in EpisodeIds, Record(id) PROVE Windowed'
    BY <1>1, <1>8 DEF Record, Ids
  <1>9. ASSUME NEW id \in Ids, Revert(id) PROVE Windowed'
    BY <1>2, <1>9 DEF Revert
  <1>10. CASE UNCHANGED vars
    BY <1>4, <1>10 DEF vars
  <1> QED
    BY <1>5, <1>6, <1>7, <1>8, <1>9, <1>10 DEF Next, Step

-----------------------------------------------------------------------------
LEMMA OwnEvidenceStep ==
  ASSUME TypeOK, TypeOK', Keeps, [Next]_vars, \A r \in Runs : InHand(r), ClosesOwnEvidence
  PROVE  ClosesOwnEvidence'
  <1>1. \A c \in superseded : c.by \in Ids /\ Recorded(c.by) /\ c.id \in source_ids[c.by]
    BY HistoryIsRecorded DEF ClosesOwnEvidence, TypeOK, Ids
  <1>2. \A c \in superseded : Recorded(c.by)' /\ c.id \in source_ids'[c.by]
    BY <1>1 DEF Keeps, Recorded
  <1>3. ASSUME NEW r \in Runs, NEW id \in run[r].contradicts, InCluster(r, id), Closes(r, id)
        PROVE  \A c \in superseded' \ superseded :
                 Recorded(c.by)' /\ c.id \in source_ids'[c.by]
    <2>1. PICK by \in run[r].memory :
            superseded' = superseded \cup {[id |-> id, revision |-> current[id], by |-> by]}
      BY <1>3 DEF Closes
    <2>2. by \in Ids /\ Recorded(by) /\ source_ids[by] = run[r].cluster
      BY DEF InHand, TypeOK, Run, Ids
    <2>3. Recorded(by)' /\ source_ids'[by] = run[r].cluster
      BY <2>2 DEF Keeps, Recorded
    <2> QED
      BY <1>3, <2>1, <2>3 DEF InCluster
  <1>4. \A c \in superseded' \ superseded : Recorded(c.by)' /\ c.id \in source_ids'[c.by]
    <2>1. ASSUME superseded' = superseded
          PROVE  \A c \in superseded' \ superseded : Recorded(c.by)' /\ c.id \in source_ids'[c.by]
      BY <2>1
    <2>2. \/ superseded' = superseded
          \/ \E r \in Runs : \E id \in run[r].contradicts : InCluster(r, id) /\ Closes(r, id)
      BY DEF Next, Step, vars, Record, Revert, Read, Call, Write, Supersede, NextCluster,
             Report, Abort
    <2> QED
      BY <1>3, <2>1, <2>2
  <1>5. \A c \in superseded' : Recorded(c.by)' /\ c.id \in source_ids'[c.by]
    BY <1>2, <1>4
  <1>6. \A c \in superseded' : Store!HistoryOf(c.by)' # {} <=> Recorded(c.by)'
    BY DEF Store!HistoryOf, Recorded
  <1> QED
    BY <1>5, <1>6 DEF ClosesOwnEvidence

\* What is newly recorded is a memory without evidence or one a run wrote.
LEMMA NewlyRecorded ==
  ASSUME TypeOK, [Next]_vars, NEW s \in SemanticIds, ~Recorded(s), Recorded(s)'
  PROVE  \E r \in Runs :
           /\ Write(r) /\ run[r].pc = "write"
           /\ source_ids'[s] = run[r].cluster
           /\ run'[r].written = run[r].written \cup {s}
  <1>1. ASSUME UNCHANGED revisions PROVE FALSE
    BY <1>1 DEF Recorded
  <1>2. ASSUME NEW id \in EpisodeIds, Record(id) PROVE FALSE
    <2>1. id # s
      BY KindsAssumption
    <2> QED
      BY <1>2, <2>1 DEF Record, Store!Create, Recorded
  <1>3. ASSUME NEW id \in Ids, Revert(id) PROVE FALSE
    BY <1>3 DEF Revert, Store!Revert, Store!HistoryOf, Recorded
  <1>4. ASSUME NEW r \in Runs, Write(r)
        PROVE  /\ run[r].pc = "write"
               /\ source_ids'[s] = run[r].cluster
               /\ run'[r].written = run[r].written \cup {s}
    <2>1. PICK id \in SemanticIds :
            /\ Store!Create(id, "semantic")
            /\ run[r].pc = "write"
            /\ source_ids'[id] = run[r].cluster
            /\ run'[r] = [run[r] EXCEPT !.written = @ \cup {id}, !.memory = {id},
                                        !.pc = "supersede"]
      BY <1>4, WritePicks
    <2>2. id = s
      BY <2>1 DEF Store!Create, Recorded
    <2> QED
      BY <2>1, <2>2 DEF TypeOK, Run
  <1>5. \/ UNCHANGED revisions
        \/ \E id \in EpisodeIds : Record(id)
        \/ \E id \in Ids : Revert(id)
        \/ \E r \in Runs : Write(r)
    BY DEF Next, Step, vars, Read, Call, Supersede, Closes, Store!Supersede, NextCluster, Report, Abort
  <1> QED
    BY <1>1, <1>2, <1>3, <1>4, <1>5

LEMMA EvidenceStep ==
  ASSUME TypeOK, Keeps, [Next]_vars, \A r \in Runs : InHand(r), EvidenceStands
  PROVE  EvidenceStands'
  <1>1. ASSUME NEW s \in SemanticIds, Recorded(s)'
        PROVE  Pattern(source_ids[s])'
    <2>1. CASE Recorded(s)
      <3>1. s \in Ids /\ source_ids[s] \in SUBSET EpisodeIds
        BY DEF TypeOK, Ids
      <3>2. PICK c \in SUBSET EpisodeIds : c = source_ids[s]
        BY <3>1
      <3>3. Pattern(c)
        <4>1. Store!HistoryOf(s) # {}
          BY <2>1, HistoryIsRecorded
        <4>2. /\ Cardinality(c) >= MinClusterSize
              /\ SharedEntities(c) # {}
              /\ \A id \in c : Store!HistoryOf(id) # {}
          BY <3>2, <4>1 DEF EvidenceStands
        <4> QED
          BY <4>2, HistoryIsRecorded DEF Pattern
      <3>4. source_ids'[s] = c
        BY <2>1, <3>1, <3>2 DEF Keeps
      <3> QED
        BY <3>3, <3>4, PatternStands
    <2>2. CASE ~Recorded(s)
      <3>1. PICK r \in Runs : run[r].pc = "write" /\ source_ids'[s] = run[r].cluster
        BY <1>1, <2>2, NewlyRecorded
      <3>2. PICK c \in SUBSET EpisodeIds : c = run[r].cluster
        BY DEF TypeOK, Run
      <3>3. Pattern(c)
        BY <3>1, <3>2 DEF InHand
      <3> QED
        BY <3>1, <3>2, <3>3, PatternStands
    <2> QED
      BY <2>1, <2>2
  <1>2. \A id : Store!HistoryOf(id)' # {} <=> Recorded(id)'
    BY DEF Store!HistoryOf, Recorded
  <1> QED
    BY <1>1, <1>2 DEF EvidenceStands, Pattern

\* Counting: what a run adds to its report is at most what it adds to the windows.
LEMMA ReportStep ==
  ASSUME TypeOK, TypeOK', Windowed, [Next]_vars, \A r \in Runs : InHand(r),
         IsFiniteSet(superseded), ReportNeverOverstates
  PROVE  ReportNeverOverstates' /\ IsFiniteSet(superseded)'
  <1>1. ASSUME NEW W \in SUBSET superseded
        PROVE  IsFiniteSet(W) /\ Cardinality(W) \in Nat
    BY FS_Subset, FS_CardinalityType
  <1>2. ASSUME NEW r \in Runs, superseded' = superseded,
               run'[r].superseded = run[r].superseded, run[r].written \subseteq run'[r].written
        PROVE  run'[r].superseded <= Cardinality(ClosedBy(r))'
    <2>1. PICK W \in SUBSET superseded : W = ClosedBy(r)
      BY DEF ClosedBy
    <2>2. PICK V \in SUBSET superseded : V = ClosedBy(r)'
      BY <1>2 DEF ClosedBy
    <2>3. W \subseteq V
      BY <1>2, <2>1, <2>2 DEF ClosedBy
    <2>4. Cardinality(W) <= Cardinality(V)
      BY <1>1, <2>3, FS_Subset
    <2>5. run[r].superseded <= Cardinality(W)
      BY <2>1 DEF ReportNeverOverstates, ClosedBy
    <2> QED
      BY <1>1, <1>2, <2>2, <2>4, <2>5 DEF TypeOK, Run
  <1>3. ASSUME NEW q \in Runs, NEW id \in run[q].contradicts, Closes(q, id)
        PROVE  /\ \A r \in Runs : run'[r].superseded <= Cardinality(ClosedBy(r))'
               /\ IsFiniteSet(superseded')
    <2>1. PICK by \in run[q].memory :
            superseded' = superseded \cup {[id |-> id, revision |-> current[id], by |-> by]}
      BY <1>3 DEF Closes
    <2> DEFINE new == [id |-> id, revision |-> current[id], by |-> by]
    <2>2. id \in Ids /\ by \in run[q].written /\ current[id] \in Nat \ {0}
      BY <1>3 DEF InHand, Closes, Store!Supersede, TypeOK, Run
    <2>3. new \notin superseded
      <3>1. ASSUME new \in superseded PROVE FALSE
        <4>1. new.id = id /\ new.revision = current[id]
          OBVIOUS
        <4>2. current[id] = 0 \/ current[id] < current[id]
          BY <3>1, <4>1 DEF Windowed
        <4> QED
          BY <2>2, <4>2
      <3> QED
        BY <3>1
    <2>4. PICK counted \in {0, 1} :
            run' = [run EXCEPT ![q].contradicts = @ \ {id}, ![q].superseded = @ + counted]
      BY <1>3 DEF Closes
    <2>5. \A r \in Runs : /\ run'[r].written = run[r].written
                          /\ run'[r].superseded \in {run[r].superseded, run[r].superseded + 1}
                          /\ r # q => run'[r].superseded = run[r].superseded
      BY <2>4 DEF TypeOK, Run
    <2>6. ASSUME NEW r \in Runs
          PROVE  run'[r].superseded <= Cardinality(ClosedBy(r))'
      <3>1. PICK W \in SUBSET superseded : W = ClosedBy(r)
        BY DEF ClosedBy
      <3>2. run[r].superseded <= Cardinality(W) /\ run[r].superseded \in Nat
        BY <3>1 DEF ReportNeverOverstates, ClosedBy, TypeOK, Run
      <3>3. IsFiniteSet(W) /\ Cardinality(W) \in Nat /\ new \notin W
        BY <1>1, <2>3
      <3>4. CASE by \in run[r].written
        <4>1. ClosedBy(r)' = W \cup {new}
          BY <2>1, <2>5, <3>1, <3>4 DEF ClosedBy
        <4>2. Cardinality(W \cup {new}) = Cardinality(W) + 1
          BY <3>3, FS_AddElement
        <4> QED
          BY <2>5, <3>2, <3>3, <4>1, <4>2
      <3>5. CASE by \notin run[r].written
        <4>1. ClosedBy(r)' = W
          BY <2>1, <2>5, <3>1, <3>5 DEF ClosedBy
        <4>2. r # q
          BY <2>2, <3>5
        <4> QED
          BY <2>5, <3>2, <4>1, <4>2
      <3> QED
        BY <3>4, <3>5
    <2>7. IsFiniteSet(superseded')
      BY <2>1, FS_AddElement
    <2> QED
      BY <2>6, <2>7
  <1>4. \/ \E r \in Runs : \E id \in run[r].contradicts : Closes(r, id)
        \/ /\ superseded' = superseded
           /\ \A r \in Runs : /\ run'[r].superseded = run[r].superseded
                               /\ run[r].written \subseteq run'[r].written
    <2>1. ASSUME NEW q \in Runs, Read(q) \/ Call(q) \/ NextCluster(q) \/ Report(q) \/ Abort(q)
          PROVE  /\ superseded' = superseded
                 /\ \A r \in Runs : /\ run'[r].superseded = run[r].superseded
                                     /\ run[r].written \subseteq run'[r].written
      <3>1. superseded' = superseded
        BY <2>1 DEF Read, Call, NextCluster, Report, Abort
      <3>2. CASE Read(q)
        BY <3>2 DEF Read, TypeOK, Run
      <3>3. CASE Call(q)
        <4>1. PICK c \in run[q].clusters, named \in SUBSET Ids :
                run' \in {[run EXCEPT ![q].clusters = @ \ {c}],
                          [run EXCEPT ![q].clusters = @ \ {c}, ![q].cluster = c,
                                      ![q].contradicts = named, ![q].pc = "write"]}
          BY <3>3 DEF Call
        <4>2. run[q] \in Run /\ \A r \in Runs : r # q => run'[r] = run[r]
          BY <4>1 DEF TypeOK
        <4>3. run'[q] \in {[run[q] EXCEPT !.clusters = @ \ {c}],
                          [run[q] EXCEPT !.clusters = @ \ {c}, !.cluster = c,
                                         !.contradicts = named, !.pc = "write"]}
          BY <4>1 DEF TypeOK
        <4>4. run'[q].superseded = run[q].superseded /\ run'[q].written = run[q].written
          BY <4>2, <4>3 DEF Run
        <4> QED
          BY <3>1, <4>2, <4>4
      <3>4. CASE NextCluster(q) \/ Report(q) \/ Abort(q)
        BY <3>4 DEF NextCluster, Report, Abort, TypeOK, Run
      <3> QED
        BY <2>1, <3>1, <3>2, <3>3, <3>4
    <2>2. ASSUME NEW q \in Runs, Write(q)
          PROVE  /\ superseded' = superseded
                 /\ \A r \in Runs : /\ run'[r].superseded = run[r].superseded
                                     /\ run[r].written \subseteq run'[r].written
      <3>1. PICK id \in SemanticIds :
              /\ \A r \in Runs : r # q => run'[r] = run[r]
              /\ run'[q] = [run[q] EXCEPT !.written = @ \cup {id}, !.memory = {id},
                                          !.pc = "supersede"]
        BY <2>2, WritePicks
      <3>2. run'[q].superseded = run[q].superseded /\ run'[q].written = run[q].written \cup {id}
        BY <3>1 DEF TypeOK, Run
      <3> QED
        BY <2>2, <3>1, <3>2 DEF Write
    <2>3. ASSUME NEW q \in Runs, NEW id, run' = [run EXCEPT ![q].contradicts = @ \ {id}]
          PROVE  \A r \in Runs : /\ run'[r].superseded = run[r].superseded
                                 /\ run[r].written \subseteq run'[r].written
      BY <2>3 DEF TypeOK, Run
    <2>4. \A q \in Runs : Supersede(q) =>
            \E id \in run[q].contradicts :
              \/ Closes(q, id)
              \/ run' = [run EXCEPT ![q].contradicts = @ \ {id}] /\ superseded' = superseded
      BY DEF Supersede, Fails
    <2>5. CASE UNCHANGED <<run, superseded>>
      BY <2>5
    <2>6. \/ UNCHANGED <<run, superseded>>
          \/ \E q \in Runs : Step(q) \/ Abort(q)
      BY DEF Next, Record, Revert, vars
    <2> QED
      BY <2>1, <2>2, <2>3, <2>4, <2>5, <2>6 DEF Step
  <1>5. \A r \in Runs : run'[r].superseded <= Cardinality(ClosedBy(r))'
    BY <1>2, <1>3, <1>4
  <1>6. IsFiniteSet(superseded')
    BY <1>3, <1>4
  <1> QED
    BY <1>5, <1>6 DEF ReportNeverOverstates, ClosedBy

-----------------------------------------------------------------------------
LEMMA ConsolidationBegins ==
  ASSUME Init
  PROVE  ConsolidationInv
  <1>1. /\ revisions = {}
        /\ current = [id \in Ids |-> 0]
        /\ superseded = {}
        /\ source_ids = [id \in Ids |-> {}]
        /\ \A r \in Runs : /\ run[r].clusters = {} /\ run[r].written = {}
                            /\ run[r].memory = {} /\ run[r].pc = "read"
                            /\ run[r].superseded = 0
    BY DEF Init, Store!Init
  <1>2. TypeOK
    BY DEF Init, Store!Init, TypeOK, Run
  <1>3. Windowed /\ \A r \in Runs : InHand(r)
    BY <1>1 DEF Windowed, InHand
  <1>4. IsFiniteSet(superseded) /\ \A r \in Runs : ClosedBy(r) = {}
    BY <1>1, FS_EmptySet DEF ClosedBy
  <1>5. ClosesOwnEvidence /\ EvidenceStands
    BY <1>1 DEF ClosesOwnEvidence, EvidenceStands, Store!HistoryOf
  <1>6. ReportNeverOverstates
    BY <1>1, <1>4, FS_EmptySet DEF ReportNeverOverstates, ClosedBy
  <1> QED
    BY <1>2, <1>3, <1>4, <1>5, <1>6 DEF ConsolidationInv

LEMMA ConsolidationStep ==
  ASSUME ConsolidationInv, [Next]_vars
  PROVE  ConsolidationInv'
  <1>1. TypeOK' /\ Keeps
    BY TypeStep DEF ConsolidationInv
  <1>2. Windowed' /\ \A r \in Runs : InHand(r)'
    BY <1>1, WindowedStep, InHandStep DEF ConsolidationInv
  <1>3. ClosesOwnEvidence' /\ EvidenceStands'
    BY <1>1, OwnEvidenceStep, EvidenceStep DEF ConsolidationInv
  <1>4. ReportNeverOverstates' /\ IsFiniteSet(superseded)'
    BY <1>1, ReportStep DEF ConsolidationInv
  <1> QED
    BY <1>1, <1>2, <1>3, <1>4 DEF ConsolidationInv

\* The evidence in hand, the windows closed and the reports agree, however the
\* runs, the extractions and the reverts interleave (Consolidator.consolidate).
THEOREM ConsolidationInvariant == Spec => []ConsolidationInv
  <1>1. Init => ConsolidationInv
    BY ConsolidationBegins
  <1>2. ConsolidationInv /\ [Next]_vars => ConsolidationInv'
    BY ConsolidationStep
  <1> QED
    BY <1>1, <1>2, PTL DEF Spec

\* Every variable of consolidation keeps its shape.
THEOREM ConsolidationTypes == Spec => []TypeOK
  <1>1. ConsolidationInv => TypeOK
    BY DEF ConsolidationInv
  <1> QED
    BY <1>1, ConsolidationInvariant, PTL

\* Whatever ids a model names, what is closed was evidence of what replaced it
\* (the cluster check before store.supersede).
THEOREM OnlyOwnEvidenceClosed == Spec => []ClosesOwnEvidence
  <1>1. ConsolidationInv => ClosesOwnEvidence
    BY DEF ConsolidationInv
  <1> QED
    BY <1>1, ConsolidationInvariant, PTL

\* The evidence of a semantic memory is never lost and always a pattern
\* (cluster_memories, and write of the cluster's ids as source_ids).
THEOREM EvidenceIsPattern == Spec => []EvidenceStands
  <1>1. ConsolidationInv => EvidenceStands
    BY DEF ConsolidationInv
  <1> QED
    BY <1>1, ConsolidationInvariant, PTL

\* The counter of a report is at most the windows its run closed
\* (memories_superseded).
THEOREM ReportIsHonest == Spec => []ReportNeverOverstates
  <1>1. ConsolidationInv => ReportNeverOverstates
    BY DEF ConsolidationInv
  <1> QED
    BY <1>1, ConsolidationInvariant, PTL
=============================================================================
