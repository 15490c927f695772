---------------------------- MODULE MemoryBlock ----------------------------
(***************************************************************************)
(* app/memory/manager.py, load_context: which memories reach the prompt of *)
(* a turn.  One query per memory type, each packed into a share of the     *)
(* budget by an estimate; the assembled block is then counted and trimmed  *)
(* from its end until it fits.  A count is the API's or, when that cannot  *)
(* be had, the estimate again; nothing says which of the two is larger.    *)
(* Other transactions go on between the queries.  How near a memory is to  *)
(* the question is left open: a query may rank what it finds in any order. *)
(***************************************************************************)
EXTENDS Integers, Sequences, SequencesExt, FiniteSets, FiniteSetsExt, Totals

CONSTANTS
  Memories,       \* records [type, own, faded, chars, tokens] with an id
  Budgets,        \* values of memory_token_budget
  Share,          \* BUDGET_SPLIT in per cent, by type
  PerType,        \* CANDIDATES_PER_TYPE
  Preamble        \* BLOCK_PREAMBLE and the empty line, [chars, tokens]

\* BUDGET_SPLIT's keys in their order.
Types == <<"semantic", "episodic", "procedural">>

\* A text may have any number of tokens: dense ones have more than the estimate.
BlockAssumption ==
  /\ \A m \in Memories \cup {Preamble} : m.chars \in Nat /\ m.tokens \in Nat
  /\ Budgets \subseteq Nat
  /\ \A i \in 1..3 : Share[Types[i]] \in Nat
  /\ IsFiniteSet(Memories)

ASSUME BlockAssumption

VARIABLES
  budget,       \* budget_tokens
  live,         \* the memories with an open window
  phase,        \* the await load_context is at, "loaded" or "raised"
  candidates,   \* per type queried so far, what its query returned
  selected,
  truncated,
  text,         \* the memories that the rendered block shows
  token_count,
  counted       \* auxiliary: how token_count was come by

blockVars ==
  <<budget, live, phase, candidates, selected, truncated, text, token_count, counted>>

CeilDiv(a, b) == (a + b - 1) \div b

\* ceil(len / 3.5)
Estimate(chars) == CeilDiv(2 * chars, 7)

Cost(m) == Estimate(m.chars)

Costs(ms) == Total([i \in DOMAIN ms |-> Cost(ms[i])])

\* One line per memory below the preamble; nothing at all without one.
BlockChars(ms) ==
  IF ms = <<>> THEN 0
  ELSE Preamble.chars + Total([i \in DOMAIN ms |-> ms[i].chars]) + Len(ms) - 1

BlockTokens(ms) ==
  IF ms = <<>> THEN 0 ELSE Preamble.tokens + Total([i \in DOMAIN ms |-> ms[i].tokens])

\* The API's count of a block, or the estimate in its place; an empty block has
\* nothing to count.
Counters == {"api", "estimate"}

Count(by, ms) == IF by = "api" THEN BlockTokens(ms) ELSE Estimate(BlockChars(ms))

ShareOf(type) == (budget * Share[type]) \div 100

\* Mutant: _pack skips what does not fit and goes on to a shorter one.
PackedSkipping(ranked, limit) ==
  FoldLeft(LAMBDA kept, m : IF Costs(kept) + Cost(m) <= limit THEN Append(kept, m) ELSE kept,
           <<>>, ranked)

\* Rank order until the first that does not fit.
Packed(ranked, limit) ==
  LET over == {n \in DOMAIN ranked : Costs(SubSeq(ranked, 1, n)) > limit}
  IN IF over = {} THEN ranked ELSE SubSeq(ranked, 1, Min(over) - 1)

\* Every list a query of `type' may return: LIMIT first, then the floor, which
\* only the semantic arm has.
Answers(type) ==
  LET found == {m \in live : m.own /\ m.type = type}
      top == kSubset(Min({PerType[type], Cardinality(found)}), found)
  IN UNION {SetToSeqs({m \in ms : type = "semantic" => ~m.faded}) : ms \in top}

-----------------------------------------------------------------------------
BlockInit ==
  /\ budget \in Budgets
  /\ live \in SUBSET Memories
  /\ phase = "profile"
  /\ candidates = <<>>
  /\ selected = <<>>
  /\ truncated = 0
  /\ text = <<>>
  /\ token_count = 0
  /\ counted = "estimate"

\* The profile only moves the semantic query's vector.
ReadProfile ==
  /\ phase = "profile"
  /\ phase' = "search"
  /\ UNCHANGED <<budget, live, candidates, selected, truncated, text, token_count, counted>>

SearchNext ==
  /\ phase = "search"
  /\ \E found \in Answers(Types[Len(candidates) + 1]) :
       LET kept == Packed(found, ShareOf(Types[Len(candidates) + 1]))
       IN /\ candidates' = Append(candidates, found)
          /\ selected' = selected \o kept
          /\ truncated' = truncated + Len(found) - Len(kept)
  /\ IF Len(candidates') = Len(Types) THEN phase' = "count" /\ text' = selected'
     ELSE UNCHANGED <<phase, text>>
  /\ UNCHANGED <<budget, live, token_count, counted>>

\* _count_tokens.
CountBlock(by) == token_count' = Count(by, text) /\ counted' = by

\* Mutant: the shorter block is returned with the count of the longer one.
TrimOnce ==
  /\ phase = "count"
  /\ \E by \in Counters : CountBlock(by) /\ token_count' > budget
  /\ selected # <<>>
  /\ selected' = Front(selected)
  /\ text' = selected'
  /\ truncated' = truncated + 1
  /\ phase' = "loaded"
  /\ UNCHANGED <<budget, live, candidates>>

\* The last of the last type goes, and the block is rendered and counted again.
Trim ==
  /\ phase = "count"
  /\ \E by \in Counters : CountBlock(by) /\ token_count' > budget
  /\ selected # <<>>
  /\ selected' = Front(selected)
  /\ text' = selected'
  /\ truncated' = truncated + 1
  /\ UNCHANGED <<budget, live, phase, candidates>>

Return ==
  /\ phase = "count"
  /\ \E by \in Counters : CountBlock(by)
  /\ token_count' <= budget \/ selected = <<>>
  /\ phase' = "loaded"
  /\ UNCHANGED <<budget, live, candidates, selected, truncated, text>>

\* A query raises, and load_context with it.
Raise ==
  /\ phase \in {"profile", "search"}
  /\ phase' = "raised"
  /\ UNCHANGED <<budget, live, candidates, selected, truncated, text, token_count, counted>>

\* Another transaction commits: a memory is written, closed or made live again.
Change(m) ==
  /\ phase \in {"profile", "search"}
  /\ live' = IF m \in live THEN live \ {m} ELSE live \cup {m}
  /\ UNCHANGED <<budget, phase, candidates, selected, truncated, text, token_count, counted>>

BlockNext ==
  \/ ReadProfile \/ SearchNext \/ Trim \/ Return \/ Raise
  \/ \E m \in Memories : Change(m)

BlockSpec == BlockInit /\ [][BlockNext]_blockVars

-----------------------------------------------------------------------------
(* Properties.                                                             *)

\* The block that is returned is the one that was counted last, and that count
\* is within the budget of the turn: the tokens themselves are if the API
\* counted, and no more than the estimate is if it could not, which a text
\* denser than 3.5 characters a token exceeds (load_context's trim loop,
\* _count_tokens).
FitsBudget ==
  phase = "loaded" =>
    /\ text = selected
    /\ token_count = Count(counted, text)
    /\ token_count <= budget

\* One of the two ways of counting puts the block over the budget.
Over(ms) == \E by \in Counters : Count(by, ms) > budget

\* The block is made of what ranked first in each type: as much of it as the
\* type's share holds by the estimate, less an end each memory of which only
\* went because the block that ended with it counted as over the budget;
\* `truncated' counts exactly what the queries returned and the block lacks
\* (_pack and the trim loop, across three queries that see three states of the
\* table).
KeptInRankOrder ==
  phase = "loaded" =>
    LET fits(i, n) == Costs(SubSeq(candidates[i], 1, n)) <= ShareOf(Types[i])
        best(i) == SubSeq(candidates[i], 1, Max({n \in 0..Len(candidates[i]) : fits(i, n)}))
        whole == best(1) \o best(2) \o best(3)
        found == candidates[1] \o candidates[2] \o candidates[3]
    IN /\ IsPrefix(selected, whole)
       /\ \A n \in (Len(selected) + 1)..Len(whole) : Over(SubSeq(whole, 1, n))
       /\ truncated = Len(found) - Len(selected)
=============================================================================
