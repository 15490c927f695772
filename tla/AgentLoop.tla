----------------------------- MODULE AgentLoop -----------------------------
(***************************************************************************)
(* One turn of the agent loop (Orchestrator.run, the try block) with the   *)
(* tools it dispatches to (ToolRegistry.dispatch) and the citations it     *)
(* checks (Turn.record, _citation_event).  Each await is a step of its     *)
(* own.  The model and the tools are free: a response says anything, names *)
(* anything and calls anything, a tool finds anything or fails.            *)
(*                                                                         *)
(* A thing is what a citation names: a chunk or an entity.  The two kinds  *)
(* have a result set each in the code, told apart by the citation's form,  *)
(* so one set stands for both.  A tool's outcome has two shapes: its typed *)
(* result, which is recorded, and its rendering, which the model is sent.  *)
(* An aggregate's rendering lists its first entities only.                 *)
(***************************************************************************)
EXTENDS Naturals, Sequences, FiniteSets

CONSTANTS
  Things,           \* what tools return and the model cites
  MaxIterations,    \* MAX_ITERATIONS, 8 in the code
  MaxPauses,        \* MAX_PAUSE_RESTARTS, 3 in the code
  RenderLimit,      \* RENDER_LIMIT, 50 in the code
  MaxCalls          \* bound: tool calls of one response

ASSUME LimitsAssumption ==
  /\ MaxIterations \in Nat \ {0}
  /\ {MaxPauses, RenderLimit, MaxCalls} \subseteq Nat

VARIABLES
  pc,
  iterations,
  pauses,
  messages,     \* what this turn has added to the request
  response,     \* the message the model has just sent
  results,      \* the tool results gathered for it
  found,        \* span_results and entity_results
  seen,         \* seen_citations
  events        \* the citation events sent

vars == <<pc, iterations, pauses, messages, response, results, found, seen, events>>

\* A facts tool has an aggregate or one entity, a search has passages.  A
\* memory tool is neither substrate: what it returns is no result.
Tools == {"facts", "search", "memory"}

\* pause_turn is a server tool's, so a response that pauses calls none of ours.
Response == [stop : {"pause", "other", "refusal"}, cites : SUBSET Things,
             uses : UNION {[1..n -> Tools] : n \in 0..MaxCalls}]

\* What a tool returned, and what of it its rendering lists to the model.
ToolResult ==
  {r \in [tool : Tools, ok : BOOLEAN, returned : SUBSET Things, listed : SUBSET Things] :
     r.listed \subseteq r.returned}

\* Passages, one entity and memories are rendered whole, an aggregate up to
\* RENDER_LIMIT; the rest of it is a number.
Listed(tool, returned) ==
  IF tool = "facts" /\ Cardinality(returned) > RenderLimit
  THEN {shown \in SUBSET returned : Cardinality(shown) = RenderLimit}
  ELSE {returned}

Outcome(tool, ok, returned, listed) ==
  [tool |-> tool, ok |-> ok, returned |-> returned, listed |-> listed]

Nothing == [stop |-> "other", cites |-> {}, uses |-> <<>>]

Said(r) == [role |-> "assistant", cites |-> r.cites, uses |-> r.uses, results |-> <<>>]

Returned(rs) == [role |-> "user", cites |-> {}, uses |-> <<>>, results |-> rs]

Ended == pc \in {"done", "error"}

-----------------------------------------------------------------------------
Init ==
  /\ pc = "generate"
  /\ iterations = 0
  /\ pauses = 0
  /\ messages = <<>>
  /\ response = Nothing
  /\ results = <<>>
  /\ found = {}
  /\ seen = {}
  /\ events = <<>>

\* Any await of the loop may raise, and a tool may raise what dispatch does
\* not catch: one error event, and the turn is over.
Fail ==
  /\ pc \in {"generate", "cite", "call"}
  /\ pc' = "error"
  /\ UNCHANGED <<iterations, pauses, messages, response, results, found, seen, events>>

\* stop_reason is read before the content: a refusal is an error.
Generate ==
  /\ pc = "generate"
  /\ iterations < MaxIterations
  /\ iterations' = iterations + 1
  /\ \E r \in Response :
       /\ r.stop = "pause" => r.uses = <<>>
       /\ response' = r
       /\ pc' = IF r.stop = "refusal" THEN "error" ELSE "cite"
  /\ UNCHANGED <<pauses, messages, results, found, seen, events>>

\* The for loop is over.
Exhaust ==
  /\ pc = "generate"
  /\ iterations = MaxIterations
  /\ pc' = "done"
  /\ UNCHANGED <<iterations, pauses, messages, response, results, found, seen, events>>

\* Mutant: every mention of a citation sends an event.
CiteAgain ==
  /\ pc = "cite"
  /\ Len(events) < 3  \* bound
  /\ \E t \in response.cites :
       /\ seen' = seen \cup {t}
       /\ events' = Append(events, [citation |-> t, in_result_set |-> t \in found])
  /\ UNCHANGED <<pc, iterations, pauses, messages, response, results, found>>

\* _citation_event for a citation not seen in this turn.
Cite ==
  /\ pc = "cite"
  /\ \E t \in response.cites \ seen :
       /\ seen' = seen \cup {t}
       /\ events' = Append(events, [citation |-> t, in_result_set |-> t \in found])
  /\ UNCHANGED <<pc, iterations, pauses, messages, response, results, found>>

\* Mutant: a pause is re-sent as if nothing had been asked, without end.
AppendRestarts ==
  /\ pc = "cite"
  /\ response.cites \subseteq seen
  /\ IF response.stop = "pause"
     THEN iterations' = iterations - 1 /\ pc' = "generate" /\ UNCHANGED messages
     ELSE /\ messages' = Append(messages, Said(response))
          /\ pc' = IF response.uses = <<>> THEN "done" ELSE "call"
          /\ UNCHANGED iterations
  /\ UNCHANGED <<pauses, response, results, found, seen, events>>

\* The response joins the conversation; a pause is re-sent, a response
\* without tool calls is the last.
AppendResponse ==
  /\ pc = "cite"
  /\ response.cites \subseteq seen
  /\ messages' = Append(messages, Said(response))
  /\ IF response.stop = "pause"
     THEN /\ pauses' = pauses + 1
          /\ pc' = IF pauses' > MaxPauses THEN "done" ELSE "generate"
     ELSE /\ pc' = IF response.uses = <<>> THEN "done" ELSE "call"
          /\ UNCHANGED pauses
  /\ UNCHANGED <<iterations, response, results, found, seen, events>>

\* Mutant: what a memory tool returns counts as looked up.
DispatchRecordsMemory ==
  /\ pc = "call"
  /\ Len(results) < Len(response.uses)
  /\ \E ok \in BOOLEAN, returned \in SUBSET Things :
       LET tool == response.uses[Len(results) + 1] IN
         /\ ~ok => returned = {}
         /\ \E listed \in Listed(tool, returned) :
              results' = Append(results, Outcome(tool, ok, returned, listed))
         /\ found' = found \cup returned
  /\ UNCHANGED <<pc, iterations, pauses, messages, response, seen, events>>

\* One call after the other, in order.  A bad name, argument, window or area
\* is an error result, which records nothing.  record takes the typed result,
\* not the rendering.
Dispatch ==
  /\ pc = "call"
  /\ Len(results) < Len(response.uses)
  /\ \E ok \in BOOLEAN, returned \in SUBSET Things :
       LET tool == response.uses[Len(results) + 1] IN
         /\ ~ok => returned = {}
         /\ \E listed \in Listed(tool, returned) :
              results' = Append(results, Outcome(tool, ok, returned, listed))
         /\ found' = IF tool = "memory" THEN found ELSE found \cup returned
  /\ UNCHANGED <<pc, iterations, pauses, messages, response, seen, events>>

\* Mutant: a failed call leaves no result.
AppendResultsOk ==
  /\ pc = "call"
  /\ Len(results) = Len(response.uses)
  /\ messages' = Append(messages, Returned(SelectSeq(results, LAMBDA r : r.ok)))
  /\ results' = <<>>
  /\ pc' = "generate"
  /\ UNCHANGED <<iterations, pauses, response, found, seen, events>>

\* All calls are answered in one message.
AppendResults ==
  /\ pc = "call"
  /\ Len(results) = Len(response.uses)
  /\ messages' = Append(messages, Returned(results))
  /\ results' = <<>>
  /\ pc' = "generate"
  /\ UNCHANGED <<iterations, pauses, response, found, seen, events>>

Step == Generate \/ Exhaust \/ Cite \/ AppendResponse \/ Dispatch \/ AppendResults \/ Fail

Next == Step \/ (Ended /\ UNCHANGED vars)

Spec == Init /\ [][Next]_vars

\* The generator is driven until it ends; every await returns or raises.
FairSpec == Spec /\ WF_vars(Step)

-----------------------------------------------------------------------------
\* Every variable holds values of its shape, within the code's limits.
TypeOK ==
  /\ pc \in {"generate", "cite", "call", "done", "error"}
  /\ iterations \in 0..MaxIterations
  /\ pauses \in 0..(MaxPauses + 1)
  /\ messages \in Seq([role : {"assistant", "user"}, cites : SUBSET Things,
                       uses : Seq(Tools), results : Seq(ToolResult)])
  /\ response \in Response
  /\ results \in Seq(ToolResult)
  /\ found \subseteq Things
  /\ seen \subseteq Things
  /\ events \in Seq([citation : Things, in_result_set : BOOLEAN])

\* Whenever the model is asked, each of its earlier responses that called
\* tools is followed by one message that answers exactly those calls, in
\* order: what the API requires of a request.
ToolResultsPaired ==
  pc = "generate" =>
    \A i \in 1..Len(messages) : messages[i].role = "assistant" /\ messages[i].uses # <<>> =>
      /\ i < Len(messages)
      /\ messages[i + 1].role = "user"
      /\ Len(messages[i + 1].results) = Len(messages[i].uses)
      /\ \A k \in 1..Len(messages[i].uses) :
           messages[i + 1].results[k].tool = messages[i].uses[k]

\* Each citation the model has made so far in the turn has one event, however
\* often and in however many responses it was made.
CitedOnce ==
  \A i \in 1..Len(messages) : \A t \in messages[i].cites :
    \E k \in 1..Len(events) :
      /\ events[k].citation = t
      /\ \A l \in 1..Len(events) : events[l].citation = t => l = k

\* Before position k a lookup of this turn returned t; or listed it, too.
LookedUpBefore(t, k) ==
  \E i \in 1..(k - 1) :
    /\ i <= Len(messages)
    /\ \E n \in 1..Len(messages[i].results) :
         /\ messages[i].results[n].tool # "memory"
         /\ t \in messages[i].results[n].returned

ListedBefore(t, k) ==
  \E i \in 1..(k - 1) :
    /\ i <= Len(messages)
    /\ \E n \in 1..Len(messages[i].results) :
         /\ messages[i].results[n].tool # "memory"
         /\ t \in messages[i].results[n].listed

FirstCited(t, k) ==
  /\ t \in IF k > Len(messages) THEN response.cites ELSE messages[k].cites
  /\ \A i \in 1..(k - 1) : t \notin messages[i].cites

\* in_result_set says whether a lookup of this turn had returned the thing
\* when the model first cited it; from memory does not count, and neither does
\* what a later lookup returns (record, _citation_event).  It does not say that
\* the model read it: an aggregate is recorded whole and listed in part.  But
\* whatever a lookup listed to the model before it cited it resolves.
CitationHonest ==
  \A n \in 1..Len(events) : \A k \in 1..(Len(messages) + 1) :
    LET e == events[n] IN
      FirstCited(e.citation, k) =>
        /\ e.in_result_set <=> LookedUpBefore(e.citation, k)
        /\ ListedBefore(e.citation, k) => e.in_result_set

\* Whatever the model answers, the turn ends.
TurnEnds == <>Ended
=============================================================================
