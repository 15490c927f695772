--------------------------- MODULE AgentLoopProofs ---------------------------
(***************************************************************************)
(* Proofs about AgentLoop, for any limits and any model and tools: every   *)
(* request is well formed, citations have one event each and the event is  *)
(* honest.                                                                 *)
(***************************************************************************)
EXTENDS AgentLoop, TLAPS

Message == [role : {"assistant", "user"}, cites : SUBSET Things,
            uses : Seq(Tools), results : Seq(ToolResult)]

\* A turn that goes on has pauses left, and a response that pauses calls none
\* of our tools.
PausesLeft ==
  /\ ~Ended => pauses <= MaxPauses
  /\ pc = "cite" /\ response.stop = "pause" => response.uses = <<>>

CallsTools(m) == m.role = "assistant" /\ m.uses # <<>>

Answered(ms, i) ==
  /\ i < Len(ms)
  /\ ms[i + 1].role = "user"
  /\ Len(ms[i + 1].results) = Len(ms[i].uses)
  /\ \A k \in 1..Len(ms[i].uses) : ms[i + 1].results[k].tool = ms[i].uses[k]

\* Outside the tool calls every response is answered; during them all but the
\* last one are, and the results so far answer its first calls.
Pairing ==
  /\ pc \in {"generate", "cite"} =>
       /\ \A i \in 1..Len(messages) : CallsTools(messages[i]) => Answered(messages, i)
       /\ results = <<>>
  /\ pc = "call" =>
       /\ Len(messages) # 0
       /\ messages[Len(messages)].uses = response.uses
       /\ \A i \in 1..(Len(messages) - 1) :
            CallsTools(messages[i]) => Answered(messages, i)
       /\ Len(results) <= Len(response.uses)
       /\ \A k \in 1..Len(results) : results[k].tool = response.uses[k]

\* seen is what the events are about, each once, and what has been cited: in
\* the messages, or in the response whose citations are being sent.
Citing ==
  /\ \A n \in 1..Len(events) : events[n].citation \in seen
  /\ \A t \in seen : \E n \in 1..Len(events) : events[n].citation = t
  /\ \A m, n \in 1..Len(events) : events[m].citation = events[n].citation => m = n
  /\ \A i \in 1..Len(messages) : messages[i].cites \subseteq seen
  /\ \A t \in seen :
       \/ \E i \in 1..Len(messages) : t \in messages[i].cites
       \/ pc \in {"cite", "error"} /\ t \in response.cites

Looks(rs, t) == \E n \in 1..Len(rs) : rs[n].tool # "memory" /\ t \in rs[n].returned

LookedIn(ms, t, k) == \E i \in 1..(k - 1) : i <= Len(ms) /\ Looks(ms[i].results, t)

\* found is what the lookups returned, in the messages or in the results that
\* have yet to become one.
Finding ==
  \A t \in Things :
    t \in found <=> LookedIn(messages, t, Len(messages) + 1) \/ Looks(results, t)

\* What CitationHonest says of given messages, citations and events, but for
\* what is listed.
FirstIn(ms, cites, t, k) ==
  /\ t \in IF k > Len(ms) THEN cites ELSE ms[k].cites
  /\ \A i \in 1..(k - 1) : t \notin ms[i].cites

Honest(ms, cites, es) ==
  \A n \in 1..Len(es) : \A k \in 1..(Len(ms) + 1) :
    FirstIn(ms, cites, es[n].citation, k)
    => (es[n].in_result_set <=> LookedIn(ms, es[n].citation, k))

LoopInv ==
  /\ TypeOK
  /\ PausesLeft
  /\ Pairing
  /\ Citing
  /\ Finding
  /\ Honest(messages, response.cites, events)

-----------------------------------------------------------------------------
\* What a lookup lists it has returned.
LEMMA ListedIsReturned ==
  ASSUME TypeOK, NEW t, NEW k \in 1..(Len(messages) + 1), ListedBefore(t, k)
  PROVE  LookedUpBefore(t, k)
<1>1. PICK i \in 1..(k - 1) :
        /\ i <= Len(messages)
        /\ \E n \in 1..Len(messages[i].results) :
             messages[i].results[n].tool # "memory" /\ t \in messages[i].results[n].listed
  BY DEF ListedBefore
<1>2. PICK n \in 1..Len(messages[i].results) :
        messages[i].results[n].tool # "memory" /\ t \in messages[i].results[n].listed
  BY <1>1
<1>3. messages[i].results \in Seq(ToolResult)
  <2>1. messages \in Seq(Message) /\ Len(messages) \in Nat
    BY DEF TypeOK, Message
  <2>2. i \in 1..Len(messages)
    BY <1>1, <2>1
  <2>3. messages[i] \in Message
    BY <2>1, <2>2
  <2> QED
    BY <2>3 DEF Message
<1>4. messages[i].results[n] \in ToolResult
  BY <1>3
<1>5. t \in messages[i].results[n].returned
  BY <1>2, <1>4 DEF ToolResult
<1> QED
  BY <1>1, <1>2, <1>5 DEF LookedUpBefore

LEMMA HonestSays ==
  ASSUME TypeOK, Honest(messages, response.cites, events)
  PROVE  CitationHonest
<1> SUFFICES ASSUME NEW n \in 1..Len(events), NEW k \in 1..(Len(messages) + 1),
                    FirstCited(events[n].citation, k)
             PROVE  /\ events[n].in_result_set <=> LookedUpBefore(events[n].citation, k)
                    /\ ListedBefore(events[n].citation, k) => events[n].in_result_set
  BY DEF CitationHonest
<1>1. events[n].in_result_set <=> LookedUpBefore(events[n].citation, k)
  BY DEF Honest, FirstIn, FirstCited, LookedIn, Looks, LookedUpBefore
<1> QED
  BY <1>1, ListedIsReturned

\* The calls of a response are a sequence of tools.
LEMMA UsesAreSeq ==
  ASSUME NEW r \in Response
  PROVE  /\ r.uses \in Seq(Tools)
         /\ r.cites \subseteq Things
         /\ r.stop \in {"pause", "other", "refusal"}
<1>1. PICK n \in 0..MaxCalls : r.uses \in [1..n -> Tools]
  BY DEF Response
<1>2. n \in Nat
  BY LimitsAssumption
<1> QED
  BY <1>1, <1>2 DEF Response

\* What Append does to a sequence, index by index.
LEMMA Appended ==
  ASSUME NEW S, NEW s \in Seq(S), NEW x \in S
  PROVE  /\ Append(s, x) \in Seq(S)
         /\ Len(s) \in Nat
         /\ Len(Append(s, x)) = Len(s) + 1
         /\ \A i \in 1..Len(s) : Append(s, x)[i] = s[i]
         /\ Append(s, x)[Len(s) + 1] = x
OBVIOUS

\* A message more leaves what was looked up before it, and adds what it holds.
LEMMA LookedAppend ==
  ASSUME NEW ms \in Seq(Message), NEW m \in Message, NEW t
  PROVE  /\ \A k \in 1..(Len(ms) + 1) :
              LookedIn(Append(ms, m), t, k) <=> LookedIn(ms, t, k)
         /\ LookedIn(Append(ms, m), t, Len(ms) + 2)
              <=> LookedIn(ms, t, Len(ms) + 1) \/ Looks(m.results, t)
<1>1. /\ Len(ms) \in Nat
      /\ Len(Append(ms, m)) = Len(ms) + 1
      /\ \A i \in 1..Len(ms) : Append(ms, m)[i] = ms[i]
      /\ Append(ms, m)[Len(ms) + 1] = m
  BY Appended
<1> DEFINE next == Append(ms, m)
<1> HIDE DEF next
<1>2. /\ Len(next) = Len(ms) + 1
      /\ \A i \in 1..Len(ms) : next[i] = ms[i]
      /\ next[Len(ms) + 1] = m
  BY <1>1 DEF next
<1>3. ASSUME NEW k \in 1..(Len(ms) + 1) PROVE LookedIn(next, t, k) <=> LookedIn(ms, t, k)
  BY <1>1, <1>2 DEF LookedIn
<1>4. LookedIn(next, t, Len(ms) + 2) <=> LookedIn(ms, t, Len(ms) + 1) \/ Looks(m.results, t)
  BY <1>1, <1>2 DEF LookedIn
<1> QED
  BY <1>3, <1>4 DEF next

\* A response that has its answer keeps it.
LEMMA AnsweredAppend ==
  ASSUME NEW ms \in Seq(Message), NEW m \in Message, NEW i \in 1..Len(ms),
         Answered(ms, i)
  PROVE  Answered(Append(ms, m), i)
<1>1. i + 1 \in 1..Len(ms)
  BY DEF Answered
<1> QED
  BY <1>1, Appended DEF Answered

LEMMA InitEstablishes == Init => LoopInv
<1> SUFFICES ASSUME Init PROVE LoopInv
  OBVIOUS
<1>1. <<>> \in UNION {[1..n -> Tools] : n \in 0..MaxCalls}
  <2>1. 0 \in 0..MaxCalls
    BY LimitsAssumption
  <2>2. <<>> \in [1..0 -> Tools]
    OBVIOUS
  <2> QED
    BY <2>1, <2>2
<1>2. TypeOK
  <2>1. Nothing \in Response
    BY <1>1 DEF Nothing, Response
  <2> QED
    BY <2>1, LimitsAssumption DEF Init, TypeOK
<1>3. PausesLeft /\ Pairing
  BY LimitsAssumption DEF Init, PausesLeft, Pairing, Ended
<1>4. Citing /\ Finding /\ Honest(messages, response.cites, events)
  BY DEF Init, Citing, Finding, Honest, LookedIn, Looks
<1> QED
  BY <1>2, <1>3, <1>4 DEF LoopInv

-----------------------------------------------------------------------------
\* The steps that leave messages, found, seen and events alone, one by one.
LEMMA FailPreserves == LoopInv /\ Fail => LoopInv'
<1> SUFFICES ASSUME LoopInv, Fail PROVE LoopInv'
  OBVIOUS
<1> USE DEF LoopInv, Fail
<1>1. TypeOK'
  BY DEF TypeOK
<1>2. PausesLeft' /\ Pairing'
  BY DEF PausesLeft, Pairing, Ended
<1>3. Citing'
  BY DEF Citing
<1>4. Finding' /\ Honest(messages, response.cites, events)'
  BY DEF Finding
<1> QED
  BY <1>1, <1>2, <1>3, <1>4

LEMMA ExhaustPreserves == LoopInv /\ Exhaust => LoopInv'
<1> SUFFICES ASSUME LoopInv, Exhaust PROVE LoopInv'
  OBVIOUS
<1> USE DEF LoopInv, Exhaust
<1>1. TypeOK'
  BY DEF TypeOK
<1>2. PausesLeft' /\ Pairing'
  BY DEF PausesLeft, Pairing, Ended
<1>3. Citing'
  BY DEF Citing
<1>4. Finding' /\ Honest(messages, response.cites, events)'
  BY DEF Finding
<1> QED
  BY <1>1, <1>2, <1>3, <1>4

\* A new response cites nothing of its own yet: what has been cited is in the

\* A new response cites nothing of its own yet: what has been cited is in the
\* messages.
LEMMA GeneratePreserves == LoopInv /\ Generate => LoopInv'
<1> SUFFICES ASSUME LoopInv, Generate PROVE LoopInv'
  OBVIOUS
<1>1. PICK r \in Response :
        /\ r.stop = "pause" => r.uses = <<>>
        /\ response' = r
        /\ pc' = IF r.stop = "refusal" THEN "error" ELSE "cite"
  BY DEF Generate
<1>2. /\ pc = "generate"
      /\ iterations < MaxIterations
      /\ iterations' = iterations + 1
      /\ UNCHANGED <<pauses, messages, results, found, seen, events>>
  BY DEF Generate
<1>3. TypeOK'
  BY <1>1, <1>2, LimitsAssumption DEF LoopInv, TypeOK
<1>4. PausesLeft'
  BY <1>1, <1>2 DEF LoopInv, PausesLeft, Ended
<1>5. Pairing'
  BY <1>1, <1>2 DEF LoopInv, Pairing
<1>6. Citing'
  BY <1>1, <1>2 DEF LoopInv, Citing
<1>7. Finding'
  BY <1>2 DEF LoopInv, Finding
<1>8. Honest(messages, r.cites, events)
  <2> SUFFICES ASSUME NEW n \in 1..Len(events), NEW k \in 1..(Len(messages) + 1),
                      FirstIn(messages, r.cites, events[n].citation, k)
               PROVE  events[n].in_result_set <=> LookedIn(messages, events[n].citation, k)
    BY DEF Honest
  <2>1. \E i \in 1..Len(messages) : events[n].citation \in messages[i].cites
    BY <1>2 DEF LoopInv, Citing
  <2>2. Len(messages) \in Nat
    BY DEF LoopInv, TypeOK
  <2>3. \A i \in 1..(k - 1) : events[n].citation \notin messages[i].cites
    BY DEF FirstIn
  <2>4. k <= Len(messages)
    BY <2>1, <2>2, <2>3
  <2>5. FirstIn(messages, response.cites, events[n].citation, k)
    BY <2>2, <2>4 DEF FirstIn
  <2> QED
    BY <2>5 DEF LoopInv, Honest
<1> QED
  BY <1>1, <1>2, <1>3, <1>4, <1>5, <1>6, <1>7, <1>8 DEF LoopInv

\* The event of a citation not seen before: this is the first place that cites
\* it, and found is what the messages' lookups returned.
LEMMA CitePreserves == LoopInv /\ Cite => LoopInv'
<1> SUFFICES ASSUME LoopInv, Cite PROVE LoopInv'
  OBVIOUS
<1>1. PICK t \in response.cites \ seen :
        /\ seen' = seen \cup {t}
        /\ events' = Append(events, [citation |-> t, in_result_set |-> t \in found])
  BY DEF Cite
<1>2. /\ pc = "cite"
      /\ UNCHANGED <<pc, iterations, pauses, messages, response, results, found>>
  BY DEF Cite
<1>3. /\ response \in Response
      /\ t \in Things
      /\ Len(messages) \in Nat
      /\ events \in Seq([citation : Things, in_result_set : BOOLEAN])
  BY UsesAreSeq DEF LoopInv, TypeOK
<1> DEFINE new == [citation |-> t, in_result_set |-> t \in found]
<1>4. new \in [citation : Things, in_result_set : BOOLEAN]
  BY <1>3
<1>5. /\ events' \in Seq([citation : Things, in_result_set : BOOLEAN])
      /\ Len(events) \in Nat
      /\ Len(events') = Len(events) + 1
      /\ \A i \in 1..Len(events) : events'[i] = events[i]
      /\ events'[Len(events) + 1] = new
  BY <1>1, <1>3, <1>4, Appended
<1> HIDE DEF new
<1>6. TypeOK'
  BY <1>1, <1>2, <1>3, <1>5 DEF LoopInv, TypeOK
<1>7. PausesLeft' /\ Pairing'
  BY <1>2 DEF LoopInv, PausesLeft, Pairing, Ended
<1>8. Citing'
  <2>1. new.citation = t
    BY DEF new
  <2>2. \A n \in 1..Len(events') : events'[n].citation \in seen'
    BY <1>1, <1>5, <2>1 DEF LoopInv, Citing
  <2>3. \A u \in seen' : \E n \in 1..Len(events') : events'[n].citation = u
    BY <1>1, <1>5, <2>1 DEF LoopInv, Citing
  <2>4. \A m, n \in 1..Len(events') : events'[m].citation = events'[n].citation => m = n
    BY <1>1, <1>5, <2>1 DEF LoopInv, Citing
  <2>5. \A i \in 1..Len(messages') : messages'[i].cites \subseteq seen'
    BY <1>1, <1>2 DEF LoopInv, Citing
  <2>6. \A u \in seen' :
          \/ \E i \in 1..Len(messages') : u \in messages'[i].cites
          \/ pc' \in {"cite", "error"} /\ u \in response'.cites
    BY <1>1, <1>2 DEF LoopInv, Citing
  <2> QED
    BY <2>2, <2>3, <2>4, <2>5, <2>6 DEF Citing
<1>9. Finding'
  BY <1>2 DEF LoopInv, Finding
<1>10. Honest(messages, response.cites, events')
  <2> SUFFICES ASSUME NEW n \in 1..Len(events'), NEW k \in 1..(Len(messages) + 1),
                      FirstIn(messages, response.cites, events'[n].citation, k)
               PROVE  events'[n].in_result_set <=> LookedIn(messages, events'[n].citation, k)
    BY DEF Honest
  <2>1. CASE n \in 1..Len(events)
    BY <1>5, <2>1 DEF LoopInv, Honest
  <2>2. CASE n = Len(events) + 1
    <3>1. events'[n].citation = t /\ events'[n].in_result_set = (t \in found)
      BY <1>5, <2>2 DEF new
    <3>2. \A i \in 1..Len(messages) : t \notin messages[i].cites
      BY <1>1 DEF LoopInv, Citing
    <3>3. k = Len(messages) + 1
      BY <1>3, <3>1, <3>2 DEF FirstIn
    <3>4. results = <<>>
      BY <1>2 DEF LoopInv, Pairing
    <3>5. t \in found <=> LookedIn(messages, t, Len(messages) + 1)
      BY <1>3, <3>4 DEF LoopInv, Finding, Looks
    <3> QED
      BY <3>1, <3>3, <3>5
  <2> QED
    BY <1>5, <2>1, <2>2
<1> QED
  BY <1>2, <1>6, <1>7, <1>8, <1>9, <1>10 DEF LoopInv

\* The response joins the messages; with it, nothing new is cited or found.
LEMMA AppendResponsePreserves == LoopInv /\ AppendResponse => LoopInv'
<1> SUFFICES ASSUME LoopInv, AppendResponse PROVE LoopInv'
  OBVIOUS
<1> DEFINE said == Said(response)
<1>1. /\ pc = "cite"
      /\ response.cites \subseteq seen
      /\ messages' = Append(messages, said)
      /\ UNCHANGED <<iterations, response, results, found, seen, events>>
  BY DEF AppendResponse
<1>2. \/ /\ response.stop = "pause"
         /\ pauses' = pauses + 1
         /\ pc' = IF pauses + 1 > MaxPauses THEN "done" ELSE "generate"
      \/ /\ response.stop # "pause"
         /\ pauses' = pauses
         /\ pc' = IF response.uses = <<>> THEN "done" ELSE "call"
  BY DEF AppendResponse
<1>3. /\ response \in Response
      /\ response.uses \in Seq(Tools)
      /\ response.cites \subseteq Things
      /\ messages \in Seq(Message)
  BY UsesAreSeq DEF LoopInv, TypeOK, Message
<1>4. /\ said \in Message
      /\ said.role = "assistant"
      /\ said.cites = response.cites
      /\ said.uses = response.uses
      /\ said.results = <<>>
  BY <1>3 DEF Said, Message
<1> HIDE DEF said
<1>5. /\ messages' \in Seq(Message)
      /\ Len(messages) \in Nat
      /\ Len(messages') = Len(messages) + 1
      /\ \A i \in 1..Len(messages) : messages'[i] = messages[i]
      /\ messages'[Len(messages) + 1] = said
  BY <1>1, <1>3, <1>4, Appended
<1>6. pauses \in 0..MaxPauses
  BY <1>1 DEF LoopInv, TypeOK, PausesLeft, Ended
<1>7. TypeOK'
  <2>1. pauses' \in 0..(MaxPauses + 1)
    BY <1>2, <1>6, LimitsAssumption
  <2>2. pc' \in {"generate", "cite", "call", "done", "error"}
    BY <1>2
  <2> QED
    BY <1>1, <1>5, <2>1, <2>2 DEF LoopInv, TypeOK, Message
<1>8. PausesLeft'
  BY <1>1, <1>2, <1>6, LimitsAssumption DEF PausesLeft, Ended
<1>9. Pairing'
  <2>1. \A i \in 1..Len(messages) :
          CallsTools(messages'[i]) => Answered(messages', i)
    <3> SUFFICES ASSUME NEW i \in 1..Len(messages), CallsTools(messages[i])
                 PROVE  Answered(messages', i)
      BY <1>5
    <3>1. Answered(messages, i)
      BY <1>1 DEF LoopInv, Pairing
    <3> QED
      BY <1>1, <1>3, <1>4, <3>1, AnsweredAppend
  <2>2. results' = <<>>
    BY <1>1 DEF LoopInv, Pairing
  <2>3. CASE pc' = "generate"
    <3>1. said.uses = <<>>
      BY <1>1, <1>2, <1>4, <2>3 DEF LoopInv, PausesLeft
    <3>2. \A i \in 1..Len(messages') :
            CallsTools(messages'[i]) => Answered(messages', i)
      BY <1>5, <2>1, <3>1 DEF CallsTools
    <3> QED
      BY <2>2, <2>3, <3>2 DEF Pairing
  <2>4. CASE pc' = "call"
    <3>1. \A i \in 1..(Len(messages') - 1) :
            CallsTools(messages'[i]) => Answered(messages', i)
      BY <1>5, <2>1
    <3>2. messages'[Len(messages')].uses = response'.uses /\ Len(messages') # 0
      BY <1>1, <1>4, <1>5
    <3>3. Len(results') = 0 /\ Len(response'.uses) \in Nat
      BY <1>1, <1>3, <2>2
    <3> QED
      BY <2>4, <3>1, <3>2, <3>3 DEF Pairing
  <2>5. CASE pc' = "done"
    BY <2>5 DEF Pairing
  <2> QED
    BY <1>2, <2>3, <2>4, <2>5
<1>10. Citing'
  <2>1. \A i \in 1..Len(messages') : messages'[i].cites \subseteq seen'
    BY <1>1, <1>4, <1>5 DEF LoopInv, Citing
  <2>2. \A t \in seen : \E i \in 1..Len(messages') : t \in messages'[i].cites
    <3> SUFFICES ASSUME NEW t \in seen
                 PROVE  \E i \in 1..Len(messages') : t \in messages'[i].cites
      OBVIOUS
    <3>1. CASE t \in response.cites
      BY <1>4, <1>5, <3>1
    <3>2. CASE \E i \in 1..Len(messages) : t \in messages[i].cites
      BY <1>5, <3>2
    <3> QED
      BY <3>1, <3>2 DEF LoopInv, Citing
  <2> QED
    BY <1>1, <2>1, <2>2 DEF LoopInv, Citing
<1>11. Finding'
  <2>1. \A t \in Things :
          LookedIn(messages', t, Len(messages') + 1)
          <=> LookedIn(messages, t, Len(messages) + 1)
    <3> SUFFICES ASSUME NEW t \in Things
                 PROVE  LookedIn(messages', t, Len(messages') + 1)
                        <=> LookedIn(messages, t, Len(messages) + 1)
      OBVIOUS
    <3>1. LookedIn(messages', t, Len(messages) + 2)
          <=> LookedIn(messages, t, Len(messages) + 1) \/ Looks(said.results, t)
      BY <1>1, <1>3, <1>4, LookedAppend
    <3>2. ~Looks(said.results, t)
      BY <1>4 DEF Looks
    <3>3. Len(messages') + 1 = Len(messages) + 2
      BY <1>5
    <3> QED
      BY <3>1, <3>2, <3>3
  <2>2. found' = found /\ results' = results
    BY <1>1
  <2> QED
    BY <2>1, <2>2 DEF LoopInv, Finding
<1>12. Honest(messages', response.cites, events)
  <2> SUFFICES ASSUME NEW n \in 1..Len(events), NEW k \in 1..(Len(messages) + 2),
                      FirstIn(messages', response.cites, events[n].citation, k)
               PROVE  events[n].in_result_set
                        <=> LookedIn(messages', events[n].citation, k)
    BY <1>5 DEF Honest
  <2> DEFINE t == events[n].citation
  <2>1. /\ t \in IF k > Len(messages) + 1 THEN response.cites ELSE messages'[k].cites
        /\ \A i \in 1..(k - 1) : t \notin messages'[i].cites
    BY <1>5 DEF FirstIn
  <2> HIDE DEF t
  <2>2. k \in 1..(Len(messages) + 1)
    BY <1>4, <1>5, <2>1
  <2>3. /\ t \in IF k > Len(messages) THEN response.cites ELSE messages[k].cites
        /\ \A i \in 1..(k - 1) : t \notin messages[i].cites
    BY <1>4, <1>5, <2>1, <2>2
  <2>4. events[n].in_result_set <=> LookedIn(messages, t, k)
    BY <2>2, <2>3 DEF LoopInv, Honest, FirstIn, t
  <2>5. LookedIn(messages', t, k) <=> LookedIn(messages, t, k)
    BY <1>1, <1>3, <1>4, <2>2, LookedAppend
  <2> QED
    BY <2>4, <2>5 DEF t
<1> QED
  BY <1>1, <1>7, <1>8, <1>9, <1>10, <1>11, <1>12 DEF LoopInv

\* A result more answers the next call, and what a lookup returned is found.
LEMMA DispatchPreserves == LoopInv /\ Dispatch => LoopInv'
<1> SUFFICES ASSUME LoopInv, Dispatch PROVE LoopInv'
  OBVIOUS
<1> DEFINE tool == response.uses[Len(results) + 1]
<1>1. /\ pc = "call"
      /\ Len(results) < Len(response.uses)
      /\ UNCHANGED <<pc, iterations, pauses, messages, response, seen, events>>
  BY DEF Dispatch
<1>2. PICK ok \in BOOLEAN, returned \in SUBSET Things, listed \in SUBSET Things :
        /\ listed \subseteq returned
        /\ results' = Append(results, Outcome(tool, ok, returned, listed))
        /\ found' = IF tool = "memory" THEN found ELSE found \cup returned
  BY DEF Dispatch, Listed
<1> DEFINE entry == Outcome(tool, ok, returned, listed)
<1>3. /\ response.uses \in Seq(Tools)
      /\ results \in Seq(ToolResult)
      /\ Len(results) \in Nat
  BY UsesAreSeq DEF LoopInv, TypeOK
<1>4. tool \in Tools
  BY <1>1, <1>3
<1>5. entry \in ToolResult /\ entry.tool = tool /\ entry.returned = returned
  BY <1>2, <1>4 DEF ToolResult, Outcome
<1> HIDE DEF entry
<1>6. /\ results' \in Seq(ToolResult)
      /\ Len(results') = Len(results) + 1
      /\ \A k \in 1..Len(results) : results'[k] = results[k]
      /\ results'[Len(results) + 1] = entry
  BY <1>2, <1>3, <1>5, Appended DEF entry
<1>7. /\ results'[Len(results) + 1].tool = tool
      /\ results'[Len(results) + 1].returned = returned
  BY <1>5, <1>6
<1> HIDE DEF tool
<1>8. TypeOK'
  BY <1>1, <1>2, <1>6 DEF LoopInv, TypeOK
<1>9. PausesLeft'
  BY <1>1 DEF LoopInv, PausesLeft, Ended
<1>10. Pairing'
  <2>1. \A k \in 1..Len(results') : results'[k].tool = response.uses[k]
    BY <1>1, <1>3, <1>6, <1>7 DEF LoopInv, Pairing, tool
  <2>2. Len(results') <= Len(response.uses)
    BY <1>1, <1>3, <1>6
  <2> QED
    BY <1>1, <2>1, <2>2 DEF LoopInv, Pairing
<1>11. Citing'
  BY <1>1 DEF LoopInv, Citing
<1>12. Finding'
  <2> SUFFICES ASSUME NEW t \in Things
               PROVE  t \in found' <=> \/ LookedIn(messages, t, Len(messages) + 1)
                                       \/ Looks(results', t)
    BY <1>1 DEF Finding
  <2>1. Looks(results', t) <=> Looks(results, t) \/ (tool # "memory" /\ t \in returned)
    BY <1>3, <1>6, <1>7 DEF Looks
  <2>2. t \in found' <=> t \in found \/ (tool # "memory" /\ t \in returned)
    BY <1>2, <1>4 DEF Tools
  <2> QED
    BY <2>1, <2>2 DEF LoopInv, Finding
<1>13. Honest(messages, response.cites, events)
  BY DEF LoopInv
<1> QED
  BY <1>1, <1>8, <1>9, <1>10, <1>11, <1>12, <1>13 DEF LoopInv

\* The results become the message that answers the last response; what they
\* found is now in the messages.
LEMMA AppendResultsPreserves == LoopInv /\ AppendResults => LoopInv'
<1> SUFFICES ASSUME LoopInv, AppendResults PROVE LoopInv'
  OBVIOUS
<1> DEFINE answer == Returned(results)
<1>1. /\ pc = "call"
      /\ Len(results) = Len(response.uses)
      /\ messages' = Append(messages, answer)
      /\ results' = <<>>
      /\ pc' = "generate"
      /\ UNCHANGED <<iterations, pauses, response, found, seen, events>>
  BY DEF AppendResults
<1>2. /\ response \in Response
      /\ response.uses \in Seq(Tools)
      /\ results \in Seq(ToolResult)
      /\ messages \in Seq(Message)
  BY UsesAreSeq DEF LoopInv, TypeOK, Message
<1>3. /\ answer \in Message
      /\ answer.role = "user"
      /\ answer.cites = {}
      /\ answer.uses = <<>>
      /\ answer.results = results
  BY <1>2 DEF Returned, Message
<1> HIDE DEF answer
<1>4. /\ messages' \in Seq(Message)
      /\ Len(messages) \in Nat
      /\ Len(messages') = Len(messages) + 1
      /\ \A i \in 1..Len(messages) : messages'[i] = messages[i]
      /\ messages'[Len(messages) + 1] = answer
  BY <1>1, <1>2, <1>3, Appended
<1>5. TypeOK'
  BY <1>1, <1>4 DEF LoopInv, TypeOK, Message
<1>6. PausesLeft'
  BY <1>1 DEF LoopInv, PausesLeft, Ended
<1>7. Pairing'
  <2> SUFFICES ASSUME NEW i \in 1..Len(messages'), CallsTools(messages'[i])
               PROVE  Answered(messages', i)
    BY <1>1 DEF Pairing
  <2>1. CASE i \in 1..(Len(messages) - 1)
    <3>1. i \in 1..Len(messages) /\ messages'[i] = messages[i]
      BY <1>4, <2>1
    <3>2. Answered(messages, i)
      BY <1>1, <2>1, <3>1 DEF LoopInv, Pairing
    <3> QED
      BY <1>1, <1>2, <1>3, <3>1, <3>2, AnsweredAppend
  <2>2. CASE i = Len(messages)
    <3>1. /\ messages'[i].uses = response.uses
          /\ i + 1 = Len(messages')
          /\ messages'[i + 1] = answer
      BY <1>1, <1>4, <2>2 DEF LoopInv, Pairing
    <3>2. \A k \in 1..Len(response.uses) : results[k].tool = response.uses[k]
      BY <1>1 DEF LoopInv, Pairing
    <3> QED
      BY <1>1, <1>3, <1>4, <2>2, <3>1, <3>2 DEF Answered
  <2>3. CASE i = Len(messages) + 1
    BY <1>3, <1>4, <2>3 DEF CallsTools
  <2> QED
    BY <1>4, <2>1, <2>2, <2>3
<1>8. \A t \in seen : \E i \in 1..Len(messages) : t \in messages[i].cites
  BY <1>1 DEF LoopInv, Citing
<1>9. Citing'
  <2>1. \A i \in 1..Len(messages') : messages'[i].cites \subseteq seen'
    BY <1>1, <1>3, <1>4 DEF LoopInv, Citing
  <2>2. \A t \in seen' : \E i \in 1..Len(messages') : t \in messages'[i].cites
    <3> SUFFICES ASSUME NEW t \in seen
                 PROVE  \E i \in 1..Len(messages') : t \in messages'[i].cites
      BY <1>1
    <3>1. PICK i \in 1..Len(messages) : t \in messages[i].cites
      BY <1>8
    <3> QED
      BY <1>4, <3>1
  <2> QED
    BY <1>1, <2>1, <2>2 DEF LoopInv, Citing
<1>10. Finding'
  <2> SUFFICES ASSUME NEW t \in Things
               PROVE  t \in found <=> \/ LookedIn(messages', t, Len(messages') + 1)
                                      \/ Looks(results', t)
    BY <1>1 DEF Finding
  <2>1. LookedIn(messages', t, Len(messages) + 2)
        <=> LookedIn(messages, t, Len(messages) + 1) \/ Looks(results, t)
    BY <1>1, <1>2, <1>3, LookedAppend
  <2>2. ~Looks(results', t)
    BY <1>1 DEF Looks
  <2>3. Len(messages') + 1 = Len(messages) + 2
    BY <1>4
  <2> QED
    BY <2>1, <2>2, <2>3 DEF LoopInv, Finding
<1>11. Honest(messages', response.cites, events)
  <2> SUFFICES ASSUME NEW n \in 1..Len(events), NEW k \in 1..(Len(messages) + 2),
                      FirstIn(messages', response.cites, events[n].citation, k)
               PROVE  events[n].in_result_set
                        <=> LookedIn(messages', events[n].citation, k)
    BY <1>4 DEF Honest
  <2> DEFINE t == events[n].citation
  <2>1. /\ t \in IF k > Len(messages) + 1 THEN response.cites ELSE messages'[k].cites
        /\ \A i \in 1..(k - 1) : t \notin messages'[i].cites
    BY <1>4 DEF FirstIn
  <2>2. \E i \in 1..Len(messages) : t \in messages[i].cites
    BY <1>8 DEF LoopInv, Citing
  <2> HIDE DEF t
  <2>3. k \in 1..Len(messages)
    BY <1>3, <1>4, <2>1, <2>2
  <2>4. /\ t \in messages[k].cites
        /\ \A i \in 1..(k - 1) : t \notin messages[i].cites
    BY <1>4, <2>1, <2>3
  <2>5. events[n].in_result_set <=> LookedIn(messages, t, k)
    BY <1>4, <2>3, <2>4 DEF LoopInv, Honest, FirstIn, t
  <2>6. LookedIn(messages', t, k) <=> LookedIn(messages, t, k)
    <3>1. k \in 1..(Len(messages) + 1)
      BY <1>4, <2>3
    <3> QED
      BY <1>1, <1>2, <1>3, <3>1, LookedAppend
  <2> QED
    BY <2>5, <2>6 DEF t
<1> QED
  BY <1>1, <1>5, <1>6, <1>7, <1>9, <1>10, <1>11 DEF LoopInv

LEMMA StutterPreserves == LoopInv /\ UNCHANGED vars => LoopInv'
<1> SUFFICES ASSUME LoopInv, UNCHANGED vars PROVE LoopInv'
  OBVIOUS
<1>1. TypeOK' /\ PausesLeft' /\ Pairing'
  BY DEF LoopInv, vars, TypeOK, PausesLeft, Pairing, Ended
<1>2. Citing' /\ Finding'
  BY DEF LoopInv, vars, Citing, Finding
<1> QED
  BY <1>1, <1>2 DEF LoopInv, vars

LEMMA StepPreserves == LoopInv /\ [Next]_vars => LoopInv'
<1> SUFFICES ASSUME LoopInv, [Next]_vars PROVE LoopInv'
  OBVIOUS
<1>1. CASE Generate
  BY <1>1, GeneratePreserves
<1>2. CASE Exhaust
  BY <1>2, ExhaustPreserves
<1>3. CASE Cite
  BY <1>3, CitePreserves
<1>4. CASE AppendResponse
  BY <1>4, AppendResponsePreserves
<1>5. CASE Dispatch
  BY <1>5, DispatchPreserves
<1>6. CASE AppendResults
  BY <1>6, AppendResultsPreserves
<1>7. CASE Fail
  BY <1>7, FailPreserves
<1>8. CASE UNCHANGED vars
  BY <1>8, StutterPreserves
<1> QED
  BY <1>1, <1>2, <1>3, <1>4, <1>5, <1>6, <1>7, <1>8 DEF Next, Step

-----------------------------------------------------------------------------
\* The turn's inductive invariant: no request of Orchestrator.run has a tool
\* call that waits for its result, the seen set matches the events sent and
\* the result sets match what the tool results in the messages hold.
THEOREM LoopInvariant == Spec => []LoopInv
<1>1. Init => LoopInv
  BY InitEstablishes
<1>2. LoopInv /\ [Next]_vars => LoopInv'
  BY StepPreserves
<1> QED
  BY <1>1, <1>2, PTL DEF Spec

\* The loop stays within its limits: run asks the model at most MaxIterations
\* times and re-sends at most MaxPauses pauses, whatever the model answers.
THEOREM LoopTypes == Spec => []TypeOK
<1>1. LoopInv => TypeOK
  BY DEF LoopInv
<1> QED
  BY <1>1, LoopInvariant, PTL

\* Whatever tools the model calls and however they fail, each request run sends
\* answers every call of every earlier response, once and in order.
THEOREM RequestsWellFormed == Spec => []ToolResultsPaired
<1>1. LoopInv => ToolResultsPaired
  BY DEF LoopInv, Pairing, ToolResultsPaired, CallsTools, Answered
<1> QED
  BY <1>1, LoopInvariant, PTL

\* record's seen set sends one event for each citation of the turn, however
\* often the model makes it.
THEOREM EachCitedOnce == Spec => []CitedOnce
<1>1. LoopInv => CitedOnce
  <2> SUFFICES ASSUME LoopInv, NEW i \in 1..Len(messages), NEW t \in messages[i].cites
               PROVE  \E k \in 1..Len(events) :
                        /\ events[k].citation = t
                        /\ \A l \in 1..Len(events) : events[l].citation = t => l = k
    BY DEF CitedOnce
  <2>1. PICK k \in 1..Len(events) : events[k].citation = t
    BY DEF LoopInv, Citing
  <2> QED
    BY <2>1 DEF LoopInv, Citing
<1> QED
  BY <1>1, LoopInvariant, PTL

\* in_result_set of an event is true exactly of what a lookup of this turn had
\* returned, listed or not, before the model first cited it: a memory tool's
\* results do not count, nor does what a lookup returns afterwards; and what the
\* model was shown by a lookup resolves.
THEOREM CitationsHonest == Spec => []CitationHonest
<1>1. LoopInv => CitationHonest
  BY HonestSays DEF LoopInv
<1> QED
  BY <1>1, LoopInvariant, PTL
=============================================================================
