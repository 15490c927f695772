---------------------------- MODULE CorpusProofs ----------------------------
(***************************************************************************)
(* Proofs about the two ends of an ingest run.  GitHubClient: payloads are *)
(* whole and the headroom lasts, for any listings and any limits that      *)
(* satisfy its assumptions.  Chunking: two chunks of a document never      *)
(* share a citation, whatever the document and the sizes; what `_unique'   *)
(* returns is never taken, and the citations of all chunks so far are.     *)
(* No chunk is longer than the embedder's window: every unit is cut to the *)
(* room its header leaves, which a decoded piece exceeds by the drift at   *)
(* most, so is every part the packing builds, and the margin covers the    *)
(* drift.  And nothing is lost: what the cuts, the parts and the chunks    *)
(* have of a text is all of it, in its order.                              *)
(***************************************************************************)
EXTENDS GitHubClient, Chunking, SequenceLemmas, SequenceTheorems, FiniteSetTheorems

-----------------------------------------------------------------------------
(* The client.                                                             *)

TypeInv ==
  /\ cache \in [Keys -> {Absent, Corrupt} \cup {Content[k] : k \in Keys}]
  /\ remaining \in 0..Quota
  /\ pc \in {"over", "ready", "send", "save", "rename"}
  /\ key \in Keys
  /\ got \in Seq(Seq(Nat))
  /\ attempt \in Nat
  /\ transport_attempt \in Nat

\* The pages so far are the first ones of the listing, and while a request is
\* sent there is a next one.
Whole ==
  /\ pc = "send" => Len(got) < Len(Content[key])
  /\ PayloadComplete

\* An answer leaves more than the floor, and since then the quota has gone down
\* by the requests that were retried and no more.
Headroom ==
  /\ pc = "send" => attempt < MaxRetries
  /\ pc \in {"save", "rename"} => attempt = 0
  /\ noted /\ pc \in {"ready", "save", "rename"} => remaining > RateLimitFloor
  /\ noted /\ pc = "send" => remaining + attempt + transport_attempt > RateLimitFloor

ClientInv == TypeInv /\ Whole /\ Headroom

LEMMA InitInv == Init => ClientInv
  BY PagesAssumption, LimitsAssumption DEF Init, ClientInv, TypeInv, Whole, Headroom, PayloadComplete

LEMMA StepInv == ClientInv /\ [Next]_vars => ClientInv'
<1> SUFFICES ASSUME ClientInv, [Next]_vars PROVE ClientInv'
  OBVIOUS
<1> USE PagesAssumption, LimitsAssumption, SpecialAssumption DEF ClientInv
<1>1. CASE StartRun
  BY <1>1 DEF StartRun, request, TypeInv, Whole, Headroom, PayloadComplete
<1>2. CASE EndRun
  BY <1>2 DEF EndRun, request, TypeInv, Whole, Headroom, PayloadComplete
<1>3. CASE NewWindow
  BY <1>3 DEF NewWindow, request, TypeInv, Whole, Headroom, PayloadComplete
<1>4. ASSUME NEW k \in Keys, GetCached(k) PROVE ClientInv'
  <2>1. cache[k] \in {Absent, Corrupt, Content[k]} /\ Content[k] \in Seq(Seq(Nat))
        /\ Content[k] # <<>> /\ key' = k /\ attempt' = 0 /\ transport_attempt' = 0
        /\ pc = "ready" /\ UNCHANGED <<remaining, noted>>
    BY <1>4 DEF GetCached, Whole, PayloadComplete
  <2>2. CASE use_cache /\ cache[k] \notin {Absent, Corrupt}
    <3>1. got' = Content[k] /\ pc' = "ready" /\ UNCHANGED cache
      BY <1>4, <2>1, <2>2 DEF GetCached
    <3>2. TypeInv'
      BY <2>1, <3>1 DEF TypeInv
    <3>3. Whole'
      BY <2>1, <3>1 DEF Whole, PayloadComplete
    <3>4. Headroom'
      BY <2>1, <3>1 DEF TypeInv, Headroom
    <3> QED
      BY <3>2, <3>3, <3>4
  <2>3. CASE ~(use_cache /\ cache[k] \notin {Absent, Corrupt})
    <3>1. got' = <<>> /\ pc' = "send" /\ cache' \in {[cache EXCEPT ![k] = Absent], cache}
      BY <1>4, <2>3 DEF GetCached
    <3>2. cache' \in [Keys -> {Absent, Corrupt} \cup {Content[j] : j \in Keys}]
          /\ \A j \in Keys : cache'[j] \in {Absent, Corrupt, Content[j]}
      BY <3>1 DEF TypeInv, Whole, PayloadComplete
    <3>3. Len(got') < Len(Content[k]) /\ DOMAIN got' = {} /\ got' \in Seq(Seq(Nat))
      BY <2>1, <3>1
    <3> QED
      <4>1. TypeInv'
        BY <2>1, <3>1, <3>2, <3>3 DEF TypeInv
      <4>2. Whole'
        BY <2>1, <3>1, <3>2, <3>3 DEF Whole, PayloadComplete
      <4>3. Headroom'
        BY <2>1, <3>1 DEF TypeInv, Headroom
      <4> QED
        BY <4>1, <4>2, <4>3
  <2> QED
    BY <2>2, <2>3
<1>5. CASE TransportFailure
  <2>1. /\ pc = "send" /\ pc' \in {"send", "over"}
        /\ transport_attempt' = transport_attempt + 1
        /\ remaining' \in {remaining, remaining - 1} \cap Nat
        /\ UNCHANGED <<cache, key, got, attempt, noted>>
    BY <1>5 DEF TransportFailure
  <2>2. TypeInv'
    BY <2>1 DEF TypeInv
  <2>3. Whole'
    BY <2>1 DEF Whole, PayloadComplete
  <2>4. Headroom'
    BY <2>1 DEF TypeInv, Headroom
  <2> QED
    BY <2>2, <2>3, <2>4
<1>6. CASE ServerError
  <2>1. TypeInv'
    BY <1>6 DEF ServerError, Retry, TypeInv
  <2>2. Whole'
    BY <1>6 DEF ServerError, Retry, Whole, PayloadComplete
  <2>3. Headroom'
    BY <1>6 DEF ServerError, Retry, TypeInv, Headroom
  <2> QED
    BY <2>1, <2>2, <2>3
<1>7. CASE RateLimited
  <2>1. TypeInv'
    BY <1>7 DEF RateLimited, Retry, TypeInv
  <2>2. Whole'
    BY <1>7 DEF RateLimited, Retry, Whole, PayloadComplete
  <2>3. Headroom'
    BY <1>7 DEF RateLimited, Retry, TypeInv, Headroom
  <2> QED
    BY <2>1, <2>2, <2>3
<1>8. CASE Refused
  BY <1>8 DEF Refused, request, TypeInv, Whole, Headroom, PayloadComplete
<1>9. CASE Answer
  <2> DEFINE page == Content[key][Len(got) + 1]
  <2>1. /\ Content[key] \in Seq(Seq(Nat))
        /\ Len(got) + 1 \in DOMAIN Content[key]
        /\ got' = Append(got, page)
        /\ page \in Seq(Nat)
        /\ \A i \in DOMAIN got : got[i] = Content[key][i]
    BY <1>9, SMTT(15) DEF Answer, TypeInv, Whole, PayloadComplete
  <2>2. /\ got' \in Seq(Seq(Nat))
        /\ Len(got') = Len(got) + 1
        /\ Len(got') <= Len(Content[key])
        /\ \A i \in DOMAIN got' : got'[i] = Content[key][i]
    <3> HIDE DEF page
    <3>1. got' \in Seq(Seq(Nat)) /\ Len(got') = Len(got) + 1
      BY <2>1, AppendProperties DEF TypeInv
    <3>2. \A i \in 1..Len(got) : got'[i] = got[i]
      BY <2>1, AppendProperties DEF TypeInv
    <3>3. got'[Len(got) + 1] = Content[key][Len(got) + 1]
      BY <2>1, AppendProperties DEF TypeInv, page
    <3>4. DOMAIN got' = 1..(Len(got) + 1) /\ DOMAIN got = 1..Len(got) /\ Len(got) \in Nat
      BY <3>1, LenProperties DEF TypeInv
    <3>5. Len(got) + 1 <= Len(Content[key])
      BY <2>1, <3>4, LenProperties
    <3>6. \A i \in DOMAIN got' : got'[i] = Content[key][i]
      <4> TAKE i \in DOMAIN got'
      <4>1. CASE i \in 1..Len(got)
        BY <2>1, <3>2, <3>4, <4>1
      <4>2. CASE i = Len(got) + 1
        BY <3>3, <4>2
      <4>3. i \in 1..(Len(got) + 1)
        BY <3>4
      <4>4. i \in 1..Len(got) \/ i = Len(got) + 1
        BY <3>4, <4>3
      <4> QED
        BY <4>1, <4>2, <4>4
    <3> QED
      BY <3>1, <3>5, <3>6
  <2>3. TypeInv'
    <3> HIDE DEF page
    <3>1. remaining \in 1..Quota /\ Quota \in Nat
      BY <1>9, LimitsAssumption DEF Answer, TypeInv
    <3>2. remaining' \in 0..Quota
      BY <1>9, <3>1 DEF Answer, NoteBudget
    <3>3. UNCHANGED <<cache, key>> /\ attempt' = 0 /\ transport_attempt' = 0 /\ pc' \in {"send", "save"}
      BY <1>9 DEF Answer
    <3> QED
      BY <2>2, <3>2, <3>3 DEF TypeInv
  <2>4. Len(got') = Len(Content[key]) => got' = Content[key]
    BY <2>1, <2>2, SeqEqual
  <2>5. Whole'
    <3> HIDE DEF page
    <3>1. UNCHANGED <<cache, key>> /\ pc' \in {"send", "save"}
          /\ (pc' = "send" <=> Len(got') < Len(Content[key]))
      BY <1>9 DEF Answer
    <3>2. pc' = "save" => got' = Content[key]
      BY <2>1, <2>2, <2>4, <3>1, LenProperties
    <3> QED
      BY <2>2, <3>1, <3>2 DEF Whole, PayloadComplete
  <2>6. Headroom'
    BY <1>9 DEF Answer, NoteBudget, TypeInv, Headroom
  <2> QED
    BY <2>3, <2>5, <2>6
<1>10. CASE WriteCache
  BY <1>10 DEF WriteCache, request, TypeInv, Whole, Headroom, PayloadComplete
<1>11. CASE Rename
  BY <1>11 DEF Rename, request, TypeInv, Whole, Headroom, PayloadComplete
<1>12. CASE UNCHANGED vars
  BY <1>12 DEF vars, TypeInv, Whole, Headroom, PayloadComplete
<1> QED
  BY <1>1, <1>2, <1>3, <1>4, <1>5, <1>6, <1>7, <1>8, <1>9, <1>10, <1>11, <1>12 DEF Next, Step

LEMMA ClientInvariant == Spec => []ClientInv
  BY InitInv, StepInv, PTL DEF Spec

\* For any keys, listings and limits, what is cached or returned is the whole
\* listing, in order, whatever fails on the way.
THEOREM PayloadsWhole == Spec => []PayloadComplete
<1>1. ClientInv => PayloadComplete
  BY DEF ClientInv, Whole
<1> QED
  BY <1>1, ClientInvariant, PTL

\* Whatever the limits, no request of a run that knows its quota meets an empty
\* one while the floor covers its attempts and the requests that were lost.
THEOREM HeadroomIsEnough == Spec => []HeadroomLasts
<1>1. ClientInv => HeadroomLasts
  BY LimitsAssumption DEF ClientInv, TypeInv, Headroom, HeadroomLasts
<1> QED
  BY <1>1, ClientInvariant, PTL

-----------------------------------------------------------------------------
(* Citations.                                                              *)

\* Appending to a sequence tells both apart.
LEMMA AppendsDiffer ==
  ASSUME NEW s, IsSequence(s), NEW m, NEW n, Append(s, m) = Append(s, n)
  PROVE  m = n
PROOF
<1> DEFINE V == {s[i] : i \in 1..Len(s)} \cup {m, n}
<1>1. s \in Seq(V)
  BY DEF IsSequence
<1>2. Append(s, m)[Len(s) + 1] = m /\ Append(s, n)[Len(s) + 1] = n
  BY <1>1
<1> QED
  BY <1>2

\* Among so many numbers as there are citations taken, and one more, one is free.
LEMMA UniqueIsFree ==
  ASSUME NEW base, IsSequence(base), NEW taken, IsFiniteSet(taken)
  PROVE  Unique(base, taken) \notin taken
PROOF
<1> DEFINE c == Cardinality(taken)
           I == 2..(c + 2)
           free == {n \in I : Append(base, n) \notin taken}
           f == [n \in I |-> Append(base, n)]
<1>1. c \in Nat
  BY FS_CardinalityType
<1>2. IsFiniteSet(I) /\ Cardinality(I) = c + 1
  <2>1. 2 \in Int /\ c + 2 \in Int /\ ~(2 > c + 2)
    BY <1>1
  <2> HIDE DEF c
  <2>2. IsFiniteSet(2..(c + 2)) /\ Cardinality(2..(c + 2)) = (c + 2) - 2 + 1
    BY <2>1, FS_Interval
  <2> QED
    BY <1>1, <2>2
<1>3. free # {}
  <2> SUFFICES ASSUME free = {} PROVE FALSE
    OBVIOUS
  <2>1. \A n \in I : f[n] \in taken
    OBVIOUS
  <2>2. \A m, n \in I : f[m] = f[n] => m = n
    BY AppendsDiffer
  <2>3. f \in Injection(I, taken)
    BY <2>1, <2>2 DEF Injection, IsInjective
  <2>4. Cardinality(I) <= c
    BY <2>3, FS_Injection
  <2> QED
    BY <2>4, <1>2, <1>1
<1>4. free \in SUBSET Nat
  BY <1>1
<1>5. Min(free) \in free
  BY <1>3, <1>4, MinIsLeast
<1> QED
  BY <1>5 DEF Unique

-----------------------------------------------------------------------------
(* The inductive invariant.                                                *)

\* What is yet to become a citation is a sequence.
Words ==
  doc.kind = "docs" =>
    /\ IsSequence(todo)
    /\ \A i \in 1..Len(todo) : IsSequence(todo[i].slug) /\ IsSequence(todo[i].anchor)
    /\ pending # <<>> => IsSequence(pending[1].slug) /\ IsSequence(pending[1].anchor)
    /\ span # <<>> => IsSequence(span[1].base)

Counted == index \in [{"body", "comment"} -> Nat]

Allocates == doc.kind = "docs" \/ (doc.kind = "code" /\ doc.parses)

\* Where citations are allocated, those of all chunks are taken; where they are
\* numbered, their numbers are below the next.
Taken(ids) ==
  /\ Allocates => \A i \in 1..Len(ids) : ids[i].id \in used
  /\ doc.kind = "issue" =>
       \A i \in 1..Len(ids) : \E t \in {"body", "comment"} : \E n \in Nat :
         ids[i].id = <<t, n>> /\ n < index[t]

Distinct(ids) ==
  (doc.kind = "code" => doc.parses) =>
    \A i, j \in 1..Len(ids) : i # j => ids[i].id # ids[j].id

ChunkInv ==
  /\ doc \in Documents
  /\ IsFiniteSet(used)
  /\ IsSequence(chunks)
  /\ Words
  /\ Counted
  /\ Taken(chunks)
  /\ Distinct(chunks)

LEMMA SequenceOf ==
  ASSUME NEW V, NEW s \in Seq(V)
  PROVE  IsSequence(s)
PROOF
<1>1. Len(s) \in Nat /\ DOMAIN s = 1..Len(s) /\ s = [i \in DOMAIN s |-> s[i]]
  OBVIOUS
<1> QED
  BY <1>1 DEF IsSequence

LEMMA Extended ==
  ASSUME NEW s, IsSequence(s), NEW c
  PROVE  /\ IsSequence(Append(s, c))
         /\ Len(Append(s, c)) = Len(s) + 1
         /\ Append(s, c)[Len(s) + 1] = c
         /\ \A i \in 1..Len(s) : Append(s, c)[i] = s[i]
PROOF
<1> DEFINE V == {s[i] : i \in 1..Len(s)} \cup {c}
<1>1. s \in Seq(V) /\ c \in V
  BY DEF IsSequence
<1> HIDE DEF V
<1>2. Append(s, c) \in Seq(V)
  BY <1>1
<1>3. IsSequence(Append(s, c))
  BY <1>2, SequenceOf
<1>4. Len(Append(s, c)) = Len(s) + 1
  BY <1>1
<1>5. Append(s, c)[Len(s) + 1] = c
  BY <1>1
<1>6. \A i \in 1..Len(s) : Append(s, c)[i] = s[i]
  BY <1>1
<1> QED
  BY <1>3, <1>4, <1>5, <1>6

LEMMA Shortened ==
  ASSUME NEW s, IsSequence(s), s # <<>>
  PROVE  /\ Len(s) \in Nat \ {0} /\ Head(s) = s[1]
         /\ IsSequence(Tail(s)) /\ Len(Tail(s)) = Len(s) - 1
         /\ \A i \in 1..(Len(s) - 1) : Tail(s)[i] = s[i + 1]
PROOF
<1> DEFINE V == {s[i] : i \in 1..Len(s)}
<1>1. s \in Seq(V)
  BY DEF IsSequence
<1> HIDE DEF V
<1>2. Tail(s) \in Seq(V) /\ Len(s) \in Nat \ {0} /\ Head(s) = s[1]
  BY <1>1
<1>3. IsSequence(Tail(s))
  BY <1>2, SequenceOf
<1>4. Len(Tail(s)) = Len(s) - 1
  BY <1>1
<1>5. \A i \in 1..(Len(s) - 1) : Tail(s)[i] = s[i + 1]
  BY <1>1
<1> QED
  BY <1>2, <1>3, <1>4, <1>5

\* A chunk's citation is none of those before it.
LEMMA FreshCitation ==
  ASSUME ChunkInv, span # <<>>, NEW part, NEW i \in 1..Len(chunks),
         doc.kind = "code" => doc.parses
  PROVE  Citation(span[1], part) # chunks[i].id
PROOF
<1> USE DEF ChunkInv, Taken
<1>1. CASE doc.kind = "docs"
  <2>1. Citation(span[1], part) = Unique(span[1].base, used)
    BY <1>1 DEF Citation
  <2>2. Unique(span[1].base, used) \notin used
    BY <1>1, UniqueIsFree DEF Words
  <2> QED
    BY <1>1, <2>1, <2>2 DEF Allocates
<1>2. CASE doc.kind = "code"
  <2> DEFINE range == <<span[1].units[part[1]].line, span[1].units[Last(part)].line>>
  <2>1. Citation(span[1], part) = Unique(range, used)
    BY <1>2 DEF Citation
  <2>2. IsSequence(range)
    BY DEF IsSequence
  <2> HIDE DEF range
  <2>3. Unique(range, used) \notin used
    BY <2>2, UniqueIsFree
  <2> QED
    BY <1>2, <2>1, <2>3 DEF Allocates
<1>3. CASE doc.kind = "issue"
  <2>1. PICK t \in {"body", "comment"}, n \in Nat : chunks[i].id = <<t, n>> /\ n < index[t]
    BY <1>3
  <2>2. Citation(span[1], part) = <<Numbering(span[1]), index[Numbering(span[1])]>>
    BY <1>3 DEF Citation
  <2> QED
    BY <2>1, <2>2 DEF Counted
<1> QED
  BY <1>1, <1>2, <1>3, DocumentsAssumption

-----------------------------------------------------------------------------
(* Every step preserves it.                                                *)

LEMMA ChunkInitInv == ChunkInit => ChunkInv
PROOF
<1> SUFFICES ASSUME ChunkInit PROVE ChunkInv
  OBVIOUS
<1> USE DEF ChunkInit
<1>1. IsFiniteSet(used)
  BY FS_EmptySet
<1>2. IsSequence(chunks) /\ Len(chunks) = 0
  BY DEF IsSequence
<1>3. Words
  BY DocumentsAssumption DEF Words, Todo, IsSection
<1>4. Counted
  <2>1. index = [x \in {"body", "comment"} |-> 0]
    OBVIOUS
  <2> QED
    BY <2>1 DEF Counted
<1>5. Taken(chunks) /\ Distinct(chunks)
  BY <1>2 DEF Taken, Distinct
<1> QED
  BY <1>1, <1>2, <1>3, <1>4, <1>5 DEF ChunkInv

\* A section's span cites by its anchor or its slug.
LEMMA SectionBase ==
  ASSUME NEW s, IsSequence(s.slug), IsSequence(s.anchor)
  PROVE  IsSequence(SectionSpan(doc, s).base)
PROOF
  BY DEF SectionSpan, SpanOf

\* Merging keeps the next section's slug, and drops its anchor.
LEMMA MergedWords ==
  ASSUME NEW p, NEW s, IsSequence(s.slug), IsSequence(s.anchor)
  PROVE  IsSequence(Merged(p, s).slug) /\ IsSequence(Merged(p, s).anchor)
PROOF
<1>1. CASE p = <<>>
  BY <1>1 DEF Merged
<1>2. CASE p # <<>>
  BY <1>2 DEF Merged, IsSequence
<1> QED
  BY <1>1, <1>2

\* A step that emits nothing only has to keep what is to become citations.
LEMMA NothingEmitted ==
  ASSUME ChunkInv, Words', UNCHANGED <<doc, index, used, chunks>>
  PROVE  ChunkInv'
PROOF
  BY DEF ChunkInv, Counted, Taken, Distinct, Allocates

LEMMA TakeSectionInv == ChunkInv /\ TakeSection => ChunkInv'
PROOF
<1> SUFFICES ASSUME ChunkInv, TakeSection PROVE ChunkInv'
  OBVIOUS
<1> DEFINE s == Merged(pending, Head(todo))
<1>1. /\ todo' = Tail(todo) /\ todo # <<>> /\ span = <<>>
      /\ UNCHANGED <<doc, index, used, chunks>>
      /\ \/ pending' = <<s>> /\ span' = span
         \/ pending' = <<>> /\ span' = <<SectionSpan(doc, s)>>
      /\ doc.kind = "docs"
  BY DEF TakeSection, Open
<1>2. /\ IsSequence(todo)
      /\ \A i \in 1..Len(todo) : IsSequence(todo[i].slug) /\ IsSequence(todo[i].anchor)
  BY <1>1 DEF ChunkInv, Words
<1>3. /\ Len(todo) \in Nat \ {0} /\ Head(todo) = todo[1]
      /\ IsSequence(todo') /\ Len(todo') = Len(todo) - 1
      /\ \A i \in 1..(Len(todo) - 1) : todo'[i] = todo[i + 1]
  BY <1>1, <1>2, Shortened
<1>4. IsSequence(s.slug) /\ IsSequence(s.anchor)
  <2>1. IsSequence(Head(todo).slug) /\ IsSequence(Head(todo).anchor)
    BY <1>2, <1>3
  <2> QED
    BY <2>1, MergedWords
<1>5. IsSequence(SectionSpan(doc, s).base)
  BY <1>4, SectionBase
<1> HIDE DEF s
<1>6. \A i \in 1..Len(todo') : IsSequence(todo'[i].slug) /\ IsSequence(todo'[i].anchor)
  BY <1>2, <1>3
<1>7. Words'
  BY <1>1, <1>3, <1>4, <1>5, <1>6 DEF Words
<1> QED
  BY <1>1, <1>7, NothingEmitted

LEMMA TakeTrailingInv == ChunkInv /\ TakeTrailing => ChunkInv'
PROOF
<1> SUFFICES ASSUME ChunkInv, TakeTrailing PROVE ChunkInv'
  OBVIOUS
<1>1. /\ UNCHANGED <<doc, todo, index, used, chunks>> /\ pending # <<>> /\ pending' = <<>>
      /\ span' = <<SectionSpan(doc, pending[1])>>
  BY DEF TakeTrailing, Open
<1>2. ASSUME doc.kind = "docs" PROVE IsSequence(SectionSpan(doc, pending[1]).base)
  BY <1>1, <1>2, SectionBase DEF ChunkInv, Words
<1>3. Words'
  BY <1>1, <1>2 DEF ChunkInv, Words
<1> QED
  BY <1>1, <1>3, NothingEmitted

LEMMA TakeSpanInv == ChunkInv /\ TakeSpan => ChunkInv'
PROOF
<1> SUFFICES ASSUME ChunkInv, TakeSpan PROVE ChunkInv'
  OBVIOUS
<1>1. doc.kind # "docs" /\ UNCHANGED <<doc, index, used, chunks>>
  BY DEF TakeSpan, Open
<1>2. Words'
  BY <1>1 DEF Words
<1> QED
  BY <1>1, <1>2, NothingEmitted

LEMMA PackNextInv == ChunkInv /\ PackNext => ChunkInv'
PROOF
<1> SUFFICES ASSUME ChunkInv, PackNext PROVE ChunkInv'
  OBVIOUS
<1>1. UNCHANGED <<doc, todo, pending, span, index, used, chunks>>
  BY DEF PackNext
<1>2. Words'
  BY <1>1 DEF ChunkInv, Words
<1> QED
  BY <1>1, <1>2, NothingEmitted

LEMMA EmitPartInv == ChunkInv /\ EmitPart => ChunkInv'
PROOF
<1> SUFFICES ASSUME ChunkInv, EmitPart PROVE ChunkInv'
  OBVIOUS
<1> DEFINE s == span[1]
           part == Head(Parts(pk))
           id == Citation(s, part)
           c == Chunk(s, part)
           n == Numbering(s)
<1>1. UNCHANGED <<doc, todo, pending>> /\ span # <<>> /\ (span' = <<>> \/ span' = span)
  BY DEF EmitPart
<1>2. Words'
  BY <1>1 DEF ChunkInv, Words
<1>3. CASE UNCHANGED <<index, used, chunks>>
  BY <1>1, <1>2, <1>3, NothingEmitted
<1>4. CASE /\ chunks' = Append(chunks, c) /\ used' = used \cup {id}
           /\ index' = [index EXCEPT ![n] = @ + 1]
  <2>1. c.id = id
    BY DEF Chunk
  <2>2. \A i \in 1..Len(chunks) : (doc.kind = "code" => doc.parses) => id # chunks[i].id
    BY <1>1, FreshCitation
  <2>3. n \in {"body", "comment"}
    BY DEF Numbering
  <2>4. doc.kind = "issue" => id = <<n, index[n]>>
    BY DEF Citation
  <2> HIDE DEF c, id, n
  <2>5. /\ IsSequence(chunks') /\ Len(chunks') = Len(chunks) + 1 /\ Len(chunks) \in Nat
        /\ chunks'[Len(chunks) + 1] = c
        /\ \A i \in 1..Len(chunks) : chunks'[i] = chunks[i]
    BY <1>4, Extended DEF ChunkInv, IsSequence
  <2>6. doc' \in Documents
    BY <1>1 DEF ChunkInv
  <2>7. IsFiniteSet(used')
    BY <1>4, FS_AddElement DEF ChunkInv
  <2>8. Counted' /\ index'[n] = index[n] + 1 /\ \A t \in {"body", "comment"} : index[t] <= index'[t]
    BY <1>4, <2>3 DEF ChunkInv, Counted
  <2>9. Taken(chunks)'
    <3>1. ASSUME Allocates', NEW i \in 1..Len(chunks') PROVE chunks'[i].id \in used'
      <4>1. CASE i = Len(chunks) + 1
        BY <1>4, <2>1, <2>5, <4>1
      <4>2. CASE i \in 1..Len(chunks)
        BY <1>1, <1>4, <2>5, <3>1, <4>2 DEF ChunkInv, Taken, Allocates
      <4> QED
        BY <2>5, <4>1, <4>2
    <3>2. ASSUME doc'.kind = "issue", NEW i \in 1..Len(chunks')
          PROVE  \E t \in {"body", "comment"} : \E k \in Nat :
                   chunks'[i].id = <<t, k>> /\ k < index'[t]
      <4>1. CASE i = Len(chunks) + 1
        <5>1. index[n] \in Nat /\ index[n] < index'[n]
          BY <2>3, <2>8 DEF ChunkInv, Counted
        <5> QED
          BY <1>1, <2>1, <2>3, <2>4, <2>5, <3>2, <4>1, <5>1
      <4>2. CASE i \in 1..Len(chunks)
        <5>1. PICK t \in {"body", "comment"}, k \in Nat : chunks[i].id = <<t, k>> /\ k < index[t]
          BY <1>1, <3>2, <4>2 DEF ChunkInv, Taken
        <5>2. index[t] \in Nat /\ index'[t] \in Nat
          BY <2>8 DEF ChunkInv, Counted
        <5>3. k < index'[t]
          BY <2>8, <5>1, <5>2
        <5> QED
          BY <2>5, <4>2, <5>1, <5>3
      <4> QED
        BY <2>5, <4>1, <4>2
    <3> QED
      BY <3>1, <3>2 DEF Taken
  <2>10. Distinct(chunks)'
    <3> SUFFICES ASSUME doc'.kind = "code" => doc'.parses,
                        NEW i \in 1..Len(chunks'), NEW j \in 1..Len(chunks'), i # j
                 PROVE  chunks'[i].id # chunks'[j].id
      BY DEF Distinct
    <3>1. CASE i = Len(chunks) + 1
      BY <1>1, <2>1, <2>2, <2>5, <3>1
    <3>2. CASE j = Len(chunks) + 1
      BY <1>1, <2>1, <2>2, <2>5, <3>2
    <3>3. CASE i \in 1..Len(chunks) /\ j \in 1..Len(chunks)
      BY <1>1, <2>5, <3>3 DEF ChunkInv, Distinct
    <3> QED
      BY <2>5, <3>1, <3>2, <3>3
  <2> QED
    BY <1>2, <2>5, <2>6, <2>7, <2>8, <2>9, <2>10 DEF ChunkInv
<1> QED
  BY <1>3, <1>4 DEF EmitPart

\* Two chunks of one document never share a citation, whatever the document,
\* if it parses (_unique, _citation_for, chunk_issue's numbering).
THEOREM CitationsAreUnique == ChunkSpec => []CitationsUnique
PROOF
<1>1. ChunkInv /\ [ChunkNext]_chunkVars => ChunkInv'
  <2> SUFFICES ASSUME ChunkInv, [ChunkNext]_chunkVars PROVE ChunkInv'
    OBVIOUS
  <2>1. CASE TakeSection
    BY <2>1, TakeSectionInv
  <2>2. CASE TakeTrailing
    BY <2>2, TakeTrailingInv
  <2>3. CASE TakeSpan
    BY <2>3, TakeSpanInv
  <2>4. CASE PackNext
    BY <2>4, PackNextInv
  <2>5. CASE EmitPart
    BY <2>5, EmitPartInv
  <2>6. CASE UNCHANGED chunkVars
    <3>1. UNCHANGED <<doc, todo, pending, span, index, used, chunks>>
      BY <2>6 DEF chunkVars
    <3>2. Words'
      BY <3>1 DEF ChunkInv, Words
    <3> QED
      BY <3>1, <3>2, NothingEmitted
  <2> QED
    BY <2>1, <2>2, <2>3, <2>4, <2>5, <2>6 DEF ChunkNext
<1>2. ChunkInv => CitationsUnique
  <2>1. ChunkInv => DOMAIN chunks = 1..Len(chunks)
    BY DEF ChunkInv, IsSequence
  <2> QED
    BY <2>1 DEF ChunkInv, Distinct, CitationsUnique
<1> QED
  BY <1>1, <1>2, ChunkInitInv, PTL DEF ChunkSpec

-----------------------------------------------------------------------------
(* The embedder's window.                                                  *)

UnitsFit(units, max) ==
  IsSequence(units) /\ \A i \in 1..Len(units) : units[i].cost \in Int /\ units[i].cost <= max

LEMMA SizesOfBudget ==
  ASSUME NEW header \in Nat
  PROVE  /\ Budget(header) \in Nat /\ Budget(header) >= MinBudget
         /\ {SafetyMargin, Drift, SpecialTokens} \subseteq Nat
         /\ AuthorRoom \in Nat /\ AuthorRoom < Budget(header)
         /\ header + MinBudget <= MaxTokens => header + Budget(header) + SafetyMargin = EmbedWindow
PROOF
  BY SizesAssumption DEF Budget, Larger, MaxTokens

LEMMA LooserFit ==
  ASSUME NEW units, NEW max \in Int, NEW more \in Int, max <= more, UnitsFit(units, max)
  PROVE  UnitsFit(units, more)
PROOF
  BY DEF UnitsFit

LEMMA TotalIsNat == \A s \in Seq(Nat) : Total(s) \in Nat
PROOF
<1> SUFFICES ASSUME NEW s \in Seq(Nat) PROVE Total(s) \in Nat
  OBVIOUS
<1>1. Len(s) \in Nat /\ \A i \in 1..Len(s) : s[i] \in Nat
  OBVIOUS
<1>2. \A k \in 0..Len(s) : FirstTotal(s, k) \in Nat
  BY <1>1, FirstTotalNat
<1>3. Total(s) = FirstTotal(s, Len(s))
  BY TotalOfFirst
<1> QED
  BY <1>1, <1>2, <1>3

\* Sequences behind each other have the elements of each.
LEMMA FlattenElements ==
  ASSUME NEW seqs, IsSequence(seqs), \A i \in 1..Len(seqs) : IsSequence(seqs[i])
  PROVE  /\ IsSequence(FlattenSeq(seqs))
         /\ \A k \in 1..Len(FlattenSeq(seqs)) :
              \E i \in 1..Len(seqs) : \E j \in 1..Len(seqs[i]) : FlattenSeq(seqs)[k] = seqs[i][j]
PROOF
<1> DEFINE S == UNION {{seqs[i][j] : j \in 1..Len(seqs[i])} : i \in 1..Len(seqs)}
<1>1. ASSUME NEW i \in 1..Len(seqs) PROVE seqs[i] \in Seq(S)
  <2>1. \A j \in 1..Len(seqs[i]) : seqs[i][j] \in S
    OBVIOUS
  <2> HIDE DEF S
  <2>2. PICK u : u = seqs[i]
    OBVIOUS
  <2>3. Len(u) \in Nat /\ u = [j \in 1..Len(u) |-> u[j]] /\ \A j \in 1..Len(u) : u[j] \in S
    BY <2>1, <2>2 DEF IsSequence
  <2>4. u \in Seq(S)
    BY <2>3
  <2> QED
    BY <2>2, <2>4
<1>2. \A x \in S : \E i \in 1..Len(seqs) : \E j \in 1..Len(seqs[i]) : x = seqs[i][j]
  OBVIOUS
<1> HIDE DEF S
<1>3. seqs \in Seq(Seq(S))
  BY <1>1 DEF IsSequence
<1>4. FlattenSeq(seqs) \in Seq(S)
  BY <1>3, FlattenTypes
<1>5. IsSequence(FlattenSeq(seqs))
  BY <1>4, SequenceOf
<1>6. \A k \in 1..Len(FlattenSeq(seqs)) : FlattenSeq(seqs)[k] \in S
  BY <1>4, ElementOfSeq
<1> QED
  BY <1>2, <1>5, <1>6

\* Units behind units are units.
LEMMA FlattenedUnits ==
  ASSUME NEW seqs, IsSequence(seqs), NEW max, \A i \in 1..Len(seqs) : UnitsFit(seqs[i], max)
  PROVE  UnitsFit(FlattenSeq(seqs), max)
PROOF
<1>1. \A i \in 1..Len(seqs) :
        /\ IsSequence(seqs[i])
        /\ \A j \in 1..Len(seqs[i]) : seqs[i][j].cost \in Int /\ seqs[i][j].cost <= max
  BY DEF UnitsFit
<1>2. /\ IsSequence(FlattenSeq(seqs))
      /\ \A k \in 1..Len(FlattenSeq(seqs)) :
           \E i \in 1..Len(seqs) : \E j \in 1..Len(seqs[i]) : FlattenSeq(seqs)[k] = seqs[i][j]
  BY <1>1, FlattenElements
<1> QED
  BY <1>1, <1>2 DEF UnitsFit

\* A list by its length and its elements.
LEMMA ListOf ==
  ASSUME NEW n \in Int, NEW f, f = [k \in 1..n |-> f[k]]
  PROVE  IsSequence(f) /\ Len(f) = (IF n < 0 THEN 0 ELSE n) /\ DOMAIN f = 1..Len(f)
PROOF
<1> DEFINE V == {f[k] : k \in 1..n}
<1>1. CASE n >= 0
  <2>1. f \in Seq(V) /\ Len(f) = n
    BY <1>1
  <2> QED
    BY <1>1, <2>1, SequenceOf
<1>2. CASE ~(n >= 0)
  <2>1. 1..n = 1..0
    BY <1>2
  <2>2. f = [k \in 1..0 |-> f[k]]
    BY <2>1
  <2>3. \A g : [k \in 1..0 |-> g[k]] \in Seq({}) /\ Len([k \in 1..0 |-> g[k]]) = 0
    OBVIOUS
  <2>4. f \in Seq({}) /\ Len(f) = 0 /\ DOMAIN f = 1..0
    BY <2>2, <2>3
  <2>5. IsSequence(f)
    BY <2>4, SequenceOf
  <2>6. n < 0
    BY <1>2
  <2> QED
    BY <2>4, <2>5, <2>6
<1> QED
  BY <1>1, <1>2

\* A run that is decoded counts at most the drift more than it was cut for.
LEMMA DecodedFits ==
  ASSUME NEW from, NEW n \in Int, NEW p
  PROVE  /\ Piece(from, n, p).cost = Decoded(from, n)
         /\ Decoded(from, n) \in Int /\ Decoded(from, n) <= n + Drift
PROOF
<1>1. Drift \in Nat
  BY SizesAssumption
<1>2. Piece(from, n, p).cost = Decoded(from, n)
  BY DEF Piece, Unit
<1>3. CASE <<from, n>> \in DOMAIN Recount
  BY <1>1, <1>2, <1>3, RecountAssumption DEF Decoded
<1>4. CASE <<from, n>> \notin DOMAIN Recount
  BY <1>1, <1>2, <1>4 DEF Decoded
<1> QED
  BY <1>3, <1>4

LEMMA HardSplitFits ==
  ASSUME NEW u, u.cost \in Nat, NEW max \in Int
  PROVE  UnitsFit(HardSplit(u, max), max + Drift)
PROOF
<1>1. CASE u.cost <= max
  <2>1. HardSplit(u, max) = <<u>>
    BY <1>1 DEF HardSplit
  <2>2. u.cost <= max + Drift
    BY <1>1, SizesAssumption
  <2> QED
    BY <2>1, <2>2 DEF UnitsFit, IsSequence
<1>2. CASE ~(u.cost <= max)
  <2> DEFINE stride == Larger(1, max - Overlap)
             n == (u.cost + stride - 1) \div stride
             piece(k) == Piece(u.from + (k - 1) * stride,
                               Smaller(max, u.cost - (k - 1) * stride), u.line)
  <2>1. stride \in Nat \ {0}
    BY SizesAssumption DEF Larger
  <2>2. HardSplit(u, max) = [k \in 1..n |-> piece(k)]
    BY <1>2 DEF HardSplit
  <2>3. n \in Int
    <3>1. \A a \in Int : \A b \in Nat \ {0} : (a + b - 1) \div b \in Int
      OBVIOUS
    <3> HIDE DEF stride
    <3> QED
      BY <2>1, <3>1
  <2>4. ASSUME NEW k \in 1..n PROVE piece(k).cost \in Int /\ piece(k).cost <= max + Drift
    <3>1. PICK start \in Int : start = (k - 1) * stride
      <4> HIDE DEF stride
      <4>1. \A a \in Int : \A b \in Nat : (a - 1) * b \in Int
        OBVIOUS
      <4>2. k \in Int
        BY <2>3
      <4> QED
        BY <2>1, <4>1, <4>2
    <3>2. PICK m \in Int : m = Smaller(max, u.cost - start) /\ m <= max
      BY DEF Smaller
    <3>3. piece(k) = Piece(u.from + start, m, u.line)
      BY <3>1, <3>2
    <3>4. /\ piece(k).cost = Decoded(u.from + start, m)
          /\ Decoded(u.from + start, m) \in Int /\ Decoded(u.from + start, m) <= m + Drift
      BY <3>3, DecodedFits
    <3>5. PICK d \in Int : d = piece(k).cost /\ d <= m + Drift
      BY <3>4
    <3> QED
      BY <3>2, <3>5, SizesAssumption
  <2> HIDE DEF n, piece
  <2>5. PICK f : f = HardSplit(u, max)
    OBVIOUS
  <2>6. f = [k \in 1..n |-> f[k]] /\ \A k \in 1..n : f[k] = piece(k)
    BY <2>2, <2>5
  <2>7. IsSequence(f) /\ 1..Len(f) = DOMAIN f /\ DOMAIN f = 1..n
    BY <2>3, <2>6, ListOf
  <2> QED
    BY <2>4, <2>5, <2>6, <2>7 DEF UnitsFit
<1> QED
  BY <1>1, <1>2

LEMMA ParagraphFits ==
  ASSUME NEW text \in Seq(Seq(Nat)), NEW p \in 1..Len(text), NEW max \in Int
  PROVE  UnitsFit(ParagraphUnits(text, p, max), max + Drift)
PROOF
<1>1. text[p] \in Seq(Nat) /\ Total(text[p]) \in Nat
  BY ElementOfSeq, TotalIsNat
<1>2. CASE Total(text[p]) <= max
  <2>1. ParagraphUnits(text, p, max) = <<Unit(Start(text, p), Total(text[p]), p)>>
    BY <1>2 DEF ParagraphUnits
  <2>2. Unit(Start(text, p), Total(text[p]), p).cost = Total(text[p])
    BY DEF Unit
  <2>3. Total(text[p]) <= max + Drift
    BY <1>1, <1>2, SizesAssumption
  <2> QED
    BY <1>1, <2>1, <2>2, <2>3 DEF UnitsFit, IsSequence
<1>3. CASE ~(Total(text[p]) <= max)
  <2> DEFINE line(l) == Unit(Start(text, p) + Total(SubSeq(text[p], 1, l - 1)), text[p][l], p)
             split == [l \in DOMAIN text[p] |-> HardSplit(line(l), max)]
  <2>1. ParagraphUnits(text, p, max) = FlattenSeq(split)
    BY <1>3 DEF ParagraphUnits
  <2>2. DOMAIN text[p] = 1..Len(text[p]) /\ Len(text[p]) \in Nat
    BY <1>1
  <2>3. ASSUME NEW l \in 1..Len(text[p]) PROVE UnitsFit(split[l], max + Drift)
    <3>1. line(l).cost = text[p][l] /\ text[p][l] \in Nat
      BY <1>1 DEF Unit
    <3> HIDE DEF line
    <3>2. UnitsFit(HardSplit(line(l), max), max + Drift)
      BY <3>1, HardSplitFits
    <3> QED
      BY <2>2, <3>2
  <2>4. split = [l \in 1..Len(text[p]) |-> split[l]]
    BY <2>2
  <2> HIDE DEF split
  <2>5. IsSequence(split) /\ Len(split) = Len(text[p])
    <3>1. Len(text[p]) \in Int /\ ~(Len(text[p]) < 0)
      BY <2>2
    <3> QED
      BY <2>4, <3>1, ListOf
  <2> QED
    BY <2>1, <2>3, <2>5, FlattenedUnits
<1> QED
  BY <1>2, <1>3

\* A unit is longer than what it is cut for by the drift at most.
LEMMA UnitsOfFits ==
  ASSUME NEW text \in Seq(Seq(Nat)), NEW first \in Nat \ {0}, NEW last \in 0..Len(text),
         NEW max \in Int
  PROVE  UnitsFit(UnitsOf(text, first, last, max), max + Drift)
PROOF
<1> DEFINE n == last - first + 1
           split == [i \in 1..n |-> ParagraphUnits(text, first + i - 1, max)]
<1>1. n \in Int
  OBVIOUS
<1>2. ASSUME NEW i \in 1..n PROVE UnitsFit(split[i], max + Drift)
  <2>1. first + i - 1 \in 1..Len(text)
    OBVIOUS
  <2> QED
    BY <2>1, ParagraphFits
<1>3. split = [i \in 1..n |-> split[i]]
  OBVIOUS
<1>4. UnitsOf(text, first, last, max) = FlattenSeq(split)
  BY DEF UnitsOf
<1> HIDE DEF split, n
<1>5. IsSequence(split) /\ 1..Len(split) = 1..n
  BY <1>1, <1>3, ListOf
<1> QED
  BY <1>2, <1>4, <1>5, FlattenedUnits

LEMMA PickedCosts ==
  ASSUME NEW units, NEW room, UnitsFit(units, room), NEW part \in Seq(1..Len(units))
  PROVE  /\ Costs(Picked(units, part)) \in Int
         /\ \A i \in 1..Len(units) :
              Costs(Picked(units, Append(part, i))) = Costs(Picked(units, part)) + units[i].cost
PROOF
<1> DEFINE c(p) == [k \in DOMAIN Picked(units, p) |-> Picked(units, p)[k].cost]
<1>1. ASSUME NEW p \in Seq(1..Len(units))
      PROVE  /\ DOMAIN c(p) = 1..Len(p) /\ Len(p) \in Nat
             /\ \A k \in 1..Len(p) : c(p)[k] = units[p[k]].cost /\ c(p)[k] \in Int
             /\ c(p) = [k \in 1..Len(p) |-> c(p)[k]]
             /\ Costs(Picked(units, p)) = Total(c(p))
  <2>1. DOMAIN p = 1..Len(p) /\ Len(p) \in Nat /\ \A k \in 1..Len(p) : p[k] \in 1..Len(units)
    OBVIOUS
  <2>2. DOMAIN Picked(units, p) = 1..Len(p) /\ \A k \in 1..Len(p) : Picked(units, p)[k] = units[p[k]]
    BY <2>1 DEF Picked
  <2>3. \A k \in 1..Len(p) : units[p[k]].cost \in Int
    BY <2>1 DEF UnitsFit
  <2> QED
    BY <2>1, <2>2, <2>3 DEF Costs
<1> HIDE DEF c
<1>2. Costs(Picked(units, part)) \in Int
  <2>1. /\ Len(part) \in Nat /\ \A k \in 1..Len(part) : c(part)[k] \in Int
        /\ c(part) = [k \in 1..Len(part) |-> c(part)[k]]
        /\ Costs(Picked(units, part)) = Total(c(part))
    BY <1>1
  <2>2. \A k \in 0..Len(part) : FirstTotal(c(part), k) \in Int
    BY <2>1, FirstTotalInt
  <2>3. Total(c(part)) = FirstTotal(c(part), Len(part))
    BY <2>1 DEF FirstTotal
  <2> QED
    BY <2>1, <2>2, <2>3
<1>3. ASSUME NEW i \in 1..Len(units)
      PROVE  Costs(Picked(units, Append(part, i))) = Costs(Picked(units, part)) + units[i].cost
  <2>1. PICK more \in Seq(1..Len(units)) : more = Append(part, i)
    BY AppendProperties
  <2>2. /\ Len(part) \in Nat /\ Len(more) = Len(part) + 1 /\ more[Len(part) + 1] = i
        /\ \A k \in 1..Len(part) : more[k] = part[k]
    BY <2>1, AppendProperties
  <2>3. /\ DOMAIN c(more) = 1..(Len(part) + 1) /\ DOMAIN c(part) = 1..Len(part)
        /\ \A k \in 1..(Len(part) + 1) : c(more)[k] = units[more[k]].cost
        /\ \A k \in 1..Len(part) : c(part)[k] = units[part[k]].cost
    BY <1>1, <2>2
  <2>4. ASSUME NEW k \in 1..Len(part) PROVE c(part)[k] = c(more)[k]
    <3>1. k \in 1..(Len(part) + 1)
      BY <2>2
    <3>2. c(part)[k] = units[part[k]].cost /\ c(more)[k] = units[more[k]].cost
      BY <2>3, <3>1
    <3> QED
      BY <2>2, <3>2
  <2>5. Total(c(more)) = Total(c(part)) + c(more)[Len(part) + 1]
    BY <2>2, <2>3, <2>4, TotalStep
  <2>6. c(more)[Len(part) + 1] = units[i].cost
    BY <2>2, <2>3
  <2>7. Costs(Picked(units, part)) = Total(c(part)) /\ Costs(Picked(units, more)) = Total(c(more))
    BY <1>1
  <2> QED
    BY <2>1, <2>5, <2>6, <2>7
<1> QED
  BY <1>2, <1>3

LEMMA NothingPicked == \A units : Costs(Picked(units, <<>>)) = 0
PROOF
<1> SUFFICES ASSUME NEW units PROVE Costs(Picked(units, <<>>)) = 0
  OBVIOUS
<1>1. DOMAIN Picked(units, <<>>) = {}
  BY DEF Picked
<1>2. DOMAIN [k \in DOMAIN Picked(units, <<>>) |-> Picked(units, <<>>)[k].cost] = {}
  BY <1>1
<1> QED
  BY <1>2, TotalEmpty DEF Costs

\* What _pack has packed is within the room, and no more than it counts.
PackFits(units, p, room) ==
  /\ p \in [parts : Seq(Seq(1..Len(units))), buffer : Seq(1..Len(units)), tokens : Int]
  /\ \A i \in 1..Len(p.parts) : Costs(Picked(units, p.parts[i])) <= room
  /\ Costs(Picked(units, p.buffer)) <= room
  /\ Costs(Picked(units, p.buffer)) <= p.tokens

LEMMA EmptyPackFits == \A units : \A room \in Nat : PackFits(units, EmptyPack, room)
PROOF
<1> SUFFICES ASSUME NEW units, NEW room \in Nat PROVE PackFits(units, EmptyPack, room)
  OBVIOUS
<1>1. Costs(Picked(units, <<>>)) = 0
  BY NothingPicked
<1>2. EmptyPack.parts = <<>> /\ EmptyPack.buffer = <<>> /\ EmptyPack.tokens = 0
  BY DEF EmptyPack
<1>3. EmptyPack \in [parts : Seq(Seq(1..Len(units))), buffer : Seq(1..Len(units)), tokens : Int]
  BY DEF EmptyPack
<1> QED
  BY <1>1, <1>2, <1>3 DEF PackFits

\* What is carried on leaves room for the unit behind it.
LEMMA CarriedFits ==
  ASSUME NEW units, NEW room, UnitsFit(units, room), NEW part \in Seq(1..Len(units)),
         NEW tokens \in Int, NEW max \in Int
  PROVE  /\ Carried(units, part, tokens, max) \in Seq(1..Len(units))
         /\ \/ Carried(units, part, tokens, max) = <<>>
            \/ Costs(Picked(units, Carried(units, part, tokens, max))) + tokens + 1 <= max
PROOF
<1> DEFINE fit == {n \in 0..Len(part) :
                     Costs(Picked(units, SubSeq(part, Len(part) - n + 1, Len(part)))) <= Overlap}
<1>1. Len(part) \in Nat
  OBVIOUS
<1>2. 0 \in fit
  <2>1. SubSeq(part, Len(part) - 0 + 1, Len(part)) = <<>>
    BY <1>1
  <2>2. 0 <= Overlap
    BY SizesAssumption
  <2>3. Costs(Picked(units, SubSeq(part, Len(part) - 0 + 1, Len(part)))) = 0
    BY <2>1, NothingPicked
  <2>4. 0 \in 0..Len(part)
    BY <1>1
  <2> QED
    BY <2>2, <2>3, <2>4
<1>3. fit \in SUBSET Nat /\ \A n \in fit : n <= Len(part)
  BY <1>1
<1>4. PICK m \in 0..Len(part) : m = Max(fit)
  <2> HIDE DEF fit
  <2>1. Max(fit) \in fit /\ \A n \in fit : n <= Max(fit)
    BY <1>1, <1>2, <1>3, MaxIsGreatest
  <2> QED
    BY <2>1 DEF fit
<1>5. OverlapTail(units, part) = SubSeq(part, Len(part) - m + 1, Len(part))
  BY <1>4 DEF OverlapTail
<1>6. SubSeq(part, Len(part) - m + 1, Len(part)) \in Seq(1..Len(units))
  <2>1. \A i \in (Len(part) - m + 1)..Len(part) : part[i] \in 1..Len(units)
    BY <1>1
  <2>2. Len(part) - m + 1 \in Int /\ Len(part) \in Int
    BY <1>1
  <2> QED
    BY <2>1, <2>2, SubSeqProperties
<1>7. PICK tail \in Seq(1..Len(units)) : tail = OverlapTail(units, part)
  BY <1>5, <1>6
<1>8. Costs(Picked(units, tail)) \in Int
  BY PickedCosts
<1>9. Carried(units, part, tokens, max) =
        IF Costs(Picked(units, tail)) + tokens + 1 > max THEN <<>> ELSE tail
  BY <1>7 DEF Carried
<1>10. CASE Costs(Picked(units, tail)) + tokens + 1 > max
  BY <1>9, <1>10
<1>11. CASE ~(Costs(Picked(units, tail)) + tokens + 1 > max)
  <2>1. Costs(Picked(units, tail)) + tokens + 1 <= max
    BY <1>8, <1>11
  <2> QED
    BY <1>9, <1>11, <2>1
<1> QED
  BY <1>10, <1>11

\* One unit more.
LEMMA PackUnitFits ==
  ASSUME NEW units, NEW room \in Nat, UnitsFit(units, room), NEW max \in Int, max <= room,
         NEW p, PackFits(units, p, room), NEW i \in 1..Len(units)
  PROVE  PackFits(units, PackUnit(p, units, i, max), room)
PROOF
<1> DEFINE D == 1..Len(units)
<1>1. PICK tokens \in Int : tokens = units[i].cost /\ tokens <= room
  BY DEF UnitsFit
<1>2. /\ p.parts \in Seq(Seq(D)) /\ p.buffer \in Seq(D) /\ p.tokens \in Int
      /\ \A j \in 1..Len(p.parts) : Costs(Picked(units, p.parts[j])) <= room
      /\ Costs(Picked(units, p.buffer)) <= room
      /\ Costs(Picked(units, p.buffer)) <= p.tokens
      /\ p = [parts |-> p.parts, buffer |-> p.buffer, tokens |-> p.tokens]
  BY DEF PackFits
<1>3. PICK kept \in Seq(D) : kept = Carried(units, p.buffer, tokens, max)
  BY <1>2, CarriedFits
<1>4. kept = <<>> \/ Costs(Picked(units, kept)) + tokens + 1 <= max
  BY <1>2, <1>3, CarriedFits
<1>5. PICK b \in Int, k \in Int : b = Costs(Picked(units, p.buffer)) /\ k = Costs(Picked(units, kept))
  BY <1>2, PickedCosts
<1>6. /\ Costs(Picked(units, Append(p.buffer, i))) = b + tokens
      /\ Costs(Picked(units, Append(kept, i))) = k + tokens
  BY <1>1, <1>2, <1>5, PickedCosts
<1>7. (p.buffer = <<>> => b = 0) /\ (kept = <<>> => k = 0)
  BY <1>5, NothingPicked
<1>8. CASE p.buffer # <<>> /\ p.tokens + tokens + 1 > max
  <2> DEFINE q == [parts |-> Append(p.parts, p.buffer), buffer |-> Append(kept, i),
                   tokens |-> k + tokens + 1]
  <2>1. PackUnit(p, units, i, max) = q
    BY <1>1, <1>3, <1>5, <1>8 DEF PackUnit
  <2>2. q \in [parts : Seq(Seq(D)), buffer : Seq(D), tokens : Int]
    BY <1>2
  <2>3. q.parts = Append(p.parts, p.buffer) /\ q.buffer = Append(kept, i) /\ q.tokens = k + tokens + 1
    OBVIOUS
  <2> HIDE DEF q
  <2>4. \A j \in 1..Len(q.parts) : Costs(Picked(units, q.parts[j])) <= room
    <3>1. /\ Len(p.parts) \in Nat /\ Len(q.parts) = Len(p.parts) + 1
          /\ q.parts[Len(p.parts) + 1] = p.buffer
          /\ \A j \in 1..Len(p.parts) : q.parts[j] = p.parts[j]
      <4>1. p.parts \in Seq(Seq(D)) /\ p.buffer \in Seq(D) /\ q.parts = Append(p.parts, p.buffer)
        BY <1>2, <2>3
      <4> HIDE DEF D
      <4> QED
        BY <4>1, AppendProperties
    <3>2. PICK n \in Nat : n = Len(p.parts)
      BY <3>1
    <3>3. \A j \in 1..(n + 1) : j = n + 1 \/ j \in 1..n
      OBVIOUS
    <3>4. /\ Len(q.parts) = n + 1 /\ q.parts[n + 1] = p.buffer
          /\ \A j \in 1..n : q.parts[j] = p.parts[j]
      BY <3>1, <3>2
    <3>5. \A j \in 1..n : Costs(Picked(units, p.parts[j])) <= room
      BY <1>2, <3>2
    <3> QED
      BY <1>2, <3>3, <3>4, <3>5
  <2>5. k + tokens <= room /\ k + tokens <= k + tokens + 1
    BY <1>1, <1>4, <1>5, <1>7, SMTT(15)
  <2>6. Costs(Picked(units, q.buffer)) = k + tokens
    BY <1>6, <2>3
  <2>7. Costs(Picked(units, q.buffer)) <= room /\ Costs(Picked(units, q.buffer)) <= q.tokens
    BY <2>3, <2>5, <2>6
  <2> QED
    BY <2>1, <2>2, <2>4, <2>7 DEF PackFits
<1>9. CASE ~(p.buffer # <<>> /\ p.tokens + tokens + 1 > max)
  <2> DEFINE q == [parts |-> p.parts, buffer |-> Append(p.buffer, i),
                   tokens |-> p.tokens + tokens + 1]
  <2>1. PackUnit(p, units, i, max) = [p EXCEPT !.buffer = Append(@, i), !.tokens = @ + tokens + 1]
    BY <1>1, <1>9 DEF PackUnit
  <2>2. PackUnit(p, units, i, max) = q
    BY <1>2, <2>1
  <2>3. q \in [parts : Seq(Seq(D)), buffer : Seq(D), tokens : Int]
    BY <1>2
  <2>4. q.parts = p.parts /\ q.buffer = Append(p.buffer, i) /\ q.tokens = p.tokens + tokens + 1
    OBVIOUS
  <2> HIDE DEF q
  <2>5. b + tokens <= room /\ b + tokens <= p.tokens + tokens + 1
    <3>1. PICK t \in Int : t = p.tokens
      BY <1>2
    <3>2. b <= room /\ b <= t
      BY <1>2, <1>5, <3>1
    <3>3. b + tokens <= room
      <4>1. CASE p.buffer = <<>>
        BY <1>1, <1>7, <4>1
      <4>2. CASE p.buffer # <<>>
        <5>1. PICK n \in Int : n = tokens
          BY <1>1
        <5>2. ~(t + n + 1 > max)
          BY <1>9, <3>1, <4>2, <5>1
        <5>3. b + n <= room
          BY <3>2, <5>2
        <5> QED
          BY <5>1, <5>3
      <4> QED
        BY <4>1, <4>2
    <3> QED
      BY <3>1, <3>2, <3>3
  <2> QED
    BY <1>2, <1>6, <2>2, <2>3, <2>4, <2>5 DEF PackFits
<1> QED
  BY <1>8, <1>9

LEMMA PartsFit ==
  ASSUME NEW units, NEW room \in Nat, NEW p, PackFits(units, p, room)
  PROVE  /\ Parts(p) \in Seq(Seq(1..Len(units))) /\ Parts(p) # <<>>
         /\ \A k \in 1..Len(Parts(p)) : Costs(Picked(units, Parts(p)[k])) <= room
PROOF
<1>1. CASE p.buffer = <<>>
  <2>1. Parts(p) = <<<<>>>>
    BY <1>1 DEF Parts
  <2> QED
    BY <2>1, NothingPicked
<1>2. CASE p.buffer # <<>>
  <2>1. PICK ps \in Seq(Seq(1..Len(units))), b \in Seq(1..Len(units)) : ps = p.parts /\ b = p.buffer
    BY DEF PackFits
  <2>2. Parts(p) = Append(ps, b)
    BY <1>2, <2>1 DEF Parts
  <2>3. /\ Len(Append(ps, b)) = Len(ps) + 1 /\ Len(ps) \in Nat /\ Append(ps, b)[Len(ps) + 1] = b
        /\ \A j \in 1..Len(ps) : Append(ps, b)[j] = ps[j]
        /\ Append(ps, b) \in Seq(Seq(1..Len(units)))
    OBVIOUS
  <2>4. /\ \A j \in 1..Len(ps) : Costs(Picked(units, ps[j])) <= room
        /\ Costs(Picked(units, b)) <= room
    BY <2>1 DEF PackFits
  <2>5. \A k \in 1..Len(Append(ps, b)) : Costs(Picked(units, Append(ps, b)[k])) <= room
    BY <2>3, <2>4
  <2>6. Append(ps, b) # <<>>
    <3>1. PICK a : a = Append(ps, b)
      OBVIOUS
    <3>2. Len(a) # 0
      BY <2>3, <3>1
    <3> QED
      BY <3>1, <3>2
  <2> QED
    BY <2>2, <2>3, <2>5, <2>6
<1> QED
  BY <1>1, <1>2

-----------------------------------------------------------------------------
(* The fold of _split_text, from its definition by recursion over indices. *)

Packing(units, max, numbers, n, g) ==
  g = [S \in SUBSET (1..n) |->
         IF S = {} THEN EmptyPack
         ELSE PackUnit(g[S \ {Max(S)}], units, numbers[Max(S)], max)]

LEMMA PackIsFold ==
  ASSUME NEW units, NEW max, NEW n \in Nat, DOMAIN units = 1..n
  PROVE  Pack(units, max) =
           (CHOOSE g : Packing(units, max, [i \in DOMAIN units |-> i], n, g))[1..n]
PROOF
  BY DEF Pack, FoldLeft, MapThenFoldSet, Packing

LEMMA PackingExists ==
  ASSUME NEW units, NEW max, NEW numbers, NEW n \in Nat
  PROVE  \E g : Packing(units, max, numbers, n, g)
PROOF
<1> DEFINE bad == {k \in Nat : ~\E g : Packing(units, max, numbers, k, g)}
           next(p, j) == PackUnit(p, units, numbers[j], max)
<1> SUFFICES ASSUME bad # {} PROVE FALSE
  OBVIOUS
<1>1. PICK k \in bad : \A j \in bad : k <= j
  BY Least
<1>2. k # 0
  <2>1. Packing(units, max, numbers, 0, [S \in SUBSET (1..0) |-> EmptyPack])
    BY DEF Packing
  <2> QED
    BY <1>1, <2>1
<1>3. k - 1 \in Nat /\ k - 1 \notin bad
  BY <1>1, <1>2
<1>4. PICK g : Packing(units, max, numbers, k - 1, g)
  BY <1>3
<1> DEFINE h == [S \in SUBSET (1..k) |-> IF k \in S THEN next(g[S \ {k}], k) ELSE g[S]]
<1> HIDE DEF next
<1>5. ASSUME NEW S \in SUBSET (1..k)
      PROVE  h[S] = IF S = {} THEN EmptyPack ELSE next(h[S \ {Max(S)}], Max(S))
  <2>1. CASE k \in S
    <3>1. S \in SUBSET Nat /\ \A y \in S : y <= k
      BY <1>1
    <3>2. Max(S) = k
      BY <2>1, <3>1, MaxIs
    <3>3. S \ {k} \in SUBSET (1..k) /\ k \notin S \ {k} /\ S # {}
      BY <2>1
    <3>4. h[S] = next(g[S \ {k}], k) /\ h[S \ {k}] = g[S \ {k}]
      BY <2>1, <3>3
    <3> HIDE DEF h
    <3> QED
      BY <3>2, <3>3, <3>4
  <2>2. CASE k \notin S
    <3>1. S \in SUBSET (1..(k - 1))
      BY <1>1, <2>2
    <3>2. h[S] = g[S]
      BY <2>2
    <3>3. h[S \ {Max(S)}] = g[S \ {Max(S)}]
      BY <2>2
    <3>4. g[S] = IF S = {} THEN EmptyPack ELSE next(g[S \ {Max(S)}], Max(S))
      BY <1>4, <3>1 DEF Packing, next
    <3> HIDE DEF h
    <3> QED
      BY <3>2, <3>3, <3>4
  <2> QED
    BY <2>1, <2>2
<1>6. h = [S \in SUBSET (1..k) |-> h[S]]
  OBVIOUS
<1> HIDE DEF h
<1>7. Packing(units, max, numbers, k, h)
  BY <1>5, <1>6 DEF Packing, next
<1> QED
  BY <1>1, <1>7

\* _split_text's parts are within what they are cut for, and the drift.
LEMMA SplitFits ==
  ASSUME NEW text \in Seq(Seq(Nat)), NEW first \in Nat \ {0}, NEW last \in 0..Len(text),
         NEW max \in Nat
  PROVE  /\ IsSequence(SplitText(text, first, last, max))
         /\ \A k \in 1..Len(SplitText(text, first, last, max)) :
              LET part == SplitText(text, first, last, max)[k]
              IN Costs(part) \in Int /\ Costs(part) <= max + Drift
PROOF
<1>1. PICK units : units = UnitsOf(text, first, last, max)
  OBVIOUS
<1>2. PICK room \in Nat : room = max + Drift /\ max <= room /\ UnitsFit(units, room)
  <2>1. UnitsFit(units, max + Drift)
    BY <1>1, UnitsOfFits
  <2>2. max + Drift \in Nat /\ max <= max + Drift
    BY SizesAssumption
  <2> QED
    BY <2>1, <2>2
<1>3. PICK n \in Nat : n = Len(units) /\ DOMAIN units = 1..n
  BY <1>2 DEF UnitsFit, IsSequence
<1>4. PICK numbers : numbers = [i \in DOMAIN units |-> i]
  OBVIOUS
<1> DEFINE g == CHOOSE x : Packing(units, max, numbers, n, x)
<1>5. Packing(units, max, numbers, n, g)
  BY PackingExists
<1> HIDE DEF g
<1>6. /\ g[{}] = EmptyPack
      /\ \A k \in 1..n : g[1..k] = PackUnit(g[1..(k - 1)], units, k, max)
  <2>1. g[{}] = EmptyPack
    BY <1>5 DEF Packing
  <2>2. ASSUME NEW k \in 1..n PROVE g[1..k] = PackUnit(g[1..(k - 1)], units, k, max)
    <3>1. 1..k \in SUBSET (1..n) /\ 1..k # {}
      <4>1. k \in 1..k /\ \A j \in 1..k : j \in 1..n
        OBVIOUS
      <4> QED
        BY <4>1
    <3>2. 1..k \in SUBSET Nat /\ k \in 1..k /\ \A y \in 1..k : y <= k
      OBVIOUS
    <3>3. Max(1..k) = k
      BY <3>2, MaxIs
    <3>4. (1..k) \ {k} = 1..(k - 1) /\ numbers[k] = k
      BY <1>3, <1>4
    <3> QED
      BY <1>5, <3>1, <3>3, <3>4 DEF Packing
  <2> QED
    BY <2>1, <2>2
<1> DEFINE bad == {k \in 0..n : ~PackFits(units, g[1..k], room)}
<1>7. bad = {}
  <2> SUFFICES ASSUME bad # {} PROVE FALSE
    OBVIOUS
  <2>1. bad \in SUBSET Nat
    OBVIOUS
  <2>2. PICK k \in bad : \A j \in bad : k <= j
    <3> HIDE DEF bad
    <3> QED
      BY <2>1, Least
  <2>3. k # 0
    <3>1. 1..0 = {}
      OBVIOUS
    <3> QED
      BY <1>6, <2>2, <3>1, EmptyPackFits
  <2>4. k - 1 \in 0..n /\ k - 1 \notin bad /\ k \in 1..n
    BY <2>2, <2>3
  <2>5. PackFits(units, g[1..(k - 1)], room)
    BY <2>4
  <2>6. k \in 1..Len(units) /\ max \in Int /\ max <= room
    BY <1>2, <1>3, <2>4
  <2>7. PackFits(units, PackUnit(g[1..(k - 1)], units, k, max), room)
    BY <1>2, <2>5, <2>6, PackUnitFits
  <2> QED
    BY <1>6, <2>2, <2>4, <2>7
<1>8. PICK packed : packed = g[1..n] /\ packed = Pack(units, max)
  BY <1>3, <1>4, PackIsFold DEF g
<1>9. PackFits(units, packed, room)
  <2>1. n \in 0..n
    OBVIOUS
  <2> QED
    BY <1>7, <1>8, <2>1
<1>10. SplitText(text, first, last, max) =
         [k \in DOMAIN Parts(packed) |-> Picked(units, Parts(packed)[k])]
  BY <1>1, <1>8 DEF SplitText
<1>11. PICK parts \in Seq(Seq(1..Len(units))) :
         parts = Parts(packed) /\ \A k \in 1..Len(parts) : Costs(Picked(units, parts[k])) <= room
  BY <1>9, PartsFit
<1>12. PICK split : split = SplitText(text, first, last, max)
  OBVIOUS
<1>13. /\ Len(parts) \in Nat
       /\ split = [k \in 1..Len(parts) |-> Picked(units, parts[k])]
  BY <1>10, <1>11, <1>12
<1>14. split = [k \in 1..Len(parts) |-> split[k]] /\ \A k \in 1..Len(parts) : split[k] = Picked(units, parts[k])
  BY <1>13
<1>15. IsSequence(split) /\ 1..Len(split) = 1..Len(parts)
  <2>1. Len(parts) \in Int /\ ~(Len(parts) < 0)
    BY <1>13
  <2> QED
    BY <1>14, <2>1, ListOf
<1>16. \A k \in 1..Len(parts) : parts[k] \in Seq(1..Len(units))
  BY ElementOfSeq
<1>17. \A k \in 1..Len(parts) : Costs(Picked(units, parts[k])) \in Int
  BY <1>2, <1>16, PickedCosts
<1> QED
  BY <1>2, <1>11, <1>12, <1>14, <1>15, <1>17

-----------------------------------------------------------------------------
(* The spans.                                                              *)

\* What a chunk may count beyond its header's budget: the margin, less the
\* special tokens.
Room(header) == Budget(header) + SafetyMargin - SpecialTokens

Roomy == Drift + SpecialTokens <= SafetyMargin

LEMMA RoomIsNat ==
  ASSUME Roomy, NEW header \in Nat
  PROVE  /\ Room(header) \in Nat /\ Budget(header) \in Nat
         /\ Budget(header) + Drift <= Room(header) /\ Budget(header) <= Room(header)
PROOF
<1>1. Budget(header) \in Nat /\ SafetyMargin \in Nat /\ Drift \in Nat /\ SpecialTokens \in Nat
  BY SizesOfBudget
<1> QED
  BY <1>1 DEF Room, Roomy

SpanFits(s) == s.header \in Nat /\ UnitsFit(s.units, Room(s.header))

SpansFit(ss) == IsSequence(ss) /\ \A i \in 1..Len(ss) : SpanFits(ss[i])

LEMMA CutSpanFits ==
  ASSUME Roomy, NEW tag, NEW base, NEW header \in Nat, NEW text \in Seq(Seq(Nat)),
         NEW first \in Nat \ {0}, NEW last \in 0..Len(text)
  PROVE  SpanFits(SpanOf(tag, base, header, UnitsOf(text, first, last, Budget(header))))
PROOF
<1>1. /\ Room(header) \in Nat /\ Budget(header) \in Nat
      /\ Budget(header) + Drift <= Room(header)
  BY RoomIsNat
<1>2. PICK max \in Int, more \in Int : max = Budget(header) + Drift /\ more = Room(header) /\ max <= more
  BY <1>1, SizesAssumption
<1>3. PICK units : units = UnitsOf(text, first, last, Budget(header))
  OBVIOUS
<1>4. UnitsFit(units, max)
  BY <1>1, <1>2, <1>3, UnitsOfFits
<1>5. UnitsFit(units, more)
  BY <1>2, <1>4, LooserFit
<1>6. SpanOf(tag, base, header, units).header = header /\ SpanOf(tag, base, header, units).units = units
  BY DEF SpanOf
<1> QED
  BY <1>2, <1>3, <1>5, <1>6 DEF SpanFits

LEMMA SpansBehind ==
  ASSUME NEW ss, SpansFit(ss), NEW tt, SpansFit(tt)
  PROVE  SpansFit(ss \o tt)
PROOF
<1> DEFINE V == {ss[i] : i \in 1..Len(ss)} \cup {tt[i] : i \in 1..Len(tt)}
<1>1. ss \in Seq(V) /\ tt \in Seq(V)
  BY DEF SpansFit, IsSequence
<1>2. \A x \in V : SpanFits(x)
  BY DEF SpansFit
<1> HIDE DEF V
<1>3. ss \o tt \in Seq(V)
  BY <1>1
<1>4. IsSequence(ss \o tt) /\ \A i \in 1..Len(ss \o tt) : (ss \o tt)[i] \in V
  BY <1>3, SequenceOf, ElementOfSeq
<1> QED
  BY <1>2, <1>4 DEF SpansFit

LEMMA OneSpan ==
  ASSUME NEW s, SpanFits(s)
  PROVE  SpansFit(<<s>>)
PROOF
  BY DEF SpansFit, IsSequence

LEMMA NoSpan == SpansFit(<<>>)
PROOF
  BY DEF SpansFit, IsSequence

LEMMA LinesFit ==
  ASSUME Roomy, NEW d, d.text \in Seq(Seq(Nat)), NEW first \in Nat \ {0}, NEW last \in 0..Len(d.text),
         NEW header \in Nat
  PROVE  SpanFits(LinesSpan(d, first, last, header))
PROOF
  BY CutSpanFits DEF LinesSpan

LEMMA ClassFits ==
  ASSUME Roomy, NEW d, d.text \in Seq(Seq(Nat)), NEW n, IsDefinition(d, n)
  PROVE  SpansFit(ClassSpans(d, n))
PROOF
<1> DEFINE m(i) == n.methods[i]
           methods == [i \in DOMAIN n.methods |->
                         LinesSpan(d, m(i).first, m(i).last, m(i).header)]
           begins == {m(i).begin : i \in DOMAIN methods}
           end == IF methods = <<>> THEN n.last ELSE Min(begins) - 1
           header == IF end >= n.first THEN <<LinesSpan(d, n.first, end, n.header)>> ELSE <<>>
<1>1. /\ n.header \in Nat /\ n.first \in Nat \ {0} /\ n.last \in 0..Len(d.text)
      /\ IsSequence(n.methods)
      /\ \A i \in 1..Len(n.methods) :
           /\ m(i).header \in Nat /\ m(i).first \in Nat \ {0}
           /\ m(i).last \in 0..Len(d.text) /\ m(i).begin \in 1..Len(d.text)
  BY DEF IsDefinition, Within
<1>2. DOMAIN n.methods = 1..Len(n.methods) /\ Len(n.methods) \in Nat
  BY <1>1 DEF IsSequence
<1>3. /\ methods = [i \in 1..Len(n.methods) |-> methods[i]]
      /\ \A i \in 1..Len(n.methods) : SpanFits(methods[i])
  <2>1. \A i \in 1..Len(n.methods) : SpanFits(LinesSpan(d, m(i).first, m(i).last, m(i).header))
    BY <1>1, LinesFit
  <2> QED
    BY <1>2, <2>1
<1>4. DOMAIN methods = 1..Len(n.methods)
  BY <1>2
<1>5. end \in 0..Len(d.text)
  <2>1. CASE methods = <<>>
    BY <1>1, <2>1
  <2>2. CASE methods # <<>>
    <3>1. begins \in SUBSET Nat /\ \A x \in begins : x \in 1..Len(d.text)
      BY <1>1, <1>4
    <3>2. begins # {}
      <4>1. DOMAIN methods # {}
        <5> HIDE DEF methods
        <5>1. CASE 1..Len(n.methods) = {}
          <6>1. Len(n.methods) = 0
            <7>1. \A l \in Nat : l # 0 => 1 \in 1..l
              OBVIOUS
            <7> QED
              BY <1>2, <5>1, <7>1
          <6>2. methods = [i \in 1..0 |-> methods[i]]
            BY <1>3, <6>1
          <6>3. \A g : [i \in 1..0 |-> g[i]] = <<>>
            OBVIOUS
          <6> QED
            BY <2>2, <6>2, <6>3
        <5> QED
          BY <1>4, <5>1
      <4> HIDE DEF methods
      <4> QED
        BY <4>1
    <3>3. PICK x \in begins : x = Min(begins)
      <4> HIDE DEF begins
      <4> QED
        BY <3>1, <3>2, MinIsLeast
    <3>4. x \in 1..Len(d.text) /\ end = x - 1
      BY <2>2, <3>1, <3>3
    <3>5. Len(d.text) \in Nat
      OBVIOUS
    <3> QED
      BY <3>4, <3>5
  <2> QED
    BY <2>1, <2>2
<1>6. ClassSpans(d, n) = header \o methods
  BY DEF ClassSpans
<1> HIDE DEF methods, end
<1>7. SpansFit(methods)
  <2>1. Len(n.methods) \in Int /\ ~(Len(n.methods) < 0)
    BY <1>2
  <2>2. IsSequence(methods) /\ Len(methods) = Len(n.methods)
    BY <1>3, <2>1, ListOf
  <2> QED
    BY <1>3, <2>2 DEF SpansFit
<1>8. SpansFit(header)
  <2>1. SpanFits(LinesSpan(d, n.first, end, n.header))
    BY <1>1, <1>5, LinesFit
  <2> QED
    BY <2>1, OneSpan, NoSpan
<1> HIDE DEF header
<1> QED
  BY <1>6, <1>7, <1>8, SpansBehind

LEMMA FlattenedSpans ==
  ASSUME NEW seqs, IsSequence(seqs), \A i \in 1..Len(seqs) : SpansFit(seqs[i])
  PROVE  SpansFit(FlattenSeq(seqs))
PROOF
<1>1. \A i \in 1..Len(seqs) :
        IsSequence(seqs[i]) /\ \A j \in 1..Len(seqs[i]) : SpanFits(seqs[i][j])
  BY DEF SpansFit
<1>2. /\ IsSequence(FlattenSeq(seqs))
      /\ \A k \in 1..Len(FlattenSeq(seqs)) :
           \E i \in 1..Len(seqs) : \E j \in 1..Len(seqs[i]) : FlattenSeq(seqs)[k] = seqs[i][j]
  BY <1>1, FlattenElements
<1> QED
  BY <1>1, <1>2 DEF SpansFit

LEMMA CodeFits ==
  ASSUME Roomy, NEW d \in Documents, d.kind = "code"
  PROVE  SpansFit(CodeSpans(d))
PROOF
<1> DEFINE each == [i \in DOMAIN d.nodes |-> ClassSpans(d, d.nodes[i])]
           spans == IF ~d.parses THEN <<>> ELSE FlattenSeq(each)
<1>1. /\ d.text \in Seq(Seq(Nat)) /\ IsSequence(d.nodes)
      /\ \A i \in 1..Len(d.nodes) : IsDefinition(d, d.nodes[i])
  BY DocumentsAssumption
<1>2. DOMAIN d.nodes = 1..Len(d.nodes) /\ Len(d.nodes) \in Int /\ ~(Len(d.nodes) < 0)
  BY <1>1 DEF IsSequence
<1>3. \A i \in 1..Len(d.nodes) : SpansFit(ClassSpans(d, d.nodes[i]))
  BY <1>1, ClassFits
<1>4. each = [i \in 1..Len(d.nodes) |-> each[i]] /\ \A i \in 1..Len(d.nodes) : SpansFit(each[i])
  BY <1>2, <1>3
<1> HIDE DEF each
<1>5. IsSequence(each) /\ Len(each) = Len(d.nodes)
  BY <1>2, <1>4, ListOf
<1>6. SpansFit(spans)
  BY <1>4, <1>5, FlattenedSpans, NoSpan
<1>7. SpansFit(<<LinesSpan(d, 1, Len(d.text), 0)>>)
  <2>1. 1 \in Nat \ {0} /\ Len(d.text) \in 0..Len(d.text) /\ 0 \in Nat
    BY <1>1
  <2> QED
    BY <1>1, <2>1, LinesFit, OneSpan
<1>8. CodeSpans(d) = IF spans = <<>> THEN <<LinesSpan(d, 1, Len(d.text), 0)>> ELSE spans
  BY DEF CodeSpans, each
<1> QED
  BY <1>6, <1>7, <1>8

LEMMA PartOf ==
  ASSUME NEW s, IsSequence(s), NEW lo \in Nat \ {0}, NEW hi \in Int, hi <= Len(s),
         NEW cut, cut = SubSeq(s, lo, hi)
  PROVE  IsSequence(cut) /\ \A k \in 1..Len(cut) : \E i \in 1..Len(s) : cut[k] = s[i]
PROOF
<1> DEFINE V == {s[i] : i \in 1..Len(s)}
<1>1. s \in Seq(V) /\ Len(s) \in Nat
  BY DEF IsSequence
<1>2. \A x \in V : \E i \in 1..Len(s) : x = s[i]
  OBVIOUS
<1>3. \A i \in lo..hi : s[i] \in V
  BY <1>1
<1> HIDE DEF V
<1>4. cut \in Seq(V)
  BY <1>1, <1>3, SubSeqProperties
<1>5. IsSequence(cut) /\ \A k \in 1..Len(cut) : cut[k] \in V
  BY <1>4, SequenceOf, ElementOfSeq
<1> QED
  BY <1>2, <1>5

\* A comment whose author's name leaves room for the drift and the special
\* tokens in its own room and the margin.
ShortName(c) == c.author + Drift + SpecialTokens <= AuthorRoom + SafetyMargin

ShortComment(d, c) == IsComment(d, c) /\ ShortName(c)

LEMMA HumanComments ==
  ASSUME NEW d \in Documents, d.kind = "issue",
         \A i \in DOMAIN d.comments : ShortName(d.comments[i])
  PROVE  IsSequence(Human(d)) /\ \A i \in 1..Len(Human(d)) : ShortComment(d, Human(d)[i])
PROOF
<1> DEFINE one(c) == IF c.bot THEN <<>> ELSE <<c>>
           each == [i \in DOMAIN d.comments |-> one(d.comments[i])]
<1>1. IsSequence(d.comments) /\ \A i \in 1..Len(d.comments) : IsComment(d, d.comments[i])
  BY DocumentsAssumption
<1>2. /\ DOMAIN d.comments = 1..Len(d.comments)
      /\ Len(d.comments) \in Int /\ ~(Len(d.comments) < 0)
  BY <1>1 DEF IsSequence
<1>3. \A i \in 1..Len(d.comments) : ShortComment(d, d.comments[i])
  BY <1>1, <1>2 DEF ShortComment
<1>4. ASSUME NEW c, ShortComment(d, c)
      PROVE  IsSequence(one(c)) /\ \A j \in 1..Len(one(c)) : ShortComment(d, one(c)[j])
  <2>1. CASE c.bot
    BY <2>1 DEF IsSequence
  <2>2. CASE ~c.bot
    BY <1>4, <2>2 DEF IsSequence
  <2> QED
    BY <2>1, <2>2
<1> HIDE DEF one
<1>5. /\ each = [i \in 1..Len(d.comments) |-> each[i]]
      /\ \A i \in 1..Len(d.comments) : each[i] = one(d.comments[i])
  BY <1>2
<1>6. Human(d) = FlattenSeq(each)
  BY DEF Human, one
<1> HIDE DEF each
<1>7. IsSequence(each) /\ Len(each) = Len(d.comments)
  BY <1>2, <1>5, ListOf
<1>8. \A i \in 1..Len(each) :
        IsSequence(each[i]) /\ \A j \in 1..Len(each[i]) : ShortComment(d, each[i][j])
  <2>1. ASSUME NEW i \in 1..Len(d.comments)
        PROVE  IsSequence(each[i]) /\ \A j \in 1..Len(each[i]) : ShortComment(d, each[i][j])
    <3>1. PICK c : c = d.comments[i] /\ ShortComment(d, c) /\ each[i] = one(c)
      BY <1>3, <1>5
    <3> QED
      BY <1>4, <3>1
  <2> QED
    BY <1>7, <2>1
<1>9. /\ IsSequence(FlattenSeq(each))
      /\ \A k \in 1..Len(FlattenSeq(each)) :
           \E i \in 1..Len(each) : \E j \in 1..Len(each[i]) : FlattenSeq(each)[k] = each[i][j]
  BY <1>7, <1>8, FlattenElements
<1> QED
  BY <1>6, <1>8, <1>9

LEMMA RenderedFits ==
  ASSUME Roomy, NEW d, d.text \in Seq(Seq(Nat)), d.thread \in Nat, NEW c, ShortComment(d, c)
  PROVE  UnitsFit(Rendered(d, c), Room(d.thread))
PROOF
<1>1. PICK budget \in Nat : budget = Budget(d.thread)
  BY SizesOfBudget
<1>2. /\ SafetyMargin \in Nat /\ AuthorRoom \in Nat /\ AuthorRoom < budget
      /\ Drift \in Nat /\ SpecialTokens \in Nat
  BY <1>1, SizesOfBudget
<1>3. PICK max \in Nat : max = budget - AuthorRoom
  BY <1>2
<1>4. /\ c.first \in Nat \ {0} /\ c.last \in 0..Len(d.text) /\ c.author \in Nat
      /\ c.author + Drift + SpecialTokens <= AuthorRoom + SafetyMargin
  BY DEF ShortComment, ShortName, IsComment, Within
<1>5. PICK parts : parts = SplitText(d.text, c.first, c.last, max)
  OBVIOUS
<1>6. IsSequence(parts) /\ \A k \in 1..Len(parts) : Costs(parts[k]) \in Int /\ Costs(parts[k]) <= max + Drift
  BY <1>4, <1>5, SplitFits
<1> DEFINE unit(k) == [from |-> parts[k][1].from, to |-> Last(parts[k]).to, line |-> c.first,
                       cost |-> c.author + Costs(parts[k])]
<1>7. Rendered(d, c) = [k \in DOMAIN parts |-> unit(k)]
  BY <1>1, <1>3, <1>5 DEF Rendered
<1>8. DOMAIN parts = 1..Len(parts) /\ Len(parts) \in Int /\ ~(Len(parts) < 0)
  BY <1>6 DEF IsSequence
<1>9. ASSUME NEW k \in 1..Len(parts)
      PROVE  unit(k).cost \in Int /\ unit(k).cost <= budget + SafetyMargin - SpecialTokens
  <2>1. PICK n \in Int : n = Costs(parts[k]) /\ n <= max + Drift
    BY <1>6
  <2>2. unit(k).cost = c.author + n
    BY <2>1
  <2> HIDE DEF unit
  <2> QED
    BY <1>2, <1>3, <1>4, <2>1, <2>2
<1> HIDE DEF unit
<1>10. PICK units : units = Rendered(d, c)
  OBVIOUS
<1>11. /\ units = [k \in 1..Len(parts) |-> units[k]]
       /\ \A k \in 1..Len(parts) : units[k] = unit(k)
  BY <1>7, <1>8, <1>10
<1>12. IsSequence(units) /\ Len(units) = Len(parts)
  BY <1>8, <1>11, ListOf
<1> QED
  BY <1>1, <1>9, <1>10, <1>11, <1>12 DEF UnitsFit, Room

LEMMA ThreadsFit ==
  ASSUME Roomy, NEW d \in Documents, d.kind = "issue",
         \A i \in DOMAIN d.comments : ShortName(d.comments[i])
  PROVE  SpansFit(ThreadSpans(d))
PROOF
<1>1. PICK human : human = Human(d)
  OBVIOUS
<1>2. IsSequence(human) /\ \A i \in 1..Len(human) : ShortComment(d, human[i])
  BY <1>1, HumanComments
<1>3. Len(human) \in Nat /\ RunLength \in Nat \ {0}
  BY <1>2, SizesAssumption DEF IsSequence
<1>4. d.text \in Seq(Seq(Nat)) /\ d.thread \in Nat
  BY DocumentsAssumption
<1> DEFINE run(r) == SubSeq(human, (r - 1) * RunLength + 1, Smaller(r * RunLength, Len(human)))
           units(r) == FlattenSeq([i \in DOMAIN run(r) |-> Rendered(d, run(r)[i])])
           n == (Len(human) + RunLength - 1) \div RunLength
<1>5. n \in Int
  <2>1. \A a \in Nat : \A b \in Nat \ {0} : (a + b - 1) \div b \in Int
    OBVIOUS
  <2> QED
    BY <1>3, <2>1
<1>6. ThreadSpans(d) = [r \in 1..n |-> SpanOf("comment", <<>>, d.thread, units(r))]
  BY <1>1 DEF ThreadSpans
<1>7. ASSUME NEW r \in 1..n PROVE SpanFits(SpanOf("comment", <<>>, d.thread, units(r)))
  <2>1. r \in Nat \ {0}
    <3> HIDE DEF n
    <3> QED
      BY <1>5
  <2>2. PICK lo \in Nat \ {0} : lo = (r - 1) * RunLength + 1
    <3>1. \A a \in Nat \ {0} : \A b \in Nat : (a - 1) * b + 1 \in Nat \ {0}
      <4>1. \A a, b \in Nat : a * b \in Nat
        OBVIOUS
      <4>2. \A a \in Nat \ {0} : a - 1 \in Nat
        OBVIOUS
      <4> QED
        BY <4>1, <4>2
    <3> QED
      BY <1>3, <2>1, <3>1
  <2>3. PICK hi \in Int : hi = Smaller(r * RunLength, Len(human)) /\ hi <= Len(human)
    <3>1. PICK a \in Int : a = r * RunLength
      BY <1>3, <2>1
    <3> QED
      BY <1>3, <3>1 DEF Smaller
  <2>4. PICK some : some = run(r)
    OBVIOUS
  <2>5. IsSequence(some) /\ \A k \in 1..Len(some) : \E i \in 1..Len(human) : some[k] = human[i]
    <3> HIDE DEF run, units, n
    <3>1. some = SubSeq(human, lo, hi)
      BY <2>2, <2>3, <2>4 DEF run
    <3>2. IsSequence(human) /\ lo \in Nat \ {0} /\ hi \in Int /\ hi <= Len(human)
      BY <1>2, <2>3
    <3>3. PICK cut : cut = SubSeq(human, lo, hi)
      OBVIOUS
    <3>4. IsSequence(cut)
      BY <3>2, <3>3, PartOf, Zenon
    <3>5. \A k \in 1..Len(cut) : \E i \in 1..Len(human) : cut[k] = human[i]
      BY <3>2, <3>3, PartOf
    <3> QED
      BY <3>1, <3>3, <3>4, <3>5
  <2>6. \A k \in 1..Len(some) : ShortComment(d, some[k])
    BY <1>2, <2>5
  <2>7. PICK each : each = [i \in DOMAIN some |-> Rendered(d, some[i])]
    OBVIOUS
  <2>8. DOMAIN some = 1..Len(some) /\ Len(some) \in Int /\ ~(Len(some) < 0)
    BY <2>5 DEF IsSequence
  <2>9. /\ each = [i \in 1..Len(some) |-> each[i]]
        /\ \A i \in 1..Len(some) : each[i] = Rendered(d, some[i])
    BY <2>7, <2>8
  <2>10. IsSequence(each) /\ Len(each) = Len(some)
    BY <2>8, <2>9, ListOf
  <2>11. \A i \in 1..Len(each) : UnitsFit(each[i], Room(d.thread))
    BY <1>4, <2>6, <2>9, <2>10, RenderedFits
  <2>12. UnitsFit(FlattenSeq(each), Room(d.thread))
    BY <2>10, <2>11, FlattenedUnits
  <2>13. units(r) = FlattenSeq(each)
    BY <2>4, <2>7
  <2> HIDE DEF units
  <2> QED
    BY <1>4, <2>12, <2>13 DEF SpanFits, SpanOf
<1> HIDE DEF n, units
<1>8. PICK spans : spans = ThreadSpans(d)
  OBVIOUS
<1>9. /\ spans = [r \in 1..n |-> spans[r]]
      /\ \A r \in 1..n : spans[r] = SpanOf("comment", <<>>, d.thread, units(r))
  BY <1>6, <1>8
<1>10. IsSequence(spans) /\ DOMAIN spans = 1..Len(spans)
  BY <1>5, <1>9, ListOf
<1>11. \A r \in 1..Len(spans) : SpanFits(spans[r])
  BY <1>7, <1>9, <1>10
<1> QED
  BY <1>8, <1>10, <1>11 DEF SpansFit

\* What is to be packed is cut to the budget of its header.
LEMMA TodoFits ==
  ASSUME doc \in Documents, doc.kind # "docs", MarginCovers
  PROVE  SpansFit(Todo(doc))
PROOF
<1> Roomy
  BY DEF MarginCovers, Roomy
<1>1. CASE doc.kind = "code"
  BY <1>1, CodeFits DEF Todo
<1>2. CASE doc.kind = "issue"
  <2>1. /\ doc.text \in Seq(Seq(Nat)) /\ doc.header \in Nat /\ doc.body \in 0..Len(doc.text)
        /\ 1 \in Nat \ {0}
    BY <1>2, DocumentsAssumption
  <2>2. SpanFits(BodySpan(doc))
    BY <2>1, CutSpanFits DEF BodySpan
  <2>3. SpansFit(ThreadSpans(doc))
    BY <1>2, ThreadsFit DEF MarginCovers, ShortName
  <2>4. Todo(doc) = <<BodySpan(doc)>> \o ThreadSpans(doc)
    BY <1>2 DEF Todo
  <2> QED
    BY <2>2, <2>3, <2>4, OneSpan, SpansBehind
<1> QED
  BY <1>1, <1>2, DocumentsAssumption

-----------------------------------------------------------------------------
(* The inductive invariant of the packing.                                 *)

RoomOf(s) == Room(s.header)

\* Only a section of a document waits.
SectionsAsFound ==
  /\ pending # <<>> => doc.kind = "docs" /\ IsSection(doc, pending[1])
  /\ doc.kind = "docs" =>
       IsSequence(todo) /\ \A i \in 1..Len(todo) : IsSection(doc, todo[i])

\* A chunk is within the room of its header.
ChunkFits(c) ==
  c.header \in Nat /\ c.token_count \in Int /\ c.token_count <= c.header + Room(c.header)

Packed ==
  /\ SectionsAsFound
  /\ doc.kind # "docs" => SpansFit(todo)
  /\ span # <<>> =>
       /\ SpanFits(span[1])
       /\ at \in 0..Len(span[1].units)
       /\ PackFits(span[1].units, pk, RoomOf(span[1]))
  /\ \A i \in 1..Len(chunks) : ChunkFits(chunks[i])

FitInv == doc \in Documents /\ IsSequence(chunks) /\ (MarginCovers => Packed)

\* A span that is opened has packed nothing.
LEMMA OpenFits ==
  ASSUME Roomy, NEW s, SpanFits(s)
  PROVE  0 \in 0..Len(s.units) /\ PackFits(s.units, EmptyPack, RoomOf(s)) /\ RoomOf(s) \in Nat
PROOF
<1>2. RoomOf(s) \in Nat
  BY RoomIsNat DEF SpanFits, RoomOf
<1>3. Len(s.units) \in Nat
  BY DEF SpanFits, UnitsFit, IsSequence
<1> QED
  BY <1>2, <1>3, EmptyPackFits

LEMMA SectionFits ==
  ASSUME Roomy, doc \in Documents, NEW s, IsSection(doc, s)
  PROVE  SpanFits(SectionSpan(doc, s))
PROOF
<1>1. /\ doc.text \in Seq(Seq(Nat)) /\ s.header \in Nat
      /\ s.first \in Nat \ {0} /\ s.last \in 0..Len(doc.text)
  BY DocumentsAssumption DEF IsSection, Within
<1> QED
  BY <1>1, CutSpanFits DEF SectionSpan

LEMMA MergedIsSection ==
  ASSUME NEW p, p # <<>> => IsSection(doc, p[1]), NEW s, IsSection(doc, s)
  PROVE  IsSection(doc, Merged(p, s))
PROOF
<1>1. CASE p = <<>>
  BY <1>1 DEF Merged
<1>2. CASE p # <<>>
  <2>1. Merged(p, s) = [s EXCEPT !.first = p[1].first, !.anchor = <<>>]
    BY <1>2 DEF Merged
  <2>2. p[1].first \in Nat \ {0}
    BY <1>2 DEF IsSection, Within
  <2> QED
    BY <2>1, <2>2 DEF IsSection, Within, IsSequence
<1> QED
  BY <1>1, <1>2

LEMMA FitInit == ChunkInit => FitInv
PROOF
<1> SUFFICES ASSUME ChunkInit PROVE FitInv
  OBVIOUS
<1>1. doc \in Documents /\ todo = Todo(doc) /\ pending = <<>> /\ span = <<>> /\ chunks = <<>>
  BY DEF ChunkInit
<1>2. IsSequence(chunks) /\ Len(chunks) = 0
  BY <1>1 DEF IsSequence
<1>3. SectionsAsFound
  BY <1>1, DocumentsAssumption DEF SectionsAsFound, Todo
<1>4. MarginCovers /\ doc.kind # "docs" => SpansFit(todo)
  BY <1>1, TodoFits
<1> QED
  BY <1>1, <1>2, <1>3, <1>4 DEF FitInv, Packed

LEMMA FitTakeSection == FitInv /\ TakeSection => FitInv'
PROOF
<1> SUFFICES ASSUME FitInv, TakeSection PROVE FitInv'
  OBVIOUS
<1> DEFINE s == Merged(pending, Head(todo))
<1>1. /\ todo' = Tail(todo) /\ todo # <<>> /\ span = <<>> /\ doc.kind = "docs"
      /\ UNCHANGED <<doc, chunks>>
      /\ \/ pending' = <<s>> /\ span' = span
         \/ pending' = <<>> /\ span' = <<SectionSpan(doc, s)>> /\ at' = 0 /\ pk' = EmptyPack
  BY DEF TakeSection, Open
<1>2. doc \in Documents /\ IsSequence(chunks) /\ MarginCovers' = MarginCovers
  BY <1>1 DEF FitInv, MarginCovers
<1> SUFFICES ASSUME MarginCovers PROVE Packed'
  BY <1>1, <1>2 DEF FitInv
<1>3. Packed /\ Roomy
  BY DEF FitInv, MarginCovers, Roomy
<1>4. /\ IsSequence(todo) /\ \A i \in 1..Len(todo) : IsSection(doc, todo[i])
      /\ pending # <<>> => IsSection(doc, pending[1])
  BY <1>1, <1>3 DEF Packed, SectionsAsFound
<1>5. /\ Len(todo) \in Nat \ {0} /\ Head(todo) = todo[1]
      /\ IsSequence(todo') /\ Len(todo') = Len(todo) - 1
      /\ \A i \in 1..(Len(todo) - 1) : todo'[i] = todo[i + 1]
  BY <1>1, <1>4, Shortened
<1>6. IsSection(doc, s)
  <2>1. IsSection(doc, Head(todo))
    BY <1>4, <1>5
  <2> QED
    BY <1>4, <2>1, MergedIsSection
<1> HIDE DEF s
<1>7. SpanFits(SectionSpan(doc, s))
  BY <1>2, <1>3, <1>6, SectionFits
<1>8. \A i \in 1..Len(todo') : IsSection(doc, todo'[i])
  BY <1>4, <1>5
<1>9. SectionsAsFound'
  BY <1>1, <1>5, <1>6, <1>8 DEF SectionsAsFound
<1>10. span' # <<>> =>
         /\ SpanFits(span'[1]) /\ at' \in 0..Len(span'[1].units)
         /\ PackFits(span'[1].units, pk', RoomOf(span'[1]))
  BY <1>1, <1>3, <1>7, OpenFits
<1> QED
  BY <1>1, <1>3, <1>9, <1>10 DEF Packed

LEMMA FitTakeTrailing == FitInv /\ TakeTrailing => FitInv'
PROOF
<1> SUFFICES ASSUME FitInv, TakeTrailing PROVE FitInv'
  OBVIOUS
<1>1. /\ UNCHANGED <<doc, todo, chunks>> /\ pending # <<>> /\ pending' = <<>>
      /\ span' = <<SectionSpan(doc, pending[1])>> /\ at' = 0 /\ pk' = EmptyPack
  BY DEF TakeTrailing, Open
<1>2. doc \in Documents /\ IsSequence(chunks) /\ MarginCovers' = MarginCovers
  BY <1>1 DEF FitInv, MarginCovers
<1> SUFFICES ASSUME MarginCovers PROVE Packed'
  BY <1>1, <1>2 DEF FitInv
<1>3. Packed /\ Roomy
  BY DEF FitInv, MarginCovers, Roomy
<1>4. doc.kind = "docs" /\ IsSection(doc, pending[1])
  BY <1>1, <1>3 DEF Packed, SectionsAsFound
<1>5. SpanFits(SectionSpan(doc, pending[1]))
  BY <1>2, <1>3, <1>4, SectionFits
<1>6. /\ SpanFits(span'[1]) /\ at' \in 0..Len(span'[1].units)
      /\ PackFits(span'[1].units, pk', RoomOf(span'[1]))
  BY <1>1, <1>3, <1>5, OpenFits
<1>7. SectionsAsFound'
  BY <1>1, <1>3 DEF Packed, SectionsAsFound
<1> QED
  BY <1>1, <1>3, <1>4, <1>6, <1>7 DEF Packed

LEMMA FitTakeSpan == FitInv /\ TakeSpan => FitInv'
PROOF
<1> SUFFICES ASSUME FitInv, TakeSpan PROVE FitInv'
  OBVIOUS
<1>1. /\ todo' = Tail(todo) /\ todo # <<>> /\ doc.kind # "docs"
      /\ UNCHANGED <<doc, pending, chunks>>
      /\ span' = <<Head(todo)>> /\ at' = 0 /\ pk' = EmptyPack
  BY DEF TakeSpan, Open
<1>2. doc \in Documents /\ IsSequence(chunks) /\ MarginCovers' = MarginCovers
  BY <1>1 DEF FitInv, MarginCovers
<1> SUFFICES ASSUME MarginCovers PROVE Packed'
  BY <1>1, <1>2 DEF FitInv
<1>3. Packed /\ SpansFit(todo) /\ Roomy
  BY <1>1 DEF FitInv, Packed, MarginCovers, Roomy
<1>4. /\ Len(todo) \in Nat \ {0} /\ Head(todo) = todo[1]
      /\ IsSequence(todo') /\ Len(todo') = Len(todo) - 1
      /\ \A i \in 1..(Len(todo) - 1) : todo'[i] = todo[i + 1]
  BY <1>1, <1>3, Shortened DEF SpansFit
<1>5. SpanFits(Head(todo)) /\ SpansFit(todo')
  BY <1>3, <1>4 DEF SpansFit
<1>6. /\ SpanFits(span'[1]) /\ at' \in 0..Len(span'[1].units)
      /\ PackFits(span'[1].units, pk', RoomOf(span'[1]))
  BY <1>1, <1>3, <1>5, OpenFits
<1>7. SectionsAsFound'
  BY <1>1, <1>3 DEF Packed, SectionsAsFound
<1> QED
  BY <1>1, <1>3, <1>5, <1>6, <1>7 DEF Packed

LEMMA FitPackNext == FitInv /\ PackNext => FitInv'
PROOF
<1> SUFFICES ASSUME FitInv, PackNext PROVE FitInv'
  OBVIOUS
<1>1. PICK s : s = span[1]
  OBVIOUS
<1>2. /\ span # <<>> /\ at < Len(s.units) /\ at' = at + 1
      /\ pk' = PackUnit(pk, s.units, at + 1, Budget(s.header))
      /\ UNCHANGED <<doc, todo, pending, span, chunks>>
  BY <1>1 DEF PackNext
<1>3. doc \in Documents /\ IsSequence(chunks) /\ MarginCovers' = MarginCovers
  BY <1>2 DEF FitInv, MarginCovers
<1> SUFFICES ASSUME MarginCovers PROVE Packed'
  BY <1>2, <1>3 DEF FitInv
<1>4. Packed /\ Roomy
  BY DEF FitInv, MarginCovers, Roomy
<1>5. SpanFits(s) /\ at \in 0..Len(s.units) /\ PackFits(s.units, pk, RoomOf(s))
  BY <1>1, <1>2, <1>4 DEF Packed
<1>6. /\ Room(s.header) \in Nat /\ Budget(s.header) \in Nat
      /\ Budget(s.header) <= Room(s.header)
  BY <1>4, <1>5, RoomIsNat DEF SpanFits
<1>7. PICK max \in Nat, room \in Nat :
        max = Budget(s.header) /\ room = RoomOf(s) /\ max <= room /\ room = Room(s.header)
  BY <1>6 DEF RoomOf
<1>8. UnitsFit(s.units, room)
  BY <1>5, <1>7 DEF SpanFits
<1>9. at + 1 \in 1..Len(s.units) /\ at + 1 \in 0..Len(s.units)
  <2>1. Len(s.units) \in Nat
    BY <1>8 DEF UnitsFit, IsSequence
  <2> QED
    BY <1>2, <1>5, <2>1
<1>10. PackFits(s.units, pk', room)
  BY <1>2, <1>5, <1>7, <1>8, <1>9, PackUnitFits
<1>11. SectionsAsFound'
  BY <1>2, <1>4 DEF Packed, SectionsAsFound
<1>12. span' = span /\ span'[1] = s
  BY <1>1, <1>2
<1> QED
  BY <1>2, <1>4, <1>5, <1>7, <1>9, <1>10, <1>11, <1>12 DEF Packed

LEMMA PartsReplaced ==
  ASSUME NEW A, NEW B, NEW p \in [parts : A, buffer : B, tokens : Int], NEW rest \in A,
         NEW q, q = [p EXCEPT !.parts = rest]
  PROVE  /\ q \in [parts : A, buffer : B, tokens : Int]
         /\ q.parts = rest /\ q.buffer = p.buffer /\ q.tokens = p.tokens
PROOF
OBVIOUS

LEMMA FitEmitPart == FitInv /\ EmitPart => FitInv'
PROOF
<1> SUFFICES ASSUME FitInv, EmitPart PROVE FitInv'
  OBVIOUS
<1>1. PICK s : s = span[1]
  OBVIOUS
<1>2. PICK parts : parts = Parts(pk)
  OBVIOUS
<1>3. /\ span # <<>> /\ UNCHANGED <<doc, todo, pending, at>>
      /\ chunks' = chunks \/ chunks' = Append(chunks, Chunk(s, Head(parts)))
      /\ \/ Tail(parts) = <<>> /\ span' = <<>>
         \/ Tail(parts) # <<>> /\ span' = span /\ pk' = [pk EXCEPT !.parts = Tail(@)]
  BY <1>1, <1>2 DEF EmitPart
<1>4. doc \in Documents /\ IsSequence(chunks) /\ MarginCovers' = MarginCovers /\ IsSequence(chunks')
  <2>1. doc \in Documents /\ IsSequence(chunks)
    BY DEF FitInv
  <2>2. MarginCovers' = MarginCovers
    BY <1>3 DEF MarginCovers
  <2>3. PICK more : more = Chunk(s, Head(parts))
    OBVIOUS
  <2>4. chunks' = chunks \/ chunks' = Append(chunks, more)
    BY <1>3, <2>3
  <2>5. IsSequence(Append(chunks, more))
    BY <2>1, Extended
  <2> QED
    BY <2>1, <2>2, <2>4, <2>5
<1> SUFFICES ASSUME MarginCovers PROVE Packed'
  BY <1>3, <1>4 DEF FitInv
<1>5. Packed /\ Roomy
  BY DEF FitInv, MarginCovers, Roomy
<1>6. SpanFits(s) /\ at \in 0..Len(s.units) /\ PackFits(s.units, pk, RoomOf(s))
  BY <1>1, <1>3, <1>5 DEF Packed
<1>7. PICK room \in Nat : room = RoomOf(s) /\ room = Room(s.header)
  BY <1>5, <1>6, RoomIsNat DEF SpanFits, RoomOf
<1>8. UnitsFit(s.units, room) /\ s.header \in Nat
  BY <1>6, <1>7 DEF SpanFits
<1>9. /\ parts \in Seq(Seq(1..Len(s.units))) /\ parts # <<>>
      /\ \A k \in 1..Len(parts) : Costs(Picked(s.units, parts[k])) <= room
  BY <1>2, <1>6, <1>7, PartsFit
<1>10. PICK part \in Seq(1..Len(s.units)) : part = Head(parts) /\ Costs(Picked(s.units, part)) <= room
  <2>1. Head(parts) = parts[1] /\ 1 \in 1..Len(parts)
    BY <1>9
  <2>2. parts[1] \in Seq(1..Len(s.units))
    BY <1>9, <2>1, ElementOfSeq
  <2> QED
    BY <1>9, <2>1, <2>2
<1>11. ChunkFits(Chunk(s, part))
  <2>1. PICK n \in Int : n = Costs(Picked(s.units, part)) /\ n <= room
    BY <1>8, <1>10, PickedCosts
  <2>2. Chunk(s, part).header = s.header /\ Chunk(s, part).token_count = s.header + n
    BY <2>1 DEF Chunk
  <2> QED
    BY <1>7, <1>8, <2>1, <2>2 DEF ChunkFits
<1>12. \A i \in 1..Len(chunks') : ChunkFits(chunks'[i])
  <2>1. \A i \in 1..Len(chunks) : ChunkFits(chunks[i])
    BY <1>5 DEF Packed
  <2>2. CASE chunks' = chunks
    BY <2>1, <2>2
  <2>3. CASE chunks' = Append(chunks, Chunk(s, part))
    <3>1. /\ Len(chunks') = Len(chunks) + 1 /\ Len(chunks) \in Nat
          /\ chunks'[Len(chunks) + 1] = Chunk(s, part)
          /\ \A i \in 1..Len(chunks) : chunks'[i] = chunks[i]
      BY <1>4, <2>3, Extended DEF IsSequence
    <3>2. \A i \in 1..Len(chunks') : i = Len(chunks) + 1 \/ i \in 1..Len(chunks)
      BY <3>1
    <3> QED
      BY <1>11, <2>1, <3>1, <3>2
  <2> QED
    BY <1>3, <1>10, <2>2, <2>3
<1>13. ASSUME Tail(parts) # <<>> PROVE PackFits(s.units, [pk EXCEPT !.parts = Tail(@)], room)
  <2> DEFINE A == Seq(Seq(1..Len(s.units)))
             B == Seq(1..Len(s.units))
  <2>1. PICK ps \in Seq(Seq(1..Len(s.units))), b \in Seq(1..Len(s.units)), t \in Int :
          /\ pk = [parts |-> ps, buffer |-> b, tokens |-> t]
          /\ \A i \in 1..Len(ps) : Costs(Picked(s.units, ps[i])) <= room
          /\ Costs(Picked(s.units, b)) <= room /\ Costs(Picked(s.units, b)) <= t
    <3>1. /\ pk.parts \in Seq(Seq(1..Len(s.units))) /\ pk.buffer \in Seq(1..Len(s.units))
          /\ pk.tokens \in Int
          /\ pk = [parts |-> pk.parts, buffer |-> pk.buffer, tokens |-> pk.tokens]
      BY <1>6 DEF PackFits
    <3> QED
      BY <1>6, <1>7, <3>1 DEF PackFits
  <2>2. parts = IF b = <<>> THEN <<<<>>>> ELSE Append(ps, b)
    BY <1>2, <2>1 DEF Parts
  <2>3. ps # <<>>
    <3> SUFFICES ASSUME ps = <<>> PROVE FALSE
      OBVIOUS
    <3>1. \A x : Tail(<<x>>) = <<>>
      OBVIOUS
    <3>2. parts = <<<<>>>> \/ parts = <<b>>
      BY <2>2
    <3> QED
      BY <1>13, <3>1, <3>2
  <2>4. PICK q : q = [pk EXCEPT !.parts = Tail(@)]
    OBVIOUS
  <2>5. /\ Tail(ps) \in Seq(Seq(1..Len(s.units))) /\ Len(Tail(ps)) = Len(ps) - 1
        /\ Len(ps) \in Nat /\ \A i \in 1..(Len(ps) - 1) : Tail(ps)[i] = ps[i + 1]
    BY <2>3, HeadTailProperties
  <2>6. \A i \in 1..Len(Tail(ps)) : Costs(Picked(s.units, Tail(ps)[i])) <= room
    <3> SUFFICES ASSUME NEW i \in 1..Len(Tail(ps))
                 PROVE  Costs(Picked(s.units, Tail(ps)[i])) <= room
      OBVIOUS
    <3>1. i + 1 \in 1..Len(ps) /\ Tail(ps)[i] = ps[i + 1]
      BY <2>5
    <3> QED
      BY <2>1, <3>1
  <2>7. /\ q \in [parts : A, buffer : B, tokens : Int]
        /\ q.parts = Tail(ps) /\ q.buffer = b /\ q.tokens = t
    <3>1. PICK p : p = pk
      OBVIOUS
    <3>2. p \in [parts : A, buffer : B, tokens : Int]
      BY <1>6, <3>1 DEF PackFits
    <3>3. p.parts = ps /\ p.buffer = b /\ p.tokens = t
      BY <2>1, <3>1
    <3>4. PICK rest : rest = Tail(ps)
      OBVIOUS
    <3>5. rest \in A
      BY <2>5, <3>4
    <3>6. q = [p EXCEPT !.parts = rest]
      BY <2>4, <3>1, <3>3, <3>4, Zenon
    <3> HIDE DEF A, B
    <3>7. /\ q \in [parts : A, buffer : B, tokens : Int]
          /\ q.parts = rest /\ q.buffer = p.buffer /\ q.tokens = p.tokens
      BY <3>2, <3>5, <3>6, PartsReplaced
    <3> QED
      BY <3>3, <3>4, <3>7
  <2>8. PackFits(s.units, q, room)
    BY <2>1, <2>6, <2>7 DEF PackFits
  <2> QED
    BY <2>4, <2>8
<1>14. SectionsAsFound'
  BY <1>3, <1>5 DEF Packed, SectionsAsFound
<1>15. span' # <<>> =>
         /\ SpanFits(span'[1]) /\ at' \in 0..Len(span'[1].units)
         /\ PackFits(span'[1].units, pk', RoomOf(span'[1]))
  BY <1>1, <1>3, <1>6, <1>7, <1>13
<1>16. doc'.kind # "docs" => SpansFit(todo')
  BY <1>3, <1>5 DEF Packed
<1> QED
  BY <1>12, <1>14, <1>15, <1>16 DEF Packed

\* Every chunk fits the embedder's window, the special tokens included, for any
\* document and sizes and whatever its decoded pieces count, if its header
\* leaves MinBudget and the margin covers the drift and the authors' names
\* (_pack, _split_text, _hard_split, content_budget).
THEOREM ChunksFit == ChunkSpec => []ChunksFitWindow
PROOF
<1>1. FitInv /\ [ChunkNext]_chunkVars => FitInv'
  <2> SUFFICES ASSUME FitInv, [ChunkNext]_chunkVars PROVE FitInv'
    OBVIOUS
  <2>1. CASE UNCHANGED chunkVars
    <3>1. UNCHANGED <<doc, todo, pending, span, at, pk, chunks>>
      BY <2>1 DEF chunkVars
    <3> QED
      BY <3>1 DEF FitInv, Packed, SectionsAsFound, MarginCovers
  <2> QED
    BY <2>1, FitTakeSection, FitTakeTrailing, FitTakeSpan, FitPackNext, FitEmitPart DEF ChunkNext
<1>2. FitInv => ChunksFitWindow
  <2> SUFFICES ASSUME FitInv, MarginCovers, NEW i \in DOMAIN chunks,
                      chunks[i].header + MinBudget <= MaxTokens
               PROVE  chunks[i].token_count + SpecialTokens <= EmbedWindow
    BY DEF ChunksFitWindow
  <2>1. i \in 1..Len(chunks)
    BY DEF FitInv, IsSequence
  <2>2. ChunkFits(chunks[i])
    BY <2>1 DEF FitInv, Packed
  <2>3. PICK c : c = chunks[i]
    OBVIOUS
  <2>4. /\ c.header \in Nat /\ c.token_count \in Int
        /\ c.token_count <= c.header + Room(c.header)
        /\ c.header + MinBudget <= MaxTokens
    BY <2>2, <2>3 DEF ChunkFits
  <2>5. /\ Budget(c.header) \in Nat /\ SafetyMargin \in Nat /\ SpecialTokens \in Nat
        /\ c.header + Budget(c.header) + SafetyMargin = EmbedWindow
    BY <2>4, SizesOfBudget
  <2>6. c.token_count + SpecialTokens <= EmbedWindow
    BY <2>4, <2>5 DEF Room
  <2> QED
    BY <2>3, <2>6
<1> QED
  BY <1>1, <1>2, FitInit, PTL DEF ChunkSpec

-----------------------------------------------------------------------------
(* Lists in an order, one behind the other.                                *)

Ordered(s, R) ==
  IsSequence(s) /\ \A i, j \in 1..Len(s) : i < j => <<s[i], s[j]>> \in R

\* Two lists, one behind the other.
LEMMA Behind ==
  ASSUME NEW a, IsSequence(a), NEW b, IsSequence(b), NEW c, c = a \o b
  PROVE  /\ Len(a) \in Nat /\ Len(b) \in Nat
         /\ IsSequence(c) /\ Len(c) = Len(a) + Len(b)
         /\ \A k \in 1..Len(a) : c[k] = a[k]
         /\ \A k \in 1..Len(b) : c[Len(a) + k] = b[k]
PROOF
<1> DEFINE V == {a[i] : i \in 1..Len(a)} \cup {b[i] : i \in 1..Len(b)}
<1>1. a \in Seq(V) /\ b \in Seq(V)
  <2>1. (\A i \in 1..Len(a) : a[i] \in V) /\ \A i \in 1..Len(b) : b[i] \in V
    OBVIOUS
  <2> HIDE DEF V
  <2>2. Len(a) \in Nat /\ a = [i \in 1..Len(a) |-> a[i]]
    BY DEF IsSequence
  <2>3. Len(b) \in Nat /\ b = [i \in 1..Len(b) |-> b[i]]
    BY DEF IsSequence
  <2>4. a \in Seq(V)
    BY <2>1, <2>2
  <2>5. b \in Seq(V)
    BY <2>1, <2>3
  <2> QED
    BY <2>4, <2>5
<1> HIDE DEF V
<1>2. a \o b \in Seq(V)
  BY <1>1
<1>3. Len(a) \in Nat /\ Len(b) \in Nat /\ Len(a \o b) = Len(a) + Len(b)
  BY <1>1
<1>4. \A k \in 1..Len(a) : (a \o b)[k] = a[k]
  BY <1>1
<1>5. \A k \in 1..Len(b) : (a \o b)[Len(a) + k] = b[k]
  BY <1>1
<1> QED
  BY <1>2, <1>3, <1>4, <1>5, SequenceOf

\* A place in the one behind the other is a place in either.
LEMMA EitherPlace ==
  ASSUME NEW m \in Nat, NEW n \in Nat, NEW k \in 1..(m + n)
  PROVE  k \in 1..m \/ \E j \in 1..n : k = m + j
PROOF
<1>1. CASE k <= m
  BY <1>1
<1>2. CASE ~(k <= m)
  <2>1. k - m \in 1..n /\ k = m + (k - m)
    BY <1>2
  <2> QED
    BY <2>1
<1> QED
  BY <1>1, <1>2

LEMMA OrderedBehind ==
  ASSUME NEW R, NEW a, Ordered(a, R), NEW b, Ordered(b, R),
         \A i \in 1..Len(a) : \A j \in 1..Len(b) : <<a[i], b[j]>> \in R
  PROVE  Ordered(a \o b, R)
PROOF
<1>1. PICK c : c = a \o b
  OBVIOUS
<1>2. PICK m \in Nat, n \in Nat : m = Len(a) /\ n = Len(b)
  BY DEF Ordered, IsSequence
<1>3. /\ IsSequence(c) /\ Len(c) = m + n
      /\ \A k \in 1..m : c[k] = a[k]
      /\ \A k \in 1..n : c[m + k] = b[k]
  <2>1. IsSequence(a) /\ IsSequence(b)
    BY DEF Ordered
  <2>2. IsSequence(c) /\ Len(c) = Len(a) + Len(b)
    BY <1>1, <2>1, Behind
  <2>3. \A k \in 1..Len(a) : c[k] = a[k]
    BY <1>1, <2>1, Behind
  <2>4. \A k \in 1..Len(b) : c[Len(a) + k] = b[k]
    BY <1>1, <2>1, Behind
  <2> QED
    BY <1>2, <2>2, <2>3, <2>4
<1>4. ASSUME NEW i \in 1..(m + n), NEW j \in 1..(m + n), i < j PROVE <<c[i], c[j]>> \in R
  <2>1. CASE i \in 1..m /\ j \in 1..m
    BY <1>2, <1>3, <1>4, <2>1 DEF Ordered
  <2>2. CASE i \in 1..m /\ \E l \in 1..n : j = m + l
    BY <1>2, <1>3, <2>2
  <2>3. ASSUME NEW k \in 1..n, i = m + k, NEW l \in 1..n, j = m + l PROVE <<c[i], c[j]>> \in R
    <3>1. k < l
      BY <1>4, <2>3
    <3> QED
      BY <1>2, <1>3, <2>3, <3>1 DEF Ordered
  <2>4. ASSUME NEW k \in 1..n, i = m + k, j \in 1..m PROVE FALSE
    BY <1>4, <2>4
  <2> QED
    BY <2>1, <2>2, <2>3, <2>4, EitherPlace
<1> QED
  BY <1>1, <1>3, <1>4 DEF Ordered

\* Flattening keeps an order that holds within the lists and between them, and
\* every element.
LEMMA FlattenOrdered ==
  ASSUME NEW R, NEW seqs, IsSequence(seqs), \A i \in 1..Len(seqs) : Ordered(seqs[i], R),
         \A i, j \in 1..Len(seqs) : i < j =>
           \A k \in 1..Len(seqs[i]) : \A l \in 1..Len(seqs[j]) : <<seqs[i][k], seqs[j][l]>> \in R
  PROVE  /\ Ordered(FlattenSeq(seqs), R)
         /\ \A i \in 1..Len(seqs) : \A j \in 1..Len(seqs[i]) :
              \E k \in 1..Len(FlattenSeq(seqs)) : FlattenSeq(seqs)[k] = seqs[i][j]
PROOF
<1>1. CASE Len(seqs) = 0
  <2>1. FlattenSeq(seqs) = <<>>
    BY <1>1 DEF FlattenSeq
  <2> QED
    BY <1>1, <2>1 DEF Ordered, IsSequence
<1>2. CASE Len(seqs) # 0
  <2> DEFINE g == CHOOSE x : Flattening(seqs, Len(seqs), x)
             has(f, k) == /\ Ordered(f, R)
                          /\ \A i \in 1..k : \A j \in 1..Len(seqs[i]) :
                               \E l \in 1..Len(f) : f[l] = seqs[i][j]
                          /\ \A l \in 1..Len(f) : \E i \in 1..k : \E j \in 1..Len(seqs[i]) :
                               f[l] = seqs[i][j]
             bad == {k \in 1..Len(seqs) : ~has(g[k], k)}
  <2>1. Len(seqs) \in Nat
    BY DEF IsSequence
  <2>2. Flattening(seqs, Len(seqs), g)
    BY <2>1, FlatteningExists
  <2> HIDE DEF g
  <2>3. \A i \in 1..Len(seqs) : g[i] = IF i = 1 THEN seqs[i] ELSE g[i - 1] \o seqs[i]
    BY <2>2 DEF Flattening
  <2>4. has(g[1], 1)
    <3>1. g[1] = seqs[1] /\ 1 \in 1..Len(seqs)
      BY <1>2, <2>1, <2>3
    <3> QED
      BY <3>1
  <2>5. ASSUME NEW k \in 2..Len(seqs), has(g[k - 1], k - 1) PROVE has(g[k], k)
    <3>1. k \in 1..Len(seqs) /\ k # 1
      BY <2>1
    <3>2. g[k] = g[k - 1] \o seqs[k] /\ k \in 1..Len(seqs)
      BY <2>3, <3>1
    <3>3. PICK a : a = g[k - 1]
      OBVIOUS
    <3>4. PICK b : b = seqs[k]
      OBVIOUS
    <3>5. PICK c : c = a \o b
      OBVIOUS
    <3>6. Ordered(a, R) /\ Ordered(b, R)
      BY <2>5, <3>2, <3>3, <3>4
    <3>7. \A i \in 1..Len(a) : \A j \in 1..Len(b) : <<a[i], b[j]>> \in R
      <4> SUFFICES ASSUME NEW i \in 1..Len(a), NEW j \in 1..Len(b) PROVE <<a[i], b[j]>> \in R
        OBVIOUS
      <4>1. PICK m \in 1..(k - 1) : \E l \in 1..Len(seqs[m]) : a[i] = seqs[m][l]
        BY <2>5, <3>3
      <4>2. m \in 1..Len(seqs) /\ m < k
        BY <2>1
      <4> QED
        BY <3>2, <3>4, <4>1, <4>2
    <3>8. Ordered(c, R)
      BY <3>5, <3>6, <3>7, OrderedBehind
    <3>9. PICK m \in Nat, n \in Nat : m = Len(a) /\ n = Len(b)
      BY <3>6 DEF Ordered, IsSequence
    <3>10. /\ Len(c) = m + n
           /\ \A l \in 1..m : c[l] = a[l]
           /\ \A l \in 1..n : c[m + l] = b[l]
      BY <3>5, <3>6, <3>9, Behind DEF Ordered
    <3>11. \A i \in 1..k : \A j \in 1..Len(seqs[i]) : \E l \in 1..Len(c) : c[l] = seqs[i][j]
      <4> SUFFICES ASSUME NEW i \in 1..k, NEW j \in 1..Len(seqs[i])
                   PROVE  \E l \in 1..Len(c) : c[l] = seqs[i][j]
        OBVIOUS
      <4>1. CASE i = k
        <5>1. j \in 1..n /\ b[j] = seqs[i][j]
          BY <3>4, <3>9, <4>1
        <5>2. m + j \in 1..(m + n) /\ c[m + j] = b[j]
          BY <3>10, <5>1
        <5> QED
          BY <3>10, <5>1, <5>2
      <4>2. CASE i # k
        <5>1. i \in 1..(k - 1)
          BY <4>2
        <5>2. PICK l \in 1..m : a[l] = seqs[i][j]
          BY <2>5, <3>3, <3>9, <5>1
        <5>3. l \in 1..(m + n) /\ c[l] = a[l]
          BY <3>10, <5>2
        <5> QED
          BY <3>10, <5>2, <5>3
      <4> QED
        BY <4>1, <4>2
    <3>12. \A l \in 1..Len(c) : \E i \in 1..k : \E j \in 1..Len(seqs[i]) : c[l] = seqs[i][j]
      <4> SUFFICES ASSUME NEW l \in 1..(m + n)
                   PROVE  \E i \in 1..k : \E j \in 1..Len(seqs[i]) : c[l] = seqs[i][j]
        BY <3>10
      <4>1. CASE l \in 1..m
        <5>1. PICK i \in 1..(k - 1) : \E j \in 1..Len(seqs[i]) : a[l] = seqs[i][j]
          BY <2>5, <3>3, <3>9, <4>1
        <5>2. i \in 1..k
          OBVIOUS
        <5> QED
          BY <3>10, <4>1, <5>1, <5>2
      <4>2. ASSUME NEW j \in 1..n, l = m + j
            PROVE  \E i \in 1..k : \E x \in 1..Len(seqs[i]) : c[l] = seqs[i][x]
        <5>1. c[l] = seqs[k][j] /\ j \in 1..Len(seqs[k]) /\ k \in 1..k
          BY <3>4, <3>9, <3>10, <4>2
        <5> QED
          BY <5>1
      <4> QED
        BY <4>1, <4>2, EitherPlace
    <3>13. has(c, k)
      BY <3>8, <3>11, <3>12
    <3>14. g[k] = c
      BY <3>2, <3>3, <3>4, <3>5
    <3> HIDE DEF has
    <3> QED
      BY <3>13, <3>14
  <2> HIDE DEF has
  <2>6. bad = {}
    <3> SUFFICES ASSUME bad # {} PROVE FALSE
      OBVIOUS
    <3>1. bad \in SUBSET Nat
      OBVIOUS
    <3>2. PICK k \in bad : \A j \in bad : k <= j
      <4> HIDE DEF bad
      <4> QED
        BY <3>1, Least
    <3>3. k # 1 /\ k \in 1..Len(seqs)
      BY <2>4, <3>2
    <3>4. k - 1 \in 1..Len(seqs) /\ k - 1 \notin bad /\ k \in 2..Len(seqs)
      BY <2>1, <3>2, <3>3
    <3> QED
      BY <2>5, <3>2, <3>4
  <2>7. has(g[Len(seqs)], Len(seqs))
    BY <1>2, <2>1, <2>6
  <2>8. FlattenSeq(seqs) = g[Len(seqs)]
    BY <1>2, FlattenIsLast DEF g
  <2> QED
    BY <2>7, <2>8 DEF has
<1> QED
  BY <1>1, <1>2

-----------------------------------------------------------------------------
(* Units in line.                                                          *)

\* What has no tokens costs nothing, but for an author's name.
IsUnit(u) ==
  /\ {u.from, u.to, u.line} \subseteq Int /\ u.from <= u.to
  /\ u.cost \in Nat /\ (u.cost = 0 => u.from = u.to)

NotAfter(u, v) == u.from <= v.from /\ u.to <= v.to /\ u.line <= v.line

InLine(us) ==
  /\ IsSequence(us)
  /\ \A i \in 1..Len(us) : IsUnit(us[i])
  /\ \A i, j \in 1..Len(us) : i < j => NotAfter(us[i], us[j])

HasToken(us, t) == \E i \in 1..Len(us) : us[i].from <= t /\ t < us[i].to

\* Units behind units that they do not come before are in line, and have all
\* their tokens.
LEMMA FlattenInLine ==
  ASSUME NEW seqs, IsSequence(seqs), \A i \in 1..Len(seqs) : InLine(seqs[i]),
         \A i, j \in 1..Len(seqs) : i < j =>
           \A k \in 1..Len(seqs[i]) : \A l \in 1..Len(seqs[j]) : NotAfter(seqs[i][k], seqs[j][l])
  PROVE  /\ InLine(FlattenSeq(seqs))
         /\ \A k \in 1..Len(FlattenSeq(seqs)) :
              \E i \in 1..Len(seqs) : \E j \in 1..Len(seqs[i]) : FlattenSeq(seqs)[k] = seqs[i][j]
         /\ \A i \in 1..Len(seqs) : \A t : HasToken(seqs[i], t) => HasToken(FlattenSeq(seqs), t)
PROOF
<1> DEFINE U == UNION {{seqs[i][j] : j \in 1..Len(seqs[i])} : i \in 1..Len(seqs)}
           R == {p \in U \X U : NotAfter(p[1], p[2])}
<1>1. PICK flat : flat = FlattenSeq(seqs)
  OBVIOUS
<1>2. \A i \in 1..Len(seqs) : \A j \in 1..Len(seqs[i]) : seqs[i][j] \in U
  OBVIOUS
<1>3. \A x, y \in U : NotAfter(x, y) <=> <<x, y>> \in R
  OBVIOUS
<1> HIDE DEF U, R
<1>4. \A i \in 1..Len(seqs) : Ordered(seqs[i], R)
  BY <1>2, <1>3 DEF InLine, Ordered
<1>5. \A i, j \in 1..Len(seqs) : i < j =>
        \A k \in 1..Len(seqs[i]) : \A l \in 1..Len(seqs[j]) : <<seqs[i][k], seqs[j][l]>> \in R
  BY <1>2, <1>3
<1>6. /\ Ordered(flat, R)
      /\ \A i \in 1..Len(seqs) : \A j \in 1..Len(seqs[i]) :
           \E k \in 1..Len(flat) : flat[k] = seqs[i][j]
  BY <1>1, <1>4, <1>5, FlattenOrdered
<1>7. \A k \in 1..Len(flat) :
        \E i \in 1..Len(seqs) : \E j \in 1..Len(seqs[i]) : flat[k] = seqs[i][j]
  <2>1. \A i \in 1..Len(seqs) : IsSequence(seqs[i])
    BY DEF InLine
  <2> QED
    BY <1>1, <2>1, FlattenElements
<1>8. \A k \in 1..Len(flat) : IsUnit(flat[k]) /\ flat[k] \in U
  BY <1>2, <1>7 DEF InLine
<1>9. InLine(flat)
  BY <1>3, <1>6, <1>8 DEF InLine, Ordered
<1>10. \A i \in 1..Len(seqs) : \A t : HasToken(seqs[i], t) => HasToken(flat, t)
  <2> SUFFICES ASSUME NEW i \in 1..Len(seqs), NEW t, HasToken(seqs[i], t) PROVE HasToken(flat, t)
    OBVIOUS
  <2>1. PICK j \in 1..Len(seqs[i]) : seqs[i][j].from <= t /\ t < seqs[i][j].to
    BY DEF HasToken
  <2>2. PICK k \in 1..Len(flat) : flat[k] = seqs[i][j]
    BY <1>6
  <2> QED
    BY <2>1, <2>2 DEF HasToken
<1> QED
  BY <1>1, <1>7, <1>9, <1>10

-----------------------------------------------------------------------------
(* Where the tokens of a text go when it is cut.                           *)

\* Units in line that have all tokens from lo up to hi, and no other, in lines
\* from f to l.
Cut(us, lo, hi, f, l) ==
  /\ InLine(us)
  /\ \A i \in 1..Len(us) : lo <= us[i].from /\ us[i].to <= hi /\ f <= us[i].line /\ us[i].line <= l
  /\ \A t \in Int : lo <= t /\ t < hi => HasToken(us, t)

LEMMA BoundBetween ==
  ASSUME NEW u, IsUnit(u), NEW v, IsUnit(v), NEW x \in Int, NEW y \in Int,
         u.to <= x, x <= y, y <= v.from, u.line <= v.line
  PROVE  NotAfter(u, v)
PROOF
  BY DEF IsUnit, NotAfter

\* The last step of a scale that is no higher than t.
LEMMA StepBelow ==
  ASSUME NEW n \in Nat, NEW b, \A i \in 1..(n + 1) : b[i] \in Int,
         NEW t \in Int, b[1] <= t, t < b[n + 1]
  PROVE  \E i \in 1..n : b[i] <= t /\ t < b[i + 1]
PROOF
<1> DEFINE S == {i \in 1..(n + 1) : b[i] <= t}
<1>1. S \in SUBSET Nat /\ 1 \in S /\ \A x \in S : x <= n + 1
  OBVIOUS
<1>2. PICK i \in S : \A j \in S : j <= i
  <2>1. n + 1 \in Nat /\ S # {}
    BY <1>1
  <2> HIDE DEF S
  <2> QED
    BY <1>1, <2>1, Greatest
<1>3. i \in 1..n
  <2>1. i # n + 1
    BY <1>2
  <2> QED
    BY <1>2, <2>1
<1>4. i + 1 \in 1..(n + 1) /\ i + 1 \notin S
  BY <1>2, <1>3
<1>5. ~(b[i + 1] <= t) /\ b[i + 1] \in Int
  BY <1>4
<1> QED
  BY <1>2, <1>3, <1>5

LEMMA NoGreater ==
  \A x, y, z \in Int : x <= y /\ y <= z => x <= z
  OBVIOUS

\* Cuts one behind the other.
LEMMA FlattenCut ==
  ASSUME NEW seqs, IsSequence(seqs), NEW n \in Nat, n = Len(seqs),
         NEW b, \A i \in 1..(n + 1) : b[i] \in Int, \A i, j \in 1..(n + 1) : i <= j => b[i] <= b[j],
         NEW f, \A i \in 1..n : f[i] \in Int, \A i, j \in 1..n : i <= j => f[i] <= f[j],
         \A i \in 1..n : Cut(seqs[i], b[i], b[i + 1], f[i], f[i]),
         NEW lo \in Int, NEW hi \in Int, \A i \in 1..n : lo <= f[i] /\ f[i] <= hi
  PROVE  Cut(FlattenSeq(seqs), b[1], b[n + 1], lo, hi)
PROOF
<1>1. PICK flat : flat = FlattenSeq(seqs)
  OBVIOUS
<1>2. ASSUME NEW i \in 1..n, NEW k \in 1..Len(seqs[i])
      PROVE  /\ IsUnit(seqs[i][k])
             /\ b[i] <= seqs[i][k].from /\ seqs[i][k].to <= b[i + 1] /\ seqs[i][k].line = f[i]
  <2>1. PICK u : u = seqs[i][k]
    OBVIOUS
  <2>2. IsUnit(u) /\ b[i] <= u.from /\ u.to <= b[i + 1] /\ f[i] <= u.line /\ u.line <= f[i]
    BY <2>1 DEF Cut, InLine
  <2>3. u.line \in Int /\ f[i] \in Int
    BY <2>2 DEF IsUnit
  <2>4. u.line = f[i]
    BY <2>2, <2>3
  <2> QED
    BY <2>1, <2>2, <2>4
<1>3. ASSUME NEW i \in 1..n, NEW j \in 1..n, i < j,
             NEW k \in 1..Len(seqs[i]), NEW l \in 1..Len(seqs[j])
      PROVE  NotAfter(seqs[i][k], seqs[j][l])
  <2>1. PICK u, v : u = seqs[i][k] /\ v = seqs[j][l]
    OBVIOUS
  <2>2. /\ IsUnit(u) /\ IsUnit(v) /\ u.to <= b[i + 1] /\ b[j] <= v.from
        /\ u.line = f[i] /\ v.line = f[j]
    BY <1>2, <2>1
  <2>3. /\ b[i + 1] <= b[j] /\ b[i + 1] \in Int /\ b[j] \in Int
        /\ f[i] <= f[j]
    <3>1. i + 1 \in 1..(n + 1) /\ j \in 1..(n + 1) /\ i + 1 <= j /\ i <= j
      BY <1>3
    <3> QED
      BY <3>1
  <2>4. PICK x \in Int, y \in Int : x = b[i + 1] /\ y = b[j] /\ x <= y
    BY <2>3
  <2>5. u.to <= x /\ y <= v.from
    BY <2>2, <2>4
  <2>6. u.line <= v.line
    BY <2>2, <2>3
  <2>7. NotAfter(u, v)
    BY <2>2, <2>4, <2>5, <2>6, BoundBetween
  <2> QED
    BY <2>1, <2>7
<1>4. \A i \in 1..Len(seqs) : InLine(seqs[i])
  BY DEF Cut
<1>5. /\ InLine(flat)
      /\ \A k \in 1..Len(flat) : \E i \in 1..Len(seqs) : \E j \in 1..Len(seqs[i]) : flat[k] = seqs[i][j]
      /\ \A i \in 1..Len(seqs) : \A t : HasToken(seqs[i], t) => HasToken(flat, t)
  BY <1>1, <1>3, <1>4, FlattenInLine
<1>6. ASSUME NEW k \in 1..Len(flat)
      PROVE  b[1] <= flat[k].from /\ flat[k].to <= b[n + 1] /\ lo <= flat[k].line /\ flat[k].line <= hi
  <2>1. PICK i \in 1..n : \E j \in 1..Len(seqs[i]) : flat[k] = seqs[i][j]
    BY <1>5
  <2>2. PICK j \in 1..Len(seqs[i]) : flat[k] = seqs[i][j]
    BY <2>1
  <2>3. PICK u : u = flat[k]
    OBVIOUS
  <2>4. IsUnit(u) /\ b[i] <= u.from /\ u.to <= b[i + 1] /\ u.line = f[i]
    BY <1>2, <2>2, <2>3
  <2>5. b[1] <= b[i] /\ b[i + 1] <= b[n + 1] /\ {b[1], b[i], b[i + 1], b[n + 1]} \subseteq Int
    <3>1. {1, i, i + 1, n + 1} \subseteq 1..(n + 1) /\ 1 <= i /\ i + 1 <= n + 1
      OBVIOUS
    <3> QED
      BY <3>1
  <2>6. u.from \in Int /\ u.to \in Int
    BY <2>4 DEF IsUnit
  <2>7. b[1] <= u.from /\ u.to <= b[n + 1]
    <3>1. PICK p \in Int, q \in Int, x \in Int, y \in Int :
            p = b[1] /\ q = b[i] /\ x = b[i + 1] /\ y = b[n + 1]
      BY <2>5
    <3>2. p <= q /\ x <= y /\ q <= u.from /\ u.to <= x
      <4>1. p <= q /\ x <= y
        BY <2>5, <3>1
      <4>2. q <= u.from /\ u.to <= x
        BY <2>4, <3>1
      <4> QED
        BY <4>1, <4>2
    <3>3. p <= u.from /\ u.to <= y
      <4>1. PICK v \in Int, w \in Int : v = u.from /\ w = u.to
        BY <2>6
      <4>2. q <= v /\ w <= x
        BY <3>2, <4>1
      <4>3. p <= v /\ w <= y
        BY <3>2, <4>2, NoGreater
      <4> QED
        BY <4>1, <4>3
    <3> QED
      BY <3>1, <3>3
  <2>8. lo <= u.line /\ u.line <= hi
    BY <2>4
  <2> QED
    BY <2>3, <2>7, <2>8
<1>7. ASSUME NEW t \in Int, b[1] <= t, t < b[n + 1] PROVE HasToken(flat, t)
  <2>1. PICK i \in 1..n : b[i] <= t /\ t < b[i + 1]
    BY <1>7, StepBelow
  <2>2. HasToken(seqs[i], t)
    BY <2>1 DEF Cut
  <2> QED
    BY <1>5, <2>2
<1> QED
  BY <1>1, <1>5, <1>6, <1>7 DEF Cut

\* As many pieces of a stride as it takes.
LEMMA Strides ==
  ASSUME NEW a \in Nat, NEW s \in Nat \ {0}
  PROVE  /\ (a + s - 1) \div s \in Nat
         /\ \A k \in 1..((a + s - 1) \div s) : (k - 1) * s \in Nat /\ (k - 1) * s < a
         /\ \A x \in Nat : x < a =>
              \E k \in 1..((a + s - 1) \div s) : (k - 1) * s <= x /\ x < (k - 1) * s + s
         /\ \A j, k \in 1..((a + s - 1) \div s) : j <= k => (j - 1) * s <= (k - 1) * s
PROOF
<1>1. \A y \in Nat : y \div s \in Nat /\ s * (y \div s) <= y /\ y < s * (y \div s) + s
  OBVIOUS
<1>2. PICK n \in Nat : n = (a + s - 1) \div s /\ s * n <= a + s - 1 /\ a + s - 1 < s * n + s
  BY <1>1
<1>3. \A j, k \in Nat : j <= k => j * s <= k * s /\ j * s \in Nat /\ k * s \in Nat
  OBVIOUS
<1>4. \A j, k \in Nat : j * s < k * s => j < k
  OBVIOUS
<1>5. \A k \in Nat : (k - 1) * s = k * s - s /\ (k + 1) * s = k * s + s /\ k * s = s * k
  OBVIOUS
<1>6. ASSUME NEW k \in 1..n PROVE (k - 1) * s \in Nat /\ (k - 1) * s < a
  <2>1. k \in Nat /\ k - 1 \in Nat /\ k <= n
    OBVIOUS
  <2>2. k * s <= n * s /\ n * s \in Nat /\ k * s \in Nat /\ (k - 1) * s \in Nat
    BY <1>3, <2>1
  <2>3. (k - 1) * s = k * s - s /\ n * s = s * n
    BY <1>5, <2>1
  <2> QED
    BY <1>2, <2>2, <2>3
<1>7. ASSUME NEW x \in Nat, x < a PROVE \E k \in 1..n : (k - 1) * s <= x /\ x < (k - 1) * s + s
  <2>1. PICK q \in Nat : s * q <= x /\ x < s * q + s
    BY <1>1
  <2>2. q * s = s * q /\ q * s \in Nat /\ n * s \in Nat /\ n * s = s * n
    BY <1>3, <1>5
  <2>3. q * s < n * s
    BY <1>2, <1>7, <2>1, <2>2
  <2>4. q < n
    BY <1>4, <2>3
  <2>5. q + 1 \in 1..n /\ (q + 1) - 1 = q
    BY <2>4
  <2> QED
    BY <2>1, <2>2, <2>5
<1>8. \A j, k \in 1..n : j <= k => (j - 1) * s <= (k - 1) * s
  <2> SUFFICES ASSUME NEW j \in 1..n, NEW k \in 1..n, j <= k PROVE (j - 1) * s <= (k - 1) * s
    OBVIOUS
  <2>1. j - 1 \in Nat /\ k - 1 \in Nat /\ j - 1 <= k - 1
    OBVIOUS
  <2> QED
    BY <1>3, <2>1
<1> QED
  BY <1>2, <1>6, <1>7, <1>8

\* The pieces of one unit that is too long.
LEMMA HardSplitCuts ==
  ASSUME NEW u, IsUnit(u), u.to = u.from + u.cost, NEW max \in Nat \ {0}
  PROVE  Cut(HardSplit(u, max), u.from, u.to, u.line, u.line)
PROOF
<1>1. CASE u.cost <= max
  <2>1. PICK f : f = <<u>>
    OBVIOUS
  <2>2. HardSplit(u, max) = f /\ IsSequence(f) /\ Len(f) = 1 /\ f[1] = u
    BY <1>1, <2>1 DEF HardSplit, IsSequence
  <2>3. u.from <= u.from /\ u.to <= u.to /\ u.line <= u.line
    BY DEF IsUnit
  <2> QED
    BY <2>2, <2>3 DEF Cut, InLine, HasToken
<1>2. CASE ~(u.cost <= max)
  <2>1. PICK s \in Nat \ {0} : s = Larger(1, max - Overlap) /\ s <= max
    BY SizesAssumption DEF Larger
  <2>2. PICK a \in Nat, from \in Int, to \in Int, line \in Int :
          a = u.cost /\ from = u.from /\ to = u.to /\ line = u.line /\ to = from + a /\ max < a
    BY <1>2 DEF IsUnit
  <2>3. PICK n \in Nat : n = (a + s - 1) \div s
    BY Strides
  <2> DEFINE start(k) == (k - 1) * s
             piece(k) == Piece(from + start(k), Smaller(max, a - start(k)), line)
  <2>4. PICK f : f = HardSplit(u, max)
    OBVIOUS
  <2>5. f = [k \in 1..n |-> piece(k)]
    BY <1>2, <2>1, <2>2, <2>3, <2>4 DEF HardSplit
  <2> HIDE DEF piece, start
  <2>6. /\ \A k \in 1..n : start(k) \in Nat /\ start(k) < a
        /\ \A x \in Nat : x < a => \E k \in 1..n : start(k) <= x /\ x < start(k) + s
        /\ \A j, k \in 1..n : j <= k => start(j) <= start(k)
    BY <2>3, Strides DEF start
  <2>7. f = [k \in 1..n |-> f[k]] /\ \A k \in 1..n : f[k] = piece(k)
    BY <2>5
  <2>8. IsSequence(f) /\ Len(f) = n
    <3>1. n \in Int /\ ~(n < 0)
      OBVIOUS
    <3> QED
      BY <2>7, <3>1, ListOf
  <2>9. ASSUME NEW k \in 1..n
        PROVE  /\ f[k].from = from + start(k)
               /\ f[k].to = from + start(k) + Smaller(max, a - start(k))
               /\ f[k].line = line
               /\ f[k].cost = Decoded(from + start(k), Smaller(max, a - start(k)))
    BY <2>7 DEF piece, Piece, Unit
  <2>10. ASSUME NEW x \in Nat, x < a PROVE Smaller(max, a - x) \in Nat \ {0} /\ x + Smaller(max, a - x) <= a
    BY <2>10 DEF Smaller
  <2>11. ASSUME NEW k \in 1..n
         PROVE  IsUnit(f[k]) /\ from <= f[k].from /\ f[k].to <= to /\ line <= f[k].line /\ f[k].line <= line
    <3>1. PICK x \in Nat : x = start(k) /\ x < a
      BY <2>6
    <3>2. PICK c \in Nat \ {0} : c = Smaller(max, a - x) /\ x + c <= a
      BY <2>10, <3>1
    <3>3. /\ f[k].from = from + x /\ f[k].to = from + x + c /\ f[k].line = line
          /\ f[k].cost \in Nat \ {0}
      BY <2>9, <3>1, <3>2, RecountAssumption DEF Decoded
    <3>4. /\ from + x \in Int /\ from + x + c \in Int /\ from + x <= from + x + c
          /\ from <= from + x /\ from + x + c <= to
      BY <2>2, <3>2
    <3> QED
      BY <3>3, <3>4 DEF IsUnit
  <2>12. ASSUME NEW j \in 1..n, NEW k \in 1..n, j < k PROVE NotAfter(f[j], f[k])
    <3>1. PICK x \in Nat, y \in Nat : x = start(j) /\ y = start(k) /\ x <= y
      BY <2>6, <2>12
    <3>2. from + x <= from + y /\ from + x + Smaller(max, a - x) <= from + y + Smaller(max, a - y)
      BY <3>1 DEF Smaller
    <3>3. /\ f[j].from = from + x /\ f[j].to = from + x + Smaller(max, a - x) /\ f[j].line = line
          /\ f[k].from = from + y /\ f[k].to = from + y + Smaller(max, a - y) /\ f[k].line = line
      BY <2>9, <3>1
    <3> QED
      BY <3>2, <3>3 DEF NotAfter
  <2>13. ASSUME NEW t \in Int, from <= t, t < to PROVE HasToken(f, t)
    <3>1. t - from \in Nat /\ t - from < a
      BY <2>2, <2>13
    <3>2. PICK k \in 1..n : start(k) <= t - from /\ t - from < start(k) + s
      BY <2>6, <3>1
    <3>3. PICK x \in Nat : x = start(k) /\ x < a
      BY <2>6
    <3>4. from + x <= t /\ t < from + x + Smaller(max, a - x)
      BY <2>1, <3>1, <3>2, <3>3 DEF Smaller
    <3>5. f[k].from <= t /\ t < f[k].to
      BY <2>9, <3>3, <3>4
    <3> QED
      BY <2>8, <3>5 DEF HasToken
  <2>14. InLine(f)
    BY <2>8, <2>11, <2>12 DEF InLine
  <2>15. Cut(f, from, to, line, line)
    BY <2>8, <2>11, <2>13, <2>14 DEF Cut
  <2> QED
    BY <2>2, <2>4, <2>15
<1> QED
  BY <1>1, <1>2

-----------------------------------------------------------------------------
(* Paragraphs.                                                             *)

ParagraphTotals(text) == [q \in 1..Len(text) |-> Total(text[q])]

LEMMA TotalsAreNat ==
  ASSUME NEW text \in Seq(Seq(Nat))
  PROVE  \A q \in 1..Len(text) : ParagraphTotals(text)[q] \in Nat /\ ParagraphTotals(text)[q] = Total(text[q])
PROOF
<1>1. \A q \in 1..Len(text) : text[q] \in Seq(Nat)
  BY ElementOfSeq
<1> QED
  BY <1>1, TotalIsNat DEF ParagraphTotals

\* A paragraph starts where the one before it ends.
LEMMA Starts ==
  ASSUME NEW text \in Seq(Seq(Nat))
  PROVE  /\ \A p \in 1..(Len(text) + 1) : Start(text, p) \in Nat
         /\ \A p \in 1..Len(text) : Start(text, p + 1) = Start(text, p) + Total(text[p])
         /\ \A p, q \in 1..(Len(text) + 1) : p <= q => Start(text, p) <= Start(text, q)
PROOF
<1>1. PICK n \in Nat : n = Len(text)
  OBVIOUS
<1>2. PICK s : s = ParagraphTotals(text)
  OBVIOUS
<1>3. \A q \in 1..n : s[q] \in Nat /\ s[q] = Total(text[q])
  BY <1>1, <1>2, TotalsAreNat
<1>4. ASSUME NEW p \in 1..(n + 1) PROVE Start(text, p) = FirstTotal(s, p - 1)
  <2>1. \A q \in 1..(p - 1) : q \in 1..n
    OBVIOUS
  <2>2. [q \in 1..(p - 1) |-> Total(text[q])] = [q \in 1..(p - 1) |-> s[q]]
    BY <1>3, <2>1
  <2> QED
    BY <2>2 DEF Start, FirstTotal
<1>5. \A k \in 0..n : FirstTotal(s, k) \in Nat
  BY <1>3, FirstTotalNat
<1>6. ASSUME NEW p \in 1..(n + 1) PROVE Start(text, p) \in Nat
  <2>1. p - 1 \in 0..n
    OBVIOUS
  <2> QED
    BY <1>4, <1>5, <2>1
<1>7. ASSUME NEW p \in 1..n PROVE Start(text, p + 1) = Start(text, p) + Total(text[p])
  <2>1. p - 1 \in Nat /\ (p - 1) + 1 = p /\ p + 1 \in 1..(n + 1) /\ (p + 1) - 1 = p /\ p \in 1..(n + 1)
    OBVIOUS
  <2>2. FirstTotal(s, (p - 1) + 1) = FirstTotal(s, p - 1) + s[(p - 1) + 1]
    BY <2>1, FirstTotalNext
  <2>3. Start(text, p + 1) = FirstTotal(s, p) /\ Start(text, p) = FirstTotal(s, p - 1)
    BY <1>4, <2>1
  <2> QED
    BY <1>3, <2>1, <2>2, <2>3
<1>8. ASSUME NEW p \in 1..(n + 1), NEW q \in 1..(n + 1), p <= q PROVE Start(text, p) <= Start(text, q)
  <2>1. p - 1 \in 0..n /\ q - 1 \in (p - 1)..n
    BY <1>8
  <2>2. FirstTotal(s, p - 1) <= FirstTotal(s, q - 1)
    BY <1>3, <2>1, FirstTotalGrows
  <2> QED
    BY <1>4, <2>2
<1> QED
  BY <1>1, <1>6, <1>7, <1>8

LEMMA ParagraphCuts ==
  ASSUME NEW text \in Seq(Seq(Nat)), NEW p \in 1..Len(text), NEW max \in Nat \ {0}
  PROVE  Cut(ParagraphUnits(text, p, max), Start(text, p), Start(text, p + 1), p, p)
PROOF
<1>1. PICK par \in Seq(Nat) : par = text[p]
  BY ElementOfSeq
<1>2. PICK a \in Nat, from \in Nat : a = Total(par) /\ from = Start(text, p) /\ Start(text, p + 1) = from + a
  <2>1. Total(par) \in Nat /\ p \in 1..(Len(text) + 1)
    BY TotalIsNat
  <2> QED
    BY <1>1, <2>1, Starts
<1>3. CASE a <= max
  <2>1. PICK u : u = Unit(from, a, p)
    OBVIOUS
  <2>2. u.from = from /\ u.to = from + a /\ u.line = p /\ u.cost = a
    BY <2>1 DEF Unit
  <2>3. IsUnit(u)
    BY <2>2 DEF IsUnit
  <2>4. PICK f : f = <<u>>
    OBVIOUS
  <2>5. ParagraphUnits(text, p, max) = f
    BY <1>1, <1>2, <1>3, <2>1, <2>4 DEF ParagraphUnits
  <2>6. IsSequence(f) /\ Len(f) = 1 /\ f[1] = u
    BY <2>4 DEF IsSequence
  <2>7. Cut(f, from, from + a, p, p)
    BY <2>2, <2>3, <2>6 DEF Cut, InLine, HasToken
  <2> QED
    BY <1>2, <2>5, <2>7
<1>4. CASE ~(a <= max)
  <2>1. PICK n \in Nat : n = Len(par) /\ DOMAIN par = 1..n
    OBVIOUS
  <2> DEFINE b == [l \in 1..(n + 1) |-> from + FirstTotal(par, l - 1)]
             line(l) == Unit(from + Total(SubSeq(par, 1, l - 1)), par[l], p)
             split == [l \in 1..n |-> HardSplit(line(l), max)]
             g == [l \in 1..n |-> p]
  <2>2. ParagraphUnits(text, p, max) = FlattenSeq(split)
    BY <1>1, <1>2, <1>4, <2>1 DEF ParagraphUnits
  <2>3. \A k \in 0..n : FirstTotal(par, k) \in Nat
    <3>1. \A i \in 1..n : par[i] \in Nat
      BY <2>1
    <3> QED
      BY <3>1, FirstTotalNat
  <2>4. \A l \in 1..(n + 1) : b[l] \in Int
    <3> SUFFICES ASSUME NEW l \in 1..(n + 1) PROVE from + FirstTotal(par, l - 1) \in Int
      OBVIOUS
    <3>1. l - 1 \in 0..n
      OBVIOUS
    <3> QED
      BY <2>3, <3>1
  <2>5. ASSUME NEW i \in 1..(n + 1), NEW j \in 1..(n + 1), i <= j PROVE b[i] <= b[j]
    <3>1. i - 1 \in 0..n /\ j - 1 \in (i - 1)..n /\ j - 1 \in 0..n
      BY <2>5
    <3>2. \A k \in 1..n : par[k] \in Nat
      BY <2>1
    <3>3. FirstTotal(par, i - 1) <= FirstTotal(par, j - 1)
      BY <3>1, <3>2, FirstTotalGrows
    <3> QED
      BY <2>3, <3>1, <3>3
  <2>6. ASSUME NEW l \in 1..n PROVE Cut(split[l], b[l], b[l + 1], p, p)
    <3>1. PICK c \in Nat : c = par[l]
      BY <2>1
    <3>2. l - 1 \in 0..Len(par) /\ l - 1 \in 0..n /\ l - 1 \in Nat /\ (l - 1) + 1 = l
          /\ l \in 1..(n + 1) /\ l + 1 \in 1..(n + 1) /\ (l + 1) - 1 = l
      BY <2>1
    <3>3. PICK before \in Nat : before = FirstTotal(par, l - 1) /\ before = Total(SubSeq(par, 1, l - 1))
      BY <2>3, <3>2, TotalOfFirst
    <3>4. FirstTotal(par, (l - 1) + 1) = FirstTotal(par, l - 1) + par[(l - 1) + 1]
      BY <3>2, FirstTotalNext
    <3>5. FirstTotal(par, l) = before + c
      BY <3>1, <3>2, <3>3, <3>4
    <3>6. b[l] = from + before /\ b[l + 1] = from + (before + c)
      BY <3>2, <3>3, <3>5
    <3>7. PICK u : u = line(l)
      OBVIOUS
    <3>8. u.from = from + before /\ u.to = from + before + c /\ u.line = p /\ u.cost = c
      BY <3>1, <3>3, <3>7 DEF Unit
    <3>9. IsUnit(u) /\ u.to = u.from + u.cost
      BY <3>8 DEF IsUnit
    <3>10. Cut(HardSplit(u, max), u.from, u.to, u.line, u.line)
      BY <3>9, HardSplitCuts
    <3>11. split[l] = HardSplit(u, max)
      BY <3>7
    <3>12. u.to = from + (before + c)
      BY <3>8
    <3> HIDE DEF split, b, line
    <3> QED
      BY <3>6, <3>8, <3>10, <3>11, <3>12
  <2>7. (\A l \in 1..n : g[l] \in Int /\ p <= g[l] /\ g[l] <= p) /\ \A i, j \in 1..n : i <= j => g[i] <= g[j]
    OBVIOUS
  <2>8. \A l \in 1..n : g[l] = p
    OBVIOUS
  <2>9. split = [l \in 1..n |-> split[l]]
    OBVIOUS
  <2>10. b[1] = from /\ b[n + 1] = from + a
    <3>1. 1 \in 1..(n + 1) /\ n + 1 \in 1..(n + 1) /\ 1 - 1 = 0 /\ (n + 1) - 1 = n
      OBVIOUS
    <3>2. FirstTotal(par, 0) = 0
      BY FirstTotalZero
    <3>3. FirstTotal(par, n) = a
      BY <1>2, <2>1, TotalOfFirst
    <3>4. b[1] = from + 0 /\ b[n + 1] = from + a
      BY <3>1, <3>2, <3>3
    <3> QED
      BY <3>4
  <2> HIDE DEF split, b, g
  <2>11. IsSequence(split) /\ Len(split) = n
    <3>1. n \in Int /\ ~(n < 0)
      OBVIOUS
    <3> QED
      BY <2>9, <3>1, ListOf
  <2>12. \A l \in 1..n : Cut(split[l], b[l], b[l + 1], g[l], g[l])
    BY <2>6, <2>8
  <2>13. p \in Int
    OBVIOUS
  <2>14. Cut(FlattenSeq(split), b[1], b[n + 1], p, p)
    BY <2>4, <2>5, <2>7, <2>11, <2>12, <2>13, FlattenCut
  <2> QED
    BY <1>2, <2>2, <2>10, <2>14
<1> QED
  BY <1>3, <1>4

\* The units of a range of paragraphs have its tokens, in order.
LEMMA UnitsOfCuts ==
  ASSUME NEW text \in Seq(Seq(Nat)), NEW first \in Nat \ {0}, NEW last \in 0..Len(text),
         first <= last + 1, NEW max \in Nat \ {0}
  PROVE  Cut(UnitsOf(text, first, last, max), Start(text, first), Start(text, last + 1), first, last)
PROOF
<1>1. PICK n \in Nat : n = last - first + 1
  OBVIOUS
<1> DEFINE b == [i \in 1..(n + 1) |-> Start(text, first + i - 1)]
           g == [i \in 1..n |-> first + i - 1]
           split == [i \in 1..n |-> ParagraphUnits(text, first + i - 1, max)]
<1>2. UnitsOf(text, first, last, max) = FlattenSeq(split)
  BY <1>1 DEF UnitsOf
<1>3. \A i \in 1..(n + 1) : first + i - 1 \in 1..(Len(text) + 1)
  BY <1>1
<1>4. \A i \in 1..(n + 1) : b[i] \in Int
  <2> SUFFICES ASSUME NEW i \in 1..(n + 1) PROVE Start(text, first + i - 1) \in Int
    OBVIOUS
  <2>1. \A p \in 1..(Len(text) + 1) : Start(text, p) \in Int
    BY Starts
  <2> QED
    BY <1>3, <2>1
<1>5. \A i, j \in 1..(n + 1) : i <= j => b[i] <= b[j]
  <2> SUFFICES ASSUME NEW i \in 1..(n + 1), NEW j \in 1..(n + 1), i <= j PROVE b[i] <= b[j]
    OBVIOUS
  <2>1. first + i - 1 <= first + j - 1
    OBVIOUS
  <2>2. PICK p \in 1..(Len(text) + 1), q \in 1..(Len(text) + 1) :
          p = first + i - 1 /\ q = first + j - 1 /\ p <= q
    <3> HIDE DEF b, g, split
    <3> QED
      BY <1>3, <2>1
  <2>3. Start(text, p) <= Start(text, q)
    BY <2>2, Starts
  <2> QED
    BY <2>2, <2>3
<1>6. /\ \A i \in 1..n : g[i] \in Int /\ first <= g[i] /\ g[i] <= last
      /\ \A i, j \in 1..n : i <= j => g[i] <= g[j]
  BY <1>1
<1>7. ASSUME NEW i \in 1..n PROVE Cut(split[i], b[i], b[i + 1], g[i], g[i])
  <2>1. PICK p \in 1..Len(text) : p = first + i - 1 /\ p + 1 = first + (i + 1) - 1
    BY <1>1
  <2>2. i \in 1..(n + 1) /\ i + 1 \in 1..(n + 1)
    OBVIOUS
  <2>3. split[i] = ParagraphUnits(text, p, max) /\ g[i] = p
    BY <2>1
  <2>4. b[i] = Start(text, p) /\ b[i + 1] = Start(text, p + 1)
    BY <2>1, <2>2
  <2> QED
    BY <2>3, <2>4, ParagraphCuts
<1>8. split = [i \in 1..n |-> split[i]]
  OBVIOUS
<1>9. b[1] = Start(text, first) /\ b[n + 1] = Start(text, last + 1)
  <2>1. 1 \in 1..(n + 1) /\ n + 1 \in 1..(n + 1) /\ first + 1 - 1 = first /\ first + (n + 1) - 1 = last + 1
    BY <1>1
  <2> QED
    BY <2>1
<1> HIDE DEF split, b, g
<1>10. IsSequence(split) /\ Len(split) = n
  <2>1. n \in Int /\ ~(n < 0)
    OBVIOUS
  <2> QED
    BY <1>8, <2>1, ListOf
<1>11. Cut(FlattenSeq(split), b[1], b[n + 1], first, last)
  <2>1. first \in Int /\ last \in Int
    OBVIOUS
  <2> QED
    BY <1>4, <1>5, <1>6, <1>7, <1>10, <2>1, FlattenCut
<1> QED
  BY <1>2, <1>9, <1>11

-----------------------------------------------------------------------------
(* Which units are in which part.                                          *)

Grows(part) == \A a, b \in 1..Len(part) : a < b => part[a] < part[b]

\* Parts that begin, and end, no earlier than the one before.
Slid(parts) ==
  /\ \A r \in 1..Len(parts) : Len(parts[r]) # 0 /\ Grows(parts[r])
  /\ \A r, s \in 1..Len(parts) : r < s =>
       parts[r][1] <= parts[s][1] /\ Last(parts[r]) <= Last(parts[s])

\* After n units the buffer ends with the n-th.
PackShape(p, n) ==
  /\ p = [parts |-> p.parts, buffer |-> p.buffer, tokens |-> p.tokens]
  /\ IsSequence(p.parts) /\ \A r \in 1..Len(p.parts) : p.parts[r] \in Seq(1..n)
  /\ p.buffer \in Seq(1..n)
  /\ p.buffer = <<>> => p.parts = <<>>
  /\ p.buffer # <<>> => Slid(Append(p.parts, p.buffer)) /\ Last(p.buffer) = n

PackedIn(p, k) == \E r \in 1..Len(Parts(p)) : \E m \in 1..Len(Parts(p)[r]) : Parts(p)[r][m] = k

EndOf(part, m) == SubSeq(part, m, Len(part))
EndAnd(part, m, i) == Append(EndOf(part, m), i)

\* What is carried on is an end of the part.
LEMMA CarriedIsEnd ==
  ASSUME NEW units, NEW V, NEW part \in Seq(V), NEW tokens, NEW max
  PROVE  \E m \in 1..(Len(part) + 1) :
           Carried(units, part, tokens, max) = EndOf(part, m)
PROOF
<1> DEFINE fit == {n \in 0..Len(part) :
                     Costs(Picked(units, SubSeq(part, Len(part) - n + 1, Len(part)))) <= Overlap}
<1>1. Len(part) \in Nat
  OBVIOUS
<1>2. SubSeq(part, Len(part) + 1, Len(part)) = <<>>
  BY <1>1
<1>3. 0 \in fit
  <2>1. Len(part) - 0 + 1 = Len(part) + 1
    BY <1>1
  <2>2. 0 <= Overlap
    BY SizesAssumption
  <2>3. Costs(Picked(units, SubSeq(part, Len(part) - 0 + 1, Len(part)))) = 0
    BY <1>2, <2>1, NothingPicked
  <2>4. 0 \in 0..Len(part)
    BY <1>1
  <2> QED
    BY <2>2, <2>3, <2>4
<1>4. fit \in SUBSET Nat /\ \A n \in fit : n <= Len(part)
  BY <1>1
<1>5. PICK n \in 0..Len(part) : n = Max(fit)
  <2> HIDE DEF fit
  <2>1. Max(fit) \in fit /\ \A n \in fit : n <= Max(fit)
    BY <1>1, <1>3, <1>4, MaxIsGreatest
  <2> QED
    BY <2>1 DEF fit
<1>6. OverlapTail(units, part) = SubSeq(part, Len(part) - n + 1, Len(part))
  BY <1>5 DEF OverlapTail
<1>7. Carried(units, part, tokens, max) \in {<<>>, OverlapTail(units, part)}
  BY DEF Carried
<1>8. Len(part) - n + 1 \in 1..(Len(part) + 1) /\ Len(part) + 1 \in 1..(Len(part) + 1)
  BY <1>1
<1> QED
  BY <1>2, <1>6, <1>7, <1>8 DEF EndOf

\* A part that begins and ends no earlier than the last one, behind it or in its
\* place.
LEMMA EndsOf ==
  ASSUME NEW s \in Seq(Int), Len(s) # 0
  PROVE  s[1] \in Int /\ Last(s) \in Int
PROOF
  BY DEF Last

LEMMA NoLater ==
  ASSUME NEW a \in Seq(Int), NEW b \in Seq(Int), NEW c \in Seq(Int),
         Len(a) # 0, Len(b) # 0, Len(c) # 0,
         a[1] <= b[1], Last(a) <= Last(b), b[1] <= c[1], Last(b) <= Last(c)
  PROVE  a[1] <= c[1] /\ Last(a) <= Last(c)
PROOF
<1>1. PICK a1 \in Int, al \in Int, b1 \in Int, bl \in Int, c1 \in Int, cl \in Int :
        a1 = a[1] /\ al = Last(a) /\ b1 = b[1] /\ bl = Last(b) /\ c1 = c[1] /\ cl = Last(c)
  BY EndsOf
<1>2. a1 <= b1 /\ al <= bl /\ b1 <= c1 /\ bl <= cl
  BY <1>1
<1>3. a1 <= c1 /\ al <= cl
  BY <1>2
<1> QED
  BY <1>1, <1>3

LEMMA SlidFurther ==
  ASSUME NEW ps, IsSequence(ps), \A r \in 1..Len(ps) : ps[r] \in Seq(Int),
         NEW b \in Seq(Int), Slid(Append(ps, b)),
         NEW c \in Seq(Int), Len(c) # 0, Grows(c), b[1] <= c[1], Last(b) <= Last(c)
  PROVE  Slid(Append(Append(ps, b), c)) /\ Slid(Append(ps, c))
PROOF
<1>1. PICK n \in Nat : n = Len(ps)
  BY DEF IsSequence
<1>2. PICK old : old = Append(ps, b)
  OBVIOUS
<1>3. /\ IsSequence(old) /\ Len(old) = n + 1 /\ old[n + 1] = b
      /\ \A r \in 1..n : old[r] = ps[r]
  BY <1>1, <1>2, Extended
<1>4. PICK long : long = Append(old, c)
  OBVIOUS
<1>5. PICK short : short = Append(ps, c)
  OBVIOUS
<1>6. /\ Len(long) = n + 2 /\ long[n + 2] = c
      /\ \A r \in 1..(n + 1) : long[r] = old[r]
  <2>1. (n + 1) + 1 = n + 2
    OBVIOUS
  <2>2. /\ Len(long) = Len(old) + 1 /\ long[Len(old) + 1] = c
        /\ \A r \in 1..Len(old) : long[r] = old[r]
    BY <1>3, <1>4, Extended
  <2> QED
    BY <1>3, <2>1, <2>2
<1>7. /\ Len(short) = n + 1 /\ short[n + 1] = c
      /\ \A r \in 1..n : short[r] = ps[r]
  BY <1>1, <1>5, Extended
<1>8. /\ \A r \in 1..(n + 1) : Len(old[r]) # 0 /\ Grows(old[r])
      /\ \A r, s \in 1..(n + 1) : r < s => old[r][1] <= old[s][1] /\ Last(old[r]) <= Last(old[s])
  BY <1>2, <1>3 DEF Slid
<1>9. ASSUME NEW r \in 1..(n + 1) PROVE old[r][1] <= c[1] /\ Last(old[r]) <= Last(c)
  <2>1. CASE r = n + 1
    BY <1>3, <2>1
  <2>2. CASE r # n + 1
    <3>1. n + 1 \in 1..(n + 1) /\ r < n + 1
      BY <2>2
    <3>2. old[r][1] <= b[1] /\ Last(old[r]) <= Last(b)
      BY <1>3, <1>8, <3>1
    <3>3. old[r] \in Seq(Int) /\ Len(old[r]) # 0 /\ Len(b) # 0
      <4>1. r \in 1..n
        BY <2>2
      <4> QED
        BY <1>1, <1>3, <1>8, <3>1, <4>1
    <3> QED
      BY <3>2, <3>3, NoLater
  <2> QED
    BY <2>1, <2>2
<1>10. Slid(long)
  <2>1. ASSUME NEW r \in 1..(n + 2) PROVE Len(long[r]) # 0 /\ Grows(long[r])
    <3>1. r = n + 2 \/ r \in 1..(n + 1)
      OBVIOUS
    <3> QED
      BY <1>6, <1>8, <3>1
  <2>2. ASSUME NEW r \in 1..(n + 2), NEW s \in 1..(n + 2), r < s
        PROVE  long[r][1] <= long[s][1] /\ Last(long[r]) <= Last(long[s])
    <3>1. r \in 1..(n + 1) /\ (s = n + 2 \/ s \in 1..(n + 1))
      BY <2>2
    <3> QED
      BY <1>6, <1>8, <1>9, <2>2, <3>1
  <2> QED
    BY <1>6, <2>1, <2>2 DEF Slid
<1>11. Slid(short)
  <2>1. ASSUME NEW r \in 1..(n + 1) PROVE Len(short[r]) # 0 /\ Grows(short[r])
    <3>1. r = n + 1 \/ r \in 1..n
      OBVIOUS
    <3> QED
      BY <1>3, <1>7, <1>8, <3>1
  <2>2. ASSUME NEW r \in 1..(n + 1), NEW s \in 1..(n + 1), r < s
        PROVE  short[r][1] <= short[s][1] /\ Last(short[r]) <= Last(short[s])
    <3>1. r \in 1..n /\ (s = n + 1 \/ s \in 1..n)
      BY <2>2
    <3> QED
      BY <1>3, <1>7, <1>8, <1>9, <2>2, <3>1
  <2> QED
    BY <1>7, <2>1, <2>2 DEF Slid
<1> QED
  BY <1>2, <1>4, <1>5, <1>10, <1>11

LEMMA NotEmpty == \A V : \A s \in Seq(V) : s # <<>> <=> Len(s) # 0
  OBVIOUS

LEMMA WiderSeq ==
  ASSUME NEW V, NEW W, V \subseteq W
  PROVE  Seq(V) \subseteq Seq(W)
PROOF
OBVIOUS

\* The buffer the next unit is put into: an end of what was there, and the unit.
LEMMA NextBuffer ==
  ASSUME NEW n \in Nat, NEW b \in Seq(1..n), Grows(b), NEW m \in 1..(Len(b) + 1),
         NEW next, next = n + 1, NEW c, c = EndAnd(b, m, next)
  PROVE  /\ c \in Seq(1..next) /\ Len(c) # 0 /\ Grows(c) /\ Last(c) = next
         /\ c[Len(c)] = next
         /\ Len(b) # 0 => b[1] <= c[1] /\ Last(b) <= Last(c)
         /\ \A k \in m..Len(b) : \E l \in 1..Len(c) : c[l] = b[k]
PROOF
<1>1. PICK L \in Nat : L = Len(b)
  OBVIOUS
<1>2. PICK kept : kept = SubSeq(b, m, L) /\ m \in 1..(L + 1)
  BY <1>1
<1>3. /\ kept \in Seq(1..n) /\ Len(kept) = L - m + 1
      /\ \A k \in 1..(L - m + 1) : kept[k] = b[m + k - 1]
  <2>1. \A k \in m..L : b[k] \in 1..n
    BY <1>1
  <2>2. m \in Int /\ L \in Int
    OBVIOUS
  <2>3. kept \in Seq(1..n)
    BY <1>2, <2>1, <2>2, SubSeqProperties
  <2>4. Len(kept) = L - m + 1
    BY <1>1, <1>2
  <2>5. \A k \in 1..(L - m + 1) : kept[k] = b[m + k - 1]
    BY <1>1, <1>2
  <2> QED
    BY <2>3, <2>4, <2>5
<1>4. PICK K \in Nat : K = L - m + 1
  BY <1>2
<1>5. kept \in Seq(1..(n + 1)) /\ n + 1 \in 1..(n + 1)
  <2>1. 1..n \subseteq 1..(n + 1)
    OBVIOUS
  <2> QED
    BY <1>3, <2>1, WiderSeq
<1>6. c = Append(kept, n + 1)
  BY <1>1, <1>2 DEF EndOf, EndAnd
<1>7. /\ c \in Seq(1..(n + 1)) /\ Len(c) = K + 1 /\ c[K + 1] = n + 1
      /\ \A k \in 1..K : c[k] = kept[k]
  <2>1. Len(kept) = K
    BY <1>3, <1>4
  <2>2. /\ Append(kept, n + 1) \in Seq(1..(n + 1)) /\ Len(Append(kept, n + 1)) = Len(kept) + 1
        /\ Append(kept, n + 1)[Len(kept) + 1] = n + 1
        /\ \A k \in 1..Len(kept) : Append(kept, n + 1)[k] = kept[k]
    BY <1>5
  <2> QED
    BY <1>6, <2>1, <2>2
<1>8. ASSUME NEW k \in 1..K PROVE c[k] = b[m + k - 1] /\ m + k - 1 \in 1..L
  <2>1. m + k - 1 \in 1..L /\ k \in 1..(L - m + 1)
    BY <1>2, <1>4
  <2> QED
    BY <1>3, <1>7, <2>1
<1>9. \A k \in 1..L : b[k] \in 1..n
  BY <1>1
<1>10. Grows(c)
  <2> SUFFICES ASSUME NEW i \in 1..(K + 1), NEW j \in 1..(K + 1), i < j PROVE c[i] < c[j]
    BY <1>7 DEF Grows
  <2>1. i \in 1..K
    OBVIOUS
  <2>2. CASE j = K + 1
    <3>1. c[i] \in 1..n
      BY <1>8, <1>9, <2>1
    <3> QED
      BY <1>7, <2>2, <3>1
  <2>3. CASE j # K + 1
    <3>1. j \in 1..K
      BY <2>3
    <3>2. m + i - 1 < m + j - 1
      OBVIOUS
    <3> QED
      BY <1>1, <1>8, <2>1, <3>1, <3>2 DEF Grows
  <2> QED
    BY <2>2, <2>3
<1>11. ASSUME L # 0 PROVE b[1] <= c[1] /\ Last(b) <= n + 1
  <2>1. b[1] \in 1..n /\ b[L] \in 1..n /\ Last(b) = b[L]
    BY <1>1, <1>9, <1>11 DEF Last
  <2>2. CASE K = 0
    BY <1>7, <2>1, <2>2
  <2>3. CASE K # 0
    <3>1. 1 \in 1..K /\ m + 1 - 1 = m /\ c[1] = b[m] /\ m \in 1..L
      BY <1>8, <2>3
    <3>2. m = 1 \/ 1 < m
      OBVIOUS
    <3>3. b[1] <= b[m]
      BY <1>1, <1>9, <1>11, <3>1, <3>2, SMTT(15) DEF Grows
    <3> QED
      BY <2>1, <3>1, <3>3
  <2> QED
    BY <2>2, <2>3
<1>12. ASSUME NEW k \in m..L PROVE \E l \in 1..(K + 1) : c[l] = b[k]
  <2>1. k - m + 1 \in 1..K /\ m + (k - m + 1) - 1 = k
    BY <1>4
  <2>2. PICK l : l = k - m + 1
    OBVIOUS
  <2>3. l \in 1..K /\ m + l - 1 = k
    BY <2>1, <2>2
  <2>4. l \in 1..(K + 1)
    BY <2>3
  <2>5. c[l] = b[k]
    BY <1>8, <2>3
  <2> QED
    BY <2>4, <2>5
<1>13. Last(c) = n + 1 /\ Len(c) # 0
  BY <1>7 DEF Last
<1> QED
  BY <1>1, <1>7, <1>10, <1>11, <1>12, <1>13

LEMMA ButBuffer ==
  ASSUME NEW x, NEW y, NEW z, NEW p, p = [parts |-> x, buffer |-> y, tokens |-> z], NEW b, NEW t,
         NEW q, q = [p EXCEPT !.buffer = b, !.tokens = t]
  PROVE  q = [parts |-> x, buffer |-> b, tokens |-> t]
PROOF
<1>1. q \in [parts : {x}, buffer : {b}, tokens : {t}]
  OBVIOUS
<1>2. \A r \in [parts : {x}, buffer : {b}, tokens : {t}] : r = [parts |-> x, buffer |-> b, tokens |-> t]
  OBVIOUS
<1> QED
  BY <1>1, <1>2

\* The buffer has become a part, or stays whole.
BufferMoved(p, q, m) ==
  \/ p.buffer # <<>> /\ q.parts = Append(p.parts, p.buffer)
  \/ q.parts = p.parts /\ m = 1

\* A unit goes into the buffer, or behind what is carried on of it.
LEMMA UnitPacked ==
  ASSUME NEW n \in Nat, NEW p, PackShape(p, n), NEW units, NEW max,
         NEW i, i = n + 1, NEW q, q = PackUnit(p, units, i, max), NEW b, b = p.buffer
  PROVE  /\ q = [parts |-> q.parts, buffer |-> q.buffer, tokens |-> q.tokens]
         /\ \E m \in 1..(Len(b) + 1) :
              q.buffer = EndAnd(b, m, i) /\ BufferMoved(p, q, m)
PROOF
<1> DEFINE tokens == units[i].cost
           kept == Carried(units, b, tokens, max)
           full == b # <<>> /\ p.tokens + tokens + 1 > max
<1>1. b \in Seq(1..n)
  BY DEF PackShape
<1>2. CASE full
  <2>1. PICK m \in 1..(Len(b) + 1) : kept = EndOf(b, m)
    BY <1>1, CarriedIsEnd
  <2>2. q = [parts |-> Append(p.parts, b), buffer |-> Append(kept, i),
             tokens |-> Costs(Picked(units, kept)) + tokens + 1]
    BY <1>2 DEF PackUnit
  <2> HIDE DEF kept, tokens
  <2>3. /\ q = [parts |-> q.parts, buffer |-> q.buffer, tokens |-> q.tokens]
        /\ q.buffer = Append(kept, i) /\ q.parts = Append(p.parts, b)
    BY <2>2
  <2>4. BufferMoved(p, q, m) /\ q.buffer = EndAnd(b, m, i)
    BY <1>2, <2>1, <2>3 DEF BufferMoved, EndAnd
  <2> QED
    BY <2>3, <2>4
<1>3. CASE ~full
  <2>1. q = [p EXCEPT !.buffer = Append(b, i), !.tokens = p.tokens + tokens + 1]
    BY <1>3 DEF PackUnit
  <2>2. p = [parts |-> p.parts, buffer |-> b, tokens |-> p.tokens]
    BY DEF PackShape
  <2> HIDE DEF tokens
  <2>3. q = [parts |-> p.parts, buffer |-> Append(b, i), tokens |-> p.tokens + tokens + 1]
    BY <2>1, <2>2, ButBuffer
  <2>4. /\ q = [parts |-> q.parts, buffer |-> q.buffer, tokens |-> q.tokens]
        /\ q.buffer = Append(b, i) /\ q.parts = p.parts
    BY <2>3
  <2>5. EndOf(b, 1) = b /\ 1 \in 1..(Len(b) + 1)
    BY <1>1 DEF EndOf
  <2>6. BufferMoved(p, q, 1) /\ q.buffer = EndAnd(b, 1, i)
    BY <2>4, <2>5 DEF BufferMoved, EndAnd
  <2> QED
    BY <2>4, <2>5, <2>6
<1> QED
  BY <1>2, <1>3

LEMMA PackShapeNext ==
  ASSUME NEW n \in Nat, NEW p, PackShape(p, n), NEW units, NEW max,
         NEW i, i = n + 1, NEW q, q = PackUnit(p, units, i, max)
  PROVE  /\ PackShape(q, i) /\ q.buffer # <<>>
         /\ \A k : PackedIn(p, k) \/ k = i => PackedIn(q, k)
PROOF
<1>1. PICK ps : ps = p.parts
  OBVIOUS
<1>2. PICK b \in Seq(1..n) : b = p.buffer /\ ps = p.parts
  BY <1>1 DEF PackShape
<1>3. /\ IsSequence(ps) /\ \A r \in 1..Len(ps) : ps[r] \in Seq(1..n)
      /\ b = <<>> => ps = <<>>
      /\ b # <<>> => Slid(Append(ps, b))
  BY <1>2 DEF PackShape
<1>4. PICK parts, c : parts = q.parts /\ c = q.buffer
  OBVIOUS
<1>5. /\ q = [parts |-> q.parts, buffer |-> q.buffer, tokens |-> q.tokens]
      /\ \E m \in 1..(Len(b) + 1) :
           q.buffer = EndAnd(b, m, i) /\ BufferMoved(p, q, m)
  BY <1>2, UnitPacked
<1>6. PICK m \in 1..(Len(b) + 1) :
        /\ c = EndAnd(b, m, i)
        /\ \/ parts = Append(ps, b) /\ b # <<>>
           \/ parts = ps /\ m = 1
  <2>1. PICK m \in 1..(Len(b) + 1) :
          q.buffer = EndAnd(b, m, i) /\ BufferMoved(p, q, m)
    BY <1>5
  <2>2. \/ parts = Append(ps, b) /\ b # <<>>
        \/ parts = ps /\ m = 1
    BY <1>2, <1>4, <2>1 DEF BufferMoved
  <2> QED
    BY <1>2, <1>4, <2>1, <2>2
<1>7. q = [parts |-> q.parts, buffer |-> q.buffer, tokens |-> q.tokens] /\ q.parts = parts /\ q.buffer = c
  BY <1>4, <1>5
<1>8. Len(b) \in Nat /\ (b # <<>> <=> Len(b) # 0)
  BY NotEmpty
<1>9. Len(ps) \in Nat
  BY <1>3 DEF IsSequence
<1>10. b # <<>> => /\ IsSequence(Append(ps, b)) /\ Len(Append(ps, b)) = Len(ps) + 1
                   /\ Append(ps, b)[Len(ps) + 1] = b
                   /\ \A r \in 1..Len(ps) : Append(ps, b)[r] = ps[r]
  BY <1>3, Extended
<1>11. Grows(b)
  <2>1. CASE b = <<>>
    BY <1>8, <2>1 DEF Grows
  <2>2. CASE b # <<>>
    <3>1. Len(ps) + 1 \in 1..Len(Append(ps, b))
      BY <1>9, <1>10, <2>2
    <3> QED
      BY <1>3, <1>10, <2>2, <3>1 DEF Slid
  <2> QED
    BY <2>1, <2>2
<1>12. /\ c \in Seq(1..i) /\ Len(c) # 0 /\ Grows(c) /\ Last(c) = i /\ c[Len(c)] = i
       /\ Len(b) # 0 => b[1] <= c[1] /\ Last(b) <= Last(c)
       /\ \A k \in m..Len(b) : \E l \in 1..Len(c) : c[l] = b[k]
  <2>1. c = EndAnd(b, m, i)
    BY <1>6
  <2>2. c \in Seq(1..i) /\ Len(c) # 0 /\ Grows(c) /\ Last(c) = i
    BY <1>11, <2>1, NextBuffer
  <2>3. c[Len(c)] = i
    BY <1>11, <2>1, NextBuffer
  <2>4. Len(b) # 0 => b[1] <= c[1] /\ Last(b) <= Last(c)
    BY <1>11, <2>1, NextBuffer
  <2>5. \A k \in m..Len(b) : \E l \in 1..Len(c) : c[l] = b[k]
    BY <1>11, <2>1, NextBuffer, SMTT(15)
  <2> QED
    BY <2>2, <2>3, <2>4, <2>5
<1>13. Seq(1..n) \subseteq Seq(1..i) /\ Seq(1..n) \subseteq Seq(Int) /\ Seq(1..i) \subseteq Seq(Int)
  <2>1. 1..n \subseteq 1..i /\ 1..n \subseteq Int /\ 1..i \subseteq Int
    OBVIOUS
  <2> QED
    BY <2>1, WiderSeq
<1>14. IsSequence(parts) /\ \A r \in 1..Len(parts) : parts[r] \in Seq(1..i)
  <2>1. CASE parts = ps
    BY <1>3, <1>13, <2>1
  <2>2. CASE parts = Append(ps, b) /\ b # <<>>
    <3>1. \A r \in 1..Len(parts) : r = Len(ps) + 1 \/ r \in 1..Len(ps)
      BY <1>9, <1>10, <2>2
    <3> QED
      BY <1>3, <1>10, <1>13, <2>2, <3>1
  <2> QED
    BY <1>6, <2>1, <2>2
<1>15. Slid(Append(parts, c))
  <2>1. CASE b = <<>>
    <3>1. parts = <<>>
      BY <1>3, <1>6, <2>1
    <3>2. Append(parts, c) = <<c>> /\ Len(<<c>>) = 1 /\ <<c>>[1] = c
      BY <3>1
    <3>3. \A r, s \in 1..1 : ~(r < s)
      OBVIOUS
    <3> QED
      BY <1>12, <3>2, <3>3 DEF Slid
  <2>2. CASE b # <<>>
    <3>1. b \in Seq(Int) /\ c \in Seq(Int) /\ \A r \in 1..Len(ps) : ps[r] \in Seq(Int)
      BY <1>3, <1>12, <1>13
    <3>2. b[1] <= c[1] /\ Last(b) <= Last(c) /\ Slid(Append(ps, b))
      BY <1>3, <1>8, <1>12, <2>2
    <3>3. Slid(Append(Append(ps, b), c)) /\ Slid(Append(ps, c))
      BY <1>3, <1>12, <3>1, <3>2, SlidFurther
    <3> QED
      BY <1>6, <3>3
  <2> QED
    BY <2>1, <2>2
<1>16. c # <<>>
  BY <1>12, NotEmpty
<1>17. PackShape(q, i)
  BY <1>7, <1>12, <1>14, <1>15, <1>16 DEF PackShape
<1>18. PICK all : all = Append(parts, c)
  OBVIOUS
<1>19. /\ Parts(q) = all /\ Len(parts) \in Nat /\ Len(all) = Len(parts) + 1
       /\ all[Len(parts) + 1] = c /\ \A r \in 1..Len(parts) : all[r] = parts[r]
  <2>1. Parts(q) = all
    BY <1>7, <1>16, <1>18 DEF Parts
  <2>2. Len(parts) \in Nat
    BY <1>14 DEF IsSequence
  <2> QED
    BY <1>14, <1>18, <2>1, <2>2, Extended
<1>20. ASSUME NEW k, \/ \E r \in 1..Len(parts) : \E l \in 1..Len(parts[r]) : parts[r][l] = k
                     \/ \E l \in 1..Len(c) : c[l] = k
       PROVE  PackedIn(q, k)
  <2>1. \A r \in 1..Len(parts) : r \in 1..Len(all)
    BY <1>19
  <2>2. Len(parts) + 1 \in 1..Len(all)
    BY <1>19
  <2>3. CASE \E r \in 1..Len(parts) : \E l \in 1..Len(parts[r]) : parts[r][l] = k
    <3>1. PICK r \in 1..Len(parts) : \E l \in 1..Len(parts[r]) : parts[r][l] = k
      BY <2>3
    <3>2. r \in 1..Len(all) /\ all[r] = parts[r]
      BY <1>19, <2>1
    <3> QED
      BY <1>19, <3>1, <3>2 DEF PackedIn
  <2>4. CASE \E l \in 1..Len(c) : c[l] = k
    BY <1>19, <2>2, <2>4 DEF PackedIn
  <2> QED
    BY <1>20, <2>3, <2>4
<1>21. PackedIn(q, i)
  <2>1. Len(c) \in 1..Len(c)
    BY <1>12
  <2> QED
    BY <1>12, <1>20, <2>1
<1>22. ASSUME NEW k, PackedIn(p, k) PROVE PackedIn(q, k)
  <2>1. CASE b = <<>>
    <3>1. Parts(p) = <<<<>>>>
      BY <1>2, <2>1 DEF Parts
    <3>2. \A r \in 1..Len(<<<<>>>>) : 1..Len(<<<<>>>>[r]) = {}
      OBVIOUS
    <3> QED
      BY <1>22, <3>1, <3>2 DEF PackedIn
  <2>2. CASE b # <<>>
    <3>1. Parts(p) = Append(ps, b)
      BY <1>2, <2>2 DEF Parts
    <3>2. PICK r \in 1..(Len(ps) + 1) : \E l \in 1..Len(Append(ps, b)[r]) : Append(ps, b)[r][l] = k
      BY <1>10, <1>22, <2>2, <3>1 DEF PackedIn
    <3>3. CASE parts = Append(ps, b)
      <4>1. r \in 1..Len(parts)
        BY <1>10, <2>2, <3>3
      <4> QED
        BY <1>20, <3>2, <3>3, <4>1
    <3>4. CASE parts = ps /\ m = 1
      <4>1. CASE r \in 1..Len(ps)
        <5>1. Append(ps, b)[r] = parts[r]
          BY <1>10, <2>2, <3>4, <4>1
        <5> QED
          BY <1>20, <3>2, <3>4, <4>1, <5>1
      <4>2. CASE r = Len(ps) + 1
        <5>1. PICK l \in 1..Len(b) : b[l] = k
          BY <1>10, <2>2, <3>2, <4>2
        <5>2. l \in m..Len(b)
          BY <3>4
        <5> QED
          BY <1>12, <1>20, <5>1, <5>2
      <4> QED
        BY <1>9, <3>2, <4>1, <4>2
    <3> QED
      BY <1>6, <3>3, <3>4
  <2> QED
    BY <2>1, <2>2
<1> QED
  BY <1>7, <1>16, <1>17, <1>21, <1>22

LEMMA PartsShape ==
  ASSUME NEW n \in Nat, NEW p, PackShape(p, n), NEW parts, parts = Parts(p)
  PROVE  /\ IsSequence(parts) /\ Len(parts) \in Nat \ {0} /\ parts # <<>>
         /\ \A r \in 1..Len(parts) : parts[r] \in Seq(1..n) /\ Grows(parts[r])
         /\ p.buffer # <<>> => Slid(parts) /\ \A r \in 1..Len(parts) : Len(parts[r]) # 0
PROOF
<1>1. PICK ps : ps = p.parts
  OBVIOUS
<1>2. PICK b \in Seq(1..n) : b = p.buffer /\ ps = p.parts
  BY <1>1 DEF PackShape
<1>3. /\ IsSequence(ps) /\ \A r \in 1..Len(ps) : ps[r] \in Seq(1..n)
      /\ b # <<>> => Slid(Append(ps, b))
  BY <1>2 DEF PackShape
<1>4. CASE b = <<>>
  <2>1. parts = <<<<>>>> /\ Len(parts) = 1 /\ parts[1] = <<>> /\ <<>> \in Seq(1..n)
    BY <1>2, <1>4 DEF Parts
  <2>2. Grows(<<>>)
    BY DEF Grows
  <2>3. IsSequence(parts) /\ parts # <<>>
    BY <2>1 DEF IsSequence
  <2>4. \A r \in 1..Len(parts) : r = 1
    BY <2>1
  <2>5. \A r \in 1..Len(parts) : parts[r] \in Seq(1..n) /\ Grows(parts[r])
    BY <2>1, <2>2, <2>4
  <2> QED
    BY <1>2, <1>4, <2>1, <2>3, <2>5
<1>5. CASE b # <<>>
  <2>1. parts = Append(ps, b)
    BY <1>2, <1>5 DEF Parts
  <2>2. /\ IsSequence(parts) /\ Len(parts) = Len(ps) + 1 /\ Len(ps) \in Nat
        /\ parts[Len(ps) + 1] = b /\ \A r \in 1..Len(ps) : parts[r] = ps[r]
    <3>1. Len(ps) \in Nat
      BY <1>3 DEF IsSequence
    <3> QED
      BY <1>3, <2>1, <3>1, Extended
  <2>3. Slid(parts)
    BY <1>3, <1>5, <2>1
  <2>4. \A r \in 1..Len(parts) : r = Len(ps) + 1 \/ r \in 1..Len(ps)
    BY <2>2
  <2>5. \A r \in 1..Len(parts) : parts[r] \in Seq(1..n)
    BY <1>3, <2>2, <2>4
  <2>6. \A r \in 1..Len(parts) : Len(parts[r]) # 0 /\ Grows(parts[r])
    BY <2>3 DEF Slid
  <2>7. Len(parts) \in Nat \ {0} /\ parts # <<>>
    <3>1. Len(parts) \in Nat \ {0}
      BY <2>2
    <3> QED
      BY <3>1
  <2> QED
    BY <2>2, <2>3, <2>5, <2>6, <2>7
<1> QED
  BY <1>4, <1>5

LEMMA ButParts ==
  ASSUME NEW x, NEW y, NEW z, NEW p, p = [parts |-> x, buffer |-> y, tokens |-> z], NEW rest,
         NEW q, q = [p EXCEPT !.parts = rest]
  PROVE  q = [parts |-> rest, buffer |-> y, tokens |-> z]
PROOF
<1>1. q \in [parts : {rest}, buffer : {y}, tokens : {z}]
  OBVIOUS
<1>2. \A r \in [parts : {rest}, buffer : {y}, tokens : {z}] : r = [parts |-> rest, buffer |-> y, tokens |-> z]
  OBVIOUS
<1> QED
  BY <1>1, <1>2

LEMMA SlidTail ==
  ASSUME NEW s, Slid(s), NEW t, Len(t) \in Nat, Len(s) = Len(t) + 1,
         \A r \in 1..Len(t) : t[r] = s[r + 1]
  PROVE  Slid(t)
PROOF
<1>1. ASSUME NEW r \in 1..Len(t) PROVE Len(t[r]) # 0 /\ Grows(t[r])
  <2>1. PICK a \in 1..Len(s) : a = r + 1
    OBVIOUS
  <2>2. t[r] = s[a]
    BY <2>1
  <2> QED
    BY <2>2 DEF Slid
<1>2. ASSUME NEW r \in 1..Len(t), NEW u \in 1..Len(t), r < u
      PROVE  t[r][1] <= t[u][1] /\ Last(t[r]) <= Last(t[u])
  <2>1. PICK a \in 1..Len(s), b \in 1..Len(s) : a = r + 1 /\ b = u + 1 /\ a < b
    BY <1>2
  <2>2. t[r] = s[a] /\ t[u] = s[b]
    BY <2>1
  <2> QED
    BY <2>1, <2>2 DEF Slid
<1> QED
  BY <1>1, <1>2 DEF Slid

\* A part that is emitted leaves the others.
LEMMA PartGone ==
  ASSUME NEW n \in Nat, NEW p, PackShape(p, n), NEW parts, parts = Parts(p), Tail(parts) # <<>>,
         NEW q, q = [p EXCEPT !.parts = Tail(@)], NEW rest, rest = Parts(q)
  PROVE  /\ PackShape(q, n) /\ q.buffer = p.buffer /\ p.buffer # <<>>
         /\ Len(rest) = Len(parts) - 1 /\ \A r \in 1..(Len(parts) - 1) : rest[r] = parts[r + 1]
PROOF
<1>1. PICK ps, t : ps = p.parts /\ t = p.tokens
  OBVIOUS
<1>2. PICK b \in Seq(1..n) : b = p.buffer /\ ps = p.parts /\ t = p.tokens
  BY <1>1 DEF PackShape
<1>3. /\ IsSequence(ps) /\ \A r \in 1..Len(ps) : ps[r] \in Seq(1..n)
      /\ b # <<>> => Slid(Append(ps, b)) /\ Last(b) = n
      /\ p = [parts |-> ps, buffer |-> b, tokens |-> t]
  BY <1>2 DEF PackShape
<1>4. \A x : Tail(<<x>>) = <<>>
  OBVIOUS
<1>5. b # <<>>
  <2> SUFFICES ASSUME b = <<>> PROVE FALSE
    OBVIOUS
  <2>1. parts = <<<<>>>>
    BY <1>2 DEF Parts
  <2> QED
    BY <1>4, <2>1
<1>6. parts = Append(ps, b)
  BY <1>2, <1>5 DEF Parts
<1>7. ps # <<>>
  <2> SUFFICES ASSUME ps = <<>> PROVE FALSE
    OBVIOUS
  <2>1. parts = <<b>>
    BY <1>6
  <2> QED
    BY <1>4, <2>1
<1>8. PICK qs : qs = Tail(ps)
  OBVIOUS
<1>9. PICK l \in Nat : l = Len(qs)
  BY <1>3, <1>7, <1>8, Shortened DEF IsSequence
<1>10. /\ Len(ps) = l + 1 /\ IsSequence(qs) /\ \A r \in 1..l : qs[r] = ps[r + 1]
  <2>1. Len(ps) \in Nat \ {0} /\ IsSequence(qs) /\ l = Len(ps) - 1
    BY <1>3, <1>7, <1>8, <1>9, Shortened
  <2>2. \A r \in 1..(Len(ps) - 1) : qs[r] = ps[r + 1]
    BY <1>3, <1>7, <1>8, Shortened
  <2>3. Len(ps) = l + 1
    BY <2>1
  <2> QED
    BY <2>1, <2>2, <2>3
<1>11. q = [parts |-> qs, buffer |-> b, tokens |-> t]
  <2>1. q = [p EXCEPT !.parts = qs]
    BY <1>2, <1>8
  <2> QED
    BY <1>3, <2>1, ButParts
<1>12. q.parts = qs /\ q.buffer = b /\ q = [parts |-> q.parts, buffer |-> q.buffer, tokens |-> q.tokens]
  <2>1. q.parts = qs /\ q.buffer = b /\ q.tokens = t
    BY <1>11
  <2> QED
    BY <1>11, <2>1
<1>13. rest = Append(qs, b)
  BY <1>5, <1>12 DEF Parts
<1>14. /\ Len(parts) = l + 2 /\ parts[l + 2] = b /\ \A r \in 1..(l + 1) : parts[r] = ps[r]
  <2>1. (l + 1) + 1 = l + 2
    OBVIOUS
  <2> QED
    BY <1>3, <1>6, <1>10, <2>1, Extended
<1>15. /\ Len(rest) = l + 1 /\ rest[l + 1] = b /\ \A r \in 1..l : rest[r] = qs[r]
  <2>1. /\ Len(Append(qs, b)) = Len(qs) + 1 /\ Append(qs, b)[Len(qs) + 1] = b
        /\ \A r \in 1..Len(qs) : Append(qs, b)[r] = qs[r]
    BY <1>10, Extended
  <2> QED
    BY <1>9, <1>13, <2>1
<1>16. ASSUME NEW r \in 1..(l + 1) PROVE rest[r] = parts[r + 1]
  <2>1. CASE r = l + 1
    <3>1. r + 1 = l + 2
      BY <2>1
    <3> QED
      BY <1>14, <1>15, <2>1, <3>1
  <2>2. CASE r # l + 1
    <3>1. r \in 1..l /\ r + 1 \in 1..(l + 1)
      BY <2>2
    <3> QED
      BY <1>10, <1>14, <1>15, <3>1
  <2> QED
    BY <2>1, <2>2
<1>17. Slid(rest)
  <2>1. Slid(parts)
    BY <1>3, <1>5, <1>6
  <2>2. Len(rest) \in Nat /\ Len(parts) = Len(rest) + 1
    BY <1>14, <1>15
  <2>3. \A r \in 1..Len(rest) : rest[r] = parts[r + 1]
    BY <1>15, <1>16
  <2> QED
    BY <2>1, <2>2, <2>3, SlidTail
<1>18. \A r \in 1..Len(qs) : qs[r] \in Seq(1..n)
  <2>1. \A r \in 1..l : r + 1 \in 1..(l + 1)
    OBVIOUS
  <2> QED
    BY <1>3, <1>9, <1>10, <2>1
<1>19. PackShape(q, n)
  <2>1. Slid(Append(q.parts, q.buffer))
    BY <1>12, <1>13, <1>17
  <2> QED
    BY <1>3, <1>5, <1>10, <1>12, <1>18, <2>1 DEF PackShape
<1>20. Len(rest) = Len(parts) - 1 /\ Len(parts) - 1 = l + 1
  BY <1>14, <1>15
<1> QED
  BY <1>2, <1>5, <1>12, <1>16, <1>19, <1>20

-----------------------------------------------------------------------------
(* The units of a part.                                                    *)

\* Units that begin, and end, no earlier than others.
Leads(us, vs) ==
  us # <<>> /\ vs # <<>> => us[1].line <= vs[1].line /\ Last(us).line <= Last(vs).line

LEMMA PickedUnits ==
  ASSUME NEW us, NEW n \in Nat, NEW part \in Seq(1..n), NEW vs, vs = Picked(us, part)
  PROVE  /\ IsSequence(vs) /\ Len(vs) = Len(part) /\ Len(part) \in Nat
         /\ \A k \in 1..Len(part) : vs[k] = us[part[k]]
         /\ vs = <<>> <=> Len(part) = 0
PROOF
<1>1. DOMAIN part = 1..Len(part) /\ Len(part) \in Nat /\ \A k \in 1..Len(part) : part[k] \in 1..n
  OBVIOUS
<1>2. /\ vs = [k \in 1..Len(part) |-> vs[k]]
      /\ \A k \in 1..Len(part) : vs[k] = us[part[k]]
  BY <1>1 DEF Picked
<1>3. Len(part) \in Int /\ ~(Len(part) < 0)
  BY <1>1
<1>4. IsSequence(vs) /\ Len(vs) = Len(part)
  BY <1>2, <1>3, ListOf
<1>5. vs = <<>> <=> Len(part) = 0
  <2>1. CASE Len(part) = 0
    <3>1. \A g : [i \in 1..0 |-> g[i]] = <<>>
      OBVIOUS
    <3> QED
      BY <1>2, <2>1, <3>1
  <2>2. CASE Len(part) # 0
    BY <1>4, <2>2
  <2> QED
    BY <2>1, <2>2
<1> QED
  BY <1>1, <1>2, <1>4, <1>5

LEMMA PickedInLine ==
  ASSUME NEW us, InLine(us), NEW n \in Nat, n <= Len(us), NEW part \in Seq(1..n), Grows(part),
         NEW vs, vs = Picked(us, part)
  PROVE  InLine(vs)
PROOF
<1>1. IsSequence(vs) /\ Len(vs) = Len(part) /\ Len(part) \in Nat
  BY PickedUnits
<1>2. \A k \in 1..Len(part) : vs[k] = us[part[k]]
  BY PickedUnits
<1>3. Len(us) \in Nat
  BY DEF InLine, IsSequence
<1>4. \A k \in 1..Len(part) : part[k] \in 1..Len(us)
  BY <1>3
<1>5. ASSUME NEW k \in 1..Len(vs) PROVE IsUnit(vs[k])
  BY <1>1, <1>2, <1>4 DEF InLine
<1>6. ASSUME NEW k \in 1..Len(vs), NEW l \in 1..Len(vs), k < l PROVE NotAfter(vs[k], vs[l])
  <2>1. part[k] < part[l] /\ part[k] \in 1..Len(us) /\ part[l] \in 1..Len(us)
    BY <1>1, <1>4, <1>6 DEF Grows
  <2>2. vs[k] = us[part[k]] /\ vs[l] = us[part[l]]
    BY <1>1, <1>2
  <2> QED
    BY <2>1, <2>2 DEF InLine
<1> QED
  BY <1>1, <1>5, <1>6 DEF InLine

LEMMA LinesInOrder ==
  ASSUME NEW us, InLine(us), NEW a \in 1..Len(us), NEW b \in 1..Len(us), a <= b
  PROVE  us[a].line <= us[b].line
PROOF
<1>1. Len(us) \in Nat /\ us[a].line \in Int
  BY DEF InLine, IsSequence, IsUnit
<1>2. CASE a = b
  BY <1>1, <1>2
<1>3. CASE a # b
  <2>1. a < b
    BY <1>1, <1>3
  <2> QED
    BY <2>1 DEF InLine, NotAfter
<1> QED
  BY <1>2, <1>3

\* A part that begins and ends no earlier gives units that do.
LEMMA PickedLeads ==
  ASSUME NEW us, InLine(us), NEW n \in Nat, n <= Len(us),
         NEW a \in Seq(1..n), NEW b \in Seq(1..n), Len(a) # 0, Len(b) # 0,
         a[1] <= b[1], Last(a) <= Last(b)
  PROVE  Leads(Picked(us, a), Picked(us, b))
PROOF
<1>1. PICK vs, ws : vs = Picked(us, a) /\ ws = Picked(us, b)
  OBVIOUS
<1>2. Len(vs) = Len(a) /\ Len(ws) = Len(b) /\ Len(a) \in Nat /\ Len(b) \in Nat
  BY <1>1, PickedUnits
<1>3. ASSUME NEW k \in 1..Len(a) PROVE vs[k] = us[a[k]] /\ a[k] \in 1..n
  BY <1>1, PickedUnits, SMTT(15)
<1>4. ASSUME NEW k \in 1..Len(b) PROVE ws[k] = us[b[k]] /\ b[k] \in 1..n
  BY <1>1, PickedUnits, SMTT(15)
<1>5. Len(us) \in Nat
  BY DEF InLine, IsSequence
<1>6. 1 \in 1..Len(a) /\ Len(a) \in 1..Len(a) /\ 1 \in 1..Len(b) /\ Len(b) \in 1..Len(b)
  BY <1>2
<1>7. \A i \in 1..n : i \in 1..Len(us)
  BY <1>5
<1>8. vs[1].line <= ws[1].line
  BY <1>3, <1>6, <1>7, <1>4, LinesInOrder
<1>9. Last(vs).line <= Last(ws).line
  <2>1. Last(vs) = us[a[Len(a)]] /\ Last(ws) = us[b[Len(b)]] /\ Last(a) = a[Len(a)] /\ Last(b) = b[Len(b)]
    BY <1>2, <1>3, <1>6, <1>4 DEF Last
  <2>2. a[Len(a)] \in 1..Len(us) /\ b[Len(b)] \in 1..Len(us) /\ a[Len(a)] <= b[Len(b)]
    BY <1>3, <1>6, <1>7, <1>4, <2>1
  <2> QED
    BY <2>1, <2>2, LinesInOrder
<1> QED
  BY <1>1, <1>8, <1>9 DEF Leads

\* Units that cost nothing have no token.
LEMMA FreeIsBlank ==
  ASSUME NEW us, InLine(us), Costs(us) = 0, NEW t \in Int
  PROVE  ~HasToken(us, t)
PROOF
<1> SUFFICES ASSUME NEW i \in 1..Len(us) PROVE ~(us[i].from <= t /\ t < us[i].to)
  BY DEF HasToken
<1>1. PICK n \in Nat : n = Len(us) /\ DOMAIN us = 1..n
  BY DEF InLine, IsSequence
<1>2. PICK c : c = [k \in 1..n |-> us[k].cost]
  OBVIOUS
<1>3. \A k \in 1..n : c[k] = us[k].cost /\ c[k] \in Nat
  BY <1>1, <1>2 DEF InLine, IsUnit
<1>4. FirstTotal(c, n) = 0
  <2>1. [k \in 1..n |-> c[k]] = [k \in DOMAIN us |-> us[k].cost]
    BY <1>1, <1>2
  <2> QED
    BY <2>1 DEF Costs, FirstTotal
<1>5. i - 1 \in Nat /\ (i - 1) + 1 = i /\ i \in 0..n /\ n \in i..n /\ i - 1 \in 0..n /\ i \in 1..n
  BY <1>1
<1>6. FirstTotal(c, i) <= FirstTotal(c, n)
  BY <1>3, <1>5, FirstTotalGrows
<1>7. FirstTotal(c, (i - 1) + 1) = FirstTotal(c, i - 1) + c[(i - 1) + 1]
  BY <1>5, FirstTotalNext
<1>8. FirstTotal(c, i - 1) \in Nat
  BY <1>3, <1>5, FirstTotalNat
<1>9. c[i] = 0
  <2>1. PICK x \in Nat, y \in Nat : x = FirstTotal(c, i - 1) /\ y = c[i]
    BY <1>3, <1>5, <1>8
  <2>2. x + y <= 0
    BY <1>4, <1>5, <1>6, <1>7, <2>1
  <2>3. y = 0
    BY <2>2
  <2> QED
    BY <2>1, <2>3
<1>10. IsUnit(us[i]) /\ us[i].cost = 0
  BY <1>3, <1>5, <1>9 DEF InLine
<1>11. us[i].from = us[i].to /\ us[i].to \in Int
  BY <1>10 DEF IsUnit
<1> QED
  BY <1>11

\* The tokens of a unit of a part.
LEMMA PickedHas ==
  ASSUME NEW us, NEW n \in Nat, NEW part \in Seq(1..n), NEW m \in 1..Len(part),
         NEW t, us[part[m]].from <= t, t < us[part[m]].to
  PROVE  HasToken(Picked(us, part), t)
PROOF
<1>1. PICK vs : vs = Picked(us, part)
  OBVIOUS
<1>2. Len(vs) = Len(part) /\ vs[m] = us[part[m]]
  BY <1>1, PickedUnits
<1> QED
  BY <1>1, <1>2 DEF HasToken

-----------------------------------------------------------------------------
(* What is put together again of a text that is split.                     *)

LEMMA EmptyPackShape == PackShape(EmptyPack, 0) /\ EmptyPack.buffer = <<>>
PROOF
<1>1. EmptyPack = [parts |-> <<>>, buffer |-> <<>>, tokens |-> 0]
  BY DEF EmptyPack
<1>2. EmptyPack.parts = <<>> /\ EmptyPack.buffer = <<>> /\ EmptyPack.tokens = 0
  BY <1>1
<1>3. IsSequence(<<>>) /\ Len(<<>>) = 0 /\ <<>> \in Seq(1..0)
  BY DEF IsSequence
<1> QED
  BY <1>1, <1>2, <1>3 DEF PackShape

\* Whatever is packed is in a part.
LEMMA PackHasAll ==
  ASSUME NEW units, IsSequence(units), NEW max, NEW n, n = Len(units),
         NEW p, p = Pack(units, max)
  PROVE  n \in Nat /\ PackShape(p, n) /\ \A k \in 1..n : PackedIn(p, k)
PROOF
<1>1. n \in Nat /\ DOMAIN units = 1..n
  BY DEF IsSequence
<1>2. PICK numbers : numbers = [i \in DOMAIN units |-> i]
  OBVIOUS
<1> DEFINE g == CHOOSE x : Packing(units, max, numbers, n, x)
<1>3. Packing(units, max, numbers, n, g)
  BY <1>1, PackingExists
<1>4. p = g[1..n]
  BY <1>1, <1>2, PackIsFold
<1> HIDE DEF g
<1>5. /\ g[{}] = EmptyPack
      /\ \A k \in 1..n : g[1..k] = PackUnit(g[1..(k - 1)], units, k, max)
  <2>1. g[{}] = EmptyPack
    BY <1>3 DEF Packing
  <2>2. ASSUME NEW k \in 1..n PROVE g[1..k] = PackUnit(g[1..(k - 1)], units, k, max)
    <3>1. 1..k \in SUBSET (1..n) /\ 1..k # {}
      <4>1. k \in 1..k /\ \A j \in 1..k : j \in 1..n
        BY <1>1
      <4> QED
        BY <4>1
    <3>2. 1..k \in SUBSET Nat /\ k \in 1..k /\ \A y \in 1..k : y <= k
      BY <1>1
    <3>3. Max(1..k) = k
      BY <3>2, MaxIs
    <3>4. (1..k) \ {k} = 1..(k - 1) /\ numbers[k] = k
      BY <1>1, <1>2
    <3> QED
      BY <1>3, <3>1, <3>3, <3>4 DEF Packing
  <2> QED
    BY <2>1, <2>2
<1> DEFINE bad == {k \in 0..n : ~(PackShape(g[1..k], k) /\ \A j \in 1..k : PackedIn(g[1..k], j))}
<1>6. bad = {}
  <2> SUFFICES ASSUME bad # {} PROVE FALSE
    OBVIOUS
  <2>1. bad \in SUBSET Nat
    BY <1>1
  <2>2. PICK k \in bad : \A j \in bad : k <= j
    <3> HIDE DEF bad
    <3> QED
      BY <2>1, Least
  <2>3. k # 0
    <3>1. 1..0 = {}
      OBVIOUS
    <3> QED
      BY <1>5, <2>2, <3>1, EmptyPackShape
  <2>4. k - 1 \in 0..n /\ k - 1 \notin bad /\ k \in 1..n
    BY <1>1, <2>2, <2>3
  <2>5. PICK l \in Nat : l = k - 1 /\ k = l + 1
    BY <2>4
  <2>6. PackShape(g[1..l], l) /\ \A j \in 1..l : PackedIn(g[1..l], j)
    BY <2>4, <2>5
  <2>7. g[1..k] = PackUnit(g[1..l], units, k, max)
    BY <1>5, <2>4, <2>5
  <2>8. PackShape(g[1..k], k) /\ \A j : PackedIn(g[1..l], j) \/ j = k => PackedIn(g[1..k], j)
    BY <2>5, <2>6, <2>7, PackShapeNext
  <2>9. \A j \in 1..k : j = k \/ j \in 1..l
    BY <2>5
  <2> QED
    BY <2>2, <2>6, <2>8, <2>9
<1>7. n \in 0..n
  BY <1>1
<1> QED
  BY <1>1, <1>4, <1>6, <1>7

LEMMA NotAfterOrSame ==
  ASSUME NEW us, InLine(us), NEW a \in 1..Len(us), NEW b \in 1..Len(us), a <= b
  PROVE  NotAfter(us[a], us[b])
PROOF
<1>1. Len(us) \in Nat /\ {us[a].from, us[a].to, us[a].line} \subseteq Int
  BY DEF InLine, IsSequence, IsUnit
<1>2. CASE a = b
  BY <1>1, <1>2 DEF NotAfter
<1>3. CASE a # b
  <2>1. a < b
    BY <1>1, <1>3
  <2> QED
    BY <2>1 DEF InLine
<1> QED
  BY <1>2, <1>3

\* A paragraph is a unit at least.
LEMMA ParagraphHasUnit ==
  ASSUME NEW text \in Seq(Seq(Nat)), NEW p \in 1..Len(text), NEW max \in Nat \ {0}
  PROVE  IsSequence(ParagraphUnits(text, p, max)) /\ Len(ParagraphUnits(text, p, max)) # 0
PROOF
<1>1. PICK us : us = ParagraphUnits(text, p, max)
  OBVIOUS
<1>2. PICK lo \in Nat, hi \in Nat : lo = Start(text, p) /\ hi = Start(text, p + 1)
  <2>1. p \in 1..(Len(text) + 1) /\ p + 1 \in 1..(Len(text) + 1)
    OBVIOUS
  <2> QED
    BY <2>1, Starts
<1>3. Cut(us, lo, hi, p, p)
  BY <1>1, <1>2, ParagraphCuts
<1>4. Total(text[p]) \in Nat /\ hi = lo + Total(text[p])
  BY <1>2, Starts, ElementOfSeq, TotalIsNat
<1>5. CASE Total(text[p]) <= max
  <2>1. us = <<Unit(Start(text, p), Total(text[p]), p)>>
    BY <1>1, <1>5 DEF ParagraphUnits
  <2>2. Len(us) = 1
    BY <2>1
  <2> QED
    BY <1>1, <1>3, <2>2 DEF Cut, InLine
<1>6. CASE ~(Total(text[p]) <= max)
  <2>1. lo <= lo /\ lo < hi
    BY <1>4, <1>6
  <2>2. HasToken(us, lo)
    BY <1>3, <2>1 DEF Cut
  <2>3. IsSequence(us) /\ Len(us) # 0
    BY <1>3, <2>2 DEF Cut, InLine, HasToken, IsSequence
  <2> QED
    BY <1>1, <2>3
<1> QED
  BY <1>5, <1>6

LEMMA FlattenHasSome ==
  ASSUME NEW seqs, IsSequence(seqs), \A i \in 1..Len(seqs) : IsSequence(seqs[i]),
         NEW a \in 1..Len(seqs), NEW b \in 1..Len(seqs[a])
  PROVE  IsSequence(FlattenSeq(seqs)) /\ Len(FlattenSeq(seqs)) # 0
PROOF
<1> DEFINE S == UNION {{seqs[i][j] : j \in 1..Len(seqs[i])} : i \in 1..Len(seqs)}
           R == S \X S
<1>1. PICK flat : flat = FlattenSeq(seqs)
  OBVIOUS
<1>2. \A i \in 1..Len(seqs) : \A j \in 1..Len(seqs[i]) : seqs[i][j] \in S
  OBVIOUS
<1>3. \A x, y \in S : <<x, y>> \in R
  OBVIOUS
<1> HIDE DEF S, R
<1>4. \A i \in 1..Len(seqs) : Ordered(seqs[i], R)
  BY <1>2, <1>3 DEF Ordered
<1>5. \A i, j \in 1..Len(seqs) : i < j =>
        \A k \in 1..Len(seqs[i]) : \A l \in 1..Len(seqs[j]) : <<seqs[i][k], seqs[j][l]>> \in R
  BY <1>2, <1>3
<1>6. /\ Ordered(flat, R)
      /\ \A i \in 1..Len(seqs) : \A j \in 1..Len(seqs[i]) :
           \E k \in 1..Len(flat) : flat[k] = seqs[i][j]
  BY <1>1, <1>4, <1>5, FlattenOrdered, SMTT(60)
<1>7. \E k \in 1..Len(flat) : TRUE
  BY <1>6
<1> QED
  BY <1>1, <1>6, <1>7 DEF Ordered, IsSequence

LEMMA UnitsExist ==
  ASSUME NEW text \in Seq(Seq(Nat)), NEW first \in Nat \ {0}, NEW last \in 0..Len(text),
         first <= last, NEW max \in Nat \ {0}
  PROVE  Len(UnitsOf(text, first, last, max)) # 0
PROOF
<1>1. PICK n \in Nat : n = last - first + 1 /\ n # 0
  OBVIOUS
<1> DEFINE split == [i \in 1..n |-> ParagraphUnits(text, first + i - 1, max)]
<1>2. UnitsOf(text, first, last, max) = FlattenSeq(split)
  BY <1>1 DEF UnitsOf
<1>3. ASSUME NEW i \in 1..n PROVE IsSequence(split[i]) /\ Len(split[i]) # 0
  <2>1. first + i - 1 \in 1..Len(text)
    BY <1>1
  <2> QED
    BY <2>1, ParagraphHasUnit
<1>4. split = [i \in 1..n |-> split[i]]
  OBVIOUS
<1> HIDE DEF split
<1>5. IsSequence(split) /\ Len(split) = n
  BY <1>4, ListOf
<1>6. PICK seqs, flat : seqs = split /\ flat = FlattenSeq(seqs)
  OBVIOUS
<1>7. 1 \in 1..Len(seqs) /\ 1 \in 1..Len(seqs[1])
  <2>1. 1 \in 1..n
    BY <1>1
  <2>2. Len(split[1]) \in Nat /\ Len(split[1]) # 0
    BY <1>3, <2>1 DEF IsSequence
  <2> QED
    BY <1>5, <1>6, <2>1, <2>2
<1>8. IsSequence(seqs) /\ \A i \in 1..Len(seqs) : IsSequence(seqs[i])
  BY <1>3, <1>5, <1>6
<1>9. IsSequence(flat) /\ Len(flat) # 0
  BY <1>6, <1>7, <1>8, FlattenHasSome
<1> QED
  BY <1>2, <1>6, <1>9

-----------------------------------------------------------------------------
(* A rendered comment.                                                     *)

LEMMA CostsNat ==
  ASSUME NEW us, InLine(us)
  PROVE  Costs(us) \in Nat
PROOF
<1>1. PICK n \in Nat : n = Len(us) /\ DOMAIN us = 1..n
  BY DEF InLine, IsSequence
<1>2. PICK c : c = [k \in 1..n |-> us[k].cost]
  OBVIOUS
<1>3. \A k \in 1..n : c[k] \in Nat
  BY <1>1, <1>2 DEF InLine, IsUnit
<1>4. FirstTotal(c, n) \in Nat
  <2>1. n \in 0..n
    OBVIOUS
  <2> QED
    BY <1>3, <2>1, FirstTotalNat
<1>5. [k \in 1..n |-> c[k]] = [k \in DOMAIN us |-> us[k].cost]
  BY <1>1, <1>2
<1> QED
  BY <1>4, <1>5 DEF Costs, FirstTotal

\* The part from the first to the last of its units.
Spanned(us, part, line, author) ==
  [from |-> us[part[1]].from, to |-> us[Last(part)].to, line |-> line,
   cost |-> author + Costs(Picked(us, part))]

LEMMA SpannedUnit ==
  ASSUME NEW us, InLine(us), NEW part \in Seq(1..Len(us)), Grows(part), Len(part) # 0,
         NEW line \in Int, NEW author \in Nat \ {0}, NEW u, u = Spanned(us, part, line, author)
  PROVE  /\ IsUnit(u) /\ u.line = line
         /\ u.from = us[part[1]].from /\ u.to = us[Last(part)].to
         /\ part[1] \in 1..Len(us) /\ Last(part) \in 1..Len(us)
         /\ \A m \in 1..Len(part) : part[1] <= part[m] /\ part[m] <= Last(part)
PROOF
<1>1. Len(us) \in Nat /\ Len(part) \in Nat \ {0} /\ \A m \in 1..Len(part) : part[m] \in 1..Len(us)
  BY DEF InLine, IsSequence
<1>2. Last(part) = part[Len(part)] /\ 1 \in 1..Len(part) /\ Len(part) \in 1..Len(part)
  BY <1>1 DEF Last
<1>3. ASSUME NEW m \in 1..Len(part) PROVE part[1] <= part[m] /\ part[m] <= Last(part)
  <2>1. (m = 1 \/ 1 < m) /\ (m = Len(part) \/ m < Len(part))
    BY <1>1
  <2>2. part[1] \in Int /\ part[m] \in Int /\ part[Len(part)] \in Int
    BY <1>1, <1>2
  <2> QED
    BY <1>2, <2>1, <2>2 DEF Grows
<1>4. part[1] \in 1..Len(us) /\ Last(part) \in 1..Len(us) /\ part[1] <= Last(part)
  BY <1>1, <1>2, <1>3
<1>5. IsUnit(us[part[1]]) /\ IsUnit(us[Last(part)]) /\ NotAfter(us[part[1]], us[Last(part)])
  BY <1>4, NotAfterOrSame DEF InLine
<1>6. PICK vs : vs = Picked(us, part)
  OBVIOUS
<1>7. InLine(vs)
  <2>1. PICK n \in Nat : n = Len(us) /\ n <= Len(us)
    BY <1>1
  <2>2. part \in Seq(1..n)
    BY <2>1
  <2> QED
    BY <1>6, <2>1, <2>2, PickedInLine
<1>8. PICK n \in Nat : n = Costs(vs)
  BY <1>7, CostsNat
<1>9. /\ u.from = us[part[1]].from /\ u.to = us[Last(part)].to /\ u.line = line
      /\ u.cost = author + n
  BY <1>6, <1>8 DEF Spanned
<1>10. u.from \in Int /\ u.to \in Int /\ u.from <= u.to
  <2>1. PICK a \in Int, b \in Int, c \in Int, d \in Int :
          a = us[part[1]].from /\ b = us[part[1]].to /\ c = us[Last(part)].from /\ d = us[Last(part)].to
    BY <1>5 DEF IsUnit
  <2>2. a <= b /\ b <= d
    BY <1>5, <2>1 DEF IsUnit, NotAfter
  <2>3. a <= d
    BY <2>2
  <2> QED
    BY <1>9, <2>1, <2>3
<1>11. u.cost \in Nat /\ u.cost # 0
  BY <1>9
<1>12. IsUnit(u)
  BY <1>9, <1>10, <1>11 DEF IsUnit
<1> QED
  BY <1>3, <1>4, <1>9, <1>12

\* The parts of a text, one behind the other, are a cut of it.
LEMMA SpannedCut ==
  ASSUME NEW us, NEW lo \in Int, NEW hi \in Int, NEW f, NEW l, Cut(us, lo, hi, f, l), Len(us) # 0,
         NEW p, PackShape(p, Len(us)), \A k \in 1..Len(us) : PackedIn(p, k),
         NEW line \in Int, NEW author \in Nat \ {0}, NEW vs,
         vs = [r \in DOMAIN Parts(p) |-> Spanned(us, Parts(p)[r], line, author)]
  PROVE  Cut(vs, lo, hi, line, line)
PROOF
<1>1. PICK n \in Nat \ {0} : n = Len(us)
  BY DEF Cut, InLine, IsSequence
<1>2. PICK parts : parts = Parts(p)
  OBVIOUS
<1>3. p.buffer # <<>>
  <2> SUFFICES ASSUME p.buffer = <<>> PROVE FALSE
    OBVIOUS
  <2>1. parts = <<<<>>>>
    BY <1>2 DEF Parts
  <2>2. \A r \in 1..Len(<<<<>>>>) : 1..Len(<<<<>>>>[r]) = {}
    OBVIOUS
  <2>3. 1 \in 1..n
    OBVIOUS
  <2>4. PackedIn(p, 1)
    BY <1>1, <2>3
  <2> QED
    BY <1>2, <2>1, <2>2, <2>4 DEF PackedIn
<1>4. /\ IsSequence(parts) /\ Len(parts) \in Nat \ {0}
      /\ \A r \in 1..Len(parts) : parts[r] \in Seq(1..n) /\ Grows(parts[r])
      /\ Slid(parts) /\ \A r \in 1..Len(parts) : Len(parts[r]) # 0
  BY <1>1, <1>2, <1>3, PartsShape
<1>5. DOMAIN parts = 1..Len(parts)
  BY <1>4 DEF IsSequence
<1>6. /\ vs = [r \in 1..Len(parts) |-> vs[r]]
      /\ \A r \in 1..Len(parts) : vs[r] = Spanned(us, parts[r], line, author)
  BY <1>2, <1>5
<1>7. IsSequence(vs) /\ Len(vs) = Len(parts)
  <2>1. Len(parts) \in Int /\ ~(Len(parts) < 0)
    BY <1>4
  <2> QED
    BY <1>6, <2>1, ListOf
<1>8. InLine(us) /\ \A i \in 1..n : lo <= us[i].from /\ us[i].to <= hi
  BY <1>1 DEF Cut
<1>9. ASSUME NEW r \in 1..Len(parts)
      PROVE  /\ IsUnit(vs[r]) /\ vs[r].line = line
             /\ vs[r].from = us[parts[r][1]].from /\ vs[r].to = us[Last(parts[r])].to
             /\ parts[r][1] \in 1..n /\ Last(parts[r]) \in 1..n
             /\ \A m \in 1..Len(parts[r]) : parts[r][1] <= parts[r][m] /\ parts[r][m] <= Last(parts[r])
  <2>1. PICK part, u : part = parts[r] /\ u = vs[r]
    OBVIOUS
  <2>2. part \in Seq(1..Len(us)) /\ Grows(part) /\ Len(part) # 0 /\ u = Spanned(us, part, line, author)
    BY <1>1, <1>4, <1>6, <2>1
  <2>3. /\ IsUnit(u) /\ u.line = line
        /\ u.from = us[part[1]].from /\ u.to = us[Last(part)].to
        /\ part[1] \in 1..Len(us) /\ Last(part) \in 1..Len(us)
        /\ \A m \in 1..Len(part) : part[1] <= part[m] /\ part[m] <= Last(part)
    BY <1>8, <2>2, SpannedUnit, SMTT(15)
  <2> QED
    BY <1>1, <2>1, <2>3
<1>10. ASSUME NEW r \in 1..Len(vs), NEW s \in 1..Len(vs), r < s PROVE NotAfter(vs[r], vs[s])
  <2>1. parts[r][1] <= parts[s][1] /\ Last(parts[r]) <= Last(parts[s])
    BY <1>4, <1>7, <1>10 DEF Slid
  <2>2. NotAfter(us[parts[r][1]], us[parts[s][1]]) /\ NotAfter(us[Last(parts[r])], us[Last(parts[s])])
    BY <1>1, <1>7, <1>8, <1>9, <2>1, NotAfterOrSame
  <2>3. vs[r].line <= vs[s].line
    BY <1>7, <1>9, SMTT(15)
  <2> QED
    BY <1>7, <1>9, <2>2, <2>3 DEF NotAfter
<1>11. InLine(vs)
  BY <1>7, <1>9, <1>10 DEF InLine
<1>12. ASSUME NEW r \in 1..Len(vs)
       PROVE  lo <= vs[r].from /\ vs[r].to <= hi /\ line <= vs[r].line /\ vs[r].line <= line
  <2>1. r \in 1..Len(parts)
    BY <1>7
  <2>2. PICK a \in 1..n, b \in 1..n : a = parts[r][1] /\ b = Last(parts[r])
    BY <1>9, <2>1
  <2>3. lo <= us[a].from /\ us[b].to <= hi
    BY <1>8
  <2>4. vs[r].line = line /\ vs[r].from = us[a].from /\ vs[r].to = us[b].to
    BY <1>9, <2>1, <2>2
  <2> QED
    BY <2>3, <2>4
<1>13. ASSUME NEW t \in Int, lo <= t, t < hi PROVE HasToken(vs, t)
  <2>1. PICK k \in 1..n : us[k].from <= t /\ t < us[k].to
    BY <1>1, <1>13 DEF Cut, HasToken
  <2>2. PICK r \in 1..Len(parts) : \E m \in 1..Len(parts[r]) : parts[r][m] = k
    BY <1>1, <1>2, <2>1 DEF PackedIn
  <2>3. parts[r][1] <= k /\ k <= Last(parts[r])
    BY <1>9, <2>2
  <2>4. NotAfter(us[parts[r][1]], us[k]) /\ NotAfter(us[k], us[Last(parts[r])])
    BY <1>1, <1>8, <1>9, <2>3, NotAfterOrSame
  <2>5. IsUnit(us[k]) /\ IsUnit(us[parts[r][1]]) /\ IsUnit(us[Last(parts[r])])
    BY <1>1, <1>8, <1>9 DEF InLine
  <2>6. us[parts[r][1]].from <= t /\ t < us[Last(parts[r])].to
    <3>1. PICK a \in Int, b \in Int, c \in Int, d \in Int :
            a = us[parts[r][1]].from /\ b = us[k].from /\ c = us[k].to /\ d = us[Last(parts[r])].to
      BY <2>5 DEF IsUnit
    <3>2. a <= b /\ b <= t /\ t < c /\ c <= d
      BY <2>1, <2>4, <3>1 DEF NotAfter
    <3>3. a <= t /\ t < d
      BY <3>2
    <3> QED
      BY <3>1, <3>3
  <2> QED
    BY <1>7, <1>9, <2>6 DEF HasToken
<1> QED
  BY <1>11, <1>12, <1>13 DEF Cut

LEMMA BudgetNat ==
  ASSUME NEW h \in Nat
  PROVE  Budget(h) \in Nat \ {0} /\ Budget(h) - AuthorRoom \in Nat \ {0}
PROOF
<1>1. PICK e \in Nat, s \in Nat, m \in Nat, a \in Nat :
        /\ e = EmbedWindow /\ s = SafetyMargin /\ m = MinBudget /\ a = AuthorRoom
        /\ m # 0 /\ a < m
  BY SizesAssumption
<1>2. Budget(h) = IF m > e - s - h THEN m ELSE e - s - h
  BY <1>1 DEF Budget, Larger, MaxTokens
<1> QED
  BY <1>1, <1>2

\* A part of a comment spans its units.
LEMMA PartSpanned ==
  ASSUME NEW us, NEW n \in Nat, NEW part \in Seq(1..n), Len(part) # 0, NEW vs, vs = Picked(us, part),
         NEW line, NEW author
  PROVE  [from |-> vs[1].from, to |-> Last(vs).to, line |-> line, cost |-> author + Costs(vs)]
         = Spanned(us, part, line, author)
PROOF
<1>1. Len(vs) = Len(part) /\ Len(part) \in Nat
  BY PickedUnits
<1>2. 1 \in 1..Len(part) /\ Len(part) \in 1..Len(part)
  BY <1>1
<1>3. vs[1] = us[part[1]] /\ Last(vs) = us[Last(part)]
  <2>1. PICK m : m = Len(part)
    OBVIOUS
  <2>2. vs[1] = us[part[1]]
    BY <1>2, PickedUnits
  <2>3. vs[m] = us[part[m]]
    BY <1>2, <2>1, PickedUnits
  <2> QED
    BY <1>1, <2>1, <2>2, <2>3 DEF Last
<1>4. part[Len(part)] = Last(part) /\ vs[Len(vs)] = Last(vs)
  BY DEF Last
<1>5. PICK a, b, z, w : a = vs[1] /\ b = Last(vs) /\ z = Costs(vs) /\ w = Costs(Picked(us, part))
  OBVIOUS
<1>6. a = us[part[1]] /\ b = us[Last(part)] /\ z = w
  BY <1>3, <1>5
<1> QED
  BY <1>5, <1>6 DEF Spanned

\* A rendered comment has the tokens of the comment.
LEMMA RenderedCuts ==
  ASSUME NEW d, d.text \in Seq(Seq(Nat)), d.thread \in Nat,
         NEW c, IsComment(d, c), c.first <= c.last
  PROVE  Cut(Rendered(d, c), Start(d.text, c.first), Start(d.text, c.last + 1), c.first, c.first)
PROOF
<1>1. PICK max : max = Budget(d.thread) - AuthorRoom
  OBVIOUS
<1>2. max \in Nat \ {0}
  BY <1>1, BudgetNat
<1>3. PICK first \in Nat \ {0}, last \in 0..Len(d.text), author \in Nat \ {0} :
        first = c.first /\ last = c.last /\ author = c.author /\ first <= last
  BY DEF IsComment, Within
<1>4. first <= last + 1 /\ first \in Int
  BY <1>3
<1>5. PICK us : us = UnitsOf(d.text, first, last, max)
  OBVIOUS
<1>6. PICK lo, hi : lo = Start(d.text, first) /\ hi = Start(d.text, last + 1)
  OBVIOUS
<1>7. Cut(us, lo, hi, first, last) /\ Len(us) # 0
  BY <1>2, <1>3, <1>4, <1>5, <1>6, UnitsOfCuts, UnitsExist
<1>8. lo \in Int /\ hi \in Int
  <2>1. Len(d.text) \in Nat
    OBVIOUS
  <2>2. first \in 1..(Len(d.text) + 1) /\ last + 1 \in 1..(Len(d.text) + 1)
    BY <1>3, <2>1
  <2> QED
    BY <1>6, <2>2, Starts
<1>9. IsSequence(us)
  BY <1>7 DEF Cut, InLine
<1>10. PICK p, n : p = Pack(us, max) /\ n = Len(us)
  OBVIOUS
<1>11. n \in Nat \ {0} /\ PackShape(p, n) /\ \A k \in 1..n : PackedIn(p, k)
  BY <1>7, <1>9, <1>10, PackHasAll
<1>12. PICK parts : parts = Parts(p)
  OBVIOUS
<1>13. p.buffer # <<>>
  <2> SUFFICES ASSUME p.buffer = <<>> PROVE FALSE
    OBVIOUS
  <2>1. parts = <<<<>>>>
    BY <1>12 DEF Parts
  <2>2. \A r \in 1..Len(<<<<>>>>) : 1..Len(<<<<>>>>[r]) = {}
    OBVIOUS
  <2>3. 1 \in 1..n
    BY <1>11
  <2>4. PackedIn(p, 1)
    BY <1>11, <2>3
  <2> QED
    BY <1>12, <2>1, <2>2, <2>4 DEF PackedIn
<1>14. /\ IsSequence(parts)
       /\ \A r \in 1..Len(parts) : parts[r] \in Seq(1..n) /\ Len(parts[r]) # 0
  BY <1>11, <1>12, <1>13, PartsShape
<1>15. DOMAIN parts = 1..Len(parts)
  BY <1>14 DEF IsSequence
<1>16. PICK split : split = [k \in DOMAIN parts |-> Picked(us, parts[k])]
  OBVIOUS
<1>17. SplitText(d.text, first, last, max) = split
  BY <1>5, <1>10, <1>12, <1>16 DEF SplitText
<1>18. ASSUME NEW k \in DOMAIN parts
       PROVE  [from |-> split[k][1].from, to |-> Last(split[k]).to, line |-> first,
               cost |-> author + Costs(split[k])]
              = Spanned(us, parts[k], first, author)
  <2>1. PICK part, vs : part = parts[k] /\ vs = split[k]
    OBVIOUS
  <2>2. part \in Seq(1..n) /\ Len(part) # 0 /\ vs = Picked(us, part)
    BY <1>14, <1>15, <1>16, <2>1
  <2>3. n \in Nat
    BY <1>11
  <2> QED
    BY <2>1, <2>2, <2>3, PartSpanned
<1>19. PICK vs : vs = [k \in DOMAIN parts |-> Spanned(us, parts[k], first, author)]
  OBVIOUS
<1>20. Rendered(d, c) = vs
  <2>1. DOMAIN split = DOMAIN parts
    BY <1>16
  <2>2. Rendered(d, c) = [k \in DOMAIN split |->
          [from |-> split[k][1].from, to |-> Last(split[k]).to, line |-> first,
           cost |-> author + Costs(split[k])]]
    BY <1>1, <1>3, <1>17 DEF Rendered
  <2> QED
    BY <1>18, <1>19, <2>1, <2>2
<1>21. Cut(us, lo, hi, first, last) /\ vs = [r \in DOMAIN Parts(p) |-> Spanned(us, Parts(p)[r], first, author)]
  BY <1>7, <1>12, <1>19
<1>22. Cut(vs, lo, hi, first, first)
  BY <1>4, <1>7, <1>8, <1>10, <1>11, <1>21, SpannedCut
<1> QED
  BY <1>3, <1>6, <1>20, <1>22

-----------------------------------------------------------------------------
(* Spans, one after the other.                                             *)

\* No line of one after a line of the other.
Precedes(s, t) ==
  \A k \in 1..Len(s.units) : \A l \in 1..Len(t.units) : s.units[k].line <= t.units[l].line

Lies(s, lo, hi) ==
  /\ InLine(s.units)
  /\ \A k \in 1..Len(s.units) : lo <= s.units[k].line /\ s.units[k].line <= hi

Laid(ss, lo, hi) ==
  /\ IsSequence(ss)
  /\ \A i \in 1..Len(ss) : Lies(ss[i], lo, hi)
  /\ \A i, j \in 1..Len(ss) : i < j => Precedes(ss[i], ss[j])

SpansHave(ss, t) == \E i \in 1..Len(ss) : HasToken(ss[i].units, t)

LEMMA LiesApart ==
  ASSUME NEW s, NEW t, NEW a \in Int, NEW b \in Int, NEW c \in Int, NEW e \in Int,
         Lies(s, a, b), Lies(t, c, e), b <= c
  PROVE  Precedes(s, t)
PROOF
<1> SUFFICES ASSUME NEW k \in 1..Len(s.units), NEW l \in 1..Len(t.units)
             PROVE  s.units[k].line <= t.units[l].line
  BY DEF Precedes
<1>1. s.units[k].line \in Int /\ t.units[l].line \in Int
  BY DEF Lies, InLine, IsUnit
<1>2. PICK x \in Int, y \in Int : x = s.units[k].line /\ y = t.units[l].line
  BY <1>1
<1>3. x <= b /\ c <= y
  BY <1>2 DEF Lies
<1>4. x <= y
  BY <1>3
<1> QED
  BY <1>2, <1>4

LEMMA LiesWider ==
  ASSUME NEW s, NEW a \in Int, NEW b \in Int, NEW c \in Int, NEW e \in Int, Lies(s, a, b), c <= a, b <= e
  PROVE  Lies(s, c, e)
PROOF
<1>1. ASSUME NEW k \in 1..Len(s.units) PROVE c <= s.units[k].line /\ s.units[k].line <= e
  <2>1. s.units[k].line \in Int /\ a <= s.units[k].line /\ s.units[k].line <= b
    BY DEF Lies, InLine, IsUnit
  <2>2. PICK x \in Int : x = s.units[k].line /\ a <= x /\ x <= b
    BY <2>1
  <2>3. c <= x /\ x <= e
    BY <2>2
  <2> QED
    BY <2>2, <2>3
<1> QED
  BY <1>1 DEF Lies

LEMMA LaidWider ==
  ASSUME NEW ss, NEW a \in Int, NEW b \in Int, NEW c \in Int, NEW e \in Int, Laid(ss, a, b), c <= a, b <= e
  PROVE  Laid(ss, c, e)
PROOF
  BY LiesWider DEF Laid

LEMMA LaidOne ==
  ASSUME NEW s, NEW lo, NEW hi, Lies(s, lo, hi)
  PROVE  Laid(<<s>>, lo, hi) /\ \A t : HasToken(s.units, t) => SpansHave(<<s>>, t)
PROOF
<1>1. PICK ss : ss = <<s>>
  OBVIOUS
<1>2. IsSequence(ss) /\ Len(ss) = 1 /\ ss[1] = s /\ 1 \in 1..Len(ss)
  BY <1>1 DEF IsSequence
<1>3. \A i \in 1..Len(ss) : i = 1
  BY <1>2
<1>4. \A i, j \in 1..Len(ss) : ~(i < j)
  BY <1>3
<1>5. \A i \in 1..Len(ss) : Lies(ss[i], lo, hi)
  BY <1>2, <1>3
<1>6. Laid(ss, lo, hi)
  BY <1>2, <1>4, <1>5 DEF Laid
<1>7. \A t : HasToken(s.units, t) => SpansHave(ss, t)
  BY <1>2 DEF SpansHave
<1> QED
  BY <1>1, <1>6, <1>7

LEMMA LaidNone == \A lo, hi : Laid(<<>>, lo, hi)
PROOF
<1>1. PICK ss : ss = <<>>
  OBVIOUS
<1>2. IsSequence(ss) /\ 1..Len(ss) = {}
  BY <1>1 DEF IsSequence
<1>3. \A lo, hi : Laid(ss, lo, hi)
  BY <1>2 DEF Laid
<1> QED
  BY <1>1, <1>3

\* Spans, and then others no earlier.
LEMMA LaidBehind ==
  ASSUME NEW lo \in Int, NEW m \in Int, NEW n \in Int, NEW hi \in Int, lo <= m, m <= n, n <= hi,
         NEW ss, Laid(ss, lo, m), NEW tt, Laid(tt, n, hi)
  PROVE  /\ Laid(ss \o tt, lo, hi)
         /\ \A t : SpansHave(ss, t) \/ SpansHave(tt, t) => SpansHave(ss \o tt, t)
PROOF
<1>1. PICK c : c = ss \o tt
  OBVIOUS
<1>2. IsSequence(ss) /\ IsSequence(tt)
  BY DEF Laid
<1>3. /\ Len(ss) \in Nat /\ Len(tt) \in Nat
      /\ IsSequence(c) /\ Len(c) = Len(ss) + Len(tt)
  BY <1>1, <1>2, Behind
<1>4. /\ \A k \in 1..Len(ss) : c[k] = ss[k]
      /\ \A k \in 1..Len(tt) : c[Len(ss) + k] = tt[k]
  BY <1>1, <1>2, Behind
<1>5. PICK a \in Nat, b \in Nat : a = Len(ss) /\ b = Len(tt) /\ Len(c) = a + b
  BY <1>3
<1>6. /\ \A k \in 1..a : c[k] = ss[k]
      /\ \A k \in 1..b : c[a + k] = tt[k]
  BY <1>4, <1>5
<1>7. /\ \A k \in 1..a : Lies(ss[k], lo, m) /\ Lies(ss[k], lo, hi)
      /\ \A k \in 1..b : Lies(tt[k], n, hi) /\ Lies(tt[k], lo, hi)
  <2>1. m <= hi /\ lo <= n
    OBVIOUS
  <2>2. \A k \in 1..a : Lies(ss[k], lo, m)
    BY <1>5 DEF Laid
  <2>3. \A k \in 1..b : Lies(tt[k], n, hi)
    BY <1>5 DEF Laid
  <2>4. \A k \in 1..a : Lies(ss[k], lo, hi)
    BY <2>1, <2>2, LiesWider
  <2>5. \A k \in 1..b : Lies(tt[k], lo, hi)
    BY <2>1, <2>3, LiesWider
  <2> QED
    BY <2>2, <2>3, <2>4, <2>5
<1>8. ASSUME NEW k \in 1..Len(c) PROVE Lies(c[k], lo, hi)
  <2>1. k \in 1..a \/ \E j \in 1..b : k = a + j
    <3>1. k \in 1..(a + b)
      BY <1>5
    <3> QED
      BY <3>1, EitherPlace
  <2> QED
    BY <1>6, <1>7, <2>1
<1>9. ASSUME NEW i \in 1..Len(c), NEW j \in 1..Len(c), i < j PROVE Precedes(c[i], c[j])
  <2>1. i \in 1..a \/ \E k \in 1..b : i = a + k
    <3>1. i \in 1..(a + b)
      BY <1>5
    <3> QED
      BY <3>1, EitherPlace
  <2>2. j \in 1..a \/ \E k \in 1..b : j = a + k
    <3>1. j \in 1..(a + b)
      BY <1>5
    <3> QED
      BY <3>1, EitherPlace
  <2>3. CASE i \in 1..a /\ j \in 1..a
    BY <1>5, <1>6, <1>9, <2>3 DEF Laid
  <2>4. ASSUME NEW k \in 1..b, j = a + k, i \in 1..a PROVE Precedes(c[i], c[j])
    <3>1. c[i] = ss[i] /\ c[j] = tt[k]
      BY <1>6, <2>4
    <3> QED
      BY <1>7, <2>4, <3>1, LiesApart
  <2>5. ASSUME NEW k \in 1..b, NEW l \in 1..b, i = a + k, j = a + l PROVE Precedes(c[i], c[j])
    <3>1. k < l
      BY <1>9, <2>5
    <3>2. c[i] = tt[k] /\ c[j] = tt[l]
      BY <1>6, <2>5
    <3> QED
      BY <1>5, <3>1, <3>2 DEF Laid
  <2>6. ~(j \in 1..a /\ \E k \in 1..b : i = a + k)
    BY <1>9
  <2> QED
    BY <2>1, <2>2, <2>3, <2>4, <2>5, <2>6
<1>10. Laid(c, lo, hi)
  BY <1>3, <1>8, <1>9 DEF Laid
<1>11. ASSUME NEW t, SpansHave(ss, t) \/ SpansHave(tt, t) PROVE SpansHave(c, t)
  <2>1. ASSUME NEW i \in 1..a, HasToken(ss[i].units, t) PROVE SpansHave(c, t)
    <3>1. i \in 1..Len(c) /\ c[i] = ss[i]
      BY <1>5, <1>6
    <3> QED
      BY <2>1, <3>1 DEF SpansHave
  <2>2. ASSUME NEW i \in 1..b, HasToken(tt[i].units, t) PROVE SpansHave(c, t)
    <3>1. a + i \in 1..Len(c) /\ c[a + i] = tt[i]
      BY <1>5, <1>6
    <3> QED
      BY <2>2, <3>1 DEF SpansHave
  <2> QED
    BY <1>5, <1>11, <2>1, <2>2 DEF SpansHave
<1> QED
  BY <1>1, <1>10, <1>11

\* What the lists have, the other has.
HaveAll(seqs, ss) == \A i \in 1..Len(seqs) : \A t : SpansHave(seqs[i], t) => SpansHave(ss, t)

\* Lists of spans from f to l, one behind the other.
Apart(seqs, f, l, lo, hi) ==
  /\ IsSequence(seqs) /\ lo \in Int /\ hi \in Int
  /\ \A i \in 1..Len(seqs) : f[i] \in Int /\ l[i] \in Int /\ lo <= f[i] /\ l[i] <= hi
  /\ \A i, j \in 1..Len(seqs) : i < j => l[i] <= f[j]
  /\ \A i \in 1..Len(seqs) : Laid(seqs[i], f[i], l[i])

LEMMA FlattenLaid ==
  ASSUME NEW seqs, NEW lo, NEW hi, NEW f, NEW l, Apart(seqs, f, l, lo, hi)
  PROVE  /\ Laid(FlattenSeq(seqs), lo, hi)
         /\ HaveAll(seqs, FlattenSeq(seqs))
PROOF
<1> DEFINE U == UNION {{seqs[i][j] : j \in 1..Len(seqs[i])} : i \in 1..Len(seqs)}
           R == {p \in U \X U : Precedes(p[1], p[2])}
<1>1. PICK flat : flat = FlattenSeq(seqs)
  OBVIOUS
<1>2. /\ IsSequence(seqs) /\ lo \in Int /\ hi \in Int
      /\ \A i \in 1..Len(seqs) : f[i] \in Int /\ l[i] \in Int /\ lo <= f[i] /\ l[i] <= hi
      /\ \A i, j \in 1..Len(seqs) : i < j => l[i] <= f[j]
      /\ \A i \in 1..Len(seqs) : Laid(seqs[i], f[i], l[i])
  BY DEF Apart
<1>3. ASSUME NEW i \in 1..Len(seqs), NEW j \in 1..Len(seqs[i]) PROVE seqs[i][j] \in U
  <2>1. PICK s : s = {seqs[i][k] : k \in 1..Len(seqs[i])}
    OBVIOUS
  <2>2. seqs[i][j] \in s
    BY <2>1
  <2> QED
    BY <2>1, <2>2
<1>4. \A x, y \in U : Precedes(x, y) <=> <<x, y>> \in R
  OBVIOUS
<1> HIDE DEF U, R
<1>5. ASSUME NEW i \in 1..Len(seqs) PROVE Ordered(seqs[i], R)
  <2>1. Laid(seqs[i], f[i], l[i])
    BY <1>2
  <2>2. PICK s : s = seqs[i]
    OBVIOUS
  <2>3. IsSequence(s) /\ \A j, k \in 1..Len(s) : j < k => Precedes(s[j], s[k])
    BY <2>1, <2>2 DEF Laid
  <2>4. \A j \in 1..Len(s) : s[j] \in U
    BY <1>3, <2>2
  <2>5. \A j, k \in 1..Len(s) : j < k => <<s[j], s[k]>> \in R
    BY <1>4, <2>3, <2>4
  <2> QED
    BY <2>2, <2>3, <2>5 DEF Ordered
<1>6. ASSUME NEW i \in 1..Len(seqs), NEW j \in 1..Len(seqs), i < j,
             NEW k \in 1..Len(seqs[i]), NEW m \in 1..Len(seqs[j])
      PROVE  <<seqs[i][k], seqs[j][m]>> \in R
  <2>1. Lies(seqs[i][k], f[i], l[i]) /\ Lies(seqs[j][m], f[j], l[j])
    BY <1>2 DEF Laid
  <2>2. PICK a \in Int, b \in Int, c \in Int, e \in Int : a = f[i] /\ b = l[i] /\ c = f[j] /\ e = l[j]
    BY <1>2
  <2>3. b <= c
    BY <1>2, <1>6, <2>2
  <2>4. Precedes(seqs[i][k], seqs[j][m])
    BY <2>1, <2>2, <2>3, LiesApart
  <2> QED
    BY <1>3, <1>4, <2>4
<1>7. /\ Ordered(flat, R)
      /\ \A i \in 1..Len(seqs) : \A j \in 1..Len(seqs[i]) :
           \E k \in 1..Len(flat) : flat[k] = seqs[i][j]
  <2>1. IsSequence(seqs)
    BY <1>2
  <2>2. \A i, j \in 1..Len(seqs) : i < j =>
          \A k \in 1..Len(seqs[i]) : \A m \in 1..Len(seqs[j]) : <<seqs[i][k], seqs[j][m]>> \in R
    BY <1>6
  <2> QED
    BY <1>1, <1>5, <2>2, <2>1, FlattenOrdered
<1>8. \A k \in 1..Len(flat) :
        \E i \in 1..Len(seqs) : \E j \in 1..Len(seqs[i]) : flat[k] = seqs[i][j]
  <2>1. \A i \in 1..Len(seqs) : IsSequence(seqs[i])
    BY <1>2 DEF Laid
  <2> QED
    BY <1>2, <1>1, <2>1, FlattenElements
<1>9. ASSUME NEW k \in 1..Len(flat) PROVE Lies(flat[k], lo, hi) /\ flat[k] \in U
  <2>1. PICK i \in 1..Len(seqs) : \E j \in 1..Len(seqs[i]) : flat[k] = seqs[i][j]
    BY <1>8
  <2>2. PICK j \in 1..Len(seqs[i]) : flat[k] = seqs[i][j]
    BY <2>1
  <2>3. Lies(seqs[i][j], f[i], l[i])
    BY <1>2 DEF Laid
  <2>4. PICK a \in Int, b \in Int : a = f[i] /\ b = l[i] /\ lo <= a /\ b <= hi
    BY <1>2
  <2>5. Lies(seqs[i][j], lo, hi)
    BY <1>2, <2>3, <2>4, LiesWider
  <2> QED
    BY <1>3, <2>5, <2>2
<1>10. Laid(flat, lo, hi)
  BY <1>4, <1>7, <1>9 DEF Laid, Ordered
<1>11. ASSUME NEW i \in 1..Len(seqs), NEW t, SpansHave(seqs[i], t) PROVE SpansHave(flat, t)
  <2>1. PICK j \in 1..Len(seqs[i]) : HasToken(seqs[i][j].units, t)
    BY <1>11 DEF SpansHave
  <2>2. PICK k \in 1..Len(flat) : flat[k] = seqs[i][j]
    BY <1>7
  <2> QED
    BY <2>1, <2>2 DEF SpansHave
<1> QED
  BY <1>1, <1>10, <1>11 DEF HaveAll

-----------------------------------------------------------------------------
(* The spans of a document have what is wanted of it.                      *)

\* A token of a range of paragraphs is between its start and its end.
LEMMA TokenBetween ==
  ASSUME NEW text \in Seq(Seq(Nat)), NEW first \in Nat \ {0}, NEW last \in 0..Len(text),
         NEW p \in first..last, NEW t \in Tokens(text, p)
  PROVE  /\ t \in Int /\ first <= last
         /\ Start(text, first) <= t /\ t < Start(text, last + 1)
PROOF
<1>1. PICK n \in Nat : n = Len(text)
  OBVIOUS
<1>2. /\ first \in 1..(n + 1) /\ p \in 1..n /\ p \in 1..(n + 1) /\ p + 1 \in 1..(n + 1)
      /\ last + 1 \in 1..(n + 1) /\ p + 1 <= last + 1 /\ first <= p /\ first <= last
  BY <1>1
<1>3. PICK a \in Int, b \in Int, c \in Int, e \in Int :
        /\ a = Start(text, first) /\ b = Start(text, p) /\ c = Start(text, p + 1)
        /\ e = Start(text, last + 1)
  <2>1. Start(text, first) \in Nat
    BY <1>1, <1>2, Starts
  <2>2. Start(text, p) \in Nat
    BY <1>1, <1>2, Starts
  <2>3. Start(text, p + 1) \in Nat
    BY <1>1, <1>2, Starts
  <2>4. Start(text, last + 1) \in Nat
    BY <1>1, <1>2, Starts
  <2> QED
    BY <2>1, <2>2, <2>3, <2>4
<1>4. a <= b /\ c <= e /\ c = b + Total(text[p])
  <2>1. b <= c /\ c <= e /\ a <= b
    BY <1>1, <1>2, <1>3, Starts, SMTT(15)
  <2>2. Start(text, p + 1) = Start(text, p) + Total(text[p])
    BY <1>1, <1>2, Starts
  <2> QED
    BY <1>3, <2>1, <2>2
<1>5. Total(text[p]) \in Nat
  <2>1. text[p] \in Seq(Nat)
    BY <1>1, <1>2
  <2> QED
    BY <2>1, TotalIsNat
<1>6. t \in b..(b + Total(text[p]) - 1)
  BY <1>3 DEF Tokens
<1>7. t \in Int /\ a <= t /\ t < e
  BY <1>4, <1>5, <1>6
<1> QED
  BY <1>2, <1>3, <1>7

\* The units of a range lie in it and have its tokens.
LEMMA RangeLies ==
  ASSUME NEW text \in Seq(Seq(Nat)), NEW first \in Nat \ {0}, NEW last \in 0..Len(text),
         NEW max \in Nat \ {0}, NEW s, s.units = UnitsOf(text, first, last, max)
  PROVE  /\ Lies(s, first, last)
         /\ \A p \in first..last : \A t \in Tokens(text, p) : HasToken(s.units, t)
PROOF
<1>1. PICK n \in Nat : n = Len(text)
  OBVIOUS
<1>2. CASE first <= last + 1
  <2>1. Cut(s.units, Start(text, first), Start(text, last + 1), first, last)
    BY <1>2, UnitsOfCuts
  <2>2. Lies(s, first, last)
    BY <2>1 DEF Cut, Lies
  <2>3. ASSUME NEW p \in first..last, NEW t \in Tokens(text, p) PROVE HasToken(s.units, t)
    <3>1. t \in Int /\ Start(text, first) <= t /\ t < Start(text, last + 1)
      BY TokenBetween
    <3> QED
      BY <2>1, <3>1 DEF Cut
  <2> QED
    BY <2>2, <2>3
<1>3. CASE ~(first <= last + 1)
  <2>1. 1..(last - first + 1) = 1..0 /\ first..last = {}
    BY <1>1, <1>3
  <2>2. \A g : [i \in 1..0 |-> g[i]] = <<>>
    OBVIOUS
  <2>3. PICK g : g = [i \in 1..(last - first + 1) |-> ParagraphUnits(text, first + i - 1, max)]
    OBVIOUS
  <2>4. g = [i \in 1..0 |-> g[i]]
    BY <2>1, <2>3
  <2>5. g = <<>>
    BY <2>2, <2>4
  <2>6. s.units = FlattenSeq(<<>>)
    BY <2>3, <2>5 DEF UnitsOf
  <2>7. PICK e : e = <<>> /\ IsSequence(e) /\ 1..Len(e) = {}
    <3>1. IsSequence(<<>>) /\ 1..Len(<<>>) = {}
      BY DEF IsSequence
    <3> QED
      BY <3>1
  <2>8. InLine(s.units) /\ \A k \in 1..Len(s.units) :
          \E i \in 1..Len(e) : \E j \in 1..Len(e[i]) : s.units[k] = e[i][j]
    <3>1. s.units = FlattenSeq(e)
      BY <2>6, <2>7
    <3> QED
      BY <2>7, <3>1, FlattenInLine
  <2>9. 1..Len(s.units) = {}
    BY <2>7, <2>8
  <2>10. Lies(s, first, last)
    BY <2>8, <2>9 DEF Lies
  <2> QED
    BY <2>1, <2>10
<1> QED
  BY <1>2, <1>3

LEMMA LinesLie ==
  ASSUME NEW d, d.text \in Seq(Seq(Nat)), NEW first \in Nat \ {0}, NEW last \in 0..Len(d.text),
         NEW header \in Nat, NEW s, s = LinesSpan(d, first, last, header)
  PROVE  /\ Lies(s, first, last)
         /\ \A p \in first..last : \A t \in Tokens(d.text, p) : HasToken(s.units, t)
PROOF
<1>1. PICK max : max = Budget(header)
  OBVIOUS
<1>2. max \in Nat \ {0}
  BY <1>1, BudgetNat
<1>3. s.units = UnitsOf(d.text, first, last, max)
  BY <1>1 DEF LinesSpan, SpanOf
<1> QED
  BY <1>2, <1>3, RangeLies

MethodSpans(d, n) ==
  [i \in DOMAIN n.methods |->
     LinesSpan(d, n.methods[i].first, n.methods[i].last, n.methods[i].header)]

Begins(n) == {n.methods[i].begin : i \in DOMAIN n.methods}

\* The methods of a class lie behind where the first one begins.
LEMMA MethodsLaid ==
  ASSUME NEW d, d.text \in Seq(Seq(Nat)), NEW n, IsDefinition(d, n), MethodsInOrder(n),
         NEW x \in Int, \A i \in 1..Len(n.methods) : x <= n.methods[i].begin,
         NEW ms, ms = MethodSpans(d, n)
  PROVE  /\ Laid(ms, x, n.last)
         /\ Len(ms) = Len(n.methods) /\ Len(ms) \in Nat /\ DOMAIN ms = 1..Len(ms)
         /\ \A i \in 1..Len(n.methods) :
              \A p \in n.methods[i].first..n.methods[i].last :
                \A t \in Tokens(d.text, p) : SpansHave(ms, t)
PROOF
<1>1. PICK l \in Nat : l = Len(n.methods) /\ DOMAIN n.methods = 1..l
  BY DEF IsDefinition, IsSequence
<1> DEFINE f(i) == n.methods[i].first
           b(i) == n.methods[i].begin
           e(i) == n.methods[i].last
           h(i) == n.methods[i].header
<1>2. ASSUME NEW i \in 1..l
      PROVE  /\ h(i) \in Nat /\ f(i) \in Nat \ {0} /\ e(i) \in 0..Len(d.text) /\ b(i) \in Nat
             /\ x <= b(i) /\ b(i) <= f(i) /\ e(i) <= n.last
  <2>1. PICK m : m = n.methods[i]
    OBVIOUS
  <2>2. i \in 1..Len(n.methods)
    BY <1>1
  <2>3. m.header \in Nat /\ Within(d, m) /\ m.begin \in 1..Len(d.text)
    BY <2>1, <2>2 DEF IsDefinition
  <2>4. m.begin <= m.first /\ m.last <= n.last
    BY <2>1, <2>2 DEF MethodsInOrder
  <2>5. x <= m.begin
    BY <2>1, <2>2
  <2> QED
    BY <2>1, <2>3, <2>4, <2>5 DEF Within
<1>3. \A i, j \in 1..l : i < j => e(i) <= f(j)
  BY <1>1 DEF MethodsInOrder
<1>4. n.last \in Nat
  BY DEF IsDefinition, Within
<1>5. /\ ms = [i \in 1..l |-> ms[i]]
      /\ \A i \in 1..l : ms[i] = LinesSpan(d, f(i), e(i), h(i))
  BY <1>1 DEF MethodSpans
<1>6. IsSequence(ms) /\ Len(ms) = l /\ DOMAIN ms = 1..l
  <2>1. l \in Int /\ ~(l < 0)
    OBVIOUS
  <2> QED
    BY <1>5, <2>1, ListOf
<1> HIDE DEF f, b, e, h
<1>7. ASSUME NEW i \in 1..l
      PROVE  /\ Lies(ms[i], f(i), e(i)) /\ Lies(ms[i], x, n.last)
             /\ \A p \in f(i)..e(i) : \A t \in Tokens(d.text, p) : HasToken(ms[i].units, t)
  <2>1. PICK fi \in Nat \ {0}, ei \in 0..Len(d.text), hi \in Nat, bi \in Nat :
          /\ fi = f(i) /\ ei = e(i) /\ hi = h(i) /\ bi = b(i)
          /\ x <= bi /\ bi <= fi /\ ei <= n.last
    BY <1>2
  <2>2. PICK s : s = ms[i] /\ s = LinesSpan(d, fi, ei, hi)
    BY <1>5, <2>1
  <2>3. /\ Lies(s, fi, ei)
        /\ \A p \in fi..ei : \A t \in Tokens(d.text, p) : HasToken(s.units, t)
    BY <2>2, LinesLie
  <2>4. x <= fi /\ fi \in Int /\ ei \in Int
    BY <2>1
  <2>5. Lies(s, x, n.last)
    BY <1>4, <2>1, <2>3, <2>4, LiesWider
  <2> QED
    BY <2>1, <2>2, <2>3, <2>5
<1>8. ASSUME NEW i \in 1..l, NEW j \in 1..l, i < j PROVE Precedes(ms[i], ms[j])
  <2>1. /\ f(i) \in Int /\ e(i) \in Int /\ f(j) \in Int /\ e(j) \in Int /\ e(i) <= f(j)
    BY <1>2, <1>3, <1>8
  <2> QED
    BY <1>7, <2>1, LiesApart
<1>9. Laid(ms, x, n.last)
  BY <1>6, <1>7, <1>8 DEF Laid
<1>10. ASSUME NEW i \in 1..l, NEW p \in f(i)..e(i), NEW t \in Tokens(d.text, p)
       PROVE  SpansHave(ms, t)
  BY <1>6, <1>7 DEF SpansHave
<1> QED
  BY <1>1, <1>6, <1>9, <1>10 DEF f, e

\* A class, or a statement, lies where it stands, and has its lines.
LEMMA ClassLaid ==
  ASSUME NEW d, d.text \in Seq(Seq(Nat)), NEW n, IsDefinition(d, n), MethodsInOrder(n)
  PROVE  /\ Laid(ClassSpans(d, n), n.first, n.last)
         /\ \A p \in Lines(n) : \A t \in Tokens(d.text, p) : SpansHave(ClassSpans(d, n), t)
PROOF
<1>1. PICK first \in Nat \ {0}, last \in 0..Len(d.text), header \in Nat, l \in Nat :
        /\ first = n.first /\ last = n.last /\ header = n.header
        /\ l = Len(n.methods) /\ DOMAIN n.methods = 1..l /\ IsSequence(n.methods)
  BY DEF IsDefinition, Within, IsSequence
<1>2. PICK ms : ms = MethodSpans(d, n)
  OBVIOUS
<1>3. DOMAIN ms = 1..l /\ IsSequence(ms) /\ (ms = <<>> <=> l = 0) /\ (n.methods = <<>> <=> l = 0)
  <2>1. ms = [i \in 1..l |-> ms[i]]
    BY <1>1, <1>2 DEF MethodSpans
  <2>2. l \in Int /\ ~(l < 0)
    OBVIOUS
  <2>3. IsSequence(ms) /\ Len(ms) = l /\ DOMAIN ms = 1..l
    BY <2>1, <2>2, ListOf
  <2>4. \A s : IsSequence(s) /\ Len(s) = 0 => s = <<>>
    BY DEF IsSequence
  <2>5. Len(<<>>) = 0
    OBVIOUS
  <2> QED
    BY <1>1, <2>3, <2>4, <2>5
<1>4. PICK end : end = IF ms = <<>> THEN last ELSE Min(Begins(n)) - 1
  OBVIOUS
<1>5. PICK hs : hs = IF end >= first THEN <<LinesSpan(d, first, end, header)>> ELSE <<>>
  OBVIOUS
<1>6. ClassSpans(d, n) = hs \o ms
  BY <1>1, <1>2, <1>3, <1>4, <1>5 DEF ClassSpans, MethodSpans, Begins
<1>7. ASSUME NEW x \in 0..Len(d.text), x = end
      PROVE  /\ Laid(hs, first, x)
             /\ \A p \in first..x : \A t \in Tokens(d.text, p) : SpansHave(hs, t)
  <2>1. CASE end >= first
    <3>1. PICK s : s = LinesSpan(d, first, x, header)
      OBVIOUS
    <3>2. /\ Lies(s, first, x)
          /\ \A p \in first..x : \A t \in Tokens(d.text, p) : HasToken(s.units, t)
      BY <3>1, LinesLie
    <3>3. hs = <<s>>
      BY <1>5, <1>7, <2>1, <3>1
    <3> QED
      BY <3>2, <3>3, LaidOne
  <2>2. CASE ~(end >= first)
    <3>1. first..x = {}
      BY <1>7, <2>2
    <3> QED
      BY <1>5, <2>2, <3>1, LaidNone
  <2> QED
    BY <2>1, <2>2
<1>8. CASE l = 0
  <2>1. end = last /\ ms = <<>> /\ Lines(n) = first..last
    BY <1>1, <1>3, <1>4, <1>8 DEF Lines
  <2>2. /\ Laid(hs, first, last)
        /\ \A p \in first..last : \A t \in Tokens(d.text, p) : SpansHave(hs, t)
    BY <1>7, <2>1
  <2>3. Laid(ms, last, last)
    BY <2>1, LaidNone
  <2>4. CASE first <= last
    <3>1. /\ Laid(hs \o ms, first, last)
          /\ \A t : SpansHave(hs, t) => SpansHave(hs \o ms, t)
      BY <2>2, <2>3, <2>4, LaidBehind
    <3> QED
      BY <1>1, <1>6, <2>1, <2>2, <3>1
  <2>5. CASE ~(first <= last)
    <3>1. hs = <<>> /\ first..last = {}
      BY <1>5, <2>1, <2>5
    <3>2. hs \o ms = <<>>
      BY <2>1, <3>1
    <3> QED
      BY <1>1, <1>6, <2>1, <3>1, <3>2, LaidNone
  <2> QED
    BY <2>4, <2>5
<1>9. CASE l # 0
  <2>1. PICK bs : bs = Begins(n)
    OBVIOUS
  <2>2. \A i \in 1..l : n.methods[i].begin \in bs /\ n.methods[i].begin \in 1..Len(d.text)
    BY <1>1, <2>1 DEF Begins, IsDefinition
  <2>3. \A y \in bs : \E i \in 1..l : y = n.methods[i].begin
    BY <1>1, <2>1 DEF Begins
  <2>4. bs \in SUBSET Nat /\ bs # {}
    <3>1. 1 \in 1..l
      BY <1>9
    <3> QED
      BY <2>2, <2>3, <3>1
  <2>5. PICK x \in bs : x = Min(bs) /\ \A y \in bs : x <= y
    BY <2>4, MinIsLeast
  <2>6. PICK k \in 1..l : x = n.methods[k].begin
    BY <2>3
  <2>7. x \in 1..Len(d.text) /\ first <= x /\ x <= last
    <3>1. PICK f \in Int, e \in Int : f = n.methods[k].first /\ e = n.methods[k].last
      <4>1. PICK m : m = n.methods[k]
        OBVIOUS
      <4>2. Within(d, m)
        BY <1>1, <4>1 DEF IsDefinition
      <4>3. m.first \in Int /\ m.last \in Int
        BY <4>2 DEF Within
      <4> QED
        BY <4>1, <4>3
    <3>2. first <= x /\ x <= f /\ f <= e /\ e <= last
      BY <1>1, <2>6, <3>1 DEF MethodsInOrder
    <3>3. x \in 1..Len(d.text)
      BY <2>2, <2>6
    <3> QED
      BY <3>1, <3>2, <3>3
  <2>8. PICK y \in 0..Len(d.text) : y = end /\ y = x - 1
    <3>1. end = x - 1
      BY <1>3, <1>4, <1>9, <2>1, <2>5
    <3>2. Len(d.text) \in Nat
      OBVIOUS
    <3> QED
      BY <2>7, <3>1, <3>2
  <2>9. /\ Laid(hs, first, y)
        /\ \A p \in first..y : \A t \in Tokens(d.text, p) : SpansHave(hs, t)
    BY <1>7, <2>8
  <2>10. x \in Int /\ y \in Int /\ y <= x /\ first <= first
    BY <2>7, <2>8
  <2>11. Laid(hs, first, x)
    BY <2>9, <2>10, LaidWider
  <2>12. \A i \in 1..Len(n.methods) : x <= n.methods[i].begin
    BY <1>1, <2>2, <2>5
  <2>13. /\ Laid(ms, x, last)
         /\ \A i \in 1..l : \A p \in n.methods[i].first..n.methods[i].last :
              \A t \in Tokens(d.text, p) : SpansHave(ms, t)
    BY <1>1, <1>2, <2>10, <2>12, MethodsLaid
  <2>14. /\ Laid(hs \o ms, first, last)
         /\ \A t : SpansHave(hs, t) \/ SpansHave(ms, t) => SpansHave(hs \o ms, t)
    <3>1. first \in Int /\ last \in Int /\ x \in Int /\ first <= x /\ x <= x /\ x <= last
      BY <2>7, <2>10
    <3>2. Laid(hs, first, x) /\ Laid(ms, x, last)
      BY <2>11, <2>13
    <3> QED
      BY <3>1, <3>2, LaidBehind
  <2>15. Lines(n) = (first..y) \cup UNION {n.methods[i].first..n.methods[i].last : i \in 1..l}
    <3>1. {n.methods[i].begin : i \in DOMAIN n.methods} = bs
      BY <2>1 DEF Begins
    <3> QED
      BY <1>1, <1>3, <1>9, <2>5, <2>8, <3>1 DEF Lines
  <2>16. ASSUME NEW p \in Lines(n), NEW t \in Tokens(d.text, p) PROVE SpansHave(hs \o ms, t)
    <3>1. p \in first..y \/ \E i \in 1..l : p \in n.methods[i].first..n.methods[i].last
      BY <2>15
    <3> QED
      BY <2>9, <2>13, <2>14, <3>1
  <2> QED
    BY <1>1, <1>6, <2>14, <2>16
<1> QED
  BY <1>8, <1>9

LEMMA LinesWithin ==
  ASSUME NEW d, d.text \in Seq(Seq(Nat)), NEW n, IsDefinition(d, n), MethodsInOrder(n)
  PROVE  Lines(n) \subseteq 1..Len(d.text)
PROOF
<1>1. PICK l \in Nat : l = Len(n.methods) /\ DOMAIN n.methods = 1..l /\ IsSequence(n.methods)
  BY DEF IsDefinition, IsSequence
<1>2. PICK e \in Nat : e = Len(d.text)
  OBVIOUS
<1>3. n.first \in Nat \ {0} /\ n.last \in 0..e /\ n.first..n.last \subseteq 1..e
  BY <1>2 DEF IsDefinition, Within
<1>4. ASSUME NEW i \in 1..l
      PROVE  n.methods[i].first..n.methods[i].last \subseteq 1..e /\ n.methods[i].begin \in 1..e
  <2>1. PICK m : m = n.methods[i]
    OBVIOUS
  <2>2. Within(d, m) /\ m.begin \in 1..e
    BY <1>1, <1>2, <2>1 DEF IsDefinition
  <2>3. m.first \in Nat \ {0} /\ m.last \in 0..e
    BY <1>2, <2>2 DEF Within
  <2> QED
    BY <2>1, <2>2, <2>3
<1>5. PICK bs : bs = {n.methods[i].begin : i \in DOMAIN n.methods}
  OBVIOUS
<1>6. CASE n.methods = <<>>
  BY <1>2, <1>3, <1>6 DEF Lines
<1>7. CASE n.methods # <<>>
  <2>1. l # 0
    <3>1. \A s : IsSequence(s) /\ Len(s) = 0 => s = <<>>
      BY DEF IsSequence
    <3> QED
      BY <1>1, <1>7, <3>1
  <2>2. bs \in SUBSET Nat /\ bs # {} /\ bs \subseteq 1..e
    <3>1. 1 \in 1..l
      BY <2>1
    <3>2. \A i \in 1..l : n.methods[i].begin \in bs
      BY <1>1, <1>5
    <3>3. \A y \in bs : \E i \in 1..l : y = n.methods[i].begin
      BY <1>1, <1>5
    <3>4. \A y \in bs : y \in 1..e
      BY <1>4, <3>3
    <3> QED
      BY <3>1, <3>2, <3>4
  <2>3. PICK x \in 1..e : x = Min(bs)
    <3>1. Min(bs) \in bs
      BY <2>2, MinIsLeast
    <3> QED
      BY <2>2, <3>1
  <2>4. n.first..(x - 1) \subseteq 1..e
    BY <1>3
  <2>5. UNION {n.methods[i].first..n.methods[i].last : i \in DOMAIN n.methods} \subseteq 1..e
    BY <1>1, <1>4
  <2>6. Lines(n) = n.first..(x - 1)
                   \cup UNION {n.methods[i].first..n.methods[i].last : i \in DOMAIN n.methods}
    BY <1>5, <1>7, <2>3 DEF Lines
  <2> QED
    BY <1>2, <2>4, <2>5, <2>6
<1> QED
  BY <1>6, <1>7

CodeWanted(d) ==
  IF d.parses /\ d.nodes # <<>> THEN UNION {Lines(d.nodes[i]) : i \in DOMAIN d.nodes}
  ELSE DOMAIN d.text

LEMMA CodeLaid ==
  ASSUME NEW d \in Documents, d.kind = "code"
  PROVE  /\ Laid(CodeSpans(d), 1, Len(d.text))
         /\ \A p \in CodeWanted(d) : \A t \in Tokens(d.text, p) : SpansHave(CodeSpans(d), t)
PROOF
<1> DEFINE each == [i \in DOMAIN d.nodes |-> ClassSpans(d, d.nodes[i])]
           spans == IF ~d.parses THEN <<>> ELSE FlattenSeq(each)
           f == [i \in DOMAIN d.nodes |-> d.nodes[i].first]
           e == [i \in DOMAIN d.nodes |-> d.nodes[i].last]
<1>1. /\ d.text \in Seq(Seq(Nat)) /\ IsSequence(d.nodes)
      /\ \A i \in 1..Len(d.nodes) : IsDefinition(d, d.nodes[i]) /\ MethodsInOrder(d.nodes[i])
  BY DocumentsAssumption
<1>2. \A i, j \in 1..Len(d.nodes) : i < j => d.nodes[i].last <= d.nodes[j].first
  BY DocumentsAssumption
<1>3. PICK l \in Nat : l = Len(d.nodes) /\ DOMAIN d.nodes = 1..l
  BY <1>1 DEF IsSequence
<1>4. PICK w \in Nat : w = Len(d.text) /\ DOMAIN d.text = 1..w
  BY <1>1
<1>5. ASSUME NEW i \in 1..l
      PROVE  /\ f[i] = d.nodes[i].first /\ e[i] = d.nodes[i].last
             /\ f[i] \in Int /\ e[i] \in Int /\ 1 <= f[i] /\ e[i] <= w
             /\ Laid(ClassSpans(d, d.nodes[i]), f[i], e[i])
             /\ \A p \in Lines(d.nodes[i]) : \A t \in Tokens(d.text, p) :
                  SpansHave(ClassSpans(d, d.nodes[i]), t)
             /\ Lines(d.nodes[i]) \subseteq 1..w
  <2>1. PICK n : n = d.nodes[i] /\ IsDefinition(d, n) /\ MethodsInOrder(n)
    BY <1>1, <1>3
  <2>2. n.first \in Nat \ {0} /\ n.last \in 0..w
    BY <1>4, <2>1 DEF IsDefinition, Within
  <2>3. f[i] = n.first /\ e[i] = n.last
    BY <1>3, <2>1
  <2>4. /\ Laid(ClassSpans(d, n), n.first, n.last)
        /\ \A p \in Lines(n) : \A t \in Tokens(d.text, p) : SpansHave(ClassSpans(d, n), t)
    BY <1>1, <2>1, ClassLaid
  <2>5. Lines(n) \subseteq 1..w
    BY <1>1, <1>4, <2>1, LinesWithin
  <2> HIDE DEF f, e
  <2> QED
    BY <2>1, <2>2, <2>3, <2>4, <2>5
<1>6. /\ each = [i \in 1..l |-> each[i]]
      /\ \A i \in 1..l : each[i] = ClassSpans(d, d.nodes[i])
  BY <1>3
<1>7. CodeSpans(d) = IF spans = <<>> THEN <<LinesSpan(d, 1, Len(d.text), 0)>> ELSE spans
  BY DEF CodeSpans
<1> HIDE DEF each, f, e
<1>8. IsSequence(each) /\ Len(each) = l
  <2>1. l \in Int /\ ~(l < 0)
    OBVIOUS
  <2> QED
    BY <1>6, <2>1, ListOf
<1>9. \A i, j \in 1..l : i < j => e[i] <= f[j]
  BY <1>2, <1>3, <1>5
<1>10. PICK flat : flat = FlattenSeq(each)
  OBVIOUS
<1>11. /\ Laid(flat, 1, w)
       /\ \A i \in 1..l : \A t : SpansHave(each[i], t) => SpansHave(flat, t)
  <2>1. \A i \in 1..Len(each) : f[i] \in Int /\ e[i] \in Int /\ 1 <= f[i] /\ e[i] <= w
    BY <1>5, <1>8
  <2>2. \A i, j \in 1..Len(each) : i < j => e[i] <= f[j]
    BY <1>8, <1>9
  <2>3. \A i \in 1..Len(each) : Laid(each[i], f[i], e[i])
    BY <1>5, <1>6, <1>8
  <2>4. Apart(each, f, e, 1, w)
    BY <1>8, <2>1, <2>2, <2>3 DEF Apart
  <2>5. Laid(FlattenSeq(each), 1, w) /\ HaveAll(each, FlattenSeq(each))
    BY <2>4, FlattenLaid
  <2> QED
    BY <1>8, <1>10, <2>5 DEF HaveAll
<1>12. CASE spans = <<>>
  <2>1. PICK s : s = LinesSpan(d, 1, w, 0)
    OBVIOUS
  <2>2. 1 \in Nat \ {0} /\ w \in 0..Len(d.text) /\ 0 \in Nat
    BY <1>4
  <2>3. /\ Lies(s, 1, w)
        /\ \A p \in 1..w : \A t \in Tokens(d.text, p) : HasToken(s.units, t)
    BY <1>1, <2>1, <2>2, LinesLie
  <2>4. CodeSpans(d) = <<s>>
    BY <1>4, <1>7, <1>12, <2>1
  <2>5. CodeWanted(d) \subseteq 1..w
    BY <1>3, <1>4, <1>5 DEF CodeWanted
  <2> QED
    BY <1>4, <2>3, <2>4, <2>5, LaidOne
<1>13. CASE spans # <<>>
  <2>1. d.parses /\ CodeSpans(d) = flat /\ flat # <<>>
    BY <1>7, <1>10, <1>13
  <2>2. d.nodes # <<>>
    <3> SUFFICES ASSUME d.nodes = <<>> PROVE FALSE
      OBVIOUS
    <3>1. Len(each) = 0
      BY <1>3, <1>8
    <3>2. 1..Len(each) = {}
      BY <3>1
    <3>3. IsSequence(flat) /\ 1..Len(flat) = {}
      BY <1>8, <1>10, <3>2, FlattenElements
    <3>4. PICK m \in Nat : m = Len(flat) /\ 1..m = {} /\ flat = [i \in 1..m |-> flat[i]]
      BY <3>3 DEF IsSequence
    <3>5. m = 0
      BY <3>4
    <3>6. flat = <<>>
      BY <3>4, <3>5
    <3> QED
      BY <2>1, <3>6
  <2>3. ASSUME NEW p \in CodeWanted(d), NEW t \in Tokens(d.text, p) PROVE SpansHave(flat, t)
    <3>1. PICK i \in 1..l : p \in Lines(d.nodes[i])
      BY <1>3, <2>1, <2>2 DEF CodeWanted
    <3> QED
      BY <1>5, <1>6, <1>11, <3>1
  <2> QED
    BY <1>4, <1>11, <2>1, <2>3
<1> QED
  BY <1>12, <1>13

\* Comments, one after the other, behind the body.
CommentsLie(d, hs) ==
  /\ IsSequence(hs)
  /\ \A i \in 1..Len(hs) : IsComment(d, hs[i]) /\ d.body < hs[i].first /\ hs[i].first <= hs[i].last
  /\ \A i, j \in 1..Len(hs) : i < j => hs[i].last < hs[j].first

LEMMA HumanLies ==
  ASSUME NEW d \in Documents, d.kind = "issue"
  PROVE  CommentsLie(d, Human(d))
PROOF
<1> DEFINE one(c) == IF c.bot THEN <<>> ELSE <<c>>
           each == [i \in DOMAIN d.comments |-> one(d.comments[i])]
           U == {d.comments[i] : i \in DOMAIN d.comments}
           R == {p \in U \X U : p[1].last < p[2].first}
<1>1. /\ IsSequence(d.comments) /\ \A i \in 1..Len(d.comments) : IsComment(d, d.comments[i])
      /\ CommentsInOrder(d)
  BY DocumentsAssumption
<1>2. PICK l \in Nat : l = Len(d.comments) /\ DOMAIN d.comments = 1..l
  BY <1>1 DEF IsSequence
<1>3. \A i \in 1..l : d.comments[i] \in U
  BY <1>2
<1>4. \A x, y \in U : x.last < y.first <=> <<x, y>> \in R
  OBVIOUS
<1>5. /\ each = [i \in 1..l |-> each[i]]
      /\ \A i \in 1..l : each[i] = one(d.comments[i])
  BY <1>2
<1>6. Human(d) = FlattenSeq(each)
  BY DEF Human
<1> HIDE DEF each, U, R
<1>7. IsSequence(each) /\ Len(each) = l
  <2>1. l \in Int /\ ~(l < 0)
    OBVIOUS
  <2> QED
    BY <1>5, <2>1, ListOf
<1>8. ASSUME NEW i \in 1..l
      PROVE  /\ IsSequence(each[i])
             /\ Ordered(each[i], R)
             /\ \A k \in 1..Len(each[i]) : each[i][k] = d.comments[i] /\ ~d.comments[i].bot
  <2>1. PICK c, o : c = d.comments[i] /\ o = each[i] /\ o = IF c.bot THEN <<>> ELSE <<c>>
    BY <1>5
  <2>2. CASE c.bot
    <3>1. IsSequence(o) /\ 1..Len(o) = {}
      BY <2>1, <2>2 DEF IsSequence
    <3> QED
      BY <2>1, <3>1 DEF Ordered
  <2>3. CASE ~c.bot
    <3>1. IsSequence(o) /\ Len(o) = 1 /\ o[1] = c
      BY <2>1, <2>3 DEF IsSequence
    <3>2. \A k \in 1..Len(o) : k = 1
      BY <3>1
    <3>3. \A j, k \in 1..Len(o) : ~(j < k)
      BY <3>2
    <3>4. Ordered(o, R)
      BY <3>1, <3>3 DEF Ordered
    <3> QED
      BY <2>1, <2>3, <3>1, <3>2, <3>4
  <2> QED
    BY <2>2, <2>3
<1> HIDE DEF one
<1>9. PICK flat : flat = FlattenSeq(each)
  OBVIOUS
<1>10. Ordered(flat, R)
  <2>1. \A i, j \in 1..Len(each) : i < j =>
          \A k \in 1..Len(each[i]) : \A m \in 1..Len(each[j]) : <<each[i][k], each[j][m]>> \in R
    <3> SUFFICES ASSUME NEW i \in 1..Len(each), NEW j \in 1..Len(each), i < j,
                        NEW k \in 1..Len(each[i]), NEW m \in 1..Len(each[j])
                 PROVE  <<each[i][k], each[j][m]>> \in R
      OBVIOUS
    <3>1. each[i][k] = d.comments[i] /\ each[j][m] = d.comments[j]
      BY <1>7, <1>8
    <3>2. d.comments[i].last < d.comments[j].first
      BY <1>1, <1>2, <1>7 DEF CommentsInOrder
    <3> QED
      BY <1>3, <1>4, <1>7, <3>1, <3>2
  <2>2. \A i \in 1..Len(each) : Ordered(each[i], R)
    BY <1>7, <1>8
  <2>3. IsSequence(each)
    BY <1>7
  <2> QED
    BY <1>9, <2>1, <2>2, <2>3, FlattenOrdered
<1>11. ASSUME NEW k \in 1..Len(flat)
       PROVE  flat[k] \in U /\ IsComment(d, flat[k]) /\ d.body < flat[k].first
              /\ flat[k].first <= flat[k].last
  <2>1. PICK i \in 1..Len(each) : \E j \in 1..Len(each[i]) : flat[k] = each[i][j]
    <3>1. \A i \in 1..Len(each) : IsSequence(each[i])
      BY <1>7, <1>8
    <3> QED
      BY <1>7, <1>9, <3>1, FlattenElements
  <2>2. i \in 1..l /\ flat[k] = d.comments[i] /\ ~d.comments[i].bot
    BY <1>7, <1>8, <2>1
  <2>3. d.body < d.comments[i].first /\ d.comments[i].first <= d.comments[i].last
    BY <1>1, <1>2, <2>2 DEF CommentsInOrder
  <2> QED
    BY <1>1, <1>2, <1>3, <2>2, <2>3
<1>12. \A i, j \in 1..Len(flat) : i < j => flat[i].last < flat[j].first
  BY <1>4, <1>10, <1>11 DEF Ordered
<1>13. IsSequence(flat)
  BY <1>10 DEF Ordered
<1> QED
  BY <1>6, <1>9, <1>11, <1>12, <1>13 DEF CommentsLie

\* A range ends before the next starts.
LEMMA RangesApart ==
  ASSUME NEW text \in Seq(Seq(Nat)),
         NEW a \in Nat \ {0}, NEW b \in 0..Len(text), a <= b,
         NEW c \in Nat \ {0}, NEW e \in 0..Len(text), c <= e, b < c
  PROVE  /\ Start(text, b + 1) \in Int /\ Start(text, c) \in Int
         /\ Start(text, b + 1) <= Start(text, c) /\ a <= c
PROOF
<1>1. PICK w \in Nat : w = Len(text)
  OBVIOUS
<1>2. PICK x \in Int : x = b + 1
  BY <1>1
<1>3. x \in 1..(w + 1) /\ c \in 1..(w + 1) /\ x <= c /\ a <= c
  BY <1>1, <1>2
<1>4. Start(text, x) \in Nat /\ Start(text, c) \in Nat
  BY <1>1, <1>3, Starts
<1>5. Start(text, x) <= Start(text, c)
  BY <1>1, <1>3, Starts
<1> QED
  BY <1>2, <1>3, <1>4, <1>5

\* Units that tell the comments from lo to hi.
Tells(d, hs, us, lo, hi) ==
  /\ InLine(us)
  /\ \A k \in 1..Len(us) : \E i \in lo..hi : us[k].line = hs[i].first
  /\ \A i \in lo..hi : \A p \in hs[i].first..hs[i].last :
       \A t \in Tokens(d.text, p) : HasToken(us, t)

\* The units of comments, one after the other.
LEMMA RunLies ==
  ASSUME NEW d, d.text \in Seq(Seq(Nat)), d.thread \in Nat, NEW hs, CommentsLie(d, hs),
         NEW us, us = FlattenSeq([i \in DOMAIN hs |-> Rendered(d, hs[i])])
  PROVE  Tells(d, hs, us, 1, Len(hs))
PROOF
<1>1. PICK l \in Nat : l = Len(hs) /\ DOMAIN hs = 1..l
  BY DEF CommentsLie, IsSequence
<1>2. PICK each : each = [i \in DOMAIN hs |-> Rendered(d, hs[i])]
  OBVIOUS
<1>3. /\ each = [i \in 1..l |-> each[i]]
      /\ \A i \in 1..l : each[i] = Rendered(d, hs[i])
  BY <1>1, <1>2
<1>4. IsSequence(each) /\ Len(each) = l
  <2>1. l \in Int /\ ~(l < 0)
    OBVIOUS
  <2> QED
    BY <1>3, <2>1, ListOf
<1>5. ASSUME NEW i \in 1..l
      PROVE  /\ hs[i].first \in Nat \ {0} /\ hs[i].last \in 0..Len(d.text) /\ hs[i].first <= hs[i].last
             /\ Cut(each[i], Start(d.text, hs[i].first), Start(d.text, hs[i].last + 1),
                    hs[i].first, hs[i].first)
  <2>1. PICK c : c = hs[i]
    OBVIOUS
  <2>2. IsComment(d, c) /\ c.first <= c.last
    BY <1>1, <2>1 DEF CommentsLie
  <2>3. Cut(Rendered(d, c), Start(d.text, c.first), Start(d.text, c.last + 1), c.first, c.first)
    BY <2>2, RenderedCuts
  <2>4. c.first \in Nat \ {0} /\ c.last \in 0..Len(d.text)
    BY <2>2 DEF IsComment, Within
  <2> QED
    BY <1>3, <2>1, <2>2, <2>3, <2>4
<1>6. ASSUME NEW i \in 1..l, NEW j \in 1..l, i < j,
             NEW k \in 1..Len(each[i]), NEW m \in 1..Len(each[j])
      PROVE  NotAfter(each[i][k], each[j][m])
  <2>1. PICK u, v : u = each[i][k] /\ v = each[j][m]
    OBVIOUS
  <2>2. hs[i].last < hs[j].first
    BY <1>1, <1>6 DEF CommentsLie
  <2>3. PICK a \in Nat \ {0}, b \in 0..Len(d.text), c \in Nat \ {0}, e \in 0..Len(d.text) :
          a = hs[i].first /\ b = hs[i].last /\ c = hs[j].first /\ e = hs[j].last
    BY <1>5
  <2>4. a <= b /\ c <= e /\ b < c
    BY <1>5, <2>2, <2>3
  <2>5. PICK x, y : x = Start(d.text, b + 1) /\ y = Start(d.text, c)
    OBVIOUS
  <2>6. x \in Int /\ y \in Int /\ x <= y /\ a <= c
    BY <2>4, <2>5, RangesApart
  <2>7. Cut(each[i], Start(d.text, a), x, a, a) /\ Cut(each[j], y, Start(d.text, e + 1), c, c)
    BY <1>5, <2>3, <2>5
  <2>8. IsUnit(u) /\ u.to <= x /\ a <= u.line /\ u.line <= a
    BY <2>1, <2>7 DEF Cut, InLine
  <2>9. IsUnit(v) /\ y <= v.from /\ c <= v.line /\ v.line <= c
    BY <2>1, <2>7 DEF Cut, InLine
  <2>10. u.line <= v.line
    <3>1. PICK p \in Int, q \in Int : p = u.line /\ q = v.line
      BY <2>8, <2>9 DEF IsUnit
    <3>2. p <= a /\ a <= c /\ c <= q
      BY <2>6, <2>8, <2>9, <3>1
    <3>3. p <= q
      BY <2>3, <3>1, <3>2
    <3> QED
      BY <3>1, <3>3
  <2> QED
    BY <2>1, <2>6, <2>8, <2>9, <2>10, BoundBetween
<1>7. PICK flat : flat = FlattenSeq(each)
  OBVIOUS
<1>8. /\ InLine(flat)
      /\ \A k \in 1..Len(flat) : \E i \in 1..Len(each) : \E j \in 1..Len(each[i]) : flat[k] = each[i][j]
      /\ \A i \in 1..Len(each) : \A t : HasToken(each[i], t) => HasToken(flat, t)
  <2>1. \A i \in 1..Len(each) : InLine(each[i])
    BY <1>4, <1>5 DEF Cut
  <2>2. \A i, j \in 1..Len(each) : i < j =>
          \A k \in 1..Len(each[i]) : \A m \in 1..Len(each[j]) : NotAfter(each[i][k], each[j][m])
    BY <1>4, <1>6
  <2>3. IsSequence(each)
    BY <1>4
  <2> QED
    BY <1>7, <2>1, <2>2, <2>3, FlattenInLine
<1>9. ASSUME NEW k \in 1..Len(flat) PROVE \E i \in 1..l : flat[k].line = hs[i].first
  <2>1. PICK i \in 1..l : \E j \in 1..Len(each[i]) : flat[k] = each[i][j]
    BY <1>4, <1>8
  <2>2. PICK j \in 1..Len(each[i]) : flat[k] = each[i][j]
    BY <2>1
  <2>3. PICK u : u = each[i][j]
    OBVIOUS
  <2>4. IsUnit(u) /\ hs[i].first <= u.line /\ u.line <= hs[i].first
    BY <1>5, <2>3 DEF Cut, InLine
  <2>5. PICK p \in Int, q \in Int : p = u.line /\ q = hs[i].first
    BY <1>5, <2>4, SMTT(15) DEF IsUnit
  <2>6. p = q
    BY <2>4, <2>5
  <2> QED
    BY <2>2, <2>3, <2>5, <2>6
<1>10. ASSUME NEW i \in 1..l, NEW p \in hs[i].first..hs[i].last, NEW t \in Tokens(d.text, p)
       PROVE  HasToken(flat, t)
  <2>1. PICK first \in Nat \ {0}, last \in 0..Len(d.text) : first = hs[i].first /\ last = hs[i].last
    BY <1>5
  <2>2. t \in Int /\ Start(d.text, first) <= t /\ t < Start(d.text, last + 1)
    BY <2>1, TokenBetween
  <2>3. HasToken(each[i], t)
    BY <1>5, <2>1, <2>2 DEF Cut
  <2> QED
    BY <1>4, <1>8, <2>3
<1> QED
  BY <1>1, <1>2, <1>7, <1>8, <1>9, <1>10 DEF Tells

\* The n elements of s from lo to hi.
IsPart(cut, s, lo, hi, n) ==
  /\ IsSequence(cut) /\ Len(cut) = n /\ n \in Nat
  /\ \A k \in 1..n : lo + k - 1 \in lo..hi /\ cut[k] = s[lo + k - 1]

LEMMA PlacesInPart ==
  ASSUME NEW s, IsSequence(s), NEW lo \in Nat \ {0}, NEW hi \in Nat, lo <= hi, hi <= Len(s),
         NEW cut, cut = SubSeq(s, lo, hi), NEW n, n = hi - lo + 1
  PROVE  IsPart(cut, s, lo, hi, n)
PROOF
<1> DEFINE V == {s[i] : i \in 1..Len(s)}
<1>1. s \in Seq(V) /\ Len(s) \in Nat
  BY DEF IsSequence
<1>2. \A i \in lo..hi : s[i] \in V
  BY <1>1
<1> HIDE DEF V
<1>3. cut \in Seq(V)
  BY <1>1, <1>2, SubSeqProperties
<1>4. IsSequence(cut)
  BY <1>3, SequenceOf
<1>5. Len(cut) = n /\ n \in Nat
  BY <1>1
<1>6. \A k \in 1..n : lo + k - 1 \in lo..hi /\ cut[k] = s[lo + k - 1]
  BY <1>1
<1> QED
  BY <1>4, <1>5, <1>6 DEF IsPart

\* A run of the comments.
IsRun(d, hs, lo, hi, run) ==
  /\ CommentsLie(d, run)
  /\ \A k \in 1..Len(run) : \E i \in lo..hi : run[k] = hs[i]
  /\ \A i \in lo..hi : \E k \in 1..Len(run) : run[k] = hs[i]

LEMMA CommentsPart ==
  ASSUME NEW d, NEW hs, CommentsLie(d, hs), NEW lo \in Nat \ {0}, NEW hi \in Nat, lo <= hi,
         hi <= Len(hs), NEW run, run = SubSeq(hs, lo, hi)
  PROVE  IsRun(d, hs, lo, hi, run)
PROOF
<1>1. PICK n : n = hi - lo + 1
  OBVIOUS
<1>2. IsSequence(hs) /\ Len(hs) \in Nat
  BY DEF CommentsLie, IsSequence
<1>3. /\ IsSequence(run) /\ Len(run) = n /\ n \in Nat
      /\ \A k \in 1..n : lo + k - 1 \in lo..hi /\ run[k] = hs[lo + k - 1]
  <2>1. IsPart(run, hs, lo, hi, n)
    BY <1>1, <1>2, PlacesInPart
  <2> QED
    BY <2>1 DEF IsPart
<1>4. ASSUME NEW k \in 1..n PROVE \E i \in lo..hi : run[k] = hs[i]
  BY <1>3
<1>5. ASSUME NEW i \in lo..hi PROVE \E k \in 1..n : run[k] = hs[i]
  <2>1. PICK k \in 1..n : k = i - lo + 1
    BY <1>1
  <2>2. lo + k - 1 = i
    BY <2>1
  <2> QED
    BY <1>3, <2>2
<1>6. ASSUME NEW k \in 1..n
      PROVE  IsComment(d, run[k]) /\ d.body < run[k].first /\ run[k].first <= run[k].last
  <2>1. PICK i \in lo..hi : run[k] = hs[i]
    BY <1>4
  <2>2. i \in 1..Len(hs)
    BY <1>2
  <2> QED
    BY <2>1, <2>2 DEF CommentsLie
<1>7. ASSUME NEW j \in 1..n, NEW k \in 1..n, j < k PROVE run[j].last < run[k].first
  <2>1. PICK a \in lo..hi, b \in lo..hi : a = lo + j - 1 /\ b = lo + k - 1
    BY <1>3
  <2>2. a < b /\ a \in 1..Len(hs) /\ b \in 1..Len(hs)
    BY <1>2, <1>7, <2>1
  <2>3. run[j] = hs[a] /\ run[k] = hs[b]
    BY <1>3, <2>1
  <2> QED
    BY <2>2, <2>3 DEF CommentsLie
<1>8. CommentsLie(d, run)
  BY <1>3, <1>6, <1>7 DEF CommentsLie
<1> QED
  BY <1>3, <1>4, <1>5, <1>8 DEF IsRun

\* Where the runs of a list of comments begin and end.
From(r) == (r - 1) * RunLength + 1
Upto(r, n) == Smaller(r * RunLength, n)
Runs(n) == (n + RunLength - 1) \div RunLength

LEMMA RunsCover ==
  ASSUME NEW n \in Nat
  PROVE  /\ Runs(n) \in Nat
         /\ \A r \in 1..Runs(n) : From(r) \in Nat \ {0} /\ Upto(r, n) \in Nat
                                  /\ From(r) <= Upto(r, n) /\ Upto(r, n) <= n
         /\ \A i \in 1..n : \E r \in 1..Runs(n) : i \in From(r)..Upto(r, n)
         /\ \A q, r \in 1..Runs(n) : q < r => Upto(q, n) < From(r)
PROOF
<1>1. PICK s \in Nat \ {0} : s = RunLength
  BY SizesAssumption
<1>2. PICK m : m = Runs(n)
  OBVIOUS
<1>3. m = (n + s - 1) \div s
  BY <1>1, <1>2 DEF Runs
<1>4. /\ m \in Nat
      /\ \A k \in 1..m : (k - 1) * s \in Nat /\ (k - 1) * s < n
      /\ \A x \in Nat : x < n => \E k \in 1..m : (k - 1) * s <= x /\ x < (k - 1) * s + s
      /\ \A j, k \in 1..m : j <= k => (j - 1) * s <= (k - 1) * s
  BY <1>3, Strides
<1>5. \A a, b \in Int : a * b = (a - 1) * b + b
  OBVIOUS
<1>6. ASSUME NEW r \in 1..m
      PROVE  \E a \in Nat : /\ a = (r - 1) * s /\ a < n
                            /\ From(r) = a + 1
                            /\ Upto(r, n) = IF a + s > n THEN n ELSE a + s
  <2>1. PICK a \in Nat : a = (r - 1) * s /\ a < n
    BY <1>4
  <2>2. r * s = a + s
    BY <1>4, <1>5, <2>1
  <2>3. PICK b : b = a + s
    OBVIOUS
  <2>4. From(r) = a + 1
    BY <1>1, <2>1 DEF From
  <2>5. Upto(r, n) = IF b < n THEN b ELSE n
    BY <1>1, <2>2, <2>3 DEF Upto, Smaller
  <2>6. (IF b < n THEN b ELSE n) = IF b > n THEN n ELSE b
    BY <2>3
  <2> QED
    BY <2>1, <2>3, <2>4, <2>5, <2>6
<1>7. ASSUME NEW r \in 1..m
      PROVE  From(r) \in Nat \ {0} /\ Upto(r, n) \in Nat /\ From(r) <= Upto(r, n) /\ Upto(r, n) <= n
  BY <1>6
<1>8. ASSUME NEW i \in 1..n PROVE \E r \in 1..m : i \in From(r)..Upto(r, n)
  <2>1. PICK x \in Nat : x = i - 1 /\ x < n
    OBVIOUS
  <2>2. PICK r \in 1..m : (r - 1) * s <= x /\ x < (r - 1) * s + s
    BY <1>4, <2>1
  <2>3. PICK a \in Nat : /\ a = (r - 1) * s
                         /\ From(r) = a + 1 /\ Upto(r, n) = IF a + s > n THEN n ELSE a + s
    BY <1>6
  <2>4. a <= x /\ x < a + s
    BY <2>2, <2>3
  <2>5. i \in From(r)..Upto(r, n)
    BY <2>1, <2>3, <2>4
  <2> QED
    BY <2>5
<1>9. ASSUME NEW q \in 1..m, NEW r \in 1..m, q < r PROVE Upto(q, n) < From(r)
  <2>1. PICK a \in Nat : /\ a = (q - 1) * s
                         /\ Upto(q, n) = IF a + s > n THEN n ELSE a + s
    BY <1>6
  <2>2. PICK b \in Nat : b = (r - 1) * s /\ From(r) = b + 1
    BY <1>6
  <2>3. PICK p \in 1..m : p = q + 1 /\ p <= r
    BY <1>4, <1>9
  <2>4. (p - 1) * s <= b
    BY <1>4, <2>2, <2>3
  <2>5. (p - 1) * s = a + s
    <3>1. p - 1 = q /\ q \in Int
      BY <1>4, <2>3
    <3>2. q * s = a + s
      BY <1>5, <2>1, <3>1
    <3> QED
      BY <3>1, <3>2
  <2>6. a + s <= b
    BY <2>4, <2>5
  <2> QED
    BY <2>1, <2>2, <2>6
<1> QED
  BY <1>2, <1>4, <1>7, <1>8, <1>9

\* What one run makes of the comments from lo to hi.
LEMMA RunTells ==
  ASSUME NEW d, d.text \in Seq(Seq(Nat)), d.thread \in Nat, NEW hs, CommentsLie(d, hs),
         NEW lo \in Nat \ {0}, NEW hi \in Nat, lo <= hi, hi <= Len(hs),
         NEW run, run = SubSeq(hs, lo, hi),
         NEW us, us = FlattenSeq([i \in DOMAIN run |-> Rendered(d, run[i])])
  PROVE  Tells(d, hs, us, lo, hi)
PROOF
<1>1. /\ CommentsLie(d, run)
      /\ \A k \in 1..Len(run) : \E i \in lo..hi : run[k] = hs[i]
      /\ \A i \in lo..hi : \E k \in 1..Len(run) : run[k] = hs[i]
  <2>1. IsRun(d, hs, lo, hi, run)
    BY CommentsPart
  <2> QED
    BY <2>1 DEF IsRun
<1>2. /\ InLine(us)
      /\ \A k \in 1..Len(us) : \E i \in 1..Len(run) : us[k].line = run[i].first
      /\ \A i \in 1..Len(run) : \A p \in run[i].first..run[i].last :
           \A t \in Tokens(d.text, p) : HasToken(us, t)
  <2>1. Tells(d, run, us, 1, Len(run))
    BY <1>1, RunLies
  <2> QED
    BY <2>1 DEF Tells
<1>3. ASSUME NEW k \in 1..Len(us) PROVE \E i \in lo..hi : us[k].line = hs[i].first
  <2>1. PICK j \in 1..Len(run) : us[k].line = run[j].first
    BY <1>2
  <2>2. PICK i \in lo..hi : run[j] = hs[i]
    BY <1>1
  <2> QED
    BY <2>1, <2>2
<1>4. ASSUME NEW i \in lo..hi, NEW p \in hs[i].first..hs[i].last, NEW t \in Tokens(d.text, p)
      PROVE  HasToken(us, t)
  <2>1. PICK k \in 1..Len(run) : run[k] = hs[i]
    BY <1>1
  <2> QED
    BY <1>2, <2>1
<1> QED
  BY <1>2, <1>3, <1>4 DEF Tells

\* The threads lie behind the body, and have every comment of a person.
LEMMA ThreadsLaid ==
  ASSUME NEW d \in Documents, d.kind = "issue", NEW hs, hs = Human(d)
  PROVE  /\ Laid(ThreadSpans(d), d.body, Len(d.text))
         /\ \A i \in 1..Len(hs) : \A p \in hs[i].first..hs[i].last :
              \A t \in Tokens(d.text, p) : SpansHave(ThreadSpans(d), t)
PROOF
<1>1. d.text \in Seq(Seq(Nat)) /\ d.thread \in Nat /\ d.body \in Nat
  BY DocumentsAssumption
<1>2. PICK w \in Nat : w = Len(d.text)
  BY <1>1
<1>3. CommentsLie(d, hs)
  BY HumanLies
<1>4. PICK l \in Nat : l = Len(hs)
  BY <1>3 DEF CommentsLie, IsSequence
<1>5. PICK n : n = Runs(l)
  OBVIOUS
<1>6. /\ n \in Nat
      /\ \A r \in 1..n : From(r) \in Nat \ {0} /\ Upto(r, l) \in Nat
                         /\ From(r) <= Upto(r, l) /\ Upto(r, l) <= l
      /\ \A i \in 1..l : \E r \in 1..n : i \in From(r)..Upto(r, l)
      /\ \A q, r \in 1..n : q < r => Upto(q, l) < From(r)
  BY <1>5, RunsCover
<1> DEFINE run(r) == SubSeq(hs, From(r), Upto(r, l))
           units(r) == FlattenSeq([i \in DOMAIN run(r) |-> Rendered(d, run(r)[i])])
<1>7. PICK ss : ss = ThreadSpans(d)
  OBVIOUS
<1>8. ss = [r \in 1..n |-> SpanOf("comment", <<>>, d.thread, units(r))]
  BY <1>4, <1>5, <1>7 DEF ThreadSpans, From, Upto, Runs
<1>9. ASSUME NEW r \in 1..n PROVE Tells(d, hs, ss[r].units, From(r), Upto(r, l))
  <2>1. PICK rr, us : rr = run(r) /\ us = units(r)
    OBVIOUS
  <2>2. ss[r] = SpanOf("comment", <<>>, d.thread, units(r))
    BY <1>8
  <2>3. us = FlattenSeq([i \in DOMAIN rr |-> Rendered(d, rr[i])])
    BY <2>1
  <2>4. PICK lo \in Nat \ {0}, hi \in Nat : /\ lo = From(r) /\ hi = Upto(r, l)
                                            /\ lo <= hi /\ hi <= Len(hs)
    BY <1>4, <1>6
  <2>5. rr = SubSeq(hs, lo, hi)
    BY <2>1, <2>4
  <2> HIDE DEF run, units
  <2>6. Tells(d, hs, us, lo, hi)
    BY <1>1, <1>3, <2>3, <2>4, <2>5, RunTells
  <2>7. ss[r].units = us
    BY <2>1, <2>2 DEF SpanOf
  <2> QED
    BY <2>4, <2>6, <2>7
<1>10. ss = [r \in 1..n |-> ss[r]]
  BY <1>8
<1> HIDE DEF run, units
<1>11. IsSequence(ss) /\ Len(ss) = n
  <2>1. n \in Int /\ ~(n < 0)
    BY <1>6
  <2> QED
    BY <1>10, <2>1, ListOf
<1>12. ASSUME NEW i \in 1..l
       PROVE  /\ hs[i].first \in Int /\ hs[i].last \in Int /\ hs[i].first <= hs[i].last
              /\ d.body <= hs[i].first /\ hs[i].first <= w
  <2>1. PICK c : c = hs[i]
    OBVIOUS
  <2>2. IsComment(d, c) /\ d.body < c.first /\ c.first <= c.last
    BY <1>3, <1>4, <2>1 DEF CommentsLie
  <2>3. c.first \in Nat /\ c.last \in Nat /\ c.last <= w
    BY <1>2, <2>2 DEF IsComment, Within
  <2>4. PICK a \in Nat, b \in Nat : a = c.first /\ b = c.last
    BY <2>3
  <2>5. d.body <= a /\ a <= w /\ a <= b
    BY <1>1, <2>2, <2>3, <2>4
  <2> QED
    BY <2>1, <2>4, <2>5
<1>13. ASSUME NEW i \in 1..l, NEW j \in 1..l, i < j PROVE hs[i].first <= hs[j].first
  <2>1. hs[i].last < hs[j].first
    BY <1>3, <1>4, <1>13 DEF CommentsLie
  <2>2. PICK a \in Int, b \in Int, c \in Int : a = hs[i].first /\ b = hs[i].last /\ c = hs[j].first
    BY <1>12
  <2>3. a <= b /\ b < c
    BY <1>12, <2>1, <2>2
  <2>4. a <= c
    BY <2>3
  <2> QED
    BY <2>2, <2>4
<1>14. ASSUME NEW r \in 1..n PROVE Lies(ss[r], d.body, w)
  <2>1. ASSUME NEW k \in 1..Len(ss[r].units)
        PROVE  d.body <= ss[r].units[k].line /\ ss[r].units[k].line <= w
    <3>1. PICK i \in From(r)..Upto(r, l) : ss[r].units[k].line = hs[i].first
      BY <1>9 DEF Tells
    <3>2. i \in 1..l
      BY <1>6
    <3> QED
      BY <1>12, <3>1, <3>2
  <2> QED
    BY <1>9, <2>1 DEF Lies, Tells
<1>15. ASSUME NEW q \in 1..n, NEW r \in 1..n, q < r PROVE Precedes(ss[q], ss[r])
  <2> SUFFICES ASSUME NEW k \in 1..Len(ss[q].units), NEW m \in 1..Len(ss[r].units)
               PROVE  ss[q].units[k].line <= ss[r].units[m].line
    BY DEF Precedes
  <2>1. PICK i \in From(q)..Upto(q, l) : ss[q].units[k].line = hs[i].first
    BY <1>9 DEF Tells
  <2>2. PICK j \in From(r)..Upto(r, l) : ss[r].units[m].line = hs[j].first
    BY <1>9 DEF Tells
  <2>3. i \in 1..l /\ j \in 1..l /\ i < j
    <3>1. PICK a \in Nat \ {0}, b \in Nat, c \in Nat \ {0}, e \in Nat :
            /\ a = From(q) /\ b = Upto(q, l) /\ c = From(r) /\ e = Upto(r, l)
            /\ b < c /\ b <= l /\ e <= l
      BY <1>6, <1>15
    <3>2. i \in a..b /\ j \in c..e
      BY <3>1
    <3> QED
      BY <3>1, <3>2
  <2> QED
    BY <1>13, <2>1, <2>2, <2>3
<1>16. Laid(ss, d.body, w)
  BY <1>11, <1>14, <1>15 DEF Laid
<1>17. ASSUME NEW i \in 1..l, NEW p \in hs[i].first..hs[i].last, NEW t \in Tokens(d.text, p)
       PROVE  SpansHave(ss, t)
  <2>1. PICK r \in 1..n : i \in From(r)..Upto(r, l)
    BY <1>6
  <2>2. HasToken(ss[r].units, t)
    BY <1>9, <2>1 DEF Tells
  <2> QED
    BY <1>11, <2>2 DEF SpansHave
<1> QED
  BY <1>2, <1>4, <1>7, <1>16, <1>17

IssueWanted(d) ==
  (1..d.body) \cup UNION {Human(d)[i].first..Human(d)[i].last : i \in DOMAIN Human(d)}

LEMMA IssueLaid ==
  ASSUME NEW d \in Documents, d.kind = "issue"
  PROVE  /\ Laid(<<BodySpan(d)>> \o ThreadSpans(d), 0, Len(d.text))
         /\ \A p \in IssueWanted(d) : \A t \in Tokens(d.text, p) :
              SpansHave(<<BodySpan(d)>> \o ThreadSpans(d), t)
PROOF
<1>1. /\ d.text \in Seq(Seq(Nat)) /\ d.header \in Nat /\ d.body \in 0..Len(d.text)
      /\ 1 \in Nat \ {0}
  BY DocumentsAssumption
<1>2. PICK w \in Nat, b \in Nat : w = Len(d.text) /\ b = d.body /\ b <= w
  BY <1>1
<1>3. PICK s, max : s = BodySpan(d) /\ max = Budget(d.header)
  OBVIOUS
<1>4. max \in Nat \ {0}
  BY <1>1, <1>3, BudgetNat
<1>5. s.units = UnitsOf(d.text, 1, d.body, max)
  BY <1>3 DEF BodySpan, SpanOf
<1>6. /\ Lies(s, 1, d.body)
      /\ \A p \in 1..d.body : \A t \in Tokens(d.text, p) : HasToken(s.units, t)
  BY <1>1, <1>4, <1>5, RangeLies
<1>7. Lies(s, 0, b)
  <2>1. 0 \in Int /\ 1 \in Int /\ b \in Int /\ 0 <= 1 /\ b <= b /\ Lies(s, 1, b)
    BY <1>2, <1>6
  <2> QED
    BY <2>1, LiesWider
<1>8. Laid(<<s>>, 0, b) /\ \A t : HasToken(s.units, t) => SpansHave(<<s>>, t)
  BY <1>7, LaidOne
<1>9. PICK hs, ss : hs = Human(d) /\ ss = ThreadSpans(d)
  OBVIOUS
<1>10. /\ Laid(ss, b, w)
       /\ \A i \in 1..Len(hs) : \A p \in hs[i].first..hs[i].last :
            \A t \in Tokens(d.text, p) : SpansHave(ss, t)
  BY <1>2, <1>9, ThreadsLaid
<1>11. PICK one, c : one = <<s>> /\ c = one \o ss
  OBVIOUS
<1>12. /\ Laid(c, 0, w)
       /\ \A t : SpansHave(one, t) \/ SpansHave(ss, t) => SpansHave(c, t)
  <2>1. 0 \in Int /\ b \in Int /\ w \in Int /\ 0 <= b /\ b <= b /\ b <= w
    BY <1>2
  <2>2. Laid(one, 0, b) /\ Laid(ss, b, w)
    BY <1>8, <1>10, <1>11
  <2> QED
    BY <1>11, <2>1, <2>2, LaidBehind
<1>13. DOMAIN hs = 1..Len(hs)
  BY <1>9, HumanLies DEF CommentsLie, IsSequence
<1>14. ASSUME NEW p \in IssueWanted(d), NEW t \in Tokens(d.text, p) PROVE SpansHave(c, t)
  <2>1. p \in 1..d.body \/ \E i \in 1..Len(hs) : p \in hs[i].first..hs[i].last
    BY <1>9, <1>13 DEF IssueWanted
  <2>2. CASE p \in 1..d.body
    <3>1. SpansHave(one, t)
      BY <1>6, <1>8, <1>11, <2>2
    <3> QED
      BY <1>12, <3>1
  <2>3. CASE \E i \in 1..Len(hs) : p \in hs[i].first..hs[i].last
    <3>1. SpansHave(ss, t)
      BY <1>10, <2>3
    <3> QED
      BY <1>12, <3>1
  <2> QED
    BY <2>1, <2>2, <2>3
<1>15. c = <<BodySpan(d)>> \o ThreadSpans(d)
  BY <1>3, <1>9, <1>11
<1> QED
  BY <1>2, <1>12, <1>14, <1>15

-----------------------------------------------------------------------------
(* The inductive invariant of NothingLost: what is wanted is in a chunk or *)
(* still to come, and what is to come is behind the chunks.                *)

\* A section, or a span, that waits, the lines it reaches, its tokens.
Waits(d, x) ==
  IF d.kind = "docs" THEN IsSection(d, x) /\ x.first <= x.last ELSE InLine(x.units)

SpanLines(s) == {s.units[k].line : k \in 1..Len(s.units)}

Reach(d, x) == IF d.kind = "docs" THEN x.first..x.last ELSE SpanLines(x)

Keeps(d, x, t) ==
  IF d.kind = "docs" THEN Start(d.text, x.first) <= t /\ t < Start(d.text, x.last + 1)
  ELSE HasToken(x.units, t)

Below(A, B) == \A a \in A : \A b \in B : a <= b

Queued(d, td) ==
  /\ IsSequence(td)
  /\ \A i \in 1..Len(td) : Waits(d, td[i])
  /\ \A i, j \in 1..Len(td) : i < j => Below(Reach(d, td[i]), Reach(d, td[j]))

\* The one x that waits before all others.
Leading(d, x, td) == Waits(d, x) /\ \A i \in 1..Len(td) : Below(Reach(d, x), Reach(d, td[i]))

AtWork(d, s, a, p, td) ==
  /\ InLine(s.units)
  /\ a \in 0..Len(s.units) /\ PackShape(p, a)
  /\ \A i \in 1..Len(td) : Below(SpanLines(s), Reach(d, td[i]))

Chunked(cs) ==
  /\ IsSequence(cs)
  /\ \A i \in 1..Len(cs) : InLine(cs[i].units)
  /\ \A i, j \in 1..Len(cs) : j = i + 1 => Leads(cs[i].units, cs[j].units)

\* The units us are behind what is at work: all of it, or every part of it.
BehindPart(us, s, p, r) == Leads(us, Picked(s.units, Parts(p)[r]))

BehindSpan(us, s, a, p) ==
  \/ Below({Last(us).line}, SpanLines(s))
  \/ a = Len(s.units) /\ \A r \in 1..Len(Parts(p)) : BehindPart(us, s, p, r)

\* The last chunk, if it has units, is behind all that is to come.
InFront(d, us, td, pend, sp, a, p) ==
  us # <<>> =>
    /\ \A i \in 1..Len(td) : Below({Last(us).line}, Reach(d, td[i]))
    /\ pend # <<>> => Below({Last(us).line}, Reach(d, pend[1]))
    /\ sp # <<>> => BehindSpan(us, sp[1], a, p)

\* A token that is in a chunk, or to come.
ToPack(s, a, p, t) ==
  \E k \in 1..Len(s.units) :
    (k > a \/ PackedIn(p, k)) /\ s.units[k].from <= t /\ t < s.units[k].to

InChunk(cs, t) == \E i \in 1..Len(cs) : HasToken(cs[i].units, t)

InQueue(d, td, t) == \E i \in 1..Len(td) : Keeps(d, td[i], t)

Held(d, td, pend, sp, a, p, cs, t) ==
  \/ InChunk(cs, t)
  \/ InQueue(d, td, t)
  \/ pend # <<>> /\ Keeps(d, pend[1], t)
  \/ sp # <<>> /\ ToPack(sp[1], a, p, t)

\* The paragraphs that are wanted, and their tokens.
ToFind(d) ==
  CASE d.kind = "docs" -> DOMAIN d.text
    [] d.kind = "code" -> CodeWanted(d)
    [] d.kind = "issue" -> IssueWanted(d)

Due(d) == UNION {Tokens(d.text, p) : p \in ToFind(d)}

Kept(d, td, pend, sp, a, p, cs) ==
  /\ d \in Documents
  /\ Queued(d, td)
  /\ pend # <<>> => pend = <<pend[1]>> /\ sp = <<>> /\ Leading(d, pend[1], td)
  /\ sp # <<>> => sp = <<sp[1]>> /\ AtWork(d, sp[1], a, p, td)
  /\ Chunked(cs)
  /\ cs # <<>> => InFront(d, Last(cs).units, td, pend, sp, a, p)
  /\ \A t \in Due(d) : Held(d, td, pend, sp, a, p, cs, t)

KeptInv ==
  /\ Kept(doc, todo, pending, span, at, pk, chunks)
  /\ doc.kind # "docs" => pending = <<>>

\* The first of a list and the others.
IsFirst(x, rest, td) ==
  /\ IsSequence(rest) /\ Len(td) \in Nat \ {0} /\ Len(rest) \in Nat /\ Len(td) = Len(rest) + 1
  /\ td[1] = x
  /\ \A i \in 1..Len(rest) : rest[i] = td[i + 1]

LEMMA FirstOf ==
  ASSUME NEW td, IsSequence(td), td # <<>>
  PROVE  IsFirst(Head(td), Tail(td), td)
PROOF
<1>1. /\ Len(td) \in Nat \ {0} /\ Head(td) = td[1]
      /\ IsSequence(Tail(td)) /\ Len(Tail(td)) = Len(td) - 1
      /\ \A i \in 1..(Len(td) - 1) : Tail(td)[i] = td[i + 1]
  BY Shortened
<1>2. PICK rest : rest = Tail(td)
  OBVIOUS
<1>3. Len(rest) \in Nat /\ Len(td) = Len(rest) + 1
  BY <1>1, <1>2
<1>4. \A i \in 1..Len(rest) : rest[i] = td[i + 1]
  BY <1>1, <1>2
<1> QED
  BY <1>1, <1>2, <1>3, <1>4 DEF IsFirst

\* Whoever is at the head of the queue leads it.
LEMMA HeadLeads ==
  ASSUME NEW d, NEW td, Queued(d, td), NEW x, NEW rest, IsFirst(x, rest, td)
  PROVE  /\ Queued(d, rest) /\ Leading(d, x, rest)
         /\ \A t : InQueue(d, td, t) => Keeps(d, x, t) \/ InQueue(d, rest, t)
PROOF
<1>1. PICK n \in Nat : n = Len(rest) /\ Len(td) = n + 1
  BY DEF IsFirst
<1>2. /\ IsSequence(rest) /\ td[1] = x
      /\ \A i \in 1..n : rest[i] = td[i + 1] /\ i + 1 \in 1..(n + 1)
      /\ 1 \in 1..(n + 1)
  BY <1>1 DEF IsFirst
<1>3. /\ \A i \in 1..(n + 1) : Waits(d, td[i])
      /\ \A i, j \in 1..(n + 1) : i < j => Below(Reach(d, td[i]), Reach(d, td[j]))
  BY <1>1 DEF Queued
<1>4. ASSUME NEW i \in 1..n PROVE Waits(d, rest[i]) /\ Below(Reach(d, x), Reach(d, rest[i]))
  <2>1. PICK j \in 1..(n + 1) : j = i + 1 /\ 1 < j
    OBVIOUS
  <2> QED
    BY <1>2, <1>3, <2>1
<1>5. ASSUME NEW i \in 1..n, NEW j \in 1..n, i < j
      PROVE  Below(Reach(d, rest[i]), Reach(d, rest[j]))
  <2>1. PICK a \in 1..(n + 1), b \in 1..(n + 1) : a = i + 1 /\ b = j + 1 /\ a < b
    BY <1>5
  <2> QED
    BY <1>2, <1>3, <2>1
<1>6. Queued(d, rest)
  BY <1>1, <1>2, <1>4, <1>5 DEF Queued
<1>7. Leading(d, x, rest)
  BY <1>1, <1>2, <1>3, <1>4 DEF Leading
<1>8. ASSUME NEW t, InQueue(d, td, t) PROVE Keeps(d, x, t) \/ InQueue(d, rest, t)
  <2>1. PICK i \in 1..(n + 1) : Keeps(d, td[i], t)
    BY <1>1, <1>8 DEF InQueue
  <2>2. CASE i = 1
    BY <1>2, <2>1, <2>2
  <2>3. CASE i # 1
    <3>1. PICK j \in 1..n : i = j + 1
      <4>1. i - 1 \in 1..n /\ i = (i - 1) + 1
        BY <2>3
      <4> QED
        BY <4>1
    <3>2. Keeps(d, rest[j], t)
      BY <1>2, <2>1, <3>1
    <3> QED
      BY <1>1, <3>2 DEF InQueue
  <2> QED
    BY <2>2, <2>3
<1> QED
  BY <1>6, <1>7, <1>8

\* The first of the queue waits alone.
LEMMA TakeKept ==
  ASSUME NEW d, NEW td, NEW a, NEW p, NEW cs, Kept(d, td, <<>>, <<>>, a, p, cs),
         NEW x, NEW rest, IsFirst(x, rest, td)
  PROVE  Kept(d, rest, <<x>>, <<>>, a, p, cs)
PROOF
<1>1. PICK none : none = <<>>
  OBVIOUS
<1>2. PICK one : one = <<x>>
  OBVIOUS
<1>3. one = <<x>> /\ one[1] = x /\ one # none /\ one = <<one[1]>>
  BY <1>2, <1>1
<1>4. Kept(d, td, none, none, a, p, cs)
  BY <1>1
<1>5. /\ d \in Documents /\ Queued(d, td) /\ Chunked(cs)
      /\ cs # none => InFront(d, Last(cs).units, td, none, none, a, p)
      /\ \A t \in Due(d) : Held(d, td, none, none, a, p, cs, t)
  BY <1>1, <1>4 DEF Kept
<1>6. /\ Queued(d, rest) /\ Leading(d, x, rest)
      /\ \A t : InQueue(d, td, t) => Keeps(d, x, t) \/ InQueue(d, rest, t)
  BY <1>5, HeadLeads
<1>7. ASSUME cs # none PROVE InFront(d, Last(cs).units, rest, one, none, a, p)
  <2>1. PICK us : us = Last(cs).units
    OBVIOUS
  <2> SUFFICES ASSUME us # <<>>
               PROVE  /\ \A i \in 1..Len(rest) : Below({Last(us).line}, Reach(d, rest[i]))
                      /\ Below({Last(us).line}, Reach(d, x))
    BY <1>1, <1>3, <2>1 DEF InFront
  <2>2. \A i \in 1..Len(td) : Below({Last(us).line}, Reach(d, td[i]))
    BY <1>5, <1>7, <2>1 DEF InFront
  <2>3. \A i \in 1..Len(rest) : rest[i] = td[i + 1] /\ i + 1 \in 1..Len(td)
    BY DEF IsFirst
  <2>4. td[1] = x /\ 1 \in 1..Len(td)
    BY DEF IsFirst
  <2> QED
    BY <2>2, <2>3, <2>4
<1>8. ASSUME NEW t \in Due(d) PROVE Held(d, rest, one, none, a, p, cs, t)
  <2>1. Held(d, td, none, none, a, p, cs, t)
    BY <1>5
  <2>2. InChunk(cs, t) \/ InQueue(d, td, t)
    BY <1>1, <2>1 DEF Held
  <2> QED
    BY <1>1, <1>3, <1>6, <2>2 DEF Held
<1> QED
  BY <1>1, <1>3, <1>5, <1>6, <1>7, <1>8 DEF Kept

LEMMA DueInt ==
  ASSUME NEW d, NEW t \in Due(d)
  PROVE  t \in Int
PROOF
<1>1. PICK p : t \in Tokens(d.text, p)
  BY DEF Due
<1>2. PICK a, b : t \in a..b
  BY <1>1 DEF Tokens
<1> QED
  BY <1>2

\* The section x with the text of q before it.
Joined(q, x) == [x EXCEPT !.first = q.first, !.anchor = <<>>]

\* Two sections that are merged reach from the one to the end of the other.
LEMMA MergedWaits ==
  ASSUME NEW d \in Documents, d.kind = "docs", NEW q, Waits(d, q), NEW x, Waits(d, x),
         Below(Reach(d, q), Reach(d, x)),
         NEW m, m = Joined(q, x)
  PROVE  /\ Waits(d, m)
         /\ \A t \in Int : Keeps(d, q, t) \/ Keeps(d, x, t) => Keeps(d, m, t)
         /\ \A B \in SUBSET Int : Below(Reach(d, x), B) => Below(Reach(d, m), B)
         /\ \A l \in Int : Below({l}, Reach(d, q)) => Below({l}, Reach(d, m))
PROOF
<1>1. IsSection(d, q) /\ q.first <= q.last /\ IsSection(d, x) /\ x.first <= x.last
  BY DEF Waits
<1>2. d.text \in Seq(Seq(Nat))
  BY DocumentsAssumption
<1>3. PICK w \in Nat : w = Len(d.text)
  BY <1>2
<1>4. PICK a \in Nat \ {0}, b \in 0..w, c \in Nat \ {0}, e \in 0..w :
        a = q.first /\ b = q.last /\ c = x.first /\ e = x.last
  BY <1>1, <1>3 DEF IsSection, Within
<1>5. a <= b /\ c <= e
  BY <1>1, <1>4
<1>6. Reach(d, q) = a..b /\ Reach(d, x) = c..e
  BY <1>4 DEF Reach
<1>7. b <= c
  <2>1. b \in a..b /\ c \in c..e
    BY <1>5
  <2>2. Below(a..b, c..e)
    BY <1>6
  <2> QED
    BY <2>1, <2>2 DEF Below
<1>8. a <= e /\ b + 1 <= e + 1 /\ a <= c /\ e \in c..e /\ a \in a..b
  BY <1>5, <1>7
<1>9. /\ m.first = a /\ m.last = e /\ m.header = x.header /\ DOMAIN m = DOMAIN x
      /\ m.slug = x.slug /\ m.anchor = <<>>
  <2>1. m = [x EXCEPT !.first = q.first, !.anchor = <<>>]
    BY DEF Joined
  <2> QED
    BY <1>1, <1>4, <2>1 DEF IsSection
<1>10. Waits(d, m)
  <2>1. IsSequence(<<>>)
    BY DEF IsSequence
  <2>2. Within(d, m)
    BY <1>3, <1>9 DEF Within
  <2>3. IsSection(d, m)
    BY <1>1, <1>9, <2>1, <2>2 DEF IsSection
  <2> QED
    BY <1>8, <1>9, <2>3 DEF Waits
<1>11. ASSUME NEW t \in Int, Keeps(d, q, t) \/ Keeps(d, x, t) PROVE Keeps(d, m, t)
  <2>1. PICK b1 \in 1..(w + 1), e1 \in 1..(w + 1) : b1 = b + 1 /\ e1 = e + 1 /\ b1 <= e1
    BY <1>8
  <2>2. a \in 1..(w + 1) /\ c \in 1..(w + 1)
    BY <1>5
  <2>3. PICK sa \in Int, sb \in Int, sc \in Int, se \in Int :
          /\ sa = Start(d.text, a) /\ sb = Start(d.text, b1)
          /\ sc = Start(d.text, c) /\ se = Start(d.text, e1)
    <3>1. Start(d.text, a) \in Nat
      BY <1>3, <1>2, <2>2, Starts
    <3>2. Start(d.text, b1) \in Nat
      BY <1>3, <1>2, <2>1, Starts
    <3>3. Start(d.text, c) \in Nat
      BY <1>3, <1>2, <2>2, Starts
    <3>4. Start(d.text, e1) \in Nat
      BY <1>3, <1>2, <2>1, Starts
    <3> QED
      BY <3>1, <3>2, <3>3, <3>4
  <2>4. sa <= sc
    BY <1>3, <1>8, <1>2, <2>2, <2>3, Starts
  <2>5. sb <= se
    BY <1>3, <1>2, <2>1, <2>3, Starts
  <2>6. (sa <= t /\ t < sb) \/ (sc <= t /\ t < se)
    BY <1>4, <1>11, <2>1, <2>3 DEF Keeps
  <2>7. sa <= t /\ t < se
    BY <2>4, <2>5, <2>6
  <2> QED
    BY <1>9, <2>1, <2>3, <2>7 DEF Keeps
<1>12. Reach(d, m) = a..e
  BY <1>9 DEF Reach
<1>13. ASSUME NEW B \in SUBSET Int, Below(Reach(d, x), B) PROVE Below(Reach(d, m), B)
  <2> SUFFICES ASSUME NEW y \in a..e, NEW z \in B PROVE y <= z
    BY <1>12 DEF Below
  <2>1. e <= z
    BY <1>6, <1>8, <1>13 DEF Below
  <2> QED
    BY <2>1
<1>14. ASSUME NEW l \in Int, Below({l}, Reach(d, q)) PROVE Below({l}, Reach(d, m))
  <2> SUFFICES ASSUME NEW y \in a..e PROVE l <= y
    BY <1>12 DEF Below
  <2>1. l <= a
    BY <1>6, <1>8, <1>14 DEF Below
  <2> QED
    BY <2>1
<1> QED
  BY <1>10, <1>11, <1>13, <1>14

LEMMA ReachInt ==
  ASSUME NEW d, NEW x, Waits(d, x)
  PROVE  Reach(d, x) \in SUBSET Int
PROOF
<1>1. CASE d.kind = "docs"
  <2>1. \A t \in x.first..x.last : t \in Int
    BY <1>1 DEF Waits, IsSection, Within
  <2> QED
    BY <1>1, <2>1 DEF Reach
<1>2. CASE d.kind # "docs"
  BY <1>2 DEF Waits, Reach, SpanLines, InLine, IsUnit
<1> QED
  BY <1>1, <1>2

\* The last line of units that there are.
LEMMA LastLine ==
  ASSUME NEW us, InLine(us), us # <<>>
  PROVE  /\ Len(us) \in 1..Len(us) /\ 1 \in 1..Len(us) /\ Last(us) = us[Len(us)]
         /\ Last(us).line \in Int /\ us[1].line \in Int /\ us[1].line <= Last(us).line
         /\ \A k \in 1..Len(us) : us[k].line <= Last(us).line /\ us[1].line <= us[k].line
PROOF
<1>1. PICK n \in Nat : n = Len(us) /\ us = [i \in 1..n |-> us[i]]
  BY DEF InLine, IsSequence
<1>2. n # 0
  <2>1. \A g : [i \in 1..0 |-> g[i]] = <<>>
    OBVIOUS
  <2> QED
    BY <1>1, <2>1
<1>3. n \in 1..n /\ 1 \in 1..n
  BY <1>2
<1>4. Last(us) = us[n]
  BY <1>1 DEF Last
<1>5. \A k \in 1..n : us[k].line \in Int
  BY <1>1 DEF InLine, IsUnit
<1>6. \A k \in 1..n : us[k].line <= us[n].line /\ us[1].line <= us[k].line
  <2> SUFFICES ASSUME NEW k \in 1..n PROVE us[k].line <= us[n].line /\ us[1].line <= us[k].line
    OBVIOUS
  <2>1. 1 <= k /\ k <= n
    OBVIOUS
  <2> QED
    BY <1>1, <1>3, <2>1, LinesInOrder
<1> QED
  BY <1>1, <1>3, <1>4, <1>5, <1>6

\* The last line of the last chunk.
LEMMA ChunkedLast ==
  ASSUME NEW cs, Chunked(cs), cs # <<>>, NEW us, us = Last(cs).units
  PROVE  /\ Len(cs) \in Nat \ {0} /\ Len(cs) \in 1..Len(cs) /\ us = cs[Len(cs)].units /\ InLine(us)
         /\ us # <<>> => Last(us).line \in Int
PROOF
<1>1. PICK n \in Nat : n = Len(cs) /\ cs = [i \in 1..n |-> cs[i]]
  BY DEF Chunked, IsSequence
<1>2. n # 0
  <2>1. \A g : [i \in 1..0 |-> g[i]] = <<>>
    OBVIOUS
  <2> QED
    BY <1>1, <2>1
<1>3. n \in 1..n
  BY <1>2
<1>4. us = cs[n].units
  BY <1>1 DEF Last
<1>5. InLine(us)
  BY <1>1, <1>3, <1>4 DEF Chunked
<1>6. us # <<>> => Last(us).line \in Int
  BY <1>5, LastLine
<1> QED
  BY <1>1, <1>2, <1>3, <1>4, <1>5, <1>6

\* Two sections become one.
LEMMA MergeKept ==
  ASSUME NEW d, d.kind = "docs", NEW td, NEW q, NEW a, NEW p, NEW cs,
         Kept(d, td, <<q>>, <<>>, a, p, cs), NEW x, NEW rest, IsFirst(x, rest, td),
         NEW m, m = Joined(q, x)
  PROVE  Kept(d, rest, <<m>>, <<>>, a, p, cs)
PROOF
<1>1. PICK none : none = <<>>
  OBVIOUS
<1>2. PICK was : was = <<q>>
  OBVIOUS
<1>3. PICK one : one = <<m>>
  OBVIOUS
<1>4. /\ was # none /\ was[1] = q
      /\ one[1] = m /\ one # none /\ one = <<one[1]>>
  BY <1>1, <1>2, <1>3
<1>5. Kept(d, td, was, none, a, p, cs)
  BY <1>1, <1>2
<1>6. /\ d \in Documents /\ Queued(d, td) /\ Chunked(cs) /\ Leading(d, q, td)
      /\ cs # none => InFront(d, Last(cs).units, td, was, none, a, p)
      /\ \A t \in Due(d) : Held(d, td, was, none, a, p, cs, t)
  BY <1>1, <1>4, <1>5 DEF Kept
<1>7. /\ Queued(d, rest) /\ Leading(d, x, rest)
      /\ \A t : InQueue(d, td, t) => Keeps(d, x, t) \/ InQueue(d, rest, t)
  BY <1>6, HeadLeads
<1>8. td[1] = x /\ 1 \in 1..Len(td)
  BY DEF IsFirst
<1>9. Waits(d, q) /\ Waits(d, x) /\ Below(Reach(d, q), Reach(d, x))
  BY <1>6, <1>7, <1>8 DEF Leading
<1>10. /\ Waits(d, m)
       /\ \A t \in Int : Keeps(d, q, t) \/ Keeps(d, x, t) => Keeps(d, m, t)
       /\ \A B \in SUBSET Int : Below(Reach(d, x), B) => Below(Reach(d, m), B)
       /\ \A l \in Int : Below({l}, Reach(d, q)) => Below({l}, Reach(d, m))
  <2>1. d \in Documents
    BY <1>6
  <2> QED
    BY <1>9, <2>1, MergedWaits
<1>11. ASSUME NEW i \in 1..Len(rest) PROVE Below(Reach(d, m), Reach(d, rest[i]))
  <2>1. Waits(d, rest[i]) /\ Below(Reach(d, x), Reach(d, rest[i]))
    BY <1>7 DEF Queued, Leading
  <2>2. Reach(d, rest[i]) \in SUBSET Int
    BY <2>1, ReachInt
  <2> QED
    BY <1>10, <2>1, <2>2
<1>12. Leading(d, m, rest)
  BY <1>10, <1>11 DEF Leading
<1>13. ASSUME cs # none PROVE InFront(d, Last(cs).units, rest, one, none, a, p)
  <2>1. PICK us : us = Last(cs).units
    OBVIOUS
  <2> SUFFICES ASSUME us # <<>>
               PROVE  /\ \A i \in 1..Len(rest) : Below({Last(us).line}, Reach(d, rest[i]))
                      /\ Below({Last(us).line}, Reach(d, m))
    BY <1>1, <1>4, <2>1 DEF InFront
  <2>2. InFront(d, us, td, was, none, a, p)
    BY <1>6, <1>13, <2>1
  <2>3. /\ \A i \in 1..Len(td) : Below({Last(us).line}, Reach(d, td[i]))
        /\ Below({Last(us).line}, Reach(d, q))
    BY <1>1, <1>4, <2>2 DEF InFront
  <2>4. \A i \in 1..Len(rest) : rest[i] = td[i + 1] /\ i + 1 \in 1..Len(td)
    BY DEF IsFirst
  <2>5. Last(us).line \in Int
    BY <1>1, <1>6, <1>13, <2>1, ChunkedLast
  <2>6. Below({Last(us).line}, Reach(d, m))
    BY <1>10, <2>3, <2>5
  <2> QED
    BY <2>3, <2>4, <2>6
<1>14. ASSUME NEW t \in Due(d) PROVE Held(d, rest, one, none, a, p, cs, t)
  <2>1. Held(d, td, was, none, a, p, cs, t)
    BY <1>6
  <2>2. InChunk(cs, t) \/ InQueue(d, td, t) \/ Keeps(d, q, t)
    BY <1>1, <1>4, <2>1 DEF Held
  <2>3. t \in Int
    BY DueInt
  <2>4. InChunk(cs, t) \/ InQueue(d, rest, t) \/ Keeps(d, m, t)
    BY <1>7, <1>10, <2>2, <2>3
  <2> QED
    BY <1>1, <1>4, <2>4 DEF Held
<1> QED
  BY <1>1, <1>3, <1>4, <1>6, <1>7, <1>12, <1>13, <1>14 DEF Kept

\* What waits becomes a span.
LEMMA OpenKept ==
  ASSUME NEW d, NEW td, NEW x, NEW a, NEW p, NEW cs, Kept(d, td, <<x>>, <<>>, a, p, cs),
         NEW s, InLine(s.units), SpanLines(s) \subseteq Reach(d, x),
         \A t \in Int : Keeps(d, x, t) => HasToken(s.units, t)
  PROVE  Kept(d, td, <<>>, <<s>>, 0, EmptyPack, cs)
PROOF
<1>1. PICK none : none = <<>>
  OBVIOUS
<1>2. PICK was : was = <<x>>
  OBVIOUS
<1>3. PICK one : one = <<s>>
  OBVIOUS
<1>4. /\ was # none /\ was[1] = x
      /\ one[1] = s /\ one # none /\ one = <<one[1]>>
  BY <1>1, <1>2, <1>3
<1>5. Kept(d, td, was, none, a, p, cs)
  BY <1>1, <1>2
<1>6. /\ d \in Documents /\ Queued(d, td) /\ Chunked(cs) /\ Leading(d, x, td)
      /\ cs # none => InFront(d, Last(cs).units, td, was, none, a, p)
      /\ \A t \in Due(d) : Held(d, td, was, none, a, p, cs, t)
  BY <1>1, <1>4, <1>5 DEF Kept
<1>7. Len(s.units) \in Nat
  BY DEF InLine, IsSequence
<1>8. AtWork(d, s, 0, EmptyPack, td)
  <2>1. 0 \in 0..Len(s.units)
    BY <1>7
  <2>2. \A i \in 1..Len(td) : Below(SpanLines(s), Reach(d, td[i]))
    BY <1>6 DEF Leading, Below
  <2> QED
    BY <2>1, <2>2, EmptyPackShape DEF AtWork
<1>9. ASSUME cs # none PROVE InFront(d, Last(cs).units, td, none, one, 0, EmptyPack)
  <2>1. PICK us : us = Last(cs).units
    OBVIOUS
  <2> SUFFICES ASSUME us # <<>>
               PROVE  /\ \A i \in 1..Len(td) : Below({Last(us).line}, Reach(d, td[i]))
                      /\ BehindSpan(us, s, 0, EmptyPack)
    BY <1>1, <1>4, <2>1 DEF InFront
  <2>2. InFront(d, us, td, was, none, a, p)
    BY <1>6, <1>9, <2>1
  <2>3. /\ \A i \in 1..Len(td) : Below({Last(us).line}, Reach(d, td[i]))
        /\ Below({Last(us).line}, Reach(d, x))
    BY <1>1, <1>4, <2>2 DEF InFront
  <2>4. Below({Last(us).line}, SpanLines(s))
    BY <2>3 DEF Below
  <2> QED
    BY <2>3, <2>4 DEF BehindSpan
<1>10. ASSUME NEW t \in Due(d) PROVE Held(d, td, none, one, 0, EmptyPack, cs, t)
  <2>1. Held(d, td, was, none, a, p, cs, t)
    BY <1>6
  <2>2. t \in Int
    BY DueInt
  <2>3. InChunk(cs, t) \/ InQueue(d, td, t) \/ HasToken(s.units, t)
    BY <1>1, <1>4, <2>1, <2>2 DEF Held
  <2>4. HasToken(s.units, t) => ToPack(s, 0, EmptyPack, t)
    <3>1. \A k \in 1..Len(s.units) : k > 0
      BY <1>7
    <3> QED
      BY <3>1 DEF HasToken, ToPack
  <2> QED
    BY <1>1, <1>4, <2>3, <2>4 DEF Held
<1> QED
  BY <1>1, <1>3, <1>4, <1>6, <1>8, <1>9, <1>10 DEF Kept

\* The units of a section lie in it and have its tokens.
LEMMA SectionOpens ==
  ASSUME NEW d \in Documents, d.kind = "docs", NEW x, Waits(d, x), NEW s, s = SectionSpan(d, x)
  PROVE  /\ InLine(s.units) /\ SpanLines(s) \subseteq Reach(d, x)
         /\ \A t \in Int : Keeps(d, x, t) => HasToken(s.units, t)
PROOF
<1>1. d.text \in Seq(Seq(Nat))
  BY DocumentsAssumption
<1>2. IsSection(d, x) /\ x.first <= x.last
  BY DEF Waits
<1>3. x.first \in Nat \ {0} /\ x.last \in 0..Len(d.text) /\ x.header \in Nat
  BY <1>2 DEF IsSection, Within
<1>4. PICK a \in Nat \ {0}, b \in 0..Len(d.text), h \in Nat :
        a = x.first /\ b = x.last /\ h = x.header
  BY <1>3
<1>5. a <= b /\ a <= b + 1
  BY <1>1, <1>2, <1>4
<1>6. Budget(h) \in Nat \ {0}
  BY BudgetNat
<1>7. s.units = UnitsOf(d.text, a, b, Budget(h))
  BY <1>4 DEF SectionSpan, SpanOf
<1>8. Cut(s.units, Start(d.text, a), Start(d.text, b + 1), a, b)
  BY <1>1, <1>5, <1>6, <1>7, UnitsOfCuts
<1>9. InLine(s.units)
  BY <1>8 DEF Cut
<1>10. ASSUME NEW l \in SpanLines(s) PROVE l \in Reach(d, x)
  <2>1. PICK k \in 1..Len(s.units) : l = s.units[k].line
    BY <1>10 DEF SpanLines
  <2>2. a <= l /\ l <= b
    BY <1>8, <2>1 DEF Cut
  <2>3. l \in Int
    BY <1>9, <2>1 DEF InLine, IsUnit
  <2>4. l \in a..b
    BY <1>1, <2>2, <2>3
  <2> QED
    BY <1>4, <2>4 DEF Reach
<1>11. ASSUME NEW t \in Int, Keeps(d, x, t) PROVE HasToken(s.units, t)
  <2>1. Start(d.text, a) <= t /\ t < Start(d.text, b + 1)
    BY <1>4, <1>11 DEF Keeps
  <2> QED
    BY <1>8, <2>1 DEF Cut
<1> QED
  BY <1>9, <1>10, <1>11

LEMMA SpanOpens ==
  ASSUME NEW d, d.kind # "docs", NEW x, Waits(d, x)
  PROVE  /\ InLine(x.units) /\ SpanLines(x) \subseteq Reach(d, x)
         /\ \A t \in Int : Keeps(d, x, t) => HasToken(x.units, t)
  BY DEF Waits, Reach, Keeps

\* One more unit of the span is packed.
LEMMA PackKept ==
  ASSUME NEW d, NEW td, NEW s, NEW n, NEW p, NEW cs, Kept(d, td, <<>>, <<s>>, n, p, cs),
         n < Len(s.units), NEW i, i = n + 1, NEW max, NEW q, q = PackUnit(p, s.units, i, max)
  PROVE  Kept(d, td, <<>>, <<s>>, i, q, cs)
PROOF
<1>1. PICK none : none = <<>>
  OBVIOUS
<1>2. PICK one : one = <<s>>
  OBVIOUS
<1>3. one[1] = s /\ one # none /\ one = <<one[1]>>
  BY <1>1, <1>2
<1>4. Kept(d, td, none, one, n, p, cs)
  BY <1>1, <1>2
<1>5. /\ d \in Documents /\ Queued(d, td) /\ Chunked(cs) /\ AtWork(d, s, n, p, td)
      /\ cs # none => InFront(d, Last(cs).units, td, none, one, n, p)
      /\ \A t \in Due(d) : Held(d, td, none, one, n, p, cs, t)
  BY <1>1, <1>3, <1>4 DEF Kept
<1>6. PICK w \in Nat : w = Len(s.units)
  BY <1>5 DEF AtWork, InLine, IsSequence
<1>7. n \in Nat /\ n < w /\ i \in 0..w
  BY <1>5, <1>6 DEF AtWork
<1>8. PackShape(p, n)
  BY <1>5 DEF AtWork
<1>9. /\ PackShape(q, i)
      /\ \A k : PackedIn(p, k) \/ k = i => PackedIn(q, k)
  <2>1. PICK us : us = s.units
    OBVIOUS
  <2>2. q = PackUnit(p, us, i, max)
    BY <2>1
  <2> QED
    BY <1>7, <1>8, <2>2, PackShapeNext
<1>10. AtWork(d, s, i, q, td)
  BY <1>5, <1>6, <1>7, <1>9 DEF AtWork
<1>11. ASSUME cs # none PROVE InFront(d, Last(cs).units, td, none, one, i, q)
  <2>1. PICK us : us = Last(cs).units
    OBVIOUS
  <2> SUFFICES ASSUME us # <<>>
               PROVE  /\ \A j \in 1..Len(td) : Below({Last(us).line}, Reach(d, td[j]))
                      /\ BehindSpan(us, s, i, q)
    BY <1>1, <1>3, <2>1 DEF InFront
  <2>2. InFront(d, us, td, none, one, n, p)
    BY <1>5, <1>11, <2>1
  <2>3. /\ \A j \in 1..Len(td) : Below({Last(us).line}, Reach(d, td[j]))
        /\ BehindSpan(us, s, n, p)
    BY <1>1, <1>3, <2>2 DEF InFront
  <2>4. n # Len(s.units)
    BY <1>6, <1>7
  <2>5. Below({Last(us).line}, SpanLines(s))
    BY <2>3, <2>4 DEF BehindSpan
  <2> QED
    BY <2>3, <2>5 DEF BehindSpan
<1>12. ASSUME NEW t \in Due(d) PROVE Held(d, td, none, one, i, q, cs, t)
  <2>1. Held(d, td, none, one, n, p, cs, t)
    BY <1>5
  <2>2. InChunk(cs, t) \/ InQueue(d, td, t) \/ ToPack(s, n, p, t)
    BY <1>1, <1>3, <2>1 DEF Held
  <2>3. ASSUME ToPack(s, n, p, t) PROVE ToPack(s, i, q, t)
    <3>1. PICK k \in 1..w : /\ k > n \/ PackedIn(p, k)
                            /\ s.units[k].from <= t /\ t < s.units[k].to
      BY <1>6, <2>3 DEF ToPack
    <3>2. k > i \/ k = i \/ PackedIn(p, k)
      BY <1>7, <3>1
    <3>3. k > i \/ PackedIn(q, k)
      BY <1>9, <3>2
    <3> QED
      BY <1>6, <3>1, <3>3 DEF ToPack
  <2> QED
    BY <1>1, <1>3, <2>2, <2>3 DEF Held
<1> QED
  BY <1>1, <1>2, <1>3, <1>5, <1>10, <1>11, <1>12 DEF Kept

\* One more chunk.
LEMMA ChunkAdded ==
  ASSUME NEW cs, Chunked(cs), NEW us, InLine(us), cs # <<>> => Leads(Last(cs).units, us),
         NEW c, c.units = us, NEW ds, ds = Append(cs, c)
  PROVE  /\ Chunked(ds) /\ ds # <<>> /\ Last(ds).units = us
         /\ \A t : InChunk(cs, t) \/ HasToken(us, t) => InChunk(ds, t)
PROOF
<1>1. IsSequence(cs)
  BY DEF Chunked
<1>2. PICK n \in Nat : n = Len(cs)
  BY <1>1 DEF IsSequence
<1>3. /\ IsSequence(ds) /\ Len(ds) = n + 1 /\ ds[n + 1] = c
      /\ \A k \in 1..n : ds[k] = cs[k]
  BY <1>1, <1>2, Extended
<1>4. PICK m \in Nat : m = n + 1 /\ m \in 1..m
  OBVIOUS
<1>5. Len(ds) = m /\ ds[m] = c
  BY <1>3, <1>4
<1>6. ds # <<>> /\ Last(ds).units = us
  <2>1. Len(ds) # 0
    BY <1>4, <1>5
  <2>2. Last(ds) = ds[m]
    BY <1>5 DEF Last
  <2> QED
    BY <1>5, <2>1, <2>2
<1>7. ASSUME NEW i \in 1..m PROVE InLine(ds[i].units)
  <2>1. i \in 1..n \/ i = m
    BY <1>4
  <2> QED
    BY <1>2, <1>3, <1>5, <2>1 DEF Chunked
<1>8. ASSUME NEW i \in 1..m, NEW j \in 1..m, j = i + 1 PROVE Leads(ds[i].units, ds[j].units)
  <2>1. i \in 1..n
    BY <1>4, <1>8
  <2>2. CASE j \in 1..n
    BY <1>2, <1>3, <1>8, <2>1, <2>2 DEF Chunked
  <2>3. CASE j \notin 1..n
    <3>1. j = m /\ i = n
      BY <1>4, <1>8, <2>1, <2>3
    <3>2. cs # <<>>
      BY <1>2, <2>1
    <3>3. Last(cs) = cs[n]
      BY <1>2 DEF Last
    <3> QED
      BY <1>3, <1>5, <2>1, <3>1, <3>2, <3>3
  <2> QED
    BY <2>2, <2>3
<1>9. Chunked(ds)
  BY <1>3, <1>5, <1>7, <1>8 DEF Chunked
<1>10. ASSUME NEW t, InChunk(cs, t) \/ HasToken(us, t) PROVE InChunk(ds, t)
  <2>1. CASE HasToken(us, t)
    BY <1>4, <1>5, <2>1 DEF InChunk
  <2>2. CASE InChunk(cs, t)
    <3>1. PICK i \in 1..n : HasToken(cs[i].units, t)
      BY <1>2, <2>2 DEF InChunk
    <3>2. i \in 1..m /\ HasToken(ds[i].units, t)
      BY <1>3, <1>4, <3>1
    <3> QED
      BY <1>5, <3>2 DEF InChunk
  <2> QED
    BY <1>10, <2>1, <2>2
<1> QED
  BY <1>6, <1>9, <1>10

\* The lines of a part are lines of the span.
LEMMA PickedLines ==
  ASSUME NEW s, InLine(s.units), NEW n \in Nat, n <= Len(s.units), NEW part \in Seq(1..n), Grows(part),
         NEW vs, vs = Picked(s.units, part), vs # <<>>
  PROVE  /\ InLine(vs) /\ vs[1].line \in SpanLines(s) /\ Last(vs).line \in SpanLines(s)
PROOF
<1>1. Len(s.units) \in Nat
  BY DEF InLine, IsSequence
<1>2. InLine(vs)
  BY PickedInLine
<1>3. /\ Len(vs) = Len(part) /\ \A k \in 1..Len(part) : vs[k] = s.units[part[k]]
  BY PickedUnits
<1>4. 1 \in 1..Len(vs) /\ Len(vs) \in 1..Len(vs) /\ Last(vs) = vs[Len(vs)]
  BY <1>2, LastLine
<1>5. ASSUME NEW k \in 1..Len(vs) PROVE vs[k].line \in SpanLines(s)
  <2>1. part[k] \in 1..n
    BY <1>3
  <2>2. part[k] \in 1..Len(s.units)
    BY <1>1, <2>1
  <2> QED
    BY <1>3, <2>2 DEF SpanLines
<1> QED
  BY <1>2, <1>4, <1>5

\* What is behind the first part left.
LEMMA FirstLeads ==
  ASSUME NEW s, InLine(s.units), NEW n \in Nat, n <= Len(s.units), NEW p, PackShape(p, n),
         NEW part, part = Parts(p)[1], NEW us, InLine(us), us # <<>> => BehindSpan(us, s, n, p)
  PROVE  Leads(us, Picked(s.units, part))
PROOF
<1>1. PICK vs : vs = Picked(s.units, part)
  OBVIOUS
<1> SUFFICES ASSUME us # <<>>, vs # <<>>
             PROVE  us[1].line <= vs[1].line /\ Last(us).line <= Last(vs).line
  BY <1>1 DEF Leads
<1>2. PICK parts : parts = Parts(p)
  OBVIOUS
<1>3. /\ Len(parts) \in Nat \ {0}
      /\ \A r \in 1..Len(parts) : parts[r] \in Seq(1..n) /\ Grows(parts[r])
  BY <1>2, PartsShape
<1>4. 1 \in 1..Len(parts) /\ part \in Seq(1..n) /\ Grows(part)
  BY <1>2, <1>3
<1>5. InLine(vs) /\ vs[1].line \in SpanLines(s) /\ Last(vs).line \in SpanLines(s)
  BY <1>1, <1>4, PickedLines
<1>6. /\ Last(us).line \in Int /\ us[1].line \in Int /\ us[1].line <= Last(us).line
  BY LastLine
<1>7. vs[1].line \in Int
  BY <1>5, LastLine
<1>8. CASE Below({Last(us).line}, SpanLines(s))
  <2>1. Last(us).line <= vs[1].line /\ Last(us).line <= Last(vs).line
    BY <1>5, <1>8 DEF Below
  <2> QED
    BY <1>6, <1>7, <2>1
<1>9. CASE ~Below({Last(us).line}, SpanLines(s))
  <2>1. \A r \in 1..Len(Parts(p)) : BehindPart(us, s, p, r)
    BY <1>9 DEF BehindSpan
  <2>2. BehindPart(us, s, p, 1)
    BY <1>2, <1>4, <2>1
  <2>3. Leads(us, vs)
    BY <1>1, <2>2 DEF BehindPart
  <2> QED
    BY <2>3 DEF Leads
<1> QED
  BY <1>8, <1>9

\* A part is emitted, or left out because it has nothing.
Emits(cs, us, ds) ==
  \/ ds = cs /\ Costs(us) = 0
  \/ \E c : c.units = us /\ ds = Append(cs, c)

LEMMA EmittedChunks ==
  ASSUME NEW cs, Chunked(cs), NEW us, InLine(us), cs # <<>> => Leads(Last(cs).units, us),
         NEW ds, Emits(cs, us, ds)
  PROVE  /\ Chunked(ds)
         /\ ds # <<>> => ds = cs \/ Last(ds).units = us
         /\ \A t \in Int : InChunk(cs, t) \/ HasToken(us, t) => InChunk(ds, t)
PROOF
<1>1. CASE ds = cs /\ Costs(us) = 0
  <2>1. \A t \in Int : ~HasToken(us, t)
    BY <1>1, FreeIsBlank
  <2> QED
    BY <1>1, <2>1
<1>2. CASE \E c : c.units = us /\ ds = Append(cs, c)
  <2>1. PICK c : c.units = us /\ ds = Append(cs, c)
    BY <1>2
  <2>2. /\ Chunked(ds) /\ ds # <<>> /\ Last(ds).units = us
        /\ \A t : InChunk(cs, t) \/ HasToken(us, t) => InChunk(ds, t)
    BY <2>1, ChunkAdded
  <2> QED
    BY <2>2
<1> QED
  BY <1>1, <1>2 DEF Emits

\* The parts that are left when the first is gone.
Left(p, parts, q, rest) ==
  /\ q.buffer = p.buffer /\ p.buffer # <<>>
  /\ Len(rest) = Len(parts) - 1 /\ \A r \in 1..(Len(parts) - 1) : rest[r] = parts[r + 1]
  /\ rest = Parts(q)

\* The tokens to pack are in the first part or in the others.
LEMMA PartTokens ==
  ASSUME NEW s, NEW n, n = Len(s.units), n \in Nat, NEW p, PackShape(p, n),
         NEW part, part = Parts(p)[1], NEW us, us = Picked(s.units, part),
         NEW t, ToPack(s, n, p, t)
  PROVE  \/ HasToken(us, t)
         \/ /\ Len(Parts(p)) # 1
            /\ \A q, rest : Left(p, Parts(p), q, rest) => ToPack(s, n, q, t)
PROOF
<1>1. PICK parts : parts = Parts(p)
  OBVIOUS
<1>2. /\ Len(parts) \in Nat \ {0}
      /\ \A r \in 1..Len(parts) : parts[r] \in Seq(1..n)
  BY <1>1, PartsShape
<1>3. PICK l \in Nat : l = Len(parts) /\ l # 0
  BY <1>2
<1>4. PICK k \in 1..n : /\ PackedIn(p, k)
                        /\ s.units[k].from <= t /\ t < s.units[k].to
  <2>1. \A k \in 1..n : ~(k > n)
    OBVIOUS
  <2> QED
    BY <2>1 DEF ToPack
<1>5. PICK r \in 1..l : \E m \in 1..Len(parts[r]) : parts[r][m] = k
  BY <1>1, <1>3, <1>4 DEF PackedIn
<1>6. PICK m \in 1..Len(parts[r]) : parts[r][m] = k
  BY <1>5
<1>7. CASE r = 1
  <2>1. part = parts[r] /\ part \in Seq(1..n)
    BY <1>1, <1>2, <1>3, <1>7
  <2>2. m \in 1..Len(part) /\ s.units[part[m]].from <= t /\ t < s.units[part[m]].to
    BY <1>4, <1>6, <2>1
  <2>3. PICK vs : vs = s.units
    OBVIOUS
  <2>4. vs[part[m]].from <= t /\ t < vs[part[m]].to
    BY <2>2, <2>3
  <2>5. HasToken(Picked(vs, part), t)
    BY <2>1, <2>2, <2>4, PickedHas
  <2> QED
    BY <2>3, <2>5
<1>8. CASE r # 1
  <2>1. PICK q \in 1..(l - 1) : r = q + 1
    <3>1. r - 1 \in 1..(l - 1) /\ r = (r - 1) + 1
      BY <1>8
    <3> QED
      BY <3>1
  <2>2. l # 1
    BY <2>1
  <2>3. ASSUME NEW x, NEW rest, Left(p, parts, x, rest) PROVE ToPack(s, n, x, t)
    <3>1. Len(rest) = l - 1 /\ rest[q] = parts[r] /\ rest = Parts(x)
      BY <1>3, <2>1, <2>3 DEF Left
    <3>2. PackedIn(x, k)
      BY <1>6, <2>1, <3>1 DEF PackedIn
    <3> QED
      BY <1>4, <3>2 DEF ToPack
  <2> QED
    BY <1>1, <1>3, <2>2, <2>3
<1> QED
  BY <1>7, <1>8

\* What is before all parts is before those that are left.
LEMMA BehindLeft ==
  ASSUME NEW s, NEW n, NEW p, NEW q, NEW rest, Len(Parts(p)) \in Nat, Left(p, Parts(p), q, rest),
         NEW us, BehindSpan(us, s, n, p)
  PROVE  BehindSpan(us, s, n, q)
PROOF
<1>1. CASE Below({Last(us).line}, SpanLines(s))
  BY <1>1 DEF BehindSpan
<1>2. CASE ~Below({Last(us).line}, SpanLines(s))
  <2>1. /\ n = Len(s.units)
        /\ \A r \in 1..Len(Parts(p)) : BehindPart(us, s, p, r)
    BY <1>2 DEF BehindSpan
  <2>2. PICK l \in Nat : l = Len(Parts(p))
    OBVIOUS
  <2>3. /\ Len(rest) = l - 1 /\ rest = Parts(q)
        /\ \A r \in 1..(l - 1) : rest[r] = Parts(p)[r + 1]
    BY <2>2 DEF Left
  <2>4. ASSUME NEW r \in 1..(l - 1) PROVE BehindPart(us, s, q, r)
    <3>1. PICK k \in 1..l : k = r + 1
      OBVIOUS
    <3>2. BehindPart(us, s, p, k)
      BY <2>1, <2>2
    <3>3. Parts(q)[r] = Parts(p)[k]
      BY <2>3, <3>1
    <3> QED
      BY <3>2, <3>3 DEF BehindPart
  <2> QED
    BY <2>1, <2>3, <2>4 DEF BehindSpan
<1> QED
  BY <1>1, <1>2

\* The first part is before those that are left.
LEMMA FirstBehind ==
  ASSUME NEW s, InLine(s.units), NEW n, n = Len(s.units), NEW p, PackShape(p, n),
         NEW q, NEW rest, Left(p, Parts(p), q, rest),
         NEW part, part = Parts(p)[1], NEW us, us = Picked(s.units, part)
  PROVE  BehindSpan(us, s, n, q)
PROOF
<1>1. n \in Nat
  BY DEF InLine, IsSequence
<1>2. PICK parts : parts = Parts(p)
  OBVIOUS
<1>3. p.buffer # <<>>
  BY DEF Left
<1>4. /\ Len(parts) \in Nat \ {0}
      /\ \A r \in 1..Len(parts) : parts[r] \in Seq(1..n)
      /\ Slid(parts) /\ \A r \in 1..Len(parts) : Len(parts[r]) # 0
  BY <1>1, <1>2, <1>3, PartsShape
<1>5. PICK l \in Nat : l = Len(parts) /\ l # 0
  BY <1>4
<1>6. /\ Len(rest) = l - 1 /\ rest = Parts(q)
      /\ \A r \in 1..(l - 1) : rest[r] = parts[r + 1]
  BY <1>2, <1>5 DEF Left
<1>7. ASSUME NEW r \in 1..(l - 1) PROVE BehindPart(us, s, q, r)
  <2>1. PICK k \in 1..l : k = r + 1 /\ 1 < k /\ 1 \in 1..l
    OBVIOUS
  <2>2. PICK b : b = parts[k]
    OBVIOUS
  <2>3. part \in Seq(1..n) /\ b \in Seq(1..n) /\ Len(part) # 0 /\ Len(b) # 0
    BY <1>2, <1>4, <1>5, <2>1, <2>2
  <2>4. part[1] <= b[1] /\ Last(part) <= Last(b)
    BY <1>2, <1>4, <1>5, <2>1, <2>2 DEF Slid
  <2>5. PICK vs : vs = s.units
    OBVIOUS
  <2>6. n <= Len(vs) /\ InLine(vs)
    BY <1>1, <2>5
  <2>7. Leads(Picked(vs, part), Picked(vs, b))
    BY <1>1, <2>3, <2>4, <2>6, PickedLeads
  <2>8. Parts(q)[r] = b
    BY <1>6, <2>1, <2>2
  <2> QED
    BY <2>5, <2>7, <2>8 DEF BehindPart
<1> QED
  BY <1>6, <1>7 DEF BehindSpan

\* What an emitted part is to the chunks and to what is to come.
Emitted(d, td, s, n, p, cs, us, ds) ==
  /\ d \in Documents /\ Queued(d, td) /\ Chunked(ds)
  /\ AtWork(d, s, n, p, td)
  /\ ds # <<>> => \/ ds = cs /\ InFront(d, Last(cs).units, td, <<>>, <<s>>, n, p)
                  \/ Last(ds).units = us
  /\ InLine(us)
  /\ us # <<>> => \A i \in 1..Len(td) : Below({Last(us).line}, Reach(d, td[i]))
  /\ \A t \in Due(d) :
       \/ InChunk(ds, t) \/ InQueue(d, td, t)
       \/ /\ Len(Parts(p)) # 1
          /\ \A q, rest : Left(p, Parts(p), q, rest) => ToPack(s, n, q, t)

LEMMA EmitPartOf ==
  ASSUME NEW d, NEW td, NEW s, NEW n, n = Len(s.units), NEW p, NEW cs,
         Kept(d, td, <<>>, <<s>>, n, p, cs),
         NEW part, part = Parts(p)[1], NEW us, us = Picked(s.units, part),
         NEW ds, Emits(cs, us, ds)
  PROVE  Emitted(d, td, s, n, p, cs, us, ds)
PROOF
<1>1. PICK none : none = <<>>
  OBVIOUS
<1>2. PICK one : one = <<s>>
  OBVIOUS
<1>3. one[1] = s /\ one # none /\ one = <<one[1]>>
  BY <1>1, <1>2
<1>4. Kept(d, td, none, one, n, p, cs)
  BY <1>1, <1>2
<1>5. /\ d \in Documents /\ Queued(d, td) /\ Chunked(cs) /\ AtWork(d, s, n, p, td)
      /\ cs # none => InFront(d, Last(cs).units, td, none, one, n, p)
      /\ \A t \in Due(d) : Held(d, td, none, one, n, p, cs, t)
  BY <1>1, <1>3, <1>4 DEF Kept
<1>6. InLine(s.units) /\ PackShape(p, n)
  BY <1>5 DEF AtWork
<1>7. n \in Nat /\ n <= Len(s.units)
  BY <1>6 DEF InLine, IsSequence
<1>8. PICK parts : parts = Parts(p)
  OBVIOUS
<1>9. /\ Len(parts) \in Nat \ {0}
      /\ \A r \in 1..Len(parts) : parts[r] \in Seq(1..n) /\ Grows(parts[r])
  BY <1>6, <1>7, <1>8, PartsShape
<1>10. part \in Seq(1..n) /\ Grows(part)
  <2>1. 1 \in 1..Len(parts)
    BY <1>9
  <2> QED
    BY <1>8, <1>9, <2>1
<1>11. InLine(us)
  <2>1. PICK vs : vs = s.units
    OBVIOUS
  <2> QED
    BY <1>6, <1>7, <1>10, <2>1, PickedInLine
<1>12. ASSUME us # <<>>, NEW i \in 1..Len(td) PROVE Below({Last(us).line}, Reach(d, td[i]))
  <2>1. Last(us).line \in SpanLines(s)
    BY <1>6, <1>7, <1>10, <1>12, PickedLines
  <2>2. Below(SpanLines(s), Reach(d, td[i]))
    BY <1>5 DEF AtWork
  <2> QED
    BY <2>1, <2>2 DEF Below
<1>13. ASSUME cs # <<>> PROVE Leads(Last(cs).units, us)
  <2>1. PICK vs : vs = Last(cs).units
    OBVIOUS
  <2>2. InLine(vs)
    BY <1>5, <1>13, <2>1, ChunkedLast
  <2>3. InFront(d, vs, td, none, one, n, p)
    BY <1>1, <1>5, <1>13, <2>1
  <2>4. vs # <<>> => BehindSpan(vs, s, n, p)
    BY <1>1, <1>3, <2>3 DEF InFront
  <2>5. Leads(vs, Picked(s.units, part))
    BY <1>6, <1>7, <2>2, <2>4, FirstLeads
  <2> QED
    BY <2>1, <2>5
<1>14. /\ Chunked(ds)
       /\ ds # <<>> => ds = cs \/ Last(ds).units = us
       /\ \A t \in Int : InChunk(cs, t) \/ HasToken(us, t) => InChunk(ds, t)
  BY <1>5, <1>11, <1>13, EmittedChunks
<1>15. ASSUME NEW t \in Due(d)
       PROVE  \/ InChunk(ds, t) \/ InQueue(d, td, t)
              \/ /\ Len(Parts(p)) # 1
                 /\ \A q, rest : Left(p, Parts(p), q, rest) => ToPack(s, n, q, t)
  <2>1. t \in Int
    BY DueInt
  <2>2. Held(d, td, none, one, n, p, cs, t)
    BY <1>5
  <2>3. InChunk(cs, t) \/ InQueue(d, td, t) \/ ToPack(s, n, p, t)
    BY <1>1, <1>3, <2>2 DEF Held
  <2>4. CASE ToPack(s, n, p, t)
    <3>1. \/ HasToken(us, t)
          \/ /\ Len(Parts(p)) # 1
             /\ \A q, rest : Left(p, Parts(p), q, rest) => ToPack(s, n, q, t)
      BY <1>6, <1>7, <2>4, PartTokens
    <3> QED
      BY <1>14, <2>1, <3>1
  <2> QED
    BY <1>14, <2>1, <2>3, <2>4
<1>16. ds # <<>> => \/ ds = cs /\ InFront(d, Last(cs).units, td, <<>>, <<s>>, n, p)
                    \/ Last(ds).units = us
  <2>1. cs # <<>> => InFront(d, Last(cs).units, td, <<>>, <<s>>, n, p)
    BY <1>1, <1>2, <1>5
  <2> QED
    BY <1>14, <2>1
<1> QED
  BY <1>5, <1>11, <1>12, <1>14, <1>15, <1>16 DEF Emitted

\* The last part is emitted, and the span is done.
LEMMA EmitLastKept ==
  ASSUME NEW d, NEW td, NEW s, NEW n, NEW p, NEW cs, NEW us, NEW ds,
         Emitted(d, td, s, n, p, cs, us, ds), Len(Parts(p)) = 1, NEW b, NEW q
  PROVE  Kept(d, td, <<>>, <<>>, b, q, ds)
PROOF
<1>1. PICK none : none = <<>>
  OBVIOUS
<1>2. /\ d \in Documents /\ Queued(d, td) /\ Chunked(ds)
      /\ us # <<>> => \A i \in 1..Len(td) : Below({Last(us).line}, Reach(d, td[i]))
  BY DEF Emitted
<1>3. \A t \in Due(d) : InChunk(ds, t) \/ InQueue(d, td, t)
  BY DEF Emitted
<1>4. ASSUME ds # none PROVE InFront(d, Last(ds).units, td, none, none, b, q)
  <2>1. PICK vs : vs = Last(ds).units
    OBVIOUS
  <2> SUFFICES ASSUME vs # <<>>
               PROVE  \A i \in 1..Len(td) : Below({Last(vs).line}, Reach(d, td[i]))
    BY <1>1, <2>1 DEF InFront
  <2>2. CASE vs = us
    BY <1>2, <2>2
  <2>3. CASE vs # us
    <3>1. InFront(d, vs, td, <<>>, <<s>>, n, p)
      BY <1>1, <1>4, <2>1, <2>3 DEF Emitted
    <3> QED
      BY <3>1 DEF InFront
  <2> QED
    BY <2>2, <2>3
<1>5. ASSUME NEW t \in Due(d) PROVE Held(d, td, none, none, b, q, ds, t)
  BY <1>3 DEF Held
<1> QED
  BY <1>1, <1>2, <1>4, <1>5 DEF Kept

\* A part is emitted and others are left.
LEMMA EmitMoreKept ==
  ASSUME NEW d, NEW td, NEW s, NEW n, n = Len(s.units), NEW p, NEW cs,
         NEW part, part = Parts(p)[1], NEW us, us = Picked(s.units, part), NEW ds,
         Emitted(d, td, s, n, p, cs, us, ds),
         NEW q, PackShape(q, n), NEW rest, Left(p, Parts(p), q, rest)
  PROVE  Kept(d, td, <<>>, <<s>>, n, q, ds)
PROOF
<1>1. PICK none : none = <<>>
  OBVIOUS
<1>2. PICK one : one = <<s>>
  OBVIOUS
<1>3. one[1] = s /\ one # none /\ one = <<one[1]>>
  BY <1>1, <1>2
<1>4. /\ d \in Documents /\ Queued(d, td) /\ Chunked(ds) /\ AtWork(d, s, n, p, td)
      /\ us # <<>> => \A i \in 1..Len(td) : Below({Last(us).line}, Reach(d, td[i]))
  BY DEF Emitted
<1>5. \A t \in Due(d) : InChunk(ds, t) \/ InQueue(d, td, t) \/ ToPack(s, n, q, t)
  BY DEF Emitted
<1>6. InLine(s.units) /\ PackShape(p, n) /\ n \in 0..Len(s.units)
  BY <1>4 DEF AtWork
<1>7. n \in Nat /\ Len(Parts(p)) \in Nat
  <2>1. n \in Nat
    BY <1>6 DEF InLine, IsSequence
  <2>2. PICK parts : parts = Parts(p)
    OBVIOUS
  <2>3. Len(parts) \in Nat \ {0}
    BY <1>6, <2>1, <2>2, PartsShape
  <2> QED
    BY <2>1, <2>2, <2>3
<1>8. AtWork(d, s, n, q, td)
  BY <1>4 DEF AtWork
<1>9. ASSUME ds # none PROVE InFront(d, Last(ds).units, td, none, one, n, q)
  <2>1. PICK vs : vs = Last(ds).units
    OBVIOUS
  <2> SUFFICES ASSUME vs # <<>>
               PROVE  /\ \A i \in 1..Len(td) : Below({Last(vs).line}, Reach(d, td[i]))
                      /\ BehindSpan(vs, s, n, q)
    BY <1>1, <1>3, <2>1 DEF InFront
  <2>2. CASE vs = us
    <3>1. BehindSpan(us, s, n, q)
      BY <1>6, FirstBehind
    <3> QED
      BY <1>4, <2>2, <3>1
  <2>3. CASE vs # us
    <3>1. InFront(d, vs, td, none, one, n, p)
      BY <1>1, <1>2, <1>9, <2>1, <2>3 DEF Emitted
    <3>2. /\ \A i \in 1..Len(td) : Below({Last(vs).line}, Reach(d, td[i]))
          /\ BehindSpan(vs, s, n, p)
      BY <1>1, <1>3, <3>1 DEF InFront
    <3>3. BehindSpan(vs, s, n, q)
      BY <1>7, <3>2, BehindLeft
    <3> QED
      BY <3>2, <3>3
  <2> QED
    BY <2>2, <2>3
<1>10. ASSUME NEW t \in Due(d) PROVE Held(d, td, none, one, n, q, ds, t)
  <2>1. InChunk(ds, t) \/ InQueue(d, td, t) \/ ToPack(s, n, q, t)
    BY <1>5
  <2> QED
    BY <1>1, <1>3, <2>1 DEF Held
<1> QED
  BY <1>1, <1>2, <1>3, <1>4, <1>8, <1>9, <1>10 DEF Kept

-----------------------------------------------------------------------------
(* The queue of a document at its beginning.                               *)

LEMMA PrecedesBelow ==
  ASSUME NEW s, NEW t, Precedes(s, t)
  PROVE  Below(SpanLines(s), SpanLines(t))
  BY DEF Precedes, Below, SpanLines

\* Spans that are laid wait in order.
LEMMA LaidQueued ==
  ASSUME NEW d, d.kind # "docs", NEW ss, NEW lo, NEW hi, Laid(ss, lo, hi)
  PROVE  /\ Queued(d, ss)
         /\ \A t : SpansHave(ss, t) => InQueue(d, ss, t)
PROOF
<1>1. /\ IsSequence(ss)
      /\ \A i \in 1..Len(ss) : InLine(ss[i].units)
      /\ \A i, j \in 1..Len(ss) : i < j => Precedes(ss[i], ss[j])
  BY DEF Laid, Lies
<1>2. \A i \in 1..Len(ss) : Waits(d, ss[i])
  BY <1>1 DEF Waits
<1>3. ASSUME NEW i \in 1..Len(ss), NEW j \in 1..Len(ss), i < j
      PROVE  Below(Reach(d, ss[i]), Reach(d, ss[j]))
  <2>1. Precedes(ss[i], ss[j])
    BY <1>1, <1>3
  <2>2. Reach(d, ss[i]) = SpanLines(ss[i]) /\ Reach(d, ss[j]) = SpanLines(ss[j])
    BY DEF Reach
  <2> QED
    BY <2>1, <2>2, PrecedesBelow
<1>4. ASSUME NEW t, SpansHave(ss, t) PROVE InQueue(d, ss, t)
  BY <1>4 DEF SpansHave, InQueue, Keeps
<1> QED
  BY <1>1, <1>2, <1>3, <1>4 DEF Queued

\* The sections of a page make it up.
LEMMA SectionsQueued ==
  ASSUME NEW d \in Documents, d.kind = "docs"
  PROVE  /\ Queued(d, d.sections)
         /\ \A t \in Due(d) : InQueue(d, d.sections, t)
PROOF
<1>1. /\ IsSequence(d.sections)
      /\ \A i \in 1..Len(d.sections) : IsSection(d, d.sections[i])
      /\ SectionsInOrder(d) /\ d.text \in Seq(Seq(Nat))
  BY DocumentsAssumption
<1>2. PICK n \in Nat : n = Len(d.sections)
  BY <1>1 DEF IsSequence
<1>3. PICK w \in Nat : w = Len(d.text)
  BY <1>1
<1>4. /\ \A i, j \in 1..n : i < j => d.sections[i].last < d.sections[j].first
      /\ \A i \in 1..n : d.sections[i].first <= d.sections[i].last
      /\ \A p \in 1..w : \E i \in 1..n :
           d.sections[i].first <= p /\ p <= d.sections[i].last
  BY <1>1, <1>2, <1>3 DEF SectionsInOrder
<1>5. \A i \in 1..n : d.sections[i].first \in Nat \ {0} /\ d.sections[i].last \in 0..w
  BY <1>1, <1>2, <1>3 DEF IsSection, Within
<1>6. \A i \in 1..n : Waits(d, d.sections[i])
  BY <1>1, <1>2, <1>4 DEF Waits
<1>7. ASSUME NEW i \in 1..n, NEW j \in 1..n, i < j
      PROVE  Below(Reach(d, d.sections[i]), Reach(d, d.sections[j]))
  <2>1. PICK a \in Nat, b \in Nat, c \in Nat, e \in Nat :
          /\ a = d.sections[i].first /\ b = d.sections[i].last
          /\ c = d.sections[j].first /\ e = d.sections[j].last
    <3>1. \A b \in 0..w : b \in Nat
      OBVIOUS
    <3> QED
      BY <1>5, <3>1
  <2>2. b < c
    BY <1>4, <1>7, <2>1
  <2>3. \A x \in a..b : \A y \in c..e : x <= y
    BY <2>2
  <2> QED
    BY <2>1, <2>3 DEF Below, Reach
<1>8. ASSUME NEW t \in Due(d) PROVE InQueue(d, d.sections, t)
  <2>1. PICK p \in 1..w : t \in Tokens(d.text, p)
    <3>1. DOMAIN d.text = 1..w
      BY <1>1, <1>3
    <3> QED
      BY <3>1 DEF Due, ToFind
  <2>2. PICK i \in 1..n : d.sections[i].first <= p /\ p <= d.sections[i].last
    BY <1>4
  <2>3. PICK a \in Nat \ {0}, b \in 0..w : a = d.sections[i].first /\ b = d.sections[i].last
    BY <1>5
  <2>4. p \in a..b
    BY <2>2, <2>3
  <2>5. Start(d.text, a) <= t /\ t < Start(d.text, b + 1)
    BY <1>1, <1>3, <2>1, <2>4, TokenBetween
  <2>6. Keeps(d, d.sections[i], t)
    BY <2>3, <2>5 DEF Keeps
  <2> QED
    BY <1>2, <2>6 DEF InQueue
<1> QED
  BY <1>1, <1>2, <1>6, <1>7, <1>8 DEF Queued

LEMMA InitKept ==
  ASSUME NEW d \in Documents, NEW td, td = Todo(d), NEW cs, cs = <<>>, NEW a, NEW p
  PROVE  Kept(d, td, <<>>, <<>>, a, p, cs)
PROOF
<1>1. Queued(d, td) /\ \A t \in Due(d) : InQueue(d, td, t)
  <2>1. CASE d.kind = "docs"
    <3>1. td = d.sections
      BY <2>1 DEF Todo
    <3> QED
      BY <2>1, <3>1, SectionsQueued
  <2>2. CASE d.kind = "code"
    <3>1. td = CodeSpans(d) /\ ToFind(d) = CodeWanted(d)
      BY <2>2 DEF Todo, ToFind
    <3>2. /\ Laid(td, 1, Len(d.text))
          /\ \A q \in CodeWanted(d) : \A t \in Tokens(d.text, q) : SpansHave(td, t)
      BY <2>2, <3>1, CodeLaid
    <3>3. /\ Queued(d, td)
          /\ \A t : SpansHave(td, t) => InQueue(d, td, t)
      BY <2>2, <3>2, LaidQueued
    <3> QED
      BY <3>1, <3>2, <3>3 DEF Due
  <2>3. CASE d.kind = "issue"
    <3>1. td = <<BodySpan(d)>> \o ThreadSpans(d) /\ ToFind(d) = IssueWanted(d)
      BY <2>3 DEF Todo, ToFind
    <3>2. /\ Laid(td, 0, Len(d.text))
          /\ \A q \in IssueWanted(d) : \A t \in Tokens(d.text, q) : SpansHave(td, t)
      BY <2>3, <3>1, IssueLaid
    <3>3. /\ Queued(d, td)
          /\ \A t : SpansHave(td, t) => InQueue(d, td, t)
      BY <2>3, <3>2, LaidQueued
    <3> QED
      BY <3>1, <3>2, <3>3 DEF Due
  <2>4. d.kind \in {"docs", "code", "issue"}
    BY DocumentsAssumption
  <2> QED
    BY <2>1, <2>2, <2>3, <2>4
<1>2. Chunked(cs)
  <2>1. Len(cs) = 0 /\ IsSequence(cs)
    BY DEF IsSequence
  <2> QED
    BY <2>1 DEF Chunked
<1>3. ASSUME NEW t \in Due(d) PROVE Held(d, td, <<>>, <<>>, a, p, cs, t)
  BY <1>1 DEF Held
<1>4. PICK none : none = <<>>
  OBVIOUS
<1> QED
  BY <1>1, <1>2, <1>3, <1>4 DEF Kept

-----------------------------------------------------------------------------
(* What is kept stays kept.                                                *)

LEMMA KeptInit == ChunkInit => KeptInv
PROOF
<1> SUFFICES ASSUME ChunkInit PROVE KeptInv
  OBVIOUS
<1>1. /\ doc \in Documents /\ todo = Todo(doc) /\ pending = <<>> /\ span = <<>> /\ chunks = <<>>
  BY DEF ChunkInit
<1>2. Kept(doc, todo, <<>>, <<>>, at, pk, chunks)
  BY <1>1, InitKept
<1> QED
  BY <1>1, <1>2 DEF KeptInv

\* A section that becomes a span.
LEMMA SectionKept ==
  ASSUME NEW d, d.kind = "docs", NEW td, NEW x, NEW a, NEW p, NEW cs,
         Kept(d, td, <<x>>, <<>>, a, p, cs)
  PROVE  Kept(d, td, <<>>, <<SectionSpan(d, x)>>, 0, EmptyPack, cs)
PROOF
<1>1. PICK one : one = <<x>>
  OBVIOUS
<1>2. one[1] = x /\ one # <<>>
  BY <1>1
<1>3. Kept(d, td, one, <<>>, a, p, cs)
  BY <1>1
<1>4. d \in Documents /\ Waits(d, x)
  BY <1>2, <1>3 DEF Kept, Leading
<1>5. PICK s : s = SectionSpan(d, x)
  OBVIOUS
<1>6. /\ InLine(s.units) /\ SpanLines(s) \subseteq Reach(d, x)
      /\ \A t \in Int : Keeps(d, x, t) => HasToken(s.units, t)
  BY <1>4, <1>5, SectionOpens
<1>7. Kept(d, td, <<>>, <<s>>, 0, EmptyPack, cs)
  BY <1>6, OpenKept
<1> QED
  BY <1>5, <1>7

LEMMA KeptTakeSection == KeptInv /\ TakeSection => KeptInv'
PROOF
<1> SUFFICES ASSUME KeptInv, TakeSection PROVE KeptInv'
  OBVIOUS
<1>1. /\ doc.kind = "docs" /\ span = <<>> /\ todo # <<>>
      /\ todo' = Tail(todo) /\ UNCHANGED <<doc, index, used, chunks>>
  BY DEF TakeSection, Open
<1>2. PICK s : s = Merged(pending, Head(todo))
  OBVIOUS
<1>3. Kept(doc, todo, pending, <<>>, at, pk, chunks)
  BY <1>1 DEF KeptInv
<1>4. IsSequence(todo)
  BY <1>3 DEF Kept, Queued
<1>5. IsFirst(Head(todo), Tail(todo), todo)
  BY <1>1, <1>4, FirstOf
<1>6. Kept(doc, Tail(todo), <<s>>, <<>>, at, pk, chunks)
  <2>1. CASE pending = <<>>
    <3>1. s = Head(todo)
      BY <1>2, <2>1 DEF Merged
    <3>2. Kept(doc, todo, <<>>, <<>>, at, pk, chunks)
      BY <1>3, <2>1
    <3> QED
      BY <1>5, <3>1, <3>2, TakeKept
  <2>2. CASE pending # <<>>
    <3>1. PICK q : q = pending[1]
      OBVIOUS
    <3>2. pending = <<q>>
      BY <1>3, <2>2, <3>1 DEF Kept
    <3>3. s = Joined(q, Head(todo))
      BY <1>2, <2>2, <3>1 DEF Merged, Joined
    <3>4. Kept(doc, todo, <<q>>, <<>>, at, pk, chunks)
      BY <1>3, <3>2
    <3> QED
      BY <1>1, <1>5, <3>3, <3>4, MergeKept
  <2> QED
    BY <2>1, <2>2
<1>7. \/ pending' = <<s>> /\ UNCHANGED <<span, at, pk>>
      \/ pending' = <<>> /\ span' = <<SectionSpan(doc, s)>> /\ at' = 0 /\ pk' = EmptyPack
  BY <1>2 DEF TakeSection, Open
<1>8. CASE pending' = <<s>> /\ UNCHANGED <<span, at, pk>>
  <2>1. Kept(doc', todo', pending', span', at', pk', chunks')
    BY <1>1, <1>6, <1>8
  <2> QED
    BY <1>1, <2>1 DEF KeptInv
<1>9. CASE pending' = <<>> /\ span' = <<SectionSpan(doc, s)>> /\ at' = 0 /\ pk' = EmptyPack
  <2>1. Kept(doc, Tail(todo), <<>>, <<SectionSpan(doc, s)>>, 0, EmptyPack, chunks)
    BY <1>1, <1>6, SectionKept
  <2>2. Kept(doc', todo', pending', span', at', pk', chunks')
    BY <1>1, <1>9, <2>1
  <2> QED
    BY <1>9, <2>2 DEF KeptInv
<1> QED
  BY <1>7, <1>8, <1>9

LEMMA KeptTakeTrailing == KeptInv /\ TakeTrailing => KeptInv'
PROOF
<1> SUFFICES ASSUME KeptInv, TakeTrailing PROVE KeptInv'
  OBVIOUS
<1>1. /\ span = <<>> /\ pending # <<>> /\ pending' = <<>>
      /\ span' = <<SectionSpan(doc, pending[1])>> /\ at' = 0 /\ pk' = EmptyPack
      /\ UNCHANGED <<doc, todo, chunks>>
  BY DEF TakeTrailing, Open
<1>2. doc.kind = "docs"
  BY <1>1 DEF KeptInv
<1>3. PICK q : q = pending[1]
  OBVIOUS
<1>4. pending = <<q>>
  BY <1>1, <1>3 DEF KeptInv, Kept
<1>5. Kept(doc, todo, <<q>>, <<>>, at, pk, chunks)
  BY <1>1, <1>4 DEF KeptInv
<1>6. Kept(doc, todo, <<>>, <<SectionSpan(doc, q)>>, 0, EmptyPack, chunks)
  BY <1>2, <1>5, SectionKept
<1>7. Kept(doc', todo', pending', span', at', pk', chunks')
  BY <1>1, <1>3, <1>6
<1> QED
  BY <1>1, <1>7 DEF KeptInv

LEMMA KeptTakeSpan == KeptInv /\ TakeSpan => KeptInv'
PROOF
<1> SUFFICES ASSUME KeptInv, TakeSpan PROVE KeptInv'
  OBVIOUS
<1>1. /\ doc.kind # "docs" /\ span = <<>> /\ todo # <<>> /\ todo' = Tail(todo)
      /\ span' = <<Head(todo)>> /\ at' = 0 /\ pk' = EmptyPack
      /\ UNCHANGED <<doc, pending, chunks>>
  BY DEF TakeSpan, Open
<1>2. pending = <<>>
  BY <1>1 DEF KeptInv
<1>3. PICK x : x = Head(todo)
  OBVIOUS
<1>4. Kept(doc, todo, <<>>, <<>>, at, pk, chunks)
  BY <1>1, <1>2 DEF KeptInv
<1>5. IsSequence(todo)
  BY <1>4 DEF Kept, Queued
<1>6. IsFirst(x, Tail(todo), todo)
  BY <1>1, <1>3, <1>5, FirstOf
<1>7. Kept(doc, Tail(todo), <<x>>, <<>>, at, pk, chunks)
  BY <1>4, <1>6, TakeKept
<1>8. Waits(doc, x)
  <2>1. todo[1] = x /\ 1 \in 1..Len(todo)
    BY <1>6 DEF IsFirst
  <2> QED
    BY <1>4, <2>1 DEF Kept, Queued
<1>9. /\ InLine(x.units) /\ SpanLines(x) \subseteq Reach(doc, x)
      /\ \A t \in Int : Keeps(doc, x, t) => HasToken(x.units, t)
  BY <1>1, <1>8, SpanOpens
<1>10. Kept(doc, Tail(todo), <<>>, <<x>>, 0, EmptyPack, chunks)
  BY <1>7, <1>9, OpenKept
<1>11. Kept(doc', todo', pending', span', at', pk', chunks')
  BY <1>1, <1>2, <1>3, <1>10
<1> QED
  BY <1>1, <1>2, <1>11 DEF KeptInv

LEMMA KeptPackNext == KeptInv /\ PackNext => KeptInv'
PROOF
<1> SUFFICES ASSUME KeptInv, PackNext PROVE KeptInv'
  OBVIOUS
<1>1. /\ span # <<>> /\ at < Len(span[1].units) /\ at' = at + 1
      /\ pk' = PackUnit(pk, span[1].units, at + 1, Budget(span[1].header))
      /\ UNCHANGED <<doc, todo, pending, span, chunks>>
  BY DEF PackNext
<1>2. PICK s : s = span[1]
  OBVIOUS
<1>3. pending = <<>> /\ span = <<s>>
  BY <1>1, <1>2 DEF KeptInv, Kept
<1>4. Kept(doc, todo, <<>>, <<s>>, at, pk, chunks)
  BY <1>3 DEF KeptInv
<1>5. PICK max : max = Budget(s.header)
  OBVIOUS
<1>6. at < Len(s.units) /\ pk' = PackUnit(pk, s.units, at', max)
  BY <1>1, <1>2, <1>5
<1>7. Kept(doc, todo, <<>>, <<s>>, at', pk', chunks)
  BY <1>1, <1>4, <1>6, PackKept
<1>8. Kept(doc', todo', pending', span', at', pk', chunks')
  BY <1>1, <1>3, <1>7
<1> QED
  BY <1>1, <1>3, <1>8 DEF KeptInv

\* A part with nothing in it costs nothing.
LEMMA BlankIsFree ==
  ASSUME NEW s, NEW part, IsBlank(s, part)
  PROVE  Costs(Picked(s.units, part)) = 0
PROOF
<1>1. CASE part = <<>>
  BY <1>1, NothingPicked
<1>2. CASE part # <<>>
  BY <1>2 DEF IsBlank
<1> QED
  BY <1>1, <1>2

LEMMA KeptEmitPart == KeptInv /\ EmitPart => KeptInv'
PROOF
<1> SUFFICES ASSUME KeptInv, EmitPart PROVE KeptInv'
  OBVIOUS
<1>1. PICK s : s = span[1]
  OBVIOUS
<1>2. PICK parts : parts = Parts(pk)
  OBVIOUS
<1>3. PICK part : part = Head(parts)
  OBVIOUS
<1>4. PICK n : n = Len(s.units)
  OBVIOUS
<1>5. PICK us : us = Picked(s.units, part)
  OBVIOUS
<1>6. /\ span # <<>> /\ at = n /\ UNCHANGED <<doc, todo, pending, at>>
      /\ IF IsBlank(s, part) THEN chunks' = chunks ELSE chunks' = Append(chunks, Chunk(s, part))
      /\ IF Tail(parts) = <<>> THEN span' = <<>> /\ pk' = EmptyPack
         ELSE span' = span /\ pk' = [pk EXCEPT !.parts = Tail(@)]
  BY <1>1, <1>2, <1>3, <1>4 DEF EmitPart
<1>7. pending = <<>> /\ span = <<s>>
  BY <1>1, <1>6 DEF KeptInv, Kept
<1>8. Kept(doc, todo, <<>>, <<s>>, n, pk, chunks)
  BY <1>6, <1>7 DEF KeptInv
<1>9. PackShape(pk, n) /\ InLine(s.units)
  <2>1. PICK one : one = <<s>>
    OBVIOUS
  <2>2. one # <<>> /\ one[1] = s
    BY <2>1
  <2>3. Kept(doc, todo, <<>>, one, n, pk, chunks)
    BY <1>8, <2>1
  <2> QED
    BY <2>2, <2>3 DEF Kept, AtWork
<1>10. n \in Nat
  BY <1>4, <1>9 DEF InLine, IsSequence
<1>11. IsSequence(parts) /\ Len(parts) \in Nat \ {0} /\ parts # <<>>
  BY <1>2, <1>9, <1>10, PartsShape
<1>12. part = parts[1] /\ Len(Tail(parts)) = Len(parts) - 1
  BY <1>3, <1>11, Shortened
<1>13. PICK ds : ds = chunks'
  OBVIOUS
<1>14. Emits(chunks, us, ds)
  <2>1. CASE IsBlank(s, part)
    <3>1. Costs(us) = 0
      BY <1>5, <2>1, BlankIsFree
    <3> QED
      BY <1>6, <1>13, <2>1, <3>1 DEF Emits
  <2>2. CASE ~IsBlank(s, part)
    <3>1. PICK c : c = Chunk(s, part)
      OBVIOUS
    <3>2. c.units = us
      BY <1>5, <3>1 DEF Chunk
    <3>3. ds = Append(chunks, c)
      BY <1>6, <1>13, <2>2, <3>1
    <3> QED
      BY <3>2, <3>3 DEF Emits
  <2> QED
    BY <2>1, <2>2
<1>15. part = Parts(pk)[1]
  BY <1>2, <1>12
<1>16. Emitted(doc, todo, s, n, pk, chunks, us, ds)
  BY <1>4, <1>5, <1>8, <1>14, <1>15, EmitPartOf
<1>17. Kept(doc, todo, <<>>, span', n, pk', ds)
  <2>1. CASE Tail(parts) = <<>>
    <3>1. Len(Parts(pk)) = 1
      <4>1. Len(Tail(parts)) = 0
        BY <2>1
      <4>2. PICK l \in Nat : l = Len(parts)
        BY <1>11
      <4>3. l - 1 = 0
        BY <1>12, <4>1, <4>2
      <4>4. l = 1
        BY <4>3
      <4> QED
        BY <1>2, <4>2, <4>4
    <3>2. Kept(doc, todo, <<>>, <<>>, n, pk', ds)
      BY <1>16, <3>1, EmitLastKept
    <3> QED
      BY <1>6, <2>1, <3>2
  <2>2. CASE Tail(parts) # <<>>
    <3>1. PICK q : q = [pk EXCEPT !.parts = Tail(@)]
      OBVIOUS
    <3>2. PICK rest : rest = Parts(q)
      OBVIOUS
    <3>3. /\ PackShape(q, n) /\ q.buffer = pk.buffer /\ pk.buffer # <<>>
          /\ Len(rest) = Len(parts) - 1 /\ \A r \in 1..(Len(parts) - 1) : rest[r] = parts[r + 1]
      BY <1>2, <1>9, <1>10, <2>2, <3>1, <3>2, PartGone
    <3>4. Left(pk, Parts(pk), q, rest)
      BY <1>2, <3>2, <3>3 DEF Left
    <3>5. Kept(doc, todo, <<>>, <<s>>, n, q, ds)
      BY <1>4, <1>5, <1>15, <1>16, <3>3, <3>4, EmitMoreKept
    <3>6. span' = <<s>> /\ pk' = q
      BY <1>6, <1>7, <2>2, <3>1
    <3> QED
      BY <3>5, <3>6
  <2> QED
    BY <2>1, <2>2
<1>18. Kept(doc', todo', pending', span', at', pk', chunks')
  BY <1>6, <1>7, <1>13, <1>17
<1> QED
  BY <1>6, <1>7, <1>18 DEF KeptInv

-----------------------------------------------------------------------------
(* Nothing is lost.                                                        *)

\* A token in a chunk is said.
LEMMA ChunksSay ==
  ASSUME Chunked(chunks), NEW t, InChunk(chunks, t)
  PROVE  \E i \in DOMAIN Said : Said[i].from <= t /\ t < Said[i].to
PROOF
<1>1. PICK n \in Nat : n = Len(chunks) /\ DOMAIN chunks = 1..n
  <2>1. Len(chunks) \in Nat /\ chunks = [i \in 1..Len(chunks) |-> chunks[i]]
    BY DEF Chunked, IsSequence
  <2> QED
    BY <2>1
<1>2. PICK seqs : seqs = [i \in 1..n |-> chunks[i].units]
  OBVIOUS
<1>3. IsSequence(seqs) /\ Len(seqs) = n /\ \A i \in 1..n : seqs[i] = chunks[i].units
  BY <1>2 DEF IsSequence
<1>4. PICK R : R = (UNION {{seqs[i][j] : j \in 1..Len(seqs[i])} : i \in 1..n})
                     \X (UNION {{seqs[i][j] : j \in 1..Len(seqs[i])} : i \in 1..n})
  OBVIOUS
<1>5. \A i, j \in 1..n : \A k \in 1..Len(seqs[i]) : \A l \in 1..Len(seqs[j]) :
        <<seqs[i][k], seqs[j][l]>> \in R
  BY <1>4
<1>6. \A i \in 1..n : Ordered(seqs[i], R)
  BY <1>1, <1>3, <1>5 DEF Ordered, Chunked, InLine
<1>7. PICK said : said = FlattenSeq(seqs)
  OBVIOUS
<1>8. Said = said
  BY <1>1, <1>2, <1>7 DEF Said
<1>9. /\ Ordered(said, R)
      /\ \A i \in 1..Len(seqs) : \A j \in 1..Len(seqs[i]) :
           \E k \in 1..Len(said) : said[k] = seqs[i][j]
  <2>1. \A i, j \in 1..Len(seqs) : i < j =>
          \A k \in 1..Len(seqs[i]) : \A l \in 1..Len(seqs[j]) : <<seqs[i][k], seqs[j][l]>> \in R
    BY <1>3, <1>5
  <2>2. \A i \in 1..Len(seqs) : Ordered(seqs[i], R)
    BY <1>3, <1>6
  <2>3. IsSequence(seqs)
    BY <1>3
  <2> QED
    BY <1>7, <2>1, <2>2, <2>3, FlattenOrdered, SMTT(15)
<1>10. Len(seqs) = n
  BY <1>3
<1>11. PICK i \in 1..n : HasToken(chunks[i].units, t)
  BY <1>1 DEF InChunk
<1>12. PICK j \in 1..Len(seqs[i]) : seqs[i][j].from <= t /\ t < seqs[i][j].to
  BY <1>3, <1>11 DEF HasToken
<1>13. PICK k \in 1..Len(said) : said[k] = seqs[i][j]
  BY <1>9, <1>10
<1>14. DOMAIN said = 1..Len(said)
  BY <1>9 DEF Ordered, IsSequence
<1> QED
  BY <1>8, <1>12, <1>13, <1>14

LEMMA KeptIsFound == KeptInv => NothingLost
PROOF
<1> SUFFICES ASSUME KeptInv PROVE NothingLost
  OBVIOUS
<1>1. Chunked(chunks)
  BY DEF KeptInv, Kept
<1>2. PICK n \in Nat : n = Len(chunks) /\ DOMAIN chunks = 1..n
  <2>1. Len(chunks) \in Nat /\ chunks = [i \in 1..Len(chunks) |-> chunks[i]]
    BY <1>1 DEF Chunked, IsSequence
  <2> QED
    BY <2>1
<1>3. ASSUME Done, NEW p \in Wanted, NEW t \in Tokens(doc.text, p)
      PROVE  \E i \in DOMAIN Said : Said[i].from <= t /\ t < Said[i].to
  <2>1. p \in ToFind(doc)
    BY <1>3 DEF Wanted, ToFind, CodeWanted, IssueWanted
  <2>2. t \in Due(doc)
    BY <1>3, <2>1 DEF Due
  <2>3. Held(doc, todo, pending, span, at, pk, chunks, t)
    BY <2>2 DEF KeptInv, Kept
  <2>4. pending = <<>> /\ span = <<>> /\ Len(todo) = 0
    BY <1>3 DEF Done
  <2>5. InChunk(chunks, t)
    BY <2>3, <2>4 DEF Held, InQueue
  <2> QED
    BY <1>1, <2>5, ChunksSay
<1>4. ASSUME NEW i \in 1..n, NEW us, us = chunks[i].units, NEW j \in 1..(Len(us) - 1)
      PROVE  us[j].from <= us[j + 1].from /\ us[j].to <= us[j + 1].to
  <2>1. InLine(us)
    BY <1>1, <1>2, <1>4 DEF Chunked
  <2>2. PICK l \in Nat : l = Len(us)
    BY <2>1 DEF InLine, IsSequence
  <2>3. PICK k \in 1..l : k = j + 1 /\ j \in 1..l /\ j < k
    BY <2>2
  <2> QED
    BY <2>1, <2>2, <2>3 DEF InLine, NotAfter
<1>5. ASSUME NEW i \in 1..(n - 1), NEW us, us = chunks[i].units, NEW vs, vs = chunks[i + 1].units,
             us # <<>>, vs # <<>>
      PROVE  us[1].line <= vs[1].line /\ Last(us).line <= Last(vs).line
  <2>1. PICK k \in 1..n : k = i + 1 /\ i \in 1..n
    OBVIOUS
  <2>2. Leads(us, vs)
    BY <1>1, <1>2, <1>5, <2>1 DEF Chunked
  <2> QED
    BY <1>5, <2>2 DEF Leads
<1> QED
  BY <1>2, <1>3, <1>4, <1>5 DEF NothingLost

\* Once a document is chunked, every token of its sections, definitions, body
\* and human comments is in some chunk, and the chunks go through the text in its
\* order (chunk_docs, chunk_code, chunk_issue, _pack, _hard_split): for every
\* document the parsers may hand over, and any sizes.
THEOREM NothingIsLost == ChunkSpec => []NothingLost
PROOF
<1>1. KeptInv /\ [ChunkNext]_chunkVars => KeptInv'
  <2> SUFFICES ASSUME KeptInv, [ChunkNext]_chunkVars PROVE KeptInv'
    OBVIOUS
  <2>1. CASE ChunkNext
    BY <2>1, KeptTakeSection, KeptTakeTrailing, KeptTakeSpan, KeptPackNext, KeptEmitPart DEF ChunkNext
  <2>2. CASE UNCHANGED chunkVars
    BY <2>2 DEF chunkVars, KeptInv
  <2> QED
    BY <2>1, <2>2
<1>2. KeptInv => NothingLost
  BY KeptIsFound
<1> QED
  BY <1>1, <1>2, KeptInit, PTL DEF ChunkSpec
=============================================================================
