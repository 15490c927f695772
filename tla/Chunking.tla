------------------------------ MODULE Chunking ------------------------------
(***************************************************************************)
(* app/ingest/chunking.py: one document becomes chunks that fit the        *)
(* embedder's window.  A docs page is a list of sections, a code file a    *)
(* list of definitions, an issue a body and its comments; each is cut into *)
(* units, the units are packed into overlapping parts, and each part is a  *)
(* chunk with a citation of its own.                                       *)
(*                                                                         *)
(* A text is a sequence of paragraphs (of a code file: its lines), each a  *)
(* sequence of lines, each the number of its tokens; white space has none, *)
(* and texts joined by it have the tokens of each.  The tokens of a        *)
(* document are numbered through from 0.  A run of them that is decoded    *)
(* again may count otherwise than the run: a word that was cut, say.       *)
(***************************************************************************)
EXTENDS Integers, Sequences, SequencesExt, FiniteSets, FiniteSetsExt, Totals

CONSTANTS
  Documents,      \* the documents to choose from
  EmbedWindow,    \* EMBED_WINDOW, 512
  SafetyMargin,   \* SAFETY_MARGIN, 16
  MinBudget,      \* content_budget's floor, 64
  Overlap,        \* OVERLAP_TOKENS, 96
  MinSection,     \* MIN_SECTION_TOKENS, 100
  RunLength,      \* MAX_COMMENTS_PER_THREAD, 5
  AuthorRoom,     \* kept for an author's name in a thread, 8
  Recount,        \* what runs <<from, n>> count once decoded, if not n
  Drift,          \* at most so many more
  SpecialTokens   \* the model's own around a text, which nothing counts, 2

MaxTokens == EmbedWindow - SafetyMargin

ASSUME SizesAssumption ==
  /\ {EmbedWindow, SafetyMargin, Overlap, MinSection, AuthorRoom} \subseteq Nat
  /\ {Drift, SpecialTokens} \subseteq Nat
  /\ RunLength \in Nat \ {0}
  /\ MinBudget \in Nat \ {0}
  /\ AuthorRoom < MinBudget
  /\ SafetyMargin + MinBudget <= EmbedWindow

\* A run is decoded to a text that is not blank.
ASSUME RecountAssumption ==
  \A r \in DOMAIN Recount : Recount[r] \in Nat \ {0} /\ Recount[r] <= r[2] + Drift

\* What the parsers of a document hand over.
IsSequence(s) == Len(s) \in Nat /\ s = [i \in 1..Len(s) |-> s[i]]

Within(d, r) == r.first \in Nat \ {0} /\ r.last \in 0..Len(d.text)

\* An anchor, and a slug, is a sequence of parts, the last of them perhaps a number.
IsSection(d, s) ==
  /\ DOMAIN s = {"first", "last", "header", "slug", "anchor"}
  /\ IsSequence(s.slug) /\ IsSequence(s.anchor) /\ s.header \in Nat /\ Within(d, s)

IsDefinition(d, n) ==
  /\ n.header \in Nat /\ Within(d, n) /\ IsSequence(n.methods)
  /\ \A i \in 1..Len(n.methods) : LET m == n.methods[i] IN
       m.header \in Nat /\ Within(d, m) /\ m.begin \in 1..Len(d.text)

\* What is put before a comment has a token at least.
IsComment(d, c) == c.author \in Nat \ {0} /\ Within(d, c)

\* Sections with a body make up a page; statements, methods and comments follow
\* each other, and two statements may share a line.
SectionsInOrder(d) ==
  /\ \A i, j \in 1..Len(d.sections) : i < j => d.sections[i].last < d.sections[j].first
  /\ \A i \in 1..Len(d.sections) : d.sections[i].first <= d.sections[i].last
  /\ \A p \in 1..Len(d.text) : \E i \in 1..Len(d.sections) :
       d.sections[i].first <= p /\ p <= d.sections[i].last

MethodsInOrder(n) ==
  /\ \A i \in 1..Len(n.methods) : LET m == n.methods[i] IN
       n.first <= m.begin /\ m.begin <= m.first /\ m.first <= m.last /\ m.last <= n.last
  /\ \A i, j \in 1..Len(n.methods) : i < j => n.methods[i].last <= n.methods[j].first

CommentsInOrder(d) ==
  /\ \A i \in 1..Len(d.comments) : LET c == d.comments[i] IN
       d.body < c.first /\ (c.bot \/ c.first <= c.last)
  /\ \A i, j \in 1..Len(d.comments) : i < j => d.comments[i].last < d.comments[j].first

ASSUME DocumentsAssumption ==
  \A d \in Documents :
    /\ d.kind \in {"docs", "code", "issue"}
    /\ d.text \in Seq(Seq(Nat))
    /\ d.kind = "docs" =>
         /\ IsSequence(d.sections)
         /\ \A i \in 1..Len(d.sections) : IsSection(d, d.sections[i])
         /\ SectionsInOrder(d)
    /\ d.kind = "code" =>
         /\ IsSequence(d.nodes)
         /\ \A i \in 1..Len(d.nodes) : IsDefinition(d, d.nodes[i]) /\ MethodsInOrder(d.nodes[i])
         /\ \A i, j \in 1..Len(d.nodes) : i < j => d.nodes[i].last <= d.nodes[j].first
    /\ d.kind = "issue" =>
         /\ {d.header, d.thread} \subseteq Nat /\ d.body \in 0..Len(d.text)
         /\ IsSequence(d.comments)
         /\ \A i \in 1..Len(d.comments) : IsComment(d, d.comments[i])
         /\ CommentsInOrder(d)

VARIABLES
  doc,      \* the document
  todo,     \* its sections, or its spans, not yet begun
  pending,  \* chunk_docs: the short section to merge into the next, if any
  span,     \* the span at work, if any
  at,       \* _pack: units packed
  pk,       \*   and its parts, buffer and buffer_tokens
  index,    \* of an issue's parts: enumerate(body_parts), thread_index
  used,     \* citations allocated in this document
  chunks

chunkVars == <<doc, todo, pending, span, at, pk, index, used, chunks>>

Larger(a, b) == IF a > b THEN a ELSE b
Smaller(a, b) == IF a < b THEN a ELSE b

Costs(units) == Total([i \in DOMAIN units |-> units[i].cost])

Budget(header) == Larger(MinBudget, MaxTokens - header)

-----------------------------------------------------------------------------
(* Cutting a text into units: paragraphs, else lines, else runs of tokens. *)

Unit(from, n, p) == [from |-> from, to |-> from + n, line |-> p, cost |-> n]

\* A run of tokens, decoded: what it counts from now on is what its text does.
Decoded(from, n) == IF <<from, n>> \in DOMAIN Recount THEN Recount[<<from, n>>] ELSE n

Piece(from, n, p) == [Unit(from, n, p) EXCEPT !.cost = Decoded(from, n)]

HardSplit(u, max) ==
  LET stride == Larger(1, max - Overlap)
      piece(k) == LET start == (k - 1) * stride
                  IN Piece(u.from + start, Smaller(max, u.cost - start), u.line)
  IN IF u.cost <= max THEN <<u>>
     ELSE [k \in 1..((u.cost + stride - 1) \div stride) |-> piece(k)]

Start(text, p) == Total([q \in 1..(p - 1) |-> Total(text[q])])

ParagraphUnits(text, p, max) ==
  LET line(l) == Unit(Start(text, p) + Total(SubSeq(text[p], 1, l - 1)), text[p][l], p)
  IN IF Total(text[p]) <= max THEN <<Unit(Start(text, p), Total(text[p]), p)>>
     ELSE FlattenSeq([l \in DOMAIN text[p] |-> HardSplit(line(l), max)])

UnitsOf(text, first, last, max) ==
  FlattenSeq([i \in 1..(last - first + 1) |-> ParagraphUnits(text, first + i - 1, max)])

-----------------------------------------------------------------------------
(* Packing units into parts.  Each is followed by a joiner, charged at 1.  *)

EmptyPack == [parts |-> <<>>, buffer |-> <<>>, tokens |-> 0]

Picked(units, part) == [i \in DOMAIN part |-> units[part[i]]]

\* The longest end of a part that fits in the overlap.
OverlapTail(units, part) ==
  LET end(n) == SubSeq(part, Len(part) - n + 1, Len(part))
  IN end(Max({n \in 0..Len(part) : Costs(Picked(units, end(n))) <= Overlap}))

\* Mutant: the tail is carried on whether the unit fits behind it or not.
CarriedAlways(units, part, tokens, max) == OverlapTail(units, part)

\* The tail is carried on only if the unit still fits behind it.
Carried(units, part, tokens, max) ==
  LET tail == OverlapTail(units, part)
  IN IF Costs(Picked(units, tail)) + tokens + 1 > max THEN <<>> ELSE tail

PackUnit(p, units, i, max) ==
  LET tokens == units[i].cost
      full == p.buffer # <<>> /\ p.tokens + tokens + 1 > max
      kept == Carried(units, p.buffer, tokens, max)
  IN IF full
     THEN [parts |-> Append(p.parts, p.buffer), buffer |-> Append(kept, i),
           tokens |-> Costs(Picked(units, kept)) + tokens + 1]
     ELSE [p EXCEPT !.buffer = Append(@, i), !.tokens = @ + tokens + 1]

\* With no unit at all there is one part, of nothing.
Parts(p) == IF p.buffer = <<>> THEN <<<<>>>> ELSE Append(p.parts, p.buffer)

Pack(units, max) ==
  FoldLeft(LAMBDA p, i : PackUnit(p, units, i, max), EmptyPack, [i \in DOMAIN units |-> i])

SplitText(text, first, last, max) ==
  LET units == UnitsOf(text, first, last, max)
      parts == Parts(Pack(units, max))
  IN [k \in DOMAIN parts |-> Picked(units, parts[k])]

-----------------------------------------------------------------------------
(* The spans of a document.                                                *)

SpanOf(tag, base, header, units) ==
  [tag |-> tag, base |-> base, header |-> header, units |-> units]

\* An explicit anchor is used verbatim, only a heading without one gets a slug.
SectionSpan(d, s) ==
  SpanOf("docs", IF s.anchor = <<>> THEN s.slug ELSE s.anchor, s.header,
         UnitsOf(d.text, s.first, s.last, Budget(s.header)))

\* Mutant: the short section's text is not carried over.
MergedAway(p, s) == IF p = <<>> THEN s ELSE [s EXCEPT !.anchor = <<>>]

\* The next section's heading wins and its text follows; its explicit anchor is
\* not passed on.
Merged(p, s) == IF p = <<>> THEN s ELSE [s EXCEPT !.first = p[1].first, !.anchor = <<>>]

LinesSpan(d, first, last, header) ==
  SpanOf("code", <<>>, header, UnitsOf(d.text, first, last, Budget(header)))

\* A class's header ends where its first method, decorators included, begins.
ClassSpans(d, n) ==
  LET methods == [i \in DOMAIN n.methods |->
                    LinesSpan(d, n.methods[i].first, n.methods[i].last, n.methods[i].header)]
      end == IF methods = <<>> THEN n.last
             ELSE Min({n.methods[i].begin : i \in DOMAIN methods}) - 1
  IN (IF end >= n.first THEN <<LinesSpan(d, n.first, end, n.header)>> ELSE <<>>) \o methods

CodeSpans(d) ==
  LET spans == IF ~d.parses THEN <<>>
               ELSE FlattenSeq([i \in DOMAIN d.nodes |-> ClassSpans(d, d.nodes[i])])
  IN IF spans = <<>> THEN <<LinesSpan(d, 1, Len(d.text), 0)>> ELSE spans

Human(d) ==
  FlattenSeq([i \in DOMAIN d.comments |->
                IF d.comments[i].bot THEN <<>> ELSE <<d.comments[i]>>])

\* A comment is split by itself, and each of its parts carries the author.
Rendered(d, c) ==
  LET parts == SplitText(d.text, c.first, c.last, Budget(d.thread) - AuthorRoom)
  IN [k \in DOMAIN parts |->
        [from |-> parts[k][1].from, to |-> Last(parts[k]).to, line |-> c.first,
         cost |-> c.author + Costs(parts[k])]]

ThreadSpans(d) ==
  LET human == Human(d)
      run(r) == SubSeq(human, (r - 1) * RunLength + 1, Smaller(r * RunLength, Len(human)))
      units(r) == FlattenSeq([i \in DOMAIN run(r) |-> Rendered(d, run(r)[i])])
  IN [r \in 1..((Len(human) + RunLength - 1) \div RunLength) |->
        SpanOf("comment", <<>>, d.thread, units(r))]

BodySpan(d) == SpanOf("body", <<>>, d.header, UnitsOf(d.text, 1, d.body, Budget(d.header)))

Todo(d) ==
  CASE d.kind = "docs" -> d.sections
    [] d.kind = "code" -> CodeSpans(d)
    [] d.kind = "issue" -> <<BodySpan(d)>> \o ThreadSpans(d)

-----------------------------------------------------------------------------
(* Citations.                                                              *)

\* Mutant: a taken citation is told apart once.
UniqueOnce(base, taken) == IF base \in taken THEN Append(base, 2) ELSE base

Unique(base, taken) ==
  IF base \notin taken THEN base
  ELSE LET free == {n \in 2..(Cardinality(taken) + 2) : Append(base, n) \notin taken}
       IN Append(base, Min(free))

\* Parts of the body and parts of the threads are numbered apart.
Numbering(s) == IF s.tag = "body" THEN "body" ELSE "comment"

\* A code citation is its range of lines; a file that does not parse allocates
\* nothing, and a part of an issue is numbered.
Citation(s, part) ==
  LET range == <<s.units[part[1]].line, s.units[Last(part)].line>>
  IN CASE doc.kind = "docs" -> Unique(s.base, used)
       [] doc.kind = "code" -> IF doc.parses THEN Unique(range, used) ELSE range
       [] doc.kind = "issue" -> <<Numbering(s), index[Numbering(s)]>>

Chunk(s, part) ==
  [id |-> Citation(s, part), tag |-> s.tag, units |-> Picked(s.units, part),
   header |-> s.header, token_count |-> s.header + Costs(Picked(s.units, part))]

\* A body's chunk has its title even without a text.
IsBlank(s, part) ==
  \/ part = <<>> /\ s.tag # "body"
  \/ s.header = 0 /\ Costs(Picked(s.units, part)) = 0

-----------------------------------------------------------------------------
ChunkInit ==
  /\ doc \in Documents
  /\ todo = Todo(doc)
  /\ pending = <<>>
  /\ span = <<>>
  /\ at = 0
  /\ pk = EmptyPack
  /\ index = [body |-> 0, comment |-> 0]
  /\ used = {}
  /\ chunks = <<>>

Open(s) ==
  /\ span' = <<s>>
  /\ at' = 0
  /\ pk' = EmptyPack
  /\ UNCHANGED <<doc, index, used, chunks>>

\* A section under MIN_SECTION_TOKENS waits for the next one.
TakeSection ==
  /\ doc.kind = "docs" /\ span = <<>> /\ todo # <<>>
  /\ LET s == Merged(pending, Head(todo))
         short == Total([p \in 1..(s.last - s.first + 1) |-> Total(doc.text[s.first + p - 1])])
                    < MinSection
     IN /\ todo' = Tail(todo)
        /\ IF short
           THEN pending' = <<s>> /\ UNCHANGED <<doc, span, at, pk, index, used, chunks>>
           ELSE pending' = <<>> /\ Open(SectionSpan(doc, s))

\* A trailing short section is kept.
TakeTrailing ==
  /\ span = <<>> /\ todo = <<>> /\ pending # <<>>
  /\ pending' = <<>>
  /\ Open(SectionSpan(doc, pending[1]))
  /\ UNCHANGED todo

TakeSpan ==
  /\ doc.kind # "docs" /\ span = <<>> /\ todo # <<>>
  /\ todo' = Tail(todo)
  /\ Open(Head(todo))
  /\ UNCHANGED pending

PackNext ==
  /\ span # <<>> /\ at < Len(span[1].units)
  /\ at' = at + 1
  /\ pk' = PackUnit(pk, span[1].units, at + 1, Budget(span[1].header))
  /\ UNCHANGED <<doc, todo, pending, span, index, used, chunks>>

\* The parts in order, one chunk each.
EmitPart ==
  /\ span # <<>> /\ at = Len(span[1].units)
  /\ LET s == span[1]
         part == Head(Parts(pk))
         rest == Tail(Parts(pk))
     IN /\ IF IsBlank(s, part) THEN UNCHANGED <<index, used, chunks>>
           ELSE /\ chunks' = Append(chunks, Chunk(s, part))
                /\ used' = used \cup {Citation(s, part)}
                /\ index' = [index EXCEPT ![Numbering(s)] = @ + 1]
        /\ IF rest = <<>> THEN span' = <<>> /\ pk' = EmptyPack
           ELSE span' = span /\ pk' = [pk EXCEPT !.parts = Tail(@)]
  /\ UNCHANGED <<doc, todo, pending, at>>

ChunkNext == TakeSection \/ TakeTrailing \/ TakeSpan \/ PackNext \/ EmitPart

ChunkSpec == ChunkInit /\ [][ChunkNext]_chunkVars

Done == span = <<>> /\ todo = <<>> /\ pending = <<>>

-----------------------------------------------------------------------------
(* Properties.                                                             *)

Lines(n) ==
  IF n.methods = <<>> THEN n.first..n.last
  ELSE (n.first..(Min({n.methods[i].begin : i \in DOMAIN n.methods}) - 1))
       \cup UNION {n.methods[i].first..n.methods[i].last : i \in DOMAIN n.methods}

\* The paragraphs of the document that are to be found again.
Wanted ==
  CASE doc.kind = "docs" -> DOMAIN doc.text
    [] doc.kind = "code" -> IF doc.parses /\ doc.nodes # <<>>
                            THEN UNION {Lines(doc.nodes[i]) : i \in DOMAIN doc.nodes}
                            ELSE DOMAIN doc.text
    [] doc.kind = "issue" -> (1..doc.body) \cup
         UNION {Human(doc)[i].first..Human(doc)[i].last : i \in DOMAIN Human(doc)}

Tokens(text, p) == Start(text, p)..(Start(text, p) + Total(text[p]) - 1)

\* What the chunks say, from the first to the last.
Said == FlattenSeq([i \in DOMAIN chunks |-> chunks[i].units])

\* Once a document is chunked, every token of its sections, definitions, body
\* and human comments is in some chunk, whatever was merged, split by lines or
\* tokens, carried over or dropped from the overlap; and the chunks go through
\* the text in its order (chunk_docs, chunk_code, chunk_issue, _pack, _hard_split).
NothingLost ==
  /\ Done => \A p \in Wanted : \A t \in Tokens(doc.text, p) :
                \E i \in DOMAIN Said : Said[i].from <= t /\ t < Said[i].to
  /\ \A i \in DOMAIN chunks : LET us == chunks[i].units IN
       \A j \in 1..(Len(us) - 1) : us[j].from <= us[j + 1].from /\ us[j].to <= us[j + 1].to
  /\ \A i \in 1..(Len(chunks) - 1) :
       LET us == chunks[i].units  vs == chunks[i + 1].units
       IN us # <<>> /\ vs # <<>> => us[1].line <= vs[1].line /\ Last(us).line <= Last(vs).line

\* The margin, on which the code checks nothing, has room for what it is there
\* for: the drift of a piece, the special tokens, and in a thread what the
\* author's name takes beyond its room.
MarginCovers ==
  /\ Drift + SpecialTokens <= SafetyMargin
  /\ doc.kind = "issue" =>
       \A i \in DOMAIN doc.comments :
         doc.comments[i].author + Drift + SpecialTokens <= AuthorRoom + SafetyMargin

\* No chunk is longer than the embedder's window, which would be cut silently:
\* the greedy packing, the overlap carried on, the joiners, the names and the
\* pieces that count more than they were cut for never add up to more than one
\* margin holds, if the header leaves MinBudget (_pack, _hard_split,
\* content_budget).
ChunksFitWindow ==
  MarginCovers =>
    \A i \in DOMAIN chunks :
      chunks[i].header + MinBudget <= MaxTokens
      => chunks[i].token_count + SpecialTokens <= EmbedWindow

\* Two chunks of one document never share a citation, whatever headings repeat,
\* look like an allocated suffix, or are split: a shared one stops the ingest
\* (_unique, citations.code, body, comment).  A file that does not parse and
\* has a line longer than the window is the exception: _window_fallback cites
\* each piece of the line alike and allocates nothing.
CitationsUnique ==
  (doc.kind = "code" => doc.parses)
  => \A i, j \in DOMAIN chunks : i # j => chunks[i].id # chunks[j].id
=============================================================================
