# askstack: specifications and proofs

askstack answers questions about a repository. A FastAPI service streams one
agent turn per chat request. The agent looks things up in two substrates (SQL
facts and indexed text), cites what it found, and keeps a memory about its user
that is extracted from conversations, consolidated overnight and can be reverted
by a human. Everything persistent is in PostgreSQL.

This directory has TLA+ modules for the parts of the service that change state,
TLC configurations that check them on small instances, and proofs for TLAPS of
what matters most about them. Paths below are relative to
the repository's root; `PROJECT.json` maps each definition to the lines it models.

    tlasany MemoryStore.tla
    tlc -workers 2 -config MCMemoryStore_single.cfg MCMemoryStore
    tlapm MemoryStoreProofs.tla

## Inventory

| Component | State it keeps | Operations | Hard part |
|---|---|---|---|
| Memory store (`app/memory/store.py`, migration 0001) | tables `memories`, `memory_audit` | `write`, `supersede`, `revert`, reads | transactions of several statements at READ COMMITTED, no locks taken by the code |
| Sessions and transcript (`app/orchestrator.py`) | tables `sessions`, `messages` | `_session`, `_history`, `_persist`, `end_session` | each is a statement of its own; requests overlap, are cancelled, fail between two of them |
| Extraction (`app/memory/lifecycle.py`) | none of its own; writes memories | `Extractor.extract` | detached in mid-session, awaited at the end, fails halfway |
| Agent loop (`Orchestrator.run`) | per turn: request messages, pauses, result sets, seen citations | one model call per iteration, tool calls, citation events | a model that may do anything; request well-formedness over iterations |
| Tool registry (`app/tools/registry.py`) | none between calls | `dispatch` | failures become results, some exceptions do not |
| Consolidation (`app/memory/consolidation.py`, `scripts/consolidate.py`) | per run: rows read, report | `consolidate` | a long run over one snapshot while other runs, humans and chats change it |
| Memory manager (`app/memory/manager.py`) | profile cache | `load_context`, `record` | token budget per type, trimming by the real count, three queries of a changing table |
| HTTP service (`app/main.py`) | application state made in `lifespan` | endpoints | starts the requests above; cancels a stream when the client goes |
| Ingest (`scripts/ingest.py`, `app/ingest/facts.py`, `index.py`) | facts tables, `chunks`, a completion marker | `ingest_facts`, `index_chunks` | two substrates, crash and re-run |
| GitHub client (`app/ingest/github.py`) | response cache | `get_cached`, `paginate`, `_request` | two retry budgets, rate-limit sleeps, runs that die between write and rename |
| Chunking, citations, identifiers (`app/ingest/`) | per document: parts, allocated citations | `chunk_docs`, `chunk_code`, `chunk_issue` | packing with overlap, merging, unique citations |
| Hybrid retrieval (`app/retrieval/`) | none | two queries, rank fusion | ties, missing ranks, arms that are cut off |
| Facts store, areas, windows (`app/facts/`, `app/tools/windows.py`) | reads the facts tables; `areas` | SQL templates, `sync_areas`, `resolve` | half-open boundaries, month ends, areas replaced in two statements |
| Tool selection (`app/tools/selector.py`) | seeded table | three selectors, `seed_tools` | a seeding older than the catalog |
| Checkout, tracing, configuration | none | I/O | none that is stateful |
| Evaluation harness (`evals/`) | files | measures the service | takes no part in it |
| Web page (`ui/index.html`) | the conversation shown | renders the stream | disables sending while a turn streams |

How they interact: `POST /chat` opens or resumes a session, reads its history,
persists the question, loads the memory block, selects tools, runs the agent loop
and persists the answer. Every tenth turn starts an extraction that nobody awaits.
`POST /sessions/{id}/end` marks the session and awaits an extraction. Extraction,
the `memory_write` tool, consolidation and `POST /memory/{id}/revert` all meet in
the memory store. Ingest fills the tables the tools read, offline.

What makes each of them correct:

- Memory store: rows are only appended and windows only closed, one revision of a
  memory is in force, revisions are numbered without gap, what is closed was replaced by
  something that is stored, every change is audited.
- Transcript: a stored message is not replaced, both rows of a turn come from one
  request, a chat replays all that was finished before it, in order.
- Extraction: reads complete turns; a memory's evidence stays what it was; a session
  is extracted once at its end, and is so when the end call answers.
- Agent loop: every request it sends is well formed, a citation is judged once and by
  what this turn really looked up, the turn ends, the stream ends with a terminal event.
- Consolidation: closes only what it has evidence about, its evidence stands, it reports
  no more than it did.
- Ingest: re-runs converge on the pinned corpus and only a whole run is marked complete.
- GitHub client: what is cached or returned is the whole listing, the quota is never run
  dry, a fetch ends.
- Chunking: no token is lost, a chunk fits the embedder's window, citations are unique.
- Memory block: fits its budget, and is what ranked first.
- Tool calls: what is offered can be dispatched, an answer is exactly about the
  period and the area that were asked for, fusion ranks by agreement.

## Modules

    VersionedMemory            what the store promises: atomic operations
      ^ refined by               ^ used by
    MemoryStore                Consolidation         AgentLoop        Conversation       Ingest
      | MC.., ..Proofs           | MC.., ..Proofs      | MC.., ..Proofs | MC.., ..Proofs   | MC.., ..Proofs

    GitHubClient     Chunking -- Totals -- MemoryBlock     Lookups -- Windows, Retrieval
            \          /                          \          /
              MCCorpus                             MCTurnReads
              CorpusProofs                         TurnReadsProofs

    SequenceLemmas             facts about numbers, totals and sequences, for all the proofs

`MCCorpus` and `MCTurnReads` each take two modules that share no state into one run: a
behaviour takes steps of one of them only.

A definition that follows a "Mutant" comment is a wrong variant of the definition
below it. It belongs to no specification; replacing the right definition by it
must make TLC report the property `PROJECT.json` names beside it.

### VersionedMemory

The store as its callers think of it: `revisions`, a growing set of immutable revisions, and
`current`, per identity the number of the revision in force or 0. `Create`, `Replace`, `Supersede`
and `Revert` are the calls of the `MemoryStore` protocol that change anything.

### MemoryStore

`PostgresMemoryStore` statement by statement. `memories` and `audit` are the committed rows; `tx[c]`
is client c's transaction with what it has read, the rows its UPDATE has still to visit (`scan`),
those it has closed and locks (`closed`) and the row it has inserted.

| Action | Code |
|---|---|
| `Write` | `write`: the transaction begins, with an UPDATE if it supersedes, with the INSERT if not |
| `Supersede` | `supersede` begins |
| `Revert`, `ReadLive`, `ReadMax` | the three SELECTs of `revert` |
| `BeginUpdate`, `UpdateRow`, `EndUpdate`, `NotFound` | the UPDATE of `_close_window` and of `revert`: its snapshot, a row it waits for and looks at again, its end with or without a row |
| `Insert`, `DuplicateKey` | the INSERT: waits for the same key in another transaction, then fails if that commits |
| `Commit` | the audit rows and the commit |
| `Rollback` | connection lost, statement failed, deadlock victim, process gone |

Left out: timestamps (a window is the flag `live`), embeddings, copied columns, the read-only
queries. uuid4 is taken to be fresh (`Unused`). How PostgreSQL runs a statement is external: the
model has its documented READ COMMITTED behaviour.

### Conversation

The chats of a session and the extractions they set off. `sessions` and `messages` are the tables,
`memories` what extraction wrote, `chat[r]` the generator of request r and `job[j]` an
`Extractor.extract`. `Resume`, `Open` and `SessionNotFound` are `_session`; `ReadHistory` is
`_history`, which also picks the turn number; `PersistQuestion` and `PersistAnswer` are the two
`_persist` upserts; `Answer` and `AnswerFails` stand for the memory block, the selection and the
loop of `AgentLoop`; `Finish` is the mid-session trigger and `done`. `EndSession` is the one UPDATE
of `end_session`. `ReadTranscript`, `Call` and `WriteFact` are the extraction's three awaits and
`ExtractionFails` any of them raising. `Break` is an exception outside the loop's `try`,
`Disconnect` a client that goes away, `Restart` a process that stops.

`Overlap` says whether a session may have two chats running at once. The service does not prevent
it; the page does, by disabling its send button while a turn streams (`ui/index.html:269`).

### AgentLoop

One turn: the `try` block of `Orchestrator.run` with `ToolRegistry.dispatch` and the citation
checks. The model and the tools are free. `Generate` is an iteration's model call, `Cite` one
`_citation_event`, `AppendResponse` what follows the stream, `Dispatch` one tool call,
`AppendResults` the message that answers them, `Exhaust` the end of the `for`, `Fail` any await that
raises. Result sets of spans and of entities are one set (`found`): a citation's form decides which
is asked, so the two never mix. An outcome has two shapes, as `ToolOutcome` has: what was `returned`,
which `Turn.record` takes whole, and what its rendering `listed` to the model, which is cut at
`RenderLimit` for an aggregate. So `in_result_set` says that a lookup returned the thing, not that
the model read it; `CitationHonest` says both that, and that whatever was listed resolves. Assumed
of the API: a response that pauses calls no client tool.
Usage, cost, text deltas and the events other than `citation` are left out.

### Consolidation

`Consolidator.consolidate`, called by the nightly script and the admin endpoint at once, over
`VersionedMemory`; that the store may be taken as atomic is what `MemoryStore` and `StoreRefines`
show. `Read` is the one query, whose rows everything after it uses; `Call` the model on one cluster;
`Write` the semantic memory; `Supersede` one contradicted id, which may be outside the cluster,
already closed, or closed with its answer lost; `Report` the return. `Record` and `Revert` are the
rest of the service between any two awaits. Which vectors are close is free, so any disjoint
grouping that passes the size and entity rules may occur. (That two clusters of one read share no
memory is a label per memory, `consolidation.py:131`; nothing is stated about it.)

### Ingest

`scripts/ingest.py`, one run after the other, while GitHub changes (`Edit`, `Push`: external) and
any run may die (`Crash`). `Start` pins the tree and records the run. `ListPage` is a page of
`paginate`, newest update first; what is edited after its turn moves to the front and is not seen
again in that listing. `FetchChildren` is `get_cached` for a pull request's files and reviews,
`Store` the upsert in its transaction, `Link` the UPDATE of `link_closing_prs`, `Build` the chunks
of the pinned tree and of the closed issues, `Compare`, `WriteBatch` and `Prune` are `sync_chunks`,
`Complete` sets the marker. A run is whole, with `--limit`, or with `--facts-only`. Texts are
version numbers, so that equal versions stand for equal hashes.

Runs do not overlap: the script is started by hand. Commits, releases and areas are upserts nothing
else here reads; an issue's comments, cached by number for good, are left out of its chunk.

### GitHubClient

`get_cached` in the ingest runs that follow one another, for keys whose content does not change
(those that change are steps of `Ingest`). `cache` is the directory, `remaining` what GitHub grants
until its window ends, `attempt` and `transport_attempt` the two counters of `_request`.

| Action | Code |
|---|---|
| `StartRun`, `EndRun` | a run of the script, with `--no-cache` or not; its end or death at any point |
| `GetCached` | the hit, or the miss that discards a corrupt entry and starts `paginate` |
| `TransportFailure`, `ServerError`, `RateLimited`, `Refused` | what `_request` may meet: no answer, 5xx, 403 or 429, any other refusal. Only the first may or may not have been counted by GitHub |
| `Answer` | a page, `_note_budget` with its sleep, and the link to the next page |
| `WriteCache`, `Rename` | `_write_cache`: the file beside the entry, then `os.replace` |
| `NewWindow` | external: the rate limit window passes |

The cache may hold a corrupt entry to begin with. A sleep is instantaneous, and ends in a fresh
window.

### Chunking

One document, of any of the three kinds, as the functions of `chunking.py` go through it. Texts are
numbers of tokens per line, and tokens are numbered through a document, so that a chunk says which
of them it has. `UnitsOf` cuts a text into paragraphs, else lines, else overlapping runs of tokens;
`PackUnit` is one turn of `_pack`'s loop with the flush and the carried tail; `CodeSpans`,
`ThreadSpans`, `BodySpan` are the spans of code and issues. `TakeSection` is one turn of
`chunk_docs`, with the merge of short sections; `TakeTrailing` the section left over; `TakeSpan` the
next span of the other kinds; `PackNext` one unit; `EmitPart` one chunk with its citation, suffixed
by `_unique` in docs and code, numbered in issues. Left to the input: where sections, definitions
and comments begin, and what a slug looks like.

White space has no tokens, and texts that it joins have the tokens of each: so the tokenizer works.
But a run of tokens that `_hard_split` decodes is a text of its own, which may count otherwise: a
word that was cut, say. `Recount` gives the runs that do, by at most `Drift` more; `Decoded` and
`Piece` take what `_pack`, and `count_tokens` of the chunk, see of it. `SpecialTokens` are the two
the model puts around a text, which `count_tokens` leaves out. The text of a decoded piece is not
what it was (lower case, `[UNK]`), so `NothingLost` speaks of the tokens a chunk was made from.

### MemoryBlock

`MemoryManager.load_context`: `ReadProfile`, one `SearchNext` per type (the query, with LIMIT before
floor, and `_pack` by the estimate), then `Trim` while the counted block is over the budget, and
`Return`. Each count is the API's or, when that fails, the estimate (`Counters`); `counted`, an
auxiliary variable, says which the last one was. Nothing relates the two: a text may have ten times
the tokens of its estimate, as in `tests/test_memory_manager.py:349`. `Raise` is a query that fails.
`Change` is any other transaction's write, close or revert between the queries. How near a memory is
to the question is free. `int(budget * share)` is taken in per cent and rounded down.

### Windows and Retrieval

Operators only. `Windows.Resolve` is `resolve` with `_months`, `_minus_months` and `_at`; moments
are day numbers (`At`), as all expressions are whole days. `InPeriod` says what each expression
means of the year, month and day of a date, without arithmetic on moments: the reference that
`AnswersExact` compares with. `Retrieval.Fuse` is `fuse` with scores as exact fractions.

### Lookups

One tool call, from `select` to its answer. `Select` is the three selectors with
`extra_request_params`; `Dispatch` is `ToolRegistry.dispatch` up to its first await (`Refuse`,
`CallMemory`, `CallWindowed`, `CallOther`); `ReadRelease`, `ReadArea`, `ReadRows`, `ReadBounds`,
`ReadEntity`, `ReadDense`, `ReadSparse` are its queries; `FuseArms` is `search` once its arms are
in; `QueryFails` any of the awaits raising what `dispatch` does not catch. `DeleteAreas` and
`InsertAreas` are `sync_areas` of an ingest that runs beside the service, `Seed` is `seed_tools`.
The facts themselves are constants: they are those of one ingest. An arm returns any chunks in any
order.

## Runs

| Run | Instance | States | Question |
|---|---|---|---|
| `store_concurrent` | 2 identities, 2 contents, a writer, a superseder, 2 reverts, revisions to 2 | 376,000 | do rows, numbers, replacements and audit stay right, whoever runs at once? |
| `store_single` | 2 identities, two writers of which one also supersedes, 1 revert, revisions to 3 | 131,000 | one live revision, every close audited, the promise of `VersionedMemory` |
| `store_two_reverts` | as `store_concurrent` | | TRD 4.1's one live revision, with two reverts: violated |
| `conversation_serial` | 2 sessions, 3 chats, 1 end call, trigger at every 2nd turn | | is the transcript complete for replay and extraction? |
| `conversation_overlap` | 1 session, 2 chats at once, 2 end calls | | what holds without the page's discipline |
| `conversation_replay` | 1 session, 2 chats | | question before answer: violated |
| `agent_turn` | 2 things, 3 iterations, 1 pause, 1 call per response, 1 thing rendered | 2,621,000 | well-formed requests, honest citations, an end |
| `consolidation_runs` | 4 episodes, 1 entity, 2 semantic ids, 2 runs, clusters of 2, 1 revert | 172,000 | own evidence, standing evidence, honest report |
| `consolidation_again` | the same with 3 episodes, 2 named ids | | a further run revises: violated |
| `ingest_runs` | 2 pull requests, 1 issue, 1 file, 2 runs, 2 changes while they go on | 2,037,000 | does a whole run converge, whatever came before? |
| `corpus_build` | listings of three pages and of one empty page, quota 5, floor 3, 3 and 2 attempts, 2 runs; docs pages, code files and issues of 4 or 5 paragraphs, window 12, margin 4, overlap 2, drift 1, 2 special tokens | 109,000 | whole payloads, lasting quota, ended fetches; chunks that lose nothing, fit and are told apart |
| `turn_reads` | 7 memories, one of them dense, 5 budgets; 11 pull requests at the edges of months, quarters, halves and years, 3 session dates, 2 releases, 2 areas; arms of 3 of 4 chunks; a stale seeding and none | 147,000 | does a turn read what it was meant to read? |

Why the bounds are enough to be of use. The store's conflicts are between two transactions on one
identity; with two identities a write can replace one by another and a supersede can name either,
and revision 2 is a revert's, so a revert of a revert and of a closed memory both occur.
`MaxRevision` only stops new reverts, two that have begun go past it. The transcript's are between a
turn that stops halfway and the next; three chats have one between two others, and with the trigger
at every second turn the second of them extracts while the third runs. Three iterations of the loop
have a call, its result and a citation of it, with a pause in any place; the real limits (8, 3 and
50) are the same comparisons, and of two things one may be returned and not listed. Four episodes
make two clusters of two, of which a run writes one after the other, or one of up to four; two runs
may take the same or different ones. Two ingests are one that dies, stops at its limit or
completes, and one that meets what it left; the changes may fall before, during or between them.

A fetch of three pages has a page before and one after any failure; three attempts and a quota of 5
over a floor of 3 let every failure fall below and above the floor, and a second run meets what the
first cached, or left half written. A document of `corpus_build` has paragraphs that are short,
middling, of two lines and with a line longer than the window, so that a text is cut in each of the
three ways, a tail is carried on or dropped, and a decoded piece counts one more or one less; its
headings repeat, look like an allocated suffix, or have an anchor; its code has blank lines,
definitions on one line, a method with a decorator; its issue has comments of bots between those of
people. In `turn_reads` each budget is one more way to be short: of everything, of a type's share,
of the whole, of nothing; the dense memory fits its share by the estimate and exceeds every budget
by its tokens, so a block is trimmed by the one count and returned by the other. A session date is
the end of a month longer than the one before it, or in the middle of a half; 2024 is a leap year.
Arms of three out of four chunks can agree, overlap or be disjoint in any order, and k is 2 where
`ARM_LIMIT < k + 2` is what the formula needs.

Deadlock is checked for the store and the loop. The others have requests that live once and then
stop, bounded runs, or one document or call that is done with at the end, so their configurations
switch it off. Symmetry is used in runs without liveness only. TLC explores every instance whole; no
state constraint cuts it.

### Fairness

- `AgentLoop!FairSpec`: weak fairness of `Step`. The generator is driven by the response that
  streams it, and each await returns or raises: the SDK's and the pool's timeouts see to that. A
  client that goes away ends the turn as well.
- `GitHubClient!Spec` (and `CorpusSpec`): weak fairness of `Step`. A run is one coroutine; each
  request returns or times out after httpx's limits, and a file is written. Nothing is assumed of
  GitHub: it may fail, refuse and limit forever. That the fetch ends all the same is what the two
  budgets are for.

### Divergences the runs show

1. `store_two_reverts`: TRD.md:586 has exactly one live revision "enforced in application code
   within the write transaction". `revert` acts on its own earlier SELECTs (`store.py:264`, `:268`)
   and locks nothing. From a closed memory, one revert sees no live row; another commits a live
   revision; the first then reads max(revision), inserts beside it and closes nothing.
2. `conversation_replay`: `ORDER BY turn, role` sorts `assistant` before `user`, so history and
   transcript have each answer before its question.
3. `consolidation_again`: TRD.md:950 has reconsolidation write a new revision; the code writes a new
   identity and leaves the old one live.

Others that need no run of their own. About the store:

- TRD.md:588 has a revision be "same memory, updated content, same `id`: close revision N, insert
  N+1". No operation does that. `write` always creates an identity, at revision 1; the one way to a
  further revision is `revert`, which copies an earlier one's content, although `write`'s docstring
  (`store.py:144`) has updating in place be "reached through `revert`". So in this code all revisions
  of an identity say the same, where TRD.md:588 and TRD.md:950 promise content that is updated.
  `NewRow` and `VersionedMemory!Revert` have what the code does; no property is made of it, as it is
  the absence of an operation that the document has.

About conversations:

- A second end call answers while the first one's extraction is still running, against the comment
  at `orchestrator.py:305`.
- What the statements outside the loop's `try` raise leaves the generator (`Break`), and the stream
  stops with neither `done` nor `error` (TRD.md:1086).
- With `Overlap = TRUE` the two rows of a turn may be of two requests (`TurnKeepsOneRequest` fails),
  as two chats take the same turn number.
- The mid-session trigger counts turn indices, which failed turns use up as well, so its cadence is
  not that of completed turns.

About ingest:

- `closed_by_pr` is set and never cleared, so a link outlives the text it was read from, and the
  tables are not what a rebuild from GitHub would give (TRD.md:595).
- A run with `--limit` sets the completion marker, and nothing in `app/` reads the marker although
  TRD.md:597 has the service refuse to start without it.
- `closing` only names pull requests the same run has stored, so the count of links "dropped because
  the PR is outside the window" can only count links whose issue is open or unknown.
- `sync_areas` deletes and inserts in two statements: between them a defined area is "unknown" to
  the service (the model has this; `AnswersExact` holds because unknown is an error).
- Two ingests at once would share a `.json.tmp` file; comments of an issue are cached by its number
  alone.
- The floor of 10 requests covers six that were lost without an answer; a seventh is retried as
  well, which is why `HeadroomLasts` names the condition.

About chunks:

- An explicit anchor is lost when its short section is merged into the next, though TRD.md:643 has
  it "used verbatim". TRD.md:637 gives 512 - 48 tokens to a chunk, the code 496.
- `_window_fallback` allocates no citations. A line longer than the window in a file that does not
  parse yields several chunks of one citation, and `sync_chunks` raises on them. `CitationsUnique`
  has this exception.
- A comment is cut to leave 8 tokens for its author, whatever his name is (`chunking.py:576`). What a
  longer one takes comes out of the margin of 16, with the drift of decoded pieces, for which
  `chunking.py:32` has it, and the two special tokens, which nothing counts. No code checks that all
  three fit, so `ChunksFitWindow` has the condition `MarginCovers`; beyond it a chunk would be cut.
  It has, too, the condition that the header leaves `MinBudget`.
- `_hard_split` may end with a piece that the one before it contains, and goes on one token at a
  time where the budget is no more than the overlap.
- Decorators, statements between methods and top-level statements other than definitions are in no
  chunk, so `NothingLost` speaks of sections, definitions, bodies and human comments.

About a turn's reads:

- `Turn.record` has "a citation resolves only if the thing it points at was actually looked up this
  turn" (`orchestrator.py:102`): an aggregate of more than 50 is looked up whole and listed in part,
  so a citation the model could not have read resolves as well.
- The estimate is called "deliberately pessimistic", so that a block whose count cannot be had
  "overshoots the budget rather than blowing through it" (`manager.py:259`). A text of fewer than 3.5
  characters a token (other scripts, code, hashes) has more tokens than the estimate, and a block
  returned on the estimate is then over the budget: `FitsBudget` says of such a block that the
  estimate fits, and only of a counted one that the tokens do.
- `commits_by_author` ignores the end of its window (TRD.md:788); a period in the future gives an
  inverted window, which is read as an empty one.
- "last N days" for a huge N raises `OverflowError`, and a huge number of days a PostgreSQL error:
  both leave `dispatch`, of which `registry.py:19` says that failures come back as text (`Raised` in
  the model).
- Two chunks with one `ts_rank` have no order within the sparse arm, though `hybrid.py` has ties
  broken by id.
- A glob without a star is a prefix, and `_` in one matches any character.
- `seed_tools` seeds the memory tools too, which can then take places among the top k; `dispatch`
  runs tools that were not offered.
- `MemoryBlock.truncated` does not count what LIMIT or the floor removed (TRD.md:964), and the floor
  is applied after LIMIT. The three queries of a block see three states of the table.
- With two reverts, one may close a revision its audit row does not name: `EveryCloseAudited` is
  checked and proved with one.

## Proofs

The theorems hold for every value of the constants under the modules' own ASSUMEs; the runs evaluate
them. `NULL` is no identity, bounds are naturals, kinds of request and of item are disjoint, the
search tools are no memory tools. Of `MemoryBlock`: memories are finitely many, and their lengths,
tokens and shares are naturals, of whatever proportion. Of `Chunking`: what the parsers of a
document hand over has the shape they give it (`DocumentsAssumption`): lists of sections,
definitions and comments whose ranges lie within the text and follow each other, sections that make
up a page, methods that lie in their class, and a comment's prefix `@author: ` that has a token at
least; a run that is decoded is not blank and counts at most `Drift` more (`RecountAssumption`), for
any `Drift`, which says no more than that there is a largest. Of `Ingest`: a file is no issue. Of
`Lookups`: releases have a primary key, the dates in the tables and the date of a session are ones
that `datetime` can hold and no path or area is NULL (`SchemaAssumption`), a call that `coerce` lets
through has what its schema asks for and a window that the regular expressions could capture
(`CallsAssumption`, `IsExpression`), and identifiers of chunks are ordered (`SearchAssumption`). Of
`Retrieval`: `ARM_LIMIT < RRF_K + 2` (`FusionAssumption`), which the two constants of `hybrid.py`
satisfy.

### MemoryStoreProofs

None of the store's invariants is inductive alone: that an INSERT keeps the primary key depends on
what transactions hold uncommitted. `StoreInv` adds which rows are locked (`LocksAreLive`: still in
the table, still live, by one transaction), whose the new identities are (`NewIdentity`), what a
revert's reads still mean when it acts on them (`RevertTarget`: numbers below its next one stay
taken, its content stays a revision's), that what a supersede names is stored (`SupersededBy`) and
which keys are pending (`PendingInsert`). One lemma per action shows it preserved.

- `StoreInvariant`, `TypeCorrect`: any clients; hence `PrimaryKey`, `NoGaps` and
  `ClosedIsReplaced`, which are conjuncts. The last is disturbed by commits alone
  (`ReplacedAfterCommit`): a write's and a revert's close what their own new row replaces, the
  revert's row being above every revision in the table, whatever was committed since it looked.
- `AppendOnlyHolds`: the action property, from `LocksAreLive` at `Commit`.
- `OneLiveRevision`: `AtMostOneLive` when `Reverters` has at most one member, with `LiveInv`: what
  one revert has read stays current until it commits, since writes and supersedes never add a row to
  an existing identity. The restriction is needed, as `store_two_reverts` shows.
- `StoreRefines`: under the same restriction, `Spec => Promise!Spec`. A commit maps to one atomic
  operation, any other step to a stutter.

What the tables owe their readers follows in the same module, on top of `StoreInv`.
`RevisionsHaveNoGaps` and `EveryCloseReplaced` are `NoGaps` and `ClosedIsReplaced`.
`RevisionsAreAudited` is `EveryRevisionAudited` for any clients: at a commit the new row has
revision 1 exactly if the transaction is a write, since a revert has found its target and numbers
from above it (`InsertedOp`). `ClosesAreAudited` is `EveryCloseAudited` where at most one client
reverts: `BeforeNames` says that a transaction in progress already knows, for each row it has
closed, the revision its audit row will name, which is what a second revert would break.

### ConversationProofs

`SerialInv` is inductive when `Overlap` is FALSE: a running chat is alone on its session
(`OneChatPerSession`), so its turn number stays above every stored turn but its own question
(`TurnIsFree`), its upserts are inserts, and what it read is all there is (`HistoryCurrent`,
`SaidIsStored`).

- `SerialInvariant`; from it `TranscriptNeverRewritten`, `OneRequestPerTurn`, `TriggerReadsItsTurn`,
  `EvidenceIsKept` and `HistoryIsComplete`.
- `ConversationTypes`, `EndIsExtractedOnce` and `TurnsAreContiguous` need no such assumption. The
  second is inductive with `EndOwnsSession`: a call extracts only having moved its session from open
  to ended. The third is with `NoGap`: below the turn a running chat has taken every turn has its
  question, and so has its own once it is persisted. Chats that take the same number or overwrite
  each other's rows do not disturb it, as an upsert removes no key; and the number a chat takes is
  one above the greatest it read, up to which every turn had its question.

### AgentLoopProofs

`ToolResultsPaired` and `CitationHonest` speak of moments, when the model is asked and when a thing
is first cited; `LoopInv` says what holds between them. `Pairing`: during the tool calls the last
response is the only unanswered one, and the results so far are its first calls'. `Citing`: the seen
set is what the events are about, each once, and what the messages or the response in hand cite.
`Finding`: `found` is what the lookups in `messages` and in `results` returned. So when a thing is
cited for the first time `results` is empty, and `found` is what the lookups answered in its messages
returned, of which those list a part (`ListedIsReturned`).
`PausesLeft` says that a pause calls no tool, so re-sending it leaves no call open.

- `LoopInvariant`, `LoopTypes`, `RequestsWellFormed`, `EachCitedOnce`, `CitationsHonest`: for any
  limits, any answers of the model and any outcome of the tools.

### ConsolidationProofs

For any number of runs, any clusters, any answers of the model and any reverts. `ConsolidationInv`
is `TypeOK` and the three properties with two facts between them. `Windowed`: a window that is
closed is a stored revision older than the one in force, so that none can be closed twice. `InHand`:
the clusters a run still has and the one it is at are patterns, of rows that were read, and the
memory it has just written has the latter as its evidence. `OnwardKeepsInHand` and `Keeps` carry
them through the steps that only move a run on.

- `ConsolidationInvariant`, `ConsolidationTypes`; from it `OnlyOwnEvidenceClosed`,
  `EvidenceIsPattern`, and `ReportIsHonest`, by counting: a run counts a close only when the close
  is recorded as its own.

### IngestProofs

For any items, files, changes on GitHub and number of runs, with a crash anywhere. A whole run is
right at its end because of what it keeps right on the way, while GitHub goes on changing:

- `Numbered`: changes are numbered in their order, and a page or a run has none that is to come.
- `Fetched`: what is cached, in hand or stored for an item is not older than the item's listed
  version, as children are fetched after the listing and cached under its version.
- `Catching`: an item that has not changed since the run began (`Stable`) is as GitHub has it in the
  table (`Caught`), or the listing has yet to store it (`Coming`: below the cursor, on the page, or
  of the kind still to be listed). What moves to the front is not stable, which is why the listing
  may miss it. Nothing is said of other runs' rows, so it does not matter what they left.
- `Indexing`: what a whole run produces is the pinned tree and the closed issues, and each identifier
  it is done with is stored. A run that produces nothing prunes nothing, as the code has it.

`IngestInvariant` and `IngestTypes`; from it `ChildrenAreNotOlder`, `StableItemsAreStored` and
`IndexIsCopy`.

### CorpusProofs

The client. `ClientInv` is `TypeInv`, `Whole` (the pages in hand are the first pages of the listing,
all of them from `save` on, and an entry is whole or corrupt) and `Headroom`: what is left and the
attempts this request has used add up to more than the floor. Hence `PayloadsWhole` and
`HeadroomIsEnough` for any listings, limits and number of runs.

`CitationsAreUnique` for any document and any sizes. `UniqueIsFree` is a pigeonhole argument: of as
many suffixes as there are taken citations, and one more, one is free, so the search in `_unique`
ends and what it returns is not taken. `ChunkInv` says that every chunk's citation is allocated
(`Taken`), that numbered ones are below their counter, and that no two are alike (`Distinct`).

`ChunksFit` for any document, any sizes and any recounting, in three layers. Cutting (`DecodedFits`,
`HardSplitFits`, `ParagraphFits`, `UnitsOfFits`): no unit is longer than the budget of its header by
more than the drift. Packing (`PackUnitFits`): parts and buffer are within the room a header has
(`Room`: its budget and the margin, less the special tokens), and `_pack`'s count of the buffer,
joiners included, is no less than what is in it, so that a tail carried on is covered by the check
made before it (`CarriedFits`); a single unit that is over the budget makes a part of its own, and
its drift is within the margin (`RoomIsNat`). Spans (`SpansFit`): each kind of document hands such
units on; a comment's pieces, cut to the budget less `AuthorRoom`, are within the room once the
author's name is on them, which is what the second half of `MarginCovers` is for. `FitInv` carries
this from the spans to the chunks.

`NothingIsLost` is `NothingLost` for any document and any sizes. It rests on three notions. A list of
units is a `Cut` of a stretch of tokens if it has each of them and goes forward: `HardSplitCuts`,
`ParagraphCuts` and `UnitsOfCuts` show that the three ways to split are cuts, `RenderedCuts` that a
comment's pieces are, and `CodeLaid`, `IssueLaid` and `SectionsQueued` that the spans of each kind of
document have all that is wanted of it, one behind the other. `PackShape` says of the packing that
its parts are not empty, `Grows` and begin and end no earlier than the part before (`Slid`), so that
a tail carried on moves no part back, and that every unit packed is in one of them (`PackShapeNext`).
The inductive invariant is `KeptInv`: every token that is due is in a chunk, in the queue, in the
section that waits to be merged or still to be packed and emitted (`Held`), and what is to come is
behind the last chunk (`InFront`). A merged section reaches over both (`MergedWaits`), a part that is
dropped as blank has no token (`FreeIsBlank`), and the parts left behind one that is emitted still
have the rest (`PartTokens`).

### TurnReadsProofs

- `OfferedToolsRun`: `OffersWhatItDispatches` for any catalog, seeding, mode and k. What a stale
  seeding returns is filtered by what has a definition.
- `BothOutrankOne`: for any ranks within the arms, what both arms found has a higher score than what
  one found, exactly because `ARM_LIMIT < RRF_K + 2`: 2/(k + A) > 1/(k + 1).
- `LookupsPutBothArmsFirst`: `BothArmsFirst` for any two arms, any k and any limits. `BeforeIsOrder`
  shows that comparing scores, with ties by identifier, is a strict linear order of chunks, which
  needs the fractions to compose (`FractionsCompose`: a/b > c/d and c/d >= e/f give a/b > e/f). So
  the two arms have a listing in that order (`SortedListing`, by the largest set of chunks that is
  listed in order), `Fuse` is a beginning of it (`FuseIsRight`), and `BothOutrankOne` says where in
  it a chunk of both arms stands.
- `ResolveIsPeriod`: for any expression of the grammar and any session date, a moment is in the
  window `resolve` answers exactly if its date is in the period the expression names and before the
  session's. The argument is about `At` alone: months follow each other without gap or overlap, over
  the ends of years and leap days (`MonthsFollow`), so moments are ordered as their dates are
  (`DatesCompared`) and each has one date. No calendar is enumerated; `MinYear` and `MaxYear` are any.
- `LookupsAnswerExactly`: `AnswersExact` for any facts, areas, calls and dates, while the areas are
  replaced under the call. `AnswerInv` says what a call on its way holds (`OnItsWay`): the window it
  has is the one of its expression (`HoldsPeriod`), its prefixes are those the file gives the area
  (`HoldsArea`), its bounds are the moments of the two releases in their order (`HoldsReleases`),
  and an answer given is exact. What is left is that a join has one row per item and path, and
  `SELECT DISTINCT` over it answers each item once.
- `BlockInvariant`, `BlockFitsBudget`, `BlockInRankOrder`: for any finite set of memories, any
  shares and budgets, and any change of the table between the queries. While the types are read,
  `selected` is what the longest fitting beginnings of the answers add up to (`Gathered`,
  `PackedIsLongest`: `_pack` stops at the first memory that does not fit, and as no memory costs
  less than nothing no longer beginning fits). While it is trimmed, it is a beginning of that, and
  each memory that has gone ended a block that counted, by the API or by the estimate, as over the
  budget (`Trimmed`). Whichever way the last count was made it is of the block that is returned, and
  an empty block has none (`NothingCounted`), so the loop's end is a block that fits by its count.

### Folds

What a recursive or folded definition computes cannot be had by the library's induction theorems,
which take an operator as a parameter. `SequenceLemmas` and the sections above go round it for the
folds used here: the fold is named as a function of how far it has come (`Folding`, `Flattening`,
`Packing`), and a bound on it holds as the set of positions that violate it has a least member
(`Least`), whose predecessor does not violate it. `TotalStep`, `FirstTotalGrows`, `FlattenIsLast`
and `PackIsFold` are the results.

### Only model-checked

Liveness (`TurnEnds`, `FetchEnds`), as fairness and ENABLED are out of the
prover's reach.
Type invariants that are part of a proved invariant, and `PrimaryKey`, `StoreInv`, `LiveInv` and
`SerialInv`, are proved and no longer in a run.

## Assumed or not modelled

- The ids a model returns for a fact's source are ids it was shown. The code does not check this;
  otherwise `EvidenceKept` says nothing of such a fact.
- The service runs as one process on one database; several processes would be further clients, which
  the modules allow in any number.
- An extraction lost by a crash after `ended_at` is set is not tried again. The model has the
  behaviour; nothing in the code promises otherwise.
- Facts written twice by two extractions of a session are left to consolidation.
- Every hazard of `PROJECT.json` without a property has a note that says why.
- Facts do not change within a behaviour of `Lookups`: an ingest beside a call may make its queries
  see two states, as they would see two sets of constants.
- Hazards left out of `PROJECT.json`'s list, which is about those with most at stake:
  `MemoryNotFound` for a memory that is live by now (`store.py:240`), a window that ends before it
  begins (`store.py:233`), a chat that resumes an ended session (`orchestrator.py:333`), the
  trigger's cadence (`lifecycle.py:304`), facts extracted twice (`lifecycle.py:189`), a detached
  extraction lost at a restart (`orchestrator.py:293`), results of the last iteration's tools
  (`orchestrator.py:541`), an emptied corpus (`index.py:67`), another embedding model
  (`index.py:95`).
- Checkout, tracing, configuration, the schemas of requests, the evaluation harness and the page
  hold no state worth a model, are pure I/O or live outside the service. The evaluation harness
  (`evals/`) is a quarter of the code: it starts the service, asks questions and scores answers, one
  after the other, and writes files; nothing it computes reaches the service.
- `gen_synthetic_tools.py` only pads the seeded table, as `Seedings` does. The parser of citations,
  the regular expressions for sections, slugs and identifiers, and the SQL text are inputs or
  external.

## Plan

Done, in the order of importance: the store and its promise, the transcript, the agent loop,
consolidation, ingest, the GitHub client, chunking, the memory block, tool calls with windows and
fusion; proofs about all of them. What is left:

1. An abstract specification of an ingest run as one step from pinned tree to index.
2. The comments of an issue in `Ingest`, whose cache outlives what is edited.
3. The parser of citations against the forms the chunks are given.
