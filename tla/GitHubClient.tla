---------------------------- MODULE GitHubClient ----------------------------
(***************************************************************************)
(* app/ingest/github.py: one ingest run after the other asks GitHub for    *)
(* listings through GitHubClient.get_cached: the cache, the pages of a     *)
(* listing, the retries of each request, the rate limit.  A request may    *)
(* fail in any way, a run may die anywhere, and GitHubError ends it, since *)
(* nothing in scripts/ingest.py catches it.                                *)
(*                                                                         *)
(* What a key stands for does not change (Ingest has the keys that do).    *)
(* The runs are the only users of their token.                             *)
(***************************************************************************)
EXTENDS Integers, Sequences

CONSTANTS
  Keys,                 \* cache keys
  Content,              \* of a key: its pages on GitHub
  MaxRetries,           \* MAX_RETRIES, 5
  TransportMaxRetries,  \* TRANSPORT_MAX_RETRIES, 8
  RateLimitFloor,       \* RATE_LIMIT_FLOOR, 10
  Quota,                \* requests GitHub grants in each rate limit window, 5000
  Absent, Corrupt,      \* no file in the cache; one that is no JSON
  MaxRuns               \* bound: runs

ASSUME PagesAssumption ==
  \A k \in Keys : Content[k] \in Seq(Seq(Nat)) /\ Content[k] # <<>>
ASSUME LimitsAssumption ==
  /\ {MaxRetries, TransportMaxRetries} \subseteq Nat \ {0}
  /\ {RateLimitFloor, Quota, MaxRuns} \subseteq Nat
  /\ RateLimitFloor < Quota
ASSUME SpecialAssumption ==
  /\ Absent # Corrupt
  /\ \A k \in Keys : Absent # Content[k] /\ Corrupt # Content[k]

VARIABLES
  cache,       \* .cache/gh
  remaining,   \* requests left in GitHub's rate limit window
  pc,          \* the run: "over", "ready", "send", "save", "rename"
  runs,        \* how many have been started
  use_cache,   \* whether it is run without --no-cache
  key,         \* what it is getting
  got,         \* the pages it has
  attempt,     \* _request: answers to this request so far
  transport_attempt,  \*   and failures without an answer
  noted        \* whether an answer has told this run what is left of the quota

vars == <<cache, remaining, pc, runs, use_cache, key, got, attempt, transport_attempt, noted>>

request == <<attempt, transport_attempt>>

Init ==
  /\ cache \in [Keys -> {Absent, Corrupt}]
  /\ remaining \in 0..Quota
  /\ pc = "over"
  /\ runs = 0
  /\ use_cache = TRUE
  /\ key \in Keys
  /\ got = <<>>
  /\ attempt = 0 /\ transport_attempt = 0
  /\ noted = FALSE

StartRun ==
  /\ pc = "over" /\ runs < MaxRuns
  /\ pc' = "ready"
  /\ runs' = runs + 1
  /\ use_cache' \in BOOLEAN
  /\ got' = <<>>
  /\ noted' = FALSE
  /\ UNCHANGED <<cache, remaining, key, request>>

\* Mutant: an entry that is no JSON is handed to the caller.
GetCachedTrusting(k) ==
  /\ pc = "ready"
  /\ key' = k
  /\ IF use_cache /\ cache[k] # Absent
     THEN pc' = "ready" /\ got' = cache[k] /\ UNCHANGED cache
     ELSE pc' = "send" /\ got' = <<>> /\ UNCHANGED cache
  /\ attempt' = 0 /\ transport_attempt' = 0
  /\ UNCHANGED <<remaining, runs, use_cache, noted>>

\* A corrupt entry is discarded and fetched again.
GetCached(k) ==
  /\ pc = "ready"
  /\ key' = k
  /\ IF use_cache /\ cache[k] \notin {Absent, Corrupt}
     THEN pc' = "ready" /\ got' = cache[k] /\ UNCHANGED cache
     ELSE /\ cache' = IF use_cache THEN [cache EXCEPT ![k] = Absent] ELSE cache
          /\ pc' = "send" /\ got' = <<>>
  /\ attempt' = 0 /\ transport_attempt' = 0
  /\ UNCHANGED <<remaining, runs, use_cache, noted>>

\* No answer came back, though GitHub may have counted the request: retried under
\* a budget of its own.
TransportFailure ==
  /\ pc = "send"
  /\ transport_attempt' = transport_attempt + 1
  /\ pc' = IF transport_attempt' < TransportMaxRetries THEN "send" ELSE "over"
  /\ remaining' \in {remaining, remaining - 1} \cap Nat
  /\ UNCHANGED <<cache, runs, use_cache, key, got, attempt, noted>>

\* An answer that is retried, whose request GitHub has counted.
Retry ==
  /\ attempt' = attempt + 1
  /\ pc' = IF attempt' < MaxRetries THEN "send" ELSE "over"

ServerError ==
  /\ pc = "send" /\ remaining > 0
  /\ Retry
  /\ remaining' = remaining - 1
  /\ UNCHANGED <<cache, runs, use_cache, key, got, transport_attempt, noted>>

\* Mutant: a rate limit does not use up an attempt.
RateLimitedForever ==
  /\ pc = "send"
  /\ remaining' = IF remaining = 0 THEN Quota ELSE remaining - 1
  /\ UNCHANGED <<cache, pc, runs, use_cache, key, got, request, noted>>

\* 403 or 429: a secondary limit, or the quota is spent and the client sleeps
\* into the next window.
RateLimited ==
  /\ pc = "send"
  /\ Retry
  /\ remaining' = IF remaining = 0 THEN Quota ELSE remaining - 1
  /\ UNCHANGED <<cache, runs, use_cache, key, got, transport_attempt, noted>>

\* 404, another 4xx, or a page that is no list.
Refused ==
  /\ pc = "send" /\ remaining > 0
  /\ pc' = "over"
  /\ remaining' = remaining - 1
  /\ UNCHANGED <<cache, runs, use_cache, key, got, request, noted>>

\* Mutant: the sleep starts when nothing is left.
NoteBudgetLate(left) == IF left > 0 THEN left ELSE Quota

\* What is left after an answer, and after the sleep if that is nearly nothing.
NoteBudget(left) == IF left > RateLimitFloor THEN left ELSE Quota

\* A page, and with it the link to the next, if there is one.
Answer ==
  /\ pc = "send" /\ remaining > 0
  /\ remaining' = NoteBudget(remaining - 1)
  /\ noted' = TRUE
  /\ got' = Append(got, Content[key][Len(got) + 1])
  /\ pc' = IF Len(got') < Len(Content[key]) THEN "send" ELSE "save"
  /\ attempt' = 0 /\ transport_attempt' = 0
  /\ UNCHANGED <<cache, runs, use_cache, key>>

\* _write_cache: into a file beside the entry, and then in its place at once.
WriteCache ==
  /\ pc = "save"
  /\ pc' = IF use_cache THEN "rename" ELSE "ready"
  /\ UNCHANGED <<cache, remaining, runs, use_cache, key, got, request, noted>>

Rename ==
  /\ pc = "rename"
  /\ cache' = [cache EXCEPT ![key] = got]
  /\ pc' = "ready"
  /\ UNCHANGED <<remaining, runs, use_cache, key, got, request, noted>>

\* The run has all it wanted, or dies.
EndRun ==
  /\ pc # "over"
  /\ pc' = "over"
  /\ UNCHANGED <<cache, remaining, runs, use_cache, key, got, request, noted>>

\* A rate limit window passes.
NewWindow ==
  /\ remaining' = Quota
  /\ UNCHANGED <<cache, pc, runs, use_cache, key, got, request, noted>>

Step ==
  \/ TransportFailure \/ ServerError \/ RateLimited \/ Refused \/ Answer
  \/ WriteCache \/ Rename

Next ==
  \/ StartRun \/ EndRun \/ NewWindow
  \/ \E k \in Keys : GetCached(k)
  \/ Step

Spec == Init /\ [][Next]_vars /\ WF_vars(Step)

-----------------------------------------------------------------------------
(* Properties.                                                             *)

\* What is cached, and what a caller is given, is the whole listing: each page
\* once and in order, whatever was retried, refused, interrupted or left corrupt
\* by an earlier run (get_cached, paginate, _write_cache).
PayloadComplete ==
  /\ \A k \in Keys : cache[k] \in {Absent, Corrupt, Content[k]}
  /\ pc \in {"save", "rename"} => got = Content[key]
  /\ pc = "ready" => got \in {<<>>, Content[key]}
  /\ pc = "send" => \A i \in DOMAIN got : got[i] = Content[key][i]

\* Once one answer has told a run what is left, none of its requests meets an
\* empty quota while the floor covers the attempts and the requests that were
\* lost: up to six of them with the code's limits, of which a seventh is retried
\* too (_note_budget, RATE_LIMIT_FLOOR).
HeadroomLasts ==
  pc = "send" /\ noted /\ MaxRetries + transport_attempt <= RateLimitFloor + 1
  => remaining > 0

\* A fetch comes to an end, however GitHub and the network behave: neither
\* budget is given back within a request (MAX_RETRIES, TRANSPORT_MAX_RETRIES).
FetchEnds == pc = "send" ~> pc \in {"ready", "over"}

=============================================================================
