---------------------------- MODULE MCTurnReads ----------------------------
(***************************************************************************)
(* Small instances of the two reads of a turn that keep no common state: a *)
(* behaviour either loads the memory block (MemoryBlock) or answers a tool *)
(* call (Lookups).                                                         *)
(***************************************************************************)
EXTENDS Lookups, MemoryBlock

Memory(id, type, own, faded, chars, tokens) ==
  [id |-> id, type |-> type, own |-> own, faded |-> faded, chars |-> chars, tokens |-> tokens]

\* The episodic one in use is dense: ten times what its estimate says, as in the
\* counter of tests/test_memory_manager.py.
MCMemories ==
  {Memory(1, "semantic", TRUE, FALSE, 14, 4), Memory(2, "semantic", TRUE, TRUE, 7, 2),
   Memory(3, "semantic", TRUE, FALSE, 35, 9), Memory(4, "semantic", FALSE, FALSE, 7, 1),
   Memory(5, "episodic", TRUE, FALSE, 21, 60), Memory(6, "episodic", TRUE, TRUE, 7, 1),
   Memory(7, "procedural", TRUE, FALSE, 7, 2)}

MCShare == [semantic |-> 50, episodic |-> 30, procedural |-> 20]
MCPerType == [semantic |-> 2, episodic |-> 2, procedural |-> 1]
MCPreamble == [chars |-> 14, tokens |-> 3]

PR(ref, merged, paths) ==
  [ref |-> ref, state |-> "merged", draft |-> FALSE, created |-> At(2023, 12, 1),
   merged |-> merged, paths |-> paths, reviews |-> {}]

OpenPR(ref, created, draft, reviews) ==
  [ref |-> ref, state |-> "open", draft |-> draft, created |-> created,
   merged |-> 0, paths |-> {}, reviews |-> reviews]

\* Merged at the edges of months, quarters, halves and years, of a leap year too.
MCPullRequests ==
  {PR("1", At(2023, 12, 31), {<<"s", "a">>, <<"t">>}), PR("2", At(2024, 2, 29), {<<"s", "a">>}),
   PR("3", At(2024, 3, 31), {}), PR("4", At(2024, 4, 1), {<<"d">>, <<"s", "b">>}),
   PR("5", At(2024, 6, 30), {<<"d">>}), PR("6", At(2024, 7, 1), {<<"t">>}),
   PR("7", At(2024, 12, 31), {<<"s", "c">>}),
   OpenPR("8", At(2024, 7, 1), FALSE, {At(2024, 7, 15)}), OpenPR("9", At(2024, 7, 15), FALSE, {}),
   OpenPR("10", At(2024, 3, 1), FALSE, {At(2024, 3, 2)}), OpenPR("11", At(2024, 3, 1), TRUE, {})}

MCIssues ==
  {[ref |-> "1", state |-> "open", labels |-> {"bug", "docs"}, milestone |-> None, created |-> At(2024, 1, 1)],
   [ref |-> "2", state |-> "open", labels |-> {}, milestone |-> "m", created |-> At(2024, 7, 1)],
   [ref |-> "3", state |-> "closed", labels |-> {"bug"}, milestone |-> "m", created |-> At(2024, 1, 1)]}

MCCommits ==
  {[ref |-> "1", authored |-> At(2024, 3, 31), paths |-> {<<"s", "a">>, <<"t">>}],
   [ref |-> "2", authored |-> At(2024, 7, 1), paths |-> {<<"d">>}]}

MCReleases ==
  {[ref |-> "v1", at |-> At(2024, 2, 29)], [ref |-> "v2", at |-> At(2024, 7, 1)]}

MCAreas == [auth |-> {<<"s">>, <<"t">>}, docs |-> {<<"d">>}]

MCDates == {At(2024, 3, 31), At(2024, 7, 29), At(2025, 1, 31)}

MCMemoryTools == {"memory_search", "memory_write"}
MCSearchTools == {"search_docs"}
MCCatalog ==
  {"merged_prs", "open_issues", "stale_prs", "commits_by_author", "pr_state", "issue_state",
   "release_info", "release_diff"} \cup MCSearchTools \cup MCMemoryTools

\* The modes of selection; both arms of retrieval in one of them.
MCSettings ==
  [mode : {"native", "semantic"}, memory : BOOLEAN, hybrid : {FALSE}]
  \cup {[mode |-> "full", memory |-> b, hybrid |-> ~b] : b \in BOOLEAN}

\* An older catalog's seeds, and none.
MCSeedings == {{}, {"merged_prs", "memory_write", "gone", "padding"}}

Expressions ==
  {[form |-> "last", count |-> n, unit |-> u] : n \in {0, 1, 5}, u \in {"day", "week", "month", "year"}}
  \cup {[form |-> "since", from |-> <<2024, 2, d>>] : d \in {29, 30}}
  \cup {[form |-> "range", from |-> <<2024, 3, 31>>, to |-> to] :
          to \in {<<2024, 3, 31>>, <<2024, 7, 1>>, <<2025, 12, 31>>}}
  \cup {[form |-> "year", year |-> y] : y \in {2023, 2024, 2025}}
  \cup {[form |-> "month", year |-> 2024, month |-> m] : m \in {0, 2, 3, 12}}
  \cup {[form |-> "quarter", year |-> 2024, quarter |-> q] : q \in 1..4}
  \cup {[form |-> "half", year |-> 2024, half |-> h] : h \in 1..2}
  \cup {[form |-> "release", tag |-> t] : t \in {"v1", "v3"}}
  \cup {[form |-> "other"]}

Arguments(name, fs) == {[name |-> name, malformed |-> FALSE] @@ f : f \in fs}

MCCalls ==
  Arguments("merged_prs", [window : Expressions, area : {None, "auth", "payments"}])
  \cup Arguments("commits_by_author",
                 [window : {[form |-> "half", year |-> 2024, half |-> 2]}, area : {None, "docs"}])
  \cup Arguments("open_issues",
                 [label : {None, "bug"}, milestone : {None, "m"}, days : {None, 30, 999}])
  \cup Arguments("stale_prs", [days : {14, 28, 999}])
  \cup Arguments("release_diff", [from : {"v1", "v2"}, to : {"v1", "v3"}])
  \cup Arguments("pr_state", [ref : {"1", "99"}])
  \cup Arguments("issue_state", [ref : {"3"}])
  \cup Arguments("release_info", [ref : {"v1"}])
  \cup {[name |-> n, malformed |-> FALSE] : n \in MCSearchTools \cup MCMemoryTools \cup {"gone"}}
  \cup {[name |-> "stale_prs", malformed |-> TRUE]}

\* A behaviour that loads the block has one initial state of Lookups, one that
\* calls a tool has one of MemoryBlock.
Loads == setting = [mode |-> "full", memory |-> TRUE, hybrid |-> FALSE]
           /\ as_of = At(2024, 3, 31) /\ tool_defs = {} /\ stage = "select"
CallsTool == live = {} /\ budget = 3 /\ phase = "profile"

\* The dates vary where every tool is offered and one arm searches, the seeds where they are read.
ReadsInit ==
  /\ BlockInit /\ LookupInit
  /\ Loads \/ CallsTool
  /\ setting.mode # "full" \/ setting.hybrid => as_of = At(2024, 7, 29)
  /\ setting.mode # "semantic" => tool_defs = {}

ReadsNext ==
  \/ Loads /\ BlockNext /\ UNCHANGED lookupVars
  \/ CallsTool /\ LookupNext /\ UNCHANGED blockVars

ReadsSpec == ReadsInit /\ [][ReadsNext]_<<blockVars, lookupVars>>
=============================================================================
