------------------------------ MODULE MCCorpus ------------------------------
(***************************************************************************)
(* Small instances of the two ends of an ingest run that keep no common    *)
(* state: a behaviour either fetches (GitHubClient, the document is the    *)
(* empty page) or cuts one document into chunks (Chunking, no run starts). *)
(***************************************************************************)
EXTENDS GitHubClient, Chunking

CONSTANTS files, comments  \* cache keys

\* The files of a pull request fill three pages; an issue has no comments.
MCContent ==
  [k \in {files, comments} |-> IF k = files THEN <<<<1>>, <<2>>, <<3>>>> ELSE <<<<>>>>]

\* Paragraphs: short, middling, of two lines, and with a line over the window.
Paragraphs == {<<1>>, <<3>>, <<2, 4>>, <<1, 10>>}

\* Runs that begin within a word count one more; some that end within one, fewer.
MCRecount ==
  [r \in {0, 3, 6, 9, 12} \X {2, 5, 6, 7} \cup {1, 4} \X {5, 6} |->
     IF r[1] % 3 = 0 THEN r[2] + 1 ELSE r[2] - 1]

Section(first, last, header, slug, anchor) ==
  [first |-> first, last |-> last, header |-> header, slug |-> slug, anchor |-> anchor]

\* Headings that repeat, or look like an allocated suffix, or have an anchor.
DocsPages ==
  {[kind |-> "docs", text |-> <<a, b, c, <<2>>>>,
    sections |-> <<Section(1, 1, 1, <<"x">>, <<>>), Section(2, n, 2, s, <<>>),
                   Section(n + 1, 4, h, <<"x">>, an)>>] :
     a \in Paragraphs, b \in Paragraphs, c \in Paragraphs,
     n \in {2, 3}, s \in {<<"x">>, <<"x", 2>>}, h \in {1, 7}, an \in {<<>>, <<"y">>}}

EmptyPage == [kind |-> "docs", text |-> <<>>, sections |-> <<>>]

Node(first, last, methods) == [first |-> first, last |-> last, header |-> 1, methods |-> methods]

\* Five lines, blank ones and too long ones among them: a file of nothing, two
\* assignments on one line, a class with a decorated method.
CodeFiles ==
  {[kind |-> "code", text |-> [i \in 1..5 |-> <<ls[i]>>], parses |-> p, nodes |-> nodes] :
     ls \in [1..5 -> {0, 1, 3, 9}], p \in BOOLEAN,
     nodes \in {<<>>,
                <<Node(1, 3, <<>>), Node(3, 3, <<>>)>>,
                <<Node(1, 5, <<[begin |-> 2, first |-> 3, last |-> 3, header |-> 2],
                               [begin |-> 4, first |-> 4, last |-> 5, header |-> 2]>>)>>}}

Comment(first, last, author, bot) ==
  [first |-> first, last |-> last, author |-> author, bot |-> bot]

Issues ==
  {[kind |-> "issue", text |-> <<a, b, c, a>>, header |-> 2, thread |-> 1, body |-> n,
    comments |-> <<Comment(n + 1, 2, 3, bot), Comment(3, 3, 1, FALSE), Comment(4, 4, 2, ~bot)>>] :
     a \in Paragraphs, b \in Paragraphs, c \in Paragraphs, n \in {0, 1}, bot \in BOOLEAN}

MCDocuments == {EmptyPage} \cup DocsPages \cup CodeFiles \cup Issues

CorpusInit ==
  /\ ChunkInit
  /\ Init
  /\ doc # EmptyPage => /\ cache = [k \in Keys |-> Absent]
                        /\ remaining = Quota
                        /\ key = files

CorpusNext ==
  \/ doc = EmptyPage /\ Next /\ UNCHANGED chunkVars
  \/ ChunkNext /\ UNCHANGED vars

CorpusSpec ==
  CorpusInit /\ [][CorpusNext]_<<vars, chunkVars>> /\ WF_vars(Step /\ UNCHANGED chunkVars)
=============================================================================
