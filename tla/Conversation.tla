---------------------------- MODULE Conversation ----------------------------
(***************************************************************************)
(* Chats on a session and the extractions they set off:                    *)
(* Orchestrator.run and end_session (app/orchestrator.py), Extractor       *)
(* (app/memory/lifecycle.py).  A request is a generator that the server    *)
(* may stop at any await; each read and each write is a statement of its   *)
(* own, and nothing locks the session between them.                        *)
(*                                                                         *)
(* What the agent loop does with the model is AgentLoop.tla; here it       *)
(* answers with some text, answers with none, or fails.                    *)
(***************************************************************************)
EXTENDS Integers, FiniteSets, SequencesExt

CONSTANTS
  Sessions,
  Chats,               \* POST /chat requests, one life each
  Ends,                \* POST /sessions/{id}/end requests, one life each
  None,
  TurnsPerExtraction,  \* TURNS_PER_EXTRACTION, 10 in the code
  MaxFacts,            \* bound: facts one extraction returns
  Overlap              \* whether a session may have two chats running

ASSUME NoneAssumption == None \notin Sessions
ASSUME IdsAssumption == Chats \cap Ends = {}
ASSUME BoundsAssumption == TurnsPerExtraction \in Nat \ {0} /\ MaxFacts \in Nat
ASSUME OverlapAssumption == Overlap \in BOOLEAN

Extractions == Chats \cup Ends

VARIABLES
  sessions,   \* table sessions: whether it exists and has an ended_at
  messages,   \* table messages
  memories,   \* the episodic memories extraction wrote
  chat,       \* per request: its generator
  job         \* per request that may extract: its Extractor.extract

vars == <<sessions, messages, memories, chat, job>>

\* trace_id names the request whose content the row holds; the id is that of
\* the request that first inserted it.  text: replayable() leaves something.
Message == [id : Chats, session : Sessions, turn : Nat,
            role : {"user", "assistant"}, trace : Chats, text : BOOLEAN]

\* A memory keeps the message it came from (source_ids) as it was read.
Memory == [source : Message, by : Extractions]

Chat == [pc : {"new", "history", "user", "answer", "persist", "finish",
               "done", "error", "broken", "gone"},
         session : Sessions \cup {None}, turn : Nat,
         text : BOOLEAN,             \* whether the answer has any
         history : SUBSET Message]   \* what it read before it began

Job == [pc : {"none", "read", "call", "write", "returned", "already_ended", "lost"},
        session : Sessions \cup {None},
        transcript : SUBSET Message,
        facts : SUBSET Message]      \* admissible facts not yet written

-----------------------------------------------------------------------------
Running(r) == chat[r].pc \notin {"new", "done", "error", "broken", "gone"}

Working(j) == job[j].pc \in {"read", "call", "write"}

Rows(s) == {m \in messages : m.session = s}

\* Mutants of NextTurns: with a default that is a turn; from the answered turns
\* only; from the number of rows.
NextTurnsReused(s) ==
  {n \in {0} \cup {m.turn : m \in Rows(s)} : \A m \in Rows(s) : m.turn <= n}

NextTurnsAnswered(s) ==
  LET answers == {m \in Rows(s) : m.role = "assistant"}
  IN {n \in {0} \cup {m.turn + 1 : m \in answers} : \A m \in answers : m.turn < n}

NextTurnsCounted(s) == {Cardinality(Rows(s))}

\* _history: max(turn, default=-1) + 1 over every row, replayable or not.
NextTurns(s) ==
  {n \in {0} \cup {m.turn + 1 : m \in Rows(s)} : \A m \in Rows(s) : m.turn < n}

\* _persist: INSERT ... ON CONFLICT (session_id, turn, role) DO UPDATE, which
\* replaces content and trace_id and keeps the id.
Persist(r, role, text) ==
  LET key == {m \in Rows(chat[r].session) : m.turn = chat[r].turn /\ m.role = role}
      row == [id |-> r, session |-> chat[r].session, turn |-> chat[r].turn,
              role |-> role, trace |-> r, text |-> text]
  IN messages' = IF key = {} THEN messages \cup {row}
                 ELSE (messages \ key) \cup {[row EXCEPT !.id = m.id] : m \in key}

\* ORDER BY turn, role: 'assistant' sorts before 'user'.
RowBefore(m, n) ==
  \/ m.turn < n.turn
  \/ m.turn = n.turn /\ m.role = "assistant" /\ n.role = "user"

Replayed(history) == SetToSortSeq(history, RowBefore)

ShouldExtract(turn) == turn > 0 /\ (turn + 1) % TurnsPerExtraction = 0

\* A generator that ends takes its local state with it.
Stopped(c, pc) == [c EXCEPT !.pc = pc, !.history = {}]

Stop(j, pc) == [j EXCEPT !.pc = pc, !.transcript = {}, !.facts = {}]

StartJob(j, s) == job' = [job EXCEPT ![j].pc = "read", ![j].session = s]

-----------------------------------------------------------------------------
Init ==
  /\ sessions = [s \in Sessions |-> "absent"]
  /\ messages = {}
  /\ memories = {}
  /\ chat = [r \in Chats |-> [pc |-> "new", session |-> None, turn |-> 0,
                              text |-> FALSE, history |-> {}]]
  /\ job = [j \in Extractions |-> [pc |-> "none", session |-> None,
                                   transcript |-> {}, facts |-> {}]]

\* _session with a session_id: it has to exist; ended_at is not looked at.
Resume(r) ==
  /\ chat[r].pc = "new"
  /\ \E s \in Sessions :
       /\ sessions[s] # "absent"
       /\ Overlap \/ \A q \in Chats : Running(q) => chat[q].session # s
       /\ chat' = [chat EXCEPT ![r].pc = "history", ![r].session = s]
  /\ UNCHANGED <<sessions, messages, memories, job>>

\* _session without one.
Open(r) ==
  /\ chat[r].pc = "new"
  /\ \E s \in Sessions :
       /\ sessions[s] = "absent"
       /\ sessions' = [sessions EXCEPT ![s] = "open"]
       /\ chat' = [chat EXCEPT ![r].pc = "history", ![r].session = s]
  /\ UNCHANGED <<messages, memories, job>>

SessionNotFound(r) ==
  /\ chat[r].pc = "new"
  /\ \E s \in Sessions : sessions[s] = "absent"
  /\ chat' = [chat EXCEPT ![r].pc = "error"]
  /\ UNCHANGED <<sessions, messages, memories, job>>

\* Mutant: the previous turn is left out of the history.
ReadHistoryButLast(r) ==
  /\ chat[r].pc = "history"
  /\ \E n \in NextTurns(chat[r].session) :
       chat' = [chat EXCEPT ![r].pc = "user", ![r].turn = n,
                  ![r].history = {m \in Rows(chat[r].session) : m.text /\ m.turn < n - 1}]
  /\ UNCHANGED <<sessions, messages, memories, job>>

ReadHistory(r) ==
  /\ chat[r].pc = "history"
  /\ \E n \in NextTurns(chat[r].session) :
       chat' = [chat EXCEPT ![r].pc = "user", ![r].turn = n,
                            ![r].history = {m \in Rows(chat[r].session) : m.text}]
  /\ UNCHANGED <<sessions, messages, memories, job>>

PersistQuestion(r) ==
  /\ chat[r].pc = "user"
  /\ Persist(r, "user", TRUE)
  /\ chat' = [chat EXCEPT ![r].pc = "answer"]
  /\ UNCHANGED <<sessions, memories, job>>

\* Mutant: the mid-session trigger fires before the answer is persisted.
AnswerTriggersEarly(r) ==
  /\ chat[r].pc = "answer"
  /\ \E text \in BOOLEAN :
       chat' = [chat EXCEPT ![r].pc = "persist", ![r].text = text]
  /\ IF ShouldExtract(chat[r].turn) THEN StartJob(r, chat[r].session) ELSE UNCHANGED job
  /\ UNCHANGED <<sessions, messages, memories>>

\* memory.load_context, selector.select and the loop.
Answer(r) ==
  /\ chat[r].pc = "answer"
  /\ \E text \in BOOLEAN :
       chat' = [chat EXCEPT ![r].pc = "persist", ![r].text = text]
  /\ UNCHANGED <<sessions, messages, memories, job>>

\* A refusal or an exception inside the loop becomes an error event.
AnswerFails(r) ==
  /\ chat[r].pc = "answer"
  /\ chat' = [chat EXCEPT ![r] = Stopped(@, "error")]
  /\ UNCHANGED <<sessions, messages, memories, job>>

PersistAnswer(r) ==
  /\ chat[r].pc = "persist"
  /\ Persist(r, "assistant", chat[r].text)
  /\ chat' = [chat EXCEPT ![r].pc = "finish"]
  /\ UNCHANGED <<sessions, memories, job>>

\* The mid-session trigger, detached, and the done event.
Finish(r) ==
  /\ chat[r].pc = "finish"
  /\ IF ShouldExtract(chat[r].turn) THEN StartJob(r, chat[r].session) ELSE UNCHANGED job
  /\ chat' = [chat EXCEPT ![r] = Stopped(@, "done")]
  /\ UNCHANGED <<sessions, messages, memories>>

\* Outside the loop's try nothing catches what a statement, the memory block
\* or the selector raises: the exception leaves the generator.
Break(r) ==
  /\ chat[r].pc \in {"history", "user", "answer", "persist"}
  /\ chat' = [chat EXCEPT ![r] = Stopped(@, "broken")]
  /\ UNCHANGED <<sessions, messages, memories, job>>

\* The client goes away and the generator is cancelled where it stands.
Disconnect(r) ==
  /\ Running(r)
  /\ chat' = [chat EXCEPT ![r] = Stopped(@, "gone")]
  /\ UNCHANGED <<sessions, messages, memories, job>>

\* Mutant: the UPDATE without ended_at IS NULL.
EndSessionAgain(e) ==
  /\ job[e].pc = "none"
  /\ \E s \in Sessions :
       /\ sessions[s] # "absent"
       /\ sessions' = [sessions EXCEPT ![s] = "ended"]
       /\ StartJob(e, s)
  /\ UNCHANGED <<messages, memories, chat>>

\* end_session's one UPDATE ... WHERE ended_at IS NULL RETURNING id.
EndSession(e) ==
  /\ job[e].pc = "none"
  /\ \E s \in Sessions :
       IF sessions[s] = "open"
       THEN /\ sessions' = [sessions EXCEPT ![s] = "ended"]
            /\ StartJob(e, s)
       ELSE /\ job' = [job EXCEPT ![e].pc = "already_ended", ![e].session = s]
            /\ UNCHANGED sessions
  /\ UNCHANGED <<messages, memories, chat>>

\* _transcript and render_transcript: without text there is nothing to do.
ReadTranscript(j) ==
  /\ job[j].pc = "read"
  /\ LET said == {m \in Rows(job[j].session) : m.text} IN
       job' = [job EXCEPT ![j] = IF said = {} THEN Stop(@, "returned")
                                 ELSE [@ EXCEPT !.pc = "call", !.transcript = said]]
  /\ UNCHANGED <<sessions, messages, memories, chat>>

\* _call never raises: a failed, refused or unreadable answer is no facts.
\* A fact names its message; that the model names one it was shown is taken
\* for granted, the code does not check it.
Call(j) ==
  /\ job[j].pc = "call"
  /\ \E facts \in SUBSET job[j].transcript :
       /\ Cardinality(facts) <= MaxFacts
       /\ job' = [job EXCEPT ![j] = IF facts = {} THEN Stop(@, "returned")
                                    ELSE [@ EXCEPT !.pc = "write", !.facts = facts]]
  /\ UNCHANGED <<sessions, messages, memories, chat>>

\* One store.write per fact, each a transaction of its own.
WriteFact(j) ==
  /\ job[j].pc = "write"
  /\ \E m \in job[j].facts :
       /\ memories' = memories \cup {[source |-> m, by |-> j]}
       /\ job' = [job EXCEPT ![j] = IF job[j].facts = {m} THEN Stop(job[j], "returned")
                                    ELSE [job[j] EXCEPT !.facts = @ \ {m}]]
  /\ UNCHANGED <<sessions, messages, chat>>

\* The transcript query, the embedder or a write raises: a detached task's
\* exception goes nowhere, an awaited one fails the request.
ExtractionFails(j) ==
  /\ job[j].pc \in {"read", "write"}
  /\ job' = [job EXCEPT ![j] = Stop(@, "lost")]
  /\ UNCHANGED <<sessions, messages, memories, chat>>

\* The process stops: its generators and its tasks stop with it.
Restart ==
  /\ \E r \in Chats : Running(r) \/ \E j \in Extractions : Working(j)
  /\ chat' = [r \in Chats |-> IF Running(r) THEN Stopped(chat[r], "gone") ELSE chat[r]]
  /\ job' = [j \in Extractions |-> IF Working(j) THEN Stop(job[j], "lost") ELSE job[j]]
  /\ UNCHANGED <<sessions, messages, memories>>

Turn(r) ==
  \/ Resume(r) \/ Open(r) \/ SessionNotFound(r)
  \/ ReadHistory(r) \/ PersistQuestion(r)
  \/ Answer(r) \/ AnswerFails(r) \/ PersistAnswer(r) \/ Finish(r)
  \/ Break(r) \/ Disconnect(r)

Extract(j) == ReadTranscript(j) \/ Call(j) \/ WriteFact(j) \/ ExtractionFails(j)

Next ==
  \/ \E r \in Chats : Turn(r)
  \/ \E e \in Ends : EndSession(e)
  \/ \E j \in Extractions : Extract(j)
  \/ Restart

Spec == Init /\ [][Next]_vars

-----------------------------------------------------------------------------
\* Every variable holds values of its table's or record's shape.
TypeOK ==
  /\ sessions \in [Sessions -> {"absent", "open", "ended"}]
  /\ messages \subseteq Message
  /\ memories \subseteq Memory
  /\ chat \in [Chats -> Chat]
  /\ job \in [Extractions -> Job]

\* Question and answer of a turn come from one request, so its trace_id leads
\* from either row to the request that produced the turn.
TurnKeepsOneRequest ==
  \A m, n \in messages : m.session = n.session /\ m.turn = n.turn => m.trace = n.trace

\* What a chat replays has everything the finished chats before it on the
\* session said, although any number of chats failed or vanished in between.
HistoryComplete ==
  \A q, r \in Chats :
    /\ chat[q].pc = "done" /\ chat[r].pc \in {"user", "answer", "persist", "finish"}
    /\ chat[q].session = chat[r].session /\ chat[q].turn < chat[r].turn
    => /\ \E m \in chat[r].history : m.trace = q /\ m.role = "user"
       /\ chat[q].text => \E m \in chat[r].history : m.trace = q /\ m.role = "assistant"

\* A stored message is never replaced: a turn's number is its own even when
\* the turn before it stopped halfway.
TranscriptAppendOnly == [][messages \subseteq messages']_vars

\* Turns are numbered without a gap, each from its question on.
TurnsContiguous ==
  \A m \in messages : \A n \in 0..m.turn :
    \E q \in messages : q.session = m.session /\ q.turn = n /\ q.role = "user"

\* A memory's source message still says what the memory was made from.
EvidenceKept == \A m \in memories : m.source \in messages

\* The mid-session trigger reads a complete transcript: the turn that set it
\* off is in it, question and answer.
TranscriptComplete ==
  \A r \in Chats : job[r].pc \in {"call", "write"} =>
    /\ \E m \in job[r].transcript : m.trace = r /\ m.role = "user"
    /\ chat[r].text => \E m \in job[r].transcript : m.trace = r /\ m.role = "assistant"

\* What makes the above inductive where a session has one chat at a time.
OneChatPerSession ==
  /\ \A r \in Chats : Running(r) =>
       chat[r].session \in Sessions /\ sessions[chat[r].session] # "absent"
  /\ \A q, r \in Chats :
       Running(q) /\ Running(r) /\ chat[q].session = chat[r].session => q = r

\* A running chat's turn number is above every other turn of its session.
TurnIsFree ==
  \A r \in Chats :
    /\ chat[r].pc = "user" => \A m \in Rows(chat[r].session) : m.turn < chat[r].turn
    /\ chat[r].pc \in {"answer", "persist"} =>
         \A m \in Rows(chat[r].session) :
           \/ m.turn < chat[r].turn
           \/ m.turn = chat[r].turn /\ m.role = "user" /\ m.trace = r

\* The table has what request r, with record c, persisted in that role.
Stored(r, c, role, text) ==
  \E m \in messages :
    /\ m.session = c.session /\ m.turn = c.turn /\ m.role = role
    /\ m.trace = r /\ m.text = text

\* What a chat has persisted is in the table as it wrote it.
SaidIsStored ==
  \A r \in Chats :
    /\ chat[r].pc \in {"answer", "persist", "finish", "done"} =>
         Stored(r, chat[r], "user", TRUE)
    /\ chat[r].pc \in {"finish", "done"} =>
         Stored(r, chat[r], "assistant", chat[r].text)

\* The history a chat read is still all there is of the turns before it.
HistoryCurrent ==
  \A r \in Chats : chat[r].pc \in {"user", "answer", "persist", "finish"} =>
    \A m \in Rows(chat[r].session) :
      m.text /\ m.turn < chat[r].turn => m \in chat[r].history

\* A mid-session extraction belongs to a finished chat, and what an extraction
\* holds is still stored.
JobsFollowChats ==
  /\ \A j \in Extractions : job[j].transcript \cup job[j].facts \subseteq messages
  /\ \A r \in Chats : job[r].pc # "none" =>
       chat[r].pc = "done" /\ job[r].session = chat[r].session

SerialInv ==
  /\ TypeOK
  /\ OneChatPerSession
  /\ TurnIsFree
  /\ SaidIsStored
  /\ HistoryCurrent
  /\ JobsFollowChats
  /\ TranscriptComplete
  /\ EvidenceKept
  /\ TurnKeepsOneRequest

\* An end call that extracts is the one that ended its session.
EndOwnsSession ==
  \A e \in Ends : job[e].pc \notin {"none", "already_ended"} =>
    job[e].session \in Sessions /\ sessions[job[e].session] = "ended"

\* However often and however concurrently a session is ended, one of the
\* calls extracts from it.
EndExtractsOnce ==
  \A d, e \in Ends :
    /\ job[d].pc \notin {"none", "already_ended"}
    /\ job[e].pc \notin {"none", "already_ended"}
    /\ job[d].session = job[e].session
    => d = e

\* An answer is replayed after the question it answers.
AnswersFollowQuestions ==
  \A r \in Chats :
    LET replay == Replayed(chat[r].history) IN
      \A i, k \in 1..Len(replay) :
        replay[i].turn = replay[k].turn /\ replay[i].role = "user"
          /\ replay[k].role = "assistant" => i < k
=============================================================================
