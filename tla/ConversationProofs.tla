------------------------- MODULE ConversationProofs -------------------------
(***************************************************************************)
(* Where a session has one chat at a time, its transcript is append-only,  *)
(* a turn is one request's, and what a chat replays is complete; an ended  *)
(* session is extracted from once whatever overlaps.                       *)
(***************************************************************************)
EXTENDS Conversation, TLAPS

Row(r, role, text) ==
  [id |-> r, session |-> chat[r].session, turn |-> chat[r].turn,
   role |-> role, trace |-> r, text |-> text]

Terminal == {"new", "done", "error", "broken", "gone"}

\* What SerialInv asks of a record c of chat r, given the other chats.
ChatOK(r, c) ==
  /\ c \in Chat
  /\ c.pc \notin Terminal =>
       /\ c.session \in Sessions
       /\ sessions[c.session] # "absent"
       /\ \A q \in Chats \ {r} : Running(q) => chat[q].session # c.session
  /\ c.pc = "user" => \A m \in messages : m.session = c.session => m.turn < c.turn
  /\ c.pc \in {"answer", "persist"} =>
       \A m \in messages : m.session = c.session =>
         \/ m.turn < c.turn
         \/ m.turn = c.turn /\ m.role = "user" /\ m.trace = r
  /\ c.pc \in {"answer", "persist", "finish", "done"} => Stored(r, c, "user", TRUE)
  /\ c.pc \in {"finish", "done"} => Stored(r, c, "assistant", c.text)
  /\ c.pc \in {"user", "answer", "persist", "finish"} =>
       \A m \in messages :
         m.session = c.session /\ m.text /\ m.turn < c.turn => m \in c.history

\* And of a record g of extraction j.
JobOK(j, g) ==
  /\ g \in Job
  /\ g.transcript \cup g.facts \subseteq messages
  /\ j \in Chats /\ g.pc # "none" => chat[j].pc = "done" /\ g.session = chat[j].session
  /\ j \in Chats /\ g.pc \in {"call", "write"} =>
       /\ \E m \in g.transcript : m.trace = j /\ m.role = "user"
       /\ chat[j].text => \E m \in g.transcript : m.trace = j /\ m.role = "assistant"

Parts ==
  /\ sessions \in [Sessions -> {"absent", "open", "ended"}]
  /\ messages \subseteq Message
  /\ memories \subseteq Memory
  /\ DOMAIN chat = Chats /\ chat = [r \in Chats |-> chat[r]]
  /\ DOMAIN job = Extractions /\ job = [j \in Extractions |-> job[j]]
  /\ \A r \in Chats : ChatOK(r, chat[r])
  /\ \A j \in Extractions : JobOK(j, job[j])
  /\ EvidenceKept
  /\ TurnKeepsOneRequest

\* SerialInv, record by record.
LEMMA ByRecord == SerialInv <=> Parts
<1>1. Chats \subseteq Extractions
  BY DEF Extractions
<1>2. ASSUME SerialInv PROVE Parts
  <2> USE <1>2 DEF SerialInv
  <2>1. ASSUME NEW r \in Chats PROVE ChatOK(r, chat[r])
    BY DEF TypeOK, OneChatPerSession, TurnIsFree, SaidIsStored, HistoryCurrent,
           ChatOK, Running, Terminal, Rows
  <2>2. ASSUME NEW j \in Extractions PROVE JobOK(j, job[j])
    BY DEF TypeOK, JobsFollowChats, TranscriptComplete, JobOK
  <2> QED BY <2>1, <2>2 DEF TypeOK, Parts
<1>3. ASSUME Parts PROVE SerialInv
  <2>0. /\ \A r \in Chats : ChatOK(r, chat[r])
        /\ \A j \in Extractions : JobOK(j, job[j])
    BY <1>3 DEF Parts
  <2>1. TypeOK
    BY <1>3 DEF Parts, TypeOK, ChatOK, JobOK
  <2>2. OneChatPerSession
    BY <2>0 DEF OneChatPerSession, ChatOK, Running, Terminal
  <2>3. TurnIsFree
    BY <2>0 DEF TurnIsFree, ChatOK, Rows
  <2>4. SaidIsStored
    BY <2>0 DEF SaidIsStored, ChatOK
  <2>5. HistoryCurrent
    BY <2>0 DEF HistoryCurrent, ChatOK, Rows
  <2>6. JobsFollowChats
    BY <1>1, <2>0 DEF JobsFollowChats, JobOK
  <2>7. TranscriptComplete
    BY <1>1, <2>0 DEF TranscriptComplete, JobOK
  <2> QED BY <1>3, <2>1, <2>2, <2>3, <2>4, <2>5, <2>6, <2>7 DEF SerialInv, Parts
<1> QED BY <1>2, <1>3

-----------------------------------------------------------------------------
LEMMA InitSerial == Init => SerialInv
<1> SUFFICES ASSUME Init PROVE Parts
  BY ByRecord
<1>1. ASSUME NEW r \in Chats PROVE ChatOK(r, chat[r])
  BY DEF Init, ChatOK, Chat, Terminal
<1>2. ASSUME NEW j \in Extractions PROVE JobOK(j, job[j])
  BY DEF Init, JobOK, Job
<1> QED BY <1>1, <1>2 DEF Init, Parts, EvidenceKept, TurnKeepsOneRequest

-----------------------------------------------------------------------------
\* A question's and an answer's turn is above every stored row or has only the
\* question, so the upsert of _persist always inserts.
LEMMA QuestionInserts ==
  ASSUME TypeOK, TurnIsFree, NEW r \in Chats, PersistQuestion(r)
  PROVE  messages' = messages \cup {Row(r, "user", TRUE)}
<1>1. chat[r] \in Chat BY DEF TypeOK
<1>2. \A m \in Rows(chat[r].session) : m.turn < chat[r].turn
  BY DEF TurnIsFree, PersistQuestion
<1>3. \A m \in Rows(chat[r].session) : m.turn # chat[r].turn
  BY <1>1, <1>2 DEF Rows, TypeOK, Message, Chat
<1>4. {m \in Rows(chat[r].session) : m.turn = chat[r].turn /\ m.role = "user"} = {}
  BY <1>3
<1> QED BY <1>4 DEF PersistQuestion, Persist, Row

LEMMA AnswerInserts ==
  ASSUME TypeOK, TurnIsFree, NEW r \in Chats, PersistAnswer(r)
  PROVE  messages' = messages \cup {Row(r, "assistant", chat[r].text)}
<1>1. chat[r] \in Chat BY DEF TypeOK
<1>2. \A m \in Rows(chat[r].session) : m.turn < chat[r].turn \/ m.role = "user"
  BY DEF TurnIsFree, PersistAnswer
<1>3. \A m \in Rows(chat[r].session) : ~(m.turn = chat[r].turn /\ m.role = "assistant")
  BY <1>1, <1>2 DEF Rows, TypeOK, Message, Chat
<1>4. {m \in Rows(chat[r].session) : m.turn = chat[r].turn /\ m.role = "assistant"} = {}
  BY <1>3
<1> QED BY <1>4 DEF PersistAnswer, Persist, Row

-----------------------------------------------------------------------------

-----------------------------------------------------------------------------
\* A step that gives chat r an admissible record, and perhaps moves a session
\* or starts the extraction of a turn that is done.
LEMMA ChatStep ==
  ASSUME Parts, NEW r \in Chats, NEW c, ChatOK(r, c)', chat[r].pc # "done",
         chat' = [chat EXCEPT ![r] = c],
         UNCHANGED <<messages, memories>>,
         sessions' \in [Sessions -> {"absent", "open", "ended"}],
         \A s \in Sessions : sessions[s] # "absent" => sessions'[s] # "absent",
         NEW g, job' = [job EXCEPT ![r] = g],
         \/ g = job[r]
         \/ /\ g \in Job /\ g.pc = "read" /\ g.transcript \cup g.facts \subseteq messages
            /\ c.pc = "done" /\ g.session = c.session
  PROVE  Parts'
<1> USE DEF Parts
<1>0. r \in Extractions /\ Chats \subseteq Extractions
  BY DEF Extractions
<1>1. \A q \in Chats : chat'[q] = IF q = r THEN c ELSE chat[q]
  OBVIOUS
<1>2. \A j \in Extractions : job'[j] = IF j = r THEN g ELSE job[j]
  OBVIOUS
<1>3. job[r].pc = "none"
  BY <1>0 DEF JobOK
<1>4. ASSUME NEW q \in Chats PROVE ChatOK(q, chat[q])'
  <2>1. CASE q = r
    BY <1>1, <2>1
  <2>2. CASE q # r
    <3>1. ChatOK(q, chat[q]) /\ chat'[q] = chat[q]
      BY <1>1, <2>2
    <3>2. ASSUME chat[q].pc \notin Terminal, NEW p \in Chats \ {q}, Running(p)'
          PROVE  chat'[p].session # chat[q].session
      <4>1. CASE p = r
        BY <1>1, <2>2, <3>2, <4>1 DEF ChatOK, Running, Terminal
      <4>2. CASE p # r
        BY <1>1, <3>1, <3>2, <4>2 DEF ChatOK, Running
      <4> QED BY <4>1, <4>2
    <3> HIDE DEF Parts
    <3> QED BY <3>1, <3>2 DEF ChatOK, Stored, Running
  <2> QED BY <2>1, <2>2
<1>5. ASSUME NEW j \in Extractions PROVE JobOK(j, job[j])'
  <2>1. CASE j = r
    BY <1>0, <1>1, <1>2, <1>3, <2>1 DEF JobOK
  <2>2. CASE j # r
    BY <1>1, <1>2, <2>2 DEF JobOK
  <2> QED BY <2>1, <2>2
<1> QED BY <1>0, <1>4, <1>5 DEF EvidenceKept, TurnKeepsOneRequest

\* A step in which running chat r adds a row to its own turn.
LEMMA InsertStep ==
  ASSUME Parts, NEW r \in Chats, Running(r), NEW row \in Message,
         row.session = chat[r].session, row.trace = r,
         \A m \in messages : m.session = row.session /\ m.turn = row.turn => m.trace = r,
         messages' = messages \cup {row},
         NEW c, ChatOK(r, c)', chat' = [chat EXCEPT ![r] = c],
         UNCHANGED <<sessions, memories, job>>
  PROVE  Parts'
<1> USE DEF Parts
<1>1. \A q \in Chats : chat'[q] = IF q = r THEN c ELSE chat[q]
  OBVIOUS
<1>2. ASSUME NEW q \in Chats PROVE ChatOK(q, chat[q])'
  <2>1. CASE q = r
    BY <1>1, <2>1
  <2>2. CASE q # r
    <3>1. ChatOK(q, chat[q]) /\ chat'[q] = chat[q]
      BY <1>1, <2>2
    <3>2. chat[q].pc \notin Terminal => chat[q].session # row.session
      BY <2>2, <3>1 DEF ChatOK
    <3>3. ASSUME chat[q].pc \notin Terminal, NEW p \in Chats \ {q}, Running(p)'
          PROVE  chat'[p].session # chat[q].session
      <4>1. CASE p = r
        BY <1>1, <2>2, <3>3, <4>1, r \in Chats \ {q} DEF ChatOK, Running, Terminal
      <4>2. CASE p # r
        BY <1>1, <3>1, <3>3, <4>2 DEF ChatOK, Running
      <4> QED BY <4>1, <4>2
    <3>4. \A role, text : Stored(q, chat[q], role, text) => Stored(q, chat[q], role, text)'
      BY <3>1 DEF Stored
    <3>5. CASE chat[q].pc \in Terminal
      BY <3>1, <3>4, <3>5 DEF ChatOK, Terminal
    <3>6. CASE chat[q].pc \notin Terminal
      <4>1. \A m \in messages' : m.session = chat[q].session => m \in messages
        BY <3>2, <3>6
      <4>2. /\ chat[q].pc = "user" =>
                 \A m \in messages' : m.session = chat[q].session => m.turn < chat[q].turn
            /\ chat[q].pc \in {"answer", "persist"} =>
                 \A m \in messages' : m.session = chat[q].session =>
                   \/ m.turn < chat[q].turn
                   \/ m.turn = chat[q].turn /\ m.role = "user" /\ m.trace = q
            /\ chat[q].pc \in {"user", "answer", "persist", "finish"} =>
                 \A m \in messages' :
                   m.session = chat[q].session /\ m.text /\ m.turn < chat[q].turn
                   => m \in chat[q].history
        BY <3>1, <4>1 DEF ChatOK
      <4>3. /\ chat[q].pc \in {"answer", "persist", "finish", "done"} =>
                 Stored(q, chat[q], "user", TRUE)'
            /\ chat[q].pc \in {"finish", "done"} =>
                 Stored(q, chat[q], "assistant", chat[q].text)'
        BY <3>1, <3>4 DEF ChatOK
      <4>4. chat[q] \in Chat /\ chat[q].session \in Sessions
        BY <3>1, <3>6 DEF ChatOK
      <4> HIDE DEF Parts
      <4> QED BY <3>1, <3>3, <4>2, <4>3, <4>4 DEF ChatOK, Running
    <3> QED BY <3>5, <3>6
  <2> QED BY <2>1, <2>2
<1>3. chat[r].pc # "done"
  BY DEF Running
<1>4. ASSUME NEW j \in Extractions PROVE JobOK(j, job[j])'
  BY <1>1, <1>3 DEF JobOK
<1>5. TurnKeepsOneRequest'
  BY DEF TurnKeepsOneRequest
<1> QED BY <1>2, <1>4, <1>5 DEF EvidenceKept

\* A step that gives extraction j an admissible record, and perhaps writes a
\* memory of a stored message.
LEMMA JobStep ==
  ASSUME Parts, NEW j \in Extractions, NEW g, JobOK(j, g), job' = [job EXCEPT ![j] = g],
         UNCHANGED <<messages, chat>>,
         sessions' \in [Sessions -> {"absent", "open", "ended"}],
         \A s \in Sessions : sessions[s] # "absent" => sessions'[s] # "absent",
         memories' \subseteq Memory, \A m \in memories' : m.source \in messages
  PROVE  Parts'
<1> USE DEF Parts
<1>1. \A i \in Extractions : job'[i] = IF i = j THEN g ELSE job[i]
  OBVIOUS
<1>2. ASSUME NEW q \in Chats PROVE ChatOK(q, chat[q])'
  BY DEF ChatOK, Stored, Running
<1>3. ASSUME NEW i \in Extractions PROVE JobOK(i, job[i])'
  BY <1>1 DEF JobOK
<1> QED BY <1>2, <1>3 DEF EvidenceKept, TurnKeepsOneRequest

-----------------------------------------------------------------------------
\* The same, with the record's admissibility seen before the step.
LEMMA LocalChatStep ==
  ASSUME Parts, NEW r \in Chats, NEW c, ChatOK(r, c), chat[r].pc # "done",
         chat' = [chat EXCEPT ![r] = c],
         UNCHANGED <<sessions, messages, memories, job>>
  PROVE  Parts'
<1>1. /\ sessions \in [Sessions -> {"absent", "open", "ended"}]
      /\ job = [job EXCEPT ![r] = job[r]]
      /\ \A q \in Chats \ {r} : chat'[q] = chat[q]
  BY DEF Parts, Extractions
<1>2. ChatOK(r, c)'
  BY <1>1 DEF ChatOK, Stored, Running
<1> QED BY <1>1, <1>2, ChatStep

\* Every step of a chat is of one of the kinds above.
LEMMA TurnStep ==
  ASSUME Parts, ~Overlap, NEW r \in Chats, Turn(r)
  PROVE  Parts' /\ messages \subseteq messages'
<1>0. /\ TypeOK
      /\ TurnIsFree
      /\ chat \in [Chats -> Chat]
      /\ ChatOK(r, chat[r])
      /\ r \in Extractions
      /\ sessions \in [Sessions -> {"absent", "open", "ended"}]
      /\ \A q \in Chats : Running(q) => sessions[chat[q].session] # "absent"
  BY ByRecord DEF SerialInv, Parts, Extractions, TypeOK, OneChatPerSession
\* A generator that stops needs no more of its record.
<1>1. ASSUME NEW pc \in {"error", "broken", "gone"}, chat[r].pc # "done",
             chat' = [chat EXCEPT ![r] = Stopped(@, pc)],
             UNCHANGED <<sessions, messages, memories, job>>
      PROVE  Parts' /\ messages \subseteq messages'
  <2>1. PICK c : c = Stopped(chat[r], pc)
    OBVIOUS
  <2>2. ChatOK(r, c)
    BY <1>0, <2>1 DEF ChatOK, Stopped, Chat, Terminal
  <2>3. chat' = [chat EXCEPT ![r] = c]
    BY <1>1, <2>1
  <2> QED BY <1>1, <2>2, <2>3, LocalChatStep
<1>2. CASE Resume(r)
  <2>1. PICK s \in Sessions :
          /\ sessions[s] # "absent"
          /\ \A q \in Chats : Running(q) => chat[q].session # s
          /\ chat' = [chat EXCEPT ![r].pc = "history", ![r].session = s]
    BY <1>2 DEF Resume
  <2>2. PICK c : c = [chat[r] EXCEPT !.pc = "history", !.session = s]
    OBVIOUS
  <2>3. c \in Chat /\ c.pc = "history" /\ c.session = s
    BY <1>0, <2>2 DEF Chat
  <2>4. ChatOK(r, c)
    BY <2>1, <2>3 DEF ChatOK
  <2>5. chat' = [chat EXCEPT ![r] = c]
    BY <2>1, <2>2
  <2> QED BY <1>2, <2>4, <2>5, LocalChatStep DEF Resume
<1>3. CASE Open(r)
  <2>1. PICK s \in Sessions :
          /\ sessions[s] = "absent"
          /\ sessions' = [sessions EXCEPT ![s] = "open"]
          /\ chat' = [chat EXCEPT ![r].pc = "history", ![r].session = s]
    BY <1>3 DEF Open
  <2>2. PICK c : c = [chat[r] EXCEPT !.pc = "history", !.session = s]
    OBVIOUS
  <2>3. c \in Chat /\ c.pc = "history" /\ c.session = s
    BY <1>0, <2>2 DEF Chat
  <2>4. \A q \in Chats \ {r} : Running(q)' = Running(q) /\ chat'[q] = chat[q]
    BY <1>0, <2>1 DEF Running
  <2>5. \A q \in Chats \ {r} : Running(q)' => chat'[q].session # s
    BY <1>0, <2>1, <2>4
  <2>6. sessions'[s] # "absent"
    BY <1>0, <2>1
  <2>7. ChatOK(r, c)'
    BY <2>3, <2>5, <2>6 DEF ChatOK
  <2>8. /\ chat' = [chat EXCEPT ![r] = c]
        /\ job' = [job EXCEPT ![r] = job[r]]
    BY <1>0, <1>3, <2>1, <2>2 DEF Open, TypeOK
  <2>9. /\ sessions' \in [Sessions -> {"absent", "open", "ended"}]
        /\ \A t \in Sessions : sessions[t] # "absent" => sessions'[t] # "absent"
    BY <1>0, <2>1
  <2> QED BY <1>3, <2>7, <2>8, <2>9, ChatStep DEF Open
<1>4. CASE SessionNotFound(r)
  <2>1. PICK c : c = [chat[r] EXCEPT !.pc = "error"]
    OBVIOUS
  <2>2. ChatOK(r, c)
    BY <1>0, <2>1 DEF ChatOK, Chat, Terminal
  <2>3. chat' = [chat EXCEPT ![r] = c]
    BY <1>4, <2>1 DEF SessionNotFound
  <2> QED BY <1>4, <2>2, <2>3, LocalChatStep DEF SessionNotFound
<1>5. CASE ReadHistory(r)
  <2>1. PICK n \in NextTurns(chat[r].session) :
          chat' = [chat EXCEPT ![r].pc = "user", ![r].turn = n,
                     ![r].history = {m \in Rows(chat[r].session) : m.text}]
    BY <1>5 DEF ReadHistory
  <2>2. PICK h : h = {m \in Rows(chat[r].session) : m.text}
    OBVIOUS
  <2>3. PICK c : c = [chat[r] EXCEPT !.pc = "user", !.turn = n, !.history = h]
    OBVIOUS
  <2>4. n \in Nat /\ \A m \in messages : m.session = chat[r].session => m.turn < n
    BY <1>0 DEF NextTurns, Rows, TypeOK, Message
  <2>5. h \subseteq Message /\ \A m \in messages : m.session = chat[r].session /\ m.text => m \in h
    BY <1>0, <2>2 DEF Rows, TypeOK
  <2>6. /\ c \in Chat /\ c.pc = "user" /\ c.session = chat[r].session
        /\ c.turn = n /\ c.history = h
    BY <1>0, <2>3, <2>4, <2>5 DEF Chat
  <2>7. chat' = [chat EXCEPT ![r] = c]
    BY <2>1, <2>2, <2>3
  <2>8. chat[r].pc = "history"
    BY <1>5 DEF ReadHistory
  <2>9. ChatOK(r, c)
    BY <1>0, <2>4, <2>5, <2>6, <2>8 DEF ChatOK, Terminal
  <2> QED BY <1>5, <2>7, <2>8, <2>9, LocalChatStep DEF ReadHistory
<1>6. CASE PersistQuestion(r)
  <2>1. PICK row : row = Row(r, "user", TRUE)
    OBVIOUS
  <2>2. PICK c : c = [chat[r] EXCEPT !.pc = "answer"]
    OBVIOUS
  <2>3. /\ chat[r].pc = "user"
        /\ chat' = [chat EXCEPT ![r] = c]
        /\ UNCHANGED <<sessions, memories, job>>
    BY <1>6, <2>2 DEF PersistQuestion
  <2>4. messages' = messages \cup {row}
    BY <1>0, <1>6, <2>1, QuestionInserts
  <2>5. chat[r].session \in Sessions /\ chat[r] \in Chat
    BY <1>0, <2>3 DEF ChatOK, Terminal
  <2>6. /\ row \in Message /\ row.session = chat[r].session /\ row.turn = chat[r].turn
        /\ row.role = "user" /\ row.trace = r /\ row.text = TRUE
    BY <2>1, <2>5 DEF Row, Message, Chat
  <2>7. /\ c \in Chat /\ c.pc = "answer" /\ c.session = chat[r].session
        /\ c.turn = chat[r].turn /\ c.history = chat[r].history
    BY <2>2, <2>5 DEF Chat
  <2>8. \A m \in messages : m.session = row.session => m.turn < row.turn
    BY <1>0, <2>3, <2>6 DEF ChatOK
  <2>9. \A m \in messages : m.session = row.session /\ m.turn = row.turn => m.trace = r
    BY <1>0, <2>6, <2>8 DEF TypeOK, Message
  <2>10. \A m \in messages' : m.session = c.session =>
           \/ m.turn < c.turn
           \/ m.turn = c.turn /\ m.role = "user" /\ m.trace = r
    BY <2>4, <2>6, <2>7, <2>8
  <2>11. \A m \in messages' :
           m.session = c.session /\ m.text /\ m.turn < c.turn => m \in c.history
    BY <1>0, <2>3, <2>4, <2>6, <2>7 DEF ChatOK, Chat
  <2>12. ChatOK(r, c)'
    <3>1. \A q \in Chats \ {r} : Running(q)' = Running(q) /\ chat'[q] = chat[q]
      BY <1>0, <2>3 DEF Running
    <3>2. \A q \in Chats \ {r} : Running(q)' => chat'[q].session # c.session
      BY <1>0, <2>3, <2>7, <3>1 DEF ChatOK, Terminal
    <3>3. Stored(r, c, "user", TRUE)'
      BY <2>4, <2>6, <2>7 DEF Stored
    <3>4. c.session \in Sessions /\ sessions'[c.session] # "absent"
      BY <1>0, <2>3, <2>7 DEF ChatOK, Terminal
    <3> QED BY <2>7, <2>10, <2>11, <3>2, <3>3, <3>4 DEF ChatOK
  <2> QED BY <2>3, <2>4, <2>6, <2>9, <2>12, InsertStep DEF Running
<1>7. CASE Answer(r)
  <2>1. PICK text \in BOOLEAN : chat' = [chat EXCEPT ![r].pc = "persist", ![r].text = text]
    BY <1>7 DEF Answer
  <2>2. PICK c : c = [chat[r] EXCEPT !.pc = "persist", !.text = text]
    OBVIOUS
  <2>3. /\ c \in Chat /\ c.pc = "persist" /\ c.session = chat[r].session
        /\ c.turn = chat[r].turn /\ c.history = chat[r].history
    BY <1>0, <2>2 DEF Chat
  <2>4. ChatOK(r, c)
    BY <1>0, <1>7, <2>3 DEF ChatOK, Stored, Answer, Terminal
  <2>5. chat' = [chat EXCEPT ![r] = c]
    BY <2>1, <2>2
  <2> QED BY <1>7, <2>4, <2>5, LocalChatStep DEF Answer
<1>8. CASE AnswerFails(r)
  BY <1>1, <1>8 DEF AnswerFails
<1>9. CASE PersistAnswer(r)
  <2>1. PICK row : row = Row(r, "assistant", chat[r].text)
    OBVIOUS
  <2>2. PICK c : c = [chat[r] EXCEPT !.pc = "finish"]
    OBVIOUS
  <2>3. /\ chat[r].pc = "persist"
        /\ chat' = [chat EXCEPT ![r] = c]
        /\ UNCHANGED <<sessions, memories, job>>
    BY <1>9, <2>2 DEF PersistAnswer
  <2>4. messages' = messages \cup {row}
    BY <1>0, <1>9, <2>1, AnswerInserts
  <2>5. chat[r].session \in Sessions /\ chat[r] \in Chat
    BY <1>0, <2>3 DEF ChatOK, Terminal
  <2>6. /\ row \in Message /\ row.session = chat[r].session /\ row.turn = chat[r].turn
        /\ row.role = "assistant" /\ row.trace = r /\ row.text = chat[r].text
    BY <2>1, <2>5 DEF Row, Message, Chat
  <2>7. /\ c \in Chat /\ c.pc = "finish" /\ c.session = chat[r].session
        /\ c.turn = chat[r].turn /\ c.history = chat[r].history /\ c.text = chat[r].text
    BY <2>2, <2>5 DEF Chat
  <2>8. \A m \in messages : m.session = row.session /\ m.turn = row.turn => m.trace = r
    BY <1>0, <2>3, <2>5, <2>6 DEF ChatOK, TypeOK, Message, Chat
  <2>9. \A m \in messages' :
          m.session = c.session /\ m.text /\ m.turn < c.turn => m \in c.history
    BY <1>0, <2>3, <2>4, <2>5, <2>6, <2>7 DEF ChatOK, Chat
  <2>10. ChatOK(r, c)'
    <3>1. \A q \in Chats \ {r} : Running(q)' = Running(q) /\ chat'[q] = chat[q]
      BY <1>0, <2>3 DEF Running
    <3>2. \A q \in Chats \ {r} : Running(q)' => chat'[q].session # c.session
      BY <1>0, <2>3, <2>7, <3>1 DEF ChatOK, Terminal
    <3>3. Stored(r, c, "assistant", c.text)'
      BY <2>4, <2>6, <2>7 DEF Stored
    <3>4. Stored(r, c, "user", TRUE)'
      BY <1>0, <2>3, <2>4, <2>7 DEF ChatOK, Stored
    <3>5. c.session \in Sessions /\ sessions'[c.session] # "absent"
      BY <1>0, <2>3, <2>7 DEF ChatOK, Terminal
    <3> QED BY <2>7, <2>9, <3>2, <3>3, <3>4, <3>5 DEF ChatOK
  <2> QED BY <2>3, <2>4, <2>6, <2>8, <2>10, InsertStep DEF Running
<1>10. CASE Finish(r)
  <2>1. PICK c : c = Stopped(chat[r], "done")
    OBVIOUS
  <2>2. /\ c \in Chat /\ c.pc = "done" /\ c.session = chat[r].session
        /\ c.turn = chat[r].turn /\ c.text = chat[r].text
    BY <1>0, <2>1 DEF Stopped, Chat
  <2>3. /\ chat[r].pc = "finish"
        /\ chat' = [chat EXCEPT ![r] = c]
        /\ UNCHANGED <<sessions, messages, memories>>
    BY <1>10, <2>1 DEF Finish
  <2>4. ChatOK(r, c)'
    BY <1>0, <2>2, <2>3 DEF ChatOK, Stored, Terminal
  <2>5. JobOK(r, job[r])
    BY <1>0 DEF Parts
  <2>6. PICK g : g = IF ShouldExtract(chat[r].turn)
                     THEN [job[r] EXCEPT !.pc = "read", !.session = chat[r].session]
                     ELSE job[r]
    OBVIOUS
  <2>7. job' = [job EXCEPT ![r] = g]
    BY <1>0, <1>10, <2>6 DEF Finish, StartJob, TypeOK
  <2>8. chat[r].session \in Sessions
    BY <1>0, <2>3 DEF ChatOK, Terminal
  <2>9. CASE ShouldExtract(chat[r].turn)
    <3>1. g \in Job /\ g.pc = "read" /\ g.transcript \cup g.facts \subseteq messages
          /\ g.session = c.session
      BY <2>2, <2>5, <2>6, <2>8, <2>9 DEF JobOK, Job
    <3> QED BY <1>0, <2>2, <2>3, <2>4, <2>7, <3>1, ChatStep
  <2>10. CASE ~ShouldExtract(chat[r].turn)
    BY <1>0, <2>2, <2>3, <2>4, <2>6, <2>7, <2>10, ChatStep
  <2> QED BY <2>9, <2>10
<1>11. CASE Break(r)
  BY <1>1, <1>11 DEF Break
<1>12. CASE Disconnect(r)
  BY <1>1, <1>12 DEF Disconnect, Running
<1> QED BY <1>2, <1>3, <1>4, <1>5, <1>6, <1>7, <1>8, <1>9, <1>10, <1>11, <1>12 DEF Turn

-----------------------------------------------------------------------------
\* So is every step of an extraction.
LEMMA ExtractStep ==
  ASSUME Parts, NEW j \in Extractions, Extract(j)
  PROVE  Parts' /\ messages \subseteq messages'
<1>0. /\ JobOK(j, job[j])
      /\ job \in [Extractions -> Job]
      /\ \A s \in Sessions : sessions[s] # "absent" => sessions[s] # "absent"
      /\ sessions \in [Sessions -> {"absent", "open", "ended"}]
      /\ memories \subseteq Memory
      /\ messages \subseteq Message
      /\ \A m \in memories : m.source \in messages
      /\ \A r \in Chats : ChatOK(r, chat[r])
  BY ByRecord DEF SerialInv, Parts, TypeOK, EvidenceKept
<1>1. ASSUME NEW pc \in {"returned", "lost"}, job[j].pc # "none",
             job' = [job EXCEPT ![j] = Stop(@, pc)],
             UNCHANGED <<sessions, messages, chat>>,
             memories' \subseteq Memory, \A m \in memories' : m.source \in messages
      PROVE  Parts' /\ messages \subseteq messages'
  <2>1. PICK g : g = Stop(job[j], pc)
    OBVIOUS
  <2>2. JobOK(j, g)
    BY <1>0, <1>1, <2>1 DEF JobOK, Stop, Job
  <2>3. job' = [job EXCEPT ![j] = g]
    BY <1>1, <2>1
  <2> QED BY <1>0, <1>1, <2>2, <2>3, JobStep
<1>2. CASE ReadTranscript(j)
  <2>1. PICK said : said = {m \in Rows(job[j].session) : m.text}
    OBVIOUS
  <2>2. CASE said = {}
    <3>1. job' = [job EXCEPT ![j] = Stop(@, "returned")]
      BY <1>2, <2>1, <2>2 DEF ReadTranscript
    <3> QED BY <1>0, <1>1, <1>2, <3>1 DEF ReadTranscript
  <2>3. CASE said # {}
    <3>1. PICK g : g = [job[j] EXCEPT !.pc = "call", !.transcript = said]
      OBVIOUS
    <3>2. job' = [job EXCEPT ![j] = g]
      BY <1>2, <2>1, <2>3, <3>1 DEF ReadTranscript
    <3>3. said \subseteq messages /\ said \subseteq Message
      BY <1>0, <2>1 DEF Rows
    <3>4. /\ g \in Job /\ g.pc = "call" /\ g.session = job[j].session
          /\ g.transcript = said /\ g.facts = job[j].facts
      BY <1>0, <3>1, <3>3 DEF Job
    <3>5. ASSUME j \in Chats
          PROVE  /\ chat[j].pc = "done" /\ g.session = chat[j].session
                 /\ \E m \in g.transcript : m.trace = j /\ m.role = "user"
                 /\ chat[j].text => \E m \in g.transcript : m.trace = j /\ m.role = "assistant"
      <4>1. chat[j].pc = "done" /\ g.session = chat[j].session
        BY <1>0, <1>2, <3>4, <3>5 DEF JobOK, ReadTranscript
      <4>2. Stored(j, chat[j], "user", TRUE) /\ Stored(j, chat[j], "assistant", chat[j].text)
        BY <1>0, <3>5, <4>1 DEF ChatOK
      <4> QED BY <2>1, <3>4, <4>1, <4>2 DEF Stored, Rows
    <3>6. JobOK(j, g)
      BY <1>0, <3>3, <3>4, <3>5 DEF JobOK
    <3> QED BY <1>0, <1>2, <3>2, <3>6, JobStep DEF ReadTranscript
  <2> QED BY <2>2, <2>3
<1>3. CASE Call(j)
  <2>1. PICK facts \in SUBSET job[j].transcript :
          job' = [job EXCEPT ![j] = IF facts = {} THEN Stop(@, "returned")
                                    ELSE [@ EXCEPT !.pc = "write", !.facts = facts]]
    BY <1>3 DEF Call
  <2>2. CASE facts = {}
    <3>1. job' = [job EXCEPT ![j] = Stop(@, "returned")]
      BY <2>1, <2>2
    <3> QED BY <1>0, <1>1, <1>3, <3>1 DEF Call
  <2>3. CASE facts # {}
    <3>1. PICK g : g = [job[j] EXCEPT !.pc = "write", !.facts = facts]
      OBVIOUS
    <3>2. job' = [job EXCEPT ![j] = g]
      BY <2>1, <2>3, <3>1
    <3>3. JobOK(j, g)
      BY <1>0, <1>3, <2>1, <3>1 DEF JobOK, Job, Call
    <3> QED BY <1>0, <1>3, <3>2, <3>3, JobStep DEF Call
  <2> QED BY <2>2, <2>3
<1>4. CASE WriteFact(j)
  <2>1. PICK m \in job[j].facts :
          /\ memories' = memories \cup {[source |-> m, by |-> j]}
          /\ job' = [job EXCEPT ![j] = IF job[j].facts = {m} THEN Stop(job[j], "returned")
                                       ELSE [job[j] EXCEPT !.facts = @ \ {m}]]
    BY <1>4 DEF WriteFact
  <2>2. memories' \subseteq Memory /\ \A n \in memories' : n.source \in messages
    BY <1>0, <2>1 DEF JobOK, Memory
  <2>3. CASE job[j].facts = {m}
    <3>1. job' = [job EXCEPT ![j] = Stop(job[j], "returned")]
      BY <2>1, <2>3
    <3> QED BY <1>0, <1>1, <1>4, <2>2, <3>1 DEF WriteFact
  <2>4. CASE job[j].facts # {m}
    <3>1. PICK g : g = [job[j] EXCEPT !.facts = @ \ {m}]
      OBVIOUS
    <3>2. job' = [job EXCEPT ![j] = g]
      BY <2>1, <2>4, <3>1
    <3>3. JobOK(j, g)
      BY <1>0, <3>1 DEF JobOK, Job
    <3> QED BY <1>0, <1>4, <2>2, <3>2, <3>3, JobStep DEF WriteFact
  <2> QED BY <2>3, <2>4
<1>5. CASE ExtractionFails(j)
  BY <1>0, <1>1, <1>5 DEF ExtractionFails
<1> QED BY <1>2, <1>3, <1>4, <1>5 DEF Extract

LEMMA EndStep ==
  ASSUME Parts, NEW e \in Ends, EndSession(e)
  PROVE  Parts' /\ messages \subseteq messages'
<1>0. /\ e \in Extractions /\ e \notin Chats
      /\ JobOK(e, job[e])
      /\ sessions \in [Sessions -> {"absent", "open", "ended"}]
      /\ memories \subseteq Memory
      /\ \A m \in memories : m.source \in messages
  BY IdsAssumption DEF Parts, Extractions, EvidenceKept
<1>1. PICK s \in Sessions :
        IF sessions[s] = "open"
        THEN /\ sessions' = [sessions EXCEPT ![s] = "ended"]
             /\ StartJob(e, s)
        ELSE /\ job' = [job EXCEPT ![e].pc = "already_ended", ![e].session = s]
             /\ UNCHANGED sessions
  BY DEF EndSession
<1>2. PICK pc \in {"read", "already_ended"} :
        job' = [job EXCEPT ![e].pc = pc, ![e].session = s]
  BY <1>1 DEF StartJob
<1>3. PICK g : g = [job[e] EXCEPT !.pc = pc, !.session = s]
  OBVIOUS
<1>4. JobOK(e, g)
  BY <1>0, <1>3 DEF JobOK, Job
<1>5. job' = [job EXCEPT ![e] = g]
  BY <1>2, <1>3
<1>6. /\ sessions' \in [Sessions -> {"absent", "open", "ended"}]
      /\ \A t \in Sessions : sessions[t] # "absent" => sessions'[t] # "absent"
  BY <1>0, <1>1
<1> QED BY <1>0, <1>4, <1>5, <1>6, JobStep DEF EndSession

LEMMA RestartStep ==
  ASSUME Parts, Restart
  PROVE  Parts' /\ messages \subseteq messages'
<1>1. ASSUME NEW r \in Chats PROVE ChatOK(r, chat[r])'
  <2>1. ChatOK(r, chat[r])
    BY DEF Parts
  <2>2. ASSUME NEW q \in Chats PROVE ~Running(q)'
    <3>1. chat[q] \in Chat
      BY DEF Parts, ChatOK
    <3>2. CASE Running(q)
      <4>1. chat'[q] = Stopped(chat[q], "gone")
        BY <3>2 DEF Restart
      <4> QED BY <3>1, <4>1 DEF Stopped, Chat, Running
    <3>3. CASE ~Running(q)
      BY <3>3 DEF Restart, Running
    <3> QED BY <3>2, <3>3
  <2>3. CASE Running(r)
    BY <2>1, <2>2, <2>3 DEF Restart, Stopped, ChatOK, Chat, Terminal
  <2>4. CASE ~Running(r)
    <3>1. chat'[r] = chat[r] /\ chat[r].pc \in Terminal
      BY <2>4 DEF Restart, Running, Terminal
    <3> QED BY <2>1, <3>1 DEF Restart, ChatOK, Stored, Terminal
  <2> QED BY <2>3, <2>4
<1>2. ASSUME NEW j \in Extractions PROVE JobOK(j, job[j])'
  <2>1. JobOK(j, job[j])
    BY DEF Parts
  <2>2. j \in Chats /\ chat[j].pc = "done" => chat'[j] = chat[j]
    BY DEF Restart, Running
  <2>3. CASE Working(j)
    BY <2>1, <2>2, <2>3 DEF Restart, Working, Stop, JobOK, Job
  <2>4. CASE ~Working(j)
    BY <2>1, <2>2, <2>4 DEF Restart, JobOK
  <2> QED BY <2>3, <2>4
<1> QED BY <1>1, <1>2 DEF Restart, Parts, EvidenceKept, TurnKeepsOneRequest

LEMMA SerialStep ==
  ASSUME Parts, ~Overlap, [Next]_vars
  PROVE  Parts' /\ messages \subseteq messages'
<1>1. CASE UNCHANGED vars
  <2>1. UNCHANGED <<sessions, messages, memories, chat, job>>
    BY <1>1 DEF vars
  <2>2. ASSUME NEW r \in Chats PROVE ChatOK(r, chat[r])'
    <3>1. ChatOK(r, chat[r])
      BY DEF Parts
    <3> QED BY <2>1, <3>1 DEF ChatOK, Stored, Running
  <2>3. ASSUME NEW j \in Extractions PROVE JobOK(j, job[j])'
    <3>1. JobOK(j, job[j])
      BY DEF Parts
    <3> QED BY <2>1, <3>1 DEF JobOK
  <2> QED BY <2>1, <2>2, <2>3 DEF Parts, EvidenceKept, TurnKeepsOneRequest
<1>2. CASE Next
  BY <1>2, TurnStep, EndStep, ExtractStep, RestartStep DEF Next
<1> QED BY <1>1, <1>2

-----------------------------------------------------------------------------
\* SerialInv is an invariant of any number of requests, sessions, extractions
\* and restarts, as long as a session has one chat at a time.
THEOREM SerialInvariant ==
  ASSUME ~Overlap
  PROVE  Spec => []SerialInv
<1>1. Init => Parts
  BY InitSerial, ByRecord
<1>2. Parts /\ [Next]_vars => Parts'
  BY SerialStep
<1> QED BY <1>1, <1>2, ByRecord, PTL DEF Spec

\* A stored message is never replaced.
THEOREM TranscriptNeverRewritten ==
  ASSUME ~Overlap
  PROVE  Spec => TranscriptAppendOnly
<1>1. SerialInv /\ [Next]_vars => [messages \subseteq messages']_vars
  BY SerialStep, ByRecord
<1> QED BY <1>1, SerialInvariant, PTL DEF Spec, TranscriptAppendOnly

\* The question and the answer of a turn are one request's.
THEOREM OneRequestPerTurn ==
  ASSUME ~Overlap
  PROVE  Spec => []TurnKeepsOneRequest
<1>1. SerialInv => TurnKeepsOneRequest
  BY DEF SerialInv
<1> QED BY <1>1, SerialInvariant, PTL

\* What a chat replays has all the finished chats before it said.
THEOREM HistoryIsComplete ==
  ASSUME ~Overlap
  PROVE  Spec => []HistoryComplete
<1>1. SerialInv => HistoryComplete
  <2> SUFFICES ASSUME SerialInv, NEW q \in Chats, NEW r \in Chats,
                      chat[q].pc = "done",
                      chat[r].pc \in {"user", "answer", "persist", "finish"},
                      chat[q].session = chat[r].session, chat[q].turn < chat[r].turn
               PROVE  /\ \E m \in chat[r].history : m.trace = q /\ m.role = "user"
                      /\ chat[q].text =>
                           \E m \in chat[r].history : m.trace = q /\ m.role = "assistant"
    BY DEF HistoryComplete
  <2>1. Stored(q, chat[q], "user", TRUE) /\ Stored(q, chat[q], "assistant", chat[q].text)
    BY DEF SerialInv, SaidIsStored
  <2>2. \A m \in messages :
          m.session = chat[q].session /\ m.turn = chat[q].turn /\ m.text
          => m \in chat[r].history
    BY DEF SerialInv, HistoryCurrent, Rows
  <2> QED BY <2>1, <2>2 DEF Stored
<1> QED BY <1>1, SerialInvariant, PTL

\* A mid-session extraction has read the turn that set it off.
THEOREM TriggerReadsItsTurn ==
  ASSUME ~Overlap
  PROVE  Spec => []TranscriptComplete
<1>1. SerialInv => TranscriptComplete
  BY DEF SerialInv
<1> QED BY <1>1, SerialInvariant, PTL

-----------------------------------------------------------------------------
\* The message a memory was made from still says it.
THEOREM EvidenceIsKept ==
  ASSUME ~Overlap
  PROVE  Spec => []EvidenceKept
<1>1. SerialInv => EvidenceKept
  BY DEF SerialInv
<1> QED BY <1>1, SerialInvariant, PTL

\* Types, and what EndSession keeps, with any number of chats on a session.
RunningHasSession == \A r \in Chats : Running(r) => chat[r].session \in Sessions

AnyInv ==
  /\ TypeOK
  /\ RunningHasSession
  /\ EndOwnsSession
  /\ EndExtractsOnce

\* The upsert inserts a row of the table's shape or replaces one by one.
LEMMA PersistType ==
  ASSUME TypeOK, RunningHasSession, NEW r \in Chats, Running(r),
         NEW role \in {"user", "assistant"}, NEW text \in BOOLEAN, Persist(r, role, text)
  PROVE  messages' \subseteq Message
<1>1. PICK row : row = [id |-> r, session |-> chat[r].session, turn |-> chat[r].turn,
                        role |-> role, trace |-> r, text |-> text]
  OBVIOUS
<1>2. PICK key : key = {m \in Rows(chat[r].session) : m.turn = chat[r].turn /\ m.role = role}
  OBVIOUS
<1>3. chat[r].session \in Sessions /\ chat[r].turn \in Nat
  BY DEF RunningHasSession, TypeOK, Chat
<1>4. row \in Message
  BY <1>1, <1>3 DEF Message
<1>5. \A m \in key : m.id \in Chats
  BY <1>2 DEF Rows, TypeOK, Message
<1>6. \A m \in key : [row EXCEPT !.id = m.id] \in Message
  BY <1>4, <1>5 DEF Message
<1>7. messages' = IF key = {} THEN messages \cup {row}
                  ELSE (messages \ key) \cup {[row EXCEPT !.id = m.id] : m \in key}
  BY <1>1, <1>2 DEF Persist
<1> QED BY <1>4, <1>6, <1>7 DEF TypeOK

\* A step of a chat gives it a record of the right shape, on a session when
\* it runs, and touches no end call.
LEMMA AnyTurn ==
  ASSUME AnyInv, NEW r \in Chats, Turn(r)
  PROVE  AnyInv'
<1>0. /\ chat \in [Chats -> Chat] /\ job \in [Extractions -> Job]
      /\ sessions \in [Sessions -> {"absent", "open", "ended"}]
      /\ messages \subseteq Message /\ memories \subseteq Memory
      /\ r \in Extractions /\ r \notin Ends
      /\ chat[r] \in Chat
      /\ Running(r) => chat[r].session \in Sessions
  BY IdsAssumption DEF AnyInv, TypeOK, RunningHasSession, Extractions
<1>1. PICK c : c = chat'[r]
  OBVIOUS
<1>2. /\ c \in Chat
      /\ c.pc \notin Terminal => c.session \in Sessions
      /\ chat' = [chat EXCEPT ![r] = c]
  <2>1. ASSUME NEW pc \in {"error", "broken", "gone", "done"},
               chat' = [chat EXCEPT ![r] = Stopped(@, pc)]
        PROVE  /\ c \in Chat /\ c.pc \in Terminal
               /\ chat' = [chat EXCEPT ![r] = c]
    <3>1. c = Stopped(chat[r], pc)
      BY <1>0, <1>1, <2>1
    <3> QED BY <1>0, <2>1, <3>1 DEF Stopped, Chat, Terminal
  <2>2. ASSUME NEW s \in Sessions,
               chat' = [chat EXCEPT ![r].pc = "history", ![r].session = s]
        PROVE  /\ c \in Chat /\ c.session \in Sessions
               /\ chat' = [chat EXCEPT ![r] = c]
    <3>1. c = [chat[r] EXCEPT !.pc = "history", !.session = s]
      BY <1>0, <1>1, <2>2
    <3> QED BY <1>0, <2>2, <3>1 DEF Chat
  <2>3. ASSUME Running(r), NEW pc \in {"answer", "finish"},
               chat' = [chat EXCEPT ![r].pc = pc]
        PROVE  /\ c \in Chat /\ c.session \in Sessions
               /\ chat' = [chat EXCEPT ![r] = c]
    <3>1. c = [chat[r] EXCEPT !.pc = pc]
      BY <1>0, <1>1, <2>3
    <3> QED BY <1>0, <2>3, <3>1 DEF Chat
  <2>4. CASE Resume(r) \/ Open(r)
    BY <2>2, <2>4 DEF Resume, Open
  <2>5. CASE SessionNotFound(r)
    <3>1. c = [chat[r] EXCEPT !.pc = "error"] /\ chat' = [chat EXCEPT ![r].pc = "error"]
      BY <1>0, <1>1, <2>5 DEF SessionNotFound
    <3> QED BY <1>0, <3>1 DEF Chat, Terminal
  <2>6. CASE ReadHistory(r)
    <3>1. PICK n \in NextTurns(chat[r].session) :
            chat' = [chat EXCEPT ![r].pc = "user", ![r].turn = n,
                       ![r].history = {m \in Rows(chat[r].session) : m.text}]
      BY <2>6 DEF ReadHistory
    <3>2. PICK h : h = {m \in Rows(chat[r].session) : m.text}
      OBVIOUS
    <3>3. n \in Nat /\ h \subseteq Message
      BY <1>0, <3>2 DEF NextTurns, Rows, Message
    <3>4. c = [chat[r] EXCEPT !.pc = "user", !.turn = n, !.history = h]
      BY <1>0, <1>1, <3>1, <3>2
    <3>5. chat[r].session \in Sessions
      BY <1>0, <2>6 DEF ReadHistory, Running
    <3> QED BY <1>0, <3>1, <3>2, <3>3, <3>4, <3>5 DEF Chat
  <2>7. CASE PersistQuestion(r) \/ PersistAnswer(r)
    BY <2>3, <2>7 DEF PersistQuestion, PersistAnswer, Running
  <2>8. CASE Answer(r)
    <3>1. PICK text \in BOOLEAN : chat' = [chat EXCEPT ![r].pc = "persist", ![r].text = text]
      BY <2>8 DEF Answer
    <3>2. c = [chat[r] EXCEPT !.pc = "persist", !.text = text]
      BY <1>0, <1>1, <3>1
    <3>3. chat[r].session \in Sessions
      BY <1>0, <2>8 DEF Answer, Running
    <3> QED BY <1>0, <3>1, <3>2, <3>3 DEF Chat
  <2>9. CASE AnswerFails(r) \/ Finish(r) \/ Break(r) \/ Disconnect(r)
    BY <2>1, <2>9 DEF AnswerFails, Finish, Break, Disconnect
  <2> QED BY <2>4, <2>5, <2>6, <2>7, <2>8, <2>9 DEF Turn
<1>3. /\ job' \in [Extractions -> Job]
      /\ \A e \in Ends : job'[e] = job[e]
      /\ sessions' \in [Sessions -> {"absent", "open", "ended"}]
      /\ \A s \in Sessions : sessions[s] = "ended" => sessions'[s] = "ended"
      /\ memories' = memories
  <2>1. CASE Open(r)
    BY <1>0, <2>1 DEF Open
  <2>2. CASE Finish(r)
    <3>1. chat[r].session \in Sessions
      BY <1>0, <2>2 DEF Finish, Running
    <3>2. PICK g : g = [job[r] EXCEPT !.pc = "read", !.session = chat[r].session]
      OBVIOUS
    <3>3. g \in Job
      BY <1>0, <3>1, <3>2 DEF Job
    <3>4. job' = job \/ job' = [job EXCEPT ![r] = g]
      BY <2>2, <3>2 DEF Finish, StartJob
    <3>5. job' \in [Extractions -> Job] /\ \A e \in Ends : job'[e] = job[e]
      <4>1. \A e \in Ends : e \in Extractions /\ e # r
        BY <1>0 DEF Extractions
      <4>2. CASE job' = job
        BY <1>0, <4>2
      <4>3. CASE job' = [job EXCEPT ![r] = g]
        BY <1>0, <3>3, <4>1, <4>3
      <4> QED BY <3>4, <4>2, <4>3
    <3> QED BY <1>0, <2>2, <3>5 DEF Finish
  <2>3. CASE ~Open(r) /\ ~Finish(r)
    BY <1>0, <2>3 DEF Turn, Resume, SessionNotFound, ReadHistory, PersistQuestion,
       Answer, AnswerFails, PersistAnswer, Break, Disconnect
  <2> QED BY <2>1, <2>2, <2>3
<1>4. messages' \subseteq Message
  <2>1. CASE PersistQuestion(r)
    BY <2>1, PersistType DEF PersistQuestion, AnyInv, Running
  <2>2. CASE PersistAnswer(r)
    BY <1>0, <2>2, PersistType DEF PersistAnswer, AnyInv, Running, Chat
  <2>3. CASE ~PersistQuestion(r) /\ ~PersistAnswer(r)
    BY <1>0, <2>3 DEF Turn, Resume, Open, SessionNotFound, ReadHistory,
       Answer, AnswerFails, Finish, Break, Disconnect
  <2> QED BY <2>1, <2>2, <2>3
<1>5. RunningHasSession'
  BY <1>0, <1>2 DEF AnyInv, RunningHasSession, Running, Terminal
<1>6. TypeOK'
  BY <1>0, <1>2, <1>3, <1>4 DEF TypeOK
<1> QED BY <1>3, <1>5, <1>6 DEF AnyInv, EndOwnsSession, EndExtractsOnce

LEMMA AnyEnd ==
  ASSUME AnyInv, NEW e \in Ends, EndSession(e)
  PROVE  AnyInv'
<1>0. /\ job \in [Extractions -> Job] /\ e \in Extractions /\ Ends \subseteq Extractions
      /\ sessions \in [Sessions -> {"absent", "open", "ended"}]
  BY DEF AnyInv, TypeOK, Extractions
<1>1. PICK s \in Sessions :
        IF sessions[s] = "open"
        THEN /\ sessions' = [sessions EXCEPT ![s] = "ended"]
             /\ StartJob(e, s)
        ELSE /\ job' = [job EXCEPT ![e].pc = "already_ended", ![e].session = s]
             /\ UNCHANGED sessions
  BY DEF EndSession
<1>2. PICK pc \in {"read", "already_ended"} :
        /\ job' = [job EXCEPT ![e].pc = pc, ![e].session = s]
        /\ pc = "read" => sessions[s] = "open" /\ sessions'[s] = "ended"
        /\ sessions' \in [Sessions -> {"absent", "open", "ended"}]
        /\ \A t \in Sessions : sessions[t] = "ended" => sessions'[t] = "ended"
  BY <1>0, <1>1 DEF StartJob
<1>3. PICK g : g = [job[e] EXCEPT !.pc = pc, !.session = s]
  OBVIOUS
<1>4. g \in Job /\ g.pc = pc /\ g.session = s
  BY <1>0, <1>3 DEF Job
<1>9. job' = [job EXCEPT ![e] = g]
  BY <1>2, <1>3
<1>10. /\ job'[e] = g
       /\ \A d \in Ends \ {e} : job'[d] = job[d]
       /\ job' \in [Extractions -> Job]
  BY <1>0, <1>4, <1>9
<1>5. UNCHANGED <<messages, memories, chat>>
  BY DEF EndSession
<1>6. TypeOK' /\ RunningHasSession'
  BY <1>2, <1>10, <1>5 DEF AnyInv, TypeOK, RunningHasSession, Running
<1>7. EndOwnsSession'
  BY <1>2, <1>4, <1>10 DEF AnyInv, EndOwnsSession
<1>8. EndExtractsOnce'
  <2>1. \A d \in Ends \ {e} :
          job[d].pc \notin {"none", "already_ended"} /\ pc = "read" => job[d].session # s
    BY <1>2 DEF AnyInv, EndOwnsSession
  <2>2. ASSUME NEW d \in Ends, NEW f \in Ends,
               job'[d].pc \notin {"none", "already_ended"},
               job'[f].pc \notin {"none", "already_ended"},
               job'[d].session = job'[f].session, d # f
        PROVE  FALSE
    <3>1. CASE d = e
      BY <1>4, <1>10, <2>1, <2>2, <3>1
    <3>2. CASE f = e
      BY <1>4, <1>10, <2>1, <2>2, <3>2
    <3>3. CASE d # e /\ f # e
      BY <1>10, <2>2, <3>3 DEF AnyInv, EndExtractsOnce
    <3> QED BY <3>1, <3>2, <3>3
  <2> QED BY <2>2 DEF EndExtractsOnce
<1> QED BY <1>6, <1>7, <1>8 DEF AnyInv

LEMMA AnyExtract ==
  ASSUME AnyInv, NEW j \in Extractions, Extract(j)
  PROVE  AnyInv'
<1>0. /\ job \in [Extractions -> Job] /\ job[j] \in Job /\ Ends \subseteq Extractions
      /\ messages \subseteq Message /\ memories \subseteq Memory
  BY DEF AnyInv, TypeOK, Extractions
<1>1. PICK g :
        /\ g \in Job /\ g.session = job[j].session
        /\ job' = [job EXCEPT ![j] = g]
  <2>1. ASSUME NEW pc \in {"returned", "lost"}
        PROVE  Stop(job[j], pc) \in Job /\ Stop(job[j], pc).session = job[j].session
    BY <1>0 DEF Stop, Job
  <2>2. CASE ReadTranscript(j)
    <3>1. PICK said : said = {m \in Rows(job[j].session) : m.text}
      OBVIOUS
    <3>2. [job[j] EXCEPT !.pc = "call", !.transcript = said] \in Job
      BY <1>0, <3>1 DEF Rows, Job
    <3>3. [job[j] EXCEPT !.pc = "call", !.transcript = said].session = job[j].session
      BY <1>0 DEF Job
    <3>4. CASE said = {}
      <4>1. job' = [job EXCEPT ![j] = Stop(job[j], "returned")]
        BY <2>2, <3>1, <3>4 DEF ReadTranscript
      <4> QED BY <2>1, <4>1
    <3>5. CASE said # {}
      <4>1. job' = [job EXCEPT ![j] = [job[j] EXCEPT !.pc = "call", !.transcript = said]]
        BY <2>2, <3>1, <3>5 DEF ReadTranscript
      <4> QED BY <3>2, <3>3, <4>1
    <3> QED BY <3>4, <3>5
  <2>3. CASE Call(j)
    <3>1. PICK facts \in SUBSET job[j].transcript :
            job' = [job EXCEPT ![j] = IF facts = {} THEN Stop(job[j], "returned")
                                      ELSE [job[j] EXCEPT !.pc = "write", !.facts = facts]]
      BY <2>3 DEF Call
    <3>2. /\ [job[j] EXCEPT !.pc = "write", !.facts = facts] \in Job
          /\ [job[j] EXCEPT !.pc = "write", !.facts = facts].session = job[j].session
      BY <1>0 DEF Job
    <3>3. CASE facts = {}
      BY <2>1, <3>1, <3>3
    <3>4. CASE facts # {}
      BY <3>1, <3>2, <3>4
    <3> QED BY <3>3, <3>4
  <2>4. CASE WriteFact(j)
    <3>1. PICK m \in job[j].facts :
            job' = [job EXCEPT ![j] = IF job[j].facts = {m} THEN Stop(job[j], "returned")
                                      ELSE [job[j] EXCEPT !.facts = @ \ {m}]]
      BY <2>4 DEF WriteFact
    <3>2. /\ [job[j] EXCEPT !.facts = @ \ {m}] \in Job
          /\ [job[j] EXCEPT !.facts = @ \ {m}].session = job[j].session
      BY <1>0 DEF Job
    <3> QED BY <2>1, <3>1, <3>2
  <2>5. CASE ExtractionFails(j)
    BY <2>1, <2>5 DEF ExtractionFails
  <2> QED BY <2>2, <2>3, <2>4, <2>5 DEF Extract
<1>2. job[j].pc \notin {"none", "already_ended"}
  BY DEF Extract, ReadTranscript, Call, WriteFact, ExtractionFails
<1>3. UNCHANGED <<sessions, messages, chat>>
  BY DEF Extract, ReadTranscript, Call, WriteFact, ExtractionFails
<1>4. memories' \subseteq Memory
  <2>1. CASE WriteFact(j)
    BY <1>0, <2>1 DEF WriteFact, Memory, Job
  <2>2. CASE ~WriteFact(j)
    BY <1>0, <2>2 DEF Extract, ReadTranscript, Call, ExtractionFails
  <2> QED BY <2>1, <2>2
<1>5. TypeOK' /\ RunningHasSession'
  BY <1>0, <1>1, <1>3, <1>4 DEF AnyInv, TypeOK, RunningHasSession, Running
<1> QED BY <1>0, <1>1, <1>2, <1>3, <1>5 DEF AnyInv, EndOwnsSession, EndExtractsOnce

LEMMA AnyRestart ==
  ASSUME AnyInv, Restart
  PROVE  AnyInv'
<1>0. /\ chat \in [Chats -> Chat] /\ job \in [Extractions -> Job] /\ Ends \subseteq Extractions
  BY DEF AnyInv, TypeOK, Extractions
<1>1. \A r \in Chats : Stopped(chat[r], "gone") \in Chat /\ Stopped(chat[r], "gone").pc = "gone"
  BY <1>0 DEF Stopped, Chat
<1>2. \A j \in Extractions :
        Stop(job[j], "lost") \in Job /\ Stop(job[j], "lost").session = job[j].session
  BY <1>0 DEF Stop, Job
<1>3. chat' \in [Chats -> Chat] /\ job' \in [Extractions -> Job]
  BY <1>0, <1>1, <1>2 DEF Restart
<1>4. \A r \in Chats : ~Running(r)'
  BY <1>1 DEF Restart, Running
<1>5. \A j \in Extractions :
        /\ job'[j].session = job[j].session
        /\ job'[j].pc \notin {"none", "already_ended"} =>
             job[j].pc \notin {"none", "already_ended"}
  BY <1>2 DEF Restart, Working
<1> QED BY <1>0, <1>3, <1>4, <1>5
     DEF Restart, AnyInv, TypeOK, RunningHasSession, EndOwnsSession, EndExtractsOnce

LEMMA AnyInvariant == Spec => []AnyInv
<1>1. Init => AnyInv
  BY IdsAssumption DEF Init, AnyInv, TypeOK, Chat, Job, RunningHasSession, Running,
     EndOwnsSession, EndExtractsOnce, Extractions
<1>2. AnyInv /\ [Next]_vars => AnyInv'
  <2> SUFFICES ASSUME AnyInv, [Next]_vars PROVE AnyInv'
    OBVIOUS
  <2>1. CASE UNCHANGED vars
    BY <2>1 DEF vars, AnyInv, TypeOK, RunningHasSession, Running, EndOwnsSession, EndExtractsOnce
  <2>2. CASE Next
    BY <2>2, AnyTurn, AnyEnd, AnyExtract, AnyRestart DEF Next
  <2> QED BY <2>1, <2>2
<1> QED BY <1>1, <1>2, PTL DEF Spec

\* Every reachable state has the shapes of TypeOK.
THEOREM ConversationTypes == Spec => []TypeOK
<1>1. AnyInv => TypeOK
  BY DEF AnyInv
<1> QED BY <1>1, AnyInvariant, PTL

\* However the calls that end a session overlap or repeat, one extracts.
THEOREM EndIsExtractedOnce == Spec => []EndExtractsOnce
<1>1. AnyInv => EndExtractsOnce
  BY DEF AnyInv
<1> QED BY <1>1, AnyInvariant, PTL

-----------------------------------------------------------------------------
\* A question of the session is stored under the turn.
Asked(s, n) == \E q \in messages : q.session = s /\ q.turn = n /\ q.role = "user"

\* What makes TurnsContiguous inductive: below the turn of a running chat every
\* turn has its question, and so has its own once it has persisted it.
NoGap(r, c) ==
  /\ c.pc = "user" => \A n \in 0..(c.turn - 1) : Asked(c.session, n)
  /\ c.pc \in {"answer", "persist"} => \A n \in 0..c.turn : Asked(c.session, n)

TurnInv == TurnsContiguous /\ \A r \in Chats : NoGap(r, chat[r])

\* The upsert leaves every key in the table and adds at most its own.
LEMMA PersistKeys ==
  ASSUME TypeOK, NEW r \in Chats, NEW role \in {"user", "assistant"},
         NEW text \in BOOLEAN, Persist(r, role, text)
  PROVE  /\ \A s, n : Asked(s, n) => Asked(s, n)'
         /\ role = "user" => \A s, n : s = chat[r].session /\ n = chat[r].turn => Asked(s, n)'
         /\ \A m \in messages' :
              \/ m.session = chat[r].session /\ m.turn = chat[r].turn
              \/ \E q \in messages : q.session = m.session /\ q.turn = m.turn
<1>1. PICK row : row = [id |-> r, session |-> chat[r].session, turn |-> chat[r].turn,
                        role |-> role, trace |-> r, text |-> text]
  OBVIOUS
<1>2. PICK key : key = {m \in Rows(chat[r].session) : m.turn = chat[r].turn /\ m.role = role}
  OBVIOUS
<1>3. messages' = IF key = {} THEN messages \cup {row}
                  ELSE (messages \ key) \cup {[row EXCEPT !.id = m.id] : m \in key}
  BY <1>1, <1>2 DEF Persist
<1>4. row.session = chat[r].session /\ row.turn = chat[r].turn /\ row.role = role
  BY <1>1
<1>5. \A m : LET new == [row EXCEPT !.id = m.id] IN
        new.session = chat[r].session /\ new.turn = chat[r].turn /\ new.role = role
  BY <1>1
<1>6. \A m \in key : m.session = chat[r].session /\ m.turn = chat[r].turn /\ m.role = role
  BY <1>2 DEF Rows
<1>7. \E m \in messages' :
        m.session = chat[r].session /\ m.turn = chat[r].turn /\ m.role = role
  <2>1. CASE key = {}
    BY <1>3, <1>4, <2>1
  <2>2. CASE key # {}
    <3>1. PICK m \in key : TRUE
      BY <2>2
    <3>2. [row EXCEPT !.id = m.id] \in messages'
      BY <1>3, <3>1
    <3> QED BY <1>5, <3>2
  <2> QED BY <2>1, <2>2
<1>8. \A s, n : Asked(s, n) => Asked(s, n)'
  <2> SUFFICES ASSUME NEW s, NEW n, NEW q \in messages,
                      q.session = s, q.turn = n, q.role = "user"
               PROVE  \E m \in messages' : m.session = s /\ m.turn = n /\ m.role = "user"
    BY DEF Asked
  <2>1. CASE q \in key
    BY <1>6, <1>7, <2>1
  <2>2. CASE q \notin key
    BY <1>3, <2>2
  <2> QED BY <2>1, <2>2
<1>9. \A m \in messages' : \/ m \in messages
                           \/ m.session = chat[r].session /\ m.turn = chat[r].turn
  BY <1>3, <1>4, <1>5
<1>10. role = "user" => \A s, n : s = chat[r].session /\ n = chat[r].turn => Asked(s, n)'
  BY <1>7 DEF Asked
<1>11. \A m \in messages : \E q \in messages : q.session = m.session /\ q.turn = m.turn
  OBVIOUS
<1> HIDE DEF Asked
<1> QED BY <1>8, <1>9, <1>10, <1>11

\* Turns stay without a gap when no key is lost, and one that is new is the
\* next of its session or one it has.
LEMMA TurnsStay ==
  ASSUME TypeOK, TurnInv, NEW r \in Chats, NEW c, chat' = [chat EXCEPT ![r] = c],
         \A s, n : Asked(s, n) => Asked(s, n)',
         \A m \in messages' :
           \/ \A n \in 0..m.turn : Asked(m.session, n)'
           \/ \E q \in messages : q.session = m.session /\ q.turn = m.turn,
         NoGap(r, c)'
  PROVE  TurnInv'
<1>0. \A m \in messages : \A n \in 0..m.turn : Asked(m.session, n)
  BY DEF TurnInv, TurnsContiguous, Asked
<1>1. \A m \in messages' : \A n \in 0..m.turn : Asked(m.session, n)'
  BY <1>0
<1>2. \A q \in Chats : chat'[q] = IF q = r THEN c ELSE chat[q]
  BY DEF TypeOK
<1>3. \A q \in Chats : NoGap(q, chat[q])'
  <2>1. \A q, d : NoGap(q, d) => NoGap(q, d)'
    BY DEF NoGap
  <2> QED BY <1>2, <2>1 DEF TurnInv
<1> QED BY <1>1, <1>3 DEF TurnInv, TurnsContiguous, Asked

LEMMA TurnKeepsOrder ==
  ASSUME AnyInv, TurnInv, NEW r \in Chats, Turn(r)
  PROVE  TurnInv'
<1> USE DEF AnyInv
<1>0. chat \in [Chats -> Chat] /\ chat[r] \in Chat /\ messages \subseteq Message
  BY DEF TypeOK
<1>1. NoGap(r, chat[r])
  BY DEF TurnInv
<1>2. CASE PersistQuestion(r)
  <2>1. Persist(r, "user", TRUE) /\ chat[r].pc = "user"
    BY <1>2 DEF PersistQuestion
  <2>2. PICK c : c = [chat[r] EXCEPT !.pc = "answer"]
    OBVIOUS
  <2>3. chat' = [chat EXCEPT ![r] = c]
    BY <1>0, <1>2, <2>2 DEF PersistQuestion
  <2>4. c.pc = "answer" /\ c.turn = chat[r].turn /\ c.session = chat[r].session
    BY <1>0, <2>2 DEF Chat
  <2>5. \A n \in 0..c.turn : Asked(c.session, n)'
    <3>1. \A n \in 0..c.turn : n \in 0..(c.turn - 1) \/ n = c.turn
      BY <1>0, <2>4 DEF Chat
    <3>2. \A n \in 0..(c.turn - 1) : Asked(c.session, n)
      BY <1>1, <2>1, <2>4 DEF NoGap
    <3>3. /\ \A s, n : Asked(s, n) => Asked(s, n)'
          /\ \A s, n : s = c.session /\ n = c.turn => Asked(s, n)'
      BY <1>0, <2>1, <2>4, PersistKeys
    <3> QED BY <3>1, <3>2, <3>3
  <2>6. NoGap(r, c)'
    BY <2>4, <2>5 DEF NoGap
  <2>7. \A m \in messages' :
          \/ \A n \in 0..m.turn : Asked(m.session, n)'
          \/ \E q \in messages : q.session = m.session /\ q.turn = m.turn
    BY <2>1, <2>4, <2>5, PersistKeys
  <2> QED BY <2>1, <2>3, <2>6, <2>7, PersistKeys, TurnsStay
<1>3. CASE PersistAnswer(r)
  <2>1. Persist(r, "assistant", chat[r].text) /\ chat[r].pc = "persist" /\ chat[r].text \in BOOLEAN
    BY <1>0, <1>3 DEF PersistAnswer, Chat
  <2>2. PICK c : c = [chat[r] EXCEPT !.pc = "finish"]
    OBVIOUS
  <2>3. chat' = [chat EXCEPT ![r] = c]
    BY <1>0, <1>3, <2>2 DEF PersistAnswer
  <2>4. NoGap(r, c)'
    BY <1>0, <2>2 DEF NoGap, Chat
  <2>5. c.turn = chat[r].turn /\ c.session = chat[r].session
    BY <1>0, <2>2 DEF Chat
  <2>6. \A n \in 0..c.turn : Asked(c.session, n)'
    <3>1. \A n \in 0..c.turn : Asked(c.session, n)
      BY <1>1, <2>1, <2>5 DEF NoGap
    <3> QED BY <2>1, <3>1, PersistKeys
  <2>7. \A m \in messages' :
          \/ \A n \in 0..m.turn : Asked(m.session, n)'
          \/ \E q \in messages : q.session = m.session /\ q.turn = m.turn
    BY <2>1, <2>6, <2>5, PersistKeys
  <2> QED BY <2>1, <2>3, <2>4, <2>7, PersistKeys, TurnsStay
<1>4. CASE ReadHistory(r)
  <2>1. PICK n \in NextTurns(chat[r].session) :
          chat' = [chat EXCEPT ![r].pc = "user", ![r].turn = n,
                     ![r].history = {m \in Rows(chat[r].session) : m.text}]
    BY <1>4 DEF ReadHistory
  <2>2. PICK h : h = {m \in Rows(chat[r].session) : m.text}
    OBVIOUS
  <2>3. PICK c : c = [chat[r] EXCEPT !.pc = "user", !.turn = n, !.history = h]
    OBVIOUS
  <2>4. chat' = [chat EXCEPT ![r] = c]
    BY <1>0, <2>1, <2>2, <2>3
  <2>5. c.pc = "user" /\ c.turn = n /\ c.session = chat[r].session
    BY <1>0, <2>3 DEF Chat
  <2>6. messages' = messages
    BY <1>4 DEF ReadHistory
  <2>7. \A k \in 0..(n - 1) : Asked(chat[r].session, k)
    <3>1. CASE n = 0
      BY <3>1
    <3>2. CASE n # 0
      <4>1. PICK m \in messages : m.session = chat[r].session /\ n = m.turn + 1
        BY <3>2 DEF NextTurns, Rows
      <4>2. m.turn \in Nat /\ n - 1 = m.turn
        BY <1>0, <4>1 DEF Message
      <4> QED BY <4>1, <4>2 DEF TurnInv, TurnsContiguous, Asked
    <3> QED BY <3>1, <3>2
  <2>8. NoGap(r, c)'
    BY <2>5, <2>6, <2>7 DEF NoGap, Asked
  <2>9. \A s, k : Asked(s, k) => Asked(s, k)'
    BY <2>6 DEF Asked
  <2> QED BY <2>4, <2>6, <2>8, <2>9, TurnsStay
<1>5. CASE ~PersistQuestion(r) /\ ~PersistAnswer(r) /\ ~ReadHistory(r)
  <2>1. messages' = messages
    BY <1>5 DEF Turn, Resume, Open, SessionNotFound, Answer, AnswerFails, Finish, Break, Disconnect
  <2>2. \A s, k : Asked(s, k)' <=> Asked(s, k)
    BY <2>1 DEF Asked
  <2>3. PICK c : c = chat'[r]
    OBVIOUS
  <2>4. ASSUME NEW pc \in {"error", "broken", "gone", "done"},
               chat' = [chat EXCEPT ![r] = Stopped(@, pc)]
        PROVE  chat' = [chat EXCEPT ![r] = c] /\ NoGap(r, c)'
    <3>1. c = Stopped(chat[r], pc)
      BY <1>0, <2>3, <2>4
    <3> QED BY <1>0, <2>4, <3>1 DEF Stopped, Chat, NoGap
  <2>5. CASE Resume(r) \/ Open(r)
    <3>1. PICK s \in Sessions : chat' = [chat EXCEPT ![r].pc = "history", ![r].session = s]
      BY <2>5 DEF Resume, Open
    <3>2. c = [chat[r] EXCEPT !.pc = "history", !.session = s]
      BY <1>0, <2>3, <3>1
    <3>3. c.pc = "history" /\ chat' = [chat EXCEPT ![r] = c]
      BY <1>0, <3>1, <3>2 DEF Chat
    <3>4. NoGap(r, c)'
      BY <3>3 DEF NoGap
    <3> QED BY <2>1, <2>2, <3>3, <3>4, TurnsStay
  <2>6. CASE SessionNotFound(r)
    <3>1. c = [chat[r] EXCEPT !.pc = "error"] /\ chat' = [chat EXCEPT ![r].pc = "error"]
      BY <1>0, <2>3, <2>6 DEF SessionNotFound
    <3>2. c.pc = "error" /\ chat' = [chat EXCEPT ![r] = c]
      BY <1>0, <3>1 DEF Chat
    <3>3. NoGap(r, c)'
      BY <3>2 DEF NoGap
    <3> QED BY <2>1, <2>2, <3>2, <3>3, TurnsStay
  <2>7. CASE Answer(r)
    <3>1. PICK text \in BOOLEAN : chat' = [chat EXCEPT ![r].pc = "persist", ![r].text = text]
      BY <2>7 DEF Answer
    <3>2. c = [chat[r] EXCEPT !.pc = "persist", !.text = text]
      BY <1>0, <2>3, <3>1
    <3>3. /\ c.pc = "persist" /\ c.turn = chat[r].turn /\ c.session = chat[r].session
          /\ chat' = [chat EXCEPT ![r] = c]
      BY <1>0, <3>1, <3>2 DEF Chat
    <3>4. NoGap(r, c)'
      BY <1>1, <2>2, <2>7, <3>3 DEF NoGap, Answer
    <3> QED BY <2>1, <2>2, <3>3, <3>4, TurnsStay
  <2>8. CASE AnswerFails(r) \/ Finish(r) \/ Break(r) \/ Disconnect(r)
    <3>1. chat' = [chat EXCEPT ![r] = c] /\ NoGap(r, c)'
      BY <2>4, <2>8 DEF AnswerFails, Finish, Break, Disconnect
    <3> QED BY <2>1, <2>2, <3>1, TurnsStay
  <2> QED BY <1>5, <2>5, <2>6, <2>7, <2>8 DEF Turn
<1> QED BY <1>2, <1>3, <1>4, <1>5

LEMMA TurnInvStep ==
  ASSUME AnyInv, TurnInv, [Next]_vars
  PROVE  TurnInv'
<1>1. CASE \E r \in Chats : Turn(r)
  BY <1>1, TurnKeepsOrder
<1>2. CASE UNCHANGED <<messages, chat>>
  BY <1>2 DEF TurnInv, TurnsContiguous, NoGap, Asked
<1>3. CASE Restart
  <2>1. messages' = messages /\ \A r \in Chats : ~Running(r)'
    BY <1>3 DEF Restart, Running, Stopped, AnyInv, TypeOK, Chat
  <2> QED BY <2>1 DEF TurnInv, TurnsContiguous, NoGap, Asked, Running
<1> QED
  BY <1>1, <1>2, <1>3 DEF Next, vars, EndSession, Extract, ReadTranscript, Call, WriteFact,
     ExtractionFails

\* With any number of chats on a session at a time, and requests that stop
\* anywhere, turns are numbered without a gap from their first question on
\* (_history, _persist).
THEOREM TurnsAreContiguous == Spec => []TurnsContiguous
<1>1. Init => TurnInv
  BY DEF Init, TurnInv, TurnsContiguous, NoGap
<1>2. AnyInv /\ TurnInv /\ [Next]_vars => TurnInv'
  BY TurnInvStep
<1>3. TurnInv => TurnsContiguous
  BY DEF TurnInv
<1> QED BY <1>1, <1>2, <1>3, AnyInvariant, PTL DEF Spec
=============================================================================
