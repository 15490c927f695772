--------------------------- MODULE MCConversation ---------------------------
(***************************************************************************)
(* Small instances of Conversation for TLC.                                *)
(***************************************************************************)
EXTENDS Conversation

\* Requests of a kind are interchangeable, and so are sessions.
ConversationSymmetry ==
  Permutations(Sessions) \cup Permutations(Chats) \cup Permutations(Ends)
=============================================================================
