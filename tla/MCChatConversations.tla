-------------------------- MODULE MCChatConversations --------------------------
(* Small instances of ChatConversations: up to two chats and two agents.     *)
EXTENDS ChatConversations, TLC

CONSTANTS c1, c2, a1, a2, k1, k2

OneEach == [a \in Agents |-> 1]

\* Chats are interchangeable, and so are the keys of messages.
Swap == Permutations(Conversations) \cup Permutations(Keys)
=============================================================================
