----------------------------- MODULE MCPollFeed -----------------------------
(* PollFeed instantiated for TLC. *)
EXTENDS PollFeed

\* Two events and one chat message.
MCMaxId == [t \in Tables |-> IF t = "chat" THEN 1 ELSE 2]
=============================================================================
