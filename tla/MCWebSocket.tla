---------------------------- MODULE MCWebSocket -----------------------------
(* Two connections of one user who has more notifications than fit into a  *)
(* send channel.                                                           *)
EXTENDS WebSocket

CONSTANTS c1, c2, u1, NoteCount

OneUser == [c \in Client |-> u1]
Stored == [u \in User |-> NoteCount]
=============================================================================
