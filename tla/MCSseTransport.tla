--------------------------- MODULE MCSseTransport ---------------------------
(* Instances of SseTransport for TLC. *)
EXTENDS SseTransport

CONSTANTS c1, c2, p1, p2

MCConns == {c1, c2}
MCPosts == {p1, p2}
MCIds == {0, 1}
=============================================================================
