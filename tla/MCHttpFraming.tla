---------------------------- MODULE MCHttpFraming ----------------------------
(* An instance of HttpFraming for TLC. *)
EXTENDS HttpFraming

(* No body, a short one, and a length atol reads as negative.  *)
MCLengths == {0, 2, -1}
=============================================================================
