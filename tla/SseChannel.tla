----------------------------- MODULE SseChannel -----------------------------
(***************************************************************************)
(* What the SSE transport promises to one client, with no threads, locks   *)
(* or session table in it: a channel per GET /sse connection.  A response  *)
(* accepted while the channel is open joins the channel's backlog; the     *)
(* backlog leaves in order, one message at a time, and nothing else ever   *)
(* reaches the client.  Only closing the channel loses messages: what the  *)
(* backlog holds at that moment and what is accepted afterwards.           *)
(***************************************************************************)
EXTENDS Sequences

CONSTANTS Channels,  \* one per GET /sse connection
          Messages   \* one per response produced for a POST /message

VARIABLES phase,     \* phase[c]: the life cycle of channel c
          accepted,  \* the messages some channel was given
          backlog,   \* backlog[c]: accepted by c and not pushed yet
          delivered  \* delivered[c]: pushed to c's client, oldest first

vars == <<phase, accepted, backlog, delivered>>

Init ==
    /\ phase = [c \in Channels |-> "new"]
    /\ accepted = {}
    /\ backlog = [c \in Channels |-> <<>>]
    /\ delivered = [c \in Channels |-> <<>>]

Open(c) ==
    /\ phase[c] = "new"
    /\ phase' = [phase EXCEPT ![c] = "open"]
    /\ UNCHANGED <<accepted, backlog, delivered>>

(* A connection the server refuses never opens. *)
Refuse(c) ==
    /\ phase[c] = "new"
    /\ phase' = [phase EXCEPT ![c] = "closed"]
    /\ UNCHANGED <<accepted, backlog, delivered>>

(* Every message is accepted once, by one channel. *)
Accept(c, m) ==
    /\ m \notin accepted
    /\ phase[c] # "new"
    /\ accepted' = accepted \cup {m}
    /\ backlog' = IF phase[c] = "open"
                  THEN [backlog EXCEPT ![c] = Append(@, m)]
                  ELSE backlog
    /\ UNCHANGED <<phase, delivered>>

Push(c) ==
    /\ phase[c] = "open"
    /\ backlog[c] # <<>>
    /\ delivered' = [delivered EXCEPT ![c] = Append(@, Head(backlog[c]))]
    /\ backlog' = [backlog EXCEPT ![c] = Tail(@)]
    /\ UNCHANGED <<phase, accepted>>

Close(c) ==
    /\ phase[c] = "open"
    /\ phase' = [phase EXCEPT ![c] = "closed"]
    /\ backlog' = [backlog EXCEPT ![c] = <<>>]
    /\ UNCHANGED <<accepted, delivered>>

Next ==
    \E c \in Channels :
        \/ Open(c) \/ Refuse(c) \/ Push(c) \/ Close(c)
        \/ \E m \in Messages : Accept(c, m)

Spec == Init /\ [][Next]_vars
=============================================================================
