----------------------------- MODULE LossyRelay -----------------------------
(***************************************************************************)
(* What one direction of the daemon promises, whatever libev, the sockets  *)
(* and the terminal do: it relays datagrams that arrived, each at most     *)
(* once, in the order of arrival, whole up to Limit bytes, and may lose    *)
(* any of them.                                                            *)
(***************************************************************************)
EXTENDS Integers, Sequences

CONSTANTS
    Channels,   \* the directions of the relay
    Datagrams,  \* records with a field "len"
    Limit       \* the longest payload that is relayed whole

VARIABLES
    arrived,    \* [Channels -> Seq(Datagrams)]: every datagram accepted so far
    out         \* [Channels -> Seq([id, len])]: those relayed, by position

vars == <<arrived, out>>

LastRelayed(c) == IF out[c] = << >> THEN 0 ELSE out[c][Len(out[c])].id

Init ==
    /\ arrived = [c \in Channels |-> << >>]
    /\ out     = [c \in Channels |-> << >>]

Arrive(c) ==
    /\ \E d \in Datagrams : arrived' = [arrived EXCEPT ![c] = Append(@, d)]
    /\ UNCHANGED out

Relay(c) ==
    /\ \E i \in (LastRelayed(c) + 1) .. Len(arrived[c]) :
          LET size == arrived[c][i].len
              len  == IF size < Limit THEN size ELSE Limit
          IN  out' = [out EXCEPT ![c] = Append(@, [id |-> i, len |-> len])]
    /\ UNCHANGED arrived

Next == \E c \in Channels : Arrive(c) \/ Relay(c)

Spec == Init /\ [][Next]_vars
=============================================================================
