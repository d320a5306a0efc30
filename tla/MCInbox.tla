------------------------------ MODULE MCInbox -------------------------------
(***************************************************************************)
(* The instance of Inbox for TLC: three deliveries of a message inside the *)
(* transaction middleware, three of a message outside it, and two handlers *)
(* of which the first writes to the database and the second does           *)
(* something else.                                                         *)
(***************************************************************************)
EXTENDS Inbox, TLC

CONSTANTS m1, m2, d1, d2, d3, d4, d5, d6

MCMessage == {m1, m2}
MCDelivery == {d1, d2, d3, d4, d5, d6}
MCMessageOf == [d \in MCDelivery |-> IF d \in {d1, d2, d3} THEN m1 ELSE m2]
MCEnlisted == {1}
MCTransactional == {m1}

\* State constraint: one of the messages is delivered. Two messages have no row
\* and no handler's effect in common, so that nothing is lost by it.
OneMessage == \E m \in Message : \A d \in Delivery : pc[d] # "idle" => MessageOf[d] = m
=============================================================================
