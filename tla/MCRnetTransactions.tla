------------------------- MODULE MCRnetTransactions -------------------------
(***************************************************************************)
(* Instances of RnetTransactions for TLC: two controllers, each with a     *)
(* zone of the same number.                                                *)
(***************************************************************************)
EXTENDS RnetTransactions

SameNumber == [z \in Zones |-> 1]
=============================================================================
