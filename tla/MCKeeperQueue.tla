--------------------------- MODULE MCKeeperQueue ---------------------------
(* Two workers with an ordinary job and, behind it in the queue, one the    *)
(* keeper refuses; the fee ceiling leaves room for one replacement.         *)
EXTENDS KeeperQueue

CONSTANTS w1, w2
=============================================================================
