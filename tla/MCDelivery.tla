----------------------------- MODULE MCDelivery -----------------------------
(* Small instances of Delivery: pages of one or two entries, so that a few   *)
(* messages already span several pages of the pending list.                  *)
EXTENDS Delivery, TLC

CONSTANTS c1, c2, c3
=============================================================================
