---------------------------- MODULE MCOrderBook ----------------------------
(***************************************************************************)
(* Small instances of the order book for TLC.                              *)
(***************************************************************************)
EXTENDS OrderBook

OwnerSymmetry == Permutations(Owners)
=============================================================================
