------------------------------ MODULE MCLedger ------------------------------
(* Small instances of Ledger for TLC.                                       *)
EXTENDS Ledger, TLC

CONSTANTS r1, r2, d1, d2, d3

MCReceipts == {r1, r2}
MCDigests  == {d1, d2, d3}
MCSHA256Hex == r1 :> d1 @@ r2 :> d2

Symmetry == Permutations(Callers)
=============================================================================
