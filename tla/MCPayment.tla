----------------------------- MODULE MCPayment -----------------------------
(* Instances of Payment for TLC. *)
EXTENDS Payment, TLC

PaymentSymmetry == Permutations(Request) \cup Permutations(Trip)
=============================================================================
