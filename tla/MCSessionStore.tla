--------------------------- MODULE MCSessionStore ---------------------------
(* SessionStore with interchangeable addresses and tokens.  Five addresses *)
(* are one more than its table holds, so refused sign-ins could overflow it. *)
EXTENDS SessionStore, TLC
Interchangeable == Permutations(Addresses) \cup Permutations(Tokens)
=============================================================================
