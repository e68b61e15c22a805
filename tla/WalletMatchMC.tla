----------------------------- MODULE WalletMatchMC -----------------------------
(* Instances of WalletMatch for TLC.                                          *)
EXTENDS WalletMatch, TLC

CONSTANTS b1, b2, s1, s2, w1, w2, h1, h2

(* Requests, and orders of one side, are interchangeable (safety only).       *)
Interchangeable == Permutations({h1, h2}) \cup Permutations({s1, s2}) \cup Permutations({b1, b2})
===============================================================================
