----------------------------- MODULE HttpClientMC -----------------------------
(* Instances of HttpClientMT for TLC. *)
EXTENDS HttpClientMT, TLC

CONSTANTS r1, r2

(* Requests created in different seconds, and in the same one.             *)
OwnSeconds == [r \in Requests |-> IF r = r1 THEN 1 ELSE 2]
SameSecond == [r \in Requests |-> 1]

Symmetric == Permutations(Threads) \cup Permutations(Sockets)
===============================================================================
