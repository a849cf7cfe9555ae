------------------------------ MODULE Backend -------------------------------
(* What every part of the backend shares: how an object is committed, and  *)
(* the order in which recovery finds unfinished rows.                      *)
EXTENDS Naturals, FiniteSets

(* Only an attribute that differs from the value read is in the UPDATE.    *)
Write(read, new, stored) == IF read = new THEN stored ELSE new

(* A query without ORDER BY returns the rows of S in any order.            *)
Orderings(S) == {s \in [1 .. Cardinality(S) -> S] : \A x \in S : \E i \in DOMAIN s : s[i] = x}
=============================================================================
