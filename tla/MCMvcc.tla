------------------------------- MODULE MCMvcc -------------------------------
(* The instances of Mvcc that TLC checks.                                  *)
EXTENDS Mvcc, TLC

CONSTANTS k1, k2

OneRow == <<k1>>
TwoRows == <<k1, k2>>

(* Connections are interchangeable.  Keys are too, where Seed has all.     *)
Connections == Permutations(Client)

=============================================================================
