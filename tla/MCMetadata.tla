----------------------------- MODULE MCMetadata -----------------------------
(* The instances of Metadata that TLC checks.                              *)
EXTENDS Metadata, TLC

(* Connections are interchangeable, and so are databases and definitions.  *)
Interchangeable ==
  Permutations(Client) \cup Permutations(Db) \cup Permutations(Columns)
=============================================================================
