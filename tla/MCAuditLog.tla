----------------------------- MODULE MCAuditLog -----------------------------
(***************************************************************************)
(* A small instance of AuditLog.                                           *)
(***************************************************************************)
EXTENDS AuditLog, TLC

Symmetry == Permutations(Tasks) \cup Permutations(Hashes)
=============================================================================
