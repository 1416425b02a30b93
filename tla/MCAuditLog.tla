----------------------------- MODULE MCAuditLog -----------------------------
(* Constants for TLC: a sweep and two requests over two incidents.         *)
EXTENDS AuditLogInvariant, TLC

CONSTANTS w1, w2

RequestSymmetry == Permutations({w1, w2})
=============================================================================
