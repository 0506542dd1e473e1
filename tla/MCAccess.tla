----------------------------- MODULE MCAccess -----------------------------
(* A small instance of Access for TLC: two administrators, each with a key. *)
EXTENDS Access, TLC

CONSTANTS u1, u2, u3, u4, u5, n1, n2, n3, k1, k2, m1, m2

FoundersDef == (u1 :> n1) @@ (u2 :> n2)
IssuedDef == (k1 :> u1)
=============================================================================
