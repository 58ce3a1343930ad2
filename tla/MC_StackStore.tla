--------------------------- MODULE MC_StackStore ---------------------------
(* Small instances of StackStore for TLC: six stacks in a map of three     *)
(* elements (four buckets); s1, s2 and s5 share bucket 0, s3, s4 and s6   *)
(* have buckets 1, 2 and 3 of their own, so all four buckets can fill.    *)
EXTENDS StackStore, TLC

CONSTANTS s1, s2, s3, s4, s5, s6

MCStackHash ==
  (s1 :> 0) @@ (s2 :> 4) @@ (s3 :> 1) @@ (s4 :> 2) @@ (s5 :> 8) @@ (s6 :> 7)
=============================================================================
