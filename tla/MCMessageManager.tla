-------------------------- MODULE MCMessageManager --------------------------
(* An instance of MessageManager for TLC. *)
EXTENDS MessageManager, TLC

CONSTANTS s1, s2, r1, r2, a, b, c

\* Who reads what: one slot has two readers, and the two others have one.
ReadBy == (r1 :> {a, b}) @@ (r2 :> {b, c})

\* The senders are alike.
Alike == Permutations({s1, s2})
=============================================================================
