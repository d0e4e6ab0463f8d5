----------------------------- MODULE MCMaxAdmin -----------------------------
(* Small instances of MaxAdmin for TLC.                                     *)
EXTENDS MaxAdmin

(* All texts of at most n characters. *)
Texts(n) == UNION {[1..k -> Chars] : k \in 0..n}
Texts4 == Texts(4)
Texts3 == Texts(3)
=============================================================================
