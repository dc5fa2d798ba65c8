------------------------------- MODULE SeqOps -------------------------------
(* Operators on sequences shared by the modules of this project, written as
   functions of the index so that the provers can unfold them. *)
EXTENDS Naturals, Sequences

(* s without its i-th element *)
Without(s, i) == [j \in 1..(Len(s) - 1) |-> IF j < i THEN s[j] ELSE s[j + 1]]

(* s rotated so that its i-th element comes first *)
Rotated(s, i) ==
  [j \in 1..Len(s) |-> IF j + i - 1 <= Len(s) THEN s[j + i - 1]
                                              ELSE s[j + i - 1 - Len(s)]]

(* the first position of a in s *)
IndexOf(s, a) == CHOOSE i \in 1..Len(s) : s[i] = a

=============================================================================
