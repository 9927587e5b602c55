------------------------------ MODULE Selections ------------------------------
(***************************************************************************)
(* The loops of the program that keep some elements of a list in their     *)
(* order: SelectSeq, in a form the theorems can be about.                  *)
(***************************************************************************)
EXTENDS Naturals, Sequences, FiniteSets

(* The elements of list at the positions K.                                *)
KeepAt(list, K) ==
    [k \in 1 .. Cardinality(K) |-> list[CHOOSE n \in K : Cardinality(K \cap (1 .. n)) = k]]

=============================================================================
