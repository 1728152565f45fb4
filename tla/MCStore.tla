------------------------------ MODULE MCStore ------------------------------
(* Constants for model checking module Store. *)
EXTENDS Store, TLC

Writers == Permutations(Writer)

Budget(w, o, r, c, e) ==
  [writes |-> w, opens |-> o, reads |-> r, crashes |-> c, errors |-> e]

MCCrash == {Budget(3, 2, 0, 1, 0), Budget(2, 2, 0, 1, 1),
            Budget(3, 1, 1, 0, 0)}

(* No crash of the machine, one failed call. *)
MCError == {Budget(2, 1, 0, 0, 1)}
=============================================================================
