---------------------------- MODULE MCThreadPool ----------------------------
(* Instances of ThreadPool for TLC.                                        *)
EXTENDS ThreadPool, TLC

\* Tasks and clients are only compared.
Symmetry == Permutations(Task) \cup Permutations(Client)
=============================================================================
