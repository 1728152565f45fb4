---------------------------- MODULE MCBloomTree ----------------------------
(***************************************************************************)
(* Instances of BloomTree for TLC: two bits, and two values of which one   *)
(* needs both bits and the other, by hash collisions, only one.  A         *)
(* behaviour has the searches of the threads or those of the main thread,  *)
(* as MainFlowMultiplyValues and MainFlow make them.                       *)
(***************************************************************************)
EXTENDS BloomTree, TLC

CONSTANTS va, vb, t1, t2

VARIABLE callers

CallersInit == Init /\ callers \in {Thread, {Main}}

CallersNext ==
  /\ Next
  /\ UNCHANGED callers
  /\ \A r \in Reader \ callers : search'[r] = "idle"

CallersSpec == CallersInit /\ [][CallersNext]_<<vars, callers>>

MCBit == 0..1
MCValue == {va, vb}
MCHashPos == (va :> (0 :> 0 @@ 1 :> 1 @@ 2 :> 0)) @@
             (vb :> (0 :> 1 @@ 1 :> 1 @@ 2 :> 1))

\* File names are only compared, and so are the threads' names.
Symmetry == Permutations(File) \cup Permutations(Thread)
=============================================================================
