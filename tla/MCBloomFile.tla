---------------------------- MODULE MCBloomFile ----------------------------
(***************************************************************************)
(* Instances of BloomFile for TLC: ten bits, so that the first char uses   *)
(* its sign bit and the second is only partly used.                        *)
(***************************************************************************)
EXTENDS BloomFile, TLC

CONSTANTS va, vb

MCBit == 0..9
MCValue == {va, vb}
MCHashPos == (va :> (0 :> 0 @@ 1 :> 7 @@ 2 :> 9)) @@
             (vb :> (0 :> 7 @@ 1 :> 8 @@ 2 :> 7))
MCKeyLength == (va :> 1) @@ (vb :> 2)
=============================================================================
