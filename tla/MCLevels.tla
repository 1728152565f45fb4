------------------------------ MODULE MCLevels ------------------------------
(* Constants for model checking module Levels. *)
EXTENDS Levels

MCValues       == Key \X {kTypeValue}
MCDeleteMiddle == MCValues \cup {<<2, kTypeDeletion>>}

MCLevelLimit  == [l \in 1..(NumLevels - 1) |-> 2]
MCKeyRanges   == {<<2, 2>>}
MCAllRange    == {<<NoKey, NoKey>>}
=============================================================================
