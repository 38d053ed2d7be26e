-------------------------- MODULE MCDoubleBuffering --------------------------
(* Small instances of DoubleBuffering for TLC. *)
EXTENDS DoubleBuffering

CONSTANTS c1, c2

(* Two inputs and one output: the first input and the output change from
   tile to tile, the second input (a weight) does not. *)
MCTiled == {1, 3}

(* Every tensor changes from tile to tile. *)
MCAllTiled == 1..(NIn + NOut)

MCTwoChannels  == {c1, c2}

(* Every tensor has a constraint in L3. *)
MCAllL3 == 1..(NIn + NOut)
=============================================================================
