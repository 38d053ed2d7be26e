-------------------------- MODULE MCSingleBuffering --------------------------
(* Small instances of SingleBuffering for TLC. *)
EXTENDS SingleBuffering

CONSTANTS c1, c2

MCTwoChannels == {c1, c2}

(* Every input changes from tile to tile; the weight gradient does not. *)
MCInputsTiled == 1..NIn

(* Every tensor has a constraint in L3. *)
MCAllL3 == 1..(NIn + NOut)
=============================================================================
