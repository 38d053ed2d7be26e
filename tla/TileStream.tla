----------------------------- MODULE TileStream -----------------------------
(***************************************************************************)
(* What the tiled code of one node promises, whatever its buffering: for   *)
(* each output tensor the results of tiles 0, 1, 2, ... reach the external *)
(* memory exactly once, in this order, each in its own rectangle.  Tiles   *)
(* that share a rectangle accumulate in it.                                *)
(***************************************************************************)
EXTENDS Integers

CONSTANTS
    Outputs,   \* the output tensors
    Tiles,     \* the number of tiles
    Place      \* Place[o][n]: the rectangle of output o that tile n writes

VARIABLE result  \* for each output and rectangle, the tiles delivered there

Rectangle == 0..(Tiles - 1)

Delivered(o) == UNION {result[o][r] : r \in Rectangle}

Init == result = [o \in Outputs |-> [r \in Rectangle |-> {}]]

Deliver(o, n) ==
    /\ Delivered(o) = 0..(n - 1)
    /\ result' = [result EXCEPT ![o][Place[o][n]] = @ \cup {n}]

Next == \E o \in Outputs, n \in Rectangle : Deliver(o, n)

Spec == Init /\ [][Next]_result /\ WF_result(Next)

Complete == \A o \in Outputs : Delivered(o) = Rectangle
=============================================================================
