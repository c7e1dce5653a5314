--------------------------- MODULE MCCircleQueue ----------------------------
(* CircleQueue on a small array: 4 cells and writes of up to 3 bytes wrap, *)
(* fill and overflow the array at every position of its indices, and two   *)
(* values of a byte tell every misplaced copy from a right one.            *)
EXTENDS CircleQueue
=============================================================================
