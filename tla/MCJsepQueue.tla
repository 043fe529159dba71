----------------------------- MODULE MCJsepQueue -----------------------------
(* Two cells a buffer, binary values: MUL_MAT is NAND, RMS_NORM negation,  *)
(* and an index names a cell.                                              *)
EXTENDS JsepInstance

MCSpec == Jsep!Spec

Bits == {0, 1}
Nand == [v \in Bits \X Bits |-> 1 - v[1] * v[2]]
Negation == [v \in Bits |-> 1 - v]
Identity == [v \in Bits |-> v]

MCShapes == {[op |-> "MUL_MAT", dst |-> 1, srcs |-> <<0, 0>>],
             [op |-> "RMS_NORM", dst |-> 0, srcs |-> <<1>>],
             [op |-> "SET_ROWS", dst |-> 0, srcs |-> <<1, 0, 0>>]}
=============================================================================
