------------------------------- MODULE MCRtIpc -------------------------------
(* Three threads of different priorities. *)
EXTENDS RtIpc

CONSTANTS high, middle, low

MCBase == [t \in Thread |-> CASE t = high -> 1 [] t = middle -> 2 [] t = low -> 3]
=============================================================================
