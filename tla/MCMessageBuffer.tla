--------------------------- MODULE MCMessageBuffer ---------------------------
(* MessageBuffer with an initial storage of two bytes, so that a piece may   *)
(* fit, fill it or overflow it.                                              *)
EXTENDS MessageBuffer

MCByte == {0, 1, 2}
MCPieces == {<<>>, <<1>>, <<2>>, <<1, 2>>, <<2, 1, 1>>}
=============================================================================
