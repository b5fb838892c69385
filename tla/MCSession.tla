------------------------------ MODULE MCSession ------------------------------
(* Session with three packets: one in the writer's hands, one in a queue and *)
(* one behind it.                                                            *)
EXTENDS Session

MCMaxPackets == 3
MCSpawnModes == {"inline", "posted"}
MCInlineOnly == {"inline"}
=============================================================================
