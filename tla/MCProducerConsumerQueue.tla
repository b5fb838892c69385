----------------------- MODULE MCProducerConsumerQueue -----------------------
(* Three threads, so that two may sleep or be woken while a third pushes,    *)
(* pops or clears.                                                           *)
EXTENDS ProducerConsumerQueue

CONSTANTS t1, t2, t3

MCThread == {t1, t2, t3}
MCOverload == {"value", "reference"}
MCValueOnly == {"value"}
=============================================================================
