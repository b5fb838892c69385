------------------------- MODULE MCDatabaseWorkerPool -------------------------
(* Two connections of each kind, as main.cpp opens, a statement for both     *)
(* kinds and one for asynchronous connections alone, and two losses.         *)
EXTENDS DatabaseWorkerPool

MCNAsync     == 2
MCNSync      == 2
MCStatements == {"ByEmail", "ByEmail2"}
MCAsyncOnly  == {"ByEmail2"}
MCText       == "text"
MCMaxLosses  == 2
=============================================================================
