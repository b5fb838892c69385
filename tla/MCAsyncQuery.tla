----------------------------- MODULE MCAsyncQuery -----------------------------
(* Two asynchronous connections, as main.cpp opens, and three queries.        *)
EXTENDS AsyncQuery

CONSTANTS c1, c2

MCConn == {c1, c2}
=============================================================================
