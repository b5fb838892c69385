---------------------------- MODULE MCPreparedQuery ----------------------------
(* Four rows with nulls before, between and behind values, an empty text,    *)
(* numbers wider than int, of its width and narrower, and three queries for  *)
(* the rows whose first column is at least the parameter.                    *)
EXTENDS PreparedQuery

MCWidths     == {2, 3, 4}
MCIntBits    == 3
MCText       == [bits |-> 0, signed |-> FALSE]
MCColumns    == <<[bits |-> 4, signed |-> FALSE], MCText,
                  [bits |-> 3, signed |-> TRUE], [bits |-> 2, signed |-> TRUE],
                  [bits |-> 4, signed |-> TRUE], [bits |-> 3, signed |-> FALSE]>>
MCTable      == << << 5, 2, Null, 1, -8, Null>>, <<15, Null, -4, Null, -1, 3>>,
                   << 7, 0, 3, -2, 7, 7>>, << 1, 1, -1, -1, 2, 4>> >>
MCRows       == [p \in Parameters |-> SelectSeq(MCTable, LAMBDA row : row[1] >= p)]
MCMaxQueries == 3
=============================================================================
