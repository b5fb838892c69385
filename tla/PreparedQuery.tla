---------------------------- MODULE PreparedQuery ----------------------------
(* One prepared statement and its queries, one after the other: binding the  *)
(* parameter, the result set that copies all rows into one buffer, the       *)
(* arrays of lengths and null flags the statement goes on pointing at, and   *)
(* what the fields of the set tell. The query has one parameter, a number. A *)
(* byte holds one bit of a number or one letter of a text; a text is its     *)
(* length.                                                                   *)
EXTENDS Field, Sequences

CONSTANTS
  Columns,      \* the type of each column of the result, a number's or Text
  Text, Null,
  Rows,         \* the rows the database has for each number it may be asked
  MaxQueries    \* bound on the queries made with the statement

Col == 1 .. Len(Columns)

(* What a cell may hold. *)
CellValues(i) == {Null} \union (IF Columns[i] = Text THEN Nat ELSE Values(Columns[i]))

(* The numbers the database may be asked for. *)
Parameters == UNION {Values(t) : t \in Types}

ASSUME QueryAssumption ==
  /\ Columns \in Seq(Types \union {Text}) /\ Columns # <<>>
  /\ Text \notin Types /\ Null \notin Int /\ MaxQueries \in Nat
  /\ DOMAIN Rows = Parameters
  /\ \A p \in Parameters :
       /\ Rows[p] \in Seq([Col -> Int \union {Null}])
       /\ \A r \in 1 .. Len(Rows[p]), i \in Col : Rows[p][r][i] \in CellValues(i)

VARIABLES
  pc,       \* "idle", "asked", "fetching" or "reading"; "dead", or "gone"
  asked,    \* the parameter of the query
  answer,   \* the rows the server has answered
  stmt,     \* MYSQL_STMT: bind_result_done, the arrays it has, its buffers
  made,     \* how many pairs of arrays were allocated, which numbers them
  freed,    \* how often each pair was freed
  failed,   \* storing or binding a result failed after one had succeeded
  mem,      \* the bytes of the set's buffer
  cells,    \* _rows: where each cell of the rows fetched so far points
  count,    \* _rowCount
  pos,      \* _rowPosition
  got       \* what was last read from the set

setVars  == <<mem, cells, count, pos>>
heapVars == <<stmt, made, freed, failed>>
vars == <<pc, asked, answer, heapVars, setVars, got>>

Nothing == [kind |-> "nothing", row |-> 0, col |-> 0, as |-> Text, value |-> 0]
Nobody  == [type |-> Text, value |-> 0]

Init ==
  /\ pc = "idle" /\ asked = Nobody /\ answer = <<>> /\ got = Nothing
  /\ stmt = [done |-> FALSE, arrays |-> 0, buffers |-> <<>>]
  /\ made = 0 /\ freed = [a \in 1 .. MaxQueries |-> 0] /\ failed = FALSE
  /\ mem = <<>> /\ cells = <<>> /\ count = 0 /\ pos = 0

-----------------------------------------------------------------------------
(* The query and the constructor of its result set. *)

(* BindParameters and mysql_stmt_execute. *)
Ask(t, v) ==
  /\ pc = "idle" /\ made < MaxQueries
  /\ pc' = "asked" /\ asked' = [type |-> t, value |-> v]
  /\ answer' = Rows[Received(v, t)]
  /\ UNCHANGED <<heapVars, setVars, got>>

(* The arrays of the statement's previous result, *)
FreedBound(f) == IF stmt.done THEN [f EXCEPT ![stmt.arrays] = @ + 1] ELSE f

(* those of this one, *)
New == made + 1

(* and a set that has no rows. *)
NoRows ==
  /\ pc' = "reading"
  /\ mem' = <<>> /\ cells' = <<>> /\ count' = 0 /\ pos' = 0
  /\ asked' = Nobody /\ UNCHANGED <<answer, got>>

NoMetadata == pc = "asked" /\ NoRows /\ UNCHANGED heapVars

(* The new arrays are deleted again, and the statement still points at the   *)
(* old ones, which were deleted before.                                      *)
StoreFails ==
  /\ pc = "asked" /\ NoRows
  /\ made' = New /\ freed' = [FreedBound(freed) EXCEPT ![New] = 1]
  /\ failed' = (failed \/ stmt.done)
  /\ UNCHANGED stmt

(* The metadata is freed here, and again with the set, whatever its owner    *)
(* does with it before.                                                      *)
BindFails ==
  /\ pc = "asked" /\ pc' = "dead"
  /\ UNCHANGED <<asked, answer, heapVars, setVars, got>>

(* SizeForType: the library has found the longest text. *)
Longest(i) ==
  LET lengths == {answer[r][i] : r \in 1 .. Len(answer)} \ {Null}
  IN  IF lengths = {} THEN 0 ELSE CHOOSE l \in lengths : \A k \in lengths : k <= l
Size == [i \in Col |-> IF Columns[i] = Text THEN Longest(i) + 1 ELSE Columns[i].bits]

Offset[i \in 1 .. Len(Columns) + 1] == IF i = 1 THEN 0 ELSE Offset[i - 1] + Size[i - 1]
RowSize == Offset[Len(Columns) + 1]

Junk == <<0, 0, 1>>
End  == <<0, 0, 0>>

(* One buffer for all rows, and each column's first place in it. *)
BindResult ==
  /\ pc = "asked" /\ pc' = "fetching" /\ asked' = Nobody
  /\ made' = New /\ freed' = FreedBound(freed)
  /\ stmt' = [done |-> TRUE, arrays |-> New, buffers |-> [i \in Col |-> Offset[i]]]
  /\ mem' = [o \in 0 .. RowSize * Len(answer) - 1 |-> Junk]
  /\ cells' = <<>> /\ count' = Len(answer) /\ pos' = 0
  /\ UNCHANGED <<answer, failed, got>>

(* The byte k of a cell; a text ends with a zero. *)
Byte(row, i, k) == IF Columns[i] = Text /\ k = row[i] THEN End ELSE <<pos + 1, i, k>>
Length(row, i) == IF Columns[i] = Text THEN row[i] + 1 ELSE Columns[i].bits

(* Mutant: each column advances by its own size. *)
AdvanceByCell(i) == Size[i]

(* Mutant: it is moved where it is filled and once more in the loop. *)
AdvanceTwice(i) == 2 * RowSize

(* Each column's buffer moves by the size of a row, *)
Advance(i) == RowSize

(* but only past a cell that is not null. *)
FetchRow ==
  /\ pc = "fetching" /\ pos < count
  /\ LET row   == answer[pos + 1]
         Full  == {i \in Col : row[i] # Null}
         At(o) == {i \in Full : o \in stmt.buffers[i] .. stmt.buffers[i] + Length(row, i) - 1}
     IN
     /\ mem' = [o \in DOMAIN mem |->
                  IF At(o) = {} THEN mem[o]
                  ELSE LET i == CHOOSE j \in At(o) : \A k \in At(o) : k <= j
                       IN  Byte(row, i, o - stmt.buffers[i])]
     /\ cells' = Append(cells, [i \in Col |-> IF i \in Full THEN stmt.buffers[i] ELSE Null])
     /\ stmt' = [stmt EXCEPT !.buffers =
                   [i \in Col |-> IF i \in Full THEN @[i] + Advance(i) ELSE @[i]]]
  /\ pos' = pos + 1
  /\ UNCHANGED <<pc, asked, answer, made, freed, failed, count, got>>

(* All rows are there, or mysql_stmt_fetch has failed: the position is set   *)
(* back, the count is not.                                                   *)
FetchEnds ==
  /\ pc = "fetching"
  /\ pc' = "reading" /\ pos' = 0
  /\ UNCHANGED <<asked, answer, heapVars, mem, cells, count, got>>

-----------------------------------------------------------------------------
(* What the owner of the set does, which may call NextRow until it is past   *)
(* the last row.                                                             *)

NextRow ==
  /\ pc = "reading" /\ pos < count
  /\ pos' = pos + 1 /\ got' = Nothing
  /\ UNCHANGED <<pc, asked, answer, heapVars, mem, cells, count>>

(* The letters up to the zero, *)
TextAt(o) ==
  LET n == CHOOSE k \in 0 .. RowSize * count - o :
             mem[o + k] = End /\ \A j \in 0 .. k - 1 : mem[o + j] # End
  IN  [k \in 1 .. n |-> mem[o + k - 1]]

(* and the number whose bytes begin there. *)
NumberAt(o) == answer[mem[o][1]][mem[o][2]]

(* A getter on the column i of the current row: what it returns, or why it   *)
(* ends the process: it asserts that there is a row, that the field has been *)
(* given its metadata and that it returns the value, and it reads a number   *)
(* through the null pointer. Of a text a number getter makes 0.              *)
Reading(i, g) ==
  LET Is(kind, value) == [kind |-> kind, row |-> pos + 1, col |-> i, as |-> g, value |-> value]
      cell == cells[pos + 1][i]
  IN  CASE pos >= count -> Is("no row", 0)
        [] pos < count /\ pos >= Len(cells) -> Is("no field", 0)
        [] OTHER ->
             IF g = Text
             THEN IF Columns[i] # Text THEN Is("wrong getter", 0)
                  ELSE IF cell = Null THEN Is("null", 0) ELSE Is("text", TextAt(cell))
             ELSE IF Columns[i] = Text THEN Is("number", 0)
                  ELSE IF cell = Null THEN Is("no value", 0)
                  ELSE IF Accepts(NumberAt(cell), Columns[i], g)
                       THEN Is("number", Wrap(NumberAt(cell), g)) ELSE Is("wrong getter", 0)

Get(i, g) ==
  /\ pc = "reading"
  /\ got' = Reading(i, g)
  /\ pc' = IF got'.kind \in {"number", "text", "null"} THEN pc ELSE "dead"
  /\ UNCHANGED <<asked, answer, heapVars, setVars>>

(* Mutant: CleanUp deletes the arrays, as it does the buffer. *)
CleanUpAll(f) == FreedBound(f)

(* CleanUp deletes the buffer and leaves the arrays to the statement. *)
CleanUp(f) == f

DestroySet ==
  /\ pc = "reading" /\ pc' = "idle"
  /\ freed' = CleanUp(freed)
  /\ answer' = <<>> /\ mem' = <<>> /\ cells' = <<>> /\ count' = 0 /\ pos' = 0
  /\ got' = Nothing
  /\ UNCHANGED <<asked, stmt, made, failed>>

DestroyStatement ==
  /\ pc = "idle" /\ pc' = "gone"
  /\ freed' = FreedBound(freed)
  /\ UNCHANGED <<asked, answer, stmt, made, failed, setVars, got>>

-----------------------------------------------------------------------------
(* No array is freed twice: the statement is given arrays only while they    *)
(* are allocated. After a second free anything might happen.                 *)
Sound == \A a \in 1 .. MaxQueries : freed[a] <= 1

Next ==
  /\ Sound
  /\ \/ NoMetadata \/ StoreFails \/ BindFails \/ BindResult \/ FetchRow \/ FetchEnds
     \/ NextRow \/ DestroySet \/ DestroyStatement
     \/ \E t \in Types : \E v \in Values(t) : Ask(t, v)
     \/ \E i \in Col, g \in Types \union {Text} : Get(i, g)

Spec == Init /\ [][Next]_vars
-----------------------------------------------------------------------------
Stamps == {Junk, End} \union ((1 .. Len(answer)) \X Col \X Nat)

TypeOK ==
  /\ pc \in {"idle", "asked", "fetching", "reading", "dead", "gone"}
  /\ asked # Nobody => asked.type \in Types /\ asked.value \in Values(asked.type)
  /\ stmt \in [done : BOOLEAN, arrays : 0 .. made, buffers : {<<>>} \union [Col -> Nat]]
  /\ made \in 0 .. MaxQueries
  /\ freed \in [1 .. MaxQueries -> Nat] /\ failed \in BOOLEAN
  /\ count \in {0, Len(answer)} /\ pos \in 0 .. count
  /\ DOMAIN mem = (IF count = 0 THEN {} ELSE 0 .. RowSize * count - 1)
  /\ \A o \in DOMAIN mem : mem[o] \in Stamps
  /\ cells \in Seq([Col -> DOMAIN mem \union {Null}]) /\ Len(cells) <= count

(* Every cell that was fetched keeps its bytes, those of a text up to the    *)
(* zero, whatever is fetched after it: columns of any size and rows with     *)
(* nulls anywhere neither overlap nor leave the buffer.                      *)
CellsKeepTheirBytes ==
  \A r \in 1 .. Len(cells), i \in Col :
    LET cell == cells[r][i]
        row  == answer[r]
    IN  /\ cell = Null <=> row[i] = Null
        /\ cell # Null => \A k \in 0 .. Length(row, i) - 1 :
             /\ cell + k \in DOMAIN mem
             /\ mem[cell + k] = IF Columns[i] = Text /\ k = row[i] THEN End ELSE <<r, i, k>>

(* The arrays that each result leaves to the statement are freed once, by    *)
(* the next result or with the statement, and not while a result is fetched; *)
(* a result that could not be stored over an earlier one is the exception.   *)
ArraysFreedOnce ==
  ~failed =>
    /\ Sound
    /\ pc = "fetching" => freed[stmt.arrays] = 0
    /\ pc = "gone" => \A a \in 1 .. made : freed[a] = 1

(* What a getter returns. It tells the whole text, and a number as it is in  *)
(* the database, unless one of column and getter is signed and the other is  *)
(* not: then a wrong number may pass. A number getter on a text column       *)
(* returns 0 without complaint, whatever the text is, even none. On a row    *)
(* that was fetched a getter ends the process only for a null, for a text    *)
(* asked of a number, and for what its type cannot hold.                     *)
GettersTell ==
  LET u == Columns[got.col]
      v == answer[got.row][got.col]
  IN  CASE got.kind = "text" -> got.value = [k \in 1 .. v |-> <<got.row, got.col, k - 1>>]
        [] got.kind = "number" /\ u # Text -> got.value = v \/ u.signed # got.as.signed
        [] got.kind = "number" /\ u = Text -> got.as # Text /\ got.value = 0
        [] got.kind \in {"null", "no value"} -> v = Null
        [] got.kind = "wrong getter" -> IF got.as = Text THEN u # Text ELSE v \notin Values(got.as)
        [] OTHER -> TRUE

(* A number that a getter returns is the number of the cell: a getter that   *)
(* would cut it off asserts. It does not hold where the signs differ.        *)
NumbersAreWhole ==
  got.kind = "number" /\ Columns[got.col] # Text => got.value = answer[got.row][got.col]

(* The server answers with the rows of the number the caller asks for. It    *)
(* does not hold for an unsigned number with its top bit set.                *)
FindsItsRows == pc = "asked" => answer = Rows[asked.value]
=============================================================================
