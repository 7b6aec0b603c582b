------------------------------- MODULE FillRow -------------------------------
(***************************************************************************)
(* ha_parquet::fill_row: one Arrow row is copied into the record buffer of *)
(* the server, field by field.  Columns are matched by position; the chunk *)
(* of a column that holds the row is searched from the first chunk on.     *)
(*                                                                         *)
(* The buffer outlives the call: what a row does not overwrite, the next   *)
(* reader of the buffer finds there from an earlier row.  A cell is known  *)
(* by its place, <<chunk, offset>>; what it holds is a constant.           *)
(*                                                                         *)
(* External: Field::set_null and set_notnull change a null bit only when   *)
(* the field is declared nullable, and Field::store overwrites the value.  *)
(***************************************************************************)
EXTENDS Integers

CONSTANTS
  NumFields,    \* table->s->fields
  Nullable,     \* the fields declared without NOT NULL
  NumColumns,   \* arrow_table->num_columns()
  NumRows,      \* arrow_table->num_rows()
  NumChunks,    \* NumChunks[k]: chunks of column k
  Len,          \* Len[k][c]: length of chunk c of column k
  Start,        \* Start[k][c]: rows of column k before chunk c
  Nulls,        \* Nulls[k]: the cells of column k that are Arrow nulls
  Unprintable,  \* Unprintable[k]: cells of column k GetScalar gives no string for
  NULL          \* no chunk found; no value stored yet; SQL NULL

Fields  == 0 .. (NumFields - 1)
Columns == 0 .. (NumColumns - 1)
RowIdx  == 0 .. (NumRows - 1)
Chunks(k) == 0 .. (NumChunks[k] - 1)
Cell      == Nat \X Nat

ASSUME SizesAssumption ==
  /\ NumFields \in Nat /\ NumColumns \in Nat /\ NumRows \in Nat
  /\ Nullable \subseteq Fields
  /\ NULL \notin Cell \cup Nat

\* Every column of an Arrow table has the same number of rows; Start is the
\* running sum of the lengths of its chunks (and so grows with the chunk).
ASSUME ChunksAssumption ==
  /\ NumChunks \in [Columns -> Nat]
  /\ \A k \in Columns :
       /\ Len[k] \in [Chunks(k) -> Nat]
       /\ Start[k] \in [0 .. NumChunks[k] -> Nat]
       /\ Start[k][0] = 0
       /\ \A c \in Chunks(k) : Start[k][c + 1] = Start[k][c] + Len[k][c]
       /\ Start[k][NumChunks[k]] = NumRows
       /\ \A i, j \in Chunks(k) : i < j => Start[k][i] + Len[k][i] <= Start[k][j]

VARIABLES
  pc,           \* "done": between calls; "field": top of the loop over fields;
                \* "chunk": in the loop over chunks; "fill": chunk search is over
  row,          \* argument row_idx
  col,          \* loop variable col
  c,            \* loop variable c
  remaining,    \* local variable remaining
  arr,          \* local variable arr: the number of the chunk found, or NULL
  offset,       \* local variable arr_offset
  isNull,       \* null bits in the record buffer
  value         \* field data in the record buffer: the cell stored last

locals == <<col, c, remaining, arr, offset>>
buffer == <<isNull, value>>
vars   == <<pc, row, locals, buffer>>

TypeOK ==
  /\ pc \in {"done", "field", "chunk", "fill"}
  /\ row \in RowIdx \cup {NULL}
  /\ col \in Nat
  /\ c \in Nat
  /\ remaining \in Nat
  /\ arr \in Nat \cup {NULL}
  /\ offset \in Nat
  /\ isNull \in [Fields -> BOOLEAN]
  /\ value \in [Fields -> Cell \cup {NULL}]

Init ==
  /\ pc = "done"
  /\ row = NULL
  /\ col = 0 /\ c = 0 /\ remaining = 0 /\ arr = NULL /\ offset = 0
  /\ isNull = [f \in Fields |-> FALSE]
  /\ value = [f \in Fields |-> NULL]

\* rnd_next and rnd_pos call fill_row with a row of the table, in any order.
\* memset clears every null bit.
Call ==
  /\ pc = "done"
  /\ row' \in RowIdx
  /\ pc' = "field"
  /\ col' = 0
  /\ isNull' = [f \in Fields |-> FALSE]
  /\ UNCHANGED <<c, remaining, arr, offset, value>>

SetNull    == isNull' = IF col \in Nullable THEN [isNull EXCEPT ![col] = TRUE] ELSE isNull
SetNotNull == isNull' = IF col \in Nullable THEN [isNull EXCEPT ![col] = FALSE] ELSE isNull

NextField == pc' = "field" /\ col' = col + 1

\* The field has no Arrow column.
MissingColumn ==
  /\ pc = "field"
  /\ col \in Fields
  /\ col >= NumColumns
  /\ SetNull
  /\ NextField
  /\ UNCHANGED <<row, c, remaining, arr, offset, value>>

StartSearch ==
  /\ pc = "field"
  /\ col \in Fields
  /\ col < NumColumns
  /\ pc' = "chunk"
  /\ c' = 0
  /\ remaining' = row
  /\ arr' = NULL
  /\ offset' = 0
  /\ UNCHANGED <<row, col, buffer>>

\* Mutant: the length of a chunk is taken off before it is looked at.
SkipAnyChunk ==
  /\ pc = "chunk"
  /\ c \in Chunks(col)
  /\ remaining' = remaining - Len[col][c]
  /\ c' = c + 1
  /\ UNCHANGED <<pc, row, col, arr, offset, buffer>>

SkipChunk ==
  /\ pc = "chunk"
  /\ c \in Chunks(col)
  /\ remaining >= Len[col][c]
  /\ remaining' = remaining - Len[col][c]
  /\ c' = c + 1
  /\ UNCHANGED <<pc, row, col, arr, offset, buffer>>

\* Mutant: the row after the last row of a chunk is taken to be in it.
EndSearchOneLate ==
  /\ pc = "chunk"
  /\ c \in Chunks(col) => remaining <= Len[col][c]
  /\ IF c \in Chunks(col)
       THEN arr' = c /\ offset' = remaining
       ELSE UNCHANGED <<arr, offset>>
  /\ pc' = "fill"
  /\ UNCHANGED <<row, col, c, remaining, buffer>>

\* The loop ends at the chunk that holds the row, or, with arr still null,
\* after the last chunk.
EndSearch ==
  /\ pc = "chunk"
  /\ c \in Chunks(col) => remaining < Len[col][c]
  /\ IF c \in Chunks(col)
       THEN arr' = c /\ offset' = remaining
       ELSE UNCHANGED <<arr, offset>>
  /\ pc' = "fill"
  /\ UNCHANGED <<row, col, c, remaining, buffer>>

HasValue == arr # NULL /\ <<arr, offset>> \notin Nulls[col]

\* Mutant: the null bit is not set.
FillNullNot ==
  /\ pc = "fill"
  /\ ~ HasValue
  /\ NextField
  /\ UNCHANGED <<row, c, remaining, arr, offset, buffer>>

\* No chunk, or an Arrow null.
FillNull ==
  /\ pc = "fill"
  /\ ~ HasValue
  /\ SetNull
  /\ NextField
  /\ UNCHANGED <<row, c, remaining, arr, offset, value>>

\* The switch over Arrow types ends in one store; the fallback stores the
\* string of the scalar, or sets null when there is none.
FillValue ==
  /\ pc = "fill"
  /\ HasValue
  /\ IF <<arr, offset>> \in Unprintable[col]
       THEN SetNull /\ UNCHANGED value
       ELSE SetNotNull /\ value' = [value EXCEPT ![col] = <<arr, offset>>]
  /\ NextField
  /\ UNCHANGED <<row, c, remaining, arr, offset>>

Return ==
  /\ pc = "field"
  /\ col \notin Fields
  /\ pc' = "done"
  /\ UNCHANGED <<row, locals, buffer>>

Next ==
  \/ Call \/ MissingColumn \/ StartSearch \/ SkipChunk \/ EndSearch
  \/ FillNull \/ FillValue \/ Return

Spec == Init /\ [][Next]_vars

(***************************************************************************)
(* Properties.                                                             *)
(***************************************************************************)

\* The search over chunks of any lengths, empty ones included, ends in the one
\* cell of the column that is at the row asked for.
FindsTheCell ==
  pc = "fill" =>
    /\ arr \in Chunks(col)
    /\ offset < Len[col][arr]
    /\ Start[col][arr] + offset = row

\* What a column holds at row i, told from the running sums alone.
CellAt(k, i) ==
  CHOOSE p \in {<<ch, i - Start[k][ch]>> : ch \in Chunks(k)} :
    p[2] \in 0 .. (Len[k][p[1]] - 1)

\* What a field must read as after the row was filled in.
Expected(f, i) ==
  IF f >= NumColumns THEN NULL
  ELSE LET p == CellAt(f, i) IN
       IF p \in Nulls[f] \cup Unprintable[f] THEN NULL ELSE p

Reads(f) == IF f \in Nullable /\ isNull[f] THEN NULL ELSE value[f]

\* After any sequence of calls, a field that may be NULL reads as the cell of
\* the row asked for last, and so does a field declared NOT NULL where the
\* column has a value: nothing is left over from an earlier row.
FieldsReadRow ==
  pc = "done" /\ row # NULL =>
    \A f \in Fields :
      f \in Nullable \/ Expected(f, row) # NULL => Reads(f) = Expected(f, row)

\* The inductive invariant of the two properties above: the search has skipped
\* exactly the rows before chunk c, and the fields before col are filled in.
LoopInv ==
  /\ pc # "done" => row \in RowIdx
  /\ pc \in {"chunk", "fill"} => col \in Fields /\ col < NumColumns
  /\ pc = "chunk" => c \in 0 .. NumChunks[col] /\ remaining = row - Start[col][c]

FieldDone(f) == f \in Nullable \/ Expected(f, row) # NULL => Reads(f) = Expected(f, row)

BufferInv == pc # "done" => \A f \in Fields : f < col => FieldDone(f)

IInv == TypeOK /\ LoopInv /\ FindsTheCell /\ BufferInv /\ FieldsReadRow

\* "Arrow null -> MySQL NULL": no field shows the value of another row.
AllFieldsReadRow ==
  pc = "done" /\ row # NULL => \A f \in Fields : Reads(f) = Expected(f, row)
=============================================================================
