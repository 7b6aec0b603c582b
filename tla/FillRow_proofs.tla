---------------------------- MODULE FillRow_proofs ----------------------------
(***************************************************************************)
(* Proofs about the conversion of rows: FillRow, for tables of any number  *)
(* of fields, columns, rows and chunks, chunks without rows included; and  *)
(* ParquetValues, where every cell there can be becomes the date, the time *)
(* or the number that it stands for.  The lemma CivilDateIsTheDay is about *)
(* days_to_mysql_date alone: it inverts the calendar.                      *)
(***************************************************************************)
EXTENDS FillRow, ParquetValues, TLAPS

\* What ChunksAssumption says of one column.
LEMMA ChunkFacts ==
  ASSUME NEW k \in Columns
  PROVE  /\ NumChunks[k] \in Nat
         /\ Start[k][0] = 0 /\ Start[k][NumChunks[k]] = NumRows
         /\ \A d \in Chunks(k) :
              /\ d \in Nat
              /\ Len[k][d] \in Nat /\ Start[k][d] \in Nat
              /\ Start[k][d + 1] = Start[k][d] + Len[k][d]
         /\ \A d, e \in Chunks(k) : d < e => Start[k][d] + Len[k][d] <= Start[k][e]
<1>1. /\ NumChunks \in [Columns -> Nat]
      /\ Len[k] \in [Chunks(k) -> Nat]
      /\ Start[k] \in [0 .. NumChunks[k] -> Nat]
  BY ChunksAssumption
<1>2. NumChunks[k] \in Nat
  BY <1>1
<1>3. ASSUME NEW d \in Chunks(k)
      PROVE  d \in Nat /\ Len[k][d] \in Nat /\ Start[k][d] \in Nat
  <2>1. d \in 0 .. NumChunks[k] /\ d \in Nat
    BY <1>2 DEF Chunks
  <2>2. QED
    BY <1>1, <2>1
<1>4. QED
  BY <1>2, <1>3, ChunksAssumption

\* Chunks do not overlap: a cell at row i is the only one, so it is CellAt.
LEMMA OneCellPerRow ==
  ASSUME NEW k \in Columns, NEW i \in RowIdx, NEW ch \in Chunks(k), NEW off \in Nat,
         off < Len[k][ch], Start[k][ch] + off = i
  PROVE  CellAt(k, i) = <<ch, off>>
<1> DEFINE At(d) == <<d, i - Start[k][d]>>
           Cands == {p \in {At(d) : d \in Chunks(k)} : p[2] \in 0 .. (Len[k][p[1]] - 1)}
<1>1. /\ NumChunks[k] \in Nat
      /\ \A d \in Chunks(k) : Start[k][d] \in Nat /\ Len[k][d] \in Nat
      /\ \A d, e \in Chunks(k) : d < e => Start[k][d] + Len[k][d] <= Start[k][e]
  BY ChunkFacts
<1>2. At(ch) = <<ch, off>> /\ At(ch) \in Cands
  BY <1>1
<1>3. ASSUME NEW p \in Cands PROVE p = <<ch, off>>
  <2>1. PICK d \in Chunks(k) : p = At(d) /\ i - Start[k][d] \in 0 .. (Len[k][d] - 1)
    OBVIOUS
  <2>2. d \in Int /\ ch \in Int /\ i \in Int
    BY <1>1 DEF Chunks, RowIdx
  <2>3. ~ (d < ch) /\ ~ (ch < d)
    BY <1>1, <2>1, <2>2
  <2>4. d = ch
    BY <2>2, <2>3
  <2>5. QED
    BY <1>2, <2>1, <2>4
<1>4. CellAt(k, i) \in Cands
  BY <1>2 DEF CellAt
<1>5. QED
  BY <1>3, <1>4

LEMMA SearchedColumn ==
  ASSUME IInv, pc \in {"chunk", "fill"}
  PROVE  col \in Columns /\ row \in RowIdx
<1>1. col \in Nat /\ col < NumColumns /\ row \in RowIdx
  BY DEF IInv, TypeOK, LoopInv
<1>2. QED
  BY <1>1, SizesAssumption DEF Columns

LEMMA InitIInv == Init => IInv
BY DEF Init, IInv, TypeOK, LoopInv, FindsTheCell, BufferInv, FieldsReadRow

\* The search over chunks.
LEMMA SearchIInv ==
  ASSUME IInv, StartSearch \/ SkipChunk \/ EndSearch
  PROVE  IInv'
<1> USE DEF IInv, TypeOK, LoopInv
<1>1. BufferInv' /\ FieldsReadRow'
  BY DEF StartSearch, SkipChunk, EndSearch, buffer, BufferInv, FieldsReadRow, FieldDone, Reads
<1>2. CASE StartSearch
  <2>1. col \in Columns /\ NumChunks[col] \in Nat /\ Start[col][0] = 0
    BY <1>2, SizesAssumption, ChunksAssumption DEF StartSearch, Columns, Fields
  <2>2. TypeOK' /\ LoopInv'
    BY <1>2, <2>1 DEF StartSearch, buffer, RowIdx
  <2>3. QED
    BY <1>1, <1>2, <2>2 DEF StartSearch, FindsTheCell
<1>3. CASE SkipChunk
  <2>1. col \in Columns /\ c \in Chunks(col) /\ row \in RowIdx
    BY <1>3, SearchedColumn DEF SkipChunk
  <2>2. /\ NumChunks[col] \in Nat /\ Len[col][c] \in Nat
        /\ Start[col][c] \in Nat /\ Start[col][c + 1] = Start[col][c] + Len[col][c]
    BY <2>1, ChunkFacts
  <2>3. remaining' \in Nat /\ c + 1 \in 0 .. NumChunks[col]
    BY <1>3, <2>1, <2>2 DEF SkipChunk, Chunks
  <2>4. TypeOK' /\ LoopInv'
    BY <1>3, <2>1, <2>2, <2>3 DEF SkipChunk, buffer, RowIdx
  <2>5. QED
    BY <1>1, <1>3, <2>4 DEF SkipChunk, FindsTheCell
<1>4. CASE EndSearch
  <2>1. col \in Columns /\ row \in RowIdx
    BY <1>4, SearchedColumn DEF EndSearch
  <2>2. /\ NumChunks[col] \in Nat /\ Start[col][NumChunks[col]] = NumRows
        /\ \A d \in Chunks(col) : Len[col][d] \in Nat /\ Start[col][d] \in Nat
    BY <2>1, ChunkFacts
  <2>3. c \in Chunks(col)
    <3>1. remaining = row - Start[col][c] /\ remaining \in Nat /\ c \in 0 .. NumChunks[col]
      BY <1>4 DEF EndSearch
    <3>2. c # NumChunks[col]
      <4>1. NumRows \in Int /\ row \in Int /\ row < NumRows
        BY <2>1, SizesAssumption DEF RowIdx
      <4>2. QED
        BY <2>2, <3>1, <4>1
    <3>3. QED
      BY <2>2, <3>1, <3>2 DEF Chunks
  <2>4. arr' = c /\ offset' = remaining /\ remaining < Len[col][c]
    BY <1>4, <2>3 DEF EndSearch
  <2>5. TypeOK' /\ LoopInv'
    BY <1>4, <2>3, <2>4 DEF EndSearch, buffer
  <2>6. FindsTheCell'
    BY <1>4, <2>1, <2>2, <2>3, <2>4 DEF EndSearch, FindsTheCell, RowIdx
  <2>7. QED
    BY <1>1, <2>5, <2>6
<1>5. QED
  BY <1>2, <1>3, <1>4

\* What filling in field col has to show: the other fields keep what they hold.
LEMMA FieldStep ==
  ASSUME IInv, NEW f \in Fields, f = col, pc # "done", NextField, UNCHANGED row, TypeOK',
         \A g \in Fields \ {f} : isNull'[g] = isNull[g] /\ value'[g] = value[g],
         FieldDone(f)'
  PROVE  IInv'
<1>1. pc' = "field" /\ col' = col + 1 /\ col \in Nat
  BY DEF NextField, IInv, TypeOK
<1>2. LoopInv' /\ FindsTheCell' /\ FieldsReadRow'
  BY <1>1 DEF IInv, LoopInv, FindsTheCell, FieldsReadRow
<1>3. ASSUME NEW g \in Fields, g < col' PROVE FieldDone(g)'
  <2>1. CASE g = f
    BY <2>1
  <2>2. CASE g # f
    <3>1. g < col /\ FieldDone(g)
      BY <1>1, <1>3, <2>2, SizesAssumption DEF Fields, IInv, BufferInv
    <3>2. QED
      BY <3>1, <2>2 DEF FieldDone, Reads
  <2>3. QED
    BY <2>1, <2>2
<1>4. QED
  BY <1>2, <1>3 DEF IInv, BufferInv

LEMMA MissingColumnIInv ==
  ASSUME IInv, MissingColumn
  PROVE  IInv'
<1>1. PICK f \in Fields : f = col /\ f >= NumColumns
  BY DEF MissingColumn
<1>2. TypeOK'
  BY DEF MissingColumn, SetNull, NextField, IInv, TypeOK
<1>3. f \in Nullable => isNull'[f] = TRUE
  BY <1>1 DEF MissingColumn, SetNull, IInv, TypeOK
<1>4. Expected(f, row') = NULL
  BY <1>1 DEF Expected
<1>5. FieldDone(f)'
  BY <1>3, <1>4 DEF FieldDone, Reads
<1>6. \A g \in Fields \ {f} : isNull'[g] = isNull[g] /\ value'[g] = value[g]
  BY <1>1 DEF MissingColumn, SetNull, IInv, TypeOK
<1>7. QED
  BY <1>1, <1>2, <1>5, <1>6, FieldStep DEF MissingColumn

\* At the end of the search the cell found is the one at the row asked for.
LEMMA FoundCell ==
  ASSUME IInv, pc = "fill"
  PROVE  /\ col \in Fields /\ ~ (col >= NumColumns)
         /\ arr # NULL
         /\ <<arr, offset>> \in Cell
         /\ CellAt(col, row) = <<arr, offset>>
<1>1. col \in Fields /\ col < NumColumns /\ col \in Columns /\ row \in RowIdx
  BY SearchedColumn DEF IInv, LoopInv
<1>2. ~ (col >= NumColumns)
  BY <1>1, SizesAssumption DEF Fields
<1>3. arr \in Chunks(col) /\ offset < Len[col][arr] /\ Start[col][arr] + offset = row
  BY DEF IInv, FindsTheCell
<1>4. arr \in Nat /\ offset \in Nat
  BY <1>1, <1>3, ChunksAssumption DEF IInv, TypeOK, Chunks
<1>5. CellAt(col, row) = <<arr, offset>>
  BY <1>1, <1>3, <1>4, OneCellPerRow
<1>6. QED
  BY <1>1, <1>2, <1>4, <1>5, SizesAssumption DEF Cell

LEMMA FillNullIInv ==
  ASSUME IInv, FillNull
  PROVE  IInv'
<1>1. PICK f \in Fields : f = col
  BY FoundCell DEF FillNull
<1>2. TypeOK'
  BY <1>1 DEF FillNull, SetNull, NextField, IInv, TypeOK
<1>3. f \in Nullable => isNull'[f] = TRUE
  BY <1>1 DEF FillNull, SetNull, IInv, TypeOK
<1>4. Expected(f, row') = NULL
  BY <1>1, FoundCell DEF FillNull, HasValue, Expected
<1>5. FieldDone(f)'
  BY <1>3, <1>4 DEF FieldDone, Reads
<1>6. \A g \in Fields \ {f} : isNull'[g] = isNull[g] /\ value'[g] = value[g]
  BY <1>1 DEF FillNull, SetNull, IInv, TypeOK
<1>7. QED
  BY <1>1, <1>2, <1>5, <1>6, FieldStep DEF FillNull

LEMMA FillValueIInv ==
  ASSUME IInv, FillValue
  PROVE  IInv'
<1>1. PICK f \in Fields : f = col /\ ~ (f >= NumColumns)
  BY FoundCell DEF FillValue
<1>2. /\ arr # NULL /\ <<arr, offset>> \in Cell /\ CellAt(f, row) = <<arr, offset>>
      /\ <<arr, offset>> \notin Nulls[f]
  BY <1>1, FoundCell DEF FillValue, HasValue
<1>3. CASE <<arr, offset>> \in Unprintable[f]
  <2>1. SetNull /\ value' = value /\ NextField /\ UNCHANGED <<row, c, remaining, arr, offset>>
    BY <1>1, <1>3 DEF FillValue
  <2>2. TypeOK'
    BY <1>1, <2>1 DEF SetNull, NextField, IInv, TypeOK
  <2>3. f \in Nullable => isNull'[f] = TRUE
    BY <1>1, <2>1 DEF SetNull, IInv, TypeOK
  <2>4. Expected(f, row') = NULL
    BY <1>1, <1>2, <1>3, <2>1 DEF Expected
  <2>5. FieldDone(f)'
    BY <2>3, <2>4 DEF FieldDone, Reads
  <2>6. \A g \in Fields \ {f} : isNull'[g] = isNull[g] /\ value'[g] = value[g]
    BY <1>1, <2>1 DEF SetNull, IInv, TypeOK
  <2>7. QED
    BY <1>1, <2>1, <2>2, <2>5, <2>6, FieldStep DEF FillValue
<1>4. CASE <<arr, offset>> \notin Unprintable[f]
  <2>1. /\ SetNotNull /\ value' = [value EXCEPT ![col] = <<arr, offset>>]
        /\ NextField /\ UNCHANGED <<row, c, remaining, arr, offset>>
    BY <1>1, <1>4 DEF FillValue
  <2>2. TypeOK'
    BY <1>1, <1>2, <2>1 DEF SetNotNull, NextField, IInv, TypeOK
  <2>3. /\ f \in Nullable => isNull'[f] = FALSE
        /\ value'[f] = <<arr, offset>>
    BY <1>1, <2>1 DEF SetNotNull, IInv, TypeOK
  <2>4. Expected(f, row') = <<arr, offset>>
    BY <1>1, <1>2, <1>4, <2>1 DEF Expected
  <2>5. FieldDone(f)'
    BY <2>3, <2>4 DEF FieldDone, Reads
  <2>6. \A g \in Fields \ {f} : isNull'[g] = isNull[g] /\ value'[g] = value[g]
    BY <1>1, <2>1 DEF SetNotNull, IInv, TypeOK
  <2>7. QED
    BY <1>1, <2>1, <2>2, <2>5, <2>6, FieldStep DEF FillValue
<1>5. QED
  BY <1>1, <1>3, <1>4

LEMMA CallIInv ==
  ASSUME IInv, Call
  PROVE  IInv'
<1>1. TypeOK'
  BY DEF Call, IInv, TypeOK
<1>2. LoopInv' /\ FindsTheCell' /\ FieldsReadRow'
  BY DEF Call, LoopInv, FindsTheCell, FieldsReadRow
<1>3. BufferInv'
  BY SizesAssumption DEF Call, BufferInv, Fields
<1>4. QED
  BY <1>1, <1>2, <1>3 DEF IInv

LEMMA ReturnIInv ==
  ASSUME IInv, Return
  PROVE  IInv'
<1>1. \A f \in Fields : f < col
  BY SizesAssumption DEF Return, IInv, TypeOK, Fields
<1>2. TypeOK' /\ LoopInv' /\ FindsTheCell' /\ BufferInv'
  BY DEF Return, locals, buffer, IInv, TypeOK, LoopInv, FindsTheCell, BufferInv
<1>3. FieldsReadRow'
  BY <1>1 DEF Return, locals, buffer, IInv, BufferInv, FieldsReadRow, FieldDone, Reads
<1>4. QED
  BY <1>2, <1>3 DEF IInv

\* The search skips the rows before the chunk it looks at, and the loop over
\* fields leaves no field of the rows before it.
THEOREM Invariance == Spec => []IInv
<1>1. IInv /\ [Next]_vars => IInv'
  <2> SUFFICES ASSUME IInv, [Next]_vars PROVE IInv'
    OBVIOUS
  <2>1. CASE UNCHANGED vars
    BY <2>1 DEF vars, locals, buffer, IInv, TypeOK, LoopInv, FindsTheCell, BufferInv,
                FieldsReadRow, FieldDone, Reads
  <2>2. QED
    BY <2>1, CallIInv, MissingColumnIInv, SearchIInv, FillNullIInv, FillValueIInv,
       ReturnIInv DEF Next
<1>2. QED
  BY InitIInv, <1>1, PTL DEF Spec

\* The local variables and the record buffer keep their types; in particular
\* `remaining` never becomes negative.
THEOREM TypeCorrect == Spec => []TypeOK
<1>1. IInv => TypeOK
  BY DEF IInv
<1>2. QED
  BY <1>1, Invariance, PTL

\* However a column is cut into chunks, the search ends at the row asked for.
THEOREM SearchFindsTheCell == Spec => []FindsTheCell
<1>1. IInv => FindsTheCell
  BY DEF IInv
<1>2. QED
  BY <1>1, Invariance, PTL

\* Whatever rows were filled in before, the record read after a call is the
\* row it was called for, but for the NULLs of NOT NULL fields.
THEOREM RecordIsTheRow == Spec => []FieldsReadRow
<1>1. IInv => FieldsReadRow
  BY DEF IInv
<1>2. QED
  BY <1>1, Invariance, PTL

(***************************************************************************)
(* The bounds that the comments of days_to_mysql_date state.               *)
(***************************************************************************)

\* doe is in [0, 146096], for days before 1970 as well: the division of the
\* era is by the floor.
LEMMA DayOfEraBounds ==
  ASSUME NEW z \in Int
  PROVE  /\ Era(z) \in Int
         /\ DayOfEra(z) \in Int /\ 0 <= DayOfEra(z) /\ DayOfEra(z) <= 146096
         /\ z = Era(z) * 146097 + DayOfEra(z)
BY SMT DEF Era, DayOfEra

\* yoe is in [0, 399], doy in [0, 365] and mp in [0, 11].
LEMMA PartBounds ==
  ASSUME NEW doe \in Int, 0 <= doe, doe <= 146096
  PROVE  /\ YearOfEra(doe) \in Int /\ 0 <= YearOfEra(doe) /\ YearOfEra(doe) <= 399
         /\ DayOfYear(doe) \in Int /\ 0 <= DayOfYear(doe) /\ DayOfYear(doe) <= 365
         /\ MonthPart(DayOfYear(doe)) \in 0 .. 11
<1>1. YearOfEra(doe) \in Int /\ 0 <= YearOfEra(doe) /\ YearOfEra(doe) <= 399
  BY SMTT(60) DEF YearOfEra
<1>2. DayOfYear(doe) \in Int /\ 0 <= DayOfYear(doe) /\ DayOfYear(doe) <= 365
  BY SMTT(60) DEF YearOfEra, DayOfYear
<1>3. MonthPart(DayOfYear(doe)) \in 0 .. 11
  BY <1>2, SMTT(30) DEF MonthPart
<1> QED BY <1>1, <1>2, <1>3

\* A year has a 366th day, counted from March, only if February of the next
\* year has 29.
LEMMA LastDayOfYear ==
  ASSUME NEW doe \in Int, 0 <= doe, doe <= 146096, DayOfYear(doe) = 365
  PROVE  IsLeap(YearOfEra(doe) + 1)
BY SMTT(100) DEF DayOfYear, YearOfEra, IsLeap

(***************************************************************************)
(* The calendar.                                                           *)
(***************************************************************************)

\* The leap years repeat after an era of 400 years.
LEMMA IsLeapOfEra ==
  ASSUME NEW y \in Int, NEW era \in Int
  PROVE  IsLeap(y + era * 400) <=> IsLeap(y)
BY SMTT(30) DEF IsLeap

\* A leap year adds a day.
LEMMA LeapsStep ==
  ASSUME NEW y \in Int
  PROVE  /\ Leaps(y) \in Int /\ Leaps(y - 1) \in Int
         /\ Leaps(y) = Leaps(y - 1) + (IF IsLeap(y) THEN 1 ELSE 0)
BY SMTT(60) DEF Leaps, IsLeap

\* What the month and the day say of the day of the year, which starts in March.
LEMMA MonthOfDay ==
  ASSUME NEW doy \in Int, 0 <= doy, doy <= 365,
         NEW y \in Int, doy = 365 => IsLeap(y)
  PROVE  LET mp == MonthPart(doy)
             m == Month(mp)
             d == doy - (153 * mp + 2) \div 5 + 1
         IN /\ m \in 1 .. 12 /\ d \in 1 .. DaysIn(y, m)
            /\ MonthStart(m) + d - 1 = doy + 59 - (IF m <= 2 THEN 365 ELSE 0)
<1> DEFINE mp == MonthPart(doy)
           m == Month(mp)
           d == doy - (153 * mp + 2) \div 5 + 1
<1>1. mp \in 0 .. 11 /\ 153 * mp <= 5 * doy + 2 /\ 5 * doy + 2 <= 153 * mp + 152
  BY SMT DEF MonthPart
<1> HIDE DEF mp
<1>2. m \in 1 .. 12
  BY <1>1, SMT DEF Month
<1>3. d \in 1 .. DaysIn(y, m)
  BY <1>1, SMTT(60) DEF Month, DaysIn
<1>4. MonthStart(m) + d - 1 = doy + 59 - (IF m <= 2 THEN 365 ELSE 0)
  BY <1>1, SMTT(60) DEF Month, MonthStart
<1> QED BY <1>2, <1>3, <1>4 DEF mp

\* The date of a day is a date of the calendar, and the day of that date is
\* the day again.
LEMMA CivilDateIsTheDay ==
  ASSUME NEW days \in Int
  PROVE  LET t == CivilDate(days) IN
         /\ t.year \in Int /\ t.month \in 1 .. 12
         /\ t.day \in 1 .. DaysIn(t.year, t.month)
         /\ DayNumber(t.year, t.month, t.day) = days
<1> DEFINE z == days + 719468
           doe == DayOfEra(z)
           era == Era(z)
           yoe == YearOfEra(doe)
           doy == DayOfYear(doe)
           mp == MonthPart(doy)
           m == Month(mp)
           d == doy - (153 * mp + 2) \div 5 + 1
           y == yoe + era * 400 + (IF m <= 2 THEN 1 ELSE 0)
<1>1. CivilDate(days) = [year |-> y, month |-> m, day |-> d]
  BY DEF CivilDate
<1>2. /\ doe \in Int /\ 0 <= doe /\ doe <= 146096
      /\ era \in Int /\ z = era * 146097 + doe
  BY DayOfEraBounds, SMT
<1> HIDE DEF z, era, doe
<1>3. /\ yoe \in Int /\ 0 <= yoe /\ yoe <= 399
      /\ doy \in Int /\ 0 <= doy /\ doy <= 365 /\ mp \in 0 .. 11
  BY <1>2, PartBounds, SMT
<1>4. doy = 365 => IsLeap(yoe + era * 400 + 1)
  <2>1. doy = 365 => IsLeap(yoe + 1)
    BY <1>2, LastDayOfYear
  <2>2. yoe + 1 \in Int /\ yoe + 1 + era * 400 = yoe + era * 400 + 1
    BY <1>2, <1>3, SMT
  <2>3. IsLeap(yoe + 1 + era * 400) <=> IsLeap(yoe + 1)
    BY <1>2, <2>2, IsLeapOfEra
  <2> QED BY <2>1, <2>2, <2>3
<1>5. doe = 365 * yoe + yoe \div 4 - yoe \div 100 + doy
  BY <1>2, <1>3, SMT DEF DayOfYear
<1> HIDE DEF yoe, doy
<1>6. m \in 1 .. 12 /\ y \in Int
  BY <1>2, <1>3, SMT DEF Month
<1>7. /\ d \in 1 .. DaysIn(y, m)
      /\ MonthStart(m) + d - 1 = doy + 59 - (IF m <= 2 THEN 365 ELSE 0)
  <2>1. CASE m <= 2
    <3>1. y = yoe + era * 400 + 1
      BY <2>1, <1>2, <1>3, SMT
    <3> QED BY <3>1, <1>3, <1>4, <1>6, MonthOfDay
  <2>2. CASE ~ (m <= 2)
    <3>1. yoe + era * 400 + 1 \in Int
      BY <1>2, <1>3, SMT
    <3>2. DaysIn(yoe + era * 400 + 1, m) = DaysIn(y, m)
      BY <2>2, <1>6, SMT DEF DaysIn
    <3> QED BY <3>1, <3>2, <1>3, <1>4, MonthOfDay
  <2> QED BY <2>1, <2>2
<1>8. DayNumber(y, m, d) = days
  <2>1. Leaps(y - 1) + (IF m > 2 /\ IsLeap(y) THEN 1 ELSE 0)
          = yoe \div 4 - yoe \div 100 + 97 * era
    <3>1. Leaps(yoe + era * 400) = yoe \div 4 - yoe \div 100 + 97 * era
      BY <1>2, <1>3, SMTT(30) DEF Leaps
    <3>2. CASE m <= 2
      <4>1. y - 1 = yoe + era * 400 /\ ~ (m > 2)
        BY <3>2, <1>2, <1>3, <1>6, SMT
      <4>2. yoe \div 4 - yoe \div 100 + 97 * era \in Int
        BY <1>2, <1>3, SMT
      <4> QED BY <3>1, <4>1, <4>2, SMT
    <3>3. CASE ~ (m <= 2)
      <4>1. y = yoe + era * 400 /\ m > 2
        BY <3>3, <1>2, <1>3, <1>6, SMT
      <4> QED BY <3>1, <4>1, <1>6, LeapsStep, SMT
    <3> QED BY <3>2, <3>3
  <2>2. Leaps(1969) = 477 /\ Leaps(y - 1) \in Int
    BY <1>6, SMT DEF Leaps
  <2>3. d \in Int /\ MonthStart(m) \in Int
    BY <1>3, <1>6, SMT DEF MonthStart
  <2>4. days = z - 719468 /\ z \in Int
    BY SMT DEF z
  <2> QED BY <1>2, <1>3, <1>5, <1>6, <1>7, <2>1, <2>2, <2>3, <2>4, SMTT(60) DEF DayNumber
<1> QED BY <1>1, <1>6, <1>7, <1>8

(***************************************************************************)
(* The cells.                                                              *)
(***************************************************************************)

\* What was stored is the conversion of a cell of the file.
Stored ==
  \/ cell = NoCell
  \/ \E n \in Days : cell = <<"DATE32", n>> /\ field = MysqlTime(n, 0, 0)
  \/ \E v \in Millis :
       cell = <<"DATE64", v>> /\ field = MysqlTime(Int32Days(v), 0, 0)
  \/ \E v \in Stamps :
       /\ cell = <<"TIMESTAMP", v>>
       /\ field = GmTime(Quotient(v[2], v[3]), Usecs(v[1], v[2], v[3]))
  \/ \E hf \in Halfs : cell = <<"HALF_FLOAT", hf>> /\ field = Float32(hf)

\* Whatever is converted, the field holds the conversion of that cell.
LEMMA StoredInvariant == ValueSpec => []Stored
<1>1. ValueInit => Stored
  BY DEF ValueInit, Stored
<1>2. Stored /\ [ValueNext]_valueVars => Stored'
  <2> SUFFICES ASSUME Stored, [ValueNext]_valueVars PROVE Stored'
    OBVIOUS
  <2>1. CASE StoreDate32
    BY <2>1 DEF StoreDate32, Store, Stored
  <2>2. CASE StoreDate64
    BY <2>2 DEF StoreDate64, Store, Stored
  <2>3. CASE StoreTimestamp
    BY <2>3 DEF StoreTimestamp, Store, Stored
  <2>4. CASE StoreHalf
    BY <2>4 DEF StoreHalf, Store, Stored
  <2>5. CASE NextCell
    BY <2>5 DEF NextCell, Stored
  <2>6. CASE UNCHANGED valueVars
    BY <2>6 DEF valueVars, Stored
  <2> QED BY <2>1, <2>2, <2>3, <2>4, <2>5, <2>6 DEF ValueNext
<1> QED BY <1>1, <1>2, PTL DEF ValueSpec

\* The bounds of the cells are numbers; their values do not matter.
LEMMA Bounds ==
  MaxInt32 \in Nat /\ MinInt32 \in Int /\ MaxUint16 \in Nat /\ DayMillis \in Nat
BY DEF MaxInt32, MinInt32, MaxUint16, DayMillis

\* What MYSQL_TIME says of a day from year 0 on.
LEMMA MysqlTimeIsTheDay ==
  ASSUME NEW days \in Int, NEW s, NEW usecs,
         MysqlTime(days, s, usecs).year # Wrapped
  PROVE  /\ IsDate(MysqlTime(days, s, usecs))
         /\ DayOf(MysqlTime(days, s, usecs)) = days
<1> DEFINE t == CivilDate(days)
           f == MysqlTime(days, s, usecs)
<1>1. f.year = Uint(t.year) /\ f.month = t.month /\ f.day = t.day
  BY DEF MysqlTime
<1>2. f.year = t.year
  BY <1>1 DEF Uint
<1> QED BY <1>1, <1>2, CivilDateIsTheDay DEF IsDate, DayOf

\* Every DATE32 becomes its day of the calendar (days_to_mysql_date), and so
\* does every DATE64 that has a day, counted modulo 2^32: the day itself where an
\* int32_t holds the count.
THEOREM DatesAreTheDays == ValueSpec => []DateIsTheDay
<1>1. Stored => DateIsTheDay
  <2> SUFFICES ASSUME Stored, cell # NoCell, cell[1] \in {"DATE32", "DATE64"},
                      field.year # Wrapped
               PROVE  /\ IsDate(field)
                      /\ cell[1] = "DATE32" => DayOf(field) = cell[2]
                      /\ cell[1] = "DATE64" /\ HasDay(cell[2]) => DayOf(field) = cell[2][2]
    BY DEF DateIsTheDay
  <2>1. CASE cell[1] = "DATE32"
    <3>1. PICK n \in Days : cell = <<"DATE32", n>> /\ field = MysqlTime(n, 0, 0)
      BY <2>1 DEF Stored
    <3>2. n \in Int
      BY DaysAssumption, Bounds, SMT DEF GoodDays
    <3> QED BY <3>1, <3>2, MysqlTimeIsTheDay
  <2>2. CASE cell[1] = "DATE64"
    <3>1. PICK v \in Millis :
            cell = <<"DATE64", v>> /\ field = MysqlTime(Int32Days(v), 0, 0)
      BY <2>2 DEF Stored
    <3>2. v[2] \in Int /\ v[3] \in Nat
      BY MillisAssumption, Bounds, SMT DEF GoodDays
    <3>3. Int32Days(v) \in Int
      BY <3>2, SMT DEF Int32Days
    <3>4. HasDay(v) => Int32Days(v) = v[2]
      BY <3>2, SMT DEF Int32Days, HasDay
    <3> QED BY <2>2, <3>1, <3>3, <3>4, MysqlTimeIsTheDay
  <2> QED BY <2>1, <2>2
<1> QED BY <1>1, StoredInvariant, PTL

\* The time of day of a number of seconds.
LEMMA TimeOfDay ==
  ASSUME NEW s \in Int, 0 <= s, s <= 86399
  PROVE  /\ s \div 3600 \in 0 .. 23 /\ (s \div 60) % 60 \in 0 .. 59 /\ s % 60 \in 0 .. 59
         /\ (s \div 3600) * 3600 + ((s \div 60) % 60) * 60 + (s % 60) = s
<1>1. s \div 3600 \in 0 .. 23
  BY SMT
<1>2. (s \div 60) % 60 \in 0 .. 59 /\ s % 60 \in 0 .. 59
  BY SMT
<1>3. (s \div 3600) * 3600 + ((s \div 60) % 60) * 60 + (s % 60) = s
  <2>1. s \div 60 \in Int /\ s = (s \div 60) * 60 + (s % 60)
    BY SMT
  <2>2. s \div 3600 = (s \div 60) \div 60
    BY SMTT(30)
  <2>3. \A n \in Int : (n \div 60) * 60 + (n % 60) = n
    BY SMT
  <2>4. ((s \div 60) \div 60) * 60 + ((s \div 60) % 60) = s \div 60
    BY <2>1, <2>3
  <2> QED BY <2>1, <2>2, <2>4, SMT
<1> QED BY <1>1, <1>2, <1>3

\* The microseconds of a count of ticks that is not negative.
LEMMA UsecsOfTicks ==
  ASSUME NEW unit \in Units, NEW sec \in Int, NEW ticks \in Int,
         0 <= ticks, ticks < unit, sec >= 0 \/ ticks = 0
  PROVE  /\ Quotient(sec, ticks) = sec
         /\ Usecs(unit, sec, ticks)
              = IF unit <= 1000000 THEN ticks * (1000000 \div unit)
                ELSE ticks \div (unit \div 1000000)
         /\ Usecs(unit, sec, ticks) \in Nat
<1>1. Quotient(sec, ticks) = sec /\ Remainder(unit, sec, ticks) = ticks
  BY SMT DEF Quotient, Remainder
<1>2. CASE unit = 1
  BY <1>1, <1>2, SMT DEF Usecs
<1>3. CASE unit = 1000
  BY <1>1, <1>3, SMT DEF Usecs
<1>4. CASE unit = 1000000
  BY <1>1, <1>4, SMT DEF Usecs
<1>5. CASE unit = 1000000000
  BY <1>1, <1>5, SMT DEF Usecs, CutDiv
<1> QED BY <1>1, <1>2, <1>3, <1>4, <1>5 DEF Units

\* From 1970 on, and for whole seconds before, a TIMESTAMP in any unit becomes
\* the date, time and microsecond it stands for (the TIMESTAMP case of fill_row).
THEOREM TimestampsAreTheTimes == ValueSpec => []TimestampIsTheTime
<1>1. Stored => TimestampIsTheTime
  <2> SUFFICES ASSUME Stored, cell # NoCell, cell[1] = "TIMESTAMP", field.year # Wrapped,
                      cell[2][2] >= 0 \/ cell[2][3] = 0
               PROVE  TimestampIsTheTime
    BY DEF TimestampIsTheTime
  <2>1. PICK v \in Stamps :
          /\ cell = <<"TIMESTAMP", v>>
          /\ field = GmTime(Quotient(v[2], v[3]), Usecs(v[1], v[2], v[3]))
    BY DEF Stored
  <2> DEFINE unit == v[1]
             sec == v[2]
             ticks == v[3]
             days == sec \div 86400
             s == sec % 86400
             usecs == Usecs(unit, sec, ticks)
  <2>2. unit \in Units /\ sec \in Int /\ ticks \in Int /\ 0 <= ticks /\ ticks < unit
    <3>1. unit \in Units /\ sec \in Int /\ ticks \in 0 .. (unit - 1)
      BY StampsAssumption
    <3> QED BY <3>1, SMT DEF Units
  <2>3. cell[2][1] = unit /\ cell[2][2] = sec /\ cell[2][3] = ticks
    BY <2>1
  <2> HIDE DEF unit, sec, ticks
  <2>4. sec >= 0 \/ ticks = 0
    BY <2>3
  <2>5. field = MysqlTime(days, s, usecs)
    BY <2>1, <2>2, <2>4, UsecsOfTicks DEF GmTime, unit, sec, ticks
  <2>6. days \in Int /\ s \in Int /\ 0 <= s /\ s <= 86399
    BY <2>2, SMT
  <2>7. IsDate(field) /\ DayOf(field) = days
    BY <2>5, <2>6, MysqlTimeIsTheDay
  <2>8. /\ field.hour = s \div 3600 /\ field.minute = (s \div 60) % 60
        /\ field.second = s % 60 /\ field.second_part = usecs
    <3>1. usecs \in Nat
      BY <2>2, <2>4, UsecsOfTicks
    <3>2. Uint(usecs) = usecs
      BY <3>1, SMT DEF Uint
    <3> QED BY <2>5, <3>2 DEF MysqlTime
  <2>9. usecs = IF unit <= 1000000 THEN ticks * (1000000 \div unit)
                ELSE ticks \div (unit \div 1000000)
    BY <2>2, <2>4, UsecsOfTicks
  <2> HIDE DEF days, s, usecs
  <2>10. /\ field.hour \in 0 .. 23 /\ field.minute \in 0 .. 59 /\ field.second \in 0 .. 59
         /\ field.hour * 3600 + field.minute * 60 + field.second = s
    BY <2>6, <2>8, TimeOfDay
  <2> QED BY <2>3, <2>7, <2>8, <2>9, <2>10 DEF TimestampIsTheTime, days, s
<1> QED BY <1>1, StoredInvariant, PTL

\* Every half but the subnormal ones becomes a float of the same value (the
\* HALF_FLOAT case of fill_row).
THEOREM HalvesKeepTheirValue == ValueSpec => []HalfIsItsValue
<1>1. ASSUME NEW hf \in Nat, ~ IsSubnormal(hf)
      PROVE  SameValue(hf, Float32(hf))
  <2> DEFINE e == Exponent(hf)
             m == Mantissa(hf)
             f == Float32(hf)
  <2>1. e \in 0 .. 31 /\ m \in Int /\ 0 <= m /\ m <= 1023
    BY SMT DEF Exponent, Mantissa
  <2>2. /\ f.sign = Sign(hf) /\ f.frac = m * 8192
        /\ f.exp = IF e = 0 THEN 0 ELSE IF e = 31 THEN 255 ELSE e + 112
    BY DEF Float32
  <2>3. e = 0 => m = 0
    BY <1>1 DEF IsSubnormal
  <2> HIDE DEF e, m, f
  <2>4. CASE e = 31
    BY <2>1, <2>2, <2>4, SMT DEF SameValue, e, m, f
  <2>5. CASE e # 31
    <3>1. f.exp # 255
      BY <2>1, <2>2, <2>5, SMT
    <3>2. CASE e = 0
      <4>1. FloatSignificand(f) = 0 /\ HalfSignificand(hf) = 0
        BY <2>2, <2>3, <3>2, SMT DEF FloatSignificand, HalfSignificand, e, m
      <4> QED BY <2>2, <2>5, <3>1, <4>1, SMT DEF SameValue, e, f
    <3>3. CASE e # 0
      <4>1. FloatSignificand(f) = HalfSignificand(hf) * 8192
        BY <2>1, <2>2, <2>5, <3>3, SMT DEF FloatSignificand, HalfSignificand, e, m
      <4>2. FloatScale(f) + 13 = HalfScale(hf)
        BY <2>1, <2>2, <2>5, <3>3, SMT DEF FloatScale, HalfScale, e
      <4> QED BY <2>2, <2>5, <3>1, <4>1, <4>2 DEF SameValue, e, f
    <3> QED BY <3>2, <3>3
  <2> QED BY <2>4, <2>5 DEF f
<1>2. Stored => HalfIsItsValue
  <2> SUFFICES ASSUME Stored, cell # NoCell, cell[1] = "HALF_FLOAT", ~ IsSubnormal(cell[2])
               PROVE  SameValue(cell[2], field)
    BY DEF HalfIsItsValue
  <2>1. PICK hf \in Halfs : cell = <<"HALF_FLOAT", hf>> /\ field = Float32(hf)
    BY DEF Stored
  <2>2. hf \in Nat
    BY HalfsAssumption, Bounds, SMT
  <2> QED BY <1>1, <2>1, <2>2
<1> QED BY <1>2, StoredInvariant, PTL
=============================================================================
