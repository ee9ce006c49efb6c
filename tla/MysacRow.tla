------------------------------ MODULE MysacRow ------------------------------
(***************************************************************************)
(* mysac_decode_row.c: one row of a result is decoded in place.  The bytes *)
(* of the packet are read from i on, and the texts are moved to wh, where  *)
(* the caller keeps them; the rest of the packet is thrown away.           *)
(*                                                                         *)
(* One action decodes one column.  A packet is made of the cells a server  *)
(* sends for the columns, and may have been cut at its end.  The columns'  *)
(* types are classes of enum_field_types that the code treats alike.       *)
(***************************************************************************)
EXTENDS Integers, SequencesExt

CONSTANTS
  StringRows,            \* rows in string form: sequences of cells [type, null, cell, bytes]
  BinaryRows,            \* rows in binary form: null where the column's bit is set
  Cuts                   \* how many bytes may be missing at the end of a packet

VARIABLE row

(* row.sent      what the server meant, column by column, and how much is missing *)
(* row.mem       the packet in memory and the byte behind it, from 0       *)
(* row.j, i, wh  the column; where reading and where writing has got to    *)
(* row.data      what each column has been given: nothing yet, NULL, a     *)
(*               pointer with its length, or a number or date read from    *)
(*               pieces of text or bytes                                   *)
(* row.reach     the furthest byte read or written so far                  *)

PacketLen == Len(row.packet)
Type == row.sent[row.j].type

Unset == [is |-> "unset"]
Null == [is |-> "null"]
Pointer(at, len) == [is |-> "text", at |-> at, len |-> len]
Value(parts) == [is |-> "value", parts |-> parts]

MaxOf(a, b) == IF a >= b THEN a ELSE b

Byte == 0 .. 255
NullMark == 251
Beyond == 99             \* the byte behind the packet, whatever it is

----------------------------------------------------------------------------
(* my_lcb: a length-coded integer at position k, of which left bytes are there *)

Little(bytes) == FoldRight(LAMBDA b, high : b + 256 * high, bytes, 0)
Bytes(mem, k, n) == [x \in 1 .. n |-> mem[k + x - 1]]

WordSize(first) == CASE first = 252 -> 2 [] first = 253 -> 3 [] first = 254 -> 8 [] OTHER -> 0

BadLcb == [size |-> -1, len |-> 0, nul |-> FALSE]

Lcb(mem, k, left) ==
  IF left < 1 \/ left < 1 + WordSize(mem[k]) THEN BadLcb
  ELSE [size |-> 1 + WordSize(mem[k]),
        len |-> CASE mem[k] = NullMark -> 0
                  [] WordSize(mem[k]) > 0 -> Little(Bytes(mem, k + 1, WordSize(mem[k])))
                  [] OTHER -> mem[k],
        nul |-> mem[k] = NullMark]

----------------------------------------------------------------------------
(* What a server sends *)

Numbers == {"tiny", "short", "int", "long", "decimal", "float", "double"}
Dates == {"time", "datetime", "date"}

WidthOf(type) == CASE type = "tiny" -> 1 [] type \in {"short", "year"} -> 2
                   [] type \in {"int", "float"} -> 4 [] OTHER -> 8

Cells == [type : Numbers \cup Dates \cup {"text", "year", "other"}, null : BOOLEAN,
          cell : Seq(Byte), bytes : Seq(Byte)]

\* The text, with its length in front of it in one of the forms there are.
IsSized(bytes, text) ==
  LET c == Lcb(bytes, 1, Len(bytes))
  IN /\ c.size # -1 /\ ~c.nul /\ c.len = Len(text)
     /\ Len(bytes) = c.size + Len(text)
     /\ text = SubSeq(bytes, c.size + 1, Len(bytes))

Digits == 48 .. 57
Point == 46

\* The text of a number or date has no zero in it, and a number one point at most.
IsStringCell(c) ==
  IF c.null THEN c.bytes = <<NullMark>>
  ELSE /\ IsSized(c.bytes, c.cell)
       /\ c.type \in {"text", "other"} \/ \A x \in DOMAIN c.cell : c.cell[x] # 0
       /\ c.type \in Numbers => \A x, y \in DOMAIN c.cell : c.cell[x] = Point /\ c.cell[y] = Point => x = y

\* A type that is not supported has bytes of its own, none of which is read,
\* and a DECIMAL is a text of which the code reads eight bytes: the columns
\* behind cannot be what was meant, and both are left out.
IsBinaryCell(c) ==
  IF c.null THEN c.bytes = <<>>
  ELSE \/ c.type \in (Numbers \ {"decimal"}) \cup {"year"} /\ c.bytes = c.cell /\ Len(c.cell) = WidthOf(c.type)
       \/ c.type = "text" /\ IsSized(c.bytes, c.cell)
       \/ c.type = "time" /\ IsSized(c.bytes, c.cell) /\ Len(c.cell) \in {0, 8, 12}
       \/ c.type = "datetime" /\ IsSized(c.bytes, c.cell) /\ Len(c.cell) \in {0, 4, 7, 11}
       \/ c.type = "date" /\ IsSized(c.bytes, c.cell) /\ Len(c.cell) \in {0, 4}

\* The columns' null bits are kept in 16 bytes (_null_ptr).
BitmapLen(cells) == (Len(cells) + 9) \div 8

ASSUME RowAssumption ==
  /\ Cuts \subseteq Nat
  /\ \A cells \in StringRows : cells \in Seq(Cells) /\ \A k \in DOMAIN cells : IsStringCell(cells[k])
  /\ \A cells \in BinaryRows : /\ cells \in Seq(Cells) /\ BitmapLen(cells) <= 16
                               /\ \A k \in DOMAIN cells : IsBinaryCell(cells[k])

----------------------------------------------------------------------------
(* The start of a row, and its end *)

\* The bit of each column, the first two bits of the first byte being reserved.
NullBit(cells, b) == IF b - 1 \in DOMAIN cells /\ cells[b - 1].null THEN 1 ELSE 0
BitmapByte(cells, b) ==
  NullBit(cells, b) + 2 * NullBit(cells, b + 1) + 4 * NullBit(cells, b + 2) + 8 * NullBit(cells, b + 3)
  + 16 * NullBit(cells, b + 4) + 32 * NullBit(cells, b + 5) + 64 * NullBit(cells, b + 6) + 128 * NullBit(cells, b + 7)
Bitmap(cells) == [x \in 1 .. BitmapLen(cells) |-> BitmapByte(cells, 8 * (x - 1))]

\* The packet that holds these cells.
PacketOf(binary, cells) ==
  (IF binary THEN <<0>> \o Bitmap(cells) ELSE <<>>)
  \o FlattenSeq([k \in DOMAIN cells |-> cells[k].bytes])

NewRow(binary, cells, cut) ==
  LET whole == PacketOf(binary, cells)
      packet == SubSeq(whole, 1, Len(whole) - cut)
  IN [binary |-> binary, sent |-> cells, cut |-> cut, packet |-> packet,
      mem |-> [k \in 0 .. Len(packet) |-> IF k < Len(packet) THEN packet[k + 1] ELSE Beyond],
      j |-> 1, i |-> 0, wh |-> 0, data |-> [k \in DOMAIN cells |-> Unset], reach |-> 0,
      at |-> IF binary THEN "bitmap" ELSE "column"]

RowInit == \E binary \in BOOLEAN, cut \in Cuts :
  \E cells \in IF binary THEN BinaryRows ELSE StringRows :
    /\ cut <= Len(PacketOf(binary, cells))
    /\ row = NewRow(binary, cells, cut)

Refuse(s) == row' = [s EXCEPT !.at = "error"]

\* The null bits are copied before the first column is read.
ReadBitmap ==
  /\ row.at = "bitmap"
  /\ IF 1 + BitmapLen(row.sent) > PacketLen THEN Refuse(row)
     ELSE row' = [row EXCEPT !.i = 1 + BitmapLen(row.sent), !.at = "column"]

AtColumn == row.at = "column" /\ row.j <= Len(row.sent)

RowEnds == row.at = "column" /\ row.j > Len(row.sent) /\ row' = [row EXCEPT !.at = "done"]

\* On to the next column, which begins at k.
Past(s, k) == [s EXCEPT !.j = @ + 1, !.i = k]
Reaching(s, k) == [s EXCEPT !.reach = MaxOf(@, k)]

----------------------------------------------------------------------------
(* A cell that begins with its length *)

Cell == Lcb(row.mem, row.i, PacketLen - row.i)
Start == row.i + Cell.size

\* The bit of the column: 4 for the first one, doubled from column to column,
\* and 1 again when it is shifted out of its byte.
Bit(j) == <<1, 2, 4, 8, 16, 32, 64, 128>>[1 + ((j + 1) % 8)]
BitSet == (row.packet[2 + (row.j + 1) \div 8] \div Bit(row.j)) % 2 = 1

\* The binary form has it for texts and dates only, and not where the bit is set.
HasLength == AtColumn /\ (row.binary => ~BitSet /\ Type \in Dates \cup {"text"})

FitsLoosely ==             \* mutant: one byte more
  HasLength /\ Cell.size # -1 /\ Start + Cell.len <= PacketLen + 1
Fits == HasLength /\ Cell.size # -1 /\ Start + Cell.len <= PacketLen

CellRefused == HasLength /\ ~Fits /\ Refuse(row)

\* The cell is NULL: for a date in binary form the null pointer is then written through.
CellNull ==
  /\ Fits /\ Cell.nul
  /\ row' = IF row.binary /\ Type \in {"datetime", "date"}
              THEN [row EXCEPT !.data[row.j] = Null, !.at = "crashed"]
              ELSE Past([row EXCEPT !.data[row.j] = Null], Start)

\* mutant: no terminating zero
MovedUnended(to, from, len) ==
  [k \in DOMAIN row.mem |-> IF k \in to .. to + len - 1 THEN row.mem[from + k - to] ELSE row.mem[k]]

\* memmove to wh, and a terminating zero.
Moved(to, from, len) ==
  [k \in DOMAIN row.mem |-> IF k \in to .. to + len - 1 THEN row.mem[from + k - to]
                            ELSE IF k = to + len THEN 0 ELSE row.mem[k]]

TextColumn ==
  /\ Fits /\ ~Cell.nul /\ Type = "text"
  /\ LET s == [row EXCEPT !.mem = Moved(row.wh, Start, Cell.len),
                          !.data[row.j] = Pointer(row.wh, Cell.len),
                          !.wh = @ + Cell.len + 1]
     IN row' = Reaching(Past(s, Start + Cell.len), MaxOf(Start + Cell.len - 1, row.wh + Cell.len))

----------------------------------------------------------------------------
(* mysac_decode_string_row: numbers and dates as text *)

\* What strtol and strtoll take for this type, a DECIMAL's too, and strtof and
\* strtod, which know fractions.  (A sign and an exponent are digits here, and
\* nothing a server sends begins with a blank.)
Numerals(type) == IF type \in {"float", "double"} THEN Digits \cup {Point} ELSE Digits

\* A zero is put at each of these places, to end a piece of the text.
Zeroed(ends) == [k \in DOMAIN row.mem |-> IF k \in ends THEN 0 ELSE row.mem[k]]
\* The byte behind the text is put back.
Restored(mem, k) == [mem EXCEPT ![k] = row.mem[k]]

StrtolAnything(mem, k) == [digits |-> <<>>, whole |-> TRUE]    \* mutant: error is not looked at

\* The number from k on, and whether it is followed by the zero.
Strtol(mem, k) ==
  LET n == CHOOSE n \in 0 .. PacketLen - k :
             mem[k + n] \notin Numerals(Type) /\ \A x \in 0 .. n - 1 : mem[k + x] \in Numerals(Type)
  IN [digits |-> Bytes(mem, k, n), whole |-> mem[k + n] = 0]

\* Where the pieces of each type end, counted from the start of its text.
Ends(type, len) ==
  CASE type = "time" -> <<2, 5, 8>>
    [] type = "year" -> <<4>>
    [] type = "datetime" -> <<4, 7, 10, 13, 16, 19>>
    [] type = "date" -> <<4, 7, 10>>
    [] OTHER -> <<len>>

Pieces(ends, mem) ==
  [x \in DOMAIN ends |-> Strtol(mem, Start + IF x = 1 THEN 0 ELSE ends[x - 1] + 1)]

StringValue ==
  /\ ~row.binary /\ Fits /\ ~Cell.nul /\ Type \notin {"text", "other"}
  /\ LET ends == Ends(Type, Cell.len)
         mem == Zeroed({Start + ends[x] : x \in DOMAIN ends})
         pieces == Pieces(ends, mem)
         s == Reaching([row EXCEPT !.mem = mem], Start + Cell.len)
     IN /\ Type \in Numbers \/ Cell.len = Last(ends)
        /\ IF Type # "year" /\ \E x \in DOMAIN pieces : ~pieces[x].whole
             THEN Refuse(s)
             ELSE row' = Past([s EXCEPT !.mem = Restored(@, Start + Cell.len),
                                        !.data[row.j] = Value([x \in DOMAIN pieces |-> pieces[x].digits])],
                              Start + Cell.len)

\* A time or date of another length, and a type that is not supported, leave
\* the column as it is.
StringLeft ==
  /\ ~row.binary /\ Fits /\ ~Cell.nul
  /\ Type = "other" \/ (Type \notin Numbers \cup {"text"} /\ Cell.len # Last(Ends(Type, Cell.len)))
  /\ row' = Past(row, Start + Cell.len)

----------------------------------------------------------------------------
(* mysac_decode_binary_row: numbers and dates as bytes *)

\* A column whose bit is set has no cell, and an unsupported type reads none.
BinaryLeft == AtColumn /\ row.binary /\ (BitSet \/ Type = "other") /\ row' = Past(row, row.i)

Width == WidthOf(Type)

\* Memory further than one byte behind the packet holds anything, too.
Peek(k, n) == [x \in 1 .. n |-> IF k + x - 1 <= PacketLen THEN row.mem[k + x - 1] ELSE Beyond]

\* A number: all but the year are checked to be there.
BinaryNumber ==
  /\ AtColumn /\ row.binary /\ ~BitSet /\ Type \in Numbers \cup {"year"}
  /\ IF Type # "year" /\ row.i > PacketLen - Width THEN Refuse(row)
     ELSE row' = Reaching(Past([row EXCEPT !.data[row.j] = Value(<<Peek(row.i, Width)>>)], row.i + Width),
                          row.i + Width - 1)

\* How much of a time or date is read, whatever its length is.
ReadOf(len) ==
  CASE Type = "time" -> IF len > 8 THEN 12 ELSE IF len > 0 THEN 8 ELSE 0
    [] Type = "datetime" -> IF len > 4 THEN 7 ELSE 4
    [] OTHER -> 4

\* A time of no length is left as it is.
BinaryDate ==
  /\ row.binary /\ Fits /\ ~Cell.nul /\ Type \in Dates
  /\ LET n == ReadOf(Cell.len)
         s == IF n = 0 THEN row
              ELSE Reaching([row EXCEPT !.data[row.j] = Value(<<Peek(Start, n)>>)], Start + n - 1)
     IN row' = Past(s, Start + Cell.len)

----------------------------------------------------------------------------
StringRow == StringValue \/ StringLeft
BinaryRow == ReadBitmap \/ BinaryLeft \/ BinaryNumber \/ BinaryDate

RowNext == StringRow \/ BinaryRow \/ CellRefused \/ CellNull \/ TextColumn \/ RowEnds

RowSpec == RowInit /\ [][RowNext]_row
=============================================================================
