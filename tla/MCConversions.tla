--------------------------- MODULE MCConversions ---------------------------
(***************************************************************************)
(* The two conversions side by side: a behaviour either puts a query       *)
(* together or decodes a row.                                              *)
(***************************************************************************)
EXTENDS EsqlTextProps, MysacRowProps

SmallTexts == {<<>>, <<"a">>, <<"'">>, <<"backslash">>, <<"'", "newline">>, <<"backslash", "'">>, <<"a", "n">>}
SmallChars == {"a", "'", "backslash", "newline", "end"}

(* Cells: texts of one kind of digit or letter, and dates with separators. *)
Seven == 55
Junk == 120
OneHalf == <<Seven, Point, Seven>>
Colon == 58
Two == <<Seven, Seven>>
Clock == Two \o <<Colon>> \o Two \o <<Colon>> \o Two
Year == Two \o Two
Day == Year \o <<Colon>> \o Two \o <<Colon>> \o Two

\* The ways in which a length is sent.
Sized(text) ==
  {<<Len(text)>> \o text, <<252, Len(text), 0>> \o text,
   <<253, Len(text), 0, 0>> \o text, <<254, Len(text), 0, 0, 0, 0, 0, 0, 0>> \o text}
Short(text) == <<Len(text)>> \o text

CellOf(type, cell, bytes) == [type |-> type, null |-> FALSE, cell |-> cell, bytes |-> bytes]
NullCells(types, bytes) ==
  {[type |-> type, null |-> TRUE, cell |-> <<>>, bytes |-> bytes] : type \in types}

MCStringCells ==
  NullCells({"text", "int", "date"}, <<NullMark>>)
  \cup {CellOf("text", text, Short(text)) : text \in {<<>>, <<Junk>>, Two}}
  \cup {CellOf("text", Two, bytes) : bytes \in Sized(Two)}
  \cup {CellOf("int", text, Short(text)) : text \in {<<>>, Two, <<Seven, Junk>>}}
  \cup {CellOf(type, OneHalf, Short(OneHalf)) : type \in {"int", "decimal", "float"}}
  \cup {CellOf("long", Two, Short(Two)), CellOf("decimal", Two, Short(Two)), CellOf("float", Two, Short(Two)), CellOf("other", Two, Short(Two))}
  \cup {CellOf("time", text, Short(text)) : text \in {Clock, Two \o Clock, [Clock EXCEPT ![5] = Junk]}}
  \cup {CellOf("year", text, Short(text)) : text \in {Year, Two, <<Seven, Junk, Seven, Seven>>}}
  \cup {CellOf("date", text, Short(text)) : text \in {Day, Two, [Day EXCEPT ![10] = Junk]}}
  \cup {CellOf("datetime", text, Short(text)) : text \in {Day \o <<Junk>> \o Clock, Day}}

MCBinaryCells ==
  NullCells({"text", "int", "year", "date"}, <<>>)
  \cup {CellOf("text", text, Short(text)) : text \in {<<>>, <<Junk>>, Two}}
  \cup {CellOf("text", Two, bytes) : bytes \in Sized(Two)}
  \cup {CellOf("tiny", <<0>>, <<0>>), CellOf("short", Two, Two), CellOf("int", Year, Year),
        CellOf("float", Year, Year), CellOf("double", Clock, Clock), CellOf("year", Two, Two)}
  \cup {CellOf("time", text, Short(text)) : text \in {<<>>, Clock, Clock \o Year}}
  \cup {CellOf("date", text, Short(text)) : text \in {<<>>, Year}}
  \cup {CellOf("datetime", text, Short(text)) : text \in {<<>>, Year, Year \o Two \o <<Seven>>, Clock \o <<Junk, Seven, Junk>>}}

Pairs(cells) == {<<c, d>> : c, d \in cells}

\* All pairs of cells, and rows whose null bits take two bytes.
MCStringRows == Pairs(MCStringCells)
MCBinaryRows ==
  LET word == CellOf("short", Two, Two)
      null == CellOf("text", <<>>, <<>>)
      word7 == [k \in 1 .. 7 |-> word]
  IN Pairs(MCBinaryCells)
     \cup {[word7 EXCEPT ![k] = [null EXCEPT !.null = TRUE]] \o <<CellOf("text", Two, Short(Two))>> : k \in 1 .. 7}

\* What is not run does nothing.
NoScan == [server |-> [backend |-> "mysql", slashes |-> FALSE], fmt |-> <<>>, backslashes |-> FALSE,
           p |-> 1, pp |-> 1, l |-> 0, at |-> "done", buf |-> <<>>]
NoRow == [NewRow(FALSE, CHOOSE cells \in StringRows : TRUE, 0)
            EXCEPT !.at = "idle"]

Init == \/ TextInit /\ row = NoRow
        \/ RowInit /\ scan = NoScan /\ args = <<>>
Next == \/ TextNext /\ UNCHANGED row
        \/ RowNext /\ UNCHANGED tvars
Spec == Init /\ [][Next]_<<tvars, row>>
=============================================================================
