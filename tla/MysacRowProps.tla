---------------------------- MODULE MysacRowProps ----------------------------
(***************************************************************************)
(* What decoding a row owes the program: each column as the server meant   *)
(* it, though all of it happens in the one piece of memory.                *)
(***************************************************************************)
EXTENDS MysacRow, FiniteSets

Sent(k) == row.sent[k].cell
TypeOf(k) == row.sent[k].type

(***************************************************************************)
(* Nothing beyond the packet is touched, but for the byte behind it that   *)
(* ends a number.  The exceptions are a year in binary form, which is not  *)
(* checked to be there, and a date or time shorter than what is read of    *)
(* it: the server sends 0000-00-00 with no bytes at all.                   *)
(***************************************************************************)
InPacket == row.reach <= PacketLen \/
  (row.binary /\ \E k \in DOMAIN row.sent : TypeOf(k) \in {"year", "datetime", "date"})

\* What the program finds in memory for a text column.
TextAt(d) == Bytes(row.mem, d.at, d.len)

MadeOf(chars, text) == \A x \in DOMAIN text : text[x] \in chars

\* The pieces of a text that ends at these places.
PiecesOf(text, ends) ==
  [x \in DOMAIN ends |-> SubSeq(text, IF x = 1 THEN 1 ELSE ends[x - 1] + 2, ends[x])]

\* The first digits of a year are taken, whatever follows.
Leading(text) ==
  SubSeq(text, 1, CHOOSE n \in 0 .. Len(text) :
    MadeOf(Digits, SubSeq(text, 1, n)) /\ (n = Len(text) \/ text[n + 1] \notin Digits))

\* A cell in string form that the decoder does not know what to do with.
Skips(type, text) ==
  type = "other" \/ (type \in {"time", "year", "datetime", "date"} /\ Len(text) # Last(Ends(type, Len(text))))

\* The microseconds of a date and time are dropped.
Kept(type, text) == IF type = "datetime" /\ Len(text) > 7 THEN SubSeq(text, 1, 7) ELSE text

Meaning(k) ==
  LET type == TypeOf(k)
      text == Sent(k)
  IN IF row.sent[k].null THEN IF row.binary THEN Unset ELSE Null
     ELSE IF row.binary THEN IF Len(text) = 0 /\ type = "time" THEN Unset ELSE Value(<<Kept(type, text)>>)
     ELSE IF Skips(type, text) THEN Unset
     ELSE IF type = "year" THEN Value(<<Leading(text)>>)
     ELSE Value(PiecesOf(text, Ends(type, Len(text))))

(***************************************************************************)
(* Every column decoded so far is, in memory as it is now, what the server *)
(* meant: a text is whole and ends with a zero in the part the caller      *)
(* keeps, whatever was moved or zeroed after it; NULL is NULL; a number or *)
(* date is made of its own digits.  (A NULL column of a binary row, a time *)
(* of no length and a text of another length are left unset; a binary date *)
(* of no length or a year is read off whatever is there.)                  *)
(***************************************************************************)
MeansAsSent == row.at \in {"column", "done"} =>
  \A k \in 1 .. row.j - 1 :
    LET d == row.data[k]
    IN IF d.is = "text"
         THEN /\ TextAt(d) = Sent(k) /\ row.mem[d.at + d.len] = 0
              /\ d.at + d.len < row.wh
         ELSE \/ d = Meaning(k)
              \/ row.binary /\ TypeOf(k) \in {"year", "datetime", "date"}
                   /\ (Sent(k) = <<>> \/ row.cut > 0)

\* A column in string form is read as a number or date, of which a piece is
\* not made of these characters.
NotMadeOf(chars, k) ==
  /\ ~row.binary /\ ~row.sent[k].null
  /\ TypeOf(k) \notin {"text", "year"} /\ ~Skips(TypeOf(k), Sent(k))
  /\ \E x \in DOMAIN Ends(TypeOf(k), Len(Sent(k))) :
       ~MadeOf(chars, PiecesOf(Sent(k), Ends(TypeOf(k), Len(Sent(k))))[x])

\* The number or date is none: MySQL writes a fraction in these types only.
Written(type) == IF type \in {"decimal", "float", "double"} THEN Digits \cup {Point} ELSE Digits
Malformed(k) == NotMadeOf(Written(TypeOf(k)), k)

\* A DECIMAL with a fraction, which strtoll does not read to its end.
Fraction(k) ==
  /\ ~row.binary /\ ~row.sent[k].null /\ TypeOf(k) = "decimal"
  /\ \E x \in DOMAIN Sent(k) : Sent(k)[x] = Point

(***************************************************************************)
(* A row that was cut short, has a number that is none, or has a DECIMAL   *)
(* with a fraction, is refused, and no other row is: the columns that are  *)
(* there never pass for a row.  (The last of the three is no broken row:   *)
(* the code has no other reading of a DECIMAL than a whole number.)        *)
(***************************************************************************)
RefusesBroken ==
  /\ row.at = "error" => row.cut > 0 \/ \E k \in DOMAIN row.sent : Malformed(k) \/ Fraction(k)
  /\ row.at = "done" => /\ row.cut = 0 \/ (row.binary /\ \E k \in DOMAIN row.sent : TypeOf(k) = "year")
                        /\ \A k \in DOMAIN row.sent : ~Malformed(k) /\ ~Fraction(k)
=============================================================================
