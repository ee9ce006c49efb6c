------------------------------ MODULE EsqlText ------------------------------
(***************************************************************************)
(* esql_query_escape and esql_string_escape: a query is put together from  *)
(* a printf format and its arguments, which are escaped for the server.    *)
(*                                                                         *)
(* One action is one step of the scan.  A character is a string, "7" being *)
(* whatever a number is printed as, and "end" the terminating zero.        *)
(***************************************************************************)
EXTENDS Integers, SequencesExt

CONSTANTS
  MaxFmt,                \* bound on the length of a format
  Texts,                 \* the strings given for %s
  Chars                  \* the characters given for %c

ASSUME TextAssumption ==
  /\ MaxFmt \in Nat
  /\ Texts \subseteq Seq(STRING)
  /\ Chars \subseteq STRING

\* The conversions ("d" stands for i, d and u), and a character that is none of them.
FmtChars == {"%", "l", "d", "f", "s", "c", "x"}

VARIABLES
  scan,                  \* server; fmt, backslashes; the pointers p, pp; l, the number of l's seen;
                         \* where the scan is; the strbuf
  args                   \* history: the arguments taken, what each was put in the buffer as

tvars == <<scan, args>>

\* A character of the format, with its terminator.
At(fmt, i) == IF i \in DOMAIN fmt THEN fmt[i] ELSE "end"

----------------------------------------------------------------------------
(* esql_string_escape *)

\* Without backslashes a quote is doubled, and nothing else changes.
Doubled(c) == IF c = "'" THEN <<"'", "'">> ELSE <<c>>

SlashedQuotes(c) == IF c \in {"'", "dquote"} THEN <<"backslash", c>> ELSE <<c>>  \* mutant: quotes only

Slashed(c) ==
  CASE c \in {"'", "backslash", "dquote"} -> <<"backslash", c>>
    [] c = "newline" -> <<"backslash", "n">>
    [] c = "return" -> <<"backslash", "r">>
    [] OTHER -> <<c>>

Escaped(backslashes, s) ==
  FlattenSeq([i \in DOMAIN s |-> IF backslashes THEN Slashed(s[i]) ELSE Doubled(s[i])])

----------------------------------------------------------------------------
(* The backends that call it *)

\* A server, and whether a backslash escapes the next character in what it reads.
\* MySQL and PostgreSQL can be set up either way; for SQLite it is a character as any.
Servers ==
  {s \in [backend : {"mysql", "postgresql", "sqlite"}, slashes : BOOLEAN] :
     s.backend = "sqlite" => ~s.slashes}

PassedAlways(server) == TRUE                    \* mutant: MySQL's server is not asked
Passed(server) == server.backend = "mysql" => server.slashes

----------------------------------------------------------------------------
(* esql_query_escape *)

TextInit ==
  /\ \E f \in BoundedSeq(FmtChars, MaxFmt), server \in Servers :
       scan = [server |-> server, fmt |-> f, backslashes |-> Passed(server),
               p |-> 1, pp |-> 1, l |-> 0, at |-> "copy", buf |-> <<>>]
  /\ args = <<>>

\* pp = strchr(p, '%'), or the terminator.
Strchr(q) ==
  /\ q \in scan.p .. Len(scan.fmt) + 1
  /\ \A i \in scan.p .. q - 1 : scan.fmt[i] # "%"
  /\ At(scan.fmt, q) \in {"%", "end"}

\* The text before pp is appended: at least one character, even where there is none.
CopiedShort(q) == SubSeq(scan.fmt, scan.p, IF q - scan.p > 1 THEN q - 2 ELSE scan.p)  \* mutant: all but the last
Copied(q) == SubSeq(scan.fmt, scan.p, IF q - scan.p > 1 THEN q - 1 ELSE scan.p)

Copy ==
  /\ scan.at = "copy" /\ scan.p <= Len(scan.fmt)
  /\ \E q \in scan.p .. Len(scan.fmt) + 1 :
       /\ Strchr(q)
       /\ scan' = [scan EXCEPT !.pp = q, !.l = 0, !.buf = @ \o Copied(q),
                               !.at = IF q <= Len(scan.fmt) THEN "spec" ELSE "done"]
  /\ UNCHANGED args

Finish ==
  /\ scan.at = "copy" /\ scan.p > Len(scan.fmt)
  /\ scan' = [scan EXCEPT !.at = "done"]
  /\ UNCHANGED args

\* The switch on pp[1].
Spec1(c) == scan.at = "spec" /\ At(scan.fmt, scan.pp + 1) = c

\* Where the scan goes on after a conversion.
ResumedFurther(s) == [s EXCEPT !.p = s.pp + 3, !.at = "copy"]     \* mutant: one character too far
Resumed(s) == [s EXCEPT !.p = s.pp + 2, !.at = "copy"]

Printed(s) == Resumed([scan EXCEPT !.buf = @ \o s])

Took(conv, raw, put) == args' = Append(args, [conv |-> conv, l |-> scan.l, raw |-> raw, put |-> put])

Long ==
  /\ Spec1("l") /\ scan.l < 2
  /\ scan' = [scan EXCEPT !.l = @ + 1, !.pp = @ + 1]
  /\ UNCHANGED args

Number ==
  /\ Spec1("d") \/ (Spec1("f") /\ scan.l < 2)
  /\ Took(At(scan.fmt, scan.pp + 1), <<>>, <<"7">>)
  /\ scan' = Printed(<<"7">>)

\* A string that is NULL is passed over.
NullText == Spec1("s") /\ scan.l = 0 /\ scan' = Resumed(scan) /\ Took("s", <<>>, <<>>)

\* Any other is appended, and the EINA_TRUE that says so is taken for an error.
Text ==
  /\ Spec1("s") /\ scan.l = 0
  /\ \E s \in Texts :
       LET put == Escaped(scan.backslashes, s)
       IN /\ Took("s", s, put)
          /\ scan' = [scan EXCEPT !.buf = @ \o put, !.at = "failed"]

\* A character becomes a string of one, or of none if it is the terminator.
CharText(c) == IF c = "end" THEN <<>> ELSE <<c>>

Char ==
  /\ Spec1("c") /\ scan.l = 0
  /\ \E c \in Chars :
       LET put == Escaped(scan.backslashes, CharText(c))
       IN Took("c", CharText(c), put) /\ scan' = Printed(put)

\* "%%", and "%l%" as well.
Percent == Spec1("%") /\ scan' = Printed(<<"%">>) /\ UNCHANGED args

\* The end of the format, an unknown conversion, a third l, an l that has no meaning.
BadButLong ==               \* mutant: a third l is accepted
  /\ \/ \E c \in {"end", "x"} : Spec1(c)
     \/ \E c \in {"s", "c"} : Spec1(c) /\ scan.l > 0
  /\ scan' = [scan EXCEPT !.at = "done"]
  /\ UNCHANGED args

Bad ==
  /\ \/ \E c \in {"end", "x"} : Spec1(c)
     \/ \E c \in {"l", "f"} : Spec1(c) /\ scan.l = 2
     \/ \E c \in {"s", "c"} : Spec1(c) /\ scan.l > 0
  /\ scan' = [scan EXCEPT !.at = "failed"]
  /\ UNCHANGED args

TextNext == Copy \/ Finish \/ Long \/ Number \/ NullText \/ Text \/ Char \/ Percent \/ Bad

TextSpec == TextInit /\ [][TextNext]_tvars
=============================================================================
