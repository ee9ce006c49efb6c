---------------------------- MODULE EsqlTextProps ----------------------------
(***************************************************************************)
(* What a format gives: the reference is read off the format from left to  *)
(* right, without the pointers of the scan.                                *)
(***************************************************************************)
EXTENDS EsqlText, FiniteSetsExt

\* The conversion that begins at the '%' in position i, and how many l's it has.
Ls(fmt, i) == CHOOSE n \in 0 .. 2 :
  /\ \A k \in 1 .. n : At(fmt, i + k) = "l"
  /\ n = 2 \/ At(fmt, i + n + 1) # "l"
Conv(fmt, i) == At(fmt, i + Ls(fmt, i) + 1)
AfterConv(fmt, i) == i + Ls(fmt, i) + 2

\* The positions at which the conversions of a format begin, from position k on.
StartsFrom(fmt, k) ==
  LET from[i \in 1 .. Len(fmt) + 4] ==
        IF i > Len(fmt) THEN {}
        ELSE IF fmt[i] # "%" THEN from[i + 1]
        ELSE {i} \cup from[AfterConv(fmt, i)]
  IN from[k]

Starts(fmt) == StartsFrom(fmt, 1)

Meaningful(fmt, i) ==
  \/ Conv(fmt, i) \in {"d", "%"}
  \/ Conv(fmt, i) = "f" /\ Ls(fmt, i) < 2
  \/ Conv(fmt, i) \in {"s", "c"} /\ Ls(fmt, i) = 0

WellFormed(fmt) == \A i \in Starts(fmt) : Meaningful(fmt, i)

\* The text and the number of arguments after position i of a format, from
\* those before it, with the strings puts in place of the conversions.
RenderOn(fmt, puts, b, i) ==
  LET ending == {j \in Starts(fmt) : AfterConv(fmt, j) = i + 1}
      within == \E j \in Starts(fmt) : i \in j .. AfterConv(fmt, j) - 1
  IN IF ending # {} THEN IF Conv(fmt, CHOOSE j \in ending : TRUE) = "%"
                         THEN [text |-> b.text \o <<"%">>, n |-> b.n]
                         ELSE [text |-> b.text \o puts[b.n + 1], n |-> b.n + 1]
     ELSE IF within THEN b ELSE [text |-> Append(b.text, fmt[i]), n |-> b.n]

RenderedTo(fmt, puts, k) ==
  LET from[i \in 0 .. Len(fmt)] ==
        IF i = 0 THEN [text |-> <<>>, n |-> 0] ELSE RenderOn(fmt, puts, from[i - 1], i)
  IN from[k]

Rendered(fmt, puts) == RenderedTo(fmt, puts, Len(fmt)).text

\* Every conversion has text in front of it.  (The first thing copied is one
\* character even when there is none, which is the '%' itself:
\* src/lib/esql_query.c:114.)
Spaced(fmt) == \A i \in Starts(fmt) : i > 1 /\ \A j \in Starts(fmt) : AfterConv(fmt, j) # i

(***************************************************************************)
(* The scan looks at no character beyond the terminator: pp is within the  *)
(* format whenever pp[1] is read, and p at most at its end.                *)
(***************************************************************************)
InBounds ==
  /\ scan.p \in 1 .. Len(scan.fmt) + 1
  /\ scan.at = "spec" => scan.pp \in scan.p .. Len(scan.fmt)

(***************************************************************************)
(* A query that is made is what the format says: literal text as it is,    *)
(* each argument once, in order, in the place of its conversion, read with *)
(* the type the conversion names.                                          *)
(***************************************************************************)
Renders == scan.at = "done" /\ Spaced(scan.fmt) =>
  /\ scan.buf = Rendered(scan.fmt, [i \in DOMAIN args |-> args[i].put])
  /\ \A i \in DOMAIN args :
       \E j \in Starts(scan.fmt) :
         /\ Conv(scan.fmt, j) = args[i].conv /\ Ls(scan.fmt, j) = args[i].l
         /\ Cardinality({k \in Starts(scan.fmt) : k <= j /\ Conv(scan.fmt, k) # "%"}) = i

(***************************************************************************)
(* A malformed format makes no query, and a well-formed one makes a query  *)
(* unless a string was given: what is sent is never half a query.          *)
(***************************************************************************)
RefusesMalformed ==
  /\ scan.at = "done" => WellFormed(scan.fmt)
  /\ scan.at = "failed" => \/ ~WellFormed(scan.fmt)
                           \/ args # <<>> /\ Last(args).conv = "s"

\* Strings can be given too: test_sqlite.c makes its queries with '%s' and
\* asserts that it gets an identifier.
TakesText == scan.at = "failed" => ~WellFormed(scan.fmt)

\* What a server that treats backslashes as escapes, or does not, reads in
\* quotes: the text so far, and whether the next character is taken as it is.
ReadOn(backslashes, b, c) ==
  IF b.next THEN [text |-> Append(b.text, CASE c = "n" /\ backslashes -> "newline"
                                            [] c = "r" /\ backslashes -> "return"
                                            [] OTHER -> c), next |-> FALSE]
  ELSE IF c = IF backslashes THEN "backslash" ELSE "'" THEN [text |-> b.text, next |-> TRUE]
  ELSE [text |-> Append(b.text, c), next |-> FALSE]

Unescaped(backslashes, s) ==
  LET from[i \in 0 .. Len(s)] ==
        IF i = 0 THEN [text |-> <<>>, next |-> FALSE] ELSE ReadOn(backslashes, from[i - 1], s[i])
  IN from[Len(s)]

AsText(arg) == arg.conv \in {"s", "c"}

\* What the server of the connection reads is the argument as it was given.
ReadByServer(arg) ==
  Unescaped(scan.server.slashes, arg.put) = [text |-> arg.raw, next |-> FALSE]

\* The server has the rule its backend escapes by, or the text needs no escape.
\* Left out: a text to escape for SQLite, or for a PostgreSQL server with
\* standard_conforming_strings, neither of which reads it back as it was, though
\* esql_query_args is documented to do the escaping the database needs
\* (src/lib/esql_query.c:291-292).
SameRule(arg) ==
  \/ scan.server.backend = "mysql" \/ scan.server.slashes
  \/ \A k \in DOMAIN arg.raw : arg.raw[k] \notin {"'", "backslash", "dquote", "newline", "return"}

(***************************************************************************)
(* An argument reaches the server as it was given: a MySQL server, which   *)
(* is asked for its rule, reads every text back, and so does another whose *)
(* rule is the one its backend assumes, or when there is nothing to escape;*)
(* the text never ends within an escape, and it fits the 2n + 1 bytes      *)
(* esql_string_escape allocates for it.                                    *)
(***************************************************************************)
ReadsBack == \A i \in DOMAIN args : AsText(args[i]) =>
  /\ SameRule(args[i]) => ReadByServer(args[i])
  /\ Len(args[i].put) <= 2 * Len(args[i].raw)
=============================================================================
