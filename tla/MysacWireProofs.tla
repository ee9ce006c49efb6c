-------------------------- MODULE MysacWireProofs --------------------------
(***************************************************************************)
(* What the packet reader of the MySAC client guarantees, for any number   *)
(* of commands, columns, rows and failures.                                *)
(***************************************************************************)
EXTENDS MysacWire, SequenceTheorems, WellFoundedInduction, TLAPS

----------------------------------------------------------------------------
(* Induction.  The library's induction theorem for Nat takes a predicate,  *)
(* which the provers cannot instantiate; that < is well-founded on Nat     *)
(* gives the same with a set.                                              *)

LEMMA LessPairs == OpToRel(<, Nat) = {ss \in Nat \X Nat : ss[1] < ss[2]}
BY DEF OpToRel

LEMMA Least ==
  ASSUME NEW T \in SUBSET Nat, T # {}
  PROVE  \E x \in T : \A y \in T : x <= y
<1> DEFINE R == {ss \in Nat \X Nat : ss[1] < ss[2]}
<1>1. IsWellFoundedOn(R, Nat)
      BY LessPairs, NatLessThanWellFounded
<1>2. \E x \in T : \A y \in T : ~ (<<y, x>> \in R)
      <2> HIDE DEF R
      <2> QED
          BY <1>1, WFMin
<1>3. PICK x \in T : \A y \in T : ~ (<<y, x>> \in R)
      BY <1>2
<1>4. ASSUME NEW y \in T PROVE x <= y
      <2>1. <<y, x>> \in Nat \X Nat /\ <<y, x>>[1] = y /\ <<y, x>>[2] = x
            OBVIOUS
      <2>2. QED
            BY <1>3, <2>1
<1>5. QED
      BY <1>4

\* What holds of 0, and of n + 1 whenever of n, holds up to any bound.
LEMMA UpTo ==
  ASSUME NEW N \in Nat, NEW S, 0 \in S, \A n \in 0 .. N - 1 : n \in S => n + 1 \in S
  PROVE  \A n \in 0 .. N : n \in S
<1> DEFINE T == {n \in 0 .. N : n \notin S}
<1> SUFFICES ASSUME T # {} PROVE FALSE
    OBVIOUS
<1>1. T \in SUBSET Nat
      OBVIOUS
<1>2. PICK x \in T : \A y \in T : x <= y
      <2> HIDE DEF T
      <2> QED
          BY <1>1, Least
<1>3. x # 0 /\ x \in 1 .. N /\ x - 1 \in 0 .. N - 1 /\ x - 1 \notin T
      BY <1>2
<1>4. x - 1 \in S /\ x = (x - 1) + 1
      BY <1>3
<1>5. QED
      BY <1>2, <1>3, <1>4

\* A function given by its first value and by how each value follows from the last.
IsIterated(V, first, N, next, g) ==
  /\ g \in [0 .. N -> V]
  /\ g[0] = first
  /\ \A k \in 0 .. N - 1 : g[k + 1] = next[<<k, g[k]>>]

LEMMA Iterates ==
  ASSUME NEW V, NEW first, NEW N, NEW next,
         first \in V, N \in Nat, next \in [(0 .. N - 1) \X V -> V]
  PROVE  \E g : IsIterated(V, first, N, next, g)
<1> DEFINE Is(n, g) == g[0] = first /\ \A k \in 0 .. n - 1 : g[k + 1] = next[<<k, g[k]>>]
           S == {n \in 0 .. N : \E g \in [0 .. n -> V] : Is(n, g)}
<1>1. 0 \in S
      <2> DEFINE g == [k \in 0 .. 0 |-> first]
      <2>1. g \in [0 .. 0 -> V] /\ Is(0, g)
            OBVIOUS
      <2>2. 0 \in 0 .. N
            OBVIOUS
      <2>3. QED
            <3> HIDE DEF g, Is
            <3> QED
                BY <2>1, <2>2
<1>2. ASSUME NEW n \in 0 .. N - 1, n \in S
      PROVE  n + 1 \in S
      <2>1. PICK g \in [0 .. n -> V] : Is(n, g)
            BY <1>2
      <2> DEFINE h == [k \in 0 .. n + 1 |-> IF k <= n THEN g[k] ELSE next[<<n, g[n]>>]]
      <2>2. <<n, g[n]>> \in (0 .. N - 1) \X V
            BY <2>1
      <2>3. next[<<n, g[n]>>] \in V
            BY <2>2
      <2>4. h \in [0 .. n + 1 -> V]
            BY <2>3
      <2>5. h[0] = first
            BY <2>1
      <2>6. ASSUME NEW k \in 0 .. n PROVE h[k + 1] = next[<<k, h[k]>>]
            BY <2>1, <2>6
      <2>7. QED
            <3>1. Is(n + 1, h)
                  <4> HIDE DEF h
                  <4> QED
                      BY <2>5, <2>6
            <3>2. n + 1 \in 0 .. N
                  OBVIOUS
            <3>3. QED
                  <4> HIDE DEF h, Is
                  <4> QED
                      BY <2>4, <3>1, <3>2
<1>3. N \in S
      <2> HIDE DEF S
      <2> QED
          BY <1>1, <1>2, UpTo
<1>4. QED
      BY <1>3 DEF IsIterated

----------------------------------------------------------------------------
(* What a server answers *)

Kinds == {"greeting", "ok", "err", "eof", "oldauth", "cols", "field", "row"}

LEMMA PTyped ==
  ASSUME cmd \in 0 .. MaxCmd, NEW kind \in Kinds
  PROVE  P(kind) \in Packet /\ P(kind).kind = kind /\ P(kind).of = cmd /\ P(kind).more = FALSE
  BY WireBoundsAssumption DEF P, Packet, Kinds

\* A packet alone.
LEMMA OneTyped ==
  ASSUME NEW p \in Packet
  PROVE  <<p>> \in Seq(Packet) /\ Len(<<p>>) = 1 /\ <<p>>[1] = p
  OBVIOUS

LEMMA TimesTyped ==
  ASSUME NEW n \in Nat, NEW p \in Packet
  PROVE  /\ Times(n, p) \in Seq(Packet) /\ Len(Times(n, p)) = n
         /\ \A i \in 1 .. n : Times(n, p)[i] = p
  BY DEF Times

LEMMA Joined ==
  ASSUME NEW s \in Seq(Packet), NEW t \in Seq(Packet)
  PROVE  /\ s \o t \in Seq(Packet) /\ Len(s \o t) = Len(s) + Len(t)
         /\ \A i \in 1 .. Len(s) + Len(t) : (s \o t)[i] = IF i <= Len(s) THEN s[i] ELSE t[i - Len(s)]
  BY ConcatProperties

\* The place of a packet in an answer: the first of a result, behind the number
\* of columns, or behind the end of the fields.
Places == {"first", "fields", "rows"}

\* The place of the packet that comes after this one.
After(place, p) ==
  CASE place = "first" /\ p.kind = "cols" -> "fields"
    [] place = "first" /\ p.kind \in {"ok", "err"} -> "end"
    [] place = "fields" /\ p.kind = "field" -> "fields"
    [] place = "fields" /\ p.kind = "eof" -> "rows"
    [] place = "rows" /\ p.kind = "row" -> "rows"
    [] place = "rows" /\ p.kind = "eof" -> IF p.more THEN "first" ELSE "end"
    [] place = "rows" /\ p.kind = "err" -> "end"
    [] OTHER -> "none"

Follow(w, at) == \A i \in 1 .. Len(w) : at[i] \in Places /\ at[i + 1] = After(at[i], w[i])
Paths == [Nat -> Places \cup {"end"}]

\* Part of an answer, or all of it, from one place to another.
FromTo(w, p, q) == \E at \in Paths : at[1] = p /\ at[Len(w) + 1] = q /\ Follow(w, at)
From(w, p) == \E at \in Paths : at[1] = p /\ Follow(w, at)

\* Packets of this exchange.
OfCmd(w) == w \in Seq(Packet) /\ \A i \in 1 .. Len(w) : w[i].of = cmd

Piece(w, p, q) == OfCmd(w) /\ FromTo(w, p, q)

LEMMA PieceFrom == ASSUME NEW w, NEW p, NEW q, Piece(w, p, q) PROVE OfCmd(w) /\ From(w, p)
  BY DEF Piece, FromTo, From

LEMMA OnePiece ==
  ASSUME NEW x \in Packet, x.of = cmd, NEW p \in Places, NEW q \in Places \cup {"end"}, q = After(p, x)
  PROVE  Piece(<<x>>, p, q)
<1> DEFINE at == [i \in Nat |-> IF i = 1 THEN p ELSE q]
<1>1. at \in Paths /\ at[1] = p /\ at[2] = q
  BY DEF Paths
<1>2. <<x>> \in Seq(Packet) /\ Len(<<x>>) = 1 /\ <<x>>[1] = x
  BY OneTyped
<1> HIDE DEF at
<1>3. Follow(<<x>>, at)
  BY <1>1, <1>2 DEF Follow
<1> QED BY <1>1, <1>2, <1>3 DEF Piece, OfCmd, FromTo

LEMMA TimesPiece ==
  ASSUME NEW x \in Packet, x.of = cmd, NEW p \in Places, p = After(p, x), NEW n \in Nat
  PROVE  Piece(Times(n, x), p, p)
<1> DEFINE at == [i \in Nat |-> p]
<1>1. at \in Paths /\ \A i \in Nat : at[i] = p
  BY DEF Paths
<1>2. Times(n, x) \in Seq(Packet) /\ Len(Times(n, x)) = n /\ \A i \in 1 .. n : Times(n, x)[i] = x
  BY TimesTyped
<1> HIDE DEF at
<1>3. Follow(Times(n, x), at)
  BY <1>1, <1>2 DEF Follow
<1> QED BY <1>1, <1>2, <1>3 DEF Piece, OfCmd, FromTo

LEMMA JoinedPiece ==
  ASSUME NEW s, NEW t, NEW p, NEW q, NEW r, Piece(s, p, q), Piece(t, q, r)
  PROVE  Piece(s \o t, p, r)
<1>1. s \in Seq(Packet) /\ t \in Seq(Packet) /\ Len(s) \in Nat /\ Len(t) \in Nat
  BY DEF Piece, OfCmd
<1>2. PICK f \in Paths : f[1] = p /\ f[Len(s) + 1] = q /\ Follow(s, f)
  BY DEF Piece, FromTo
<1>3. PICK g \in Paths : g[1] = q /\ g[Len(t) + 1] = r /\ Follow(t, g)
  BY DEF Piece, FromTo
<1> DEFINE at == [i \in Nat |-> IF i <= Len(s) THEN f[i] ELSE g[i - Len(s)]]
<1>4. /\ s \o t \in Seq(Packet) /\ Len(s \o t) = Len(s) + Len(t)
      /\ \A i \in 1 .. Len(s) + Len(t) : (s \o t)[i] = IF i <= Len(s) THEN s[i] ELSE t[i - Len(s)]
  BY <1>1, Joined
<1>5. at \in Paths
  BY <1>1 DEF Paths
<1>6. at[1] = p
  <2>1. CASE Len(s) = 0
    BY <1>1, <1>2, <1>3, <2>1
  <2>2. CASE Len(s) > 0
    BY <1>1, <1>2, <2>2
  <2> QED BY <1>1, <2>1, <2>2
<1>7. at[Len(s) + 1] = q /\ at[Len(s) + Len(t) + 1] = r
  <2>1. at[Len(s) + 1] = g[1]
    BY <1>1
  <2>2. at[Len(s) + Len(t) + 1] = g[Len(t) + 1]
    BY <1>1
  <2> QED BY <1>3, <2>1, <2>2
<1>8. \A i \in 1 .. Len(s) : at[i] = f[i] /\ at[i + 1] = f[i + 1]
  <2> SUFFICES ASSUME NEW i \in 1 .. Len(s) PROVE at[i] = f[i] /\ at[i + 1] = f[i + 1]
    OBVIOUS
  <2>1. CASE i < Len(s)
    BY <1>1, <2>1
  <2>2. CASE i = Len(s)
    BY <1>1, <1>2, <1>7, <2>2
  <2> QED BY <1>1, <2>1, <2>2
<1>9. \A i \in 1 .. Len(t) : at[Len(s) + i] = g[i] /\ at[Len(s) + i + 1] = g[i + 1]
  BY <1>1
<1> HIDE DEF at
<1>10. Follow(s \o t, at)
  <2> SUFFICES ASSUME NEW i \in 1 .. Len(s \o t) PROVE at[i] \in Places /\ at[i + 1] = After(at[i], (s \o t)[i])
    BY DEF Follow
  <2>1. CASE i <= Len(s)
    <3>1. i \in 1 .. Len(s) /\ (s \o t)[i] = s[i]
      BY <1>1, <1>4, <2>1
    <3> QED BY <1>2, <1>8, <3>1 DEF Follow
  <2>2. CASE i > Len(s)
    <3>1. PICK j \in 1 .. Len(t) : i = Len(s) + j
      <4>1. i - Len(s) \in 1 .. Len(t) /\ i = Len(s) + (i - Len(s))
        BY <1>1, <1>4, <2>2
      <4> QED BY <4>1
    <3>2. (s \o t)[i] = t[j]
      BY <1>1, <1>4, <2>2, <3>1
    <3>3. at[i] = g[j] /\ at[i + 1] = g[j + 1]
      BY <1>9, <3>1
    <3> QED BY <1>3, <3>2, <3>3 DEF Follow
  <2> QED BY <1>1, <1>4, <2>1, <2>2
<1>11. \A i \in 1 .. Len(s \o t) : (s \o t)[i].of = cmd
  <2> SUFFICES ASSUME NEW i \in 1 .. Len(s \o t) PROVE (s \o t)[i].of = cmd
    OBVIOUS
  <2>1. CASE i <= Len(s)
    BY <1>1, <1>4, <2>1 DEF Piece, OfCmd
  <2>2. CASE i > Len(s)
    <3>1. i - Len(s) \in 1 .. Len(t) /\ (s \o t)[i] = t[i - Len(s)]
      BY <1>1, <1>4, <2>2
    <3> QED BY <3>1 DEF Piece, OfCmd
  <2> QED BY <1>1, <1>4, <2>1, <2>2
<1>12. at[Len(s \o t) + 1] = r
  BY <1>4, <1>7
<1> QED BY <1>4, <1>5, <1>6, <1>10, <1>11, <1>12 DEF Piece, OfCmd, FromTo

\* A result, from its columns to what ends its rows.
LEMMA ResultSetPiece ==
  ASSUME cmd \in 0 .. MaxCmd, NEW last \in Packet, last.of = cmd, NEW q \in Places \cup {"end"},
         q = After("rows", last), NEW s \in ResultSets(last)
  PROVE  Piece(s, "first", q)
<1>1. PICK n \in 1 .. MaxCols, r \in 0 .. MaxRows : s = ResultSet(n, r, last)
  BY DEF ResultSets
<1>2. n \in Nat /\ r \in Nat /\ n \in 0 .. MaxCols
  BY WireBoundsAssumption
<1>3. /\ P("cols") \in Packet /\ P("field") \in Packet /\ P("eof") \in Packet /\ P("row") \in Packet
      /\ P("cols").kind = "cols" /\ P("field").kind = "field" /\ P("eof").kind = "eof" /\ P("row").kind = "row"
      /\ P("cols").of = cmd /\ P("field").of = cmd /\ P("eof").of = cmd /\ P("row").of = cmd
  BY PTyped DEF Kinds
<1> DEFINE a == [P("cols") EXCEPT !.n = n]
<1>4. a \in Packet /\ a.kind = "cols" /\ a.of = cmd
  BY <1>2, <1>3 DEF Packet
<1> HIDE DEF a
<1>5. Piece(<<a>>, "first", "fields")
  BY <1>4, OnePiece DEF After, Places
<1>6. Piece(Times(n, P("field")), "fields", "fields")
  BY <1>2, <1>3, TimesPiece DEF After, Places
<1>7. Piece(<<P("eof")>>, "fields", "rows")
  BY <1>3, OnePiece DEF After, Places
<1>8. Piece(Times(r, P("row")), "rows", "rows")
  BY <1>2, <1>3, TimesPiece DEF After, Places
<1>9. Piece(<<last>>, "rows", q)
  BY OnePiece DEF Places
<1>10. Piece(<<a>> \o Times(n, P("field")), "first", "fields")
  BY <1>5, <1>6, JoinedPiece
<1>11. Piece(<<a>> \o Times(n, P("field")) \o <<P("eof")>>, "first", "rows")
  BY <1>7, <1>10, JoinedPiece
<1>12. Piece(<<a>> \o Times(n, P("field")) \o <<P("eof")>> \o Times(r, P("row")), "first", "rows")
  BY <1>8, <1>11, JoinedPiece
<1>13. Piece(<<a>> \o Times(n, P("field")) \o <<P("eof")>> \o Times(r, P("row")) \o <<last>>, "first", q)
  BY <1>9, <1>12, JoinedPiece
<1> QED BY <1>1, <1>13 DEF ResultSet, a

\* One that is announced to have another behind it, the last one, one cut short.
LEMMA SetsPieces ==
  ASSUME cmd \in 0 .. MaxCmd
  PROVE  /\ \A s \in ResultSets(MoreToCome) : Piece(s, "first", "first")
         /\ \A s \in ResultSets(P("eof")) : Piece(s, "first", "end")
         /\ \A s \in ResultSets(P("err")) : Piece(s, "first", "end")
<1>1. /\ P("eof") \in Packet /\ P("eof").kind = "eof" /\ P("eof").of = cmd
      /\ P("err") \in Packet /\ P("err").kind = "err" /\ P("err").of = cmd
  BY PTyped DEF Kinds
<1>2. /\ MoreToCome \in Packet /\ MoreToCome.kind = "eof" /\ MoreToCome.of = cmd /\ MoreToCome.more = TRUE
      /\ P("eof").more = FALSE
  BY <1>1, PTyped DEF MoreToCome, Packet, Kinds
<1>3. After("rows", MoreToCome) = "first" /\ After("rows", P("eof")) = "end"
  BY <1>1, <1>2 DEF After
<1>4. After("rows", P("err")) = "end"
  BY <1>1 DEF After
<1>5. "first" \in Places \cup {"end"} /\ "end" \in Places \cup {"end"}
  BY DEF Places
<1> QED BY <1>1, <1>2, <1>3, <1>4, <1>5, ResultSetPiece

LEMMA OneAnswers ==
  ASSUME cmd \in 0 .. MaxCmd, NEW kind \in {"ok", "err"}
  PROVE  Piece(<<P(kind)>>, "first", "end")
<1>1. P(kind) \in Packet /\ P(kind).kind = kind /\ P(kind).of = cmd
  BY PTyped DEF Kinds
<1>2. "first" \in Places /\ "end" \in Places \cup {"end"} /\ After("first", P(kind)) = "end"
  BY <1>1 DEF Places, After
<1> QED BY <1>1, <1>2, OnePiece

LEMMA InCallStep ==
  ASSUME NEW rest, NEW x, x \in CallStep(rest)
  PROVE  \/ x \in rest \/ x \in ResultSets(P("err"))
         \/ \E s \in ResultSets(MoreToCome), t \in rest : x = s \o t
  BY DEF CallStep

\* The answers to a CALL are what their recursive definition says.
LEMMA CalledIs ==
  ASSUME cmd \in 0 .. MaxCmd
  PROVE  Called = [n \in 0 .. MaxSets |-> IF n = 0 THEN Ok \cup Err ELSE CallStep(Called[n - 1])]
<1> DEFINE V == SUBSET Seq(Packet)
           next == [kv \in (0 .. MaxSets - 1) \X V |-> CallStep(kv[2])]
           Is(f) == f = [n \in 0 .. MaxSets |-> IF n = 0 THEN Ok \cup Err ELSE CallStep(f[n - 1])]
<1>1. Ok \cup Err \in V
  BY PTyped, OneTyped DEF Kinds, Ok, Err
<1>2. ASSUME NEW rest \in V PROVE CallStep(rest) \in V
  <2>1. ResultSets(P("err")) \in V /\ ResultSets(MoreToCome) \in V
    BY SetsPieces DEF Piece, OfCmd
  <2>2. ASSUME NEW s \in ResultSets(MoreToCome), NEW t \in rest PROVE s \o t \in Seq(Packet)
    BY <2>1, Joined
  <2>3. ASSUME NEW x, x \in CallStep(rest) PROVE x \in Seq(Packet)
    <3>1. CASE x \in rest
      BY <3>1
    <3>2. CASE x \in ResultSets(P("err"))
      BY <2>1, <3>2
    <3>3. CASE \E s \in ResultSets(MoreToCome), t \in rest : x = s \o t
      BY <2>2, <3>3
    <3> QED
      <4> HIDE DEF V
      <4> QED BY <2>3, <3>1, <3>2, <3>3, InCallStep
  <2> QED BY <2>3
<1>3. next \in [(0 .. MaxSets - 1) \X V -> V]
  BY <1>2
<1>4. PICK g : IsIterated(V, Ok \cup Err, MaxSets, next, g)
  <2> HIDE DEF V, next
  <2> QED BY <1>1, <1>3, Iterates, WireBoundsAssumption
<1>5. Is(g)
  <2>1. g = [n \in 0 .. MaxSets |-> g[n]] /\ g[0] = Ok \cup Err
    BY <1>4 DEF IsIterated
  <2>2. ASSUME NEW n \in 0 .. MaxSets, n # 0 PROVE g[n] = CallStep(g[n - 1])
    <3>1. n - 1 \in 0 .. MaxSets - 1 /\ n = (n - 1) + 1 /\ n - 1 \in 0 .. MaxSets
      BY <2>2, WireBoundsAssumption
    <3>2. g[n] = next[<<n - 1, g[n - 1]>>] /\ g[n - 1] \in V
      BY <1>4, <3>1 DEF IsIterated
    <3> QED BY <3>1, <3>2
  <2> QED BY <2>1, <2>2
<1>6. Called = CHOOSE f : Is(f)
  BY DEF Called
<1>7. Is(Called)
  <2> HIDE DEF Is
  <2> QED BY <1>5, <1>6
<1> QED BY <1>7

LEMMA CallPieces ==
  ASSUME cmd \in 0 .. MaxCmd, NEW a \in Called[MaxSets]
  PROVE  Piece(a, "first", "end")
<1> DEFINE S == {n \in 0 .. MaxSets : \A x \in Called[n] : Piece(x, "first", "end")}
<1>1. 0 \in S
  <2>1. Called[0] = Ok \cup Err /\ 0 \in 0 .. MaxSets
    BY CalledIs, WireBoundsAssumption
  <2> QED BY <2>1, OneAnswers DEF Ok, Err
<1>2. ASSUME NEW n \in 0 .. MaxSets - 1, n \in S PROVE n + 1 \in S
  <2>1. n + 1 \in 0 .. MaxSets /\ n + 1 # 0 /\ (n + 1) - 1 = n
    BY WireBoundsAssumption
  <2>2. Called[n + 1] = CallStep(Called[n])
    BY <2>1, CalledIs
  <2>3. ASSUME NEW x, x \in CallStep(Called[n]) PROVE Piece(x, "first", "end")
    <3>1. CASE x \in Called[n]
      BY <1>2, <3>1
    <3>2. CASE x \in ResultSets(P("err"))
      BY <3>2, SetsPieces
    <3>3. ASSUME NEW s \in ResultSets(MoreToCome), NEW t \in Called[n], x = s \o t
          PROVE  Piece(x, "first", "end")
      BY <1>2, <3>3, SetsPieces, JoinedPiece
    <3>4. \/ x \in Called[n] \/ x \in ResultSets(P("err"))
          \/ \E s \in ResultSets(MoreToCome), t \in Called[n] : x = s \o t
      BY <2>3, InCallStep
    <3> QED BY <3>1, <3>2, <3>3, <3>4
  <2> QED BY <2>1, <2>2, <2>3
<1>3. MaxSets \in S
  <2> HIDE DEF S
  <2>1. \A n \in 0 .. MaxSets : n \in S
    BY <1>1, <1>2, UpTo, WireBoundsAssumption
  <2> QED BY <2>1, WireBoundsAssumption
<1> QED BY <1>3

\* Whatever a server is asked, it answers with packets of the exchange in an
\* order the client knows.
LEMMA AnswersShaped ==
  ASSUME cmd \in 0 .. MaxCmd, NEW request \in Requests, NEW a \in Answers(request)
  PROVE  OfCmd(a) /\ From(a, "first")
<1>1. a \in Err \cup Ok \cup Rows \cup Called[MaxSets]
  BY StmtsAssumption DEF Answers, Requests
<1>2. CASE a \in Err \cup Ok
  BY <1>2, OneAnswers, PieceFrom DEF Ok, Err
<1>3. CASE a \in Rows
  BY <1>3, SetsPieces, PieceFrom DEF Rows
<1>4. CASE a \in Called[MaxSets]
  BY <1>4, CallPieces, PieceFrom
<1> QED BY <1>1, <1>2, <1>3, <1>4

LEMMA AuthAnswers ==
  ASSUME cmd \in 0 .. MaxCmd, NEW request \in {"auth", "auth2"}, NEW a \in Answers(request)
  PROVE  a \in Seq(Packet) /\ Len(a) = 1 /\ a[1].of = cmd
<1>1. PICK kind \in {"ok", "err", "oldauth"} : a = <<P(kind)>>
  BY DEF Answers, Ok, Err
<1> QED BY <1>1, PTyped, OneTyped DEF Kinds

LEMMA InitDbAnswers ==
  ASSUME cmd \in 0 .. MaxCmd, NEW a \in Answers("initdb")
  PROVE  /\ a \in Seq(Packet) /\ Len(a) = 1 /\ a[1].of = cmd
         /\ a[1].kind \in {"ok", "err"} /\ (a[1].kind = "err" <=> a = <<P("err")>>)
<1>1. PICK kind \in {"ok", "err"} : a = <<P(kind)>>
  BY DEF Answers, Ok, Err
<1> QED BY <1>1, PTyped, OneTyped DEF Kinds

----------------------------------------------------------------------------
(* Types *)

ServerRec == [up : BOOLEAN, open : BOOLEAN, db : DbNames \cup {NoDb}, request : Requests]

LEMMA Typed ==
  ASSUME WireTypeOK
  PROVE  /\ c \in ClientRec /\ srv \in ServerRec /\ wire \in Seq(Packet)
         /\ busy \in BOOLEAN /\ ret \in {"none", "want", "ok", "fail"}
         /\ faults \in Nat /\ cmd \in 0 .. MaxCmd /\ slipped \in {"no", "over", "unread"}
         /\ selected \in DbNames \cup {NoDb}
  BY DEF WireTypeOK, ServerRec

LEMMA TypedNext ==
  ASSUME c' \in ClientRec, srv' \in ServerRec, wire' \in Seq(Packet),
         busy' \in BOOLEAN, ret' \in {"none", "want", "ok", "fail"},
         faults' \in Nat, cmd' \in 0 .. MaxCmd, slipped' \in {"no", "over", "unread"},
         selected' \in DbNames \cup {NoDb}
  PROVE  WireTypeOK'
  BY DEF WireTypeOK, ServerRec

LEMMA ClientFields ==
  ASSUME WireTypeOK
  PROVE  /\ c.qst \in Handshake \cup QuerySts \cup DatabaseSts
         /\ c.call \in {"connect", "query", "database"} /\ c.readst \in {"len", "data", "decode"}
         /\ c.err \in BOOLEAN /\ c.expect \in {"ok", "data"} /\ c.more \in BOOLEAN
         /\ c.cols \in 0 .. 255 /\ c.lines \in {0, 1}
         /\ c.ask \in DbNames \cup {NoDb} /\ selected \in DbNames \cup {NoDb} /\ c.sock \in Sockets
  BY Typed DEF ClientRec

LEMMA WireHead ==
  ASSUME WireTypeOK, wire # <<>>
  PROVE  /\ Head(wire) = wire[1] /\ Head(wire) \in Packet /\ Tail(wire) \in Seq(Packet)
         /\ Len(wire) \in Nat \ {0} /\ Len(Tail(wire)) = Len(wire) - 1
         /\ \A i \in 1 .. Len(Tail(wire)) : Tail(wire)[i] = wire[i + 1]
<1>1. wire \in Seq(Packet)
  BY DEF WireTypeOK
<1> QED BY <1>1, HeadTailProperties, EmptySeq, ElementOfSeq

LEMMA WirePrefix ==
  ASSUME WireTypeOK, NEW k \in 0 .. Len(wire)
  PROVE  /\ SubSeq(wire, 1, k) \in Seq(Packet) /\ Len(SubSeq(wire, 1, k)) = k
         /\ \A i \in 1 .. k : SubSeq(wire, 1, k)[i] = wire[i]
<1>1. wire \in Seq(Packet) /\ Len(wire) \in Nat /\ \A i \in 1 .. k : wire[i] \in Packet
  BY ElementOfSeq DEF WireTypeOK
<1> QED BY <1>1, SubSeqProperties

HasPacket == c.readst = "decode" => wire # <<>>

LEMMA ColumnsTyped ==
  ASSUME NEW p \in Packet, NEW n \in Columns(p)
  PROVE  n \in 0 .. 255
<1>1. \A k \in 0 .. MaxCols : FirstByte(k) \in 0 .. 255
  BY WireBoundsAssumption DEF FirstByte
<1>2. 1 .. MaxCols \subseteq 0 .. MaxCols
  BY WireBoundsAssumption
<1> QED BY <1>1, <1>2 DEF Columns, Packet

LEMMA SlipsTyped == slipped \in {"no", "over", "unread"} => \A why \in {"over", "unread"} : Slips(why) => slipped' \in {"no", "over", "unread"}
  BY DEF Slips

LEMMA NextLineTyped == ASSUME NEW s \in ClientRec PROVE NextLine(s) \in ClientRec
<1>1. s.lines \in {0, 1}
  BY DEF ClientRec
<1>2. (s.lines + 1) % 2 \in {0, 1}
  BY <1>1
<1> QED BY <1>2 DEF NextLine, ClientRec

LEMMA FreshTyped == NewClient \in ClientRec /\ NoServer \in ServerRec /\ <<>> \in Seq(Packet)
  BY EmptySeq
     DEF NewClient, NoServer, ClientRec, ServerRec, Handshake, QuerySts, DatabaseSts, Sockets, Requests, NoDb

LEMMA TypeInit == WireInit => WireTypeOK
<1>1. 0 \in 0 .. MaxCmd /\ MaxFaults \in Nat
  BY WireBoundsAssumption
<1> QED BY <1>1, FreshTyped DEF WireInit, WireTypeOK, ServerRec

LEMMA ErrTyped == ASSUME NEW s \in ClientRec, NEW b \in BOOLEAN PROVE [s EXCEPT !.err = b] \in ClientRec
  BY DEF ClientRec

LEMMA TypeCalls == WireTypeOK /\ Calls => WireTypeOK'
<1> SUFFICES ASSUME WireTypeOK, Calls PROVE WireTypeOK'
  OBVIOUS
<1>1. CASE SetupCall
  <2>1. c' \in ClientRec /\ slipped' \in {"no", "over", "unread"}
    BY <1>1, Typed, SlipsTyped DEF SetupCall, GivenUpIf, ClientRec
  <2> QED BY <1>1, <2>1, Typed, TypedNext DEF SetupCall
<1>2. CASE DisconnectCall
  BY <1>2, Typed, FreshTyped, TypedNext DEF DisconnectCall
<1>3. CASE FreeCall \/ TooLongCall
  <2>1. c' \in ClientRec
    BY <1>3, Typed, ZenonT(60) DEF FreeCall, TooLongCall, ClientRec
  <2> QED BY <1>3, <2>1, Typed, TypedNext DEF FreeCall, TooLongCall
<1>4. ASSUME Commands PROVE /\ cmd' \in 0 .. MaxCmd /\ ret' = "none" /\ slipped' \in {"no", "over", "unread"}
                            /\ UNCHANGED <<busy, wire, faults, selected>>
  <2>1. cmd' \in 0 .. MaxCmd
    BY <1>4, Typed, WireBoundsAssumption DEF Commands
  <2> QED BY <1>4, <2>1, Typed, SlipsTyped DEF Commands, GivenUpIf
<1>5. ASSUME NEW s \in Stmts, QueryCall(s) PROVE WireTypeOK'
  <2>1. c' \in ClientRec
    <3>1. Expects(s) \in {"ok", "data"} /\ (IF s = "call" THEN TRUE ELSE c.more) \in BOOLEAN
      BY ClientFields DEF Expects
    <3>2. c' = [c EXCEPT !.qst = "SEND_QUERY", !.call = "query", !.expect = Expects(s),
                         !.more = IF s = "call" THEN TRUE ELSE c.more]
      BY <1>5 DEF QueryCall
    <3>3. "SEND_QUERY" \in Handshake \cup QuerySts \cup DatabaseSts
      BY DEF QuerySts
    <3>4. \A x \in {"ok", "data"}, more \in BOOLEAN :
            [c EXCEPT !.qst = "SEND_QUERY", !.call = "query", !.expect = x, !.more = more] \in ClientRec
      BY <3>3, Typed, ZenonT(60) DEF ClientRec
    <3> QED BY <3>1, <3>2, <3>4
  <2>2. srv' \in ServerRec
    BY <1>5, Typed DEF QueryCall, Requests, ServerRec
  <2> QED BY <1>4, <1>5, <2>1, <2>2, Typed, TypedNext DEF QueryCall
<1>6. ASSUME NEW d \in DbNames, DatabaseCall(d) PROVE WireTypeOK'
  <2>1. c' \in ClientRec
    BY <1>6, Typed, ZenonT(60) DEF DatabaseCall, DatabaseSts, ClientRec
  <2>2. srv' \in ServerRec
    BY <1>6, Typed DEF DatabaseCall, Requests, ServerRec
  <2> QED BY <1>4, <1>6, <2>1, <2>2, Typed, TypedNext DEF DatabaseCall
<1>7. CASE IoCall \/ DialCall
  BY <1>7, Typed, TypedNext DEF IoCall, DialCall, Begin
<1>8. CASE RefusedDial \/ RefusedIo
  <2>1. c' \in ClientRec /\ ret' \in {ret, "fail"}
    BY <1>8, Typed, ZenonT(60) DEF RefusedDial, RefusedIo, Refuse, ClientRec
  <2> QED BY <1>8, <2>1, Typed, TypedNext DEF RefusedDial, RefusedIo, Refuse
<1>9. CASE IoAfterEnd
  <2>1. c' \in ClientRec
    BY <1>9, Typed, ZenonT(60) DEF IoAfterEnd, ClientRec
  <2> QED BY <1>9, <2>1, Typed, TypedNext DEF IoAfterEnd
<1> QED BY <1>1, <1>2, <1>3, <1>5, <1>6, <1>7, <1>8, <1>9 DEF Calls

LEMMA TypeSockets == WireTypeOK /\ (SocketConnect \/ ConnCheck) => WireTypeOK'
<1> SUFFICES ASSUME WireTypeOK, SocketConnect \/ ConnCheck PROVE WireTypeOK'
  OBVIOUS
<1>1. CASE SocketConnect
  <2>1. <<P("greeting")>> \in Seq(Packet) /\ <<P("err")>> \in Seq(Packet)
    BY Typed, PTyped, OneTyped DEF Kinds
  <2>2. c' \in ClientRec
    BY <1>1, Typed, ZenonT(60) DEF SocketConnect, ClientRec, Handshake, Sockets
  <2>3. srv' \in ServerRec
    BY <1>1, Typed DEF SocketConnect, ServerRec
  <2>4. faults' \in Nat
    BY <1>1, Typed DEF SocketConnect
  <2>5. wire' \in Seq(Packet)
    BY <1>1, <2>1, Typed DEF SocketConnect
  <2>6. busy' = FALSE /\ ret' \in {"want", "fail"} /\ UNCHANGED <<cmd, slipped, selected>>
    BY <1>1 DEF SocketConnect
  <2> QED BY <2>2, <2>3, <2>4, <2>5, <2>6, Typed, TypedNext
<1>2. CASE ConnCheck
  <2>1. c' \in ClientRec
    BY <1>2, Typed, ZenonT(60) DEF ConnCheck, ClientRec, Handshake, Sockets
  <2>2. srv' \in ServerRec /\ wire' \in Seq(Packet)
    BY <1>2, Typed, FreshTyped DEF ConnCheck
  <2> QED BY <1>2, <2>1, <2>2, Typed, TypedNext DEF ConnCheck
<1> QED BY <1>1, <1>2

LEMMA ServesTyped == WireTypeOK /\ Serves => wire' \in Seq(Packet) /\ srv' \in ServerRec
<1> SUFFICES ASSUME WireTypeOK, Serves PROVE wire' \in Seq(Packet) /\ srv' \in ServerRec
  OBVIOUS
<1>1. cmd \in 0 .. MaxCmd /\ wire \in Seq(Packet) /\ P("err") \in Packet /\ srv \in ServerRec
  BY Typed, PTyped DEF Kinds
<1>2. CASE ~srv.up
  BY <1>1, <1>2 DEF Serves
<1>3. CASE srv.up /\ c.call # "connect" /\ ~srv.open
  <2>1. wire' = Append(wire, P("err")) /\ srv' = [srv EXCEPT !.up = FALSE]
    BY <1>3 DEF Serves
  <2>2. srv' \in ServerRec
    BY <1>1, <2>1 DEF ServerRec
  <2> QED BY <1>1, <2>1, <2>2, AppendProperties
<1>4. CASE srv.up /\ c.call # "connect" /\ srv.open
  <2>1. PICK answer \in Answers(srv.request) :
          /\ wire' = wire \o answer
          /\ srv' = IF srv.request = "initdb" /\ answer # <<P("err")>>
                    THEN [srv EXCEPT !.db = c.ask] ELSE srv
    BY <1>4 DEF Serves
  <2>2. answer \in Seq(Packet)
    <3>1. srv.request \in Requests
      BY <1>1 DEF ServerRec
    <3> QED BY <1>1, <3>1, AnswersShaped DEF OfCmd
  <2>3. srv' \in ServerRec
    BY <1>1, <2>1, ClientFields DEF ServerRec
  <2> QED BY <1>1, <2>1, <2>2, <2>3, ConcatProperties
<1>5. CASE srv.up /\ c.call = "connect"
  <2>1. PICK request \in {"auth", "auth2"} : \E answer \in Answers(request) :
          /\ wire' = wire \o answer
          /\ srv' = [srv EXCEPT !.open = (answer = <<P("ok")>>), !.up = (answer # <<P("err")>>)]
    BY <1>5 DEF Serves
  <2>2. PICK answer \in Answers(request) :
          /\ wire' = wire \o answer
          /\ srv' = [srv EXCEPT !.open = (answer = <<P("ok")>>), !.up = (answer # <<P("err")>>)]
    BY <2>1
  <2>3. answer \in Seq(Packet)
    BY <1>1, AuthAnswers
  <2>4. (answer = <<P("ok")>>) \in BOOLEAN /\ (answer # <<P("err")>>) \in BOOLEAN
    OBVIOUS
  <2>5. srv' \in ServerRec
    BY <1>1, <2>2, <2>4 DEF ServerRec
  <2> QED BY <1>1, <2>2, <2>3, <2>5, ConcatProperties
<1> QED BY <1>2, <1>3, <1>4, <1>5

LEMMA TypeWritesReads == WireTypeOK /\ (Writes \/ Reads) => WireTypeOK'
<1> SUFFICES ASSUME WireTypeOK, Writes \/ Reads PROVE WireTypeOK'
  OBVIOUS
<1>1. CASE WriteAll
  <2>1. AfterSending(c.qst) \in Handshake \cup QuerySts \cup DatabaseSts
    BY DEF AfterSending, Handshake, QuerySts, DatabaseSts
  <2>2. c' \in ClientRec
    BY <1>1, <2>1, Typed, ZenonT(60) DEF WriteAll, ClientRec
  <2> QED BY <1>1, <2>2, Typed, ServesTyped, TypedNext DEF WriteAll
<1>2. CASE WriteSome
  BY <1>2, Typed, TypedNext DEF WriteSome, Want, Return
<1>3. CASE WriteFails
  <2>1. c' \in ClientRec
    <3>1. (IF c.sock = "live" THEN "dead" ELSE c.sock) \in Sockets
      BY ClientFields DEF Sockets
    <3>2. c' = [c EXCEPT !.sock = IF c.sock = "live" THEN "dead" ELSE c.sock]
      BY <1>3 DEF WriteFails, Breaks, Return
    <3>3. \A x \in Sockets : [c EXCEPT !.sock = x] \in ClientRec
      BY Typed DEF ClientRec
    <3> QED BY <3>1, <3>2, <3>3
  <2> QED BY <1>3, <2>1, Typed, TypedNext, SlipsTyped DEF WriteFails, Breaks, Return, LeavesUnread
<1>4. CASE ReadHeader \/ ReadBody
  <2>1. c' \in ClientRec
    BY <1>4, Typed, ZenonT(60) DEF ReadHeader, ReadBody, ReadPart, ClientRec
  <2> QED BY <1>4, <2>1, Typed, TypedNext DEF ReadHeader, ReadBody, ReadPart
<1>5. CASE ReadWaits
  <2>1. c' \in ClientRec
    BY <1>5, Typed, ZenonT(60) DEF ReadWaits, Want, Return, ClientRec
  <2> QED BY <1>5, <2>1, Typed, TypedNext DEF ReadWaits, Want, Return
<1>6. CASE ReadLost
  <2>1. c' \in ClientRec
    BY <1>6, Typed DEF ReadLost, Breaks, Return, ClientRec, Sockets
  <2> QED BY <1>6, <2>1, Typed, TypedNext, SlipsTyped DEF ReadLost, Breaks, Return, LeavesUnread
<1>7. CASE LostInRows
  <2>1. c' \in ClientRec
    BY <1>7, Typed, NextLineTyped DEF LostInRows
  <2> QED BY <1>7, <2>1, Typed, TypedNext DEF LostInRows
<1> QED BY <1>1, <1>2, <1>3, <1>4, <1>5, <1>6, <1>7 DEF Writes, Reads

LEMMA TypeServerGoes == WireTypeOK /\ ServerGoes => WireTypeOK'
<1> SUFFICES ASSUME WireTypeOK, ServerGoes PROVE WireTypeOK'
  OBVIOUS
<1>1. wire' \in Seq(Packet)
  BY WirePrefix DEF ServerGoes
<1>2. srv' \in ServerRec
  BY Typed DEF ServerGoes, ServerRec
<1>3. faults' \in Nat
  BY Typed DEF ServerGoes
<1> QED BY <1>1, <1>2, <1>3, Typed, TypedNext DEF ServerGoes

LEMMA StatusTyped ==
  ASSUME WireTypeOK, NEW made, NEW p \in Packet
  PROVE  Status(made, p) \in ClientRec
<1>1. p.more \in BOOLEAN
  BY DEF Packet
<1>2. (IF made \in {"ok", "eof"} THEN p.more ELSE c.more) \in BOOLEAN
  BY <1>1, ClientFields
<1>3. \A x \in BOOLEAN : [c EXCEPT !.more = x] \in ClientRec
  BY Typed, ZenonT(60) DEF ClientRec
<1> QED BY <1>2, <1>3 DEF Status

LEMMA GoOnTyped ==
  ASSUME WireTypeOK, NEW made, Decoding(made), HasPacket, NEW client \in ClientRec, GoOn(client)
  PROVE  WireTypeOK'
<1>1. wire' \in Seq(Packet)
  BY WireHead DEF Decoding, HasPacket
<1>2. c' \in ClientRec
  BY DEF GoOn, ClientRec
<1> QED BY <1>1, <1>2, Typed, TypedNext DEF GoOn

LEMMA EndsTyped ==
  ASSUME WireTypeOK, NEW made, Decoding(made), HasPacket, NEW client \in ClientRec,
         NEW r \in {"ok", "fail"}, Return(r, client), LeavesUnread, selected' \in DbNames \cup {NoDb}
  PROVE  WireTypeOK'
<1>1. wire' \in Seq(Packet)
  BY WireHead DEF Decoding, HasPacket
<1> QED BY <1>1, Typed, TypedNext, SlipsTyped DEF Return, LeavesUnread

LEMMA FinishTyped ==
  ASSUME WireTypeOK, NEW made, Decoding(made), HasPacket, NEW client \in ClientRec, Finish(client)
  PROVE  WireTypeOK'
<1>1. [client EXCEPT !.ask = NoDb] \in ClientRec
  BY DEF ClientRec
<1>2. selected' \in DbNames \cup {NoDb}
  BY ClientFields, Typed DEF Finish
<1> QED BY <1>1, <1>2, EndsTyped DEF Finish

LEMMA SpoiltTyped ==
  ASSUME WireTypeOK, NEW made, Decoding(made), HasPacket, NEW kind, Spoilt(kind)
  PROVE  WireTypeOK'
<1>1. wire' \in Seq(Packet)
  BY WireHead DEF Decoding, HasPacket
<1>2. c' \in ClientRec
  BY Typed DEF Spoilt, ClientRec
<1>3. faults' \in Nat
  BY Typed DEF Spoilt
<1> QED BY <1>1, <1>2, <1>3, Typed, TypedNext, SlipsTyped DEF Spoilt, LeavesUnread

LEMMA TypeDecode == WireTypeOK /\ HasPacket /\ Decode => WireTypeOK'
<1> SUFFICES ASSUME WireTypeOK, HasPacket, Decode PROVE WireTypeOK'
  OBVIOUS
<1>1. ASSUME NEW made, Decoding(made) PROVE Head(wire) \in Packet /\ Status(made, Head(wire)) \in ClientRec
  BY <1>1, WireHead, StatusTyped DEF Decoding, HasPacket
<1>2. ASSUME NEW made, DecodeFails(made) PROVE WireTypeOK'
  <2>1. [Status(made, Head(wire)) EXCEPT !.err = TRUE] \in ClientRec
    BY <1>1, <1>2, ErrTyped DEF DecodeFails
  <2> QED BY <1>2, <2>1, Typed, EndsTyped DEF DecodeFails, Breaks
<1>3. CASE DecodeGreeting
  <2>1. [c EXCEPT !.qst = "SEND_AUTH", !.more = FALSE] \in ClientRec
    BY Typed DEF ClientRec, Handshake
  <2>2. [c EXCEPT !.more = FALSE] \in ClientRec
    BY Typed DEF ClientRec
  <2> QED BY <1>3, <2>1, <2>2, Typed, GoOnTyped, EndsTyped DEF DecodeGreeting, Breaks
<1>4. ASSUME NEW made, DecodeAuth(made) PROVE WireTypeOK'
  <2>1. Status(made, Head(wire)) \in ClientRec
    BY <1>1, <1>4 DEF DecodeAuth
  <2>2. [Status(made, Head(wire)) EXCEPT !.qst = "SEND_AUTH_2"] \in ClientRec
    BY <2>1 DEF ClientRec, Handshake
  <2> QED BY <1>4, <2>1, <2>2, GoOnTyped, FinishTyped DEF DecodeAuth
<1>5. CASE DecodeInitDb
  BY <1>1, <1>5, FinishTyped DEF DecodeInitDb
<1>6. ASSUME NEW made, DecodeColNum(made) PROVE WireTypeOK'
  <2>1. Status(made, Head(wire)) \in ClientRec
    BY <1>1, <1>6 DEF DecodeColNum
  <2>2. CASE Finish(Status(made, Head(wire)))
    BY <1>6, <2>1, <2>2, FinishTyped DEF DecodeColNum
  <2>3. ASSUME NEW n \in Columns(Head(wire)), GoOn([c EXCEPT !.qst = "COLDESC", !.cols = n, !.lines = 0])
        PROVE  WireTypeOK'
    <3>1. n \in 0 .. 255
      BY <1>1, <1>6, ColumnsTyped DEF DecodeColNum
    <3>2. [c EXCEPT !.qst = "COLDESC", !.cols = n, !.lines = 0] \in ClientRec
      BY <3>1, Typed DEF ClientRec, QuerySts
    <3> QED BY <1>6, <2>3, <3>2, GoOnTyped DEF DecodeColNum
  <2> QED BY <1>6, <2>2, <2>3 DEF DecodeColNum
<1>7. CASE DecodeColDesc
  <2>1. AfterField(c.cols) \in ClientRec
    <3>1. [c EXCEPT !.cols = 0, !.qst = "EOF1"] \in ClientRec
      <4>1. 0 \in 0 .. 255 /\ "EOF1" \in QuerySts
        BY DEF QuerySts
      <4> QED BY <4>1, Typed DEF ClientRec
    <3>2. ASSUME c.cols > 1 PROVE [c EXCEPT !.cols = c.cols - 1] \in ClientRec
      <4>1. c.cols - 1 \in 0 .. 255
        BY <3>2, ClientFields
      <4> QED BY <4>1, Typed DEF ClientRec
    <3> QED BY <3>1, <3>2 DEF AfterField
  <2> QED BY <1>7, <2>1, GoOnTyped, SpoiltTyped DEF DecodeColDesc
<1>8. CASE DecodeEof1
  <2>1. [Status("eof", Head(wire)) EXCEPT !.qst = "DATA"] \in ClientRec
    BY <1>1, <1>8 DEF DecodeEof1, ClientRec, QuerySts
  <2> QED BY <1>8, <2>1, GoOnTyped DEF DecodeEof1
<1>9. CASE DecodeRow
  BY <1>9, Typed, NextLineTyped, GoOnTyped, SpoiltTyped DEF DecodeRow
<1>10. CASE DecodeLastRow
  <2>1. Status("eof", Head(wire)) \in ClientRec
    BY <1>1, <1>10 DEF DecodeLastRow
  <2>2. [Status("eof", Head(wire)) EXCEPT !.qst = "COLNUM"] \in ClientRec
    BY <2>1 DEF ClientRec, QuerySts
  <2> QED BY <1>10, <2>1, <2>2, GoOnTyped, FinishTyped DEF DecodeLastRow, LastRow
<1> QED BY <1>2, <1>3, <1>4, <1>5, <1>6, <1>7, <1>8, <1>9, <1>10 DEF Decode

----------------------------------------------------------------------------
(* What each step does to the client *)

\* The client waits for a packet of the exchange.
Reading == c.qst \in Receiving /\ ret \in {"none", "want"}

\* The state of the client belongs to the call under way, or nothing goes on;
\* the socket is there for whom reads it, and a packet for whom decodes it; the
\* handshake comes before any database.
Turns ==
  /\ c.qst \in Handshake => c.call = "connect" /\ selected = NoDb /\ srv.db = NoDb
  /\ c.qst \in QuerySts => c.call \in {"connect", "query"}
  /\ c.qst \in DatabaseSts => c.call \in {"connect", "database"}
  /\ busy => ret \in {"none", "want"} /\ (c.call = "connect" => c.qst \in Handshake)
  /\ c.qst = "CONN_CHECK" \/ Reading => c.sock = "live"
  /\ Reading /\ c.readst = "decode" => wire # <<>>
  /\ ~busy /\ ret = "none" => c.qst \in {"START"} \cup Sending
  /\ c.qst = "SEND_INIT_DB" => srv.request = "initdb"
  /\ c.qst = "START" => ret \in {"none", "fail"}

TurnsInv == WireTypeOK /\ Turns

LEMMA StatesApart ==
  /\ \A q \in Handshake : q \notin QuerySts \cup DatabaseSts
  /\ \A q \in QuerySts : q \notin DatabaseSts
  /\ \A q \in Sending : q \notin Receiving
  /\ "START" \notin Sending \cup Receiving /\ "CONN_CHECK" \notin Sending \cup Receiving
  /\ "START" \in Handshake /\ "CONN_CHECK" \in Handshake /\ "READ_GREETINGS" \in Handshake \cap Receiving
  /\ "SEND_INIT_DB" \in DatabaseSts \cap Sending
  BY DEF Handshake, QuerySts, DatabaseSts, Sending, Receiving

\* What else of the client stays when only its place in the exchange changes.
SameClient(s) ==
  s.call = c.call /\ s.err = c.err /\ s.ask = c.ask /\ s.sock = c.sock

LEMMA SetupDoes ==
  ASSUME WireTypeOK, SetupCall
  PROVE  /\ c'.call = "connect" /\ c'.qst = c.qst /\ c'.readst = c.readst /\ c'.err = c.err
         /\ c'.ask = c.ask /\ selected' = selected /\ c'.sock = c.sock
         /\ ~busy /\ UNCHANGED <<busy, ret, srv, wire, faults, cmd>>
  BY Typed DEF SetupCall, Turn, ClientRec

LEMMA ErrDoes ==
  ASSUME WireTypeOK, NEW b \in BOOLEAN, c' = [c EXCEPT !.err = b], UNCHANGED selected
  PROVE  /\ c'.call = c.call /\ c'.qst = c.qst /\ c'.readst = c.readst /\ c'.err = b
         /\ c'.ask = c.ask /\ selected' = selected /\ c'.sock = c.sock
  BY Typed DEF ClientRec

LEMMA QueryDoes ==
  ASSUME WireTypeOK, NEW s \in Stmts, QueryCall(s)
  PROVE  /\ c'.call = "query" /\ c'.qst = "SEND_QUERY" /\ c'.readst = c.readst /\ c'.err = c.err
         /\ c'.ask = c.ask /\ selected' = selected /\ c'.sock = c.sock
         /\ srv'.request = s /\ srv'.db = srv.db /\ srv'.open = srv.open /\ srv'.up = srv.up
         /\ Commands
<1>1. Commands /\ selected' = selected
  BY DEF QueryCall, Commands
<1>2. /\ c'.call = "query" /\ c'.qst = "SEND_QUERY" /\ c'.readst = c.readst /\ c'.err = c.err
      /\ c'.ask = c.ask /\ c'.sock = c.sock
  BY Typed DEF QueryCall, ClientRec
<1>3. srv'.request = s /\ srv'.db = srv.db /\ srv'.open = srv.open /\ srv'.up = srv.up
  BY Typed DEF QueryCall, ServerRec
<1> QED BY <1>1, <1>2, <1>3

LEMMA DatabaseDoes ==
  ASSUME WireTypeOK, NEW d \in DbNames, DatabaseCall(d)
  PROVE  /\ c'.call = "database" /\ c'.qst = "SEND_INIT_DB" /\ c'.readst = c.readst /\ c'.err = c.err
         /\ c'.ask = d /\ selected' = selected /\ c'.sock = c.sock
         /\ srv'.request = "initdb" /\ srv'.db = srv.db /\ srv'.open = srv.open /\ srv'.up = srv.up
         /\ Commands
<1>1. Commands /\ selected' = selected
  BY DEF DatabaseCall, Commands
<1>2. /\ c'.call = "database" /\ c'.qst = "SEND_INIT_DB" /\ c'.readst = c.readst /\ c'.err = c.err
      /\ c'.ask = d /\ c'.sock = c.sock
  BY Typed DEF DatabaseCall, ClientRec
<1>3. srv'.request = "initdb" /\ srv'.db = srv.db /\ srv'.open = srv.open /\ srv'.up = srv.up
  BY Typed DEF DatabaseCall, ServerRec
<1> QED BY <1>1, <1>2, <1>3

LEMMA SocketDoes ==
  ASSUME WireTypeOK, SocketConnect
  PROVE  /\ c.qst = "START" /\ busy /\ ~busy' /\ UNCHANGED <<cmd, slipped>>
         /\ c'.call = c.call /\ c'.readst = c.readst /\ c'.ask = c.ask /\ selected' = selected
         /\ srv'.db = srv.db /\ srv'.request = srv.request /\ srv'.open = srv.open
         /\ \/ /\ c'.qst = "CONN_CHECK" /\ c'.sock = "live" /\ c'.err = c.err /\ ret' = "want"
               /\ Len(wire') = 1 /\ \A i \in 1 .. Len(wire') : wire'[i].of = cmd
            \/ /\ c'.qst = "START" /\ c'.sock = c.sock /\ c'.err = TRUE /\ ret' = "fail" /\ wire' = wire
<1>1. c.qst = "START" /\ busy /\ ~busy' /\ UNCHANGED <<cmd, slipped, selected>>
  BY Typed DEF SocketConnect, Running
<1>2. CASE ret' = "want"
  <2>1. c' = [c EXCEPT !.qst = "CONN_CHECK", !.sock = "live"] /\ srv' = [srv EXCEPT !.up = TRUE]
        /\ wire' \in {<<P("greeting")>>, <<P("err")>>}
    BY <1>2 DEF SocketConnect
  <2>2. Len(wire') = 1 /\ \A i \in 1 .. Len(wire') : wire'[i].of = cmd
    <3>1. \A kind \in {"greeting", "err"} :
            Len(<<P(kind)>>) = 1 /\ \A i \in 1 .. 1 : <<P(kind)>>[i].of = cmd
      BY Typed, PTyped, OneTyped DEF Kinds
    <3> QED BY <2>1, <3>1
  <2>3. /\ c'.call = c.call /\ c'.readst = c.readst /\ c'.ask = c.ask
        /\ c'.qst = "CONN_CHECK" /\ c'.sock = "live" /\ c'.err = c.err
    BY <2>1, Typed DEF ClientRec
  <2>4. srv'.db = srv.db /\ srv'.request = srv.request /\ srv'.open = srv.open
    BY <2>1, Typed DEF ServerRec
  <2> QED BY <1>1, <1>2, <2>2, <2>3, <2>4
<1>3. CASE ret' = "fail"
  <2>1. c' = [c EXCEPT !.err = TRUE] /\ srv' = srv /\ wire' = wire
    BY <1>3 DEF SocketConnect
  <2> QED BY <1>1, <1>3, <2>1, ErrDoes
<1> QED BY <1>2, <1>3 DEF SocketConnect

LEMMA CheckDoes ==
  ASSUME WireTypeOK, ConnCheck
  PROVE  /\ c.qst = "CONN_CHECK" /\ busy /\ UNCHANGED <<cmd, slipped>>
         /\ c'.call = c.call /\ c'.ask = c.ask /\ selected' = selected
         /\ \/ /\ c'.qst = "READ_GREETINGS" /\ c'.sock = c.sock /\ c'.err = c.err /\ c'.readst = "len"
               /\ UNCHANGED <<busy, ret, wire, srv>>
            \/ /\ c'.qst = "START" /\ c'.sock = "none" /\ c'.err = TRUE /\ ret' = "fail" /\ ~busy'
               /\ wire' = <<>> /\ srv' = NoServer
  BY Typed DEF ConnCheck, Running, ClientRec

LEMMA WriteDoes ==
  ASSUME WireTypeOK, WriteAll
  PROVE  /\ busy /\ c.qst \in Sending /\ c.sock = "live" /\ Serves
         /\ c'.qst = AfterSending(c.qst) /\ c'.readst = "len" /\ SameClient(c')
         /\ UNCHANGED <<busy, ret, faults, cmd, slipped, selected>>
  BY Typed DEF WriteAll, Running, SameClient, ClientRec

LEMMA WriteFailsDoes ==
  ASSUME WireTypeOK, WriteFails
  PROVE  /\ busy /\ ~busy' /\ c.qst \in Sending /\ ret' = "fail"
         /\ c'.qst = c.qst /\ c'.readst = c.readst
         /\ c'.call = c.call /\ c'.err = c.err /\ c'.ask = c.ask /\ selected' = selected
         /\ c'.sock = IF c.sock = "live" THEN "dead" ELSE c.sock
         /\ LeavesUnread /\ UNCHANGED <<wire, srv, faults, cmd>>
<1>1. c' = [c EXCEPT !.sock = IF c.sock = "live" THEN "dead" ELSE c.sock]
  BY DEF WriteFails, Breaks, Return
<1> QED BY <1>1, Typed DEF WriteFails, Running, Breaks, Return, ClientRec

LEMMA ReadPartDoes ==
  ASSUME WireTypeOK, ReadHeader \/ ReadBody
  PROVE  /\ busy /\ c.qst \in Receiving /\ wire # <<>> /\ c'.qst = c.qst /\ SameClient(c')
         /\ UNCHANGED <<busy, ret, srv, wire, faults, cmd, slipped, selected>>
  BY Typed DEF ReadHeader, ReadBody, ReadPart, Running, SameClient, ClientRec

LEMMA ReadWaitsDoes ==
  ASSUME WireTypeOK, ReadWaits
  PROVE  /\ busy /\ ~busy' /\ c.qst \in Receiving /\ c.readst # "decode" /\ ret' = "want"
         /\ c'.qst = c.qst /\ c'.readst = c.readst /\ c'.err \in {c.err, FALSE}
         /\ c'.call = c.call /\ c'.ask = c.ask /\ selected' = selected /\ c'.sock = c.sock
         /\ UNCHANGED <<srv, faults, cmd, wire, slipped>>
  BY Typed DEF ReadWaits, Want, Return, Running, ClientRec

LEMMA ReadLostDoes ==
  ASSUME WireTypeOK, ReadLost
  PROVE  /\ busy /\ ~busy' /\ c.qst \in Receiving /\ wire = <<>> /\ ret' = "fail"
         /\ c'.qst = c.qst /\ c'.readst = c.readst /\ c'.err = TRUE
         /\ c'.call = c.call /\ c'.ask = c.ask /\ selected' = selected /\ c'.sock = "dead"
         /\ LeavesUnread /\ UNCHANGED <<srv, faults, cmd, wire>>
  BY Typed DEF ReadLost, Lost, Breaks, Return, Running, ClientRec

LEMMA LostInRowsDoes ==
  ASSUME WireTypeOK, LostInRows
  PROVE  /\ busy /\ c.qst = "DATA" /\ wire = <<>> /\ c'.qst = c.qst /\ c'.readst = "len" /\ SameClient(c')
         /\ UNCHANGED <<busy, ret, srv, wire, faults, cmd, slipped, selected>>
  BY Typed DEF LostInRows, NextLine, Lost, Running, SameClient, ClientRec

LEMMA GoesDoes ==
  ASSUME WireTypeOK, ServerGoes
  PROVE  /\ srv'.open = srv.open /\ srv'.db = srv.db /\ srv'.request = srv.request
         /\ UNCHANGED <<c, busy, ret, cmd, slipped, selected>>
         /\ \E k \in 0 .. Len(wire) :
              /\ c.readst = "decode" => k > 0
              /\ wire' = SubSeq(wire, 1, k)
  BY Typed DEF ServerGoes, ServerRec

LEMMA StatusDoes ==
  ASSUME WireTypeOK, NEW made, NEW p \in Packet
  PROVE  /\ Status(made, p) \in ClientRec
         /\ Status(made, p).qst = c.qst /\ Status(made, p).readst = c.readst /\ SameClient(Status(made, p))
<1>1. Status(made, p) \in ClientRec
  BY StatusTyped
<1> QED BY <1>1, Typed DEF Status, SameClient, ClientRec

LEMMA GoOnDoes ==
  ASSUME NEW client \in ClientRec, GoOn(client)
  PROVE  /\ c'.qst = client.qst /\ c'.readst = "len" /\ (SameClient(client) => SameClient(c'))
         /\ UNCHANGED <<busy, ret, srv, cmd, slipped, selected>>
<1>1. c' = [client EXCEPT !.readst = "len"] /\ UNCHANGED <<busy, ret, srv, cmd, slipped, selected>>
  BY DEF GoOn
<1>2. /\ c'.qst = client.qst /\ c'.readst = "len" /\ c'.call = client.call /\ c'.err = client.err
      /\ c'.ask = client.ask /\ c'.sock = client.sock
  BY <1>1 DEF ClientRec
<1> QED BY <1>1, <1>2 DEF SameClient

\* The exchange ends well.
Ending ==
  /\ ~busy' /\ ret' = "ok" /\ LeavesUnread
  /\ c'.qst = c.qst /\ c'.readst = c.readst /\ c'.call = c.call /\ c'.err = c.err /\ c'.sock = c.sock
  /\ c'.ask = NoDb /\ selected' = IF c.call = "database" THEN c.ask ELSE selected

\* It breaks off over a packet.
BreakingOff ==
  /\ ~busy' /\ ret' = "fail" /\ LeavesUnread
  /\ c'.qst = c.qst /\ c'.readst = c.readst /\ c'.err \in {c.err, TRUE}
  /\ c'.call = c.call /\ c'.sock = c.sock /\ c'.ask = c.ask /\ selected' = selected

\* It goes on with another packet.
GoingOn ==
  /\ UNCHANGED <<busy, ret, slipped, selected>>
  /\ c'.readst = "len" /\ SameClient(c')

LEMMA FinishDoes ==
  ASSUME WireTypeOK, NEW client \in ClientRec, client.qst = c.qst, client.readst = c.readst,
         SameClient(client), Finish(client)
  PROVE  Ending /\ UNCHANGED <<srv, cmd>>
<1>1. /\ c' = [client EXCEPT !.ask = NoDb] /\ busy' = FALSE /\ ret' = "ok" /\ LeavesUnread
      /\ selected' = IF c.call = "database" THEN c.ask ELSE selected
      /\ UNCHANGED <<srv, cmd>>
  BY DEF Finish, Return
<1>2. /\ c'.qst = client.qst /\ c'.readst = client.readst /\ c'.call = client.call
      /\ c'.err = client.err /\ c'.sock = client.sock /\ c'.ask = NoDb
  BY <1>1 DEF ClientRec
<1> QED BY <1>1, <1>2 DEF Ending, SameClient

LEMMA BreaksDoes ==
  ASSUME WireTypeOK, NEW client \in ClientRec, client.qst = c.qst, client.readst = c.readst,
         client.err \in {c.err, TRUE},
         client.call = c.call, client.sock = c.sock, client.ask = c.ask,
         Breaks(client)
  PROVE  BreakingOff /\ UNCHANGED <<srv, cmd>>
  BY DEF Breaks, Return, BreakingOff

LEMMA SpoiltDoes ==
  ASSUME WireTypeOK, NEW kind, Spoilt(kind)
  PROVE  BreakingOff /\ UNCHANGED <<srv, cmd>>
<1>1. c' = [c EXCEPT !.err = TRUE]
  BY DEF Spoilt
<1> QED BY <1>1, ErrDoes DEF Spoilt, BreakingOff

\* From which state to which, and over what packet.
Moves(p) ==
  \/ c.qst = "READ_GREETINGS" /\ c'.qst = "SEND_AUTH"
  \/ c.qst = "RECV_AUTH" /\ c'.qst = "SEND_AUTH_2"
  \/ c.qst = "COLNUM" /\ c'.qst = "COLDESC"
  \/ c.qst = "COLDESC" /\ c'.qst \in {"COLDESC", "EOF1"} /\ p.kind # "eof"
  \/ c.qst = "EOF1" /\ c'.qst = "DATA" /\ p.kind # "field"
  \/ c.qst = "DATA" /\ c'.qst = "DATA" /\ p.kind \notin {"eof", "err"}
  \/ c.qst = "DATA" /\ c'.qst = "COLNUM" /\ p.kind \in {"eof", "oldauth"} /\ p.more
Ends(p) ==
  \/ c.qst = "COLNUM" /\ p.kind # "cols"
  \/ c.qst = "DATA" /\ p.kind \in {"eof", "oldauth"} /\ ~p.more
  \/ c.qst = "RECV_AUTH"
  \/ c.qst = "RECV_INIT_DB" /\ p.kind # "err"

LEMMA MakesKinds ==
  ASSUME NEW p \in Packet, NEW expect \in {"both", "ok", "data"}, NEW made \in Makes(p, expect)
  PROVE  /\ p.kind = "err" => made = "error"
         /\ made = "ok" => p.kind \in {"ok", "row"}
         /\ made = "eof" => p.kind \in {"eof", "oldauth"}
         /\ made = "data" => p.kind \notin {"eof", "oldauth", "err"}
         /\ p.kind = "ok" /\ expect = "ok" => made = "ok"
<1>1. CASE p.kind = "err"
  BY <1>1 DEF Makes
<1>2. CASE p.kind = "ok"
  BY <1>2 DEF Makes
<1>3. CASE p.kind = "row"
  BY <1>3 DEF Makes
<1>4. CASE p.kind \notin {"err", "ok", "row"}
  BY <1>4 DEF Makes
<1> QED BY <1>1, <1>2, <1>3, <1>4

LEMMA DecodeDoes ==
  ASSUME WireTypeOK, HasPacket, Decode
  PROVE  /\ busy /\ c.qst \in Receiving /\ c.readst = "decode"
         /\ wire # <<>> /\ wire' = Tail(wire) /\ UNCHANGED <<srv, cmd>>
         /\ \/ GoingOn /\ Moves(Head(wire))
            \/ Ending /\ Ends(Head(wire))
            \/ BreakingOff /\ (c.qst = "RECV_INIT_DB" => Head(wire).kind # "ok")
<1> DEFINE p == Head(wire)
<1>1. Expected \in {"both", "ok", "data"}
  <2>1. c.expect \in {"ok", "data"}
    BY ClientFields
  <2> QED BY <2>1 DEF Expected
<1>2. ASSUME NEW made, Decoding(made)
      PROVE  /\ busy /\ c.qst \in Receiving /\ c.readst = "decode"
             /\ wire # <<>> /\ wire' = Tail(wire) /\ p \in Packet /\ made \in Makes(p, Expected)
  BY <1>2, WireHead DEF Decoding, Running, HasPacket
<1> HIDE DEF p
<1>3. ASSUME NEW made, DecodeFails(made)
      PROVE  BreakingOff /\ (c.qst = "RECV_INIT_DB" => p.kind # "ok") /\ UNCHANGED <<srv, cmd>>
  <2>1. Decoding(made) /\ ~Accepts(made, p) /\ Breaks([Status(made, p) EXCEPT !.err = TRUE])
    BY <1>3 DEF DecodeFails, p
  <2>2. PICK s : s = Status(made, p)
    OBVIOUS
  <2>3. s \in ClientRec /\ s.qst = c.qst /\ s.readst = c.readst /\ SameClient(s)
    BY <1>2, <2>1, <2>2, StatusDoes
  <2>4. PICK t : t = [s EXCEPT !.err = TRUE]
    OBVIOUS
  <2>5. /\ t \in ClientRec /\ t.qst = s.qst /\ t.readst = s.readst /\ t.err = TRUE
        /\ t.call = s.call /\ t.sock = s.sock /\ t.ask = s.ask
    BY <2>3, <2>4 DEF ClientRec
  <2>6. BreakingOff /\ UNCHANGED <<srv, cmd>>
    BY <2>1, <2>2, <2>3, <2>4, <2>5, BreaksDoes DEF SameClient
  <2>7. ASSUME c.qst = "RECV_INIT_DB" PROVE p.kind # "ok"
    <3>1. Expected = "ok" /\ made # "ok"
      BY <2>1, <2>7 DEF Expected, Accepts
    <3> QED BY <1>2, <2>1, <3>1, MakesKinds
  <2> QED BY <2>6, <2>7
<1>4. CASE DecodeGreeting
  <2>1. Decoding("data") /\ c.qst = "READ_GREETINGS"
    BY <1>4 DEF DecodeGreeting
  <2>2. CASE GoOn([c EXCEPT !.qst = "SEND_AUTH", !.more = FALSE])
    <3>1. PICK s : s = [c EXCEPT !.qst = "SEND_AUTH", !.more = FALSE]
      OBVIOUS
    <3>2. s \in ClientRec /\ s.qst = "SEND_AUTH" /\ SameClient(s)
      BY <3>1, Typed, ZenonT(60) DEF ClientRec, Handshake, SameClient
    <3>3. GoingOn /\ c'.qst = "SEND_AUTH" /\ UNCHANGED <<srv, cmd>>
      BY <2>2, <3>1, <3>2, GoOnDoes DEF GoingOn
    <3> QED BY <1>2, <2>1, <3>3, SMTT(60) DEF Moves, p
  <2>3. CASE Breaks([c EXCEPT !.more = FALSE])
    <3>1. PICK s : s = [c EXCEPT !.more = FALSE]
      OBVIOUS
    <3>2. /\ s \in ClientRec /\ s.qst = c.qst /\ s.readst = c.readst /\ s.err = c.err
          /\ s.call = c.call /\ s.sock = c.sock /\ s.ask = c.ask
      BY <3>1, Typed, ZenonT(60) DEF ClientRec
    <3>3. BreakingOff /\ UNCHANGED <<srv, cmd>>
      BY <2>3, <3>1, <3>2, BreaksDoes
    <3> QED BY <1>2, <2>1, <3>3 DEF p
  <2> QED BY <1>4, <2>2, <2>3 DEF DecodeGreeting
<1>5. ASSUME NEW made, Decoding(made), p \in Packet, Ends(p), Finish(Status(made, p))
      PROVE  Ending /\ Ends(p) /\ UNCHANGED <<srv, cmd>>
  <2>1. PICK s : s = Status(made, p)
    OBVIOUS
  <2>2. s \in ClientRec /\ s.qst = c.qst /\ s.readst = c.readst /\ SameClient(s)
    BY <1>5, <2>1, StatusDoes
  <2> QED BY <1>5, <2>1, <2>2, FinishDoes
<1>6. ASSUME NEW made, NEW q \in Handshake \cup QuerySts \cup DatabaseSts, p \in Packet,
             GoOn([Status(made, p) EXCEPT !.qst = q])
      PROVE  GoingOn /\ c'.qst = q /\ UNCHANGED <<srv, cmd>>
  <2>1. PICK s : s = Status(made, p)
    OBVIOUS
  <2>2. s \in ClientRec /\ s.qst = c.qst /\ s.readst = c.readst /\ SameClient(s)
    BY <1>6, <2>1, StatusDoes
  <2>3. PICK t : t = [s EXCEPT !.qst = q]
    OBVIOUS
  <2>4. /\ t \in ClientRec /\ t.qst = q /\ t.err = s.err
        /\ t.call = s.call /\ t.sock = s.sock /\ t.ask = s.ask
    BY <2>2, <2>3 DEF ClientRec
  <2>5. SameClient(t)
    BY <2>2, <2>4 DEF SameClient
  <2> QED BY <1>6, <2>1, <2>3, <2>4, <2>5, GoOnDoes DEF GoingOn
<1>7. "SEND_AUTH_2" \in Handshake /\ "DATA" \in QuerySts /\ "COLNUM" \in QuerySts
  BY DEF Handshake, QuerySts
<1>8. ASSUME NEW made, DecodeAuth(made)
      PROVE  ((GoingOn /\ Moves(p)) \/ (Ending /\ Ends(p))) /\ UNCHANGED <<srv, cmd>>
  <2>1. Decoding(made) /\ c.qst = "RECV_AUTH" /\ p \in Packet
    BY <1>2, <1>8 DEF DecodeAuth
  <2>2. CASE Finish(Status(made, p))
    BY <1>5, <2>1, <2>2 DEF Ends
  <2>3. CASE GoOn([Status(made, p) EXCEPT !.qst = "SEND_AUTH_2"])
    BY <1>6, <1>7, <2>1, <2>3 DEF Moves
  <2> QED BY <1>8, <2>2, <2>3 DEF DecodeAuth, p
<1>9. ASSUME DecodeInitDb PROVE Ending /\ Ends(p) /\ UNCHANGED <<srv, cmd>> /\ Decoding("ok")
  <2>1. Decoding("ok") /\ c.qst = "RECV_INIT_DB" /\ p \in Packet /\ Finish(Status("ok", p))
    BY <1>2, <1>9 DEF DecodeInitDb, p
  <2>2. p.kind # "err"
    BY <1>1, <1>2, <2>1, MakesKinds
  <2> QED BY <1>5, <2>1, <2>2 DEF Ends
<1>10. ASSUME NEW made, DecodeColNum(made)
       PROVE  ((GoingOn /\ Moves(p)) \/ (Ending /\ Ends(p))) /\ UNCHANGED <<srv, cmd>>
  <2>1. Decoding(made) /\ c.qst = "COLNUM" /\ p \in Packet
    BY <1>2, <1>10 DEF DecodeColNum
  <2>2. CASE made = "ok" /\ Finish(Status(made, p))
    <3>1. p.kind # "cols"
      BY <1>1, <1>2, <2>1, <2>2, MakesKinds
    <3> QED BY <1>5, <2>1, <2>2, <3>1 DEF Ends
  <2>3. ASSUME NEW n \in Columns(p), GoOn([c EXCEPT !.qst = "COLDESC", !.cols = n, !.lines = 0])
        PROVE  GoingOn /\ Moves(p) /\ UNCHANGED <<srv, cmd>>
    <3>1. PICK s : s = [c EXCEPT !.qst = "COLDESC", !.cols = n, !.lines = 0]
      OBVIOUS
    <3>2. n \in 0 .. 255
      BY <2>1, ColumnsTyped
    <3>3. s \in ClientRec /\ s.qst = "COLDESC" /\ SameClient(s)
      BY <3>1, <3>2, Typed DEF ClientRec, QuerySts, SameClient
    <3> QED BY <2>1, <2>3, <3>1, <3>3, GoOnDoes DEF GoingOn, Moves
  <2> QED BY <1>10, <2>2, <2>3 DEF DecodeColNum, p
<1>11. ASSUME DecodeColDesc
       PROVE  /\ Decoding("data") /\ UNCHANGED <<srv, cmd>>
              /\ (GoingOn /\ Moves(p)) \/ (BreakingOff /\ c.qst = "COLDESC")
  <2>1. Decoding("data") /\ c.qst = "COLDESC" /\ p \in Packet
    BY <1>2, <1>11 DEF DecodeColDesc
  <2>2. CASE GoOn(AfterField(c.cols))
    <3>1. PICK s : s = AfterField(c.cols)
      OBVIOUS
    <3>2. s \in ClientRec /\ s.qst \in {"COLDESC", "EOF1"} /\ SameClient(s)
      <4>1. CASE c.cols > 1
        <5>1. c.cols - 1 \in 0 .. 255 /\ s = [c EXCEPT !.cols = c.cols - 1]
          BY <3>1, <4>1, ClientFields DEF AfterField
        <5>2. PICK k \in 0 .. 255 : s = [c EXCEPT !.cols = k]
          BY <5>1
        <5> QED BY <2>1, <5>2, Typed, ZenonT(60) DEF ClientRec, SameClient
      <4>2. CASE ~(c.cols > 1)
        <5>1. 0 \in 0 .. 255 /\ "EOF1" \in QuerySts /\ s = [c EXCEPT !.cols = 0, !.qst = "EOF1"]
          BY <3>1, <4>2, SMTT(60) DEF QuerySts, AfterField
        <5>3. [c EXCEPT !.cols = 0, !.qst = "EOF1"] \in ClientRec
          BY <5>1, Typed DEF ClientRec
        <5>4. s.qst = "EOF1" /\ SameClient(s)
          BY <5>1, Typed DEF ClientRec, SameClient
        <5> QED BY <5>1, <5>3, <5>4
      <4> QED BY <4>1, <4>2
    <3>3. p.kind # "eof"
      BY <1>1, <1>2, <2>1, MakesKinds
    <3> QED BY <2>1, <2>2, <3>1, <3>2, <3>3, GoOnDoes DEF GoingOn, Moves
  <2>3. CASE Spoilt("field")
    BY <2>1, <2>3, SpoiltDoes
  <2> QED BY <1>11, <2>2, <2>3 DEF DecodeColDesc
<1>12. ASSUME DecodeEof1 PROVE GoingOn /\ Moves(p) /\ UNCHANGED <<srv, cmd>> /\ Decoding("eof")
  <2>1. Decoding("eof") /\ c.qst = "EOF1" /\ p \in Packet /\ GoOn([Status("eof", p) EXCEPT !.qst = "DATA"])
    BY <1>2, <1>12 DEF DecodeEof1, p
  <2>2. p.kind # "field"
    BY <1>1, <1>2, <2>1, MakesKinds
  <2> QED BY <1>6, <1>7, <2>1, <2>2 DEF Moves
<1>13. ASSUME DecodeRow
       PROVE  /\ Decoding("data") /\ UNCHANGED <<srv, cmd>>
              /\ (GoingOn /\ Moves(p)) \/ (BreakingOff /\ c.qst = "DATA")
  <2>1. Decoding("data") /\ c.qst = "DATA" /\ p \in Packet
    BY <1>2, <1>13 DEF DecodeRow
  <2>2. CASE GoOn(NextLine(c))
    <3>1. PICK s : s = NextLine(c)
      OBVIOUS
    <3>2. s \in ClientRec /\ s.qst = c.qst /\ SameClient(s)
      <4>1. s \in ClientRec
        BY <3>1, Typed, NextLineTyped
      <4> QED BY <3>1, <4>1, Typed DEF NextLine, ClientRec, SameClient
    <3>3. p.kind \notin {"eof", "err"}
      BY <1>1, <1>2, <2>1, MakesKinds
    <3> QED BY <2>1, <2>2, <3>1, <3>2, <3>3, GoOnDoes DEF GoingOn, Moves
  <2>3. CASE Spoilt("row")
    BY <2>1, <2>3, SpoiltDoes
  <2> QED BY <1>13, <2>2, <2>3 DEF DecodeRow
<1>14. ASSUME DecodeLastRow
       PROVE  ((GoingOn /\ Moves(p)) \/ (Ending /\ Ends(p))) /\ UNCHANGED <<srv, cmd>> /\ Decoding("eof")
  <2>1. Decoding("eof") /\ c.qst = "DATA" /\ p \in Packet /\ LastRow(p)
    BY <1>2, <1>14 DEF DecodeLastRow, p
  <2>2. p.kind \in {"eof", "oldauth"}
    BY <1>1, <1>2, <2>1, MakesKinds
  <2>3. CASE p.more
    BY <1>6, <1>7, <2>1, <2>2, <2>3 DEF LastRow, Moves
  <2>4. CASE ~p.more
    BY <1>5, <2>1, <2>2, <2>4 DEF LastRow, Ends
  <2> QED BY <2>1, <2>3, <2>4
<1>15. CASE \E made \in {"eof", "ok", "error", "data"} : DecodeFails(made) \/ DecodeAuth(made) \/ DecodeColNum(made)
  <2>1. PICK made : DecodeFails(made) \/ DecodeAuth(made) \/ DecodeColNum(made)
    BY <1>15
  <2>2. Decoding(made)
    BY <2>1 DEF DecodeFails, DecodeAuth, DecodeColNum
  <2> QED BY <1>2, <1>3, <1>8, <1>10, <2>1, <2>2 DEF p
<1>16. CASE DecodeInitDb \/ DecodeColDesc \/ DecodeEof1 \/ DecodeRow \/ DecodeLastRow
  BY <1>2, <1>9, <1>11, <1>12, <1>13, <1>14, <1>16 DEF p
<1> QED BY <1>4, <1>15, <1>16 DEF Decode

LEMMA ServesDoes ==
  ASSUME WireTypeOK, Serves
  PROVE  srv'.request = srv.request /\ (c.call = "connect" => srv'.db = srv.db)
<1>1. CASE ~srv.up
  BY <1>1 DEF Serves
<1>2. CASE srv.up /\ c.call # "connect" /\ ~srv.open
  BY <1>2, Typed DEF Serves, ServerRec
<1>3. CASE srv.up /\ c.call # "connect" /\ srv.open
  <2>1. srv' = srv \/ srv' = [srv EXCEPT !.db = c.ask]
    BY <1>3 DEF Serves
  <2> QED BY <1>3, <2>1, Typed DEF ServerRec
<1>4. CASE srv.up /\ c.call = "connect"
  <2>1. \E x \in BOOLEAN, y \in BOOLEAN : srv' = [srv EXCEPT !.open = x, !.up = y]
    BY <1>4 DEF Serves
  <2> QED BY <2>1, Typed DEF ServerRec
<1> QED BY <1>1, <1>2, <1>3, <1>4

LEMMA TurnsInit == WireInit => Turns
  BY DEF WireInit, Turns, Reading, NewClient, NoServer, Handshake, QuerySts, DatabaseSts, Receiving

LEMMA TurnsCalls == TurnsInv /\ Calls => Turns'
<1> SUFFICES ASSUME WireTypeOK, Turns, Calls PROVE Turns'
  BY DEF TurnsInv
<1> USE DEF Turns, Reading, Handshake, QuerySts, DatabaseSts, Sending, Receiving
<1>1. CASE SetupCall
  BY <1>1, SetupDoes
<1>2. CASE DisconnectCall
  BY <1>2 DEF DisconnectCall, NewClient, NoServer, Turn
<1>3. CASE FreeCall \/ TooLongCall
  <2>1. PICK b \in BOOLEAN : c' = [c EXCEPT !.err = b]
    BY <1>3 DEF FreeCall, TooLongCall
  <2>2. UNCHANGED <<busy, ret, srv, wire, selected>>
    BY <1>3 DEF FreeCall, TooLongCall
  <2> QED BY <2>1, <2>2, ErrDoes
<1>4. ASSUME NEW s \in Stmts, QueryCall(s) PROVE Turns'
  BY <1>4, QueryDoes DEF Commands, Turn
<1>5. ASSUME NEW d \in DbNames, DatabaseCall(d) PROVE Turns'
  BY <1>5, DatabaseDoes DEF Commands, Turn
<1>6. CASE IoCall \/ DialCall
  BY <1>6 DEF IoCall, DialCall, Begin
<1>7. CASE RefusedDial \/ RefusedIo
  <2>1. c' = [c EXCEPT !.err = TRUE] /\ ret' \in {ret, "fail"} /\ ~busy
        /\ UNCHANGED <<busy, srv, wire, selected>>
    BY <1>7 DEF RefusedDial, RefusedIo, Refuse, Turn
  <2> QED BY <2>1, ErrDoes
<1>8. CASE IoAfterEnd
  <2>1. c' = c \/ c' = [c EXCEPT !.err = TRUE]
    BY <1>8 DEF IoAfterEnd
  <2>2. UNCHANGED <<busy, ret, srv, wire, selected>>
    BY <1>8 DEF IoAfterEnd
  <2> QED BY <2>1, <2>2, ErrDoes
<1> QED BY <1>1, <1>2, <1>3, <1>4, <1>5, <1>6, <1>7, <1>8 DEF Calls

\* A call that is decoding has a packet.
LEMMA TurnsHasPacket == TurnsInv /\ Decode => HasPacket
<1> SUFFICES ASSUME WireTypeOK, Turns, Decode PROVE HasPacket
  BY DEF TurnsInv
<1>1. busy /\ c.qst \in Receiving
  BY DEF Decode, DecodeFails, DecodeAuth, DecodeColNum, DecodeGreeting, DecodeInitDb, DecodeColDesc,
         DecodeEof1, DecodeRow, DecodeLastRow, Decoding, Running
<1> QED BY <1>1 DEF Turns, Reading, HasPacket

LEMMA TurnsStep == TurnsInv /\ [WireNext]_vars => TurnsInv'
<1> SUFFICES ASSUME TurnsInv, [WireNext]_vars PROVE WireTypeOK' /\ Turns'
  BY DEF TurnsInv
<1> USE DEF TurnsInv
<1>1. CASE Calls
  BY <1>1, TurnsCalls, TypeCalls
<1>2. CASE SocketConnect
  <2>1. Turns'
    BY <1>2, SocketDoes DEF Turns, Reading, Handshake, QuerySts, DatabaseSts, Sending, Receiving
  <2> QED BY <1>2, <2>1, TypeSockets
<1>3. CASE ConnCheck
  <2> USE StatesApart DEF Turns, Reading
  <2>1. ASSUME c'.qst = "READ_GREETINGS" PROVE Turns'
    <3>1. /\ c.qst = "CONN_CHECK" /\ busy /\ c'.call = c.call /\ selected' = selected
          /\ c'.sock = c.sock /\ c'.readst = "len" /\ UNCHANGED <<busy, ret, wire, srv>>
      BY <1>3, <2>1, CheckDoes
    <3> QED BY <2>1, <3>1
  <2>2. ASSUME c'.qst = "START" PROVE Turns'
    <3>1. /\ c.qst = "CONN_CHECK" /\ c'.call = c.call /\ selected' = selected
          /\ ret' = "fail" /\ ~busy' /\ srv'.db = NoDb
      BY <1>3, <2>2, CheckDoes DEF NoServer
    <3> QED BY <2>2, <3>1
  <2>3. Turns'
    BY <1>3, <2>1, <2>2, CheckDoes
  <2> QED BY <1>3, <2>3, TypeSockets
<1>4. CASE WriteAll
  <2>1. Turns'
    BY <1>4, WriteDoes, ServesDoes
       DEF Turns, Reading, Handshake, QuerySts, DatabaseSts, Sending, Receiving, AfterSending, SameClient
  <2> QED BY <1>4, <2>1, TypeWritesReads DEF Writes
<1>5. CASE WriteSome
  <2>1. Turns'
    BY <1>5 DEF WriteSome, Want, Return, Running,
                Turns, Reading, Handshake, QuerySts, DatabaseSts, Sending, Receiving
  <2> QED BY <1>5, <2>1, TypeWritesReads DEF Writes
<1>6. CASE WriteFails
  <2>1. Turns'
    BY <1>6, WriteFailsDoes DEF Turns, Reading, Handshake, QuerySts, DatabaseSts, Sending, Receiving
  <2> QED BY <1>6, <2>1, TypeWritesReads DEF Writes
<1>7. CASE ReadHeader \/ ReadBody
  <2>1. Turns'
    BY <1>7, ReadPartDoes
       DEF Turns, Reading, Handshake, QuerySts, DatabaseSts, Sending, Receiving, SameClient
  <2> QED BY <1>7, <2>1, TypeWritesReads DEF Reads
<1>8. CASE ReadWaits
  <2>1. Turns'
    BY <1>8, ReadWaitsDoes DEF Turns, Reading, Handshake, QuerySts, DatabaseSts, Sending, Receiving
  <2> QED BY <1>8, <2>1, TypeWritesReads DEF Reads
<1>9. CASE ReadLost
  <2>1. Turns'
    BY <1>9, ReadLostDoes DEF Turns, Reading, Handshake, QuerySts, DatabaseSts, Sending, Receiving
  <2> QED BY <1>9, <2>1, TypeWritesReads DEF Reads
<1>10. CASE LostInRows
  <2>1. Turns'
    BY <1>10, LostInRowsDoes
       DEF Turns, Reading, Handshake, QuerySts, DatabaseSts, Sending, Receiving, SameClient
  <2> QED BY <1>10, <2>1, TypeWritesReads DEF Reads
<1>11. CASE Decode
  <2>1. HasPacket
    BY <1>11, TurnsHasPacket
  <2>2. busy /\ c.qst \in Receiving /\ UNCHANGED srv
    BY <1>11, <2>1, DecodeDoes
  <2> USE StatesApart DEF Turns, Reading
  <2>3. ASSUME GoingOn /\ Moves(Head(wire)) PROVE Turns'
    <3>1. UNCHANGED <<busy, ret>> /\ c'.readst = "len" /\ c'.call = c.call /\ selected' = selected /\ c'.sock = c.sock
      BY <2>3 DEF GoingOn, SameClient
    <3>2. \/ c.qst \in Handshake /\ c'.qst \in Handshake
          \/ c.qst \in QuerySts /\ c'.qst \in QuerySts
      BY <2>3 DEF Moves, Handshake, QuerySts
    <3>3. c'.qst \notin {"START", "CONN_CHECK"}
      BY <2>3 DEF Moves
    <3> QED BY <2>2, <3>1, <3>2, <3>3
  <2>4. ASSUME Ending PROVE Turns'
    <3>1. c.qst \in Handshake => c.call # "database"
      BY <2>2
    <3> QED BY <2>2, <2>4, <3>1 DEF Ending
  <2>5. ASSUME BreakingOff PROVE Turns'
    BY <2>2, <2>5 DEF BreakingOff
  <2> QED BY <1>11, <2>1, <2>3, <2>4, <2>5, DecodeDoes, TypeDecode
<1>12. CASE ServerGoes
  <2>1. Reading /\ c.readst = "decode" => wire' # <<>>
    BY <1>12, GoesDoes, WirePrefix, EmptySeq
  <2>2. Turns'
    BY <1>12, <2>1, GoesDoes DEF Turns, Reading
  <2> QED BY <1>12, <2>2, TypeServerGoes
<1>13. CASE UNCHANGED vars
  BY <1>13 DEF vars, WireTypeOK, Turns, Reading
<1> QED BY <1>1, <1>2, <1>3, <1>4, <1>5, <1>6, <1>7, <1>8, <1>9, <1>10, <1>11, <1>12, <1>13
        DEF WireNext, Writes, Reads

LEMMA TurnsInvariant == WireSpec => []TurnsInv
<1>1. WireInit => TurnsInv
  BY TypeInit, TurnsInit DEF TurnsInv
<1> QED BY <1>1, TurnsStep, PTL DEF WireSpec

\* The variables keep their types: in particular the client never counts more
\* columns than the byte holds, and a packet is decoded only when one is there.
THEOREM TypeCorrect == WireSpec => []WireTypeOK
<1>1. TurnsInv => WireTypeOK
  BY DEF TurnsInv
<1> QED BY <1>1, TurnsInvariant, PTL

----------------------------------------------------------------------------
(* Every step is one of the client that the event loop was modelled over *)

ProtoOf(s, r) ==
  IF s.call = "connect" /\ s.qst \notin Handshake THEN "failed"
  ELSE IF s.qst = "START" THEN "start"
  ELSE IF r = "fail" THEN "failed"
  ELSE CASE s.call = "connect" -> IF r = "ok" THEN "authed" ELSE "auth"
         [] s.call = "database" -> IF r = "ok" THEN "dbDone" ELSE "db"
         [] s.call = "query" -> IF r = "ok" THEN "queryDone" ELSE "query"

Image == [proto |-> Proto, sock |-> c.sock, err |-> c.err, ask |-> c.ask, db |-> selected]

LEMMA ProtoIs == Proto = ProtoOf(c, ret) /\ Proto' = ProtoOf(c', ret')
  BY DEF Proto, ProtoOf

\* During a call, only its function and the state START count.
LEMMA BusyProto ==
  ASSUME NEW s, NEW r \in {"none", "want"}, s.call \in {"connect", "query", "database"},
         s.call = "connect" => s.qst \in Handshake
  PROVE  ProtoOf(s, r) = IF s.qst = "START" THEN "start" ELSE IF s.call = "connect" THEN "auth"
                         ELSE IF s.call = "database" THEN "db" ELSE "query"
  BY DEF ProtoOf

SameRest(n, m) == n.ask = m.ask /\ n.db = m.db

LEMMA WaitingHas ==
  ASSUME NEW m \in MYSAC, NEW n \in MYSAC, SameRest(n, m),
         \/ m.proto = "start" /\ n.proto = "auth" /\ n.sock = "live" /\ n.err = m.err
         \/ /\ m.proto \in {"auth", "db", "query"} /\ m.sock = "live"
            /\ n.proto = m.proto /\ n.sock = m.sock /\ n.err \in {m.err, FALSE}
         \/ /\ m.proto \in {"auth", "db", "query"} /\ m.sock = "none"
            /\ n.proto = m.proto /\ n.sock = m.sock /\ n.err = m.err
  PROVE  n \in Client!Waiting(m)
<1> USE DEF SameRest, Client!Waiting, Client!Talking, Client!Exchange
<1>1. CASE m.proto = "start"
  <2>1. n = [m EXCEPT !.proto = "auth", !.sock = "live"]
    BY <1>1 DEF MYSAC
  <2> QED BY <1>1, <2>1
<1>2. CASE m.proto \in {"auth", "db", "query"} /\ m.sock = "live"
  <2>1. n.proto = m.proto /\ n.sock = m.sock /\ n.err \in {m.err, FALSE}
    BY <1>2
  <2>2. CASE n.err = m.err
    <3>1. n = m
      BY <2>1, <2>2 DEF MYSAC
    <3> QED BY <1>2, <3>1
  <2>3. CASE n.err = FALSE
    <3>1. n = Client!ClearError(m)
      BY <2>1, <2>3 DEF MYSAC, Client!ClearError
    <3> QED BY <1>2, <3>1
  <2> QED BY <2>1, <2>2, <2>3
<1>3. CASE m.proto \in {"auth", "db", "query"} /\ m.sock = "none"
  <2>1. n = m
    BY <1>3 DEF MYSAC
  <2> QED BY <1>3, <2>1
<1> QED BY <1>1, <1>2, <1>3

LEMMA DoneHas ==
  ASSUME NEW m \in MYSAC, NEW n \in MYSAC, m.sock = "live", m.proto \in {"auth", "db", "query"},
         n.proto = IF m.proto = "auth" THEN "authed" ELSE IF m.proto = "db" THEN "dbDone" ELSE "queryDone",
         n.sock = "live", n.err = m.err, n.ask = NoDb, n.db = IF m.proto = "db" THEN m.ask ELSE m.db
  PROVE  n \in Client!Done(m)
<1>1. Client!NoDb = NoDb
  BY DEF Client!NoDb, NoDb
<1>2. n = Client!Ended(m)
  <2>1. Client!Ended(m) = [m EXCEPT !.proto = n.proto, !.db = n.db, !.ask = NoDb]
    BY <1>1 DEF Client!Ended
  <2>2. n = [m EXCEPT !.proto = n.proto, !.db = n.db, !.ask = NoDb]
    BY DEF MYSAC
  <2> QED BY <2>1, <2>2
<1> QED BY <1>2 DEF Client!Done, Client!Talking, Client!Exchange

LEMMA FailingHas ==
  ASSUME NEW m \in MYSAC, NEW n \in MYSAC, SameRest(n, m),
         \/ m.proto = "start" /\ n.proto = "start" /\ n.sock = m.sock /\ n.err = TRUE
         \/ /\ m.proto = "auth" /\ m.sock = "live"
            /\ n.proto = "start" /\ n.sock = "none" /\ n.err = TRUE
         \/ /\ m.proto = "failed" \/ (m.proto \in {"auth", "db", "query"} /\ m.sock # "live")
            /\ n.proto = "failed" /\ n.sock = m.sock /\ n.err \in {m.err, TRUE}
         \/ /\ m.proto \in {"auth", "db", "query"} /\ m.sock = "live"
            /\ n.proto = "failed" /\ n.sock \in {"live", "dead"} /\ n.err \in {m.err, TRUE}
  PROVE  n \in Client!Failing(m)
<1> USE DEF SameRest
<1>1. CASE m.proto = "start" /\ n.proto = "start" /\ n.sock = m.sock /\ n.err = TRUE
  <2>1. n = Client!SetError(m)
    BY <1>1 DEF MYSAC, Client!SetError
  <2> QED BY <1>1, <2>1 DEF Client!Failing, Client!Doomed, Client!Talking, Client!Exchange
<1>2. CASE m.proto = "auth" /\ m.sock = "live" /\ n.proto = "start" /\ n.sock = "none" /\ n.err = TRUE
  <2>1. n = [Client!SetError(m) EXCEPT !.proto = "start", !.sock = "none"]
    BY <1>2 DEF MYSAC, Client!SetError
  <2> QED BY <1>2, <2>1 DEF Client!Failing, Client!Doomed, Client!Talking, Client!Exchange
<1>3. ASSUME n.proto = "failed", n.err \in {m.err, TRUE} PROVE n \in Client!Breaking(m, n.sock)
  <2>1. PICK s : s = Client!Broken(m, n.sock)
    OBVIOUS
  <2>2. /\ s \in [proto : Protos \cup {"failed"}, sock : Sockets, err : BOOLEAN,
                  ask : DbNames \cup {NoDb}, db : DbNames \cup {NoDb}]
        /\ s.proto = "failed" /\ s.sock = n.sock /\ s.err = m.err /\ s.ask = m.ask /\ s.db = m.db
    BY <2>1 DEF MYSAC, Client!Broken
  <2>3. CASE n.err = m.err
    <3>1. n = s
      BY <1>3, <2>2, <2>3 DEF MYSAC
    <3> QED BY <2>1, <3>1 DEF Client!Breaking
  <2>4. CASE n.err = TRUE
    <3>1. n = Client!SetError(s)
      BY <1>3, <2>2, <2>4 DEF MYSAC, Client!SetError
    <3> QED BY <2>1, <3>1 DEF Client!Breaking
  <2> QED BY <1>3, <2>3, <2>4
<1>4. CASE /\ m.proto = "failed" \/ (m.proto \in {"auth", "db", "query"} /\ m.sock # "live")
           /\ n.proto = "failed" /\ n.sock = m.sock /\ n.err \in {m.err, TRUE}
  BY <1>3, <1>4 DEF Client!Failing, Client!Doomed, Client!Talking, Client!Exchange
<1>5. CASE /\ m.proto \in {"auth", "db", "query"} /\ m.sock = "live"
           /\ n.proto = "failed" /\ n.sock \in {"live", "dead"} /\ n.err \in {m.err, TRUE}
  BY <1>3, <1>5 DEF Client!Failing, Client!Doomed, Client!Talking, Client!Exchange
<1> QED BY <1>1, <1>2, <1>4, <1>5

\* The steps of the client, said of the image.
LEMMA ClientSteps ==
  /\ Image' = Client!Setup(Image) /\ ret' = ret => Client!Prepare
  /\ Image' = Client!Fresh /\ ret' = "none" => Client!Prepare
  /\ Image' = Client!ClearError(Image) /\ ret' = ret => Client!Prepare
  /\ Image' = Client!SetQuery(Image) /\ ret' = "none" => Client!Command
  /\ Image' = Client!QueryTooLong(Image) /\ ret' = ret => Client!Command
  /\ \A d \in DbNames : Image' = Client!SetDatabase(Image, d) /\ ret' = "none" => Client!Command
  /\ Image' \in Client!Waiting(Image) /\ ret' = "want" => Client!Io
  /\ Image' \in Client!Done(Image) /\ ret' = "ok" => Client!Io
  /\ Image' \in Client!Failing(Image) /\ ret' = "fail" => Client!Io
  /\ Image' \in Client!ConnectFailing(Image) /\ ret' = ret => Client!Dial
  BY DEF Image, Client!Prepare, Client!Command, Client!Io, Client!Dial

Does == Client!Prepare \/ Client!Command \/ Client!Io \/ Client!Dial \/ (Image' = Image /\ ret' = ret)

LEMMA ImageIs ==
  ASSUME WireTypeOK
  PROVE  /\ Image \in MYSAC /\ Image.proto = ProtoOf(c, ret)
         /\ Image.sock = c.sock /\ Image.err = c.err /\ Image.ask = c.ask /\ Image.db = selected
<1>1. Proto \in Protos
  <2>1. c.call \in {"connect", "query", "database"}
    BY ClientFields
  <2> QED BY <2>1 DEF Proto, Protos
<1>2. Proto = ProtoOf(c, ret)
  BY ProtoIs
<1> QED BY <1>1, <1>2, ClientFields DEF Image, MYSAC

\* Both ends of a step.
LEMMA Images ==
  ASSUME WireTypeOK, WireTypeOK'
  PROVE  /\ Image \in MYSAC /\ Image.proto = ProtoOf(c, ret)
         /\ Image.sock = c.sock /\ Image.err = c.err /\ Image.ask = c.ask /\ Image.db = selected
         /\ Image' \in MYSAC /\ Image'.proto = ProtoOf(c', ret')
         /\ Image'.sock = c'.sock /\ Image'.err = c'.err /\ Image'.ask = c'.ask /\ Image'.db = selected'
<1>1. /\ Image \in MYSAC /\ Image.proto = ProtoOf(c, ret)
      /\ Image.sock = c.sock /\ Image.err = c.err /\ Image.ask = c.ask /\ Image.db = selected
  BY ImageIs
<1>2. (WireTypeOK => /\ Image \in MYSAC /\ Image.proto = ProtoOf(c, ret)
                     /\ Image.sock = c.sock /\ Image.err = c.err /\ Image.ask = c.ask /\ Image.db = selected)'
  BY ImageIs, PTL
<1> QED BY <1>1, <1>2

LEMMA SameImage ==
  ASSUME WireTypeOK, WireTypeOK', SameClient(c'), UNCHANGED selected, ProtoOf(c', ret') = ProtoOf(c, ret)
  PROVE  Image' = Image
  BY Images DEF SameClient, MYSAC

LEMMA InitImage == WireInit => Client!CInit
  BY DEF WireInit, Client!CInit, Client!Fresh, Client!NoDb, NoDb, Proto, NewClient, Handshake

LEMMA SetupMaps == TurnsInv /\ WireTypeOK' /\ SetupCall => Does
<1> SUFFICES ASSUME TurnsInv, WireTypeOK', SetupCall PROVE Does
  OBVIOUS
<1>1. /\ c'.call = "connect" /\ c'.qst = c.qst /\ c'.ask = c.ask /\ selected' = selected /\ c'.err = c.err /\ c'.sock = c.sock
      /\ ret' = ret
  BY SetupDoes DEF TurnsInv, SameRest
<1>2. ProtoOf(c', ret') = IF ProtoOf(c, ret) \in {"db", "dbDone", "query", "queryDone"} THEN "failed"
                          ELSE ProtoOf(c, ret)
  <2>1. c.call \in {"connect", "query", "database"} /\ c.qst \in Handshake \cup QuerySts \cup DatabaseSts
    BY ClientFields DEF TurnsInv
  <2>2. /\ c.qst \in Handshake => c.call = "connect"
        /\ c.qst = "START" => c.qst \in Handshake
    BY StatesApart DEF TurnsInv, Turns
  <2>3. CASE c.qst \in Handshake
    <3>1. ProtoOf(c', ret') = ProtoOf(c, ret)
      BY <1>1, <2>2, <2>3 DEF ProtoOf
    <3>2. ProtoOf(c, ret) \in {"start", "failed", "authed", "auth"}
      BY <2>2, <2>3 DEF ProtoOf
    <3> QED BY <3>1, <3>2
  <2>4. CASE c.qst \notin Handshake
    <3>1. ProtoOf(c', ret') = "failed"
      BY <1>1, <2>4 DEF ProtoOf
    <3>2. ProtoOf(c, ret) \in {"failed", "db", "dbDone", "query", "queryDone"}
      BY <2>1, <2>2, <2>4 DEF ProtoOf
    <3> QED BY <3>1, <3>2
  <2> QED BY <2>3, <2>4
<1>3. Image' = Client!Setup(Image)
  <2>1. Client!Setup(Image) =
          [Image EXCEPT !.proto = IF Image.proto \in {"db", "dbDone", "query", "queryDone"} THEN "failed"
                                  ELSE Image.proto]
    BY DEF Client!Setup
  <2>2. Client!Setup(Image) = [Image EXCEPT !.proto = Image'.proto]
    BY <1>2, <2>1, Images DEF TurnsInv
  <2> QED BY <1>1, <2>2, Images DEF TurnsInv, MYSAC, SameRest
<1> QED BY <1>1, <1>3, ClientSteps DEF Does

LEMMA ProtoSame ==
  ASSUME NEW s, NEW t, NEW r, s.call = t.call, s.qst = t.qst
  PROVE  ProtoOf(s, r) = ProtoOf(t, r)
  BY DEF ProtoOf

LEMMA ErrMaps ==
  ASSUME TurnsInv, WireTypeOK', NEW b \in BOOLEAN, c' = [c EXCEPT !.err = b], UNCHANGED <<ret, selected>>
  PROVE  /\ Image' = [Image EXCEPT !.err = b]
         /\ ProtoOf(c', ret') = ProtoOf(c, ret)
<1>1. /\ c'.call = c.call /\ c'.qst = c.qst /\ c'.err = b
      /\ c'.ask = c.ask /\ selected' = selected /\ c'.sock = c.sock
  BY ErrDoes DEF TurnsInv
<1>2. ProtoOf(c', ret') = ProtoOf(c, ret)
  BY <1>1, ProtoSame
<1> QED BY <1>1, <1>2, Images DEF TurnsInv, MYSAC

LEMMA CommandMaps ==
  TurnsInv /\ WireTypeOK' /\ ((\E s \in Stmts : QueryCall(s)) \/ (\E d \in DbNames : DatabaseCall(d))) => Does
<1> SUFFICES ASSUME TurnsInv, WireTypeOK',
                    (\E s \in Stmts : QueryCall(s)) \/ (\E d \in DbNames : DatabaseCall(d))
             PROVE  Does
  OBVIOUS
<1>1. ASSUME NEW s \in Stmts, QueryCall(s) PROVE Does
  <2>1. /\ c'.call = "query" /\ c'.qst = "SEND_QUERY" /\ c'.ask = c.ask /\ selected' = selected /\ c'.err = c.err /\ c'.sock = c.sock
        /\ ret' = "none"
    BY <1>1, QueryDoes DEF TurnsInv, SameRest, Commands
  <2>2. ProtoOf(c', ret') = "query"
    BY <2>1 DEF ProtoOf
  <2>3. Image' = Client!SetQuery(Image)
    BY <2>1, <2>2, Images DEF TurnsInv, MYSAC, SameRest, Client!SetQuery
  <2> QED BY <2>1, <2>3, ClientSteps DEF Does
<1>2. ASSUME NEW d \in DbNames, DatabaseCall(d) PROVE Does
  <2>1. /\ c'.call = "database" /\ c'.qst = "SEND_INIT_DB" /\ c'.ask = d /\ selected' = selected /\ c'.err = c.err
        /\ c'.sock = c.sock /\ ret' = "none"
    BY <1>2, DatabaseDoes DEF TurnsInv, Commands
  <2>2. ProtoOf(c', ret') = "db"
    BY <2>1 DEF ProtoOf
  <2>3. Image' = Client!SetDatabase(Image, d)
    BY <2>1, <2>2, Images, ZenonT(60) DEF TurnsInv, MYSAC, Client!SetDatabase
  <2> QED BY <2>1, <2>3, ClientSteps DEF Does
<1> QED BY <1>1, <1>2

LEMMA CallsMap == TurnsInv /\ WireTypeOK' /\ Calls => Does
<1> SUFFICES ASSUME TurnsInv, WireTypeOK', Calls PROVE Does
  OBVIOUS
<1>1. CASE DisconnectCall
  <2>1. c' = NewClient /\ ret' = "none" /\ selected' = NoDb
    BY <1>1 DEF DisconnectCall
  <2>2. Image' = Client!Fresh
    <3>1. ProtoOf(c', ret') = "start"
      BY <2>1 DEF ProtoOf, NewClient, Handshake
    <3> QED BY <2>1, <3>1, Images DEF TurnsInv, MYSAC, Client!Fresh, Client!NoDb, NoDb, NewClient
  <2> QED BY <2>1, <2>2, ClientSteps DEF Does
<1>2. CASE FreeCall
  <2>1. c' = [c EXCEPT !.err = FALSE] /\ UNCHANGED <<ret, selected>>
    BY <1>2 DEF FreeCall
  <2>2. Image' = Client!ClearError(Image)
    BY <2>1, ErrMaps DEF Client!ClearError
  <2> QED BY <2>1, <2>2, ClientSteps DEF Does
<1>3. CASE TooLongCall
  <2>1. c' = [c EXCEPT !.err = TRUE] /\ UNCHANGED <<ret, selected>>
    BY <1>3 DEF TooLongCall
  <2>2. Image' = Client!QueryTooLong(Image)
    BY <2>1, ErrMaps DEF Client!QueryTooLong, Client!SetError
  <2> QED BY <2>1, <2>2, ClientSteps DEF Does
<1>4. CASE IoCall \/ DialCall
  <2>1. UNCHANGED <<c, ret, selected>>
    BY <1>4 DEF IoCall, DialCall, Begin
  <2> QED BY <2>1, SameImage DEF TurnsInv, Does, SameClient
<1>5. CASE RefusedDial
  <2>1. c' = [c EXCEPT !.err = TRUE] /\ UNCHANGED <<ret, selected>> /\ c.qst \notin Handshake
    BY <1>5 DEF RefusedDial, Refuse
  <2>2. Image' = Client!SetError(Image)
    BY <2>1, ErrMaps DEF Client!SetError
  <2>3. ProtoOf(c, ret) \in {"failed", "db", "dbDone", "query", "queryDone"}
    <3>1. c.call \in {"connect", "query", "database"} /\ c.qst # "START"
      BY <2>1, ClientFields, StatesApart DEF TurnsInv
    <3> QED BY <2>1, <3>1 DEF ProtoOf
  <2>4. Image' \in Client!ConnectFailing(Image)
    <3>1. CASE Image.proto = "failed"
      <4>1. Image'.proto = "failed" /\ Image'.sock = Image.sock /\ Image'.err = TRUE /\ SameRest(Image', Image)
        BY <2>1, <3>1, ErrMaps, Images, ErrDoes DEF TurnsInv, SameRest
      <4>2. Image' \in Client!Failing(Image)
        BY <3>1, <4>1, FailingHas, Images DEF TurnsInv
      <4> QED BY <3>1, <4>2 DEF Client!ConnectFailing
    <3>2. CASE Image.proto \in {"db", "dbDone", "query", "queryDone"}
      BY <2>2, <3>2 DEF Client!ConnectFailing
    <3> QED BY <2>3, <3>1, <3>2, Images DEF TurnsInv
  <2> QED BY <2>1, <2>4, ClientSteps DEF Does
<1>6. ASSUME c' = c \/ c' = [c EXCEPT !.err = TRUE], ret' = "fail", UNCHANGED selected,
             ProtoOf(c, ret) = "failed", ProtoOf(c', ret') = "failed"
      PROVE  Does
  <2>1. c'.sock = c.sock /\ c'.err \in {c.err, TRUE} /\ c'.ask = c.ask /\ selected' = selected
    BY <1>6, ErrDoes DEF TurnsInv, SameRest
  <2>2. Image' \in Client!Failing(Image)
    BY <1>6, <2>1, FailingHas, Images DEF TurnsInv, SameRest
  <2> QED BY <1>6, <2>2, ClientSteps DEF Does
<1>7. CASE RefusedIo
  <2>1. c' = [c EXCEPT !.err = TRUE] /\ ret' = "fail" /\ UNCHANGED selected
        /\ c.call = "connect" /\ c.qst \notin Handshake
    BY <1>7 DEF RefusedIo, Refuse
  <2>2. c'.call = c.call /\ c'.qst = c.qst
    BY <2>1, ErrDoes DEF TurnsInv
  <2> QED BY <1>6, <2>1, <2>2 DEF ProtoOf
<1>8. CASE IoAfterEnd
  <2> selected' = selected
    BY <1>8 DEF IoAfterEnd
  <2>1. CASE c' = c /\ ret' = ret
    BY <2>1, SameImage DEF TurnsInv, Does, SameClient
  <2>2. CASE ret = "fail" /\ c.qst # "START" /\ c' = [c EXCEPT !.err = TRUE]
    <3>1. ret' = ret /\ c'.call = c.call /\ c'.qst = c.qst
      BY <1>8, <2>2, ErrDoes DEF IoAfterEnd, TurnsInv
    <3> QED BY <1>6, <2>2, <3>1 DEF ProtoOf
  <2> QED BY <1>8, <2>1, <2>2 DEF IoAfterEnd
<1> QED BY <1>1, <1>2, <1>3, <1>4, <1>5, <1>7, <1>8, SetupMaps, CommandMaps DEF Calls

\* During a call, before and after a step that leaves it running.
LEMMA RunningProto ==
  ASSUME TurnsInv, busy
  PROVE  /\ ret \in {"none", "want"} /\ c.call \in {"connect", "query", "database"}
         /\ c.call = "connect" => c.qst \in Handshake
         /\ c.qst = "START" => c.call = "connect"
         /\ ProtoOf(c, ret) = IF c.qst = "START" THEN "start" ELSE IF c.call = "connect" THEN "auth"
                              ELSE IF c.call = "database" THEN "db" ELSE "query"
         /\ \A s : s.call = c.call /\ s.qst = c.qst =>
              /\ ProtoOf(s, "want") = ProtoOf(c, ret)
              /\ ProtoOf(s, "fail") = IF c.qst = "START" THEN "start" ELSE "failed"
<1>1. /\ ret \in {"none", "want"} /\ c.call \in {"connect", "query", "database"}
      /\ c.call = "connect" => c.qst \in Handshake
  BY ClientFields DEF TurnsInv, Turns
<1>2. c.qst = "START" => c.call = "connect"
  BY StatesApart DEF TurnsInv, Turns
<1>3. ProtoOf(c, ret) = IF c.qst = "START" THEN "start" ELSE IF c.call = "connect" THEN "auth"
                        ELSE IF c.call = "database" THEN "db" ELSE "query"
  BY <1>1, BusyProto
<1>4. ASSUME NEW s, s.call = c.call, s.qst = c.qst
      PROVE  /\ ProtoOf(s, "want") = ProtoOf(c, ret)
             /\ ProtoOf(s, "fail") = IF c.qst = "START" THEN "start" ELSE "failed"
  <2>1. ProtoOf(s, "want") = ProtoOf(c, "want") /\ ProtoOf(s, "fail") = ProtoOf(c, "fail")
    BY <1>4, ProtoSame
  <2>2. ProtoOf(c, "want") = ProtoOf(c, ret)
    BY <1>1, <1>3, BusyProto
  <2>3. ProtoOf(c, "fail") = IF c.qst = "START" THEN "start" ELSE "failed"
    BY <1>1 DEF ProtoOf
  <2> QED BY <2>1, <2>2, <2>3
<1> QED BY <1>1, <1>2, <1>3, <1>4

LEMMA StaysMaps ==
  ASSUME TurnsInv, TurnsInv', busy, busy', ret' = ret, SameClient(c'), UNCHANGED selected,
         c.qst = "START" <=> c'.qst = "START"
  PROVE  Does
<1>1. ret \in {"none", "want"} /\ c.call \in {"connect", "query", "database"}
      /\ (c.call = "connect" => c.qst \in Handshake) /\ (c.call = "connect" => c'.qst \in Handshake)
  <2>1. (busy => (c.call = "connect" => c.qst \in Handshake))'
    BY DEF TurnsInv, Turns
  <2> QED BY <2>1, RunningProto DEF SameClient
<1>2. ProtoOf(c', ret') = ProtoOf(c, ret)
  BY <1>1, BusyProto DEF SameClient
<1> QED BY <1>2, SameImage DEF Does, TurnsInv

\* A call that fails other than over the socket it is making.
LEMMA FailsMaps ==
  ASSUME TurnsInv, WireTypeOK', busy, c.qst # "START", ret' = "fail", c'.call = c.call, c'.qst = c.qst,
         c'.ask = c.ask, selected' = selected, c'.err \in {c.err, TRUE},
         IF c.sock = "live" THEN c'.sock \in {"live", "dead"} ELSE c'.sock = c.sock
  PROVE  Does
<1>1. /\ ProtoOf(c, ret) \in {"auth", "db", "query"}
      /\ ProtoOf(c', ret') = "failed"
  BY RunningProto
<1>2. Image' \in Client!Failing(Image)
  BY <1>1, FailingHas, Images DEF TurnsInv, SameRest
<1> QED BY <1>2, ClientSteps DEF Does

LEMMA WaitsMaps ==
  ASSUME TurnsInv, WireTypeOK', busy, c.qst # "START", ret' = "want", c'.call = c.call, c'.qst = c.qst,
         c'.ask = c.ask, selected' = selected, c'.sock = c.sock,
         \/ c.sock = "live" /\ c'.err \in {c.err, FALSE}
         \/ c.sock = "none" /\ c'.err = c.err
  PROVE  Does
<1>1. ProtoOf(c, ret) \in {"auth", "db", "query"} /\ ProtoOf(c', ret') = ProtoOf(c, ret)
  BY RunningProto
<1>2. Image' \in Client!Waiting(Image)
  BY <1>1, WaitingHas, Images DEF TurnsInv, SameRest
<1> QED BY <1>2, ClientSteps DEF Does

LEMMA SocketsMap == TurnsInv /\ TurnsInv' /\ (SocketConnect \/ ConnCheck) => Does
<1> SUFFICES ASSUME TurnsInv, TurnsInv', SocketConnect \/ ConnCheck PROVE Does
  OBVIOUS
<1>1. CASE SocketConnect
  <2>1. /\ c.qst = "START" /\ busy /\ c'.call = c.call /\ c'.ask = c.ask /\ selected' = selected
        /\ \/ c'.qst = "CONN_CHECK" /\ c'.sock = "live" /\ c'.err = c.err /\ ret' = "want"
           \/ c'.qst = "START" /\ c'.sock = c.sock /\ c'.err = TRUE /\ ret' = "fail"
    BY <1>1, SocketDoes DEF TurnsInv
  <2>2. c.call = "connect" /\ ProtoOf(c, ret) = "start"
    BY <2>1, RunningProto
  <2>3. CASE ret' = "want"
    <3>1. ProtoOf(c', ret') = "auth"
      BY <2>1, <2>2, <2>3, StatesApart DEF ProtoOf
    <3>2. Image' \in Client!Waiting(Image)
      BY <2>1, <2>2, <2>3, <3>1, WaitingHas, Images DEF TurnsInv, SameRest
    <3> QED BY <2>3, <3>2, ClientSteps DEF Does
  <2>4. CASE ret' = "fail"
    <3>1. ProtoOf(c', ret') = "start"
      BY <2>1, <2>2, <2>4, StatesApart DEF ProtoOf
    <3>2. Image' \in Client!Failing(Image)
      BY <2>1, <2>2, <2>4, <3>1, FailingHas, Images DEF TurnsInv, SameRest
    <3> QED BY <2>4, <3>2, ClientSteps DEF Does
  <2> QED BY <2>1, <2>3, <2>4
<1>2. CASE ConnCheck
  <2>1. /\ c.qst = "CONN_CHECK" /\ busy /\ c'.call = c.call /\ c'.ask = c.ask /\ selected' = selected
        /\ \/ /\ c'.qst = "READ_GREETINGS" /\ c'.sock = c.sock /\ c'.err = c.err
              /\ UNCHANGED <<busy, ret>>
           \/ c'.qst = "START" /\ c'.sock = "none" /\ c'.err = TRUE /\ ret' = "fail"
    BY <1>2, CheckDoes DEF TurnsInv
  <2>2. c.sock = "live" /\ c.call = "connect"
    BY <2>1, StatesApart DEF TurnsInv, Turns
  <2>3. CASE c'.qst = "READ_GREETINGS"
    BY <2>1, <2>3, StaysMaps DEF SameClient
  <2>4. CASE c'.qst = "START"
    <3>1. ProtoOf(c, ret) = "auth" /\ ProtoOf(c', ret') = "start"
      BY <2>1, <2>2, <2>4, RunningProto, StatesApart DEF ProtoOf
    <3>2. Image' \in Client!Failing(Image)
      BY <2>1, <2>2, <2>4, <3>1, FailingHas, Images DEF TurnsInv, SameRest
    <3> QED BY <2>1, <2>4, <3>2, ClientSteps DEF Does
  <2> QED BY <2>1, <2>3, <2>4
<1> QED BY <1>1, <1>2

LEMMA DecodeMaps == TurnsInv /\ TurnsInv' /\ Decode => Does
<1> SUFFICES ASSUME TurnsInv, TurnsInv', Decode PROVE Does
  OBVIOUS
<1>1. HasPacket
  BY TurnsHasPacket
<1>2. busy /\ c.qst \in Receiving /\ c.qst # "START" /\ c.sock = "live"
  <2>1. busy /\ c.qst \in Receiving
    BY <1>1, DecodeDoes DEF TurnsInv
  <2> QED BY <2>1, StatesApart DEF TurnsInv, Turns, Reading
<1>3. CASE GoingOn /\ Moves(Head(wire))
  <2>1. c'.qst # "START" /\ ret' = ret /\ busy' /\ SameClient(c') /\ UNCHANGED selected
    BY <1>2, <1>3 DEF Moves, GoingOn
  <2> QED BY <1>2, <2>1, StaysMaps
<1>4. CASE Ending
  <2>1. /\ ret' = "ok" /\ c'.qst = c.qst /\ c'.call = c.call /\ c'.err = c.err /\ c'.sock = c.sock
        /\ c'.ask = NoDb /\ selected' = IF c.call = "database" THEN c.ask ELSE selected
    BY <1>4 DEF Ending
  <2>2. /\ c.call = "connect" => c.qst \in Handshake
        /\ c.call \in {"connect", "query", "database"}
        /\ ProtoOf(c, ret) = IF c.call = "connect" THEN "auth" ELSE IF c.call = "database" THEN "db" ELSE "query"
    BY <1>2, RunningProto
  <2>3. ProtoOf(c', ret') = IF c.call = "connect" THEN "authed"
                            ELSE IF c.call = "database" THEN "dbDone" ELSE "queryDone"
    BY <1>2, <2>1, <2>2 DEF ProtoOf
  <2>4. /\ Image.proto \in {"auth", "db", "query"} /\ Image.sock = "live"
        /\ Image'.proto = IF Image.proto = "auth" THEN "authed" ELSE IF Image.proto = "db" THEN "dbDone"
                          ELSE "queryDone"
        /\ Image'.db = IF Image.proto = "db" THEN Image.ask ELSE Image.db
    BY <1>2, <2>1, <2>2, <2>3, Images DEF TurnsInv
  <2>5. Image' \in Client!Done(Image)
    BY <1>2, <2>1, <2>4, DoneHas, Images DEF TurnsInv
  <2> QED BY <2>1, <2>5, ClientSteps DEF Does
<1>5. CASE BreakingOff
  BY <1>2, <1>5, FailsMaps DEF BreakingOff, TurnsInv, SameRest
<1> QED BY <1>1, <1>3, <1>4, <1>5, DecodeDoes DEF TurnsInv

LEMMA StepMaps == TurnsInv /\ TurnsInv' /\ [WireNext]_vars => Does
<1> SUFFICES ASSUME TurnsInv, TurnsInv', [WireNext]_vars PROVE Does
  OBVIOUS
<1>1. WireTypeOK /\ WireTypeOK'
  BY DEF TurnsInv
<1>2. CASE Calls
  BY <1>1, <1>2, CallsMap
<1>3. CASE SocketConnect \/ ConnCheck
  BY <1>3, SocketsMap
<1>4. CASE WriteAll
  <2>1. busy /\ busy' /\ ret' = ret /\ SameClient(c') /\ UNCHANGED selected /\ c.qst # "START" /\ c'.qst # "START"
    BY <1>1, <1>4, WriteDoes, StatesApart DEF AfterSending
  <2> QED BY <2>1, StaysMaps
<1>5. CASE WriteSome
  <2>1. busy /\ c.qst # "START" /\ c.sock # "dead" /\ ret' = "want" /\ UNCHANGED <<c, selected>>
    BY <1>5, StatesApart DEF WriteSome, Running, Want, Return
  <2>2. c.sock \in {"live", "none"}
    BY <1>1, <2>1, ClientFields DEF Sockets
  <2> QED BY <1>1, <2>1, <2>2, WaitsMaps DEF SameRest
<1>6. CASE WriteFails
  BY <1>1, <1>6, WriteFailsDoes, FailsMaps, StatesApart DEF SameRest
<1>7. CASE ReadHeader \/ ReadBody
  <2>1. busy /\ busy' /\ ret' = ret /\ SameClient(c') /\ UNCHANGED selected /\ c'.qst = c.qst
    BY <1>1, <1>7, ReadPartDoes
  <2> QED BY <2>1, StaysMaps
<1>8. CASE ReadWaits
  <2>1. busy /\ c.qst \in Receiving /\ c.qst # "START"
    BY <1>1, <1>8, ReadWaitsDoes, StatesApart
  <2>2. c.sock = "live"
    BY <2>1 DEF TurnsInv, Turns, Reading
  <2> QED BY <1>1, <1>8, <2>1, <2>2, ReadWaitsDoes, WaitsMaps DEF SameRest
<1>9. CASE ReadLost
  <2>1. busy /\ c.qst \in Receiving /\ c.qst # "START"
    BY <1>1, <1>9, ReadLostDoes, StatesApart
  <2>2. c.sock = "live"
    BY <2>1 DEF TurnsInv, Turns, Reading
  <2> QED BY <1>1, <1>9, <2>1, <2>2, ReadLostDoes, FailsMaps DEF SameRest
<1>10. CASE LostInRows
  <2>1. busy /\ busy' /\ ret' = ret /\ SameClient(c') /\ UNCHANGED selected /\ c'.qst = c.qst
    BY <1>1, <1>10, LostInRowsDoes
  <2> QED BY <2>1, StaysMaps
<1>11. CASE Decode
  BY <1>11, DecodeMaps
<1>12. CASE ServerGoes \/ UNCHANGED vars
  <2>1. UNCHANGED <<c, ret, selected>>
    BY <1>12 DEF ServerGoes, vars
  <2> QED BY <1>1, <2>1, SameImage DEF SameClient, Does
<1> QED BY <1>2, <1>3, <1>4, <1>5, <1>6, <1>7, <1>8, <1>9, <1>10, <1>11, <1>12
        DEF WireNext, Writes, Reads

\* Whatever packets come, in whatever pieces, and wherever the connection
\* breaks, a call of the client does what Mysac says a call may do: the event
\* loop was modelled, and proved about, over the right client.
THEOREM DoesAsMysacCorrect == WireSpec => DoesAsMysac
<1>1. TurnsInv /\ TurnsInv' /\ [WireNext]_vars =>
        [Client!Prepare \/ Client!Command \/ Client!Io \/ Client!Dial]_<<Image, ret>>
  BY StepMaps DEF Does
<1>2. WireSpec => Client!CInit /\ [][Client!Prepare \/ Client!Command \/ Client!Io \/ Client!Dial]_<<Image, ret>>
  BY <1>1, InitImage, TurnsInvariant, PTL DEF WireSpec
<1> QED BY <1>2 DEF DoesAsMysac, Client!CSpec, Image

----------------------------------------------------------------------------
(* An exchange that ends well has read its answer to the last packet *)

LEMMA TailOf ==
  ASSUME NEW w \in Seq(Packet), w # <<>>
  PROVE  /\ Tail(w) \in Seq(Packet) /\ Len(w) \in Nat \ {0} /\ Len(Tail(w)) = Len(w) - 1
         /\ \A i \in 1 .. Len(Tail(w)) : Tail(w)[i] = w[i + 1] /\ i + 1 \in 1 .. Len(w)
         /\ Head(w) = w[1] /\ 1 \in 1 .. Len(w)
  BY HeadTailProperties, EmptySeq, ElementOfSeq

\* A place is followed by the one its packet leads to.
LEMMA FromTail ==
  ASSUME NEW w \in Seq(Packet), w # <<>>, NEW p, From(w, p)
  PROVE  p \in Places /\ From(Tail(w), After(p, w[1]))
<1>1. PICK at \in Paths : at[1] = p /\ Follow(w, at)
  BY DEF From
<1>2. at[1] \in Places /\ at[2] = After(p, w[1])
  BY <1>1, TailOf DEF Follow
<1> DEFINE rest == [i \in Nat |-> at[i + 1]]
<1>3. rest \in Paths /\ rest[1] = at[2] /\ \A i \in Nat : rest[i] = at[i + 1]
  BY DEF Paths
<1> HIDE DEF rest
<1>4. Follow(Tail(w), rest)
  <2> SUFFICES ASSUME NEW i \in 1 .. Len(Tail(w))
               PROVE  rest[i] \in Places /\ rest[i + 1] = After(rest[i], Tail(w)[i])
    BY DEF Follow
  <2>1. Tail(w)[i] = w[i + 1] /\ i + 1 \in 1 .. Len(w)
    BY TailOf
  <2>2. at[i + 1] \in Places /\ at[i + 1 + 1] = After(at[i + 1], w[i + 1])
    BY <1>1, <2>1 DEF Follow
  <2>3. rest[i] = at[i + 1] /\ rest[i + 1] = at[i + 1 + 1]
    BY <1>3
  <2> QED BY <2>1, <2>2, <2>3
<1> QED BY <1>1, <1>2, <1>3, <1>4 DEF From

LEMMA EndFrom ==
  ASSUME NEW w \in Seq(Packet), From(w, "end")
  PROVE  w = <<>>
<1> SUFFICES ASSUME w # <<>> PROVE FALSE
  OBVIOUS
<1> QED BY FromTail DEF Places

LEMMA NoneFrom ==
  ASSUME NEW w \in Seq(Packet), From(w, "none")
  PROVE  w = <<>>
<1> SUFFICES ASSUME w # <<>> PROVE FALSE
  OBVIOUS
<1> QED BY FromTail DEF Places

LEMMA EmptyShapes == Len(<<>>) = 0 /\ \A p \in Places : From(<<>>, p)
<1>1. Len(<<>>) = 0
  BY EmptySeq
<1>2. ASSUME NEW p \in Places PROVE From(<<>>, p)
  <2> DEFINE at == [i \in Nat |-> p]
  <2>1. at \in Paths /\ at[1] = p
    BY DEF Paths
  <2> HIDE DEF at
  <2> QED BY <1>1, <2>1 DEF From, Follow
<1> QED BY <1>1, <1>2

\* What was cut off at the end is not missed.
LEMMA PrefixShapes ==
  ASSUME NEW w \in Seq(Packet), NEW v \in Seq(Packet), Len(v) <= Len(w), \A i \in 1 .. Len(v) : v[i] = w[i],
         NEW p, From(w, p)
  PROVE  From(v, p)
<1>1. PICK at \in Paths : at[1] = p /\ Follow(w, at)
  BY DEF From
<1>2. 1 .. Len(v) \subseteq 1 .. Len(w)
  OBVIOUS
<1>3. Follow(v, at)
  BY <1>1, <1>2 DEF Follow
<1> QED BY <1>1, <1>3 DEF From

UnderWay == busy \/ ret = "want"

\* What the wire may hold in each state of an exchange under way.
Shaped ==
  /\ c.qst \in {"START"} \cup Sending => wire = <<>>
  /\ c.qst = "COLNUM" => From(wire, "first")
  /\ c.qst \in {"COLDESC", "EOF1"} => From(wire, "fields")
  /\ c.qst = "DATA" => From(wire, "rows")
  /\ c.qst \in {"CONN_CHECK", "READ_GREETINGS", "RECV_AUTH", "RECV_INIT_DB"} => Len(wire) <= 1

\* While nothing was left behind, the wire holds what the exchange under way
\* has still to read, and nothing when none is; nobody tries to connect over it.
Clean ==
  slipped = "no" =>
    /\ \A i \in 1 .. Len(wire) : wire[i].of = cmd
    /\ ~UnderWay => wire = <<>>
    /\ UnderWay => Shaped
    /\ c.call = "connect" /\ c.qst \notin Handshake => ret # "want"

LEMMA EmptyShaped == wire = <<>> => Shaped
  BY EmptyShapes DEF Shaped, Places

LEMMA CleanInit == WireInit => Clean
  BY EmptyShapes DEF WireInit, Clean, UnderWay, NewClient

\* A step that leaves the client's place and the wire alone.
LEMMA CleanKept ==
  ASSUME Clean, c'.qst = c.qst, c'.call = c.call, UNCHANGED <<busy, ret, wire, cmd, slipped>>
  PROVE  Clean'
  BY DEF Clean, UnderWay, Shaped, From, Follow

\* A step after which the wire is empty.
LEMMA CleanEmpty ==
  ASSUME wire' = <<>>, c'.call = "connect" /\ c'.qst \notin Handshake => ret' # "want"
  PROVE  Clean'
<1>1. (wire = <<>> => Shaped)'
  BY EmptyShaped, PTL
<1> QED BY <1>1, EmptyShapes DEF Clean

LEMMA CleanCalls == TurnsInv /\ Clean /\ Calls => Clean'
<1> SUFFICES ASSUME TurnsInv, Clean, Calls PROVE Clean'
  OBVIOUS
<1> USE DEF TurnsInv
<1>1. CASE SetupCall
  <2>1. /\ c'.qst = c.qst /\ c'.call = "connect" /\ UNCHANGED <<busy, ret, wire, cmd>>
    BY <1>1, SetupDoes
  <2>2. slipped' = "no" => slipped = "no" /\ ~(ret = "want" /\ c.qst \notin Handshake)
    BY <1>1 DEF SetupCall, GivenUpIf, Slips
  <2> QED BY <2>1, <2>2 DEF Clean, UnderWay, Shaped, From, Follow
<1>2. CASE DisconnectCall
  BY <1>2, CleanEmpty DEF DisconnectCall
<1>3. CASE FreeCall \/ TooLongCall
  <2>1. PICK b \in BOOLEAN : c' = [c EXCEPT !.err = b]
    BY <1>3 DEF FreeCall, TooLongCall
  <2>2. UNCHANGED <<busy, ret, wire, cmd, slipped, selected>>
    BY <1>3 DEF FreeCall, TooLongCall
  <2> QED BY <2>1, <2>2, ErrDoes, CleanKept
<1>4. ASSUME Commands PROVE Clean'
  <2>1. /\ ~busy /\ ret' = "none" /\ wire' = wire
        /\ slipped' = "no" => slipped = "no" /\ ret # "want"
    BY <1>4 DEF Commands, Turn, GivenUpIf, Slips
  <2>2. CASE slipped' = "no"
    <3>1. wire' = <<>>
      BY <2>1, <2>2 DEF Clean, UnderWay
    <3> QED BY <2>1, <3>1, CleanEmpty
  <2>3. CASE slipped' # "no"
    BY <2>3 DEF Clean
  <2> QED BY <2>2, <2>3
<1>5. CASE (\E s \in Stmts : QueryCall(s)) \/ (\E d \in DbNames : DatabaseCall(d))
  BY <1>4, <1>5 DEF QueryCall, DatabaseCall
<1>6. CASE IoCall \/ DialCall
  <2>1. c' = c /\ busy' = TRUE /\ UNCHANGED <<ret, wire, cmd, slipped>> /\ ~busy /\ ret \in {"none", "want"}
    BY <1>6 DEF IoCall, DialCall, Begin, Turn
  <2>2. CASE slipped = "no" /\ ret = "none"
    <3>1. wire = <<>>
      BY <2>1, <2>2 DEF Clean, UnderWay
    <3> QED BY <2>1, <2>2, <3>1, CleanEmpty
  <2>3. CASE ret = "want"
    BY <2>1, <2>3 DEF Clean, UnderWay, Shaped, From, Follow
  <2>4. CASE slipped # "no"
    BY <2>1, <2>4 DEF Clean
  <2> QED BY <2>1, <2>2, <2>3, <2>4
<1>7. CASE RefusedDial
  <2>1. c' = [c EXCEPT !.err = TRUE] /\ UNCHANGED <<busy, ret, wire, cmd, slipped, selected>>
    BY <1>7 DEF RefusedDial, Refuse
  <2> QED BY <2>1, ErrDoes, CleanKept
<1>8. CASE RefusedIo
  <2>1. /\ ~busy /\ c.call = "connect" /\ c.qst \notin Handshake /\ ret' = "fail"
        /\ UNCHANGED <<busy, wire, cmd, slipped>>
    BY <1>8 DEF RefusedIo, Refuse, Turn
  <2>2. CASE slipped = "no"
    <3>1. wire' = <<>>
      BY <2>1, <2>2 DEF Clean, UnderWay
    <3> QED BY <2>1, <3>1, CleanEmpty
  <2>3. CASE slipped # "no"
    BY <2>1, <2>3 DEF Clean
  <2> QED BY <2>2, <2>3
<1>9. CASE IoAfterEnd
  <2>1. c' = c \/ c' = [c EXCEPT !.err = TRUE]
    BY <1>9 DEF IoAfterEnd
  <2>2. UNCHANGED <<busy, ret, wire, cmd, slipped, selected>>
    BY <1>9 DEF IoAfterEnd
  <2> QED BY <2>1, <2>2, ErrDoes, CleanKept
<1> QED BY <1>1, <1>2, <1>3, <1>5, <1>6, <1>7, <1>8, <1>9 DEF Calls

LEMMA AtMostOne == ASSUME NEW n, n = 1 PROVE n <= 1
  OBVIOUS

\* The server answers what was asked, on a wire with nothing else on it.
LEMMA ServesShaped ==
  ASSUME TurnsInv, busy, c.qst \in Sending, Serves, wire = <<>>
  PROVE  /\ wire' \in Seq(Packet) /\ \A i \in 1 .. Len(wire') : wire'[i].of = cmd
         /\ From(wire', "first") \/ c.call = "connect"
         /\ Len(wire') <= 1 \/ c.qst = "SEND_QUERY"
<1>1. /\ cmd \in 0 .. MaxCmd
      /\ c.call = "connect" => c.qst \in Handshake
      /\ srv \in ServerRec /\ wire \in Seq(Packet)
  BY Typed DEF TurnsInv, Turns
<1>2. P("err") \in Packet /\ P("err").kind = "err" /\ P("err").of = cmd
  BY <1>1, PTyped DEF Kinds
<1>3. CASE ~srv.up
  <2>1. wire' = <<>>
    BY <1>3 DEF Serves
  <2> QED BY <1>1, <2>1, EmptyShapes DEF Places
<1>4. CASE srv.up /\ c.call # "connect" /\ ~srv.open
  <2>1. wire' = Append(wire, P("err"))
    BY <1>4 DEF Serves
  <2>2. wire' = <<P("err")>>
    BY <1>1, <1>2, <2>1
  <2>3. Len(wire') <= 1
    BY <2>2
  <2> QED BY <1>1, <2>2, <2>3, OneAnswers, PieceFrom DEF OfCmd
<1>5. CASE srv.up /\ c.call # "connect" /\ srv.open
  <2>1. PICK answer \in Answers(srv.request) : wire' = wire \o answer
    BY <1>5 DEF Serves
  <2>2. srv.request \in Requests
    BY <1>1 DEF ServerRec
  <2>3. answer \in Seq(Packet) /\ (\A i \in 1 .. Len(answer) : answer[i].of = cmd) /\ From(answer, "first")
    BY <1>1, <2>2, AnswersShaped DEF OfCmd
  <2>4. wire' = answer
    BY <1>1, <2>1, <2>3, ConcatEmptySeq
  <2>5. ASSUME c.qst # "SEND_QUERY" PROVE Len(wire') <= 1
    <3>1. c.qst = "SEND_INIT_DB"
      BY <1>5, <2>5 DEF TurnsInv, Turns, Sending, Handshake
    <3>2. srv.request = "initdb"
      BY <3>1 DEF TurnsInv, Turns
    <3>3. answer \in Answers("initdb")
      BY <2>1, <3>2
    <3>4. Len(answer) = 1
      BY <1>1, <3>3, InitDbAnswers
    <3> QED BY <2>4, <3>4
  <2> QED BY <2>3, <2>4, <2>5
<1>6. CASE srv.up /\ c.call = "connect"
  <2>1. PICK request \in {"auth", "auth2"} : \E answer \in Answers(request) : wire' = wire \o answer
    BY <1>6 DEF Serves
  <2>2. PICK answer \in Answers(request) : wire' = wire \o answer
    BY <2>1
  <2>3. answer \in Seq(Packet) /\ Len(answer) = 1 /\ answer[1].of = cmd
    BY <1>1, AuthAnswers
  <2>4. wire' = answer
    BY <1>1, <2>2, <2>3, ConcatEmptySeq
  <2>5. \A i \in 1 .. Len(answer) : answer[i].of = cmd
    BY <2>3
  <2>6. wire' \in Seq(Packet) /\ Len(wire') <= 1 /\ \A i \in 1 .. Len(wire') : wire'[i].of = cmd
    <3>1. Len(answer) <= 1
      BY <2>3, AtMostOne
    <3> QED BY <2>3, <2>4, <2>5, <3>1, Zenon
  <2> QED BY <1>6, <2>6
<1> QED BY <1>3, <1>4, <1>5, <1>6

\* The packets left over, in the state that comes next.
LEMMA MovesShaped ==
  ASSUME TurnsInv, wire # <<>>, wire' = Tail(wire), c.qst \in Receiving, Shaped, Moves(Head(wire))
  PROVE  Shaped'
<1>1. /\ wire \in Seq(Packet) /\ Tail(wire) \in Seq(Packet) /\ Len(wire) \in Nat \ {0}
      /\ Len(Tail(wire)) = Len(wire) - 1 /\ Head(wire) = wire[1] /\ 1 \in 1 .. Len(wire)
  BY Typed, TailOf DEF TurnsInv
<1>2. ASSUME wire' = <<>> PROVE Shaped'
  <2>1. (wire = <<>> => Shaped)'
    BY EmptyShaped, PTL
  <2> QED BY <1>2, <2>1
<1>3. ASSUME NEW p, From(wire, p) PROVE From(wire', After(p, Head(wire)))
  BY <1>1, <1>3, FromTail
<1>4. From(wire', "end") => wire' = <<>>
  BY <1>1, EndFrom
<1>5. ~From(wire', "none") \/ wire' = <<>>
  BY <1>1, NoneFrom
<1>6. CASE c.qst \in {"READ_GREETINGS", "RECV_AUTH"}
  <2>1. Len(Tail(wire)) = 0
    BY <1>1, <1>6 DEF Shaped
  <2> QED BY <1>1, <1>2, <2>1, EmptySeq
<1>7. CASE c.qst = "COLNUM"
  <2>1. c'.qst = "COLDESC" /\ From(wire', After("first", Head(wire)))
    BY <1>3, <1>7 DEF Moves, Shaped
  <2>2. After("first", Head(wire)) \in {"fields", "end", "none"}
    BY DEF After
  <2> QED BY <1>2, <1>4, <1>5, <2>1, <2>2 DEF Shaped, Sending
<1>8. CASE c.qst = "COLDESC"
  <2>1. c'.qst \in {"COLDESC", "EOF1"} /\ Head(wire).kind # "eof" /\ From(wire', After("fields", Head(wire)))
    BY <1>3, <1>8 DEF Moves, Shaped
  <2>2. After("fields", Head(wire)) \in {"fields", "none"}
    BY <2>1 DEF After
  <2> QED BY <1>2, <1>5, <2>1, <2>2 DEF Shaped, Sending
<1>9. CASE c.qst = "EOF1"
  <2>1. c'.qst = "DATA" /\ Head(wire).kind # "field" /\ From(wire', After("fields", Head(wire)))
    BY <1>3, <1>9 DEF Moves, Shaped
  <2>2. After("fields", Head(wire)) \in {"rows", "none"}
    BY <2>1 DEF After
  <2> QED BY <1>2, <1>5, <2>1, <2>2 DEF Shaped, Sending
<1>10. CASE c.qst = "DATA" /\ c'.qst = "DATA"
  <2>1. Head(wire).kind \notin {"eof", "err"} /\ From(wire', After("rows", Head(wire)))
    BY <1>3, <1>10 DEF Moves, Shaped
  <2>2. After("rows", Head(wire)) \in {"rows", "none"}
    BY <2>1 DEF After
  <2> QED BY <1>2, <1>5, <1>10, <2>1, <2>2 DEF Shaped, Sending
<1>11. CASE c.qst = "DATA" /\ c'.qst = "COLNUM"
  <2>1. Head(wire).kind \in {"eof", "oldauth"} /\ Head(wire).more /\ From(wire', After("rows", Head(wire)))
    BY <1>3, <1>11 DEF Moves, Shaped
  <2>2. After("rows", Head(wire)) \in {"first", "none"}
    BY <2>1 DEF After
  <2> QED BY <1>2, <1>5, <1>11, <2>1, <2>2 DEF Shaped, Sending
<1> QED BY <1>6, <1>7, <1>8, <1>9, <1>10, <1>11 DEF Moves

\* The packet that ends an exchange is the last of its answer.
LEMMA EndsEmpty ==
  ASSUME TurnsInv, wire # <<>>, c.qst \in Receiving, Shaped, Ends(Head(wire))
  PROVE  Tail(wire) = <<>>
<1>1. /\ wire \in Seq(Packet) /\ Tail(wire) \in Seq(Packet) /\ Len(wire) \in Nat \ {0}
      /\ Len(Tail(wire)) = Len(wire) - 1 /\ Head(wire) = wire[1] /\ 1 \in 1 .. Len(wire)
  BY Typed, TailOf DEF TurnsInv
<1>2. ASSUME NEW p, From(wire, p), After(p, Head(wire)) \in {"end", "none"} PROVE Tail(wire) = <<>>
  <2>1. From(Tail(wire), After(p, Head(wire)))
    BY <1>1, <1>2, FromTail
  <2>2. CASE After(p, Head(wire)) = "end"
    BY <1>1, <2>1, <2>2, EndFrom
  <2>3. CASE After(p, Head(wire)) = "none"
    <3> SUFFICES ASSUME Tail(wire) # <<>> PROVE FALSE
      OBVIOUS
    <3> QED BY <1>1, <2>1, <2>3, FromTail DEF Places
  <2> QED BY <1>2, <2>2, <2>3
<1>3. CASE c.qst = "COLNUM"
  <2>1. Head(wire).kind # "cols" /\ From(wire, "first")
    BY <1>3 DEF Ends, Shaped
  <2>2. After("first", Head(wire)) \in {"end", "none"}
    BY <2>1 DEF After
  <2> QED BY <1>2, <2>1, <2>2
<1>4. CASE c.qst = "DATA"
  <2>1. Head(wire).kind \in {"eof", "oldauth"} /\ ~Head(wire).more /\ From(wire, "rows")
    BY <1>4 DEF Ends, Shaped
  <2>2. After("rows", Head(wire)) \in {"end", "none"}
    BY <2>1 DEF After
  <2> QED BY <1>2, <2>1, <2>2
<1>5. CASE c.qst \in {"RECV_AUTH", "RECV_INIT_DB"}
  <2>1. Len(Tail(wire)) = 0
    BY <1>1, <1>5 DEF Shaped
  <2> QED BY <1>1, <2>1, EmptySeq
<1> QED BY <1>3, <1>4, <1>5 DEF Ends

\* An exchange that stops leaves packets behind if any of its own are there.
LEMMA LeavesClean ==
  ASSUME wire' \in Seq(Packet), cmd' = cmd, LeavesUnread, slipped = "no" => \A i \in 1 .. Len(wire') : wire'[i].of = cmd,
         slipped' = "no"
  PROVE  wire' = <<>>
<1>1. slipped = "no" /\ ~\E i \in DOMAIN wire' : wire'[i].of = cmd
  BY DEF LeavesUnread, Slips
<1>2. Len(wire') = 0
  <2>1. DOMAIN wire' = 1 .. Len(wire') /\ Len(wire') \in Nat
    OBVIOUS
  <2>2. ~(1 \in 1 .. Len(wire'))
    BY <1>1, <2>1
  <2> QED BY <2>1, <2>2
<1> QED BY <1>2, EmptySeq

LEMMA CleanStep == TurnsInv /\ TurnsInv' /\ Clean /\ [WireNext]_vars => Clean'
<1> SUFFICES ASSUME TurnsInv, TurnsInv', Clean, [WireNext]_vars PROVE Clean'
  OBVIOUS
<1>1. WireTypeOK /\ WireTypeOK'
  BY DEF TurnsInv
<1>2. busy => (c.call = "connect" => c.qst \in Handshake)
  BY DEF TurnsInv, Turns
<1>3. ASSUME slipped' = "no" => slipped = "no" /\ wire' = <<>>,
             c'.call = c.call, c'.qst \in Handshake \/ c.qst \notin Handshake, busy
      PROVE  Clean'
  BY <1>2, <1>3, CleanEmpty DEF Clean
<1>4. CASE Calls
  BY <1>4, CleanCalls
<1>5. CASE SocketConnect
  <2>1. /\ c.qst = "START" /\ busy /\ ~busy' /\ UNCHANGED <<cmd, slipped>> /\ c'.call = c.call
        /\ \/ /\ c'.qst = "CONN_CHECK" /\ ret' = "want"
              /\ Len(wire') = 1 /\ \A i \in 1 .. Len(wire') : wire'[i].of = cmd
           \/ c'.qst = "START" /\ ret' = "fail" /\ wire' = wire
    BY <1>1, <1>5, SocketDoes
  <2>2. CASE c'.qst = "CONN_CHECK"
    <3>1. Shaped'
      <4>1. Len(wire') <= 1 /\ c'.qst \notin {"START"} \cup Sending
        <5>1. c'.qst # "START"
          BY <2>2
        <5>2. Len(wire') = 1
          BY <2>1, <5>1
        <5> QED BY <2>2, <5>1, <5>2, AtMostOne, StatesApart
      <4> QED BY <2>2, <4>1 DEF Shaped
    <3>2. c'.qst \in Handshake
      BY <2>2, StatesApart
    <3> QED BY <2>1, <2>2, <3>1, <3>2 DEF Clean, UnderWay
  <2>3. CASE c'.qst = "START"
    <3>1. slipped = "no" => wire = <<>>
      BY <2>1 DEF Clean, UnderWay, Shaped
    <3> QED BY <1>3, <2>1, <2>3, <3>1, StatesApart
  <2> QED BY <2>1, <2>2, <2>3
<1>6. CASE ConnCheck
  <2>1. /\ c.qst = "CONN_CHECK" /\ busy /\ UNCHANGED <<cmd, slipped>> /\ c'.call = c.call
        /\ \/ c'.qst = "READ_GREETINGS" /\ UNCHANGED <<busy, ret, wire>>
           \/ c'.qst = "START" /\ wire' = <<>>
    BY <1>1, <1>6, CheckDoes
  <2>2. CASE c'.qst = "READ_GREETINGS"
    BY <2>1, <2>2, StatesApart DEF Clean, UnderWay, Shaped, Sending
  <2>3. CASE c'.qst = "START"
    BY <1>3, <2>1, <2>3, StatesApart
  <2> QED BY <2>1, <2>2, <2>3
<1>7. CASE WriteAll
  <2>1. /\ busy /\ busy' /\ c.qst \in Sending /\ Serves /\ c'.qst = AfterSending(c.qst)
        /\ c'.call = c.call /\ ret' = ret /\ cmd' = cmd /\ slipped' = slipped
    BY <1>1, <1>7, WriteDoes DEF SameClient
  <2>2. CASE slipped = "no"
    <3>1. wire = <<>>
      BY <2>1, <2>2 DEF Clean, UnderWay, Shaped
    <3>2. /\ \A i \in 1 .. Len(wire') : wire'[i].of = cmd
          /\ From(wire', "first") \/ c.call = "connect"
          /\ Len(wire') <= 1 \/ c.qst = "SEND_QUERY"
      BY <2>1, <3>1, ServesShaped
    <3>3. c.qst = "SEND_QUERY" => c.call # "connect"
      BY <1>2, <2>1 DEF Handshake
    <3>4. CASE c.qst = "SEND_QUERY"
      <4>1. c'.qst = "COLNUM" /\ From(wire', "first")
        BY <2>1, <3>2, <3>3, <3>4 DEF AfterSending
      <4>2. Shaped'
        BY <4>1 DEF Shaped, Sending
      <4> QED BY <2>1, <3>2, <3>3, <3>4, <4>2 DEF Clean, UnderWay
    <3>5. CASE c.qst # "SEND_QUERY"
      <4>1. c'.qst \in {"RECV_AUTH", "RECV_INIT_DB"} /\ Len(wire') <= 1
        BY <2>1, <3>2, <3>5 DEF AfterSending, Sending
      <4>2. Shaped'
        BY <4>1 DEF Shaped, Sending
      <4>3. ret \in {"none", "want"} /\ c'.call = "connect" => c'.qst \in Handshake
        BY <2>1 DEF TurnsInv, Turns
      <4> QED BY <2>1, <3>2, <4>2, <4>3 DEF Clean, UnderWay
    <3> QED BY <3>4, <3>5
  <2>3. CASE slipped # "no"
    BY <2>1, <2>3 DEF Clean
  <2> QED BY <2>2, <2>3
<1>8. CASE WriteSome \/ ReadWaits
  <2>1. /\ busy /\ ~busy' /\ ret' = "want" /\ c'.qst = c.qst /\ c'.call = c.call
        /\ UNCHANGED <<wire, cmd, slipped>>
    BY <1>1, <1>8, ReadWaitsDoes DEF WriteSome, Running, Want, Return
  <2> QED BY <1>2, <2>1 DEF Clean, UnderWay, Shaped, From, Follow
<1>9. CASE WriteFails
  <2>1. /\ busy /\ c.qst \in Sending /\ c'.qst = c.qst /\ c'.call = c.call /\ wire' = wire
        /\ LeavesUnread
    BY <1>1, <1>9, WriteFailsDoes
  <2>2. slipped' = "no" => slipped = "no"
    BY <2>1 DEF LeavesUnread, Slips
  <2>3. slipped = "no" => wire = <<>>
    BY <2>1 DEF Clean, UnderWay, Shaped
  <2> QED BY <1>3, <2>1, <2>2, <2>3
<1>10. CASE ReadHeader \/ ReadBody
  BY <1>1, <1>10, ReadPartDoes, CleanKept DEF SameClient
<1>11. CASE ReadLost
  <2>1. busy /\ c'.qst = c.qst /\ c'.call = c.call /\ wire' = <<>> /\ LeavesUnread
    BY <1>1, <1>11, ReadLostDoes
  <2>2. slipped' = "no" => slipped = "no"
    BY <2>1 DEF LeavesUnread, Slips
  <2> QED BY <1>3, <2>1, <2>2
<1>12. CASE LostInRows
  BY <1>1, <1>12, LostInRowsDoes, CleanKept DEF SameClient
<1>13. CASE Decode
  <2>1. HasPacket
    BY <1>13, TurnsHasPacket
  <2>2. busy /\ c.qst \in Receiving /\ wire # <<>> /\ wire' = Tail(wire) /\ cmd' = cmd
    BY <1>1, <1>13, <2>1, DecodeDoes
  <2>3. slipped = "no" => \A i \in 1 .. Len(wire') : wire'[i].of = cmd
    <3>1. \A i \in 1 .. Len(wire') : wire'[i] = wire[i + 1] /\ i + 1 \in 1 .. Len(wire)
      BY <1>1, <2>2, Typed, TailOf
    <3> QED BY <3>1 DEF Clean
  <2>4. CASE GoingOn /\ Moves(Head(wire))
    <3>1. busy' /\ ret' = ret /\ slipped' = slipped /\ c'.call = c.call
      BY <2>2, <2>4 DEF GoingOn, SameClient
    <3>2. slipped = "no" => Shaped'
      BY <2>2, <2>4, MovesShaped DEF Clean, UnderWay
    <3>3. c'.call = "connect" => c'.qst \in Handshake
      BY <3>1 DEF TurnsInv, Turns
    <3> QED BY <2>2, <2>3, <3>1, <3>2, <3>3 DEF Clean, UnderWay
  <2>5. CASE Ending \/ BreakingOff
    <3>1. c'.qst = c.qst /\ c'.call = c.call /\ LeavesUnread
      BY <2>5 DEF Ending, BreakingOff
    <3>2. slipped' = "no" => wire' = <<>>
      BY <1>1, <2>2, <2>3, <3>1, LeavesClean DEF WireTypeOK
    <3>3. slipped' = "no" => slipped = "no"
      BY <3>1 DEF LeavesUnread, Slips
    <3> QED BY <1>3, <2>2, <3>1, <3>2, <3>3
  <2> QED BY <1>1, <1>13, <2>1, <2>4, <2>5, DecodeDoes
<1>14. CASE ServerGoes
  <2>1. UNCHANGED <<c, busy, ret, cmd, slipped, selected>>
    BY <1>1, <1>14, GoesDoes
  <2>2. PICK k \in 0 .. Len(wire) : wire' = SubSeq(wire, 1, k)
    BY <1>1, <1>14, GoesDoes
  <2>3. /\ wire' \in Seq(Packet) /\ wire \in Seq(Packet) /\ Len(wire') <= Len(wire)
        /\ Len(wire') \in Nat /\ Len(wire) \in Nat
        /\ \A i \in 1 .. Len(wire') : wire'[i] = wire[i] /\ i \in 1 .. Len(wire)
    BY <1>1, <2>2, Typed, WirePrefix
  <2>4. wire = <<>> => wire' = <<>>
    BY <2>3, EmptySeq
  <2>5. \A p : From(wire, p) => From(wire', p)
    BY <2>3, PrefixShapes
  <2>6. Shaped => Shaped'
    BY <2>1, <2>3, <2>4, <2>5 DEF Shaped
  <2> QED BY <2>1, <2>3, <2>4, <2>6 DEF Clean, UnderWay
<1>15. CASE UNCHANGED vars
  BY <1>15, CleanKept DEF vars
<1> QED BY <1>4, <1>5, <1>6, <1>7, <1>8, <1>9, <1>10, <1>11, <1>12, <1>13, <1>14, <1>15
        DEF WireNext, Writes, Reads

LEMMA CleanInvariant == WireSpec => [](TurnsInv /\ Clean)
<1>1. TurnsInv /\ Clean /\ [WireNext]_vars => (TurnsInv /\ Clean)'
  BY TurnsStep, CleanStep
<1>2. WireInit => TurnsInv /\ Clean
  BY TypeInit, TurnsInit, CleanInit DEF TurnsInv
<1> QED BY <1>1, <1>2, PTL DEF WireSpec

\* Only a packet that is decoded ends an exchange well.
LEMMA EndsDecoding ==
  ASSUME TurnsInv, WireNext, busy, ret' = "ok"
  PROVE  /\ WireTypeOK /\ c.qst \in Receiving /\ wire # <<>> /\ wire' = Tail(wire)
         /\ Ends(Head(wire)) /\ LeavesUnread
<1>1. WireTypeOK /\ ret # "ok"
  BY DEF TurnsInv, Turns
<1>2. ~Calls /\ ~ServerGoes
  BY <1>1 DEF Calls, ServerGoes, SetupCall, DisconnectCall, FreeCall, TooLongCall, QueryCall,
              DatabaseCall, Commands, IoCall, DialCall, RefusedDial, RefusedIo, Refuse, IoAfterEnd, Turn
<1>3. ~SocketConnect /\ ~ConnCheck
  BY <1>1 DEF SocketConnect, ConnCheck
<1>4. ~Writes /\ ~Reads
  BY <1>1 DEF Writes, Reads, WriteAll, WriteSome, WriteFails, ReadHeader, ReadBody, ReadPart, ReadWaits,
              ReadLost, LostInRows, Want, Breaks, Return
<1>5. Decode
  BY <1>2, <1>3, <1>4 DEF WireNext
<1>6. HasPacket
  BY <1>5, TurnsHasPacket
<1>7. ~GoingOn /\ ~BreakingOff
  BY <1>1 DEF GoingOn, BreakingOff
<1> QED BY <1>1, <1>5, <1>6, <1>7, DecodeDoes DEF Ending

\* A call that returns 0 has read its answer to the last packet, whatever the
\* statement, the number of columns and rows, and however many results follow.
THEOREM OkReadsAllCorrect == WireSpec => OkReadsAll
<1>1. TurnsInv /\ Clean /\ [WireNext]_vars => [busy /\ ret' = "ok" => slipped' = slipped]_vars
  <2> SUFFICES ASSUME TurnsInv, Clean, WireNext, busy, ret' = "ok" PROVE slipped' = slipped
    OBVIOUS
  <2>1. /\ c.qst \in Receiving /\ wire # <<>> /\ wire' = Tail(wire) /\ Ends(Head(wire)) /\ LeavesUnread
    BY EndsDecoding
  <2>2. CASE slipped = "no"
    <3>1. Shaped
      BY <2>2 DEF Clean, UnderWay
    <3>2. wire' = <<>>
      BY <2>1, <3>1, EndsEmpty
    <3>3. DOMAIN wire' = {}
      BY <3>2
    <3> QED BY <2>1, <3>3 DEF LeavesUnread
  <2>3. CASE slipped # "no"
    BY <2>1, <2>3 DEF LeavesUnread, Slips
  <2> QED BY <2>2, <2>3
<1> QED BY <1>1, CleanInvariant, PTL DEF WireSpec, OkReadsAll

----------------------------------------------------------------------------
(* A switch that ends well has been made by the server *)

\* The server has been asked to change the database, and the answer not read.
Asked == c.qst = "RECV_INIT_DB" /\ UnderWay

\* What it answers tells whether it has changed.
Agree == slipped = "no" /\ Asked /\ wire # <<>> => wire[1].kind = "err" \/ srv.db = c.ask

LEMMA AgreeInit == WireInit => Agree
  BY DEF WireInit, Agree

\* A step that leaves the answer alone.
LEMMA AgreeKept ==
  ASSUME Agree, Asked' => Asked, c'.ask = c.ask, UNCHANGED <<srv, wire>>, slipped' = "no" => slipped = "no"
  PROVE  Agree'
  BY DEF Agree

LEMMA AgreeCalls == TurnsInv /\ Agree /\ Calls => Agree'
<1> SUFFICES ASSUME TurnsInv, Agree, Calls PROVE Agree'
  OBVIOUS
<1> USE DEF TurnsInv
<1>1. CASE SetupCall
  <2>1. c'.qst = c.qst /\ c'.ask = c.ask /\ UNCHANGED <<busy, ret, srv, wire>>
    BY <1>1, SetupDoes
  <2>2. slipped' = "no" => slipped = "no"
    BY <1>1 DEF SetupCall, GivenUpIf, Slips
  <2> QED BY <2>1, <2>2, AgreeKept DEF Asked, UnderWay
<1>2. CASE DisconnectCall
  BY <1>2 DEF DisconnectCall, NewClient, Agree, Asked
<1>3. CASE FreeCall \/ TooLongCall \/ RefusedDial \/ IoAfterEnd
  <2>1. UNCHANGED <<busy, ret, srv, wire, slipped, selected>>
    BY <1>3 DEF FreeCall, TooLongCall, RefusedDial, Refuse, IoAfterEnd
  <2>2. c' = c \/ c' = [c EXCEPT !.err = TRUE] \/ c' = [c EXCEPT !.err = FALSE]
    BY <1>3 DEF FreeCall, TooLongCall, RefusedDial, Refuse, IoAfterEnd
  <2>3. c'.qst = c.qst /\ c'.ask = c.ask
    BY <2>1, <2>2, ErrDoes
  <2> QED BY <2>1, <2>3, AgreeKept DEF Asked, UnderWay
<1>4. CASE (\E s \in Stmts : QueryCall(s)) \/ (\E d \in DbNames : DatabaseCall(d))
  <2>1. c'.qst \in {"SEND_QUERY", "SEND_INIT_DB"}
    BY <1>4, QueryDoes, DatabaseDoes
  <2> QED BY <2>1 DEF Agree, Asked
<1>5. CASE IoCall \/ DialCall
  <2>1. c' = c /\ UNCHANGED <<ret, srv, wire, slipped>> /\ ~busy /\ ret \in {"none", "want"}
    BY <1>5 DEF IoCall, DialCall, Begin, Turn
  <2>2. ret = "none" => c.qst # "RECV_INIT_DB"
    BY <2>1 DEF Turns, Sending
  <2> QED BY <2>1, <2>2, AgreeKept DEF Asked, UnderWay
<1>6. CASE RefusedIo
  <2>1. ~busy' /\ ret' = "fail"
    BY <1>6 DEF RefusedIo, Refuse, Turn
  <2> QED BY <2>1 DEF Agree, Asked, UnderWay
<1> QED BY <1>1, <1>2, <1>3, <1>4, <1>5, <1>6 DEF Calls

LEMMA AgreeWriteAll == TurnsInv /\ Clean /\ WriteAll => Agree'
<1> SUFFICES ASSUME TurnsInv, Clean, WriteAll, c'.qst = "RECV_INIT_DB", slipped' = "no", wire' # <<>>
             PROVE  wire'[1].kind = "err" \/ srv'.db = c'.ask
  BY DEF Agree, Asked
<1>1. /\ busy /\ c.qst \in Sending /\ Serves /\ c'.qst = AfterSending(c.qst)
      /\ c'.ask = c.ask /\ slipped = "no"
  BY WriteDoes DEF TurnsInv, SameClient
<1>2. cmd \in 0 .. MaxCmd /\ srv \in ServerRec /\ wire \in Seq(Packet) /\ c.ask \in DbNames \cup {NoDb}
  BY Typed, ClientFields DEF TurnsInv
<1>3. c.qst = "SEND_INIT_DB"
  BY <1>1 DEF AfterSending, Sending
<1>4. c.call # "connect" /\ srv.request = "initdb"
  BY <1>1, <1>3 DEF TurnsInv, Turns, Handshake
<1>5. wire = <<>>
  BY <1>1 DEF Clean, UnderWay, Shaped
<1>6. CASE srv.up /\ ~srv.open
  <2>1. wire' = Append(wire, P("err"))
    BY <1>1, <1>4, <1>6 DEF Serves
  <2>2. P("err") \in Packet /\ P("err").kind = "err"
    BY <1>2, PTyped DEF Kinds
  <2> QED BY <1>5, <2>1, <2>2
<1>7. CASE ~srv.up
  BY <1>1, <1>5, <1>7 DEF Serves
<1>8. CASE srv.up /\ srv.open
  <2>1. PICK answer \in Answers("initdb") :
          /\ wire' = wire \o answer
          /\ srv' = IF answer # <<P("err")>> THEN [srv EXCEPT !.db = c.ask] ELSE srv
    BY <1>1, <1>4, <1>8 DEF Serves
  <2>2. /\ answer \in Seq(Packet) /\ answer[1].kind = "err" <=> answer = <<P("err")>>
    BY <1>2, InitDbAnswers
  <2>3. wire' = answer
    BY <1>2, <1>5, <2>1, <2>2, ConcatEmptySeq
  <2>4. CASE answer = <<P("err")>>
    BY <2>2, <2>3, <2>4
  <2>5. CASE answer # <<P("err")>>
    BY <1>1, <1>2, <2>1, <2>5 DEF ServerRec
  <2> QED BY <2>4, <2>5
<1> QED BY <1>6, <1>7, <1>8

LEMMA AgreeStep == TurnsInv /\ Clean /\ Agree /\ [WireNext]_vars => Agree'
<1> SUFFICES ASSUME TurnsInv, Clean, Agree, [WireNext]_vars PROVE Agree'
  OBVIOUS
<1>1. WireTypeOK
  BY DEF TurnsInv
<1>2. CASE Calls
  BY <1>2, AgreeCalls
<1>3. CASE SocketConnect \/ ConnCheck
  <2>1. c'.qst # "RECV_INIT_DB"
    BY <1>1, <1>3, SocketDoes, CheckDoes
  <2> QED BY <2>1 DEF Agree, Asked
<1>4. CASE WriteAll
  BY <1>4, AgreeWriteAll
<1>5. CASE WriteSome \/ WriteFails
  <2>1. c.qst \in Sending /\ c'.qst = c.qst
    BY <1>1, <1>5, WriteFailsDoes DEF WriteSome, Running, Want, Return
  <2> QED BY <2>1 DEF Agree, Asked, Sending
<1>6. CASE ReadHeader \/ ReadBody \/ LostInRows
  <2>1. c'.qst = c.qst /\ SameClient(c') /\ UNCHANGED <<busy, ret, srv, wire, slipped>>
    BY <1>1, <1>6, ReadPartDoes, LostInRowsDoes
  <2> QED BY <2>1, AgreeKept DEF SameClient, Asked, UnderWay
<1>7. CASE ReadWaits
  <2>1. busy /\ c'.qst = c.qst /\ c'.ask = c.ask /\ UNCHANGED <<srv, wire, slipped>>
    BY <1>1, <1>7, ReadWaitsDoes
  <2> QED BY <2>1, AgreeKept DEF Asked, UnderWay
<1>8. CASE ReadLost
  <2>1. ~busy' /\ ret' = "fail"
    BY <1>1, <1>8, ReadLostDoes
  <2> QED BY <2>1 DEF Agree, Asked, UnderWay
<1>9. CASE Decode
  <2>1. HasPacket
    BY <1>9, TurnsHasPacket
  <2>2. CASE GoingOn /\ Moves(Head(wire))
    BY <2>2 DEF Moves, Agree, Asked
  <2>3. CASE Ending \/ BreakingOff
    BY <2>3 DEF Ending, BreakingOff, Agree, Asked, UnderWay
  <2> QED BY <1>1, <1>9, <2>1, <2>2, <2>3, DecodeDoes
<1>10. CASE ServerGoes
  <2>1. UNCHANGED <<c, busy, ret, slipped>> /\ srv'.db = srv.db
    BY <1>1, <1>10, GoesDoes
  <2>2. PICK k \in 0 .. Len(wire) : wire' = SubSeq(wire, 1, k)
    BY <1>1, <1>10, GoesDoes
  <2>3. wire' # <<>> => wire # <<>> /\ wire'[1] = wire[1]
    <3>1. SUFFICES ASSUME wire' # <<>> PROVE wire # <<>> /\ wire'[1] = wire[1]
      OBVIOUS
    <3>2. /\ wire' \in Seq(Packet) /\ Len(wire') = k /\ wire \in Seq(Packet)
          /\ \A i \in 1 .. k : wire'[i] = wire[i]
      BY <1>1, <2>2, WirePrefix, Typed
    <3>3. Len(wire') # 0
      BY <3>1, <3>2, EmptySeq
    <3>4. k \in Nat /\ k >= 1 /\ Len(wire) >= 1
      BY <3>2, <3>3
    <3>5. wire # <<>>
      BY <3>4, EmptySeq
    <3> QED BY <3>2, <3>4, <3>5
  <2> QED BY <2>1, <2>3 DEF Agree, Asked, UnderWay
<1>11. CASE UNCHANGED vars
  BY <1>11, AgreeKept DEF vars, Asked, UnderWay
<1> QED BY <1>2, <1>3, <1>4, <1>5, <1>6, <1>7, <1>8, <1>9, <1>10, <1>11 DEF WireNext, Writes, Reads

\* When a switch ends well, the server has made that very switch, as long as no
\* packet of an earlier exchange was left behind.
THEOREM SwitchedAtServerCorrect == WireSpec => SwitchedAtServer
<1>1. TurnsInv /\ Agree /\ [WireNext]_vars =>
        [busy /\ ret' = "ok" /\ c.call = "database" /\ slipped = "no" => srv.db = c.ask]_vars
  <2> SUFFICES ASSUME TurnsInv, Agree, WireNext, busy, ret' = "ok", c.call = "database", slipped = "no"
               PROVE  srv.db = c.ask
    OBVIOUS
  <2>1. WireTypeOK /\ c.qst \in Receiving /\ wire # <<>> /\ Ends(Head(wire)) /\ Head(wire) = wire[1]
    BY EndsDecoding, WireHead
  <2>2. c.qst = "RECV_INIT_DB"
    <3>1. c.qst \in DatabaseSts
      BY <2>1, ClientFields DEF TurnsInv, Turns
    <3> QED BY <2>1, <3>1 DEF DatabaseSts, Receiving
  <2> QED BY <2>1, <2>2 DEF Ends, Agree, Asked, UnderWay
<1>2. WireSpec => []Agree
  BY AgreeInit, AgreeStep, CleanInvariant, PTL DEF WireSpec
<1> QED BY <1>1, <1>2, CleanInvariant, PTL DEF WireSpec, SwitchedAtServer
=============================================================================
