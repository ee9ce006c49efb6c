--------------------------- MODULE EsqlTextProofs ---------------------------
(***************************************************************************)
(* Proofs about the text of a query, for formats, arguments and texts of   *)
(* any length: most of it is induction along a sequence.                   *)
(***************************************************************************)
EXTENDS EsqlTextProps, FiniteSetTheorems, SequenceTheorems, WellFoundedInduction, TLAPS

----------------------------------------------------------------------------
(* Induction.  The library's induction theorem for Nat takes a predicate,  *)
(* which the provers cannot instantiate; that < is well-founded on Nat     *)
(* gives the same with a set.                                              *)

LEMMA LessPairs == OpToRel(<, Nat) = {ss \in Nat \X Nat : ss[1] < ss[2]}
BY DEF OpToRel

LEMMA Least ==
  ASSUME NEW T \in SUBSET Nat, T # {}
  PROVE  \E x \in T : \A y \in T : x <= y
<1> DEFINE R == {ss \in Nat \X Nat : ss[1] < ss[2]}
<1>1. IsWellFoundedOn(R, Nat)
      BY LessPairs, NatLessThanWellFounded
<1>2. \E x \in T : \A y \in T : ~ (<<y, x>> \in R)
      <2> HIDE DEF R
      <2> QED
          BY <1>1, WFMin
<1>3. PICK x \in T : \A y \in T : ~ (<<y, x>> \in R)
      BY <1>2
<1>4. ASSUME NEW y \in T PROVE x <= y
      <2>1. <<y, x>> \in Nat \X Nat /\ <<y, x>>[1] = y /\ <<y, x>>[2] = x
            OBVIOUS
      <2>2. QED
            BY <1>3, <2>1
<1>5. QED
      BY <1>4

\* What holds of 0, and of n + 1 whenever of n, holds up to any bound.
LEMMA UpTo ==
  ASSUME NEW N \in Nat, NEW S, 0 \in S, \A n \in 0 .. N - 1 : n \in S => n + 1 \in S
  PROVE  \A n \in 0 .. N : n \in S
<1> DEFINE T == {n \in 0 .. N : n \notin S}
<1> SUFFICES ASSUME T # {} PROVE FALSE
    OBVIOUS
<1>1. T \in SUBSET Nat
      OBVIOUS
<1>2. PICK x \in T : \A y \in T : x <= y
      <2> HIDE DEF T
      <2> QED
          BY <1>1, Least
<1>3. x # 0 /\ x \in 1 .. N /\ x - 1 \in 0 .. N - 1 /\ x - 1 \notin T
      BY <1>2
<1>4. x - 1 \in S /\ x = (x - 1) + 1
      BY <1>3
<1>5. QED
      BY <1>2, <1>3, <1>4

\* A function given by its first value and by how each value follows from the last.
IsIterated(V, first, N, next, g) ==
  /\ g \in [0 .. N -> V]
  /\ g[0] = first
  /\ \A k \in 0 .. N - 1 : g[k + 1] = next[<<k, g[k]>>]

LEMMA Iterates ==
  ASSUME NEW V, NEW first, NEW N, NEW next,
         first \in V, N \in Nat, next \in [(0 .. N - 1) \X V -> V]
  PROVE  \E g : IsIterated(V, first, N, next, g)
<1> DEFINE Is(n, g) == g[0] = first /\ \A k \in 0 .. n - 1 : g[k + 1] = next[<<k, g[k]>>]
           S == {n \in 0 .. N : \E g \in [0 .. n -> V] : Is(n, g)}
<1>1. 0 \in S
      <2> DEFINE g == [k \in 0 .. 0 |-> first]
      <2>1. g \in [0 .. 0 -> V] /\ Is(0, g)
            OBVIOUS
      <2>2. 0 \in 0 .. N
            OBVIOUS
      <2>3. QED
            <3> HIDE DEF g, Is
            <3> QED
                BY <2>1, <2>2
<1>2. ASSUME NEW n \in 0 .. N - 1, n \in S
      PROVE  n + 1 \in S
      <2>1. PICK g \in [0 .. n -> V] : Is(n, g)
            BY <1>2
      <2> DEFINE h == [k \in 0 .. n + 1 |-> IF k <= n THEN g[k] ELSE next[<<n, g[n]>>]]
      <2>2. <<n, g[n]>> \in (0 .. N - 1) \X V
            BY <2>1
      <2>3. next[<<n, g[n]>>] \in V
            BY <2>2
      <2>4. h \in [0 .. n + 1 -> V]
            BY <2>3
      <2>5. h[0] = first
            BY <2>1
      <2>6. ASSUME NEW k \in 0 .. n PROVE h[k + 1] = next[<<k, h[k]>>]
            BY <2>1, <2>6
      <2>7. QED
            <3>1. Is(n + 1, h)
                  <4> HIDE DEF h
                  <4> QED
                      BY <2>5, <2>6
            <3>2. n + 1 \in 0 .. N
                  OBVIOUS
            <3>3. QED
                  <4> HIDE DEF h, Is
                  <4> QED
                      BY <2>4, <3>1, <3>2
<1>3. N \in S
      <2> HIDE DEF S
      <2> QED
          BY <1>1, <1>2, UpTo
<1>4. QED
      BY <1>3 DEF IsIterated

----------------------------------------------------------------------------
(* FlattenSeq *)

\* It is what is had when each sequence is appended to the ones before it.
LEMMA Flattened ==
  ASSUME NEW V, NEW seqs \in Seq(Seq(V))
  PROVE  \E g \in [0 .. Len(seqs) -> Seq(V)] :
           /\ g[0] = <<>>
           /\ \A k \in 0 .. Len(seqs) - 1 : g[k + 1] = g[k] \o seqs[k + 1]
           /\ FlattenSeq(seqs) = g[Len(seqs)]
<1> DEFINE N == Len(seqs)
           next == [kv \in (0 .. N - 1) \X Seq(V) |-> kv[2] \o seqs[kv[1] + 1]]
           Is(h) == h = [i \in 1 .. N |-> IF i = 1 THEN seqs[i] ELSE h[i - 1] \o seqs[i]]
<1>1. N \in Nat /\ \A k \in 1 .. N : seqs[k] \in Seq(V)
      OBVIOUS
<1>2. next \in [(0 .. N - 1) \X Seq(V) -> Seq(V)]
      <2>1. ASSUME NEW kv \in (0 .. N - 1) \X Seq(V)
            PROVE  kv[2] \o seqs[kv[1] + 1] \in Seq(V)
            <3>1. kv[1] + 1 \in 1 .. N /\ kv[2] \in Seq(V)
                  BY <1>1
            <3>2. seqs[kv[1] + 1] \in Seq(V)
                  BY <1>1, <3>1
            <3>3. QED
                  BY <3>1, <3>2
      <2>2. QED
            BY <2>1
<1>3. PICK g \in [0 .. N -> Seq(V)] :
        g[0] = <<>> /\ \A k \in 0 .. N - 1 : g[k + 1] = next[<<k, g[k]>>]
      <2>1. <<>> \in Seq(V)
            OBVIOUS
      <2>2. PICK g : IsIterated(Seq(V), <<>>, N, next, g)
            <3> HIDE DEF next, N
            <3> QED
                BY <1>1, <1>2, <2>1, Iterates
      <2>3. QED
            BY <2>2 DEF IsIterated
<1>4. ASSUME NEW k \in 0 .. N - 1
      PROVE  g[k + 1] = g[k] \o seqs[k + 1]
      <2>1. g[k] \in Seq(V) /\ <<k, g[k]>> \in (0 .. N - 1) \X Seq(V)
            BY <1>1, <1>3
      <2>2. QED
            BY <1>3, <2>1
<1>5. CASE N = 0
      <2>1. FlattenSeq(seqs) = <<>>
            BY <1>5 DEF FlattenSeq
      <2>2. QED
            BY <1>3, <1>4, <1>5, <2>1
<1>6. CASE N # 0
      <2> DEFINE h0 == [i \in 1 .. N |-> g[i]]
                 h == CHOOSE f : Is(f)
      <2>1. Is(h0)
            <3>1. ASSUME NEW i \in 1 .. N
                  PROVE  g[i] = IF i = 1 THEN seqs[i] ELSE h0[i - 1] \o seqs[i]
                  <4>1. i - 1 \in 0 .. N - 1 /\ (i - 1) + 1 = i
                        BY <1>1
                  <4>2. g[i] = g[i - 1] \o seqs[i]
                        BY <1>4, <4>1
                  <4>3. seqs[i] \in Seq(V)
                        BY <1>1
                  <4>4. <<>> \o seqs[i] = seqs[i]
                        BY <4>3
                  <4>5. i # 1 => h0[i - 1] = g[i - 1]
                        BY <1>1
                  <4>6. CASE i = 1
                        <5>1. i - 1 = 0
                              BY <4>6
                        <5>2. g[i - 1] = <<>>
                              BY <1>3, <5>1
                        <5>3. g[i] = seqs[i]
                              BY <4>2, <4>4, <5>2
                        <5>4. QED
                              BY <4>6, <5>3
                  <4>7. CASE i # 1
                        BY <4>2, <4>5, <4>7
                  <4>8. QED
                        BY <4>6, <4>7
            <3>2. QED
                  BY <3>1
      <2>2. Is(h)
            <3> HIDE DEF Is, h0
            <3> SUFFICES \E f : Is(f)
                OBVIOUS
            <3> QED
                BY <2>1
      <2>3. FlattenSeq(seqs) = h[N]
            BY <1>6 DEF FlattenSeq
      <2> HIDE DEF h
      <2> DEFINE S == {k \in 0 .. N : k # 0 => h[k] = g[k]}
      <2>4. \A k \in 0 .. N : k \in S
            <3>1. 0 \in S
                  BY <1>1
            <3>2. ASSUME NEW k \in 0 .. N - 1, k \in S
                  PROVE  k + 1 \in S
                  <4>1. k + 1 \in 1 .. N
                        BY <1>1
                  <4>2. h[k + 1] = IF k + 1 = 1 THEN seqs[k + 1] ELSE h[(k + 1) - 1] \o seqs[k + 1]
                        BY <2>2, <4>1
                  <4>3. h[k + 1] = IF k = 0 THEN seqs[1] ELSE h[k] \o seqs[k + 1]
                        BY <4>2
                  <4>4. seqs[1] = <<>> \o seqs[1]
                        BY <1>1, <1>6
                  <4>5. h[k + 1] = g[k] \o seqs[k + 1]
                        <5>1. CASE k = 0
                              <6>1. h[k + 1] = <<>> \o seqs[k + 1]
                                    BY <4>3, <4>4, <5>1
                              <6>2. g[k] = <<>>
                                    BY <1>3, <5>1
                              <6>3. QED
                                    BY <6>1, <6>2
                        <5>2. CASE k # 0
                              BY <3>2, <4>3, <5>2
                        <5>3. QED
                              BY <5>1, <5>2
                  <4>6. QED
                        <5>1. k + 1 \in 0 .. N
                              BY <1>1
                        <5>2. g[k + 1] = g[k] \o seqs[k + 1]
                              BY <1>4
                        <5>3. QED
                              BY <4>5, <5>1, <5>2
            <3>3. QED
                  <4> HIDE DEF S, N
                  <4> QED
                      BY <1>1, <3>1, <3>2, UpTo
      <2>5. h[N] = g[N]
            BY <1>1, <1>6, <2>4
      <2>6. QED
            BY <1>3, <1>4, <2>3, <2>5
<1>7. QED
      BY <1>5, <1>6

\* Where each sequence begins, and that it is there.
ArePlaces(seqs, at) ==
  LET whole == FlattenSeq(seqs)
  IN /\ at \in [0 .. Len(seqs) -> Nat]
     /\ at[0] = 0 /\ at[Len(seqs)] = Len(whole)
     /\ \A k \in 1 .. Len(seqs) :
          /\ at[k] = at[k - 1] + Len(seqs[k]) /\ at[k] <= Len(whole)
          /\ \A x \in 1 .. Len(seqs[k]) : whole[at[k - 1] + x] = seqs[k][x]

LEMMA Places ==
  ASSUME NEW V, NEW seqs \in Seq(Seq(V))
  PROVE  FlattenSeq(seqs) \in Seq(V) /\ \E at : ArePlaces(seqs, at)
<1> DEFINE N == Len(seqs)
           whole == FlattenSeq(seqs)
<1>1. PICK g \in [0 .. N -> Seq(V)] :
        /\ g[0] = <<>>
        /\ \A k \in 0 .. N - 1 : g[k + 1] = g[k] \o seqs[k + 1]
        /\ whole = g[N]
      BY Flattened
<1>2. N \in Nat /\ whole \in Seq(V) /\ \A k \in 1 .. N : seqs[k] \in Seq(V)
      <2>1. N \in Nat /\ N \in 0 .. N
            OBVIOUS
      <2>2. QED
            BY <1>1, <2>1
<1> DEFINE at == [k \in 0 .. N |-> Len(g[k])]
<1>3. \A k \in 0 .. N : at[k] = Len(g[k]) /\ at[k] \in Nat /\ g[k] \in Seq(V)
      BY <1>1
<1>4. at \in [0 .. N -> Nat] /\ at[0] = 0 /\ at[N] = Len(whole)
      <2>1. 0 \in 0 .. N /\ N \in 0 .. N
            BY <1>2
      <2>2. QED
            BY <1>1, <1>3, <2>1
<1>5. ASSUME NEW k \in 1 .. N
      PROVE  /\ k - 1 \in 0 .. N /\ k \in 0 .. N /\ at[k] = at[k - 1] + Len(seqs[k])
             /\ \A x \in 1 .. at[k - 1] : g[k][x] = g[k - 1][x]
             /\ \A x \in 1 .. Len(seqs[k]) : g[k][at[k - 1] + x] = seqs[k][x]
      <2>1. k - 1 \in 0 .. N - 1 /\ k - 1 \in 0 .. N /\ k \in 0 .. N /\ (k - 1) + 1 = k
            BY <1>2
      <2>2. g[k] = g[k - 1] \o seqs[k]
            BY <1>1, <2>1
      <2>3. g[k - 1] \in Seq(V) /\ seqs[k] \in Seq(V) /\ at[k] = Len(g[k]) /\ at[k - 1] = Len(g[k - 1])
            BY <1>2, <1>3, <2>1
      <2> HIDE DEF at
      <2>4. QED
            BY <2>1, <2>2, <2>3
<1> HIDE DEF at
\* What has been put together stays as it is.
<1>6. ASSUME NEW k \in 0 .. N
      PROVE  at[k] <= Len(whole) /\ \A x \in 1 .. at[k] : whole[x] = g[k][x]
      <2> DEFINE Kept(m) == at[m] <= Len(whole) /\ \A x \in 1 .. at[m] : whole[x] = g[m][x]
                 S == {n \in 0 .. N : Kept(N - n)}
      <2>1. 0 \in S
            <3>1. N - 0 = N /\ 0 \in 0 .. N
                  BY <1>2
            <3>2. Kept(N)
                  BY <1>1, <1>2, <1>4
            <3>3. QED
                  BY <3>1, <3>2
      <2>2. ASSUME NEW n \in 0 .. N - 1, n \in S
            PROVE  n + 1 \in S
            <3>1. N - n \in 1 .. N /\ (N - n) - 1 = N - (n + 1) /\ n + 1 \in 0 .. N /\ N - n \in 0 .. N
                  BY <1>2
            <3> DEFINE m == N - n
            <3>2. Kept(m)
                  BY <2>2
            <3>3. /\ m - 1 \in 0 .. N /\ at[m] = at[m - 1] + Len(seqs[m])
                  /\ \A x \in 1 .. at[m - 1] : g[m][x] = g[m - 1][x]
                  BY <1>5, <3>1
            <3>4. at[m - 1] \in Nat /\ Len(seqs[m]) \in Nat /\ at[m] \in Nat
                  <4>1. m \in 1 .. N /\ m \in 0 .. N
                        BY <3>1
                  <4> HIDE DEF m
                  <4>2. seqs[m] \in Seq(V)
                        BY <1>2, <4>1
                  <4>3. Len(seqs[m]) \in Nat
                        BY <4>2
                  <4>4. at[m - 1] \in Nat
                        BY <1>3, <3>3
                  <4>5. at[m] \in Nat
                        BY <1>3, <4>1
                  <4>6. QED
                        BY <4>3, <4>4, <4>5
            <3>5. Kept(m - 1)
                  <4> HIDE DEF m
                  <4>1. at[m - 1] <= at[m]
                        BY <3>3, <3>4
                  <4>2. Len(whole) \in Nat
                        BY <1>2
                  <4>3. at[m - 1] <= Len(whole)
                        BY <3>2, <3>4, <4>1, <4>2
                  <4>4. ASSUME NEW x \in 1 .. at[m - 1]
                        PROVE  whole[x] = g[m - 1][x]
                        <5>1. x \in 1 .. at[m]
                              BY <3>4, <4>1
                        <5>2. whole[x] = g[m][x]
                              BY <3>2, <5>1
                        <5>3. g[m][x] = g[m - 1][x]
                              BY <3>3
                        <5>4. QED
                              BY <5>2, <5>3
                  <4>5. QED
                        BY <4>3, <4>4
            <3>6. QED
                  BY <3>1, <3>5
      <2>3. N - k \in 0 .. N /\ N - (N - k) = k
            BY <1>2
      <2>4. N - k \in S
            <3> HIDE DEF S
            <3> QED
                BY <1>2, <2>1, <2>2, <2>3, UpTo
      <2>5. QED
            BY <2>3, <2>4
<1>7. ASSUME NEW k \in 1 .. N, NEW x \in 1 .. Len(seqs[k])
      PROVE  whole[at[k - 1] + x] = seqs[k][x]
      <2>1. k \in 0 .. N /\ k - 1 \in 0 .. N /\ at[k] = at[k - 1] + Len(seqs[k])
            BY <1>5
      <2>2. at[k - 1] \in Nat /\ Len(seqs[k]) \in Nat
            BY <1>2, <1>3, <2>1
      <2>3. at[k - 1] + x \in 1 .. at[k]
            BY <2>1, <2>2
      <2>4. whole[at[k - 1] + x] = g[k][at[k - 1] + x]
            BY <1>6, <2>1, <2>3
      <2>5. QED
            BY <1>5, <2>4
<1>8. ArePlaces(seqs, at)
      <2>1. \A k \in 1 .. N : at[k] = at[k - 1] + Len(seqs[k]) /\ at[k] <= Len(whole)
            BY <1>5, <1>6
      <2>2. QED
            BY <1>4, <1>7, <2>1 DEF ArePlaces
<1>9. QED
      BY <1>2, <1>8

----------------------------------------------------------------------------
(* The scan stays within the format *)

\* The invariant: InBounds, and that the state is the scan of a string.
Scanning ==
  /\ DOMAIN scan = {"server", "fmt", "backslashes", "p", "pp", "l", "at", "buf"}
  /\ scan.fmt \in Seq(FmtChars)
  /\ InBounds

\* The character after a '%' or 'l' is there if it is not the terminator.
LEMMA NotTheEnd ==
  ASSUME NEW fmt \in Seq(FmtChars), NEW i \in Nat, i >= 1, At(fmt, i) # "end"
  PROVE  i <= Len(fmt)
BY DEF At

LEMMA InitScanning == TextInit => Scanning
<1> SUFFICES ASSUME TextInit PROVE Scanning
    OBVIOUS
<1>1. PICK f \in BoundedSeq(FmtChars, MaxFmt), server \in Servers :
        scan = [server |-> server, fmt |-> f, backslashes |-> Passed(server),
                p |-> 1, pp |-> 1, l |-> 0, at |-> "copy", buf |-> <<>>]
      BY DEF TextInit
<1>2. f \in Seq(FmtChars)
      BY DEF BoundedSeq, SeqOf
<1>3. /\ DOMAIN scan = {"server", "fmt", "backslashes", "p", "pp", "l", "at", "buf"}
      /\ scan.fmt \in Seq(FmtChars)
      BY <1>1, <1>2
<1>4. InBounds
      <2>1. Len(f) \in Nat
            BY <1>2
      <2>2. QED
            BY <1>1, <2>1 DEF InBounds
<1>5. QED
      BY <1>3, <1>4 DEF Scanning

LEMMA StepScanning == Scanning /\ [TextNext]_tvars => Scanning'
<1> SUFFICES ASSUME Scanning, [TextNext]_tvars PROVE Scanning'
    OBVIOUS
<1> DEFINE N == Len(scan.fmt)
           Shape == DOMAIN scan = {"server", "fmt", "backslashes", "p", "pp", "l", "at", "buf"}
<1>1. Shape
      BY DEF Scanning
<1>2. N \in Nat /\ scan.fmt \in Seq(FmtChars) /\ scan.p \in 1 .. N + 1
      BY <1>1 DEF Scanning, InBounds
<1>3. ASSUME scan.at = "spec"
      PROVE  scan.pp \in Nat /\ 1 <= scan.pp /\ scan.p <= scan.pp /\ scan.pp <= N
      BY <1>1, <1>2, <1>3 DEF Scanning, InBounds
\* A conversion takes one character behind pp.
<1>4. ASSUME NEW c, Spec1(c), c # "end"
      PROVE  scan.pp + 1 <= N
      BY <1>2, <1>3, <1>4, NotTheEnd DEF Spec1
<1>5. ASSUME NEW b, scan' = [[scan EXCEPT !.buf = b] EXCEPT !.p = scan.pp + 2, !.at = "copy"],
             scan.at = "spec", scan.pp + 1 <= N
      PROVE  Scanning'
      <2>1. Shape'
            BY <1>1, <1>3, <1>5
      <2>2. scan'.fmt = scan.fmt /\ scan'.p = scan.pp + 2 /\ scan'.at = "copy"
            BY <1>1, <1>5
      <2>3. InBounds'
            BY <1>2, <1>3, <1>5, <2>2 DEF InBounds
      <2>4. QED
            BY <1>2, <2>1, <2>2, <2>3 DEF Scanning
<1>6. CASE Copy
      <2>1. PICK q \in scan.p .. N + 1 :
              scan' = [scan EXCEPT !.pp = q, !.l = 0, !.buf = @ \o Copied(q),
                                   !.at = IF q <= N THEN "spec" ELSE "done"]
            BY <1>6 DEF Copy
      <2>2. Shape'
            BY <1>1, <1>2, <2>1
      <2>3. /\ scan'.fmt = scan.fmt /\ scan'.p = scan.p /\ scan'.pp = q
            /\ scan'.at = IF q <= N THEN "spec" ELSE "done"
            BY <1>1, <2>1
      <2>4. InBounds'
            BY <1>2, <2>1, <2>3 DEF InBounds
      <2>5. QED
            BY <1>2, <2>2, <2>3, <2>4 DEF Scanning
<1>7. CASE Finish
      <2>1. scan' = [scan EXCEPT !.at = "done"]
            BY <1>7 DEF Finish
      <2>2. Shape' /\ scan'.fmt = scan.fmt /\ scan'.p = scan.p /\ scan'.at = "done"
            BY <1>1, <2>1
      <2>3. QED
            BY <1>2, <2>2 DEF Scanning, InBounds
<1>8. CASE Long
      <2>1. Spec1("l") /\ scan.l < 2 /\ scan' = [scan EXCEPT !.l = @ + 1, !.pp = @ + 1]
            BY <1>8 DEF Long
      <2>2. scan.at = "spec" /\ scan.pp + 1 <= N
            BY <1>4, <2>1 DEF Spec1
      <2>3. Shape' /\ scan'.fmt = scan.fmt /\ scan'.p = scan.p /\ scan'.pp = scan.pp + 1
            BY <1>1, <2>1
      <2>4. InBounds'
            BY <1>2, <1>3, <2>2, <2>3 DEF InBounds
      <2>5. QED
            BY <2>3, <2>4 DEF Scanning
<1>9. CASE Number
      <2>1. PICK c \in {"d", "f"} : Spec1(c)
            BY <1>9 DEF Number
      <2>2. scan.at = "spec" /\ scan.pp + 1 <= N
            BY <1>4, <2>1 DEF Spec1
      <2>3. scan' = [[scan EXCEPT !.buf = @ \o <<"7">>] EXCEPT !.p = scan.pp + 2, !.at = "copy"]
            BY <1>1, <1>9 DEF Number, Printed, Resumed
      <2>4. QED
            BY <1>5, <2>2, <2>3
<1>10. CASE NullText
      <2>1. Spec1("s")
            BY <1>10 DEF NullText
      <2>2. scan.at = "spec" /\ scan.pp + 1 <= N
            BY <1>4, <2>1 DEF Spec1
      <2>3. scan' = [[scan EXCEPT !.buf = scan.buf] EXCEPT !.p = scan.pp + 2, !.at = "copy"]
            BY <1>1, <1>10 DEF NullText, Resumed
      <2>4. QED
            BY <1>5, <2>2, <2>3
<1>11. CASE Text
      <2>1. PICK put : scan' = [scan EXCEPT !.buf = @ \o put, !.at = "failed"]
            BY <1>11 DEF Text
      <2>2. /\ Shape' /\ scan'.fmt = scan.fmt
            /\ scan'.p = scan.p /\ scan'.at = "failed"
            BY <1>1, <2>1
      <2>3. InBounds'
            BY <1>2, <2>2 DEF InBounds
      <2>4. QED
            BY <2>2, <2>3 DEF Scanning
<1>12. CASE Char
      <2>1. Spec1("c")
            BY <1>12 DEF Char
      <2>2. scan.at = "spec" /\ scan.pp + 1 <= N
            BY <1>4, <2>1 DEF Spec1
      <2>3. PICK put : scan' = Printed(put)
            BY <1>12 DEF Char
      <2>4. scan' = [[scan EXCEPT !.buf = scan.buf \o put] EXCEPT !.p = scan.pp + 2, !.at = "copy"]
            BY <1>1, <2>3 DEF Printed, Resumed
      <2>5. QED
            BY <1>5, <2>2, <2>4
<1>13. CASE Percent
      <2>1. Spec1("%") /\ scan' = Printed(<<"%">>)
            BY <1>13 DEF Percent
      <2>2. scan.at = "spec" /\ scan.pp + 1 <= N
            BY <1>4, <2>1 DEF Spec1
      <2>3. scan' = [[scan EXCEPT !.buf = scan.buf \o <<"%">>] EXCEPT !.p = scan.pp + 2, !.at = "copy"]
            BY <1>1, <2>1 DEF Printed, Resumed
      <2>4. QED
            BY <1>5, <2>2, <2>3
<1>14. CASE Bad
      <2>1. scan' = [scan EXCEPT !.at = "failed"]
            BY <1>14 DEF Bad
      <2>2. Shape' /\ scan'.fmt = scan.fmt /\ scan'.p = scan.p /\ scan'.at = "failed"
            BY <1>1, <2>1
      <2>3. InBounds'
            BY <1>2, <2>2 DEF InBounds
      <2>4. QED
            BY <2>2, <2>3 DEF Scanning
<1>15. CASE UNCHANGED tvars
      BY <1>15 DEF Scanning, InBounds, tvars
<1>16. QED
      BY <1>6, <1>7, <1>8, <1>9, <1>10, <1>11, <1>12, <1>13, <1>14, <1>15 DEF TextNext

(***************************************************************************)
(* esql_query_escape reads no character of a format behind its terminator, *)
(* for every format, every argument and both ways of escaping.             *)
(***************************************************************************)
THEOREM ScanInBounds == TextSpec => []InBounds
<1>1. Scanning => InBounds
      BY DEF Scanning
<1>2. QED
      BY InitScanning, StepScanning, <1>1, PTL DEF TextSpec

----------------------------------------------------------------------------
(* Escaping, and reading back what was escaped                             *)

Plain(t) == [text |-> t, next |-> FALSE]
Escaping(t) == [text |-> t, next |-> TRUE]
Readings(V) == [text : Seq(V), next : BOOLEAN]

LEMMA AreReadings ==
  ASSUME NEW V
  PROVE  /\ \A t \in Seq(V) : Escaping(t) \in Readings(V) /\ Plain(t) \in Readings(V)
         /\ \A b \in Readings(V) : \E t \in Seq(V) : b = Escaping(t) \/ b = Plain(t)
<1>1. ASSUME NEW t \in Seq(V)
      PROVE  Escaping(t) \in Readings(V) /\ Plain(t) \in Readings(V)
      BY DEF Plain, Escaping, Readings
<1>2. ASSUME NEW b \in Readings(V)
      PROVE  \E t \in Seq(V) : b = Escaping(t) \/ b = Plain(t)
      <2>1. b.text \in Seq(V) /\ b.next \in BOOLEAN /\ b = [text |-> b.text, next |-> b.next]
            BY DEF Readings
      <2>2. b.next = TRUE \/ b.next = FALSE
            BY <2>1
      <2>3. b = Escaping(b.text) \/ b = Plain(b.text)
            BY <2>1, <2>2 DEF Plain, Escaping
      <2>4. QED
            BY <2>1, <2>3
<1>3. QED
      BY <1>1, <1>2

\* What is read of a character after the one that escapes.
LEMMA ReadTaken ==
  ASSUME NEW backslashes \in BOOLEAN, NEW t, NEW c
  PROVE  ReadOn(backslashes, Escaping(t), c) =
           Plain(Append(t, IF backslashes
                             THEN IF c = "n" THEN "newline" ELSE IF c = "r" THEN "return" ELSE c
                             ELSE c))
<1> DEFINE read == CASE c = "n" /\ backslashes -> "newline"
                     [] c = "r" /\ backslashes -> "return"
                     [] OTHER -> c
<1>1. Escaping(t).next = TRUE /\ Escaping(t).text = t
      BY DEF Escaping
<1>2. ReadOn(backslashes, Escaping(t), c) = Plain(Append(t, read))
      BY <1>1 DEF ReadOn, Plain
<1>3. read = IF backslashes
               THEN IF c = "n" THEN "newline" ELSE IF c = "r" THEN "return" ELSE c
               ELSE c
      <2>1. CASE backslashes
            BY <2>1
      <2>2. CASE ~backslashes
            BY <2>2
      <2>3. QED
            BY <2>1, <2>2
<1>4. QED
      <2> HIDE DEF read
      <2> QED
          BY <1>2, <1>3

\* The character that escapes is not of the text, and any other is.
LEMMA ReadEscape ==
  ASSUME NEW backslashes \in BOOLEAN, NEW t, NEW c, c = IF backslashes THEN "backslash" ELSE "'"
  PROVE  ReadOn(backslashes, Plain(t), c) = Escaping(t)
<1>1. Plain(t).next = FALSE /\ Plain(t).text = t
      BY DEF Plain
<1>2. QED
      BY <1>1 DEF ReadOn, Escaping

LEMMA ReadOther ==
  ASSUME NEW backslashes \in BOOLEAN, NEW t, NEW c, c # IF backslashes THEN "backslash" ELSE "'"
  PROVE  ReadOn(backslashes, Plain(t), c) = Plain(Append(t, c))
<1>1. Plain(t).next = FALSE /\ Plain(t).text = t
      BY DEF Plain
<1>2. QED
      BY <1>1 DEF ReadOn, Plain

LEMMA UnescapedReads ==
  ASSUME NEW V, "newline" \in V, "return" \in V,
         NEW backslashes \in BOOLEAN, NEW s \in Seq(V)
  PROVE  \E g : /\ g[0] = Plain(<<>>)
                /\ \A i \in 1 .. Len(s) : g[i] = ReadOn(backslashes, g[i - 1], s[i])
                /\ Unescaped(backslashes, s) = g[Len(s)]
<1> DEFINE N == Len(s)
           first == [text |-> <<>>, next |-> FALSE]
           next == [kv \in (0 .. N - 1) \X Readings(V) |-> ReadOn(backslashes, kv[2], s[kv[1] + 1])]
           Is(h) == h = [i \in 0 .. N |->
                           IF i = 0 THEN first ELSE ReadOn(backslashes, h[i - 1], s[i])]
           h == CHOOSE f : Is(f)
<1>1. N \in Nat /\ \A k \in 1 .. N : s[k] \in V
      OBVIOUS
<1>2. ASSUME NEW b \in Readings(V), NEW c \in V
      PROVE  ReadOn(backslashes, b, c) \in Readings(V)
      <2>1. PICK t \in Seq(V) : b = Escaping(t) \/ b = Plain(t)
            BY AreReadings
      <2>2. PICK x \in V : x = IF backslashes
                                 THEN IF c = "n" THEN "newline" ELSE IF c = "r" THEN "return" ELSE c
                                 ELSE c
            OBVIOUS
      <2>3. /\ ReadOn(backslashes, Escaping(t), c) = Plain(Append(t, x))
            /\ \/ ReadOn(backslashes, Plain(t), c) = Escaping(t)
               \/ ReadOn(backslashes, Plain(t), c) = Plain(Append(t, c))
            <3>1. ReadOn(backslashes, Escaping(t), c) = Plain(Append(t, x))
                  BY <2>2, ReadTaken
            <3>2. CASE c = IF backslashes THEN "backslash" ELSE "'"
                  BY <3>1, <3>2, ReadEscape
            <3>3. CASE c # IF backslashes THEN "backslash" ELSE "'"
                  BY <3>1, <3>3, ReadOther
            <3>4. QED
                  BY <3>2, <3>3
      <2>4. Append(t, x) \in Seq(V) /\ Append(t, c) \in Seq(V)
            OBVIOUS
      <2>5. /\ ReadOn(backslashes, Escaping(t), c) \in Readings(V)
            /\ ReadOn(backslashes, Plain(t), c) \in Readings(V)
            <3>1. /\ Plain(Append(t, x)) \in Readings(V)
                  /\ Plain(Append(t, c)) \in Readings(V)
                  /\ Escaping(t) \in Readings(V)
                  BY <2>1, <2>4, AreReadings
            <3>2. QED
                  BY <2>3, <3>1
      <2>6. QED
            BY <2>1, <2>5
<1>3. PICK g : IsIterated(Readings(V), first, N, next, g)
      <2>1. first \in Readings(V)
            <3>1. first = Plain(<<>>)
                  BY DEF Plain, Escaping
            <3>2. <<>> \in Seq(V)
                  OBVIOUS
            <3>3. QED
                  BY <3>1, <3>2, AreReadings
      <2>2. ASSUME NEW kv \in (0 .. N - 1) \X Readings(V)
            PROVE  ReadOn(backslashes, kv[2], s[kv[1] + 1]) \in Readings(V)
            <3>1. kv[2] \in Readings(V) /\ kv[1] + 1 \in 1 .. N
                  BY <1>1
            <3>2. QED
                  BY <1>1, <1>2, <3>1
      <2>3. next \in [(0 .. N - 1) \X Readings(V) -> Readings(V)]
            BY <2>2
      <2>4. QED
            <3> HIDE DEF next, N, first
            <3> QED
                BY <1>1, <2>1, <2>3, Iterates
<1>4. ASSUME NEW k \in 1 .. N
      PROVE  g[k] = ReadOn(backslashes, g[k - 1], s[k])
      <2>1. k - 1 \in 0 .. N - 1 /\ (k - 1) + 1 = k
            BY <1>1
      <2>2. g[k - 1] \in Readings(V) /\ <<k - 1, g[k - 1]>> \in (0 .. N - 1) \X Readings(V)
            BY <1>1, <1>3, <2>1 DEF IsIterated
      <2>3. QED
            BY <1>3, <2>1, <2>2 DEF IsIterated
<1>5. Is(g)
      <2>1. ASSUME NEW i \in 0 .. N
            PROVE  g[i] = IF i = 0 THEN first ELSE ReadOn(backslashes, g[i - 1], s[i])
            <3>1. CASE i = 0
                  BY <1>3, <3>1 DEF IsIterated
            <3>2. CASE i # 0
                  BY <1>4, <3>2
            <3>3. QED
                  BY <3>1, <3>2
      <2>2. g = [i \in 0 .. N |-> g[i]]
            BY <1>3 DEF IsIterated
      <2>3. QED
            <3> HIDE DEF first
            <3> QED
                BY <2>1, <2>2
<1>6. Is(h)
      <2> HIDE DEF Is
      <2> QED
          BY <1>5
<1>7. Unescaped(backslashes, s) = h[N]
      BY DEF Unescaped
<1>8. h[0] = first /\ \A i \in 1 .. N : h[i] = ReadOn(backslashes, h[i - 1], s[i])
      <2> HIDE DEF h, first
      <2>1. 0 \in 0 .. N
            BY <1>1
      <2>2. h[0] = first
            BY <1>6, <2>1
      <2>3. ASSUME NEW i \in 1 .. N
            PROVE  h[i] = ReadOn(backslashes, h[i - 1], s[i])
            BY <1>1, <1>6
      <2>4. QED
            BY <2>2, <2>3
<1>9. QED
      <2>1. first = Plain(<<>>)
            BY DEF Plain, Escaping
      <2>2. QED
            <3> HIDE DEF h, first
            <3> QED
                BY <1>7, <1>8, <2>1
\* What one character is escaped as.
EscapedAs(backslashes, c) == IF backslashes THEN Slashed(c) ELSE Doubled(c)

\* The characters escaping deals with are among those of the text.
Alphabet(V) ==
  /\ "newline" \in V /\ "return" \in V /\ "backslash" \in V
  /\ "n" \in V /\ "r" \in V /\ "'" \in V

\* One character is escaped as itself, or as two that are read as it is.
LEMMA EscapedOne ==
  ASSUME NEW V, Alphabet(V), NEW backslashes \in BOOLEAN, NEW c \in V, NEW t \in Seq(V),
         NEW put, put = EscapedAs(backslashes, c)
  PROVE  /\ put \in Seq(V)
         /\ \/ Len(put) = 1 /\ ReadOn(backslashes, Plain(t), put[1]) = Plain(Append(t, c))
            \/ /\ Len(put) = 2
               /\ ReadOn(backslashes, Plain(t), put[1]) = Escaping(t)
               /\ ReadOn(backslashes, Escaping(t), put[2]) = Plain(Append(t, c))
<1>1. CASE ~backslashes
      <2>1. put = IF c = "'" THEN <<"'", "'">> ELSE <<c>>
            BY <1>1 DEF EscapedAs, Doubled
      <2>2. CASE c = "'"
            <3>1. put \in Seq(V) /\ Len(put) = 2 /\ put[1] = "'" /\ put[2] = "'" /\ "'" \in V
                  BY <2>1, <2>2 DEF Alphabet
            <3>2. ReadOn(backslashes, Plain(t), put[1]) = Escaping(t)
                  <4>1. put[1] = IF backslashes THEN "backslash" ELSE "'"
                        BY <1>1, <3>1
                  <4>2. QED
                        BY <4>1, ReadEscape
            <3>3. ReadOn(backslashes, Escaping(t), put[2]) = Plain(Append(t, c))
                  <4>1. ReadOn(backslashes, Escaping(t), c) = Plain(Append(t, c))
                        BY <1>1, ReadTaken
                  <4>2. put[2] = c
                        BY <2>2, <3>1
                  <4>3. QED
                        BY <4>1, <4>2
            <3>4. QED
                  BY <3>1, <3>2, <3>3
      <2>3. CASE c # "'"
            <3>1. put \in Seq(V) /\ Len(put) = 1 /\ put[1] = c
                  BY <2>1, <2>3
            <3>2. ReadOn(backslashes, Plain(t), put[1]) = Plain(Append(t, c))
                  <4>1. c # IF backslashes THEN "backslash" ELSE "'"
                        BY <1>1, <2>3
                  <4>2. ReadOn(backslashes, Plain(t), c) = Plain(Append(t, c))
                        BY <4>1, ReadOther
                  <4>3. put[1] = c
                        BY <3>1
                  <4>4. QED
                        BY <4>2, <4>3
            <3>3. QED
                  BY <3>1, <3>2
      <2>4. QED
            BY <2>2, <2>3
<1>2. CASE backslashes
      <2>1. put = Slashed(c)
            BY <1>2 DEF EscapedAs
      <2>2. ASSUME NEW x \in V, put = <<"backslash", x>>,
                   (IF x = "n" THEN "newline" ELSE IF x = "r" THEN "return" ELSE x) = c
            PROVE  /\ put \in Seq(V) /\ Len(put) = 2
                   /\ ReadOn(backslashes, Plain(t), put[1]) = Escaping(t)
                   /\ ReadOn(backslashes, Escaping(t), put[2]) = Plain(Append(t, c))
            <3>1. put \in Seq(V) /\ Len(put) = 2 /\ put[1] = "backslash" /\ put[2] = x /\ "backslash" \in V
                  BY <2>2 DEF Alphabet
            <3>2. ReadOn(backslashes, Plain(t), put[1]) = Escaping(t)
                  <4>1. put[1] = IF backslashes THEN "backslash" ELSE "'"
                        BY <1>2, <3>1
                  <4>2. QED
                        BY <4>1, ReadEscape
            <3>3. ReadOn(backslashes, Escaping(t), put[2]) = Plain(Append(t, c))
                  <4>1. ReadOn(backslashes, Escaping(t), x) = Plain(Append(t, c))
                        <5>1. ReadOn(backslashes, Escaping(t), x) =
                                Plain(Append(t, IF backslashes
                                        THEN IF x = "n" THEN "newline"
                                             ELSE IF x = "r" THEN "return" ELSE x
                                        ELSE x))
                              BY ReadTaken
                        <5>2. QED
                              BY <1>2, <2>2, <5>1
                  <4>2. put[2] = x
                        BY <3>1
                  <4>3. QED
                        BY <4>1, <4>2
            <3>4. QED
                  BY <3>1, <3>2, <3>3
      <2>3. CASE c \in {"'", "backslash", "dquote"}
            <3>1. put = <<"backslash", c>> /\ c # "n" /\ c # "r"
                  BY <2>1, <2>3 DEF Slashed
            <3>2. QED
                  BY <2>2, <3>1
      <2>4. CASE c = "newline"
            <3>1. put = <<"backslash", "n">> /\ "n" \in V
                  BY <2>1, <2>4 DEF Slashed, Alphabet
            <3>2. QED
                  BY <2>2, <2>4, <3>1
      <2>5. CASE c = "return"
            <3>1. put = <<"backslash", "r">> /\ "r" \in V
                  BY <2>1, <2>5 DEF Slashed, Alphabet
            <3>2. QED
                  BY <2>2, <2>5, <3>1
      <2>6. CASE c \notin {"'", "backslash", "dquote", "newline", "return"}
            <3>1. put = <<c>>
                  BY <2>1, <2>6 DEF Slashed
            <3>2. put \in Seq(V) /\ Len(put) = 1 /\ put[1] = c
                  BY <3>1
            <3>3. ReadOn(backslashes, Plain(t), put[1]) = Plain(Append(t, c))
                  <4>1. c # IF backslashes THEN "backslash" ELSE "'"
                        BY <1>2, <2>6
                  <4>2. ReadOn(backslashes, Plain(t), c) = Plain(Append(t, c))
                        BY <4>1, ReadOther
                  <4>3. put[1] = c
                        BY <3>2
                  <4>4. QED
                        BY <4>2, <4>3
            <3>4. QED
                  BY <3>2, <3>3
      <2>7. QED
            BY <2>3, <2>4, <2>5, <2>6
<1>3. QED
      BY <1>1, <1>2

\* What is escaped is read back as it was, and takes at most two characters for each.
LEMMA EscapedReadsBack ==
  ASSUME NEW V, Alphabet(V), NEW backslashes \in BOOLEAN, NEW raw \in Seq(V)
  PROVE  /\ Escaped(backslashes, raw) \in Seq(V)
         /\ Unescaped(backslashes, Escaped(backslashes, raw)) = [text |-> raw, next |-> FALSE]
         /\ Len(Escaped(backslashes, raw)) <= 2 * Len(raw)
<1> DEFINE N == Len(raw)
           pieces == [i \in DOMAIN raw |-> IF backslashes THEN Slashed(raw[i]) ELSE Doubled(raw[i])]
           s == Escaped(backslashes, raw)
<1>1. N \in Nat /\ DOMAIN raw = 1 .. N /\ \A k \in 1 .. N : raw[k] \in V
      OBVIOUS
<1>2. ASSUME NEW k \in 1 .. N
      PROVE  pieces[k] = EscapedAs(backslashes, raw[k])
      BY <1>1 DEF EscapedAs
<1>3. pieces \in Seq(Seq(V)) /\ Len(pieces) = N
      <2>1. ASSUME NEW k \in 1 .. N
            PROVE  pieces[k] \in Seq(V)
            <3>1. <<>> \in Seq(V) /\ raw[k] \in V
                  BY <1>1
            <3>2. EscapedAs(backslashes, raw[k]) \in Seq(V)
                  BY <3>1, EscapedOne
            <3>3. QED
                  <4> HIDE DEF pieces
                  <4> QED
                      BY <1>2, <3>2
      <2>2. pieces = [k \in 1 .. N |-> pieces[k]]
            BY <1>1
      <2>3. QED
            <3> HIDE DEF pieces
            <3> QED
                BY <1>1, <2>1, <2>2
<1>4. s = FlattenSeq(pieces)
      BY DEF Escaped
<1> HIDE DEF pieces
<1>5. PICK at : s \in Seq(V) /\ ArePlaces(pieces, at)
      <2> HIDE DEF s
      <2> QED
          BY <1>3, <1>4, Places
<1>6. /\ at \in [0 .. N -> Nat] /\ at[0] = 0 /\ at[N] = Len(s)
      /\ \A k \in 1 .. N :
           /\ at[k] = at[k - 1] + Len(pieces[k]) /\ at[k] <= Len(s)
           /\ \A x \in 1 .. Len(pieces[k]) : s[at[k - 1] + x] = pieces[k][x]
      BY <1>3, <1>4, <1>5 DEF ArePlaces
<1> HIDE DEF s
<1>7. PICK g : /\ g[0] = Plain(<<>>)
               /\ \A i \in 1 .. Len(s) : g[i] = ReadOn(backslashes, g[i - 1], s[i])
               /\ Unescaped(backslashes, s) = g[Len(s)]
      BY <1>5, UnescapedReads DEF Alphabet
<1> DEFINE Before(k) == SubSeq(raw, 1, k)
           S == {k \in 0 .. N : g[at[k]] = Plain(Before(k)) /\ at[k] <= 2 * k}
<1>8. 0 \in S
      <2>1. Before(0) = <<>> /\ 0 \in 0 .. N
            BY <1>1
      <2>2. QED
            <3> HIDE DEF Before
            <3> QED
                BY <1>6, <1>7, <2>1
<1>9. ASSUME NEW k \in 0 .. N - 1, k \in S
      PROVE  k + 1 \in S
      <2> DEFINE m == k + 1
                 put == pieces[m]
      <2>1. m \in 1 .. N /\ m - 1 = k /\ k \in 0 .. N /\ m \in 0 .. N
            BY <1>1
      <2>2. Before(k) \in Seq(V) /\ raw[m] \in V /\ Before(m) = Append(Before(k), raw[m])
            BY <1>1, <2>1
      <2>3. g[at[k]] = Plain(Before(k)) /\ at[k] <= 2 * k
            BY <1>9
      <2> HIDE DEF Before
      <2>4. at[k] \in Nat /\ at[m] = at[k] + Len(put) /\ at[m] <= Len(s) /\ Len(s) \in Nat
            <3>1. at[k] \in Nat
                  BY <1>6, <2>1
            <3>2. Len(s) \in Nat
                  BY <1>5
            <3>3. QED
                  <4> HIDE DEF m
                  <4> QED
                      BY <1>6, <2>1, <3>1, <3>2
      <2>5. \A x \in 1 .. Len(put) : s[at[k] + x] = put[x]
            <3> HIDE DEF m
            <3> QED
                BY <1>6, <2>1
      <2>6. put = EscapedAs(backslashes, raw[m])
            <3> HIDE DEF m
            <3> QED
                BY <1>2, <2>1
      <2>11. k \in Nat /\ m = k + 1
            BY <1>1
      <2> HIDE DEF put, m
      <2>7. \/ /\ Len(put) = 1
               /\ ReadOn(backslashes, Plain(Before(k)), put[1]) = Plain(Before(m))
            \/ /\ Len(put) = 2
               /\ ReadOn(backslashes, Plain(Before(k)), put[1]) = Escaping(Before(k))
               /\ ReadOn(backslashes, Escaping(Before(k)), put[2]) = Plain(Before(m))
            BY <2>2, <2>6, EscapedOne
      <2>8. CASE Len(put) = 1
            <3>1. at[k] + 1 \in 1 .. Len(s) /\ (at[k] + 1) - 1 = at[k] /\ at[m] = at[k] + 1 /\ 1 \in 1 .. Len(put)
                  BY <2>4, <2>8
            <3>2. g[at[k] + 1] = ReadOn(backslashes, g[at[k]], put[1])
                  BY <1>7, <2>5, <3>1
            <3>3. g[at[m]] = Plain(Before(m))
                  BY <2>3, <2>7, <2>8, <3>1, <3>2
            <3>4. at[m] <= 2 * m
                  <4>1. at[m] = at[k] + 1 /\ at[k] \in Nat /\ at[k] <= 2 * k
                        BY <2>3, <2>4, <3>1
                  <4>2. QED
                        BY <2>11, <4>1
            <3>5. QED
                  BY <2>1, <3>3, <3>4 DEF m
      <2>9. CASE Len(put) = 2
            <3>1. /\ at[k] + 1 \in 1 .. Len(s) /\ (at[k] + 1) - 1 = at[k] /\ at[m] = at[k] + 2
                  /\ at[k] + 2 \in 1 .. Len(s) /\ (at[k] + 2) - 1 = at[k] + 1
                  /\ 1 \in 1 .. Len(put) /\ 2 \in 1 .. Len(put)
                  BY <2>4, <2>9
            <3>2. g[at[k] + 1] = ReadOn(backslashes, g[at[k]], put[1])
                  BY <1>7, <2>5, <3>1
            <3>3. g[at[k] + 2] = ReadOn(backslashes, g[at[k] + 1], put[2])
                  BY <1>7, <2>5, <3>1
            <3>4. g[at[m]] = Plain(Before(m))
                  BY <2>3, <2>7, <2>9, <3>1, <3>2, <3>3
            <3>5. at[m] <= 2 * m
                  <4>1. at[m] = at[k] + 2 /\ at[k] \in Nat /\ at[k] <= 2 * k
                        BY <2>3, <2>4, <3>1
                  <4>2. QED
                        BY <2>11, <4>1
            <3>6. QED
                  BY <2>1, <3>4, <3>5 DEF m
      <2>10. QED
            BY <2>7, <2>8, <2>9
<1>10. N \in S
      <2> HIDE DEF S
      <2>1. N \in 0 .. N
            BY <1>1
      <2>2. QED
            BY <1>1, <1>8, <1>9, <2>1, UpTo
<1>11. g[at[N]] = Plain(raw) /\ at[N] <= 2 * N
      <2>1. Before(N) = raw
            BY <1>1
      <2>2. QED
            BY <1>10, <2>1
<1>12. QED
      BY <1>5, <1>6, <1>7, <1>11 DEF s, Plain, Escaping

----------------------------------------------------------------------------
(* The conversions of a format *)

LEMMA LsIs ==
  ASSUME NEW fmt, NEW i \in Nat, NEW n \in 0 .. 2,
         \A k \in 1 .. n : At(fmt, i + k) = "l",
         n = 2 \/ At(fmt, i + n + 1) # "l"
  PROVE  Ls(fmt, i) = n
<1> DEFINE Has(m) == /\ \A k \in 1 .. m : At(fmt, i + k) = "l"
                     /\ m = 2 \/ At(fmt, i + m + 1) # "l"
<1>1. Has(n)
      OBVIOUS
<1>2. ASSUME NEW m \in 0 .. 2, Has(m), m < n
      PROVE  FALSE
      <2>1. m + 1 \in 1 .. n /\ i + m + 1 = i + (m + 1) /\ m # 2
            BY <1>2
      <2>2. QED
            BY <1>2, <2>1
<1>3. ASSUME NEW m \in 0 .. 2, Has(m), n < m
      PROVE  FALSE
      <2>1. n + 1 \in 1 .. m /\ i + n + 1 = i + (n + 1) /\ n # 2
            BY <1>3
      <2>2. QED
            BY <1>1, <1>3, <2>1
<1>4. Ls(fmt, i) = CHOOSE m \in 0 .. 2 : Has(m)
      BY DEF Ls
<1>5. \A m \in 0 .. 2 : Has(m) => m = n
      <2> HIDE DEF Has
      <2> QED
          BY <1>2, <1>3
<1>6. QED
      <2> HIDE DEF Has
      <2> QED
          BY <1>1, <1>4, <1>5

LEMMA LsType ==
  ASSUME NEW fmt, NEW i \in Nat
  PROVE  Ls(fmt, i) \in 0 .. 2 /\ AfterConv(fmt, i) \in i + 2 .. i + 4
<1>1. CASE At(fmt, i + 1) # "l"
      <2>1. Ls(fmt, i) = 0
            BY <1>1, LsIs
      <2>2. QED
            BY <2>1 DEF AfterConv
<1>2. CASE At(fmt, i + 1) = "l" /\ At(fmt, i + 2) # "l"
      <2>1. Ls(fmt, i) = 1
            <3>1. \A k \in 1 .. 1 : At(fmt, i + k) = "l"
                  BY <1>2
            <3>2. i + 1 + 1 = i + 2
                  OBVIOUS
            <3>3. QED
                  BY <1>2, <3>1, <3>2, LsIs
      <2>2. QED
            BY <2>1 DEF AfterConv
<1>3. CASE At(fmt, i + 1) = "l" /\ At(fmt, i + 2) = "l"
      <2>1. Ls(fmt, i) = 2
            <3>1. \A k \in 1 .. 2 : At(fmt, i + k) = "l"
                  BY <1>3
            <3>2. QED
                  BY <3>1, LsIs
      <2>2. QED
            BY <2>1 DEF AfterConv
<1>4. QED
      BY <1>1, <1>2, <1>3

\* How StartsFrom goes on from one place to the next.
LEMMA StartsStep ==
  ASSUME NEW fmt \in Seq(FmtChars)
  PROVE  \A i \in 1 .. Len(fmt) + 4 :
           StartsFrom(fmt, i) =
             IF i > Len(fmt) THEN {}
             ELSE IF fmt[i] # "%" THEN StartsFrom(fmt, i + 1)
             ELSE {i} \cup StartsFrom(fmt, AfterConv(fmt, i))
<1> DEFINE L == Len(fmt)
           N == L + 4
           Step(g, i) == IF i > L THEN {}
                         ELSE IF fmt[i] # "%" THEN g[i + 1]
                         ELSE {i} \cup g[AfterConv(fmt, i)]
           Is(g) == g = [i \in 1 .. N |-> Step(g, i)]
           Up(n, g) == /\ DOMAIN g = N - n .. N
                       /\ \A i \in N - n .. N : g[i] = Step(g, i)
           S == {n \in 0 .. N - 1 : \E g : Up(n, g)}
<1>1. L \in Nat /\ N \in Nat /\ N = L + 4
      OBVIOUS
<1>2. 0 \in S
      <2> DEFINE g == [i \in N .. N |-> {}]
      <2>1. DOMAIN g = N - 0 .. N /\ \A i \in N - 0 .. N : g[i] = {} /\ i > L
            BY <1>1
      <2>2. Up(0, g)
            <3> HIDE DEF g, N, L
            <3> QED
                BY <2>1
      <2>3. 0 \in 0 .. N - 1
            BY <1>1
      <2>4. QED
            <3> HIDE DEF g, Up
            <3> QED
                BY <2>2, <2>3
<1>3. ASSUME NEW n \in 0 .. (N - 1) - 1, n \in S
      PROVE  n + 1 \in S
      <2>1. PICK g : Up(n, g)
            BY <1>3
      <2> DEFINE m == N - (n + 1)
                 h == [i \in m .. N |-> IF i = m THEN Step(g, m) ELSE g[i]]
      <2>2. m \in 1 .. N - 1 /\ m + 1 = N - n /\ n + 1 \in 0 .. N - 1 /\ m \in Nat
            BY <1>1
      <2>3. ASSUME NEW i \in m .. N
            PROVE  h[i] = Step(h, i)
            <3>1. i \in Nat /\ i >= m /\ i <= N
                  BY <1>1, <2>2
            <3>2. AfterConv(fmt, i) \in i + 2 .. i + 4
                  BY <3>1, LsType
            <3>3. i <= L => i + 1 \in m + 1 .. N /\ AfterConv(fmt, i) \in m + 1 .. N
                  BY <1>1, <2>2, <3>1, <3>2
            <3>4. \A k \in m + 1 .. N : h[k] = g[k]
                  BY <1>1, <2>2
            <3>5. Step(h, i) = Step(g, i)
                  <4>1. CASE i > L
                        BY <4>1
                  <4>2. CASE i <= L
                        <5>1. h[i + 1] = g[i + 1] /\ h[AfterConv(fmt, i)] = g[AfterConv(fmt, i)]
                              <6> HIDE DEF h, m, N
                              <6> QED
                                  BY <3>3, <3>4, <4>2
                        <5>2. QED
                              <6> HIDE DEF h
                              <6> QED
                                  BY <5>1
                  <4>3. QED
                        BY <1>1, <3>1, <4>1, <4>2
            <3>6. CASE i = m
                  <4>1. h[i] = Step(g, m)
                        BY <3>6
                  <4>2. QED
                        <5> HIDE DEF h, m, Step
                        <5> QED
                            BY <3>5, <3>6, <4>1
            <3>7. CASE i # m
                  <4>1. i \in N - n .. N /\ h[i] = g[i]
                        BY <1>1, <2>2, <3>1, <3>7
                  <4>2. g[i] = Step(g, i)
                        <5> HIDE DEF h, m, Step, N
                        <5> QED
                            BY <2>1, <4>1
                  <4>3. QED
                        <5> HIDE DEF h, m, Step
                        <5> QED
                            BY <3>5, <4>1, <4>2
            <3>8. QED
                  BY <3>6, <3>7
      <2>4. DOMAIN h = m .. N
            OBVIOUS
      <2>5. Up(n + 1, h)
            <3> HIDE DEF h, Step
            <3> QED
                BY <2>3, <2>4
      <2>6. QED
            <3> HIDE DEF h, Up, m
            <3> QED
                BY <2>2, <2>5
<1>4. PICK g : Up(N - 1, g)
      <2>1. N - 1 \in Nat /\ N - 1 \in 0 .. N - 1
            BY <1>1
      <2>2. N - 1 \in S
            <3> HIDE DEF S, N
            <3> QED
                BY <1>2, <1>3, <2>1, UpTo
      <2>3. QED
            BY <2>2
<1> DEFINE h0 == [i \in 1 .. N |-> g[i]]
           h == CHOOSE f : Is(f)
<1>5. Is(h0)
      <2>1. N - (N - 1) = 1
            BY <1>1
      <2>2. \A i \in 1 .. N : g[i] = Step(g, i)
            <3> HIDE DEF Step
            <3> QED
                BY <1>4, <2>1
      <2>3. ASSUME NEW i \in 1 .. N
            PROVE  Step(g, i) = Step(h0, i)
            <3>1. AfterConv(fmt, i) \in i + 2 .. i + 4
                  BY <1>1, LsType
            <3>2. i <= L => i + 1 \in 1 .. N /\ AfterConv(fmt, i) \in 1 .. N
                  BY <1>1, <3>1
            <3>3. \A k \in 1 .. N : h0[k] = g[k]
                  OBVIOUS
            <3>4. QED
                  <4>1. CASE i > L
                        BY <4>1
                  <4>2. CASE i <= L
                        <5>1. h0[i + 1] = g[i + 1] /\ h0[AfterConv(fmt, i)] = g[AfterConv(fmt, i)]
                              <6> HIDE DEF h0, N
                              <6> QED
                                  BY <3>2, <3>3, <4>2
                        <5>2. QED
                              <6> HIDE DEF h0
                              <6> QED
                                  BY <5>1
                  <4>3. QED
                        BY <1>1, <4>1, <4>2
      <2>4. ASSUME NEW i \in 1 .. N PROVE g[i] = Step(h0, i)
            BY <2>2, <2>3
      <2>5. h0 = [i \in 1 .. N |-> Step(h0, i)]
            <3>1. h0 = [i \in 1 .. N |-> g[i]]
                  OBVIOUS
            <3>2. QED
                  <4> HIDE DEF h0, Step, N
                  <4> QED
                      BY <2>4, <3>1
      <2>6. QED
            BY <2>5
<1>6. Is(h)
      <2> HIDE DEF Is, h0
      <2> QED
          BY <1>5
<1>7. \A k : StartsFrom(fmt, k) = h[k]
      BY DEF StartsFrom
<1> HIDE DEF h
<1>8. QED
      BY <1>6, <1>7
\* The conversions from a place on lie there, and begin with a '%'.
LEMMA StartsRange ==
  ASSUME NEW fmt \in Seq(FmtChars), NEW k \in 1 .. Len(fmt) + 4
  PROVE  \A j \in StartsFrom(fmt, k) : j \in k .. Len(fmt) /\ fmt[j] = "%"
<1> DEFINE L == Len(fmt)
           N == L + 4
           Fine(i) == \A j \in StartsFrom(fmt, i) : j \in i .. L /\ fmt[j] = "%"
           S == {n \in 0 .. N - 1 : \A i \in N - n .. N : Fine(i)}
<1>1. L \in Nat /\ N \in Nat /\ N = L + 4
      OBVIOUS
<1>2. 0 \in S
      <2>1. Fine(N)
            <3>1. N \in 1 .. L + 4 /\ N > L
                  BY <1>1
            <3>2. StartsFrom(fmt, N) = {}
                  <4> HIDE DEF N
                  <4> QED
                      BY <3>1, StartsStep
            <3>3. QED
                  BY <3>2
      <2>2. N - 0 = N /\ 0 \in 0 .. N - 1 /\ \A i \in N .. N : i = N
            BY <1>1
      <2>3. QED
            <3> HIDE DEF Fine, N
            <3> QED
                BY <2>1, <2>2
<1>3. ASSUME NEW n \in 0 .. (N - 1) - 1, n \in S
      PROVE  n + 1 \in S
      <2> DEFINE m == N - (n + 1)
      <2>1. m \in 1 .. L + 4 /\ m + 1 = N - n /\ n + 1 \in 0 .. N - 1 /\ m \in Nat /\ m <= N
            BY <1>1
      <2>2. \A i \in m + 1 .. N : Fine(i)
            BY <1>3, <2>1
      <2>3. Fine(m)
            <3> HIDE DEF m
            <3>1. CASE m > L
                  <4>1. StartsFrom(fmt, m) = {}
                        BY <2>1, <3>1, StartsStep
                  <4>2. QED
                        BY <4>1
            <3>2. CASE m <= L /\ fmt[m] # "%"
                  <4>1. StartsFrom(fmt, m) = StartsFrom(fmt, m + 1)
                        BY <1>1, <2>1, <3>2, StartsStep
                  <4>2. m + 1 \in m + 1 .. N
                        BY <1>1, <2>1, <3>2
                  <4>3. \A j \in StartsFrom(fmt, m) : j \in m + 1 .. L /\ fmt[j] = "%"
                        BY <2>2, <4>1, <4>2
                  <4>4. \A j \in m + 1 .. L : j \in m .. L
                        BY <1>1, <2>1
                  <4>5. QED
                        BY <4>3, <4>4
            <3>3. CASE m <= L /\ fmt[m] = "%"
                  <4> DEFINE a == AfterConv(fmt, m)
                  <4>1. StartsFrom(fmt, m) = {m} \cup StartsFrom(fmt, a)
                        BY <1>1, <2>1, <3>3, StartsStep
                  <4>2. a \in m + 2 .. m + 4
                        BY <2>1, LsType
                  <4> HIDE DEF a
                  <4>3. a \in m + 1 .. N
                        BY <1>1, <2>1, <3>3, <4>2
                  <4>4. \A j \in StartsFrom(fmt, a) : j \in a .. L /\ fmt[j] = "%"
                        BY <2>2, <4>3
                  <4>5. \A j \in a .. L : j \in m .. L
                        BY <1>1, <2>1, <4>2
                  <4>6. m \in m .. L
                        BY <1>1, <2>1, <3>3
                  <4>7. QED
                        BY <3>3, <4>1, <4>4, <4>5, <4>6
            <3>4. QED
                  BY <1>1, <2>1, <3>1, <3>2, <3>3
      <2>4. \A i \in m .. N : i = m \/ i \in m + 1 .. N
            BY <1>1, <2>1
      <2>5. \A i \in m .. N : Fine(i)
            <3> HIDE DEF Fine, m, N
            <3> QED
                BY <2>2, <2>3, <2>4
      <2>6. QED
            BY <2>1, <2>5
<1>4. N - 1 \in S
      <2>1. N - 1 \in Nat /\ N - 1 \in 0 .. N - 1
            BY <1>1
      <2>2. QED
            <3> HIDE DEF S, N
            <3> QED
                BY <1>2, <1>3, <2>1, UpTo
<1>5. k \in N - (N - 1) .. N
      BY <1>1
<1>6. QED
      <2> HIDE DEF Fine, N
      <2>1. Fine(k)
            BY <1>4, <1>5
      <2>2. QED
            BY <2>1 DEF Fine

\* How RenderedTo goes on from one place to the next.
LEMMA RenderedStep ==
  ASSUME NEW fmt \in Seq(FmtChars), NEW puts
  PROVE  /\ RenderedTo(fmt, puts, 0) = [text |-> <<>>, n |-> 0]
         /\ \A i \in 1 .. Len(fmt) : RenderedTo(fmt, puts, i) = RenderOn(fmt, puts, RenderedTo(fmt, puts, i - 1), i)
<1> DEFINE L == Len(fmt)
           first == [text |-> <<>>, n |-> 0]
           Up(n, g) == g[0] = first /\ \A i \in 1 .. n : g[i] = RenderOn(fmt, puts, g[i - 1], i)
           S == {n \in 0 .. L : \E g : Up(n, g)}
           Is(h) == h = [i \in 0 .. L |-> IF i = 0 THEN first ELSE RenderOn(fmt, puts, h[i - 1], i)]
           h == CHOOSE f : Is(f)
<1>1. L \in Nat
      OBVIOUS
<1> HIDE DEF first
<1>2. 0 \in S
      <2> DEFINE g == [i \in 0 .. 0 |-> first]
      <2>1. Up(0, g) /\ 0 \in 0 .. L
            BY <1>1
      <2>2. QED
            <3> HIDE DEF g, Up
            <3> QED
                BY <2>1
<1>3. ASSUME NEW n \in 0 .. L - 1, n \in S
      PROVE  n + 1 \in S
      <2>1. PICK g : Up(n, g)
            BY <1>3
      <2> DEFINE f == [i \in 0 .. n + 1 |-> IF i = n + 1 THEN RenderOn(fmt, puts, g[n], n + 1) ELSE g[i]]
      <2>2. /\ f[0] = g[0] /\ f[n + 1] = RenderOn(fmt, puts, g[n], n + 1)
            /\ \A i \in 0 .. n : f[i] = g[i]
            OBVIOUS
      <2>3. ASSUME NEW i \in 1 .. n + 1
            PROVE  f[i] = RenderOn(fmt, puts, f[i - 1], i)
            <3> HIDE DEF f
            <3>1. CASE i = n + 1
                  <4>1. i - 1 = n /\ n \in 0 .. n
                        BY <3>1
                  <4>2. QED
                        BY <2>2, <3>1, <4>1
            <3>2. CASE i # n + 1
                  <4>1. i \in 1 .. n /\ i \in 0 .. n /\ i - 1 \in 0 .. n
                        BY <3>2
                  <4>2. QED
                        BY <2>1, <2>2, <4>1
            <3>3. QED
                  BY <3>1, <3>2
      <2>4. Up(n + 1, f)
            <3> HIDE DEF f
            <3> QED
                BY <2>1, <2>2, <2>3
      <2>5. n + 1 \in 0 .. L
            BY <1>1
      <2>6. QED
            <3> HIDE DEF f, Up
            <3> QED
                BY <2>4, <2>5
<1>4. PICK g : Up(L, g)
      <2>1. L \in S
            <3> HIDE DEF S, L
            <3>1. L \in 0 .. L
                  BY <1>1
            <3>2. QED
                  BY <1>1, <1>2, <1>3, <3>1, UpTo
      <2>2. QED
            BY <2>1
<1> DEFINE h0 == [i \in 0 .. L |-> g[i]]
<1>5. Is(h0)
      <2>1. ASSUME NEW i \in 0 .. L
            PROVE  g[i] = IF i = 0 THEN first ELSE RenderOn(fmt, puts, h0[i - 1], i)
            <3>1. CASE i = 0
                  BY <1>4, <3>1
            <3>2. CASE i # 0
                  <4>1. i \in 1 .. L /\ i - 1 \in 0 .. L
                        BY <1>1, <3>2
                  <4>2. h0[i - 1] = g[i - 1]
                        BY <4>1
                  <4>3. QED
                        <5> HIDE DEF h0
                        <5> QED
                            BY <1>4, <3>2, <4>1, <4>2
            <3>3. QED
                  BY <3>1, <3>2
      <2>2. h0 = [i \in 0 .. L |-> g[i]]
            OBVIOUS
      <2>3. QED
            <3> HIDE DEF h0, L
            <3> QED
                BY <2>1, <2>2
<1>6. Is(h)
      <2> HIDE DEF Is, h0
      <2> QED
          BY <1>5
<1>7. \A k : RenderedTo(fmt, puts, k) = h[k]
      BY DEF RenderedTo, first
<1> HIDE DEF h
<1>8. h[0] = first
      <2>1. 0 \in 0 .. L
            BY <1>1
      <2>2. QED
            BY <1>6, <2>1
<1>9. ASSUME NEW i \in 1 .. L
      PROVE  h[i] = RenderOn(fmt, puts, h[i - 1], i)
      <2>1. i \in 0 .. L /\ i # 0
            BY <1>1
      <2>2. QED
            BY <1>6, <2>1
<1>10. QED
      BY <1>7, <1>8, <1>9 DEF first

----------------------------------------------------------------------------
(* How far a scan has got *)

\* No conversion of the format is cut by place p.
Boundary(fmt, p) ==
  /\ StartsFrom(fmt, p) \subseteq Starts(fmt)
  /\ \A j \in Starts(fmt) : j \in StartsFrom(fmt, p) \/ AfterConv(fmt, j) <= p

\* The conversions before place p are known ones.
Sound(fmt, p) == \A j \in Starts(fmt) : j < p => Meaningful(fmt, j)

\* The conversions before place p have taken these arguments.
Taking(fmt, p) == {k \in Starts(fmt) : k < p /\ Conv(fmt, k) # "%"}
Placed(fmt, p, taken) ==
  /\ Cardinality(Taking(fmt, p)) = Len(taken)
  /\ \A i \in 1 .. Len(taken) : \E j \in Starts(fmt) :
       /\ Conv(fmt, j) = taken[i].conv /\ Ls(fmt, j) = taken[i].l
       /\ Cardinality({k \in Starts(fmt) : k <= j /\ Conv(fmt, k) # "%"}) = i

\* The format gives this text up to place p, whatever arguments follow.
Made(fmt, p, text, taken) ==
  \A puts : (\A i \in 1 .. Len(taken) : puts[i] = taken[i].put) =>
    RenderedTo(fmt, puts, p - 1) = [text |-> text, n |-> Len(taken)]

LEMMA StartsLie ==
  ASSUME NEW fmt \in Seq(FmtChars)
  PROVE  /\ \A j \in Starts(fmt) : /\ j \in 1 .. Len(fmt) /\ j \in Nat /\ fmt[j] = "%"
                                   /\ AfterConv(fmt, j) \in j + 2 .. j + 4
         /\ \A p \in 1 .. Len(fmt) + 1 : \A j \in StartsFrom(fmt, p) : j \in p .. Len(fmt)
<1>1. 1 \in 1 .. Len(fmt) + 4 /\ \A p \in 1 .. Len(fmt) + 1 : p \in 1 .. Len(fmt) + 4
      OBVIOUS
<1>2. \A p \in 1 .. Len(fmt) + 1 : \A j \in StartsFrom(fmt, p) : j \in p .. Len(fmt)
      BY <1>1, StartsRange
<1>3. ASSUME NEW j \in Starts(fmt)
      PROVE  j \in 1 .. Len(fmt) /\ j \in Nat /\ fmt[j] = "%" /\ AfterConv(fmt, j) \in j + 2 .. j + 4
      <2>1. j \in 1 .. Len(fmt) /\ j \in Nat /\ fmt[j] = "%"
            BY <1>1, StartsRange DEF Starts
      <2>2. QED
            BY <2>1, LsType
<1>4. QED
      BY <1>2, <1>3

\* Literal text holds no conversion.
LEMMA Literals ==
  ASSUME NEW fmt \in Seq(FmtChars), NEW p \in 1 .. Len(fmt) + 1, NEW q \in p .. Len(fmt) + 1,
         \A i \in p .. q - 1 : fmt[i] # "%"
  PROVE  StartsFrom(fmt, p) = StartsFrom(fmt, q)
<1> DEFINE S == {n \in 0 .. q - p : StartsFrom(fmt, p) = StartsFrom(fmt, p + n)}
<1>1. q - p \in Nat /\ p \in Nat /\ q \in Nat /\ Len(fmt) \in Nat
      OBVIOUS
<1>2. 0 \in S
      BY <1>1
<1>3. ASSUME NEW n \in 0 .. (q - p) - 1, n \in S
      PROVE  n + 1 \in S
      <2>1. p + n \in p .. q - 1 /\ p + n \in 1 .. Len(fmt) /\ p + n \in 1 .. Len(fmt) + 4
            BY <1>1
      <2>2. StartsFrom(fmt, p + n) = StartsFrom(fmt, (p + n) + 1)
            BY <2>1, StartsStep
      <2>3. (p + n) + 1 = p + (n + 1) /\ n + 1 \in 0 .. q - p
            BY <1>1
      <2>4. QED
            BY <1>3, <2>2, <2>3
<1>4. q - p \in S
      <2> HIDE DEF S
      <2>1. q - p \in 0 .. q - p
            BY <1>1
      <2>2. QED
            BY <1>1, <1>2, <1>3, <2>1, UpTo
<1>5. p + (q - p) = q
      BY <1>1
<1>6. QED
      BY <1>4, <1>5

LEMMA LiteralBoundary ==
  ASSUME NEW fmt \in Seq(FmtChars), NEW p \in 1 .. Len(fmt) + 1, NEW q \in p .. Len(fmt) + 1,
         \A i \in p .. q - 1 : fmt[i] # "%", Boundary(fmt, p)
  PROVE  /\ Boundary(fmt, q)
         /\ \A j \in Starts(fmt) : j < q => j < p
         /\ \A j \in Starts(fmt) : AfterConv(fmt, j) <= p \/ q <= j
<1>1. StartsFrom(fmt, p) = StartsFrom(fmt, q)
      BY Literals
<1>2. p \in Nat /\ q \in Nat /\ p <= q /\ q \in 1 .. Len(fmt) + 1
      OBVIOUS
<1>3. ASSUME NEW j \in Starts(fmt)
      PROVE  (j \in StartsFrom(fmt, q) /\ q <= j) \/ AfterConv(fmt, j) <= p
      <2>1. j \in StartsFrom(fmt, q) => j \in q .. Len(fmt)
            BY <1>2, StartsLie
      <2>2. j \in StartsFrom(fmt, q) \/ AfterConv(fmt, j) <= p
            BY <1>1 DEF Boundary
      <2>3. QED
            BY <1>2, <2>1, <2>2
<1>4. ASSUME NEW j \in Starts(fmt)
      PROVE  /\ j \in StartsFrom(fmt, q) \/ AfterConv(fmt, j) <= q
             /\ j < q => j < p
             /\ AfterConv(fmt, j) <= p \/ q <= j
      <2>1. j \in Nat /\ AfterConv(fmt, j) \in j + 2 .. j + 4
            BY StartsLie
      <2>2. QED
            BY <1>2, <1>3, <2>1
<1>5. QED
      BY <1>1, <1>4 DEF Boundary

LEMMA LiteralOn ==
  ASSUME NEW fmt \in Seq(FmtChars), NEW p \in 1 .. Len(fmt), NEW i \in p .. Len(fmt),
         \A x \in p .. i : fmt[x] # "%", Boundary(fmt, p), NEW puts, NEW b
  PROVE  RenderOn(fmt, puts, b, i) = [text |-> Append(b.text, fmt[i]), n |-> b.n]
<1>1. /\ p \in 1 .. Len(fmt) + 1 /\ i + 1 \in p .. Len(fmt) + 1 /\ (i + 1) - 1 = i
      /\ i \in Nat /\ p \in Nat /\ p <= i
      OBVIOUS
<1>2. \A j \in Starts(fmt) : AfterConv(fmt, j) <= p \/ i + 1 <= j
      BY <1>1, LiteralBoundary
<1>3. ASSUME NEW j \in Starts(fmt)
      PROVE  AfterConv(fmt, j) # i + 1 /\ i \notin j .. AfterConv(fmt, j) - 1
      <2>1. j \in Nat /\ AfterConv(fmt, j) \in j + 2 .. j + 4
            BY StartsLie
      <2>2. QED
            BY <1>1, <1>2, <2>1
<1>4. {j \in Starts(fmt) : AfterConv(fmt, j) = i + 1} = {}
      BY <1>3
<1>5. ~ \E j \in Starts(fmt) : i \in j .. AfterConv(fmt, j) - 1
      BY <1>3
<1>6. QED
      BY <1>4, <1>5 DEF RenderOn

\* A conversion ends where the scan goes on.
LEMMA ConversionBoundary ==
  ASSUME NEW fmt \in Seq(FmtChars), NEW b \in 1 .. Len(fmt), fmt[b] = "%",
         AfterConv(fmt, b) <= Len(fmt) + 1, Boundary(fmt, b)
  PROVE  /\ AfterConv(fmt, b) \in b + 2 .. Len(fmt) + 1
         /\ Boundary(fmt, AfterConv(fmt, b))
         /\ b \in Starts(fmt)
         /\ \A j \in Starts(fmt) : j = b \/ AfterConv(fmt, j) <= b \/ AfterConv(fmt, b) <= j
<1> DEFINE a == AfterConv(fmt, b)
<1>1. b \in Nat /\ Len(fmt) \in Nat /\ b \in 1 .. Len(fmt) + 4 /\ b \in 1 .. Len(fmt) + 1 /\ ~(b > Len(fmt))
      OBVIOUS
<1>2. a \in b + 2 .. b + 4 /\ a <= Len(fmt) + 1
      BY <1>1, LsType
<1>3. StartsFrom(fmt, b) = {b} \cup StartsFrom(fmt, a)
      BY <1>1, StartsStep
<1> HIDE DEF a
<1>4. a \in b + 2 .. Len(fmt) + 1 /\ a \in 1 .. Len(fmt) + 1 /\ a \in Nat /\ b <= a
      BY <1>1, <1>2
<1>5. \A j \in StartsFrom(fmt, a) : j \in a .. Len(fmt)
      BY <1>4, StartsLie
<1>6. b \in Starts(fmt) /\ StartsFrom(fmt, a) \subseteq Starts(fmt)
      BY <1>3 DEF Boundary
<1>7. ASSUME NEW j \in Starts(fmt)
      PROVE  /\ j \in StartsFrom(fmt, a) \/ AfterConv(fmt, j) <= a
             /\ j = b \/ AfterConv(fmt, j) <= b \/ a <= j
      <2>1. AfterConv(fmt, j) \in Nat /\ j \in Nat
            BY StartsLie
      <2>2. j \in {b} \cup StartsFrom(fmt, a) \/ AfterConv(fmt, j) <= b
            BY <1>3 DEF Boundary
      <2>3. CASE j = b
            BY <1>4, <2>3 DEF a
      <2>4. CASE j \in StartsFrom(fmt, a)
            BY <1>4, <1>5, <2>4
      <2>5. CASE AfterConv(fmt, j) <= b
            BY <1>1, <1>4, <2>1, <2>5
      <2>6. QED
            BY <2>2, <2>3, <2>4, <2>5
<1>8. Boundary(fmt, a)
      BY <1>6, <1>7 DEF Boundary
<1>9. QED
      BY <1>4, <1>6, <1>7, <1>8 DEF a

\* What the conversion at place b makes of the text and the number before it.
Converted(fmt, puts, r, b) ==
  IF Conv(fmt, b) = "%" THEN [text |-> r.text \o <<"%">>, n |-> r.n]
  ELSE [text |-> r.text \o puts[r.n + 1], n |-> r.n + 1]

LEMMA ConversionWithin ==
  ASSUME NEW fmt \in Seq(FmtChars), NEW b \in 1 .. Len(fmt), fmt[b] = "%",
         AfterConv(fmt, b) <= Len(fmt) + 1, Boundary(fmt, b), NEW puts, NEW r,
         NEW i \in b .. AfterConv(fmt, b) - 2
  PROVE  RenderOn(fmt, puts, r, i) = r
<1> DEFINE a == AfterConv(fmt, b)
<1>1. /\ a \in b + 2 .. Len(fmt) + 1 /\ b \in Starts(fmt) /\ a \in Nat /\ b \in Nat
      /\ \A j \in Starts(fmt) : j = b \/ AfterConv(fmt, j) <= b \/ a <= j
      BY ConversionBoundary
<1>2. ASSUME NEW j \in Starts(fmt)
      PROVE  AfterConv(fmt, j) # i + 1
      <2>1. j \in Nat /\ AfterConv(fmt, j) \in j + 2 .. j + 4
            BY StartsLie
      <2>2. j = b \/ AfterConv(fmt, j) <= b \/ a <= j
            BY <1>1
      <2>3. CASE j = b
            BY <1>1, <2>3
      <2>4. CASE AfterConv(fmt, j) <= b
            BY <1>1, <2>1, <2>4
      <2>5. CASE a <= j
            BY <1>1, <2>1, <2>5
      <2>6. QED
            BY <2>2, <2>3, <2>4, <2>5
<1>3. {j \in Starts(fmt) : AfterConv(fmt, j) = i + 1} = {}
      BY <1>2
<1>4. \E j \in Starts(fmt) : i \in j .. AfterConv(fmt, j) - 1
      BY <1>1
<1>5. QED
      BY <1>3, <1>4 DEF RenderOn

LEMMA ConversionOn ==
  ASSUME NEW fmt \in Seq(FmtChars), NEW b \in 1 .. Len(fmt), fmt[b] = "%",
         AfterConv(fmt, b) <= Len(fmt) + 1, Boundary(fmt, b), NEW puts, NEW r
  PROVE  RenderOn(fmt, puts, r, AfterConv(fmt, b) - 1) = Converted(fmt, puts, r, b)
<1> DEFINE a == AfterConv(fmt, b)
<1>1. /\ a \in b + 2 .. Len(fmt) + 1 /\ b \in Starts(fmt) /\ a \in Nat /\ b \in Nat
      /\ \A j \in Starts(fmt) : j = b \/ AfterConv(fmt, j) <= b \/ a <= j
      BY ConversionBoundary
<1>2. ASSUME NEW j \in Starts(fmt), AfterConv(fmt, j) = (a - 1) + 1
      PROVE  j = b
      <2>1. j \in Nat /\ AfterConv(fmt, j) \in j + 2 .. j + 4
            BY StartsLie
      <2>2. QED
            BY <1>1, <1>2, <2>1
<1>3. {j \in Starts(fmt) : AfterConv(fmt, j) = (a - 1) + 1} = {b}
      <2>1. AfterConv(fmt, b) = (a - 1) + 1
            BY <1>1
      <2>2. QED
            BY <1>1, <1>2, <2>1
<1>4. (CHOOSE j \in {b} : TRUE) = b
      OBVIOUS
<1>5. QED
      BY <1>3, <1>4 DEF RenderOn, Converted

LEMMA AppendLater ==
  ASSUME NEW V, NEW s \in Seq(V), NEW t \in Seq(V), NEW c \in V
  PROVE  s \o Append(t, c) = Append(s \o t, c)
<1>1. s \o Append(t, c) \in Seq(V) /\ Append(s \o t, c) \in Seq(V)
      OBVIOUS
<1>2. Len(s \o Append(t, c)) = Len(Append(s \o t, c))
      OBVIOUS
<1>3. \A i \in 1 .. Len(s \o Append(t, c)) : (s \o Append(t, c))[i] = Append(s \o t, c)[i]
      OBVIOUS
<1>4. QED
      BY <1>1, <1>2, <1>3, SeqEqual

LEMMA MadeLiteral ==
  ASSUME NEW fmt \in Seq(FmtChars), NEW p \in 1 .. Len(fmt) + 1, NEW q \in p .. Len(fmt) + 1,
         \A i \in p .. q - 1 : fmt[i] # "%", Boundary(fmt, p),
         NEW V, FmtChars \subseteq V, NEW text \in Seq(V), NEW taken, Made(fmt, p, text, taken)
  PROVE  Made(fmt, q, text \o SubSeq(fmt, p, q - 1), taken)
<1> SUFFICES ASSUME NEW puts, \A i \in 1 .. Len(taken) : puts[i] = taken[i].put
             PROVE  RenderedTo(fmt, puts, q - 1) = [text |-> text \o SubSeq(fmt, p, q - 1), n |-> Len(taken)]
    BY DEF Made
<1>1. q - p \in Nat /\ p \in Nat /\ q \in Nat /\ Len(fmt) \in Nat
      OBVIOUS
<1> DEFINE Run(n) == text \o SubSeq(fmt, p, p + n - 1)
           S == {n \in 0 .. q - p : RenderedTo(fmt, puts, p + n - 1) = [text |-> Run(n), n |-> Len(taken)]}
<1>2. 0 \in S
      <2>1. Run(0) = text /\ p + 0 - 1 = p - 1 /\ 0 \in 0 .. q - p
            <3>1. SubSeq(fmt, p, p + 0 - 1) = <<>>
                  BY <1>1
            <3>2. QED
                  BY <1>1, <3>1
      <2>2. RenderedTo(fmt, puts, p - 1) = [text |-> text, n |-> Len(taken)]
            BY DEF Made
      <2>3. QED
            <3> HIDE DEF Run
            <3> QED
                BY <2>1, <2>2
<1>3. ASSUME NEW n \in 0 .. (q - p) - 1, n \in S
      PROVE  n + 1 \in S
      <2> DEFINE i == p + n
      <2>1. /\ i \in p .. q - 1 /\ i \in 1 .. Len(fmt) /\ i \in p .. Len(fmt) /\ p \in 1 .. Len(fmt)
            /\ p + n - 1 = i - 1 /\ p + (n + 1) - 1 = i /\ n + 1 \in 0 .. q - p
            BY <1>1
      <2>2. RenderedTo(fmt, puts, i - 1) = [text |-> Run(n), n |-> Len(taken)]
            BY <1>3, <2>1
      <2>3. RenderedTo(fmt, puts, i) = RenderOn(fmt, puts, RenderedTo(fmt, puts, i - 1), i)
            BY <2>1, RenderedStep
      <2>4. \A x \in p .. i : fmt[x] # "%"
            BY <1>1, <2>1
      <2>5. RenderedTo(fmt, puts, i) = [text |-> Append(Run(n), fmt[i]), n |-> Len(taken)]
            <3> HIDE DEF Run, i
            <3>1. \A b : RenderOn(fmt, puts, b, i) = [text |-> Append(b.text, fmt[i]), n |-> b.n]
                  BY <2>1, <2>4, LiteralOn
            <3>2. QED
                  BY <2>2, <2>3, <3>1
      <2>6. Run(n + 1) = Append(Run(n), fmt[i])
            <3>1. SubSeq(fmt, p, i) = Append(SubSeq(fmt, p, i - 1), fmt[i])
                  <4> HIDE DEF i
                  <4> QED
                      BY <1>1, <2>1
            <3>2. SubSeq(fmt, p, i - 1) \in Seq(V) /\ fmt[i] \in V
                  <4>1. fmt \in Seq(V)
                        OBVIOUS
                  <4> HIDE DEF i
                  <4>2. QED
                        BY <1>1, <2>1, <4>1
            <3>3. text \o Append(SubSeq(fmt, p, i - 1), fmt[i]) = Append(text \o SubSeq(fmt, p, i - 1), fmt[i])
                  <4> DEFINE u == SubSeq(fmt, p, i - 1)
                             c == fmt[i]
                  <4>1. text \in Seq(V) /\ u \in Seq(V) /\ c \in V
                        BY <3>2
                  <4> HIDE DEF u, c
                  <4>2. QED
                        <5>1. text \o Append(u, c) = Append(text \o u, c)
                              BY <4>1, AppendLater
                        <5>2. QED
                              BY <5>1 DEF u, c
            <3>4. QED
                  <4> HIDE DEF i
                  <4> QED
                      BY <2>1, <3>1, <3>3
      <2>7. QED
            <3> HIDE DEF Run
            <3> QED
                BY <2>1, <2>5, <2>6
<1>4. q - p \in S
      <2> HIDE DEF S
      <2>1. q - p \in 0 .. q - p
            BY <1>1
      <2>2. QED
            BY <1>1, <1>2, <1>3, <2>1, UpTo
<1>5. p + (q - p) - 1 = q - 1
      BY <1>1
<1>6. QED
      BY <1>4, <1>5

LEMMA MadeConversion ==
  ASSUME NEW fmt \in Seq(FmtChars), NEW b \in 1 .. Len(fmt), fmt[b] = "%",
         AfterConv(fmt, b) <= Len(fmt) + 1, Boundary(fmt, b), NEW puts
  PROVE  RenderedTo(fmt, puts, AfterConv(fmt, b) - 1) = Converted(fmt, puts, RenderedTo(fmt, puts, b - 1), b)
<1> DEFINE a == AfterConv(fmt, b)
           r == RenderedTo(fmt, puts, b - 1)
           N == a - 1 - b
           S == {n \in 0 .. N : RenderedTo(fmt, puts, b + n - 1) = r}
<1>1. a \in b + 2 .. Len(fmt) + 1 /\ a \in Nat /\ b \in Nat /\ Len(fmt) \in Nat
      BY ConversionBoundary
<1>2. \A i \in b .. a - 2 : RenderOn(fmt, puts, r, i) = r
      BY ConversionWithin
<1>3. RenderOn(fmt, puts, r, a - 1) = Converted(fmt, puts, r, b)
      BY ConversionOn
<1> HIDE DEF a, r
<1>4. N \in Nat
      BY <1>1
<1>5. 0 \in S
      <2>1. b + 0 - 1 = b - 1 /\ 0 \in 0 .. N
            BY <1>1, <1>4
      <2>2. QED
            BY <2>1 DEF r
<1>6. ASSUME NEW n \in 0 .. N - 1, n \in S
      PROVE  n + 1 \in S
      <2>1. /\ b + n \in b .. a - 2 /\ b + n \in 1 .. Len(fmt) /\ (b + n) - 1 = b + n - 1
            /\ b + (n + 1) - 1 = b + n /\ n + 1 \in 0 .. N
            BY <1>1
      <2>2. RenderedTo(fmt, puts, b + n) = RenderOn(fmt, puts, RenderedTo(fmt, puts, (b + n) - 1), b + n)
            BY <2>1, RenderedStep
      <2>3. QED
            BY <1>2, <1>6, <2>1, <2>2
<1>7. N \in S
      <2> HIDE DEF S, N
      <2>1. N \in 0 .. N
            BY <1>4
      <2>2. QED
            BY <1>4, <1>5, <1>6, <2>1, UpTo
<1>8. b + N - 1 = (a - 1) - 1 /\ a - 1 \in 1 .. Len(fmt)
      BY <1>1
<1>9. RenderedTo(fmt, puts, a - 1) = RenderOn(fmt, puts, r, a - 1)
      <2>1. RenderedTo(fmt, puts, a - 1) = RenderOn(fmt, puts, RenderedTo(fmt, puts, (a - 1) - 1), a - 1)
            BY <1>8, RenderedStep
      <2>2. QED
            BY <1>7, <1>8, <2>1
<1>10. QED
      BY <1>3, <1>9 DEF a, r

\* A conversion that takes an argument is counted, any other is not.
LEMMA TakingFinite ==
  ASSUME NEW fmt \in Seq(FmtChars), NEW p
  PROVE  IsFiniteSet(Taking(fmt, p)) /\ Cardinality(Taking(fmt, p)) \in Nat
<1>1. Taking(fmt, p) \subseteq 1 .. Len(fmt)
      BY StartsLie DEF Taking
<1>2. Len(fmt) \in Int /\ 1 \in Int
      OBVIOUS
<1>3. IsFiniteSet(1 .. Len(fmt))
      BY <1>2, FS_Interval
<1>4. QED
      BY <1>1, <1>3, FS_Subset, FS_CardinalityType

LEMMA TakingConversion ==
  ASSUME NEW fmt \in Seq(FmtChars), NEW b \in 1 .. Len(fmt), fmt[b] = "%",
         NEW a, a = AfterConv(fmt, b), a <= Len(fmt) + 1, Boundary(fmt, b)
  PROVE  /\ \A j \in Starts(fmt) : j < a <=> j < b \/ j = b
         /\ Conv(fmt, b) = "%" => Taking(fmt, a) = Taking(fmt, b)
         /\ Conv(fmt, b) # "%" =>
              /\ Cardinality(Taking(fmt, a)) = Cardinality(Taking(fmt, b)) + 1
              /\ {k \in Starts(fmt) : k <= b /\ Conv(fmt, k) # "%"} = Taking(fmt, a)
<1>1. /\ a \in b + 2 .. Len(fmt) + 1 /\ b \in Starts(fmt) /\ a \in Nat /\ b \in Nat
      /\ \A j \in Starts(fmt) : j = b \/ AfterConv(fmt, j) <= b \/ a <= j
      BY ConversionBoundary
<1>2. ASSUME NEW j \in Starts(fmt)
      PROVE  /\ j < a <=> j < b \/ j = b
             /\ j <= b <=> j < b \/ j = b
      <2>1. j \in Nat /\ AfterConv(fmt, j) \in j + 2 .. j + 4
            BY StartsLie
      <2>2. j = b \/ AfterConv(fmt, j) <= b \/ a <= j
            BY <1>1
      <2>3. QED
            BY <1>1, <2>1, <2>2
<1>3. CASE Conv(fmt, b) = "%"
      <2>1. \A j \in Starts(fmt) : j < a /\ Conv(fmt, j) # "%" <=> j < b /\ Conv(fmt, j) # "%"
            BY <1>2, <1>3
      <2>2. QED
            BY <1>2, <1>3, <2>1 DEF Taking
<1>4. CASE Conv(fmt, b) # "%"
      <2>1. \A j \in Starts(fmt) : j < a /\ Conv(fmt, j) # "%" <=> j = b \/ (j < b /\ Conv(fmt, j) # "%")
            BY <1>2, <1>4
      <2>2. Taking(fmt, a) = Taking(fmt, b) \cup {b}
            BY <1>1, <2>1 DEF Taking
      <2>3. b \notin Taking(fmt, b)
            BY <1>1 DEF Taking
      <2>4. Cardinality(Taking(fmt, a)) = Cardinality(Taking(fmt, b)) + 1
            BY <2>2, <2>3, TakingFinite, FS_AddElement
      <2>5. {k \in Starts(fmt) : k <= b /\ Conv(fmt, k) # "%"} = Taking(fmt, a)
            BY <1>2 DEF Taking
      <2>6. QED
            BY <1>2, <1>4, <2>4, <2>5
<1>5. QED
      BY <1>3, <1>4

LEMMA PlacedConversion ==
  ASSUME NEW fmt \in Seq(FmtChars), NEW b \in 1 .. Len(fmt), fmt[b] = "%",
         NEW a, a = AfterConv(fmt, b), a <= Len(fmt) + 1, Boundary(fmt, b),
         NEW V, NEW taken \in Seq(V), Placed(fmt, b, taken),
         Conv(fmt, b) # "%", NEW arg \in V, arg.conv = Conv(fmt, b), arg.l = Ls(fmt, b)
  PROVE  Placed(fmt, a, Append(taken, arg))
<1> DEFINE n == Len(taken)
           more == Append(taken, arg)
<1>1. /\ n \in Nat /\ Len(more) = n + 1 /\ more[n + 1] = arg
      /\ \A i \in 1 .. n : more[i] = taken[i]
      OBVIOUS
<1>2. /\ Cardinality(Taking(fmt, a)) = n + 1
      /\ Cardinality({k \in Starts(fmt) : k <= b /\ Conv(fmt, k) # "%"}) = n + 1
      /\ b \in Starts(fmt)
      <2>1. b \in Starts(fmt)
            BY ConversionBoundary
      <2>2. Cardinality(Taking(fmt, a)) = Cardinality(Taking(fmt, b)) + 1
            BY TakingConversion
      <2>3. {k \in Starts(fmt) : k <= b /\ Conv(fmt, k) # "%"} = Taking(fmt, a)
            BY TakingConversion
      <2>4. Cardinality(Taking(fmt, b)) = n
            BY DEF Placed
      <2>5. QED
            BY <2>1, <2>2, <2>3, <2>4
<1> HIDE DEF n, more
<1>3. ASSUME NEW i \in 1 .. n + 1
      PROVE  \E j \in Starts(fmt) :
               /\ Conv(fmt, j) = more[i].conv /\ Ls(fmt, j) = more[i].l
               /\ Cardinality({k \in Starts(fmt) : k <= j /\ Conv(fmt, k) # "%"}) = i
      <2>1. CASE i = n + 1
            BY <1>1, <1>2, <2>1
      <2>2. CASE i # n + 1
            <3>1. i \in 1 .. n
                  BY <1>1, <2>2
            <3>2. QED
                  BY <1>1, <3>1 DEF Placed, n
      <2>3. QED
            BY <2>1, <2>2
<1>4. QED
      <2>1. Placed(fmt, a, more)
            BY <1>1, <1>2, <1>3 DEF Placed
      <2>2. QED
            BY <2>1 DEF more

\* The characters there are: every string is one, and so are those the code
\* writes itself.
Letter == STRING \cup FmtChars \cup {"7", "newline", "return", "backslash", "n", "r", "'"}

Taken == [conv : {"d", "f", "s", "c"}, l : 0 .. 2, raw : Seq(Letter), put : Seq(Letter)]
\* The scan has dealt with all there is before place p.
Progress(fmt, p, text, taken) ==
  /\ p \in 1 .. Len(fmt) + 1
  /\ Boundary(fmt, p) /\ Sound(fmt, p) /\ Placed(fmt, p, taken)
  /\ Spaced(fmt) => Made(fmt, p, text, taken)

LEMMA Characters ==
  /\ FmtChars \subseteq Letter /\ Alphabet(Letter) /\ "7" \in Letter /\ "%" \in Letter
  /\ Seq(STRING) \subseteq Seq(Letter) /\ STRING \subseteq Letter
<1>1. FmtChars \subseteq Letter /\ Alphabet(Letter) /\ "7" \in Letter /\ "%" \in Letter /\ STRING \subseteq Letter
      BY DEF FmtChars, Alphabet, Letter
<1> HIDE DEF Letter
<1>2. \A S : S \subseteq Letter => Seq(S) \subseteq Seq(Letter)
      OBVIOUS
<1>3. QED
      BY <1>1, <1>2

LEMMA ProgressLiteral ==
  ASSUME NEW fmt \in Seq(FmtChars), NEW p, NEW q \in p .. Len(fmt) + 1,
         \A i \in p .. q - 1 : fmt[i] # "%",
         NEW text \in Seq(Letter), NEW taken, Progress(fmt, p, text, taken),
         NEW made, Spaced(fmt) => made = text \o SubSeq(fmt, p, q - 1)
  PROVE  Progress(fmt, q, made, taken)
<1>1. p \in 1 .. Len(fmt) + 1 /\ q \in 1 .. Len(fmt) + 1
      BY DEF Progress
<1>2. Boundary(fmt, p) /\ Sound(fmt, p) /\ Placed(fmt, p, taken)
      BY DEF Progress
<1>3. Boundary(fmt, q) /\ \A j \in Starts(fmt) : j < q <=> j < p
      <2>1. Boundary(fmt, q) /\ \A j \in Starts(fmt) : j < q => j < p
            BY <1>1, <1>2, LiteralBoundary
      <2>2. \A j \in Starts(fmt) : j \in Nat
            BY StartsLie
      <2>3. QED
            BY <1>1, <2>1, <2>2
<1>4. Sound(fmt, q) /\ Taking(fmt, q) = Taking(fmt, p)
      BY <1>2, <1>3 DEF Sound, Taking
<1>5. Placed(fmt, q, taken)
      BY <1>2, <1>4 DEF Placed
<1>6. Spaced(fmt) => Made(fmt, q, made, taken)
      <2> SUFFICES ASSUME Spaced(fmt) PROVE Made(fmt, q, made, taken)
          OBVIOUS
      <2>1. Made(fmt, p, text, taken)
            BY DEF Progress
      <2>2. Made(fmt, q, text \o SubSeq(fmt, p, q - 1), taken)
            BY <1>1, <1>2, <2>1, Characters, MadeLiteral
      <2>3. QED
            BY <2>2
<1>7. QED
      BY <1>1, <1>3, <1>4, <1>5, <1>6 DEF Progress

LEMMA SoundConversion ==
  ASSUME NEW fmt \in Seq(FmtChars), NEW b \in 1 .. Len(fmt), fmt[b] = "%",
         AfterConv(fmt, b) <= Len(fmt) + 1, Boundary(fmt, b), Sound(fmt, b), Meaningful(fmt, b)
  PROVE  Sound(fmt, AfterConv(fmt, b))
<1>1. \A j \in Starts(fmt) : j < AfterConv(fmt, b) <=> j < b \/ j = b
      BY TakingConversion
<1>2. QED
      BY <1>1 DEF Sound

LEMMA ProgressPercent ==
  ASSUME NEW fmt \in Seq(FmtChars), NEW b \in 1 .. Len(fmt), fmt[b] = "%",
         AfterConv(fmt, b) <= Len(fmt) + 1, Conv(fmt, b) = "%", Meaningful(fmt, b),
         NEW text, NEW taken, Progress(fmt, b, text, taken)
  PROVE  Progress(fmt, AfterConv(fmt, b), text \o <<"%">>, taken)
<1> DEFINE a == AfterConv(fmt, b)
<1>1. Boundary(fmt, b) /\ Sound(fmt, b) /\ Placed(fmt, b, taken)
      BY DEF Progress
<1>2. a \in 1 .. Len(fmt) + 1 /\ Boundary(fmt, a)
      <2>1. a \in b + 2 .. Len(fmt) + 1 /\ Boundary(fmt, a)
            BY <1>1, ConversionBoundary
      <2>2. QED
            BY <2>1
<1>3. Sound(fmt, a)
      BY <1>1, SoundConversion
<1>4. Taking(fmt, a) = Taking(fmt, b)
      BY <1>1, TakingConversion
<1>5. Placed(fmt, a, taken)
      BY <1>1, <1>4 DEF Placed
<1>6. Spaced(fmt) => Made(fmt, a, text \o <<"%">>, taken)
      <2> SUFFICES ASSUME Spaced(fmt), NEW puts, \A i \in 1 .. Len(taken) : puts[i] = taken[i].put
                   PROVE  RenderedTo(fmt, puts, a - 1) = [text |-> text \o <<"%">>, n |-> Len(taken)]
          BY DEF Made
      <2>1. RenderedTo(fmt, puts, b - 1) = [text |-> text, n |-> Len(taken)]
            BY DEF Progress, Made
      <2>2. RenderedTo(fmt, puts, a - 1) = Converted(fmt, puts, RenderedTo(fmt, puts, b - 1), b)
            BY <1>1, MadeConversion
      <2>3. Converted(fmt, puts, [text |-> text, n |-> Len(taken)], b) = [text |-> text \o <<"%">>, n |-> Len(taken)]
            BY DEF Converted
      <2>4. QED
            BY <2>1, <2>2, <2>3
<1>7. QED
      BY <1>2, <1>3, <1>5, <1>6 DEF Progress

LEMMA ProgressTaken ==
  ASSUME NEW fmt \in Seq(FmtChars), NEW b \in 1 .. Len(fmt), fmt[b] = "%",
         AfterConv(fmt, b) <= Len(fmt) + 1, Conv(fmt, b) # "%", Meaningful(fmt, b),
         NEW text, NEW taken \in Seq(Taken), Progress(fmt, b, text, taken),
         NEW arg \in Taken, arg.conv = Conv(fmt, b), arg.l = Ls(fmt, b)
  PROVE  Progress(fmt, AfterConv(fmt, b), text \o arg.put, Append(taken, arg))
<1> DEFINE a == AfterConv(fmt, b)
           more == Append(taken, arg)
<1>1. Boundary(fmt, b) /\ Sound(fmt, b) /\ Placed(fmt, b, taken)
      BY DEF Progress
<1>2. a \in 1 .. Len(fmt) + 1 /\ Boundary(fmt, a)
      <2>1. a \in b + 2 .. Len(fmt) + 1 /\ Boundary(fmt, a)
            BY <1>1, ConversionBoundary
      <2>2. QED
            BY <2>1
<1>3. Sound(fmt, a)
      BY <1>1, SoundConversion
<1>4. Placed(fmt, a, more)
      <2> HIDE DEF Taken
      <2> QED
          BY <1>1, PlacedConversion
<1>5. /\ Len(more) = Len(taken) + 1 /\ more[Len(taken) + 1] = arg /\ Len(taken) \in Nat
      /\ \A i \in 1 .. Len(taken) : more[i] = taken[i]
      OBVIOUS
<1>6. Spaced(fmt) => Made(fmt, a, text \o arg.put, more)
      <2> SUFFICES ASSUME Spaced(fmt), NEW puts, \A i \in 1 .. Len(more) : puts[i] = more[i].put
                   PROVE  RenderedTo(fmt, puts, a - 1) = [text |-> text \o arg.put, n |-> Len(more)]
          BY DEF Made
      <2>1. puts[Len(taken) + 1] = arg.put /\ \A i \in 1 .. Len(taken) : puts[i] = taken[i].put
            <3> HIDE DEF more
            <3> QED
                BY <1>5
      <2>2. RenderedTo(fmt, puts, b - 1) = [text |-> text, n |-> Len(taken)]
            BY <2>1 DEF Progress, Made
      <2>3. RenderedTo(fmt, puts, a - 1) = Converted(fmt, puts, RenderedTo(fmt, puts, b - 1), b)
            BY <1>1, MadeConversion
      <2>4. RenderedTo(fmt, puts, a - 1) = [text |-> text \o puts[Len(taken) + 1], n |-> Len(taken) + 1]
            <3>1. Converted(fmt, puts, [text |-> text, n |-> Len(taken)], b)
                    = [text |-> text \o puts[Len(taken) + 1], n |-> Len(taken) + 1]
                  BY DEF Converted
            <3>2. QED
                  BY <2>2, <2>3, <3>1
      <2>5. QED
            BY <1>5, <2>1, <2>4
<1>7. QED
      BY <1>2, <1>3, <1>4, <1>6 DEF Progress

\* The conversion whose '%' and l's have been read is the one the format has there.
LEMMA ConvIs ==
  ASSUME NEW fmt \in Seq(FmtChars), NEW b \in Nat, NEW l \in 0 .. 2,
         \A k \in 1 .. l : At(fmt, b + k) = "l",
         l = 2 \/ At(fmt, b + l + 1) # "l"
  PROVE  /\ Ls(fmt, b) = l /\ Conv(fmt, b) = At(fmt, b + l + 1)
         /\ AfterConv(fmt, b) = b + l + 2
<1>1. Ls(fmt, b) = l
      BY LsIs
<1>2. QED
      BY <1>1 DEF Conv, AfterConv

\* The arguments are what they were escaped from.
AsEscaped(backslashes, taken) ==
  \A i \in 1 .. Len(taken) :
    taken[i].conv \in {"s", "c"} => taken[i].put = Escaped(backslashes, taken[i].raw)

\* Where the '%' of the conversion being read is.
Sign(s) == s.pp - s.l

\* The invariant: the scan has dealt with all there is before the place it is at.
Going ==
  /\ scan.backslashes \in BOOLEAN /\ scan.l \in 0 .. 2 /\ scan.buf \in Seq(Letter)
  /\ args \in Seq(Taken)
  /\ AsEscaped(scan.backslashes, args)
  /\ scan.at = "copy" =>
       /\ Progress(scan.fmt, scan.p, scan.buf, args)
       /\ scan.p = 1 \/ \E j \in Starts(scan.fmt) : AfterConv(scan.fmt, j) = scan.p
  /\ scan.at = "spec" =>
       /\ Sign(scan) \in scan.p .. Len(scan.fmt) /\ scan.fmt[Sign(scan)] = "%"
       /\ \A k \in 1 .. scan.l : At(scan.fmt, Sign(scan) + k) = "l"
       /\ Progress(scan.fmt, Sign(scan), scan.buf, args)
  /\ scan.at = "done" => Progress(scan.fmt, Len(scan.fmt) + 1, scan.buf, args)
  /\ scan.at = "failed" => ~WellFormed(scan.fmt) \/ (args # <<>> /\ Last(args).conv = "s")

LEMMA PassedIs == \A server \in Servers : Passed(server) \in BOOLEAN
<1> SUFFICES ASSUME NEW server \in Servers PROVE Passed(server) \in BOOLEAN
    OBVIOUS
<1>1. server.slashes \in BOOLEAN
      BY DEF Servers
<1>2. QED
      BY <1>1 DEF Passed

LEMMA InitGoing == TextInit => Going
<1> SUFFICES ASSUME TextInit PROVE Going
    OBVIOUS
<1>1. PICK f \in BoundedSeq(FmtChars, MaxFmt), server \in Servers :
        scan = [server |-> server, fmt |-> f, backslashes |-> Passed(server),
                p |-> 1, pp |-> 1, l |-> 0, at |-> "copy", buf |-> <<>>]
      BY DEF TextInit
<1>2. f \in Seq(FmtChars) /\ Len(f) \in Nat /\ args = <<>>
      BY DEF BoundedSeq, SeqOf, TextInit
<1>3. \A j \in Starts(f) : ~(j < 1)
      <2>1. \A j \in Starts(f) : j \in 1 .. Len(f)
            BY <1>2, StartsLie
      <2>2. QED
            BY <2>1
<1>4. Boundary(f, 1) /\ Sound(f, 1)
      BY <1>3 DEF Boundary, Sound, Starts
<1>5. Placed(f, 1, <<>>)
      <2>1. Taking(f, 1) = {}
            BY <1>3 DEF Taking
      <2>2. QED
            BY <2>1, FS_EmptySet DEF Placed
<1>6. Made(f, 1, <<>>, <<>>)
      <2>1. \A puts : RenderedTo(f, puts, 0) = [text |-> <<>>, n |-> 0]
            BY <1>2, RenderedStep
      <2>2. Len(<<>>) = 0 /\ 1 - 1 = 0
            OBVIOUS
      <2>3. QED
            BY <2>1, <2>2 DEF Made
<1>7. Progress(f, 1, <<>>, <<>>)
      BY <1>2, <1>4, <1>5, <1>6 DEF Progress
<1>8. args \in Seq(Taken) /\ <<>> \in Seq(Letter) /\ AsEscaped(scan.backslashes, args)
      BY <1>2 DEF AsEscaped
<1>9. scan.backslashes \in BOOLEAN
      BY <1>1, PassedIs
<1>10. QED
      BY <1>1, <1>2, <1>7, <1>8, <1>9 DEF Going

\* The conversion the scan is at.
LEMMA SpecIs ==
  ASSUME Scanning, Going, NEW c, Spec1(c), c # "l" \/ scan.l = 2,
         NEW b, b = Sign(scan)
  PROVE  /\ b \in 1 .. Len(scan.fmt) /\ scan.fmt[b] = "%" /\ b \in Starts(scan.fmt)
         /\ Ls(scan.fmt, b) = scan.l /\ Conv(scan.fmt, b) = c
         /\ AfterConv(scan.fmt, b) = scan.pp + 2
         /\ c # "end" => scan.pp + 2 <= Len(scan.fmt) + 1
         /\ Progress(scan.fmt, b, scan.buf, args)
<1>1. /\ scan.fmt \in Seq(FmtChars) /\ Len(scan.fmt) \in Nat /\ scan.p \in 1 .. Len(scan.fmt) + 1
      /\ scan.at = "spec" /\ scan.pp \in Nat /\ scan.l \in 0 .. 2 /\ At(scan.fmt, scan.pp + 1) = c
      BY DEF Scanning, InBounds, Spec1, Going
<1>2. /\ b \in scan.p .. Len(scan.fmt) /\ scan.fmt[b] = "%"
      /\ \A k \in 1 .. scan.l : At(scan.fmt, b + k) = "l"
      /\ Progress(scan.fmt, b, scan.buf, args)
      BY <1>1 DEF Going
<1>3. b \in 1 .. Len(scan.fmt) /\ b \in Nat /\ scan.pp + 1 = b + scan.l + 1 /\ b + scan.l + 2 = scan.pp + 2
      BY <1>1, <1>2 DEF Sign
<1>4. /\ Ls(scan.fmt, b) = scan.l /\ Conv(scan.fmt, b) = c
      /\ AfterConv(scan.fmt, b) = scan.pp + 2
      BY <1>1, <1>2, <1>3, ConvIs
<1>5. c # "end" => scan.pp + 2 <= Len(scan.fmt) + 1
      <2>1. c # "end" => scan.pp + 1 <= Len(scan.fmt)
            BY <1>1, NotTheEnd
      <2>2. QED
            BY <1>1, <2>1
<1>6. b \in Starts(scan.fmt)
      <2>1. b \in 1 .. Len(scan.fmt) + 4 /\ ~(b > Len(scan.fmt))
            BY <1>1, <1>3
      <2>2. b \in StartsFrom(scan.fmt, b)
            BY <1>1, <1>2, <2>1, StartsStep
      <2>3. QED
            BY <1>2, <2>2 DEF Progress, Boundary
<1>7. QED
      BY <1>2, <1>3, <1>4, <1>5, <1>6

\* A conversion with an argument has been dealt with.
LEMMA StepTook ==
  ASSUME Scanning, Going, NEW c \in {"d", "f", "s", "c"}, Spec1(c), Meaningful(scan.fmt, Sign(scan)),
         NEW raw \in Seq(Letter), NEW put \in Seq(Letter),
         c \in {"s", "c"} => put = Escaped(scan.backslashes, raw),
         Took(c, raw, put),
         scan'.fmt = scan.fmt, scan'.backslashes = scan.backslashes, scan'.p = scan.pp + 2,
         scan'.l = scan.l, scan'.at = "copy", scan'.buf = scan.buf \o put
  PROVE  Going'
<1> DEFINE b == Sign(scan)
           arg == [conv |-> c, l |-> scan.l, raw |-> raw, put |-> put]
<1>1. /\ scan'.fmt = scan.fmt /\ scan'.backslashes = scan.backslashes /\ scan'.p = scan.pp + 2
      /\ scan'.l = scan.l /\ scan'.at = "copy" /\ scan'.buf = scan.buf \o put
      OBVIOUS
<1>2. /\ b \in 1 .. Len(scan.fmt) /\ scan.fmt[b] = "%" /\ b \in Starts(scan.fmt)
      /\ Ls(scan.fmt, b) = scan.l /\ Conv(scan.fmt, b) = c
      /\ AfterConv(scan.fmt, b) = scan.pp + 2 /\ scan.pp + 2 <= Len(scan.fmt) + 1
      /\ Progress(scan.fmt, b, scan.buf, args)
      <2>1. c # "l" /\ c # "end"
            OBVIOUS
      <2>2. QED
            BY <2>1, SpecIs
<1>3. scan.backslashes \in BOOLEAN /\ scan.l \in 0 .. 2 /\ scan.buf \in Seq(Letter) /\ args \in Seq(Taken)
      BY DEF Going
<1>4. arg \in Taken /\ arg.conv = c /\ arg.l = scan.l /\ arg.put = put /\ arg.raw = raw
      BY <1>3 DEF Taken
<1>5. args' = Append(args, arg)
      BY DEF Took
<1> HIDE DEF arg, b
<1>6. Progress(scan.fmt, scan.pp + 2, scan.buf \o put, Append(args, arg))
      <2>1. scan.fmt \in Seq(FmtChars) /\ c # "%" /\ Meaningful(scan.fmt, b)
            BY DEF Scanning, b
      <2>2. Progress(scan.fmt, AfterConv(scan.fmt, b), scan.buf \o arg.put, Append(args, arg))
            BY <1>2, <1>3, <1>4, <2>1, ProgressTaken
      <2>3. QED
            BY <1>2, <1>4, <2>2
<1>7. args' \in Seq(Taken) /\ scan'.buf \in Seq(Letter)
      <2>1. Append(args, arg) \in Seq(Taken) /\ scan.buf \o put \in Seq(Letter)
            <3> HIDE DEF Taken, Letter
            <3> QED
                BY <1>3, <1>4
      <2>2. QED
            BY <1>1, <1>5, <2>1
<1>8. AsEscaped(scan'.backslashes, args')
      <2>1. /\ Len(args') = Len(args) + 1 /\ args'[Len(args) + 1] = arg /\ Len(args) \in Nat
            /\ \A i \in 1 .. Len(args) : args'[i] = args[i]
            BY <1>3, <1>5
      <2>2. AsEscaped(scan.backslashes, args)
            BY DEF Going
      <2>3. ASSUME NEW i \in 1 .. Len(args'), args'[i].conv \in {"s", "c"}
            PROVE  args'[i].put = Escaped(scan.backslashes, args'[i].raw)
            <3>1. CASE i = Len(args) + 1
                  BY <1>4, <2>1, <2>3, <3>1
            <3>2. CASE i # Len(args) + 1
                  <4>1. i \in 1 .. Len(args)
                        BY <2>1, <3>2
                  <4>2. QED
                        BY <2>1, <2>2, <2>3, <4>1 DEF AsEscaped
            <3>3. QED
                  BY <3>1, <3>2
      <2>4. QED
            BY <1>1, <2>3 DEF AsEscaped
<1>9. \E j \in Starts(scan'.fmt) : AfterConv(scan'.fmt, j) = scan'.p
      BY <1>1, <1>2
<1>10. Progress(scan'.fmt, scan'.p, scan'.buf, args')
      BY <1>1, <1>5, <1>6
<1>11. QED
      BY <1>1, <1>3, <1>7, <1>8, <1>9, <1>10 DEF Going
LEMMA StepGoing == Scanning /\ Going /\ [TextNext]_tvars => Going'
<1> SUFFICES ASSUME Scanning, Going, [TextNext]_tvars PROVE Going'
    OBVIOUS
<1> DEFINE fmt == scan.fmt
           b == Sign(scan)
<1>1. DOMAIN scan = {"server", "fmt", "backslashes", "p", "pp", "l", "at", "buf"}
      BY DEF Scanning
<1>2. /\ fmt \in Seq(FmtChars) /\ Len(fmt) \in Nat /\ scan.p \in 1 .. Len(fmt) + 1
      /\ scan.at = "spec" => scan.pp \in Nat
      BY DEF Scanning, InBounds
<1>3. /\ scan.backslashes \in BOOLEAN /\ scan.l \in 0 .. 2 /\ scan.buf \in Seq(Letter)
      /\ args \in Seq(Taken) /\ AsEscaped(scan.backslashes, args)
      BY DEF Going
<1>4. CASE Copy
      <2>1. PICK q \in scan.p .. Len(fmt) + 1 :
              /\ Strchr(q)
              /\ scan' = [scan EXCEPT !.pp = q, !.l = 0, !.buf = @ \o Copied(q),
                                      !.at = IF q <= Len(fmt) THEN "spec" ELSE "done"]
            BY <1>4 DEF Copy
      <2>2. /\ scan'.fmt = fmt /\ scan'.backslashes = scan.backslashes /\ scan'.p = scan.p
            /\ scan'.pp = q /\ scan'.l = 0 /\ scan'.buf = scan.buf \o Copied(q)
            /\ scan'.at = IF q <= Len(fmt) THEN "spec" ELSE "done"
            BY <1>1, <2>1
      <2>3. args' = args /\ scan.at = "copy" /\ scan.p <= Len(fmt)
            BY <1>4 DEF Copy
      <2>4. /\ Progress(fmt, scan.p, scan.buf, args)
            /\ scan.p = 1 \/ \E j \in Starts(fmt) : AfterConv(fmt, j) = scan.p
            BY <2>3 DEF Going
      <2>5. q \in Nat /\ scan.p \in Nat /\ scan.p <= q /\ 1 <= scan.p /\ q <= Len(fmt) + 1
            BY <1>2, <2>1
      <2>6. /\ \A i \in scan.p .. q - 1 : fmt[i] # "%"
            /\ q <= Len(fmt) => fmt[q] = "%"
            <3>1. q <= Len(fmt) => q \in DOMAIN fmt /\ q \in 1 .. Len(fmt)
                  BY <1>2, <2>5
            <3>2. fmt \in Seq(FmtChars) /\ \A i \in 1 .. Len(fmt) : fmt[i] # "end"
                  BY <1>2 DEF FmtChars
            <3>3. QED
                  BY <2>1, <3>1, <3>2 DEF Strchr, At
      <2>7. Copied(q) \in Seq(Letter)
            <3>1. fmt \in Seq(Letter)
                  BY <1>2, Characters
            <3>2. QED
                  <4> HIDE DEF Letter
                  <4> QED
                      BY <1>2, <2>3, <2>5, <3>1 DEF Copied
      <2>8. Spaced(fmt) => scan.buf \o Copied(q) = scan.buf \o SubSeq(fmt, scan.p, q - 1)
            <3> SUFFICES ASSUME Spaced(fmt) PROVE Copied(q) = SubSeq(fmt, scan.p, q - 1)
                OBVIOUS
            <3>1. q # scan.p
                  <4> SUFFICES ASSUME q = scan.p PROVE FALSE
                      OBVIOUS
                  <4>1. q \in 1 .. Len(fmt) + 4 /\ q \in 1 .. Len(fmt) /\ ~(q > Len(fmt)) /\ fmt[q] = "%"
                        BY <1>2, <2>3, <2>5, <2>6
                  <4>2. q \in StartsFrom(fmt, q)
                        BY <1>2, <4>1, StartsStep
                  <4>3. q \in Starts(fmt)
                        BY <2>4, <4>2 DEF Progress, Boundary
                  <4>4. QED
                        BY <2>4, <2>5, <4>3 DEF Spaced
            <3>2. CASE q - scan.p > 1
                  BY <3>2 DEF Copied
            <3>3. CASE ~(q - scan.p > 1)
                  <4>1. scan.p = q - 1
                        BY <2>5, <3>1, <3>3
                  <4>2. QED
                        BY <3>3, <4>1 DEF Copied
            <3>4. QED
                  BY <3>2, <3>3
      <2>9. Progress(fmt, q, scan.buf \o Copied(q), args)
            <3> HIDE DEF fmt
            <3> QED
                BY <1>2, <1>3, <2>1, <2>4, <2>6, <2>8, ProgressLiteral
      <2>10. scan'.buf \in Seq(Letter)
            <3> HIDE DEF Letter
            <3> QED
                BY <1>3, <2>2, <2>7
      <2>11. CASE q <= Len(fmt)
            <3>1. Sign(scan') = q /\ scan'.at = "spec" /\ scan'.l = 0
                  BY <2>2, <2>5, <2>11 DEF Sign
            <3>2. Sign(scan') \in scan'.p .. Len(scan'.fmt) /\ scan'.fmt[Sign(scan')] = "%"
                  BY <1>2, <2>2, <2>5, <2>6, <2>11, <3>1
            <3>3. Progress(scan'.fmt, Sign(scan'), scan'.buf, args')
                  BY <2>2, <2>3, <2>9, <3>1
            <3>4. QED
                  BY <1>3, <2>2, <2>3, <2>10, <3>1, <3>2, <3>3 DEF Going
      <2>12. CASE ~(q <= Len(fmt))
            <3>1. scan'.at = "done" /\ q = Len(fmt) + 1
                  BY <1>2, <2>2, <2>5, <2>12
            <3>2. Progress(scan'.fmt, Len(scan'.fmt) + 1, scan'.buf, args')
                  BY <2>2, <2>3, <2>9, <3>1
            <3>3. QED
                  BY <1>3, <2>2, <2>3, <2>10, <3>1, <3>2 DEF Going
      <2>13. QED
            BY <2>11, <2>12
<1>5. CASE Finish
      <2>1. scan' = [scan EXCEPT !.at = "done"] /\ args' = args /\ scan.at = "copy" /\ scan.p > Len(fmt)
            BY <1>5 DEF Finish
      <2>2. /\ scan'.fmt = fmt /\ scan'.backslashes = scan.backslashes /\ scan'.p = scan.p
            /\ scan'.l = scan.l /\ scan'.buf = scan.buf /\ scan'.at = "done"
            BY <1>1, <2>1
      <2>3. scan.p = Len(fmt) + 1
            BY <1>2, <2>1
      <2>4. Progress(scan'.fmt, Len(scan'.fmt) + 1, scan'.buf, args')
            BY <2>1, <2>2, <2>3 DEF Going
      <2>5. QED
            BY <1>3, <2>1, <2>2, <2>4 DEF Going
<1>6. CASE Long
      <2>1. /\ scan' = [scan EXCEPT !.l = @ + 1, !.pp = @ + 1] /\ args' = args
            /\ scan.at = "spec" /\ scan.l < 2 /\ At(fmt, scan.pp + 1) = "l"
            BY <1>6 DEF Long, Spec1
      <2>2. /\ scan'.fmt = fmt /\ scan'.backslashes = scan.backslashes /\ scan'.p = scan.p
            /\ scan'.pp = scan.pp + 1 /\ scan'.l = scan.l + 1 /\ scan'.buf = scan.buf /\ scan'.at = "spec"
            BY <1>1, <2>1
      <2>3. /\ b \in scan.p .. Len(fmt) /\ fmt[b] = "%"
            /\ \A k \in 1 .. scan.l : At(fmt, b + k) = "l"
            /\ Progress(fmt, b, scan.buf, args)
            BY <2>1 DEF Going
      <2>4. Sign(scan') = b /\ scan.pp + 1 = b + (scan.l + 1) /\ scan.l + 1 \in 0 .. 2
            BY <1>2, <1>3, <2>1, <2>2 DEF Sign
      <2>5. \A k \in 1 .. scan.l + 1 : At(fmt, b + k) = "l"
            <3>1. \A k \in 1 .. scan.l + 1 : k = scan.l + 1 \/ k \in 1 .. scan.l
                  BY <1>3
            <3>2. QED
                  BY <2>1, <2>3, <2>4, <3>1
      <2>6. /\ Sign(scan') \in scan'.p .. Len(scan'.fmt) /\ scan'.fmt[Sign(scan')] = "%"
            /\ \A k \in 1 .. scan'.l : At(scan'.fmt, Sign(scan') + k) = "l"
            /\ Progress(scan'.fmt, Sign(scan'), scan'.buf, args')
            BY <2>1, <2>2, <2>3, <2>4, <2>5
      <2>7. QED
            BY <1>3, <2>1, <2>2, <2>4, <2>6 DEF Going
<1>7. CASE Number
      <2>1. PICK c \in {"d", "f"} : Spec1(c) /\ (c = "f" => scan.l < 2)
            BY <1>7 DEF Number
      <2>2. Took(c, <<>>, <<"7">>)
            BY <1>7, <2>1 DEF Number, Spec1
      <2>3. /\ scan'.fmt = fmt /\ scan'.backslashes = scan.backslashes /\ scan'.p = scan.pp + 2
            /\ scan'.l = scan.l /\ scan'.at = "copy" /\ scan'.buf = scan.buf \o <<"7">>
            BY <1>1, <1>7 DEF Number, Printed, Resumed
      <2>4. Meaningful(fmt, b)
            <3>1. Ls(fmt, b) = scan.l /\ Conv(fmt, b) = c
                  BY <2>1, SpecIs
            <3>2. QED
                  BY <2>1, <3>1 DEF Meaningful
      <2>5. <<"7">> \in Seq(Letter) /\ <<>> \in Seq(Letter) /\ c \in {"d", "f", "s", "c"} /\ c \notin {"s", "c"}
            <3>1. "7" \in Letter
                  BY Characters
            <3>2. QED
                  <4> HIDE DEF Letter
                  <4> QED
                      BY <2>1, <3>1
      <2>6. QED
            BY <2>1, <2>2, <2>3, <2>4, <2>5, StepTook
<1>8. CASE NullText
      <2>1. Spec1("s") /\ scan.l = 0 /\ Took("s", <<>>, <<>>)
            BY <1>8 DEF NullText
      <2>2. /\ scan'.fmt = fmt /\ scan'.backslashes = scan.backslashes /\ scan'.p = scan.pp + 2
            /\ scan'.l = scan.l /\ scan'.at = "copy" /\ scan'.buf = scan.buf \o <<>>
            <3>1. scan.buf \o <<>> = scan.buf
                  BY <1>3
            <3>2. scan' = Resumed(scan)
                  BY <1>8 DEF NullText
            <3>3. QED
                  BY <1>1, <3>1, <3>2 DEF Resumed
      <2>3. Meaningful(fmt, b)
            <3>1. Ls(fmt, b) = scan.l /\ Conv(fmt, b) = "s"
                  BY <2>1, SpecIs
            <3>2. QED
                  BY <2>1, <3>1 DEF Meaningful
      <2>4. <<>> = Escaped(scan.backslashes, <<>>)
            BY DEF Escaped, FlattenSeq
      <2>5. <<>> \in Seq(Letter)
            OBVIOUS
      <2>6. QED
            BY <2>1, <2>2, <2>3, <2>4, <2>5, StepTook
<1>9. CASE Text
      <2>1. PICK s \in Texts : /\ Took("s", s, Escaped(scan.backslashes, s))
                               /\ scan' = [scan EXCEPT !.buf = @ \o Escaped(scan.backslashes, s), !.at = "failed"]
            BY <1>9 DEF Text
      <2> DEFINE put == Escaped(scan.backslashes, s)
                 arg == [conv |-> "s", l |-> scan.l, raw |-> s, put |-> put]
      <2>2. /\ scan'.fmt = fmt /\ scan'.backslashes = scan.backslashes /\ scan'.p = scan.p
            /\ scan'.l = scan.l /\ scan'.buf = scan.buf \o put /\ scan'.at = "failed"
            BY <1>1, <2>1
      <2>3. s \in Seq(Letter)
            BY TextAssumption, Characters
      <2>4. put \in Seq(Letter)
            BY <1>3, <2>3, Characters, EscapedReadsBack
      <2>5. arg \in Taken /\ arg.conv = "s" /\ arg.put = put /\ arg.raw = s
            <3> HIDE DEF put
            <3> QED
                BY <1>3, <2>3, <2>4 DEF Taken
      <2>6. args' = Append(args, arg)
            BY <2>1 DEF Took
      <2> HIDE DEF arg, put
      <2>7. /\ args' \in Seq(Taken) /\ scan'.buf \in Seq(Letter)
            /\ Len(args') = Len(args) + 1 /\ args'[Len(args) + 1] = arg /\ Len(args) \in Nat
            /\ \A i \in 1 .. Len(args) : args'[i] = args[i]
            <3> HIDE DEF Taken, Letter
            <3> QED
                BY <1>3, <2>2, <2>4, <2>5, <2>6
      <2>8. args' # <<>> /\ Last(args').conv = "s"
            BY <2>5, <2>7 DEF Last
      <2>9. AsEscaped(scan'.backslashes, args')
            <3>1. ASSUME NEW i \in 1 .. Len(args'), args'[i].conv \in {"s", "c"}
                  PROVE  args'[i].put = Escaped(scan.backslashes, args'[i].raw)
                  <4>1. CASE i = Len(args) + 1
                        BY <2>5, <2>7, <4>1 DEF put
                  <4>2. CASE i # Len(args) + 1
                        <5>1. i \in 1 .. Len(args)
                              BY <2>7, <4>2
                        <5>2. QED
                              BY <1>3, <2>7, <3>1, <5>1 DEF AsEscaped
                  <4>3. QED
                        BY <4>1, <4>2
            <3>2. QED
                  BY <2>2, <3>1 DEF AsEscaped
      <2>10. QED
            BY <1>3, <2>2, <2>7, <2>8, <2>9 DEF Going
<1>10. CASE Char
      <2>1. PICK c \in Chars : /\ Took("c", CharText(c), Escaped(scan.backslashes, CharText(c)))
                               /\ scan' = Printed(Escaped(scan.backslashes, CharText(c)))
            BY <1>10 DEF Char
      <2>2. Spec1("c") /\ scan.l = 0
            BY <1>10 DEF Char
      <2> DEFINE put == Escaped(scan.backslashes, CharText(c))
      <2>3. CharText(c) \in Seq(Letter)
            <3>1. c \in Letter
                  BY TextAssumption, Characters
            <3>2. QED
                  <4> HIDE DEF Letter
                  <4> QED
                      BY <3>1 DEF CharText
      <2>4. put \in Seq(Letter)
            BY <1>3, <2>3, Characters, EscapedReadsBack
      <2>5. /\ scan'.fmt = fmt /\ scan'.backslashes = scan.backslashes /\ scan'.p = scan.pp + 2
            /\ scan'.l = scan.l /\ scan'.at = "copy" /\ scan'.buf = scan.buf \o put
            BY <1>1, <2>1 DEF Printed, Resumed
      <2>6. Meaningful(fmt, b)
            <3>1. Ls(fmt, b) = scan.l /\ Conv(fmt, b) = "c"
                  BY <2>2, SpecIs
            <3>2. QED
                  BY <2>2, <3>1 DEF Meaningful
      <2>7. QED
            <3>1. "c" \in {"d", "f", "s", "c"} /\ Took("c", CharText(c), put)
                  BY <2>1
            <3> HIDE DEF put
            <3>2. put = Escaped(scan.backslashes, CharText(c))
                  BY DEF put
            <3>3. QED
                  BY <2>2, <2>3, <2>4, <2>5, <2>6, <3>1, <3>2, StepTook
<1>11. CASE Percent
      <2>1. Spec1("%") /\ scan' = Printed(<<"%">>) /\ args' = args
            BY <1>11 DEF Percent
      <2>2. /\ b \in 1 .. Len(fmt) /\ fmt[b] = "%" /\ b \in Starts(fmt)
            /\ Conv(fmt, b) = "%" /\ AfterConv(fmt, b) = scan.pp + 2 /\ scan.pp + 2 <= Len(fmt) + 1
            /\ Progress(fmt, b, scan.buf, args)
            BY <2>1, SpecIs
      <2>3. Meaningful(fmt, b)
            BY <2>2 DEF Meaningful
      <2>4. Progress(fmt, scan.pp + 2, scan.buf \o <<"%">>, args)
            <3> HIDE DEF fmt, b
            <3>1. Progress(fmt, AfterConv(fmt, b), scan.buf \o <<"%">>, args)
                  BY <1>2, <2>2, <2>3, ProgressPercent
            <3>2. QED
                  BY <2>2, <3>1
      <2>5. scan' = [[scan EXCEPT !.buf = scan.buf \o <<"%">>] EXCEPT !.p = scan.pp + 2, !.at = "copy"]
            BY <1>1, <2>1 DEF Printed, Resumed
      <2>6. /\ scan'.fmt = fmt /\ scan'.backslashes = scan.backslashes /\ scan'.p = scan.pp + 2
            /\ scan'.l = scan.l /\ scan'.buf = scan.buf \o <<"%">> /\ scan'.at = "copy"
            BY <1>1, <2>5
      <2>7. scan'.buf \in Seq(Letter)
            <3>1. "%" \in Letter
                  BY Characters
            <3>2. QED
                  <4> HIDE DEF Letter
                  <4> QED
                      BY <1>3, <2>6, <3>1
      <2>8. \E j \in Starts(scan'.fmt) : AfterConv(scan'.fmt, j) = scan'.p
            BY <2>2, <2>6
      <2>9. QED
            BY <1>3, <2>1, <2>4, <2>6, <2>7, <2>8 DEF Going
<1>12. CASE Bad
      <2>1. PICK c : Spec1(c) /\ \/ c \in {"end", "x"}
                                 \/ c \in {"l", "f"} /\ scan.l = 2
                                 \/ c \in {"s", "c"} /\ scan.l > 0
            BY <1>12 DEF Bad
      <2>2. scan' = [scan EXCEPT !.at = "failed"] /\ args' = args
            BY <1>12 DEF Bad
      <2>3. /\ scan'.fmt = fmt /\ scan'.backslashes = scan.backslashes
            /\ scan'.l = scan.l /\ scan'.buf = scan.buf /\ scan'.at = "failed"
            BY <1>1, <2>2
      <2>4. c # "l" \/ scan.l = 2
            BY <2>1
      <2>5. b \in Starts(fmt) /\ Ls(fmt, b) = scan.l /\ Conv(fmt, b) = c
            BY <2>1, <2>4, SpecIs
      <2>6. ~Meaningful(fmt, b)
            BY <1>3, <2>1, <2>5 DEF Meaningful
      <2>7. ~WellFormed(scan'.fmt)
            BY <2>3, <2>5, <2>6 DEF WellFormed
      <2>8. QED
            BY <1>3, <2>2, <2>3, <2>7 DEF Going
<1>13. CASE UNCHANGED tvars
      BY <1>13 DEF Going, tvars
<1>14. QED
      BY <1>4, <1>5, <1>6, <1>7, <1>8, <1>9, <1>10, <1>11, <1>12, <1>13 DEF TextNext

\* The server of a connection is the same throughout, and what its backend says of it.
Asked == scan.server \in Servers /\ scan.backslashes = Passed(scan.server)

LEMMA InitAsked == TextInit => Asked
BY DEF TextInit, Asked

LEMMA StepAsked == Scanning /\ Asked /\ [TextNext]_tvars => Asked'
<1> SUFFICES ASSUME Scanning, Asked, [TextNext]_tvars PROVE Asked'
    OBVIOUS
<1>1. DOMAIN scan = {"server", "fmt", "backslashes", "p", "pp", "l", "at", "buf"}
      BY DEF Scanning
<1>2. ASSUME NEW s, DOMAIN s = DOMAIN scan, s.server = scan.server, s.backslashes = scan.backslashes
      PROVE  Resumed(s).server = scan.server /\ Resumed(s).backslashes = scan.backslashes
      BY <1>1, <1>2 DEF Resumed
<1>3. ASSUME NEW s
      PROVE  Printed(s).server = scan.server /\ Printed(s).backslashes = scan.backslashes
      BY <1>1 DEF Printed, Resumed
<1>4. scan'.server = scan.server /\ scan'.backslashes = scan.backslashes
      <2>1. CASE Copy
            BY <1>1, <2>1 DEF Copy
      <2>2. CASE Finish \/ Long \/ Bad
            BY <1>1, <2>2 DEF Finish, Long, Bad
      <2>3. CASE Number \/ Char \/ Percent
            BY <1>3, <2>3 DEF Number, Char, Percent
      <2>4. CASE NullText
            BY <1>2, <2>4 DEF NullText
      <2>5. CASE Text
            BY <1>1, <2>5 DEF Text
      <2>6. CASE UNCHANGED tvars
            BY <2>6 DEF tvars
      <2>7. QED
            BY <2>1, <2>2, <2>3, <2>4, <2>5, <2>6 DEF TextNext
<1>5. QED
      BY <1>4 DEF Asked

\* A text with nothing to escape is put the same by either rule.
LEMMA NothingToEscape ==
  ASSUME NEW raw,
         \A k \in DOMAIN raw : raw[k] \notin {"'", "backslash", "dquote", "newline", "return"}
  PROVE  Escaped(TRUE, raw) = Escaped(FALSE, raw)
<1>1. \A k \in DOMAIN raw : Slashed(raw[k]) = Doubled(raw[k])
      BY DEF Slashed, Doubled
<1>2. [k \in DOMAIN raw |-> Slashed(raw[k])] = [k \in DOMAIN raw |-> Doubled(raw[k])]
      BY <1>1
<1>3. QED
      BY <1>2 DEF Escaped

LEMMA GoingGives ==
  ASSUME Scanning, Going, Asked
  PROVE  Renders /\ RefusesMalformed /\ ReadsBack
<1> DEFINE fmt == scan.fmt
           puts == [i \in DOMAIN args |-> args[i].put]
<1>1. /\ fmt \in Seq(FmtChars) /\ Len(fmt) \in Nat /\ scan.backslashes \in BOOLEAN
      /\ args \in Seq(Taken) /\ DOMAIN args = 1 .. Len(args)
      BY DEF Scanning, Going
<1>2. Renders
      <2> SUFFICES ASSUME scan.at = "done", Spaced(fmt)
                   PROVE  /\ scan.buf = Rendered(fmt, puts)
                          /\ \A i \in DOMAIN args :
                               \E j \in Starts(fmt) :
                                 /\ Conv(fmt, j) = args[i].conv /\ Ls(fmt, j) = args[i].l
                                 /\ Cardinality({k \in Starts(fmt) : k <= j /\ Conv(fmt, k) # "%"}) = i
          BY DEF Renders
      <2>1. Placed(fmt, Len(fmt) + 1, args) /\ Made(fmt, Len(fmt) + 1, scan.buf, args)
            BY DEF Going, Progress
      <2>2. \A i \in 1 .. Len(args) : puts[i] = args[i].put
            BY <1>1
      <2>3. (Len(fmt) + 1) - 1 = Len(fmt)
            BY <1>1
      <2>4. RenderedTo(fmt, puts, Len(fmt)) = [text |-> scan.buf, n |-> Len(args)]
            <3> HIDE DEF puts
            <3> QED
                BY <2>1, <2>2, <2>3 DEF Made
      <2>5. scan.buf = Rendered(fmt, puts)
            BY <2>4 DEF Rendered
      <2>6. QED
            BY <1>1, <2>1, <2>5 DEF Placed
<1>3. RefusesMalformed
      <2>1. ASSUME scan.at = "done"
            PROVE  WellFormed(fmt)
            <3>1. Sound(fmt, Len(fmt) + 1)
                  BY <2>1 DEF Going, Progress
            <3>2. \A j \in Starts(fmt) : j \in 1 .. Len(fmt)
                  BY <1>1, StartsLie
            <3>3. \A j \in 1 .. Len(fmt) : j < Len(fmt) + 1
                  BY <1>1
            <3>4. QED
                  BY <3>1, <3>2, <3>3 DEF Sound, WellFormed
      <2>2. scan.at = "failed" => ~WellFormed(fmt) \/ (args # <<>> /\ Last(args).conv = "s")
            BY DEF Going
      <2>3. QED
            BY <2>1, <2>2 DEF RefusesMalformed
<1>4. ReadsBack
      <2> SUFFICES ASSUME NEW i \in DOMAIN args, AsText(args[i])
                   PROVE  /\ SameRule(args[i]) => ReadByServer(args[i])
                          /\ Len(args[i].put) <= 2 * Len(args[i].raw)
          BY DEF ReadsBack
      <2> DEFINE raw == args[i].raw
                 slashes == scan.server.slashes
      <2>1. args[i].put = Escaped(scan.backslashes, raw)
            BY <1>1 DEF Going, AsEscaped, AsText
      <2>2. raw \in Seq(Letter)
            <3>1. args[i] \in Taken
                  <4> HIDE DEF Taken
                  <4> QED
                      BY <1>1
            <3>2. QED
                  BY <3>1 DEF Taken
      <2>3. Len(args[i].put) <= 2 * Len(raw)
            BY <1>1, <2>1, <2>2, Characters, EscapedReadsBack
      <2>4. slashes \in BOOLEAN
            BY DEF Asked, Servers
      <2>5. ASSUME SameRule(args[i])
            PROVE  args[i].put = Escaped(slashes, raw)
            <3>1. CASE scan.backslashes = slashes
                  BY <2>1, <3>1
            <3>2. CASE scan.backslashes # slashes
                  <4>1. scan.backslashes = (scan.server.backend = "mysql" => slashes)
                        BY DEF Asked, Passed
                  <4>2. scan.server.backend # "mysql"
                        BY <2>4, <3>2, <4>1
                  <4>3. scan.backslashes = TRUE
                        BY <4>1, <4>2
                  <4>4. slashes = FALSE
                        BY <2>4, <3>2, <4>3
                  <4>5. Escaped(TRUE, raw) = Escaped(FALSE, raw)
                        BY <2>5, <4>2, <4>4, NothingToEscape DEF SameRule
                  <4>6. QED
                        BY <2>1, <4>3, <4>4, <4>5
            <3>3. QED
                  BY <3>1, <3>2
      <2>6. ASSUME SameRule(args[i])
            PROVE  ReadByServer(args[i])
            <3>1. Unescaped(slashes, Escaped(slashes, raw)) = [text |-> raw, next |-> FALSE]
                  BY <2>2, <2>4, Characters, EscapedReadsBack
            <3>2. QED
                  BY <2>5, <2>6, <3>1 DEF ReadByServer
      <2>7. QED
            BY <2>3, <2>6
<1>5. QED
      BY <1>2, <1>3, <1>4

LEMMA AlwaysGoing == TextSpec => [](Scanning /\ Going /\ Asked)
<1>1. Scanning /\ Going /\ Asked /\ [TextNext]_tvars => (Scanning /\ Going /\ Asked)'
      BY StepScanning, StepGoing, StepAsked
<1>2. QED
      BY InitScanning, InitGoing, InitAsked, <1>1, PTL DEF TextSpec

(***************************************************************************)
(* A query that is made is what its format says with the arguments in the  *)
(* places of the conversions: for every format in which text stands before *)
(* each conversion, however long, and every text and character given       *)
(* (esql_query_escape).                                                    *)
(***************************************************************************)
THEOREM RendersCorrect == TextSpec => []Renders
<1>1. Scanning /\ Going /\ Asked => Renders
      BY GoingGives
<1>2. QED
      BY AlwaysGoing, <1>1, PTL

(***************************************************************************)
(* esql_query_escape makes no query of a malformed format, and refuses a   *)
(* well-formed one only when a string was given, for every format.         *)
(***************************************************************************)
THEOREM RefusesMalformedCorrect == TextSpec => []RefusesMalformed
<1>1. Scanning /\ Going /\ Asked => RefusesMalformed
      BY GoingGives
<1>2. QED
      BY AlwaysGoing, <1>1, PTL

(***************************************************************************)
(* Whatever esql_string_escape escapes is read back as the text it was by  *)
(* a MySQL server and by any other that takes backslashes for escapes, a   *)
(* text with nothing to escape by every server, and all of it fits its     *)
(* buffer, for texts of any length.                                        *)
(***************************************************************************)
THEOREM ReadsBackCorrect == TextSpec => []ReadsBack
<1>1. Scanning /\ Going /\ Asked => ReadsBack
      BY GoingGives
<1>2. QED
      BY AlwaysGoing, <1>1, PTL

=============================================================================
