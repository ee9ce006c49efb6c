--------------------------- MODULE MysacRowProofs ---------------------------
(***************************************************************************)
(* Proofs about a row decoded in place, for rows of any length with cells  *)
(* of any length, cut anywhere.  The lemmas on sequences are those that    *)
(* the proofs about the text of a query need, too.                         *)
(***************************************************************************)
EXTENDS MysacRowProps, EsqlTextProofs

----------------------------------------------------------------------------
(* Where the cells of a row are in its packet                              *)

IsLayout(binary, cells, start) ==
  LET whole == PacketOf(binary, cells)
  IN /\ start \in [1 .. Len(cells) + 1 -> Nat]
     /\ start[1] = (IF binary THEN 1 + BitmapLen(cells) ELSE 0) /\ start[1] <= Len(whole)
     /\ start[Len(cells) + 1] = Len(whole)
     /\ \A k \in 1 .. Len(cells) :
          /\ start[k + 1] = start[k] + Len(cells[k].bytes) /\ start[k + 1] <= Len(whole)
          /\ \A x \in 1 .. Len(cells[k].bytes) : whole[start[k] + x] = cells[k].bytes[x]
     /\ binary => \A x \in 1 .. BitmapLen(cells) : whole[1 + x] = BitmapByte(cells, 8 * (x - 1))

\* The columns' bits are a byte.
LEMMA BitmapByteIs ==
  ASSUME NEW cells, NEW b
  PROVE  BitmapByte(cells, b) \in Byte
<1>1. \A c : NullBit(cells, c) \in {0, 1}
      BY DEF NullBit
<1>2. QED
      BY <1>1, SMT DEF BitmapByte, Byte

\* A packet is its null bits and its cells, each behind the one before.
LEMMA Layouts ==
  ASSUME NEW cells \in Seq(Cells), NEW binary \in BOOLEAN
  PROVE  PacketOf(binary, cells) \in Seq(Byte) /\ \E start : IsLayout(binary, cells, start)
<1> DEFINE N == Len(cells)
           seqs == [k \in DOMAIN cells |-> cells[k].bytes]
           head == IF binary THEN <<0>> \o Bitmap(cells) ELSE <<>>
           h == IF binary THEN 1 + BitmapLen(cells) ELSE 0
           tail == FlattenSeq(seqs)
           whole == PacketOf(binary, cells)
<1>1. N \in Nat /\ DOMAIN cells = 1 .. N /\ BitmapLen(cells) \in Nat
      BY DEF BitmapLen
<1>2. \A k \in 1 .. N : cells[k].bytes \in Seq(Byte)
      <2>1. \A k \in 1 .. N : cells[k] \in Cells
            BY <1>1
      <2>2. \A c \in Cells : c.bytes \in Seq(Byte)
            BY DEF Cells
      <2>3. QED
            BY <2>1, <2>2
<1>3. seqs \in Seq(Seq(Byte)) /\ Len(seqs) = N /\ \A k \in 1 .. N : seqs[k] = cells[k].bytes
      BY <1>1, <1>2
<1>4. Bitmap(cells) \in Seq(Byte) /\ Len(Bitmap(cells)) = BitmapLen(cells)
      /\ \A x \in 1 .. BitmapLen(cells) : Bitmap(cells)[x] = BitmapByte(cells, 8 * (x - 1))
      BY <1>1, BitmapByteIs DEF Bitmap
<1>5. head \in Seq(Byte) /\ Len(head) = h /\ h \in Nat
      /\ (binary => \A x \in 1 .. BitmapLen(cells) : head[1 + x] = BitmapByte(cells, 8 * (x - 1)))
      <2>1. CASE binary
            <3>1. <<0>> \in Seq(Byte) /\ Len(<<0>>) = 1
                  BY DEF Byte
            <3>2. QED
                  BY <1>1, <1>4, <2>1, <3>1
      <2>2. CASE ~binary
            BY <2>2
      <2>3. QED
            BY <2>1, <2>2
<1> HIDE DEF seqs, head, h
<1>6. tail \in Seq(Byte) /\ \E at : ArePlaces(seqs, at)
      BY <1>3, Places
<1>7. PICK at : ArePlaces(seqs, at)
      BY <1>6
<1>8. whole = head \o tail
      BY DEF PacketOf, head, seqs
<1>9. /\ at \in [0 .. N -> Nat] /\ at[0] = 0 /\ at[N] = Len(tail)
      /\ \A k \in 1 .. N : /\ at[k] = at[k - 1] + Len(cells[k].bytes) /\ at[k] <= Len(tail)
                           /\ \A x \in 1 .. Len(cells[k].bytes) : tail[at[k - 1] + x] = cells[k].bytes[x]
      <2>1. \A k \in 1 .. N : /\ at[k] = at[k - 1] + Len(seqs[k]) /\ at[k] <= Len(tail)
                              /\ \A x \in 1 .. Len(seqs[k]) : tail[at[k - 1] + x] = seqs[k][x]
            BY <1>3, <1>7 DEF ArePlaces
      <2>2. at \in [0 .. N -> Nat] /\ at[0] = 0 /\ at[N] = Len(tail)
            BY <1>3, <1>7 DEF ArePlaces
      <2>3. QED
            BY <1>3, <2>1, <2>2
<1> HIDE DEF whole, tail, N
<1>10. /\ whole \in Seq(Byte) /\ Len(whole) = h + Len(tail) /\ Len(tail) \in Nat
       /\ \A x \in 1 .. h : whole[x] = head[x]
       /\ \A x \in 1 .. Len(tail) : whole[h + x] = tail[x]
      <2>1. head \in Seq(Byte) /\ tail \in Seq(Byte) /\ Len(head) = h
            BY <1>5, <1>6
      <2>2. /\ head \o tail \in Seq(Byte) /\ Len(head \o tail) = Len(head) + Len(tail)
            /\ \A x \in 1 .. Len(head) : (head \o tail)[x] = head[x]
            /\ \A x \in 1 .. Len(tail) : (head \o tail)[Len(head) + x] = tail[x]
            BY <2>1
      <2>3. whole \in Seq(Byte) /\ Len(whole) = h + Len(tail)
            BY <1>8, <2>1, <2>2, Zenon
      <2>4. \A x \in 1 .. h : whole[x] = head[x]
            BY <1>8, <2>1, <2>2, Zenon
      <2>5. \A x \in 1 .. Len(tail) : whole[h + x] = tail[x]
            BY <1>8, <2>1, <2>2, Zenon
      <2>6. Len(tail) \in Nat
            BY <2>1
      <2>7. QED
            BY <2>3, <2>4, <2>5, <2>6
<1> DEFINE start == [k \in 1 .. N + 1 |-> h + at[k - 1]]
<1>11. \A k \in 1 .. N + 1 : k - 1 \in 0 .. N /\ at[k - 1] \in Nat
      BY <1>1, <1>9
<1>12. start \in [1 .. N + 1 -> Nat] /\ start[1] = h /\ start[N + 1] = Len(whole) /\ h <= Len(whole)
      <2>1. start \in [1 .. N + 1 -> Nat]
            BY <1>5, <1>11
      <2>2. 1 \in 1 .. N + 1 /\ N + 1 \in 1 .. N + 1 /\ 1 - 1 = 0 /\ (N + 1) - 1 = N
            BY <1>1
      <2>3. start[1] = h + at[0] /\ start[N + 1] = h + at[N]
            BY <2>2
      <2> HIDE DEF start
      <2>4. start[1] = h /\ start[N + 1] = Len(whole) /\ h <= Len(whole)
            BY <1>5, <1>9, <1>10, <2>3
      <2>5. QED
            BY <2>1, <2>4
<1>13. ASSUME NEW k \in 1 .. N
       PROVE  /\ start[k + 1] = start[k] + Len(cells[k].bytes) /\ start[k + 1] <= Len(whole)
              /\ \A x \in 1 .. Len(cells[k].bytes) : whole[start[k] + x] = cells[k].bytes[x]
      <2>1. k \in 1 .. N + 1 /\ k + 1 \in 1 .. N + 1 /\ (k + 1) - 1 = k /\ k - 1 \in 0 .. N /\ k \in 0 .. N
            BY <1>1
      <2>2. start[k + 1] = h + at[k] /\ start[k] = h + at[k - 1] /\ at[k] \in Nat /\ at[k - 1] \in Nat
            BY <1>9, <2>1
      <2> HIDE DEF start
      <2>3. Len(cells[k].bytes) \in Nat
            BY <1>2
      <2>6. at[k] = at[k - 1] + Len(cells[k].bytes) /\ at[k] <= Len(tail)
            BY <1>9
      <2>7. h \in Nat /\ Len(tail) \in Nat /\ Len(whole) = h + Len(tail)
            BY <1>5, <1>10
      <2>4. ASSUME NEW x \in 1 .. Len(cells[k].bytes)
            PROVE  whole[start[k] + x] = cells[k].bytes[x]
            <3>1. at[k - 1] + x \in 1 .. Len(tail) /\ start[k] + x = h + (at[k - 1] + x)
                  <4> DEFINE L == Len(cells[k].bytes)
                             u == at[k - 1]
                  <4>1. u \in Nat /\ L \in Nat /\ x \in 1 .. L /\ u + L <= Len(tail) /\ start[k] = h + u
                        BY <2>2, <2>3, <2>6
                  <4> HIDE DEF L, u
                  <4>2. u + x \in 1 .. Len(tail) /\ start[k] + x = h + (u + x)
                        BY <2>7, <4>1
                  <4>3. QED
                        BY <4>2 DEF u
            <3>2. whole[start[k] + x] = tail[at[k - 1] + x]
                  BY <1>10, <3>1
            <3>3. QED
                  BY <1>9, <3>2
      <2>5. start[k + 1] = start[k] + Len(cells[k].bytes) /\ start[k + 1] <= Len(whole)
            <3> DEFINE L == Len(cells[k].bytes)
                       u == at[k - 1]
                       v == at[k]
            <3>1. u \in Nat /\ v \in Nat /\ L \in Nat /\ v = u + L /\ v <= Len(tail)
                  /\ start[k] = h + u /\ start[k + 1] = h + v
                  BY <2>2, <2>3, <2>6
            <3> HIDE DEF L, u, v
            <3>2. h + v = (h + u) + L /\ h + v <= Len(whole)
                  BY <2>7, <3>1
            <3>3. QED
                  BY <3>1, <3>2 DEF L
      <2>8. QED
            BY <2>4, <2>5
<1>14. ASSUME binary, NEW x \in 1 .. BitmapLen(cells)
       PROVE  whole[1 + x] = BitmapByte(cells, 8 * (x - 1))
      <2>1. 1 + x \in 1 .. h
            BY <1>1, <1>14 DEF h
      <2>2. QED
            BY <1>5, <1>10, <1>14, <2>1
<1>15. IsLayout(binary, cells, start)
      <2> HIDE DEF start
      <2> QED
          BY <1>12, <1>13, <1>14 DEF IsLayout, N, whole, h
<1>16. QED
      BY <1>10, <1>15 DEF whole

----------------------------------------------------------------------------
(* The null bit of a column                                                *)

\* The bit looked at for column j is that of its cell.
LEMMA BitOfColumn ==
  ASSUME NEW cells \in Seq(Cells), NEW j \in 1 .. Len(cells)
  PROVE  /\ 1 + (j + 1) \div 8 \in 1 .. BitmapLen(cells)
         /\ (BitmapByte(cells, 8 * ((1 + (j + 1) \div 8) - 1)) \div Bit(j)) % 2 = 1 <=> cells[j].null
<1> DEFINE q == (j + 1) \div 8
           r == (j + 1) % 8
           s == BitmapByte(cells, 8 * q)
<1>1. j \in Nat /\ Len(cells) \in Nat
      OBVIOUS
<1>2. q \in Nat /\ r \in 0 .. 7 /\ j + 1 = 8 * q + r
      BY <1>1
<1>3. 1 + q \in 1 .. BitmapLen(cells) /\ (1 + q) - 1 = q
      BY <1>1 DEF BitmapLen
<1>4. \A c : NullBit(cells, c) \in {0, 1}
      BY DEF NullBit
<1>5. NullBit(cells, 8 * q + r) = 1 <=> cells[j].null
      <2>1. (j + 1) - 1 = j /\ j \in DOMAIN cells
            BY <1>1
      <2>2. NullBit(cells, j + 1) = 1 <=> cells[j].null
            BY <2>1 DEF NullBit
      <2>3. QED
            BY <1>2, <2>2
<1> HIDE DEF q, r
<1>6. (s \div Bit(j)) % 2 = NullBit(cells, 8 * q + r)
      <2>1. /\ (s \div 1) % 2 = NullBit(cells, 8 * q) /\ (s \div 2) % 2 = NullBit(cells, 8 * q + 1)
            /\ (s \div 4) % 2 = NullBit(cells, 8 * q + 2) /\ (s \div 8) % 2 = NullBit(cells, 8 * q + 3)
            /\ (s \div 16) % 2 = NullBit(cells, 8 * q + 4) /\ (s \div 32) % 2 = NullBit(cells, 8 * q + 5)
            /\ (s \div 64) % 2 = NullBit(cells, 8 * q + 6) /\ (s \div 128) % 2 = NullBit(cells, 8 * q + 7)
            <3> DEFINE b == 8 * q
            <3>1. s = NullBit(cells, b) + 2 * NullBit(cells, b + 1) + 4 * NullBit(cells, b + 2) + 8 * NullBit(cells, b + 3)
                      + 16 * NullBit(cells, b + 4) + 32 * NullBit(cells, b + 5) + 64 * NullBit(cells, b + 6)
                      + 128 * NullBit(cells, b + 7)
                  BY DEF BitmapByte
            <3> HIDE DEF s, b
            <3>2. /\ NullBit(cells, b) \in {0, 1} /\ NullBit(cells, b + 1) \in {0, 1} /\ NullBit(cells, b + 2) \in {0, 1}
                  /\ NullBit(cells, b + 3) \in {0, 1} /\ NullBit(cells, b + 4) \in {0, 1} /\ NullBit(cells, b + 5) \in {0, 1}
                  /\ NullBit(cells, b + 6) \in {0, 1} /\ NullBit(cells, b + 7) \in {0, 1}
                  BY <1>4
            <3>3. /\ (s \div 1) % 2 = NullBit(cells, b) /\ (s \div 2) % 2 = NullBit(cells, b + 1)
                  /\ (s \div 4) % 2 = NullBit(cells, b + 2) /\ (s \div 8) % 2 = NullBit(cells, b + 3)
                  /\ (s \div 16) % 2 = NullBit(cells, b + 4) /\ (s \div 32) % 2 = NullBit(cells, b + 5)
                  /\ (s \div 64) % 2 = NullBit(cells, b + 6) /\ (s \div 128) % 2 = NullBit(cells, b + 7)
                  <4> DEFINE c0 == NullBit(cells, b)
                             c1 == NullBit(cells, b + 1)
                             c2 == NullBit(cells, b + 2)
                             c3 == NullBit(cells, b + 3)
                             c4 == NullBit(cells, b + 4)
                             c5 == NullBit(cells, b + 5)
                             c6 == NullBit(cells, b + 6)
                             c7 == NullBit(cells, b + 7)
                  <4>1. /\ c0 \in {0, 1} /\ c1 \in {0, 1} /\ c2 \in {0, 1} /\ c3 \in {0, 1}
                        /\ c4 \in {0, 1} /\ c5 \in {0, 1} /\ c6 \in {0, 1} /\ c7 \in {0, 1}
                        /\ s = c0 + 2 * c1 + 4 * c2 + 8 * c3 + 16 * c4 + 32 * c5 + 64 * c6 + 128 * c7
                        BY <3>1, <3>2
                  <4> HIDE DEF c0, c1, c2, c3, c4, c5, c6, c7
                  <4>2. /\ (s \div 1) % 2 = c0 /\ (s \div 2) % 2 = c1 /\ (s \div 4) % 2 = c2 /\ (s \div 8) % 2 = c3
                        /\ (s \div 16) % 2 = c4 /\ (s \div 32) % 2 = c5 /\ (s \div 64) % 2 = c6 /\ (s \div 128) % 2 = c7
                        BY <4>1
                  <4>3. QED
                        BY <4>2 DEF c0, c1, c2, c3, c4, c5, c6, c7
            <3>4. QED
                  BY <3>3 DEF b
      <2> HIDE DEF s
      <2>2. 8 * q + 0 = 8 * q
            BY <1>2
      <2>3. CASE r = 0
            BY <2>1, <2>2, <2>3 DEF Bit, r
      <2>4. CASE r = 1
            BY <2>1, <2>4 DEF Bit, r
      <2>5. CASE r = 2
            BY <2>1, <2>5 DEF Bit, r
      <2>6. CASE r = 3
            BY <2>1, <2>6 DEF Bit, r
      <2>7. CASE r = 4
            BY <2>1, <2>7 DEF Bit, r
      <2>8. CASE r = 5
            BY <2>1, <2>8 DEF Bit, r
      <2>9. CASE r = 6
            BY <2>1, <2>9 DEF Bit, r
      <2>10. CASE r = 7
            BY <2>1, <2>10 DEF Bit, r
      <2>11. QED
            BY <1>2, <2>3, <2>4, <2>5, <2>6, <2>7, <2>8, <2>9, <2>10
<1>7. QED
      BY <1>3, <1>5, <1>6 DEF q

----------------------------------------------------------------------------
(* A length read from memory                                               *)

\* Memory holds these bytes from k on, as far as the packet goes.
Holds(mem, k, left, bytes) == \A x \in 1 .. Len(bytes) : x <= left => mem[k + x - 1] = bytes[x]

\* c is the length in front of the text, and the text is behind it.
InFront(c, bytes, text) ==
  /\ c.size \in Nat \ {0} /\ c.len = Len(text) /\ ~c.nul /\ c.size + c.len = Len(bytes)
  /\ \A x \in 1 .. Len(text) : text[x] = bytes[c.size + x]

LEMMA WordSizes == \A b : WordSize(b) \in {0, 2, 3, 8} /\ WordSize(NullMark) = 0
<1>1. ASSUME NEW b
      PROVE  WordSize(b) \in {0, 2, 3, 8}
      <2>1. CASE b = 252
            BY <2>1 DEF WordSize
      <2>2. CASE b = 253
            BY <2>2 DEF WordSize
      <2>3. CASE b = 254
            BY <2>3 DEF WordSize
      <2>4. CASE b \notin {252, 253, 254}
            BY <2>4 DEF WordSize
      <2>5. QED
            BY <2>1, <2>2, <2>3, <2>4
<1>2. WordSize(NullMark) = 0
      BY DEF WordSize, NullMark
<1>3. QED
      BY <1>1, <1>2

LEMMA LcbSame ==
  ASSUME NEW mem, NEW k \in Nat, NEW left \in Int, NEW bytes \in Seq(Byte),
         Holds(mem, k, left, bytes), Lcb(bytes, 1, Len(bytes)).size # -1
  PROVE  \/ Lcb(mem, k, left) = BadLcb /\ left < Len(bytes)
         \/ Lcb(mem, k, left) = Lcb(bytes, 1, Len(bytes))
<1> DEFINE n == WordSize(bytes[1])
<1>1. Len(bytes) \in Nat /\ n \in {0, 2, 3, 8}
      BY WordSizes
<1>2. 1 <= Len(bytes) /\ 1 + n <= Len(bytes)
      BY <1>1 DEF Lcb, BadLcb
<1>3. CASE left < 1
      BY <1>1, <1>2, <1>3 DEF Lcb
<1>4. CASE left >= 1
      <2>1. mem[k] = bytes[1]
            <3>1. 1 \in 1 .. Len(bytes) /\ k + 1 - 1 = k
                  BY <1>1, <1>2
            <3>2. QED
                  BY <1>4, <3>1 DEF Holds
      <2>2. CASE left < 1 + n
            BY <1>1, <1>2, <2>1, <2>2 DEF Lcb
      <2>3. CASE left >= 1 + n
            <3>1. Bytes(mem, k + 1, n) = Bytes(bytes, 1 + 1, n)
                  <4>1. ASSUME NEW x \in 1 .. n
                        PROVE  mem[k + 1 + x - 1] = bytes[1 + 1 + x - 1]
                        <5>1. x + 1 \in 1 .. Len(bytes) /\ x + 1 <= left /\ k + (x + 1) - 1 = k + 1 + x - 1
                              /\ 1 + 1 + x - 1 = x + 1
                              BY <1>1, <1>2, <2>3
                        <5>2. QED
                              BY <5>1 DEF Holds
                  <4>2. QED
                        BY <4>1 DEF Bytes
            <3>2. ~(left < 1 \/ left < 1 + WordSize(mem[k])) /\ ~(Len(bytes) < 1 \/ Len(bytes) < 1 + n)
                  BY <1>1, <1>2, <1>4, <2>1, <2>3
            <3>3. QED
                  BY <2>1, <3>1, <3>2 DEF Lcb
      <2>4. QED
            BY <1>1, <2>2, <2>3
<1>5. QED
      BY <1>3, <1>4

\* The length of a text is read, unless the packet ends before the text does.
LEMMA SizedReads ==
  ASSUME NEW mem, NEW k \in Nat, NEW left \in Int, NEW bytes \in Seq(Byte), NEW text \in Seq(Byte),
         Holds(mem, k, left, bytes), IsSized(bytes, text)
  PROVE  \/ Lcb(mem, k, left) = BadLcb /\ left < Len(bytes)
         \/ InFront(Lcb(mem, k, left), bytes, text)
<1> DEFINE c == Lcb(bytes, 1, Len(bytes))
<1>1. /\ c.size # -1 /\ ~c.nul /\ c.len = Len(text) /\ Len(bytes) = c.size + Len(text)
      /\ text = SubSeq(bytes, c.size + 1, Len(bytes))
      BY DEF IsSized
<1>2. c.size \in Nat \ {0}
      <2>1. WordSize(bytes[1]) \in {0, 2, 3, 8}
            BY WordSizes
      <2>2. QED
            BY <1>1, <2>1 DEF Lcb, BadLcb
<1> HIDE DEF c
<1>3. \A x \in 1 .. Len(text) : text[x] = bytes[c.size + x]
      <2> DEFINE z == c.size
      <2>1. z \in Nat /\ Len(bytes) = z + Len(text)
            BY <1>1, <1>2
      <2>2. text = SubSeq(bytes, z + 1, Len(bytes))
            BY <1>1
      <2> HIDE DEF z
      <2>3. Len(bytes) \in Nat /\ Len(text) \in Nat
            OBVIOUS
      <2>4. z + 1 \in 1 .. Len(bytes) + 1 /\ Len(bytes) \in (z + 1) - 1 .. Len(bytes)
            BY <2>1, <2>3
      <2>5. \A x \in 1 .. Len(bytes) - (z + 1) + 1 : SubSeq(bytes, z + 1, Len(bytes))[x] = bytes[(z + 1) + x - 1]
            BY <2>4, SubSeqProperties
      <2>6. ASSUME NEW x \in 1 .. Len(text)
            PROVE  text[x] = bytes[z + x]
            <3>1. x \in 1 .. Len(bytes) - (z + 1) + 1 /\ (z + 1) + x - 1 = z + x
                  BY <2>1, <2>3
            <3>2. QED
                  BY <2>2, <2>5, <3>1
      <2>7. QED
            BY <2>6 DEF z
<1>4. InFront(c, bytes, text)
      BY <1>1, <1>2, <1>3 DEF InFront
<1>5. QED
      BY <1>1, <1>4, LcbSame DEF c

\* A NULL in string form is one byte.
LEMMA NullReads ==
  ASSUME NEW mem, NEW k \in Nat, NEW left \in Int, Holds(mem, k, left, <<NullMark>>)
  PROVE  \/ Lcb(mem, k, left) = BadLcb /\ left < 1
         \/ Lcb(mem, k, left) = [size |-> 1, len |-> 0, nul |-> TRUE] /\ left >= 1
<1>1. CASE left < 1
      BY <1>1 DEF Lcb
<1>2. CASE left >= 1
      <2>1. mem[k] = NullMark
            BY <1>2 DEF Holds
      <2>2. WordSize(mem[k]) = 0
            BY <2>1, WordSizes
      <2>3. ~(left < 1 \/ left < 1 + WordSize(mem[k])) /\ 1 + WordSize(mem[k]) = 1 /\ ~(WordSize(mem[k]) > 0)
            BY <1>2, <2>2
      <2>4. QED
            BY <1>2, <2>1, <2>3 DEF Lcb
<1>3. QED
      BY <1>1, <1>2

----------------------------------------------------------------------------
(* Digits read from memory                                                 *)

\* There are n digits in memory from k on, and a byte that is none behind them.
DigitsEnd(mem, k, n) ==
  /\ k \in Nat /\ n \in Nat /\ PacketLen \in Nat /\ k + n <= PacketLen
  /\ mem[k + n] \notin Numerals(Type) /\ \A x \in 0 .. n - 1 : mem[k + x] \in Numerals(Type)

\* Up to the first byte that is no digit.
LEMMA StrtolIs ==
  ASSUME NEW mem, NEW k, NEW n, DigitsEnd(mem, k, n)
  PROVE  Strtol(mem, k).digits = Bytes(mem, k, n) /\ (Strtol(mem, k).whole <=> mem[k + n] = 0)
<1> DEFINE Is(m) == mem[k + m] \notin Numerals(Type) /\ \A x \in 0 .. m - 1 : mem[k + x] \in Numerals(Type)
           c == CHOOSE m \in 0 .. PacketLen - k : Is(m)
<1>1. n \in 0 .. PacketLen - k /\ Is(n) /\ n \in Nat /\ k \in Nat /\ PacketLen \in Nat
      BY DEF DigitsEnd
<1>2. \A m \in 0 .. PacketLen - k : Is(m) => m = n
      <2> TAKE m \in 0 .. PacketLen - k
      <2> HAVE Is(m)
      <2>1. m \in Nat
            BY <1>1
      <2>2. ~ m < n
            BY <1>1, <2>1
      <2>3. ~ n < m
            BY <1>1, <2>1
      <2>4. QED
            BY <1>1, <2>1, <2>2, <2>3
<1> HIDE DEF Is
<1>3. c \in 0 .. PacketLen - k /\ Is(c)
      BY <1>1
<1>4. c = n
      BY <1>2, <1>3
<1>5. QED
      BY <1>4 DEF Strtol, Is

\* A zero is behind the text: there is a first byte that is no digit.
LEMMA FirstOther ==
  ASSUME NEW text \in Seq(Byte), NEW chars
  PROVE  \E n \in 0 .. Len(text) : /\ n = Len(text) \/ text[n + 1] \notin chars
                                   /\ \A x \in 1 .. n : text[x] \in chars
<1> DEFINE T == {n \in 0 .. Len(text) : n = Len(text) \/ text[n + 1] \notin chars}
<1>1. Len(text) \in Nat
      OBVIOUS
<1>2. T \in SUBSET Nat /\ Len(text) \in T
      BY <1>1
<1>3. PICK n \in T : \A m \in T : n <= m
      <2> HIDE DEF T
      <2> QED
          BY <1>2, Least
<1>4. ASSUME NEW x \in 1 .. n
      PROVE  text[x] \in chars
      <2>1. x - 1 \in 0 .. Len(text) /\ ~ n <= x - 1 /\ (x - 1) + 1 = x
            BY <1>1, <1>2
      <2>2. x - 1 \notin T
            BY <1>3, <2>1
      <2>3. QED
            BY <2>1, <2>2
<1>5. QED
      BY <1>3, <1>4

\* Strtol has found the digits a text begins with.
Takes(s, text) ==
  \E n \in 0 .. Len(text) :
    /\ n = Len(text) \/ text[n + 1] \notin Numerals(Type)
    /\ MadeOf(Numerals(Type), SubSeq(text, 1, n))
    /\ s.digits = SubSeq(text, 1, n)
    /\ s.whole <=> n = Len(text)

\* What strtol finds in a text that is in memory from k on, with a zero behind it.
LEMMA StrtolReads ==
  ASSUME NEW mem, NEW k \in Nat, NEW text \in Seq(Byte), PacketLen \in Nat, k + Len(text) <= PacketLen,
         \A x \in 1 .. Len(text) : mem[k + x - 1] = text[x] /\ text[x] # 0,
         mem[k + Len(text)] = 0
  PROVE  Takes(Strtol(mem, k), text)
<1>1. PICK n \in 0 .. Len(text) : /\ n = Len(text) \/ text[n + 1] \notin Numerals(Type)
                                  /\ \A x \in 1 .. n : text[x] \in Numerals(Type)
      BY FirstOther
<1>2. Len(text) \in Nat /\ n \in Nat /\ k + n <= PacketLen
      OBVIOUS
<1>3. mem[k + n] \notin Numerals(Type) /\ (mem[k + n] = 0 <=> n = Len(text))
      <2>1. CASE n = Len(text)
            <3>1. 0 \notin Numerals(Type)
                  BY DEF Numerals, Digits, Point
            <3>2. mem[k + n] = 0
                  BY <2>1
            <3>3. QED
                  BY <2>1, <3>1, <3>2
      <2>2. CASE n # Len(text)
            <3>1. n + 1 \in 1 .. Len(text) /\ k + (n + 1) - 1 = k + n
                  BY <1>2, <2>2
            <3>2. QED
                  BY <1>1, <2>2, <3>1
      <2>3. QED
            BY <2>1, <2>2
<1>4. \A x \in 0 .. n - 1 : mem[k + x] \in Numerals(Type)
      <2> TAKE x \in 0 .. n - 1
      <2>1. x + 1 \in 1 .. n /\ x + 1 \in 1 .. Len(text) /\ k + (x + 1) - 1 = k + x
            BY <1>2
      <2>2. QED
            BY <1>1, <2>1
<1>5. Strtol(mem, k).digits = Bytes(mem, k, n) /\ (Strtol(mem, k).whole <=> mem[k + n] = 0)
      <2>1. DigitsEnd(mem, k, n)
            BY <1>2, <1>3, <1>4 DEF DigitsEnd
      <2>2. QED
            BY <2>1, StrtolIs
<1>6. /\ SubSeq(text, 1, n) \in Seq(Byte) /\ Len(SubSeq(text, 1, n)) = n
      /\ \A x \in 1 .. n : SubSeq(text, 1, n)[x] = text[x]
      BY <1>2
<1>7. Bytes(mem, k, n) = SubSeq(text, 1, n)
      <2>1. \A x \in 1 .. n : mem[k + x - 1] = SubSeq(text, 1, n)[x]
            BY <1>2, <1>6
      <2>2. DOMAIN SubSeq(text, 1, n) = 1 .. n /\ SubSeq(text, 1, n) = [x \in 1 .. n |-> SubSeq(text, 1, n)[x]]
            BY <1>2, <1>6
      <2>3. QED
            BY <2>1, <2>2 DEF Bytes
<1>8. MadeOf(Numerals(Type), SubSeq(text, 1, n))
      BY <1>1, <1>2, <1>6 DEF MadeOf
<1>9. Strtol(mem, k).digits = SubSeq(text, 1, n) /\ (Strtol(mem, k).whole <=> n = Len(text))
      BY <1>3, <1>5, <1>7
<1>10. QED
      BY <1>1, <1>8, <1>9 DEF Takes

\* The digits a year is made of.
LEMMA LeadingIs ==
  ASSUME NEW text \in Seq(Byte), NEW n \in 0 .. Len(text),
         n = Len(text) \/ text[n + 1] \notin Digits, MadeOf(Digits, SubSeq(text, 1, n))
  PROVE  Leading(text) = SubSeq(text, 1, n)
<1> DEFINE Is(m) == MadeOf(Digits, SubSeq(text, 1, m)) /\ (m = Len(text) \/ text[m + 1] \notin Digits)
           c == CHOOSE m \in 0 .. Len(text) : Is(m)
<1>1. Is(n)
      OBVIOUS
<1>2. \A m \in 0 .. Len(text) : MadeOf(Digits, SubSeq(text, 1, m)) => \A x \in 1 .. m : text[x] \in Digits
      <2> TAKE m \in 0 .. Len(text)
      <2>1. Len(SubSeq(text, 1, m)) = m /\ SubSeq(text, 1, m) \in Seq(Byte)
            /\ \A x \in 1 .. m : SubSeq(text, 1, m)[x] = text[x]
            OBVIOUS
      <2>2. DOMAIN SubSeq(text, 1, m) = 1 .. m
            BY <2>1
      <2>3. QED
            BY <2>1, <2>2 DEF MadeOf
<1>3. \A m \in 0 .. Len(text) : Is(m) => m = n
      <2> TAKE m \in 0 .. Len(text)
      <2> HAVE Is(m)
      <2>1. ~ m < n
            BY <1>2
      <2>2. ~ n < m
            BY <1>2
      <2>3. QED
            BY <2>1, <2>2
<1> HIDE DEF Is
<1>4. c \in 0 .. Len(text) /\ Is(c)
      BY <1>1
<1>5. c = n
      BY <1>3, <1>4
<1>6. QED
      BY <1>5 DEF Leading, Is

----------------------------------------------------------------------------
(* The pieces of a number or date in string form                           *)

\* The pieces of a text of this length end at these places, one behind the other.
IsEnds(ends, len) ==
  /\ Len(ends) \in Nat \ {0} /\ DOMAIN ends = 1 .. Len(ends)
  /\ \A x \in 1 .. Len(ends) : ends[x] \in 0 .. len
  /\ ends[Len(ends)] = len
  /\ \A x, z \in 1 .. Len(ends) : z < x => ends[z] < ends[x]

\* A text of a type the decoder knows, and of a length that type has.
Readable(type, len) ==
  \/ type \in Numbers
  \/ type \in {"time", "year", "datetime", "date"} /\ len = Last(Ends(type, len))

LEMMA EndsAre ==
  ASSUME NEW type, NEW len \in Nat, Readable(type, len)
  PROVE  IsEnds(Ends(type, len), len) /\ (type \in Numbers \cup {"year"} => Len(Ends(type, len)) = 1)
<1> DEFINE e == Ends(type, len)
<1>1. CASE type \in Numbers
      <2>1. e = <<len>>
            BY <1>1 DEF Numbers, Ends
      <2>2. QED
            BY <2>1 DEF IsEnds
<1>2. CASE type = "year" /\ len = Last(e)
      <2>1. e = <<4>>
            BY <1>2 DEF Ends
      <2>2. len = 4
            BY <1>2, <2>1 DEF Last
      <2>3. QED
            BY <2>1, <2>2 DEF IsEnds
<1>3. CASE type = "time" /\ len = Last(e)
      <2>1. e = <<2, 5, 8>>
            BY <1>3 DEF Ends
      <2>2. len = 8
            BY <1>3, <2>1 DEF Last
      <2>3. QED
            BY <1>3, <2>1, <2>2 DEF IsEnds, Numbers
<1>4. CASE type = "date" /\ len = Last(e)
      <2>1. e = <<4, 7, 10>>
            BY <1>4 DEF Ends
      <2>2. len = 10
            BY <1>4, <2>1 DEF Last
      <2>3. QED
            BY <1>4, <2>1, <2>2 DEF IsEnds, Numbers
<1>5. CASE type = "datetime" /\ len = Last(e)
      <2>1. e = <<4, 7, 10, 13, 16, 19>>
            BY <1>5 DEF Ends
      <2>2. Len(e) = 6 /\ e[6] = 19 /\ DOMAIN e = 1 .. 6
            BY <2>1
      <2>3. e[1] = 4 /\ e[2] = 7 /\ e[3] = 10 /\ e[4] = 13 /\ e[5] = 16
            BY <2>1
      <2> HIDE DEF e
      <2>4. len = 19
            BY <1>5, <2>2 DEF Last
      <2>5. 1 .. 6 = {1, 2, 3, 4, 5, 6}
            OBVIOUS
      <2>6. IsEnds(e, len)
            BY <2>2, <2>3, <2>4, <2>5 DEF IsEnds
      <2>7. type \notin Numbers \cup {"year"}
            BY <1>5 DEF Numbers
      <2>8. QED
            BY <2>6, <2>7 DEF e
<1>6. QED
      BY <1>1, <1>2, <1>3, <1>4, <1>5 DEF Readable

\* Where piece x begins.
From(ends, x) == IF x = 1 THEN 0 ELSE ends[x - 1] + 1

\* Memory holds the text, with a zero at the end of each piece.
Ended(mem, start, text, ends) ==
  \A y \in 0 .. Len(text) :
    IF \E x \in 1 .. Len(ends) : y = ends[x] THEN mem[start + y] = 0
    ELSE mem[start + y] = text[y + 1]

LEMMA PieceReads ==
  ASSUME NEW mem, NEW start \in Nat, NEW text \in Seq(Byte), NEW ends, IsEnds(ends, Len(text)),
         PacketLen \in Nat, start + Len(text) <= PacketLen, Ended(mem, start, text, ends),
         \A x \in 1 .. Len(text) : text[x] # 0, NEW x \in 1 .. Len(ends)
  PROVE  LET s == Strtol(mem, start + From(ends, x))
             piece == PiecesOf(text, ends)[x]
         IN /\ s.whole <=> MadeOf(Numerals(Type), piece)
            /\ s.whole => s.digits = piece
            /\ Len(ends) = 1 /\ Numerals(Type) = Digits => s.digits = Leading(text)
<1> DEFINE b == From(ends, x)
           e == ends[x]
           piece == SubSeq(text, b + 1, e)
           s == Strtol(mem, start + b)
<1>1. Len(text) \in Nat /\ Len(ends) \in Nat \ {0} /\ e \in 0 .. Len(text)
      BY DEF IsEnds
<1>2. b \in Nat /\ b <= e /\ (x # 1 => ends[x - 1] = b - 1) /\ (x = 1 => b = 0)
      <2>1. CASE x = 1
            BY <1>1, <2>1 DEF From
      <2>2. CASE x # 1
            <3>1. x - 1 \in 1 .. Len(ends) /\ x - 1 < x
                  BY <1>1, <2>2
            <3>2. ends[x - 1] \in 0 .. Len(text) /\ ends[x - 1] < e
                  BY <3>1 DEF IsEnds
            <3>3. QED
                  BY <1>1, <2>2, <3>2 DEF From
      <2>3. QED
            BY <2>1, <2>2
<1>3. PiecesOf(text, ends)[x] = piece
      <2>1. (IF x = 1 THEN 1 ELSE ends[x - 1] + 2) = b + 1
            <3>1. x # 1 => ends[x - 1] + 2 = b + 1
                  BY <1>2
            <3>2. QED
                  BY <1>2, <3>1
      <2>2. x \in DOMAIN ends
            BY DEF IsEnds
      <2>3. PiecesOf(text, ends)[x] = SubSeq(text, IF x = 1 THEN 1 ELSE ends[x - 1] + 2, ends[x])
            BY <2>2 DEF PiecesOf
      <2>4. QED
            BY <2>1, <2>3
\* No other piece ends within this one.
<1>4. ASSUME NEW y \in b .. e - 1
      PROVE  ~ \E z \in 1 .. Len(ends) : y = ends[z]
      <2> SUFFICES ASSUME NEW z \in 1 .. Len(ends), y = ends[z]
                   PROVE  FALSE
          OBVIOUS
      <2>1. y \in Int /\ y < e /\ b <= y
            BY <1>1, <1>2
      <2>2. z # x /\ ~ x < z
            <3>1. x < z => e < ends[z]
                  BY DEF IsEnds
            <3>2. z = x => ends[z] = e
                  OBVIOUS
            <3> HIDE DEF e
            <3>3. QED
                  BY <1>1, <2>1, <3>1, <3>2
      <2>3. z < x /\ x # 1 /\ x - 1 \in 1 .. Len(ends)
            BY <1>1, <2>2
      <2>4. ends[x - 1] = b - 1
            BY <1>2, <2>3
      <2>5. z # x - 1
            BY <1>2, <2>1, <2>4
      <2>6. z < x - 1
            BY <2>3, <2>5
      <2>7. ends[z] < ends[x - 1]
            BY <2>3, <2>6 DEF IsEnds
      <2>8. QED
            BY <1>2, <2>1, <2>4, <2>7
<1> HIDE DEF b, e
<1>5. /\ piece \in Seq(Byte) /\ Len(piece) = e - b
      /\ \A y \in 1 .. e - b : piece[y] = text[b + y]
      <2>1. b + 1 \in 1 .. Len(text) + 1 /\ e \in (b + 1) - 1 .. Len(text) /\ e - (b + 1) + 1 = e - b
            BY <1>1, <1>2
      <2>2. /\ piece \in Seq(Byte) /\ Len(piece) = e - (b + 1) + 1
            /\ \A y \in 1 .. e - (b + 1) + 1 : piece[y] = text[(b + 1) + y - 1]
            <3> DEFINE from == b + 1
            <3>1. \A i \in from .. e : text[i] \in Byte
                  BY <1>1, <1>2, <2>1
            <3>2. from \in Int /\ e \in Int /\ (from <= e \/ e - from + 1 = 0)
                  BY <1>1, <1>2
            <3>3. piece = SubSeq(text, from, e)
                  OBVIOUS
            <3> HIDE DEF from
            <3>4. /\ SubSeq(text, from, e) \in Seq(Byte)
                  /\ Len(SubSeq(text, from, e)) = IF from <= e THEN e - from + 1 ELSE 0
                  /\ \A y \in 1 .. e - from + 1 : SubSeq(text, from, e)[y] = text[from + y - 1]
                  BY <3>1, <3>2, SubSeqProperties
            <3>5. Len(SubSeq(text, from, e)) = e - from + 1
                  BY <3>2, <3>4
            <3> HIDE DEF piece
            <3>6. QED
                  <4>1. /\ piece \in Seq(Byte) /\ Len(piece) = e - from + 1
                        /\ \A y \in 1 .. e - from + 1 : piece[y] = text[from + y - 1]
                        BY <3>3, <3>4, <3>5
                  <4>2. QED
                        BY <4>1 DEF from
      <2>3. \A y \in 1 .. e - b : (b + 1) + y - 1 = b + y
            BY <1>1, <1>2
      <2>4. QED
            BY <2>1, <2>2, <2>3
<1>6. ASSUME NEW y \in 1 .. Len(piece)
      PROVE  mem[(start + b) + y - 1] = piece[y] /\ piece[y] # 0
      <2>1. y \in 1 .. e - b /\ b + y \in 1 .. Len(text) /\ b + y - 1 \in b .. e - 1 /\ b + y - 1 \in 0 .. Len(text)
            /\ (start + b) + y - 1 = start + (b + y - 1) /\ (b + y - 1) + 1 = b + y
            BY <1>1, <1>2, <1>5
      <2>2. mem[start + (b + y - 1)] = text[(b + y - 1) + 1]
            BY <1>4, <2>1 DEF Ended
      <2>3. QED
            BY <1>5, <2>1, <2>2
<1>7. mem[(start + b) + Len(piece)] = 0
      <2>1. (start + b) + Len(piece) = start + e
            BY <1>1, <1>2, <1>5
      <2>2. mem[start + e] = 0
            BY <1>1 DEF Ended, e
      <2>3. QED
            BY <2>1, <2>2
<1>8. start + b \in Nat /\ (start + b) + Len(piece) <= PacketLen
      BY <1>1, <1>2, <1>5
<1> HIDE DEF piece
<1>9. PICK n \in 0 .. Len(piece) :
        /\ n = Len(piece) \/ piece[n + 1] \notin Numerals(Type)
        /\ MadeOf(Numerals(Type), SubSeq(piece, 1, n))
        /\ s.digits = SubSeq(piece, 1, n)
        /\ s.whole <=> n = Len(piece)
      <2>1. piece \in Seq(Byte)
            BY <1>5
      <2>2. Takes(s, piece)
            BY <1>6, <1>7, <1>8, <2>1, StrtolReads
      <2>3. QED
            BY <2>2 DEF Takes
<1>10. SubSeq(piece, 1, Len(piece)) = piece /\ Len(piece) \in Nat /\ DOMAIN piece = 1 .. Len(piece)
      BY <1>5
<1>11. s.whole <=> MadeOf(Numerals(Type), piece)
      <2>1. CASE n = Len(piece)
            BY <1>9, <1>10, <2>1
      <2>2. CASE n # Len(piece)
            <3>1. n + 1 \in DOMAIN piece /\ piece[n + 1] \notin Numerals(Type)
                  <4>1. n + 1 \in 1 .. Len(piece)
                        <5> DEFINE l == Len(piece)
                        <5>1. l \in Nat /\ n \in 0 .. l /\ n # l
                              BY <1>10, <2>2
                        <5> HIDE DEF l
                        <5>2. n + 1 \in 1 .. l
                              BY <5>1
                        <5>3. QED
                              BY <5>2 DEF l
                  <4>2. QED
                        BY <1>9, <1>10, <2>2, <4>1
            <3>2. ~MadeOf(Numerals(Type), piece)
                  BY <3>1 DEF MadeOf
            <3>3. QED
                  BY <1>9, <2>2, <3>2
      <2>3. QED
            BY <2>1, <2>2
<1>12. s.whole => s.digits = piece
      BY <1>9, <1>10
<1>13. Len(ends) = 1 /\ Numerals(Type) = Digits => s.digits = Leading(text)
      <2> SUFFICES ASSUME Len(ends) = 1, Numerals(Type) = Digits
                   PROVE  s.digits = Leading(text)
          OBVIOUS
      <2>1. x = 1 /\ e = Len(text) /\ b = 0
            BY <1>2 DEF IsEnds, e
      <2>2. piece = text
            <3>1. SubSeq(text, 0 + 1, Len(text)) = text
                  OBVIOUS
            <3>2. QED
                  BY <2>1, <3>1 DEF piece
      <2>3. SubSeq(text, 1, n) = Leading(text)
            BY <1>9, <2>2, LeadingIs
      <2>4. QED
            BY <1>9, <2>2, <2>3
<1>14. QED
      BY <1>3, <1>11, <1>12, <1>13 DEF b

----------------------------------------------------------------------------
(* The invariant of a row                                                  *)

RowFields == {"binary", "sent", "cut", "packet", "mem", "j", "i", "wh", "data", "reach", "at"}

Whole == PacketOf(row.binary, row.sent)
StartAt(k) == (CHOOSE start : IsLayout(row.binary, row.sent, start))[k]

\* The row is one of those sent, cut.
Shape ==
  /\ DOMAIN row = RowFields /\ row.binary \in BOOLEAN
  /\ row.at \in {"bitmap", "column", "done", "error"}
  /\ row.binary => row.sent \in BinaryRows
  /\ ~row.binary => row.sent \in StringRows
  /\ row.cut \in Nat /\ row.cut <= Len(Whole)
  /\ row.packet = SubSeq(Whole, 1, Len(Whole) - row.cut)
  /\ row.mem = [k \in 0 .. PacketLen |-> row.mem[k]]
  /\ row.data = [k \in 1 .. Len(row.sent) |-> row.data[k]]
  /\ row.j \in 1 .. Len(row.sent) + 1
  /\ row.i \in Nat /\ row.wh \in 0 .. PacketLen /\ row.reach \in Nat

\* A column is what it was sent as: MeansAsSent, of one column.
Right(k) ==
  LET d == row.data[k]
  IN IF d.is = "text"
       THEN /\ d.at \in Nat /\ d.len \in Nat
            /\ TextAt(d) = Sent(k) /\ row.mem[d.at + d.len] = 0
            /\ d.at + d.len < row.wh
       ELSE \/ d = Meaning(k)
            \/ row.binary /\ TypeOf(k) \in {"year", "datetime", "date"}
                 /\ (Sent(k) = <<>> \/ row.cut > 0)

\* The number or date cannot be read to its end.
Unreadable(k) == NotMadeOf(Numerals(TypeOf(k)), k)

\* RefusesBroken, with what the code cannot read for what a server does not write.
Separates ==
  /\ row.at = "error" => row.cut > 0 \/ \E k \in DOMAIN row.sent : Unreadable(k)
  /\ row.at = "done" => /\ row.cut = 0 \/ (row.binary /\ \E k \in DOMAIN row.sent : TypeOf(k) = "year")
                        /\ \A k \in DOMAIN row.sent : ~Unreadable(k)

YearBefore(k) == row.binary /\ \E y \in 1 .. k - 1 : TypeOf(y) = "year"

\* What is still to be read is as it came.
Unread == \A k \in row.i .. PacketLen - 1 : row.mem[k] = row.packet[k + 1]

\* The columns to come have been given nothing.
Fresh == \A k \in row.j .. Len(row.sent) : row.data[k] = Unset

\* A column is about to be read.
Reading ==
  /\ row.i = StartAt(row.j) /\ row.wh <= row.i /\ Unread /\ Fresh
  /\ row.i <= PacketLen \/ YearBefore(row.j)
  /\ row.binary => 1 + BitmapLen(row.sent) <= PacketLen
  /\ \A k \in 1 .. row.j - 1 : ~Unreadable(k)

RowInv ==
  /\ Shape /\ InPacket /\ Separates
  /\ row.at = "bitmap" => row.binary /\ row.i = 0 /\ row.wh = 0 /\ row.j = 1 /\ Unread /\ Fresh
  /\ row.at = "column" => Reading
  /\ row.at \in {"column", "done"} => \A k \in 1 .. row.j - 1 : Right(k)

----------------------------------------------------------------------------

LEMMA SentIs ==
  ASSUME Shape
  PROVE  /\ row.sent \in Seq(Cells) /\ Len(row.sent) \in Nat /\ DOMAIN row.sent = 1 .. Len(row.sent)
         /\ row.binary => \A k \in 1 .. Len(row.sent) : IsBinaryCell(row.sent[k])
         /\ ~row.binary => \A k \in 1 .. Len(row.sent) : IsStringCell(row.sent[k])
<1>1. row.sent \in Seq(Cells)
      BY RowAssumption DEF Shape
<1>2. Len(row.sent) \in Nat /\ DOMAIN row.sent = 1 .. Len(row.sent)
      BY <1>1
<1>3. row.binary => \A k \in DOMAIN row.sent : IsBinaryCell(row.sent[k])
      BY RowAssumption DEF Shape
<1>4. ~row.binary => \A k \in DOMAIN row.sent : IsStringCell(row.sent[k])
      BY RowAssumption DEF Shape
<1>5. QED
      BY <1>1, <1>2, <1>3, <1>4

LEMMA PacketIs ==
  ASSUME Shape
  PROVE  /\ Whole \in Seq(Byte) /\ Len(Whole) \in Nat
         /\ PacketLen \in Nat /\ Len(Whole) = PacketLen + row.cut
         /\ \A x \in 1 .. PacketLen : row.packet[x] = Whole[x]
         /\ IsLayout(row.binary, row.sent, CHOOSE start : IsLayout(row.binary, row.sent, start))
<1>1. row.sent \in Seq(Cells) /\ row.binary \in BOOLEAN
      BY SentIs DEF Shape
<1>2. Whole \in Seq(Byte) /\ \E start : IsLayout(row.binary, row.sent, start)
      BY <1>1, Layouts DEF Whole
<1>3. Len(Whole) \in Nat
      BY <1>2
<1>4. /\ Len(row.packet) = Len(Whole) - row.cut /\ row.cut \in Nat /\ row.cut <= Len(Whole)
      /\ \A x \in 1 .. Len(Whole) - row.cut : row.packet[x] = Whole[x]
      <2>1. row.cut \in Nat /\ row.cut <= Len(Whole) /\ row.packet = SubSeq(Whole, 1, Len(Whole) - row.cut)
            BY DEF Shape
      <2>2. 1 \in 1 .. Len(Whole) + 1 /\ Len(Whole) - row.cut \in 1 - 1 .. Len(Whole)
            /\ (Len(Whole) - row.cut) - 1 + 1 = Len(Whole) - row.cut
            BY <1>3, <2>1
      <2>3. /\ Len(SubSeq(Whole, 1, Len(Whole) - row.cut)) = (Len(Whole) - row.cut) - 1 + 1
            /\ \A x \in 1 .. (Len(Whole) - row.cut) - 1 + 1 :
                 SubSeq(Whole, 1, Len(Whole) - row.cut)[x] = Whole[1 + x - 1]
            BY <1>2, <2>2, SubSeqProperties
      <2>4. \A x \in 1 .. Len(Whole) - row.cut : 1 + x - 1 = x
            OBVIOUS
      <2>5. QED
            BY <2>1, <2>2, <2>3, <2>4
<1>5. QED
      BY <1>2, <1>3, <1>4 DEF PacketLen

\* The column that is about to be read.
LEMMA ColumnIs ==
  ASSUME Shape, Reading, AtColumn
  PROVE  LET c == row.sent[row.j]
         IN /\ row.j \in 1 .. Len(row.sent) /\ c \in Cells
            /\ c.cell \in Seq(Byte) /\ c.bytes \in Seq(Byte) /\ c.null \in BOOLEAN
            /\ row.binary => IsBinaryCell(c)
            /\ ~row.binary => IsStringCell(c)
            /\ Holds(row.mem, row.i, PacketLen - row.i, c.bytes)
            /\ StartAt(row.j + 1) = row.i + Len(c.bytes) /\ StartAt(row.j + 1) <= PacketLen + row.cut
            /\ row.binary => (BitSet <=> c.null)
<1> DEFINE c == row.sent[row.j]
           start == CHOOSE start : IsLayout(row.binary, row.sent, start)
<1>1. row.sent \in Seq(Cells) /\ Len(row.sent) \in Nat /\ row.j \in 1 .. Len(row.sent)
      <2>1. row.j \in 1 .. Len(row.sent) + 1 /\ row.j <= Len(row.sent)
            BY DEF Shape, AtColumn
      <2>2. QED
            BY <2>1, SentIs
<1>2. c \in Cells
      BY <1>1
<1>3. c.cell \in Seq(Byte) /\ c.bytes \in Seq(Byte) /\ c.null \in BOOLEAN
      BY <1>2 DEF Cells
<1>4. (row.binary => IsBinaryCell(c)) /\ (~row.binary => IsStringCell(c))
      BY <1>1, SentIs
<1>5. IsLayout(row.binary, row.sent, start) /\ StartAt(row.j) = start[row.j] /\ StartAt(row.j + 1) = start[row.j + 1]
      BY PacketIs DEF StartAt
<1>6. /\ start[row.j + 1] = start[row.j] + Len(c.bytes) /\ start[row.j + 1] <= Len(Whole)
      /\ \A x \in 1 .. Len(c.bytes) : Whole[start[row.j] + x] = c.bytes[x]
      BY <1>1, <1>5 DEF IsLayout, Whole
<1> HIDE DEF start
<1>7. row.i = start[row.j] /\ row.i \in Nat /\ Unread
      BY <1>5 DEF Reading, Shape
<1>8. Holds(row.mem, row.i, PacketLen - row.i, c.bytes)
      <2> SUFFICES ASSUME NEW x \in 1 .. Len(c.bytes), x <= PacketLen - row.i
                   PROVE  row.mem[row.i + x - 1] = c.bytes[x]
          BY DEF Holds
      <2>1. PacketLen \in Nat /\ Len(c.bytes) \in Nat
            BY <1>3, PacketIs
      <2>2. row.i + x - 1 \in row.i .. PacketLen - 1 /\ (row.i + x - 1) + 1 = row.i + x /\ row.i + x \in 1 .. PacketLen
            BY <1>7, <2>1
      <2>3. row.mem[row.i + x - 1] = row.packet[row.i + x]
            BY <1>7, <2>2 DEF Unread
      <2>4. row.packet[row.i + x] = Whole[row.i + x]
            BY <2>2, PacketIs
      <2>5. QED
            BY <1>6, <1>7, <2>3, <2>4
<1>9. StartAt(row.j + 1) = row.i + Len(c.bytes) /\ StartAt(row.j + 1) <= PacketLen + row.cut
      BY <1>5, <1>6, <1>7, PacketIs
<1>10. ASSUME row.binary
       PROVE  BitSet <=> c.null
      <2> DEFINE q == 1 + (row.j + 1) \div 8
      <2>1. q \in 1 .. BitmapLen(row.sent)
            /\ ((BitmapByte(row.sent, 8 * (q - 1)) \div Bit(row.j)) % 2 = 1 <=> row.sent[row.j].null)
            BY <1>1, BitOfColumn
      <2>2. 2 + (row.j + 1) \div 8 = 1 + q
            BY <1>1
      <2> HIDE DEF q
      <2>3. BitmapLen(row.sent) \in Nat /\ 1 + BitmapLen(row.sent) <= PacketLen /\ PacketLen \in Nat
            <3>1. BitmapLen(row.sent) \in Nat
                  <4> DEFINE l == Len(row.sent)
                  <4>1. l \in Nat
                        BY <1>1
                  <4> HIDE DEF l
                  <4>2. (l + 9) \div 8 \in Nat
                        BY <4>1
                  <4>3. QED
                        BY <4>2 DEF l, BitmapLen
            <3>2. 1 + BitmapLen(row.sent) <= PacketLen
                  BY <1>10 DEF Reading
            <3>3. QED
                  BY <3>1, <3>2, PacketIs
      <2>4. 1 + q \in 1 .. PacketLen
            BY <2>1, <2>3
      <2>5. Whole[1 + q] = BitmapByte(row.sent, 8 * (q - 1))
            BY <1>5, <1>10, <2>1 DEF IsLayout, Whole
      <2>6. row.packet[2 + (row.j + 1) \div 8] = BitmapByte(row.sent, 8 * (q - 1))
            BY <2>2, <2>4, <2>5, PacketIs
      <2>7. QED
            BY <2>1, <2>6 DEF BitSet
<1>11. QED
      BY <1>1, <1>2, <1>3, <1>4, <1>8, <1>9, <1>10

\* The row is still the same row.
SameRow ==
  /\ DOMAIN row' = RowFields
  /\ row'.binary = row.binary /\ row'.sent = row.sent /\ row'.cut = row.cut /\ row'.packet = row.packet
  /\ row'.mem = [k \in 0 .. PacketLen |-> row'.mem[k]]

\* Nothing is read or written behind the packet, but for a year or a date.
ReachOk(reach) ==
  /\ reach \in Nat
  /\ reach <= PacketLen \/ (row.binary /\ \E k \in DOMAIN row.sent : TypeOf(k) \in {"year", "datetime", "date"})

\* Column row.j is decoded, and the next one is about to be.
Decodes ==
  /\ SameRow /\ row'.at = "column" /\ row'.j = row.j + 1 /\ row'.i = StartAt(row.j + 1)
  /\ row'.wh \in row.wh .. PacketLen /\ row'.wh <= row'.i
  /\ \A k \in 0 .. PacketLen : k < row.wh \/ (k >= row'.i /\ k < PacketLen) => row'.mem[k] = row.mem[k]
  /\ row'.data = [row.data EXCEPT ![row.j] = row'.data[row.j]]
  /\ ReachOk(row'.reach)
  /\ \A k : k = row.j => Right(k)' /\ ~Unreadable(k)
  /\ row'.i <= PacketLen \/ YearBefore(row.j + 1)

\* The row is refused, with reason.
Refuses ==
  /\ SameRow /\ row'.at = "error" /\ row'.j = row.j /\ row'.i = row.i /\ row'.wh = row.wh /\ row'.data = row.data
  /\ ReachOk(row'.reach)
  /\ row.cut > 0 \/ Unreadable(row.j)

LEMMA SameIs ==
  ASSUME SameRow
  PROVE  /\ PacketLen' = PacketLen /\ Whole' = Whole /\ \A k : StartAt(k)' = StartAt(k)
         /\ \A k : Sent(k)' = Sent(k) /\ TypeOf(k)' = TypeOf(k)
         /\ \A k : Meaning(k)' = Meaning(k)
         /\ \A k : Unreadable(k)' <=> Unreadable(k)
         /\ \A k : YearBefore(k)' <=> YearBefore(k)
<1>1. row'.binary = row.binary /\ row'.sent = row.sent /\ row'.packet = row.packet
      BY DEF SameRow
<1>2. PacketLen' = PacketLen /\ Whole' = Whole
      BY <1>1 DEF PacketLen, Whole
<1>3. ASSUME NEW k
      PROVE  /\ StartAt(k)' = StartAt(k) /\ Sent(k)' = Sent(k) /\ TypeOf(k)' = TypeOf(k)
      BY <1>1 DEF StartAt, Sent, TypeOf
<1>4. ASSUME NEW k
      PROVE  Meaning(k)' = Meaning(k)
      BY <1>1, <1>3 DEF Meaning
<1>5. ASSUME NEW k
      PROVE  Unreadable(k)' <=> Unreadable(k)
      BY <1>1, <1>3 DEF Unreadable, NotMadeOf
<1>6. ASSUME NEW k
      PROVE  YearBefore(k)' <=> YearBefore(k)
      BY <1>1, <1>3 DEF YearBefore
<1>7. QED
      BY <1>2, <1>3, <1>4, <1>5, <1>6

\* What has been decoded stays right.
LEMMA StaysRight ==
  ASSUME RowInv, AtColumn, Decodes, NEW k \in 1 .. row.j - 1
  PROVE  Right(k)'
<1>1. Shape /\ Right(k) /\ SameRow /\ row.j \in 1 .. Len(row.sent)
      BY SentIs DEF RowInv, AtColumn, Decodes, Shape
<1>2. row'.data[k] = row.data[k]
      <2>1. k \in 1 .. Len(row.sent) /\ k # row.j
            BY <1>1, SentIs
      <2>2. k \in DOMAIN row.data
            BY <1>1, <2>1 DEF Shape
      <2>3. QED
            BY <2>1, <2>2 DEF Decodes
<1>3. CASE row.data[k].is = "text"
      <2> DEFINE d == row.data[k]
      <2>1. /\ d.at \in Nat /\ d.len \in Nat /\ TextAt(d) = Sent(k) /\ row.mem[d.at + d.len] = 0
            /\ d.at + d.len < row.wh
            BY <1>1, <1>3 DEF Right
      <2>2. \A y \in 0 .. row.wh - 1 : row'.mem[y] = row.mem[y]
            <3>1. row.wh \in 0 .. PacketLen /\ PacketLen \in Nat
                  BY <1>1, PacketIs DEF Shape
            <3>2. QED
                  BY <3>1 DEF Decodes
      <2>3. row.wh \in Nat
            BY <1>1, PacketIs DEF Shape
      <2> HIDE DEF d
      <2>4. row'.mem[d.at + d.len] = 0
            <3>1. d.at + d.len \in 0 .. row.wh - 1
                  BY <2>1, <2>3
            <3>2. QED
                  BY <2>1, <2>2, <3>1
      <2>5. TextAt(d)' = TextAt(d)
            <3>1. ASSUME NEW x \in 1 .. d.len
                  PROVE  row'.mem[d.at + x - 1] = row.mem[d.at + x - 1]
                  <4>1. d.at + x - 1 \in 0 .. row.wh - 1
                        BY <2>1, <2>3
                  <4>2. QED
                        BY <2>2, <4>1
            <3>2. QED
                  BY <1>2, <3>1 DEF TextAt, Bytes, d
      <2>6. row'.wh \in row.wh .. PacketLen
            BY DEF Decodes
      <2>7. d.at + d.len < row'.wh
            BY <2>1, <2>3, <2>6, PacketIs, <1>1
      <2>8. QED
            BY <1>1, <1>2, <1>3, <2>1, <2>4, <2>5, <2>7, SameIs DEF Right, d
<1>4. CASE row.data[k].is # "text"
      <2>1. \/ row.data[k] = Meaning(k)
            \/ row.binary /\ TypeOf(k) \in {"year", "datetime", "date"} /\ (Sent(k) = <<>> \/ row.cut > 0)
            BY <1>1, <1>4 DEF Right
      <2>2. row'.binary = row.binary /\ row'.cut = row.cut
            BY <1>1 DEF SameRow
      <2>3. QED
            BY <1>1, <1>2, <1>4, <2>1, <2>2, SameIs DEF Right
<1>5. QED
      BY <1>3, <1>4

LEMMA ReachStays ==
  ASSUME SameRow, ReachOk(row'.reach)
  PROVE  InPacket'
BY SameIs DEF ReachOk, InPacket, SameRow

LEMMA Advances ==
  ASSUME RowInv, AtColumn, Decodes
  PROVE  RowInv'
<1>1. Shape /\ SameRow /\ Reading /\ row.j \in 1 .. Len(row.sent) /\ Len(row.sent) \in Nat
      BY SentIs DEF RowInv, AtColumn, Decodes, Shape
<1>2. PacketLen \in Nat /\ PacketLen' = PacketLen /\ Whole' = Whole
      BY <1>1, PacketIs, SameIs
<1>3. row'.at = "column" /\ row'.j = row.j + 1 /\ row'.i = StartAt(row.j + 1)
      BY DEF Decodes
<1>4. row'.i \in Nat
      <2>1. row.i \in Nat /\ row.sent[row.j].bytes \in Seq(Byte)
            BY <1>1, ColumnIs DEF Shape
      <2>2. StartAt(row.j + 1) = row.i + Len(row.sent[row.j].bytes)
            BY <1>1, ColumnIs
      <2>3. QED
            BY <1>3, <2>1, <2>2
<1>5. Shape'
      <2>1. /\ row'.binary \in BOOLEAN /\ (row'.binary => row'.sent \in BinaryRows)
            /\ (~row'.binary => row'.sent \in StringRows)
            /\ row'.cut \in Nat /\ row'.cut <= Len(Whole')
            /\ row'.packet = SubSeq(Whole', 1, Len(Whole') - row'.cut)
            BY <1>1, <1>2 DEF Shape, SameRow
      <2>2. row'.mem = [k \in 0 .. PacketLen' |-> row'.mem[k]]
            BY <1>1, <1>2 DEF SameRow
      <2>3. row'.data = [k \in 1 .. Len(row'.sent) |-> row'.data[k]]
            <3>1. row.data = [k \in 1 .. Len(row.sent) |-> row.data[k]] /\ row'.sent = row.sent
                  /\ row'.data = [row.data EXCEPT ![row.j] = row'.data[row.j]]
                  BY <1>1 DEF Shape, SameRow, Decodes
            <3>2. QED
                  BY <3>1
      <2>4. row'.j \in 1 .. Len(row'.sent) + 1
            BY <1>1, <1>3 DEF SameRow
      <2>5. row'.wh \in 0 .. PacketLen'
            BY <1>1, <1>2 DEF Shape, Decodes
      <2>6. row'.reach \in Nat
            BY DEF Decodes, ReachOk
      <2>7. DOMAIN row' = RowFields
            BY <1>1 DEF SameRow
      <2>8. QED
            BY <1>3, <1>4, <2>1, <2>2, <2>3, <2>4, <2>5, <2>6, <2>7 DEF Shape
<1>6. InPacket'
      BY <1>1, ReachStays DEF Decodes
<1>7. Separates'
      BY <1>3 DEF Separates
<1>8. Reading'
      <2>1. (row.i = StartAt(row.j))'
            <3>1. \A k : StartAt(k)' = StartAt(k)
                  BY <1>1, SameIs
            <3>2. \A k : k = row'.j => StartAt(k)' = row'.i
                  BY <1>3, <3>1
            <3>3. QED
                  BY <3>2
      <2>2. row'.wh <= row'.i
            BY DEF Decodes
      <2>3. Unread'
            <3> SUFFICES ASSUME NEW k \in row'.i .. PacketLen - 1
                         PROVE  row'.mem[k] = row'.packet[k + 1]
                BY <1>2 DEF Unread
            <3>1. k \in 0 .. PacketLen /\ k >= row'.i /\ k < PacketLen
                  BY <1>2, <1>4
            <3>2. row'.mem[k] = row.mem[k]
                  BY <3>1 DEF Decodes
            <3>3. row.i <= row'.i
                  <4>1. row.i \in Nat /\ row.sent[row.j].bytes \in Seq(Byte)
                        BY <1>1, ColumnIs DEF Shape
                  <4>2. StartAt(row.j + 1) = row.i + Len(row.sent[row.j].bytes)
                        BY <1>1, ColumnIs
                  <4>3. QED
                        BY <1>3, <4>1, <4>2
            <3>4. k \in row.i .. PacketLen - 1
                  <4>1. row.i \in Nat /\ k \in Int /\ row'.i <= k /\ k < PacketLen
                        BY <1>1, <1>2, <1>4, <3>1 DEF Shape
                  <4>2. QED
                        BY <1>2, <1>4, <3>3, <4>1
            <3>5. row.mem[k] = row.packet[k + 1]
                  BY <1>1, <3>4 DEF Reading, Unread
            <3>6. QED
                  BY <1>1, <3>2, <3>5 DEF SameRow
      <2>4. (row.i <= PacketLen \/ YearBefore(row.j))'
            <3>1. \A k : YearBefore(k)' <=> YearBefore(k)
                  BY <1>1, SameIs
            <3>2. \A k : k = row'.j /\ YearBefore(row.j + 1) => YearBefore(k)'
                  BY <1>3, <3>1
            <3>3. QED
                  BY <1>2, <3>2 DEF Decodes
      <2>5. row'.binary => 1 + BitmapLen(row'.sent) <= PacketLen'
            BY <1>1, <1>2 DEF Reading, SameRow
      <2>6. ASSUME NEW k \in 1 .. row'.j - 1
            PROVE  ~Unreadable(k)'
            <3>1. k = row.j \/ k \in 1 .. row.j - 1
                  BY <1>1, <1>3
            <3>2. ~Unreadable(k)
                  BY <1>1, <3>1 DEF Reading, Decodes
            <3>3. QED
                  BY <1>1, <3>2, SameIs
      <2>7. Fresh'
            <3> SUFFICES ASSUME NEW k \in row'.j .. Len(row'.sent)
                         PROVE  row'.data[k] = Unset
                BY DEF Fresh
            <3>1. k \in row.j .. Len(row.sent) /\ k # row.j /\ k \in 1 .. Len(row.sent)
                  BY <1>1, <1>3 DEF SameRow
            <3>2. row.data[k] = Unset
                  BY <1>1, <3>1 DEF Reading, Fresh
            <3>3. k \in DOMAIN row.data
                  BY <1>1, <3>1 DEF Shape
            <3>4. QED
                  BY <3>1, <3>2, <3>3 DEF Decodes
      <2>8. QED
            BY <2>1, <2>2, <2>3, <2>4, <2>5, <2>6, <2>7 DEF Reading
<1>9. ASSUME NEW k \in 1 .. row'.j - 1
      PROVE  Right(k)'
      <2>1. k = row.j \/ k \in 1 .. row.j - 1
            BY <1>1, <1>3
      <2>2. CASE k = row.j
            BY <2>2 DEF Decodes
      <2>3. CASE k \in 1 .. row.j - 1
            BY <2>3, StaysRight
      <2>4. QED
            BY <2>1, <2>2, <2>3
<1>10. QED
      BY <1>3, <1>5, <1>6, <1>7, <1>8, <1>9 DEF RowInv

LEMMA StopsRefused ==
  ASSUME RowInv, AtColumn \/ row.at = "bitmap", Refuses
  PROVE  RowInv'
<1>1. Shape /\ SameRow
      BY DEF RowInv, Refuses
<1>2. PacketLen \in Nat /\ PacketLen' = PacketLen /\ Whole' = Whole
      BY <1>1, PacketIs, SameIs
<1>3. row'.at = "error" /\ row'.j = row.j /\ row'.i = row.i /\ row'.wh = row.wh /\ row'.data = row.data
      BY DEF Refuses
<1>4. Shape'
      <2>1. /\ row'.binary \in BOOLEAN /\ (row'.binary => row'.sent \in BinaryRows)
            /\ (~row'.binary => row'.sent \in StringRows)
            /\ row'.cut \in Nat /\ row'.cut <= Len(Whole')
            /\ row'.packet = SubSeq(Whole', 1, Len(Whole') - row'.cut)
            BY <1>1, <1>2 DEF Shape, SameRow
      <2>2. row'.mem = [k \in 0 .. PacketLen' |-> row'.mem[k]] /\ row'.sent = row.sent
            BY <1>1, <1>2 DEF SameRow
      <2>3. /\ row'.data = [k \in 1 .. Len(row'.sent) |-> row'.data[k]]
            /\ row'.j \in 1 .. Len(row'.sent) + 1 /\ row'.i \in Nat /\ row'.wh \in 0 .. PacketLen'
            BY <1>1, <1>2, <1>3, <2>2 DEF Shape
      <2>4. row'.reach \in Nat /\ DOMAIN row' = RowFields
            BY <1>1 DEF Refuses, ReachOk, SameRow
      <2>5. QED
            BY <1>3, <2>1, <2>2, <2>3, <2>4 DEF Shape
<1>5. InPacket'
      BY <1>1, ReachStays DEF Refuses
<1>6. Separates'
      <2>1. row.cut > 0 \/ \E k \in DOMAIN row.sent : Unreadable(k)
            <3>1. CASE AtColumn
                  <4>1. row.j \in 1 .. Len(row.sent) + 1 /\ row.j <= Len(row.sent)
                        BY <1>1, <3>1 DEF Shape, AtColumn
                  <4>2. row.j \in DOMAIN row.sent
                        BY <1>1, <4>1, SentIs
                  <4>3. QED
                        BY <4>2 DEF Refuses
            <3>2. CASE row.at = "bitmap"
                  <4>1. row.binary
                        BY <3>2 DEF RowInv
                  <4>2. QED
                        BY <4>1 DEF Refuses, Unreadable, NotMadeOf
            <3>3. QED
                  BY <3>1, <3>2
      <2>2. QED
            BY <1>1, <1>3, <2>1, SameIs DEF Separates, SameRow
<1>7. QED
      BY <1>3, <1>4, <1>5, <1>6 DEF RowInv

----------------------------------------------------------------------------
(* The steps of a row                                                      *)

\* The length of a cell is that of its text, or it is a NULL, or it is not all there.
LEMMA CellIs ==
  ASSUME RowInv, HasLength
  PROVE  LET c == row.sent[row.j]
         IN \/ Cell.size = -1 /\ row.cut > 0
            \/ ~row.binary /\ c.null /\ Cell.size = 1 /\ Cell.len = 0 /\ Cell.nul
               /\ StartAt(row.j + 1) = row.i + 1 /\ row.i < PacketLen
            \/ ~c.null /\ InFront(Cell, c.bytes, c.cell)
<1> DEFINE c == row.sent[row.j]
           left == PacketLen - row.i
<1>1. Shape /\ Reading /\ AtColumn
      BY DEF RowInv, HasLength, AtColumn
<1>2. /\ c.cell \in Seq(Byte) /\ c.bytes \in Seq(Byte) /\ c.null \in BOOLEAN
      /\ row.binary => IsBinaryCell(c)
      /\ ~row.binary => IsStringCell(c)
      /\ Holds(row.mem, row.i, left, c.bytes)
      /\ StartAt(row.j + 1) = row.i + Len(c.bytes) /\ StartAt(row.j + 1) <= PacketLen + row.cut
      /\ row.binary => (BitSet <=> c.null)
      BY <1>1, ColumnIs
<1>3. row.i \in Nat /\ PacketLen \in Nat /\ left \in Int /\ row.cut \in Nat /\ Len(c.bytes) \in Nat
      <2>1. row.i \in Nat /\ row.cut \in Nat
            BY <1>1 DEF Shape
      <2>2. PacketLen \in Nat
            BY <1>1, PacketIs
      <2>3. Len(c.bytes) \in Nat
            BY <1>2
      <2>4. QED
            BY <2>1, <2>2, <2>3
<1>4. left < Len(c.bytes) => row.cut > 0
      <2> DEFINE l == Len(c.bytes)
                 i == row.i
                 t == row.cut
      <2>1. l \in Nat /\ i \in Nat /\ t \in Nat /\ PacketLen \in Nat /\ i + l <= PacketLen + t /\ left = PacketLen - i
            BY <1>2, <1>3
      <2> HIDE DEF l, i, t, left
      <2>2. left < l => t > 0
            BY <2>1
      <2>3. QED
            BY <2>2 DEF l, t
<1>5. CASE c.null
      <2>1. ~row.binary /\ c.bytes = <<NullMark>>
            BY <1>2, <1>5 DEF HasLength, IsStringCell
      <2>2. Len(c.bytes) = 1
            BY <2>1
      <2>3. CASE Lcb(row.mem, row.i, left) = BadLcb /\ left < 1
            BY <1>4, <2>2, <2>3 DEF BadLcb, Cell
      <2>4. CASE Lcb(row.mem, row.i, left) = [size |-> 1, len |-> 0, nul |-> TRUE] /\ left >= 1
            <3>1. Cell.size = 1 /\ Cell.len = 0 /\ Cell.nul = TRUE
                  BY <2>4 DEF Cell
            <3>2. row.i < PacketLen
                  BY <1>3, <2>4
            <3>3. QED
                  BY <1>2, <1>5, <2>1, <2>2, <3>1, <3>2
      <2>5. QED
            BY <1>2, <1>3, <2>1, <2>3, <2>4, NullReads
<1>6. CASE ~c.null
      <2>1. IsSized(c.bytes, c.cell)
            <3>1. CASE row.binary
                  <4>1. c.type \in {"time", "datetime", "date", "text"}
                        BY <3>1 DEF HasLength, Type, Dates
                  <4>2. c.type \notin Numbers \cup {"year"}
                        BY <4>1 DEF Numbers
                  <4>3. QED
                        BY <1>2, <1>6, <3>1, <4>2 DEF IsBinaryCell
            <3>2. CASE ~row.binary
                  BY <1>2, <1>6, <3>2 DEF IsStringCell
            <3>3. QED
                  BY <3>1, <3>2
      <2>2. \/ Lcb(row.mem, row.i, left) = BadLcb /\ left < Len(c.bytes)
            \/ InFront(Lcb(row.mem, row.i, left), c.bytes, c.cell)
            BY <1>2, <1>3, <2>1, SizedReads
      <2>3. CASE Lcb(row.mem, row.i, left) = BadLcb /\ left < Len(c.bytes)
            BY <1>4, <2>3 DEF BadLcb, Cell
      <2>4. QED
            BY <1>6, <2>2, <2>3 DEF Cell
<1>7. QED
      BY <1>2, <1>5, <1>6

\* A text that is all there, and where.
LEMMA Fitting ==
  ASSUME RowInv, Fits, ~Cell.nul
  PROVE  LET c == row.sent[row.j]
         IN /\ ~c.null /\ c.cell \in Seq(Byte) /\ Cell.len = Len(c.cell) /\ Cell.len \in Nat
            /\ Start \in Nat /\ row.i < Start /\ Start + Cell.len = StartAt(row.j + 1)
            /\ Start + Cell.len <= PacketLen
            /\ \A x \in 1 .. Len(c.cell) : row.mem[Start + x - 1] = c.cell[x]
<1> DEFINE c == row.sent[row.j]
<1>1. Shape /\ Reading /\ AtColumn /\ HasLength /\ Cell.size # -1 /\ Start + Cell.len <= PacketLen
      BY DEF RowInv, HasLength, AtColumn, Fits
<1>2. /\ c.cell \in Seq(Byte) /\ c.bytes \in Seq(Byte)
      /\ Holds(row.mem, row.i, PacketLen - row.i, c.bytes)
      /\ StartAt(row.j + 1) = row.i + Len(c.bytes)
      BY <1>1, ColumnIs
<1>3. ~c.null /\ InFront(Cell, c.bytes, c.cell)
      BY <1>1, CellIs
<1>4. /\ Cell.size \in Nat \ {0} /\ Cell.len = Len(c.cell) /\ Cell.size + Cell.len = Len(c.bytes)
      /\ \A x \in 1 .. Len(c.cell) : c.cell[x] = c.bytes[Cell.size + x]
      BY <1>3 DEF InFront
<1>5. row.i \in Nat /\ PacketLen \in Nat /\ Len(c.cell) \in Nat /\ Start = row.i + Cell.size
      <2>1. row.i \in Nat
            BY <1>1 DEF Shape
      <2>2. PacketLen \in Nat
            BY <1>1, PacketIs
      <2>3. Len(c.cell) \in Nat
            BY <1>2
      <2>4. QED
            BY <2>1, <2>2, <2>3 DEF Start
<1> DEFINE z == Cell.size
<1>6. z \in Nat \ {0} /\ z + Len(c.cell) = Len(c.bytes) /\ Start = row.i + z
      BY <1>4, <1>5
<1>7. ASSUME NEW x \in 1 .. Len(c.cell)
      PROVE  row.mem[Start + x - 1] = c.cell[x]
      <2>1. c.cell[x] = c.bytes[z + x]
            BY <1>4
      <2>2. (row.i + z) + Len(c.cell) <= PacketLen
            BY <1>1, <1>4, <1>5
      <2> HIDE DEF z
      <2>3. z + x \in 1 .. Len(c.bytes) /\ z + x <= PacketLen - row.i /\ row.i + (z + x) - 1 = Start + x - 1
            <3> DEFINE l == Len(c.cell)
                       m == Len(c.bytes)
                       i == row.i
            <3>1. l \in Nat /\ x \in 1 .. l /\ i \in Nat /\ PacketLen \in Nat /\ Start = i + z
                  /\ (i + z) + l <= PacketLen /\ z \in Nat /\ z + l = m
                  BY <1>5, <1>6, <2>2
            <3> HIDE DEF l, m, i
            <3>2. z + x \in 1 .. m /\ z + x <= PacketLen - i /\ i + (z + x) - 1 = Start + x - 1
                  BY <3>1
            <3>3. QED
                  BY <3>2 DEF m, i
      <2>4. row.mem[row.i + (z + x) - 1] = c.bytes[z + x]
            BY <1>2, <2>3 DEF Holds
      <2>5. QED
            BY <2>1, <2>3, <2>4
<1>8. Start \in Nat /\ row.i < Start /\ Start + Cell.len = StartAt(row.j + 1)
      <2>1. Cell.len = Len(c.cell)
            BY <1>4
      <2> DEFINE l == Len(c.cell)
                 m == Len(c.bytes)
                 i == row.i
                 n == Cell.len
                 e == StartAt(row.j + 1)
      <2>2. l \in Nat /\ i \in Nat /\ z \in Nat \ {0} /\ Start = i + z /\ z + l = m /\ n = l /\ e = i + m
            BY <1>2, <1>5, <1>6, <2>1
      <2> HIDE DEF z, l, m, i, n, e
      <2>3. Start \in Nat /\ i < Start /\ Start + n = e
            BY <2>2
      <2>4. QED
            BY <2>3 DEF i, n, e
<1>9. QED
      BY <1>1, <1>2, <1>3, <1>4, <1>5, <1>7, <1>8

\* What all that is needed of a column is.
LEMMA AtIs ==
  ASSUME RowInv, AtColumn
  PROVE  /\ Shape /\ Reading /\ DOMAIN row = RowFields
         /\ PacketLen \in Nat /\ row.i \in Nat /\ row.wh \in 0 .. PacketLen /\ row.wh <= row.i
         /\ row.reach \in Nat /\ ReachOk(row.reach)
         /\ DOMAIN row.data = 1 .. Len(row.sent) /\ row.j \in 1 .. Len(row.sent)
         /\ DOMAIN row.mem = 0 .. PacketLen /\ row.mem = [k \in 0 .. PacketLen |-> row.mem[k]]
         /\ row.at = "column" /\ row.data[row.j] = Unset
<1>1. Shape /\ Reading /\ InPacket /\ row.at = "column"
      BY DEF RowInv, AtColumn
<1>2. row.j \in 1 .. Len(row.sent)
      BY <1>1, ColumnIs
<1>3. PacketLen \in Nat
      BY <1>1, PacketIs
<1>4. ReachOk(row.reach)
      BY <1>1 DEF Shape, InPacket, ReachOk
<1>5. row.data[row.j] = Unset
      <2>1. row.j \in row.j .. Len(row.sent)
            BY <1>2
      <2>2. QED
            BY <1>1, <2>1 DEF Reading, Fresh
<1>6. QED
      BY <1>1, <1>2, <1>3, <1>4, <1>5 DEF Shape, Reading

LEMMA CellRefusedStep ==
  ASSUME RowInv, CellRefused
  PROVE  RowInv'
<1> DEFINE c == row.sent[row.j]
<1>1. AtColumn /\ HasLength /\ ~Fits
      BY DEF CellRefused, HasLength
<1>2. row.cut > 0
      <2>1. CASE Cell.size = -1
            BY <1>1, <2>1, CellIs DEF InFront
      <2>2. CASE Cell.size # -1
            <3>1. /\ StartAt(row.j + 1) = row.i + Len(c.bytes) /\ StartAt(row.j + 1) <= PacketLen + row.cut
                  /\ c.bytes \in Seq(Byte) /\ c.cell \in Seq(Byte)
                  BY <1>1, AtIs, ColumnIs
            <3>2. ~(Start + Cell.len <= PacketLen) /\ Start = row.i + Cell.size
                  BY <1>1, <2>2 DEF Fits, Start
            <3>3. PacketLen \in Nat /\ row.i \in Nat /\ row.cut \in Nat
                  BY <1>1, AtIs DEF Shape
            <3>4. CASE ~row.binary /\ c.null /\ Cell.size = 1 /\ Cell.len = 0 /\ row.i < PacketLen
                  BY <3>2, <3>3, <3>4
            <3>5. CASE InFront(Cell, c.bytes, c.cell)
                  <4>1. Cell.size \in Nat /\ Cell.len = Len(c.cell) /\ Cell.size + Cell.len = Len(c.bytes)
                        BY <3>5 DEF InFront
                  <4>2. Len(c.cell) \in Nat
                        BY <3>1
                  <4> DEFINE l == Len(c.cell)
                             m == Len(c.bytes)
                             z == Cell.size
                             n == Cell.len
                             i == row.i
                             t == row.cut
                  <4>3. l \in Nat /\ i \in Nat /\ t \in Nat /\ PacketLen \in Nat /\ z \in Nat /\ z + l = m /\ n = l
                        /\ i + m <= PacketLen + t /\ ~((i + z) + n <= PacketLen)
                        BY <3>1, <3>2, <3>3, <4>1, <4>2
                  <4> HIDE DEF l, m, z, n, i, t
                  <4>4. t > 0
                        BY <4>3
                  <4>5. QED
                        BY <4>4 DEF t
            <3>6. QED
                  BY <1>1, <2>2, <3>4, <3>5, CellIs
      <2>3. QED
            BY <2>1, <2>2
<1>3. row' = [row EXCEPT !.at = "error"]
      BY DEF CellRefused, Refuse
<1>4. Refuses
      BY <1>1, <1>2, <1>3, AtIs DEF Refuses, SameRow, RowFields
<1>5. QED
      BY <1>1, <1>4, StopsRefused

LEMMA RowEndsStep ==
  ASSUME RowInv, RowEnds
  PROVE  RowInv'
<1>1. /\ Shape /\ Reading /\ InPacket /\ row.at = "column" /\ row.j > Len(row.sent)
      /\ \A k \in 1 .. row.j - 1 : Right(k)
      BY DEF RowInv, RowEnds
<1>2. row' = [row EXCEPT !.at = "done"]
      BY DEF RowEnds
<1>3. /\ DOMAIN row' = RowFields /\ row'.at = "done"
      /\ row'.binary = row.binary /\ row'.sent = row.sent /\ row'.cut = row.cut /\ row'.packet = row.packet
      /\ row'.mem = row.mem /\ row'.data = row.data /\ row'.reach = row.reach
      /\ row'.j = row.j /\ row'.i = row.i /\ row'.wh = row.wh
      BY <1>1, <1>2 DEF Shape, RowFields
<1>4. PacketLen' = PacketLen /\ Whole' = Whole
      BY <1>3 DEF PacketLen, Whole
<1>5. SameRow
      BY <1>1, <1>3 DEF SameRow, Shape
<1>6. Shape'
      BY <1>1, <1>3, <1>4 DEF Shape
<1>7. InPacket'
      BY <1>1, <1>3, <1>5, SameIs DEF InPacket
<1>8. Len(row.sent) \in Nat /\ DOMAIN row.sent = 1 .. Len(row.sent) /\ row.j = Len(row.sent) + 1
      <2> DEFINE l == Len(row.sent)
      <2>1. l \in Nat /\ DOMAIN row.sent = 1 .. l
            BY <1>1, SentIs
      <2>2. row.j \in 1 .. l + 1 /\ row.j > l
            BY <1>1 DEF Shape
      <2> HIDE DEF l
      <2>3. row.j = l + 1
            BY <2>1, <2>2
      <2>4. QED
            BY <2>1, <2>3 DEF l
<1>9. Separates'
      <2>1. \A k \in DOMAIN row.sent : ~Unreadable(k)
            BY <1>1, <1>8 DEF Reading
      <2>2. row.cut = 0 \/ (row.binary /\ \E k \in DOMAIN row.sent : TypeOf(k) = "year")
            <3>1. CASE row.i <= PacketLen
                  <4>1. row.i = Len(Whole)
                        <5> DEFINE start == CHOOSE start : IsLayout(row.binary, row.sent, start)
                        <5>1. IsLayout(row.binary, row.sent, start) /\ row.i = start[row.j]
                              BY <1>1, PacketIs DEF Reading, StartAt
                        <5> HIDE DEF start
                        <5>2. QED
                              BY <1>8, <5>1 DEF IsLayout, Whole
                  <4>2. Len(Whole) = PacketLen + row.cut /\ PacketLen \in Nat /\ row.cut \in Nat
                        BY <1>1, PacketIs DEF Shape
                  <4>3. QED
                        BY <3>1, <4>1, <4>2
            <3>2. CASE YearBefore(row.j)
                  BY <1>8, <3>2 DEF YearBefore
            <3>3. QED
                  BY <1>1, <3>1, <3>2 DEF Reading
      <2>3. \A k : (Unreadable(k)' <=> Unreadable(k)) /\ TypeOf(k)' = TypeOf(k)
            BY <1>5, SameIs
      <2>4. QED
            BY <1>3, <2>1, <2>2, <2>3 DEF Separates
<1>10. ASSUME NEW k \in 1 .. row.j - 1
       PROVE  Right(k)'
      <2>1. Right(k)
            BY <1>1
      <2>2. \A d : TextAt(d)' = TextAt(d)
            BY <1>3 DEF TextAt, Bytes
      <2>3. QED
            BY <1>3, <1>5, <2>1, <2>2, SameIs DEF Right
<1>11. QED
      BY <1>3, <1>6, <1>7, <1>9, <1>10 DEF RowInv

LEMMA ReadBitmapStep ==
  ASSUME RowInv, ReadBitmap
  PROVE  RowInv'
<1>1. /\ Shape /\ InPacket /\ row.at = "bitmap" /\ row.binary /\ row.i = 0 /\ row.wh = 0 /\ row.j = 1 /\ Unread /\ Fresh
      BY DEF RowInv, ReadBitmap
<1>2. PacketLen \in Nat /\ row.sent \in Seq(Cells) /\ Len(row.sent) \in Nat /\ Len(Whole) = PacketLen + row.cut
      /\ row.cut \in Nat
      BY <1>1, PacketIs, SentIs DEF Shape
<1>3. IsLayout(row.binary, row.sent, CHOOSE start : IsLayout(row.binary, row.sent, start))
      BY <1>1, PacketIs
<1>4. StartAt(1) = 1 + BitmapLen(row.sent) /\ StartAt(1) <= Len(Whole) /\ StartAt(1) \in Nat
      <2> DEFINE start == CHOOSE start : IsLayout(row.binary, row.sent, start)
      <2>1. StartAt(1) = start[1] /\ IsLayout(row.binary, row.sent, start)
            BY <1>3 DEF StartAt
      <2> HIDE DEF start
      <2>2. 1 \in 1 .. Len(row.sent) + 1
            BY <1>2
      <2>3. start[1] = 1 + BitmapLen(row.sent) /\ start[1] <= Len(Whole)
            BY <1>1, <2>1 DEF IsLayout, Whole
      <2>4. start[1] \in Nat
            BY <2>1, <2>2 DEF IsLayout
      <2>5. QED
            BY <2>1, <2>3, <2>4
<1>5. CASE 1 + BitmapLen(row.sent) > PacketLen
      <2>1. row' = [row EXCEPT !.at = "error"]
            BY <1>5 DEF ReadBitmap, Refuse
      <2>2. row.cut > 0
            BY <1>2, <1>4, <1>5
      <2>3. ReachOk(row.reach)
            BY <1>1 DEF Shape, InPacket, ReachOk
      <2>4. Refuses
            BY <1>1, <2>1, <2>2, <2>3 DEF Refuses, SameRow, RowFields, Shape
      <2>5. QED
            BY <1>1, <2>4, StopsRefused
<1>6. CASE ~(1 + BitmapLen(row.sent) > PacketLen)
      <2>1. row' = [row EXCEPT !.i = 1 + BitmapLen(row.sent), !.at = "column"]
            BY <1>6 DEF ReadBitmap
      <2>2. /\ DOMAIN row' = RowFields /\ row'.at = "column"
            /\ row'.binary = row.binary /\ row'.sent = row.sent /\ row'.cut = row.cut /\ row'.packet = row.packet
            /\ row'.mem = row.mem /\ row'.data = row.data /\ row'.reach = row.reach
            /\ row'.j = row.j /\ row'.i = 1 + BitmapLen(row.sent) /\ row'.wh = row.wh
            BY <1>1, <2>1 DEF Shape, RowFields
      <2>3. PacketLen' = PacketLen /\ Whole' = Whole
            BY <2>2 DEF PacketLen, Whole
      <2>4. SameRow
            BY <1>1, <2>2 DEF SameRow, Shape
      <2>5. Shape'
            BY <1>1, <1>4, <2>2, <2>3 DEF Shape
      <2>6. InPacket'
            BY <1>1, <2>2, <2>4, SameIs DEF InPacket
      <2>7. Separates'
            BY <2>2 DEF Separates
      <2>8. Reading'
            <3>1. (row.i = StartAt(row.j))'
                  <4>1. \A k : StartAt(k)' = StartAt(k)
                        BY <2>4, SameIs
                  <4>2. \A k : k = row'.j => StartAt(k)' = row'.i
                        BY <1>1, <1>4, <2>2, <4>1
                  <4>3. QED
                        BY <4>2
            <3>2. row'.wh <= row'.i /\ row'.i <= PacketLen'
                  BY <1>1, <1>2, <1>4, <1>6, <2>2, <2>3
            <3>3. Unread'
                  <4>1. \A k \in row'.i .. PacketLen - 1 : k \in row.i .. PacketLen - 1
                        BY <1>1, <1>2, <1>4, <2>2
                  <4>2. QED
                        BY <1>1, <2>2, <2>3, <4>1 DEF Unread
            <3>4. 1 .. row'.j - 1 = {}
                  BY <1>1, <2>2
            <3>5. row'.binary => 1 + BitmapLen(row'.sent) <= PacketLen'
                  BY <2>2, <2>3, <3>2
            <3>6. Fresh'
                  BY <1>1, <2>2 DEF Fresh
            <3>7. QED
                  BY <3>1, <3>2, <3>3, <3>4, <3>5, <3>6 DEF Reading
      <2>9. 1 .. row'.j - 1 = {}
            BY <1>1, <2>2
      <2>10. QED
            BY <2>2, <2>5, <2>6, <2>7, <2>8, <2>9 DEF RowInv
<1>7. QED
      BY <1>5, <1>6

\* A column that is passed over: nothing but the place changes.
LEMMA PassedOver ==
  ASSUME RowInv, AtColumn, NEW k, row' = Past(row, k), k = StartAt(row.j + 1),
         \A m : m = row.j => Meaning(m) = Unset /\ ~Unreadable(m),
         k <= PacketLen \/ row.i >= k
  PROVE  RowInv'
<1>1. row' = [row EXCEPT !.j = @ + 1, !.i = k]
      BY DEF Past
<1>2. /\ Shape /\ Reading /\ DOMAIN row = RowFields /\ row.j \in 1 .. Len(row.sent)
      /\ PacketLen \in Nat /\ row.i \in Nat /\ row.wh \in 0 .. PacketLen /\ row.wh <= row.i
      /\ ReachOk(row.reach) /\ DOMAIN row.data = 1 .. Len(row.sent)
      /\ row.mem = [x \in 0 .. PacketLen |-> row.mem[x]] /\ row.at = "column"
      BY AtIs
<1>3. /\ DOMAIN row' = RowFields /\ row'.at = "column"
      /\ row'.binary = row.binary /\ row'.sent = row.sent /\ row'.cut = row.cut /\ row'.packet = row.packet
      /\ row'.mem = row.mem /\ row'.data = row.data /\ row'.reach = row.reach
      /\ row'.j = row.j + 1 /\ row'.i = k /\ row'.wh = row.wh
      BY <1>1, <1>2 DEF RowFields
<1>4. SameRow
      BY <1>2, <1>3 DEF SameRow
<1>5. row.i <= k /\ k \in Nat
      <2>1. StartAt(row.j + 1) = row.i + Len(row.sent[row.j].bytes) /\ row.sent[row.j].bytes \in Seq(Byte)
            BY <1>2, ColumnIs
      <2>2. Len(row.sent[row.j].bytes) \in Nat
            BY <2>1
      <2> DEFINE l == Len(row.sent[row.j].bytes)
                 i == row.i
      <2>3. l \in Nat /\ i \in Nat /\ k = i + l
            BY <1>2, <2>1, <2>2
      <2> HIDE DEF l, i
      <2>4. i <= k /\ k \in Nat
            BY <2>3
      <2>5. QED
            BY <2>4 DEF i
<1>6. k <= PacketLen \/ YearBefore(row.j + 1)
      <2>1. CASE k <= PacketLen
            BY <2>1
      <2>2. CASE ~(k <= PacketLen)
            <3>1. row.i = k
                  BY <1>2, <1>5, <2>2
            <3>2. YearBefore(row.j)
                  BY <1>2, <2>2, <3>1 DEF Reading
            <3>3. \A y \in 1 .. row.j - 1 : y \in 1 .. (row.j + 1) - 1
                  BY <1>2
            <3>4. QED
                  BY <3>2, <3>3 DEF YearBefore
      <2>3. QED
            BY <2>1, <2>2
<1>7. \A m : m = row.j => Right(m)' /\ ~Unreadable(m)
      <2>1. \A m : Meaning(m)' = Meaning(m)
            BY <1>4, SameIs
      <2>2. row.data[row.j] = Unset /\ Unset.is # "text"
            BY AtIs DEF Unset
      <2>3. QED
            BY <1>3, <2>1, <2>2 DEF Right
<1>8. row'.data = [row.data EXCEPT ![row.j] = row'.data[row.j]]
      <2>1. row.data = [x \in 1 .. Len(row.sent) |-> row.data[x]]
            BY <1>2 DEF Shape
      <2>2. QED
            BY <1>3, <2>1
<1>9. row'.wh \in row.wh .. PacketLen /\ row'.wh <= row'.i
      BY <1>2, <1>3, <1>5
<1>10. Decodes
      BY <1>2, <1>3, <1>4, <1>6, <1>7, <1>8, <1>9 DEF Decodes
<1>11. QED
      BY <1>10, Advances

LEMMA MeaningsAre ==
  ASSUME NEW k
  PROVE  /\ row.sent[k].null /\ row.binary => Meaning(k) = Unset
         /\ row.sent[k].null /\ ~row.binary => Meaning(k) = Null
         /\ ~row.sent[k].null /\ row.binary =>
              Meaning(k) = IF Len(Sent(k)) = 0 /\ TypeOf(k) = "time" THEN Unset ELSE Value(<<Kept(TypeOf(k), Sent(k))>>)
         /\ ~row.sent[k].null /\ ~row.binary /\ Skips(TypeOf(k), Sent(k)) => Meaning(k) = Unset
         /\ ~row.sent[k].null /\ ~row.binary /\ ~Skips(TypeOf(k), Sent(k)) =>
              Meaning(k) = IF TypeOf(k) = "year" THEN Value(<<Leading(Sent(k))>>)
                           ELSE Value(PiecesOf(Sent(k), Ends(TypeOf(k), Len(Sent(k)))))
BY DEF Meaning

LEMMA TypesAre ==
  ASSUME RowInv, AtColumn
  PROVE  /\ Type \in Numbers \cup {"text", "year", "other", "time", "datetime", "date"}
         /\ \A k : k = row.j => TypeOf(k) = Type /\ Sent(k) = row.sent[row.j].cell
<1>1. row.sent[row.j] \in Cells
      BY AtIs, ColumnIs
<1>2. \A c \in Cells : c.type \in Numbers \cup Dates \cup {"text", "year", "other"}
      BY DEF Cells
<1>3. Type \in Numbers \cup Dates \cup {"text", "year", "other"}
      BY <1>1, <1>2 DEF Type
<1>4. QED
      BY <1>3 DEF Dates, TypeOf, Sent, Type

LEMMA BinaryLeftStep ==
  ASSUME RowInv, BinaryLeft
  PROVE  RowInv'
<1> DEFINE c == row.sent[row.j]
<1>1. AtColumn /\ row.binary /\ (BitSet \/ Type = "other") /\ row' = Past(row, row.i)
      BY DEF BinaryLeft
<1>2. /\ IsBinaryCell(c) /\ (BitSet <=> c.null) /\ StartAt(row.j + 1) = row.i + Len(c.bytes)
      /\ row.i \in Nat
      BY <1>1, AtIs, ColumnIs
<1>3. c.null
      <2>1. c.type = Type
            BY DEF Type
      <2>2. Type = "other" => Type \notin Numbers \cup {"year"}
            BY DEF Numbers
      <2>3. QED
            BY <1>1, <1>2, <2>1, <2>2 DEF IsBinaryCell
<1>4. row.i = StartAt(row.j + 1)
      <2>1. c.bytes = <<>>
            BY <1>2, <1>3 DEF IsBinaryCell
      <2>2. Len(c.bytes) = 0
            BY <2>1
      <2>3. QED
            BY <1>2, <2>2
<1>5. \A m : m = row.j => Meaning(m) = Unset /\ ~Unreadable(m)
      BY <1>1, <1>3, MeaningsAre DEF Unreadable, NotMadeOf
<1>6. QED
      BY <1>1, <1>2, <1>4, <1>5, PassedOver

LEMMA StringLeftStep ==
  ASSUME RowInv, StringLeft
  PROVE  RowInv'
<1> DEFINE c == row.sent[row.j]
<1>1. /\ AtColumn /\ ~row.binary /\ Fits /\ ~Cell.nul /\ row' = Past(row, Start + Cell.len)
      /\ Type = "other" \/ (Type \notin Numbers \cup {"text"} /\ Cell.len # Last(Ends(Type, Cell.len)))
      BY DEF StringLeft, Fits, HasLength
<1>2. ~c.null /\ Cell.len = Len(c.cell) /\ Start + Cell.len = StartAt(row.j + 1) /\ Start + Cell.len <= PacketLen
      BY <1>1, Fitting
<1>3. \A m : m = row.j => Skips(TypeOf(m), Sent(m))
      <2>1. Type \in Numbers \cup {"text", "year", "other", "time", "datetime", "date"}
            /\ \A k : k = row.j => TypeOf(k) = Type /\ Sent(k) = c.cell
            BY <1>1, TypesAre
      <2>2. QED
            BY <1>1, <1>2, <2>1 DEF Skips
<1>4. \A m : m = row.j => Meaning(m) = Unset /\ ~Unreadable(m)
      BY <1>1, <1>2, <1>3, MeaningsAre DEF Unreadable, NotMadeOf
<1>5. QED
      BY <1>1, <1>2, <1>4, PassedOver

LEMMA CellNullStep ==
  ASSUME RowInv, CellNull
  PROVE  RowInv'
<1> DEFINE c == row.sent[row.j]
<1>1. /\ AtColumn /\ HasLength /\ Fits /\ Cell.nul
      BY DEF CellNull, Fits, HasLength
<1>2. ~row.binary /\ c.null /\ Cell.size = 1 /\ StartAt(row.j + 1) = row.i + 1 /\ row.i < PacketLen
      BY <1>1, CellIs DEF Fits, InFront
<1>3. Start = StartAt(row.j + 1)
      BY <1>2 DEF Start
<1>4. row' = Past([row EXCEPT !.data[row.j] = Null], StartAt(row.j + 1))
      BY <1>2, <1>3 DEF CellNull
<1>5. /\ Shape /\ Reading /\ DOMAIN row = RowFields /\ row.j \in 1 .. Len(row.sent)
      /\ PacketLen \in Nat /\ row.i \in Nat /\ row.wh \in 0 .. PacketLen /\ row.wh <= row.i
      /\ ReachOk(row.reach) /\ DOMAIN row.data = 1 .. Len(row.sent)
      /\ row.mem = [x \in 0 .. PacketLen |-> row.mem[x]] /\ row.at = "column"
      BY <1>1, AtIs
<1>6. row' = [[row EXCEPT !.data[row.j] = Null] EXCEPT !.j = @ + 1, !.i = StartAt(row.j + 1)]
      BY <1>4 DEF Past
<1>7. /\ DOMAIN row' = RowFields /\ row'.at = "column"
      /\ row'.binary = row.binary /\ row'.sent = row.sent /\ row'.cut = row.cut /\ row'.packet = row.packet
      /\ row'.mem = row.mem /\ row'.data = [row.data EXCEPT ![row.j] = Null] /\ row'.reach = row.reach
      /\ row'.j = row.j + 1 /\ row'.i = StartAt(row.j + 1) /\ row'.wh = row.wh
      BY <1>5, <1>6 DEF RowFields
<1>8. SameRow
      BY <1>5, <1>7 DEF SameRow
<1>9. row'.data[row.j] = Null
      BY <1>5, <1>7
<1>10. \A m : m = row.j => Right(m)' /\ ~Unreadable(m)
      <2>1. \A m : Meaning(m)' = Meaning(m)
            BY <1>8, SameIs
      <2>2. \A m : m = row.j => Meaning(m) = Null
            BY <1>2, MeaningsAre
      <2>3. Null.is # "text"
            BY DEF Null
      <2>4. \A m : m = row.j => ~Unreadable(m)
            BY <1>2 DEF Unreadable, NotMadeOf
      <2>5. QED
            BY <1>9, <2>1, <2>2, <2>3, <2>4 DEF Right
<1>11. row'.i <= PacketLen /\ row'.wh \in row.wh .. PacketLen /\ row'.wh <= row'.i
      BY <1>2, <1>5, <1>7
<1>12. row'.data = [row.data EXCEPT ![row.j] = row'.data[row.j]]
      BY <1>7, <1>9
<1>13. Decodes
      BY <1>5, <1>7, <1>8, <1>10, <1>11, <1>12 DEF Decodes
<1>14. QED
      BY <1>1, <1>13, Advances

\* A text that is in memory, with the zero behind it, in the part that is kept.
LEMMA TextRight ==
  ASSUME NEW m, SameRow, NEW wh \in Nat, NEW text \in Seq(Byte),
         row'.data[m] = Pointer(wh, Len(text)), row.sent[m].cell = text,
         \A x \in 1 .. Len(text) : row'.mem[wh + x - 1] = text[x],
         row'.mem[wh + Len(text)] = 0, wh + Len(text) < row'.wh
  PROVE  Right(m)'
<1>1. row'.data[m].is = "text" /\ row'.data[m].at = wh /\ row'.data[m].len = Len(text)
      BY DEF Pointer
<1>2. Sent(m)' = text
      BY DEF SameRow, Sent
<1>3. TextAt(row.data[m])' = [x \in 1 .. Len(text) |-> row'.mem[wh + x - 1]]
      BY <1>1 DEF TextAt, Bytes
<1>4. text = [x \in 1 .. Len(text) |-> text[x]]
      OBVIOUS
<1>5. TextAt(row.data[m])' = text
      BY <1>3, <1>4
<1>6. Len(text) \in Nat
      OBVIOUS
<1>7. QED
      BY <1>1, <1>2, <1>5, <1>6 DEF Right

LEMMA TextColumnStep ==
  ASSUME RowInv, TextColumn
  PROVE  RowInv'
<1> DEFINE c == row.sent[row.j]
           len == Cell.len
           e == Start + Cell.len
           mem == Moved(row.wh, Start, Cell.len)
<1>1. /\ AtColumn /\ HasLength /\ Fits /\ ~Cell.nul /\ Type = "text"
      BY DEF TextColumn, Fits, HasLength
<1>2. /\ ~c.null /\ c.cell \in Seq(Byte) /\ len = Len(c.cell) /\ len \in Nat
      /\ Start \in Nat /\ row.i < Start /\ e = StartAt(row.j + 1) /\ e <= PacketLen
      /\ \A x \in 1 .. len : row.mem[Start + x - 1] = c.cell[x]
      BY <1>1, Fitting
<1>3. /\ Shape /\ Reading /\ DOMAIN row = RowFields /\ row.j \in 1 .. Len(row.sent)
      /\ PacketLen \in Nat /\ row.i \in Nat /\ row.wh \in 0 .. PacketLen /\ row.wh <= row.i
      /\ row.reach \in Nat /\ ReachOk(row.reach) /\ DOMAIN row.data = 1 .. Len(row.sent)
      /\ DOMAIN row.mem = 0 .. PacketLen /\ row.at = "column"
      BY <1>1, AtIs
<1> HIDE DEF c, len, e
<1>4. \E far : row' = [[[row EXCEPT !.mem = mem, !.data[row.j] = Pointer(row.wh, len), !.wh = @ + len + 1]
                          EXCEPT !.j = @ + 1, !.i = e] EXCEPT !.reach = MaxOf(@, far)]
                    /\ far = MaxOf(Start + len - 1, row.wh + len)
      BY DEF TextColumn, Past, Reaching, len, e
<1>5. PICK far : row' = [[[row EXCEPT !.mem = mem, !.data[row.j] = Pointer(row.wh, len), !.wh = @ + len + 1]
                          EXCEPT !.j = @ + 1, !.i = e] EXCEPT !.reach = MaxOf(@, far)]
                 /\ far = MaxOf(Start + len - 1, row.wh + len)
      BY <1>4
<1> HIDE DEF mem
<1>6. /\ DOMAIN row' = RowFields /\ row'.at = "column"
      /\ row'.binary = row.binary /\ row'.sent = row.sent /\ row'.cut = row.cut /\ row'.packet = row.packet
      /\ row'.mem = mem /\ row'.data = [row.data EXCEPT ![row.j] = Pointer(row.wh, len)]
      /\ row'.reach = MaxOf(row.reach, far)
      /\ row'.j = row.j + 1 /\ row'.i = e /\ row'.wh = row.wh + len + 1
      BY <1>3, <1>5 DEF RowFields
<1>7. mem = [k \in 0 .. PacketLen |->
              IF k \in row.wh .. row.wh + len - 1 THEN row.mem[Start + k - row.wh]
              ELSE IF k = row.wh + len THEN 0 ELSE row.mem[k]]
      BY <1>3 DEF mem, Moved, len
<1>8. mem = [k \in 0 .. PacketLen |-> mem[k]]
      BY <1>7
<1>9. SameRow
      BY <1>3, <1>6, <1>8 DEF SameRow
<1> DEFINE wh == row.wh
<1>10. wh \in Nat /\ len \in Nat /\ wh + len < e /\ e = Start + len /\ Start \in Nat /\ PacketLen \in Nat /\ e <= PacketLen
      BY <1>2, <1>3 DEF e, len
<1>11. \A k \in 0 .. PacketLen : k < row.wh \/ (k >= row'.i /\ k < PacketLen) => row'.mem[k] = row.mem[k]
      <2> SUFFICES ASSUME NEW k \in 0 .. PacketLen, k < wh \/ k >= e
                   PROVE  mem[k] = row.mem[k]
          BY <1>6
      <2>1. k \notin wh .. wh + len - 1 /\ k # wh + len
            <3> HIDE DEF wh
            <3> QED
                BY <1>10
      <2>2. QED
            BY <1>7, <2>1
<1>12. row'.data[row.j] = Pointer(row.wh, len)
      BY <1>3, <1>6
<1>13. \A m : m = row.j => Right(m)' /\ ~Unreadable(m)
      <2>1. ASSUME NEW x \in 1 .. len
            PROVE  mem[wh + x - 1] = c.cell[x]
            <3>1. wh + x - 1 \in wh .. wh + len - 1 /\ wh + x - 1 \in 0 .. PacketLen
                  /\ Start + (wh + x - 1) - wh = Start + x - 1
                  <4> HIDE DEF wh
                  <4> QED
                      BY <1>10
            <3>2. mem[wh + x - 1] = row.mem[Start + (wh + x - 1) - wh]
                  BY <1>7, <3>1
            <3>3. QED
                  BY <1>2, <3>1, <3>2
      <2>2. row'.mem[wh + len] = 0
            <3>1. wh + len \in 0 .. PacketLen /\ wh + len \notin wh .. wh + len - 1
                  <4> HIDE DEF wh
                  <4> QED
                      BY <1>10
            <3>2. QED
                  BY <1>6, <1>7, <3>1
      <2>3. wh + len < row'.wh
            <3>1. row'.wh = wh + len + 1
                  BY <1>6
            <3> HIDE DEF wh
            <3> QED
                BY <1>10, <3>1
      <2>4. PICK k, at, text : k = row.j /\ at = wh /\ text = c.cell
            OBVIOUS
      <2>5. /\ at \in Nat /\ text \in Seq(Byte) /\ Len(text) = len
            /\ row'.data[k] = Pointer(at, Len(text)) /\ row.sent[k].cell = text
            BY <1>2, <1>10, <1>12, <2>4 DEF c
      <2>6. /\ \A x \in 1 .. Len(text) : row'.mem[at + x - 1] = text[x]
            /\ row'.mem[at + Len(text)] = 0 /\ at + Len(text) < row'.wh
            BY <1>6, <2>1, <2>2, <2>3, <2>4, <2>5
      <2>7. Right(k)'
            BY <1>9, <2>5, <2>6, TextRight
      <2>8. \A m : m = row.j => ~Unreadable(m)
            BY <1>1, TypesAre DEF Unreadable, NotMadeOf
      <2>9. \A m : m = row.j => m = k
            BY <2>4
      <2>10. QED
            BY <2>7, <2>8, <2>9
<1>14. ReachOk(row'.reach)
      <2>1. far \in Nat /\ far <= PacketLen
            <3> DEFINE f == Start + len - 1
            <3>1. f <= PacketLen /\ f \in Int /\ wh + len <= PacketLen /\ wh + len \in Nat
                  <4> HIDE DEF wh
                  <4> QED
                      BY <1>10
            <3>2. far = MaxOf(f, wh + len)
                  BY <1>5
            <3> HIDE DEF f, wh
            <3>3. QED
                  BY <1>10, <3>1, <3>2 DEF MaxOf
      <2>2. row.reach \in Nat /\ row'.reach = MaxOf(row.reach, far)
            BY <1>3, <1>6
      <2>3. row'.reach = row.reach \/ row'.reach = far
            BY <2>2 DEF MaxOf
      <2>4. QED
            BY <1>3, <2>1, <2>3 DEF ReachOk
<1>15. row'.i <= PacketLen /\ row'.wh \in row.wh .. PacketLen /\ row'.wh <= row'.i
      <2>1. row'.wh = wh + len + 1 /\ row'.i = e
            BY <1>6
      <2>2. row'.wh \in wh .. PacketLen
            <3> HIDE DEF wh
            <3> QED
                BY <1>10, <2>1
      <2>3. row'.wh <= e
            <3> HIDE DEF wh
            <3> QED
                BY <1>10, <2>1
      <2>4. QED
            BY <1>10, <2>1, <2>2, <2>3
<1>16. row'.data = [row.data EXCEPT ![row.j] = row'.data[row.j]]
      BY <1>6, <1>12
<1>17. row'.mem = [k \in 0 .. PacketLen |-> row'.mem[k]]
      BY <1>6, <1>8
<1>18. row'.i = StartAt(row.j + 1)
      BY <1>2, <1>6
<1>19. Decodes
      BY <1>6, <1>9, <1>11, <1>13, <1>14, <1>15, <1>16, <1>18 DEF Decodes
<1>20. QED
      BY <1>1, <1>19, Advances

\* A column is given a value, and nothing that is still needed is touched.
LEMMA Given ==
  ASSUME RowInv, AtColumn, SameRow, row'.at = "column", row'.j = row.j + 1, row'.i = StartAt(row.j + 1),
         row'.wh = row.wh, NEW v, row'.data = [row.data EXCEPT ![row.j] = v], ReachOk(row'.reach),
         \A k \in 0 .. PacketLen : k < row.wh \/ (k >= row'.i /\ k < PacketLen) => row'.mem[k] = row.mem[k],
         v.is # "text",
         \A m : m = row.j =>
           /\ ~Unreadable(m)
           /\ \/ v = Meaning(m)
              \/ row.binary /\ TypeOf(m) \in {"year", "datetime", "date"} /\ (Sent(m) = <<>> \/ row.cut > 0),
         row'.i <= PacketLen \/ YearBefore(row.j + 1)
  PROVE  RowInv'
<1>1. /\ Shape /\ Reading /\ row.j \in 1 .. Len(row.sent) /\ PacketLen \in Nat /\ row.i \in Nat
      /\ row.wh \in 0 .. PacketLen /\ row.wh <= row.i /\ DOMAIN row.data = 1 .. Len(row.sent)
      BY AtIs
<1>2. row'.data[row.j] = v
      BY <1>1
<1>3. \A m : m = row.j => Right(m)' /\ ~Unreadable(m)
      <2> SUFFICES ASSUME NEW m, m = row.j
                   PROVE  Right(m)'
          OBVIOUS
      <2>1. Meaning(m)' = Meaning(m) /\ Sent(m)' = Sent(m) /\ TypeOf(m)' = TypeOf(m)
            /\ row'.binary = row.binary /\ row'.cut = row.cut
            BY SameIs DEF SameRow
      <2>2. row'.data[m] = v
            BY <1>2
      <2>3. \/ v = Meaning(m)
            \/ row.binary /\ TypeOf(m) \in {"year", "datetime", "date"} /\ (Sent(m) = <<>> \/ row.cut > 0)
            OBVIOUS
      <2>4. QED
            BY <2>1, <2>2, <2>3 DEF Right
<1>4. row.i <= row'.i
      <2>1. StartAt(row.j + 1) = row.i + Len(row.sent[row.j].bytes) /\ row.sent[row.j].bytes \in Seq(Byte)
            BY <1>1, ColumnIs
      <2> DEFINE l == Len(row.sent[row.j].bytes)
                 i == row.i
                 e == row'.i
      <2>2. l \in Nat
            BY <2>1
      <2>3. e = i + l
            BY <2>1
      <2>4. i \in Nat
            BY <1>1
      <2> HIDE DEF l, i, e
      <2>5. i <= e /\ e \in Nat
            BY <2>2, <2>3, <2>4
      <2>6. QED
            BY <2>5 DEF i, e
<1>5. row'.wh \in row.wh .. PacketLen /\ row'.wh <= row'.i
      <2>1. row'.i \in Nat
            <3>1. row.sent[row.j].bytes \in Seq(Byte) /\ row'.i = row.i + Len(row.sent[row.j].bytes)
                  BY <1>1, ColumnIs
            <3> DEFINE l == Len(row.sent[row.j].bytes)
            <3>2. l \in Nat
                  BY <3>1
            <3> HIDE DEF l
            <3>3. row.i + l \in Nat
                  BY <1>1, <3>2
            <3>4. QED
                  BY <3>1, <3>3 DEF l
      <2>2. QED
            BY <1>1, <1>4, <2>1
<1>6. row'.data = [row.data EXCEPT ![row.j] = row'.data[row.j]]
      BY <1>2
<1>7. Decodes
      BY <1>3, <1>5, <1>6 DEF Decodes
<1>8. QED
      BY <1>7, Advances

----------------------------------------------------------------------------
(* Numbers and dates in string form                                        *)

\* The pieces read from memory are those of the text: the row is refused
\* where one of them is no number, and is given all of them otherwise.
PiecesMean(m) ==
  LET ends == Ends(Type, Cell.len)
      mem == Zeroed({Start + ends[x] : x \in DOMAIN ends})
      pieces == Pieces(ends, mem)
  IN /\ IsEnds(ends, Cell.len)
     /\ Unreadable(m) <=> Type # "year" /\ \E x \in DOMAIN pieces : ~pieces[x].whole
     /\ ~Unreadable(m) => Value([x \in DOMAIN pieces |-> pieces[x].digits]) = Meaning(m)

LEMMA PiecesAre ==
  ASSUME RowInv, Fits, ~Cell.nul, ~row.binary, Type \notin {"text", "other"},
         Type \in Numbers \/ Cell.len = Last(Ends(Type, Cell.len)), NEW m, m = row.j
  PROVE  PiecesMean(m)
<1> DEFINE text == row.sent[row.j].cell
           len == Cell.len
           ends == Ends(Type, Cell.len)
           mem == Zeroed({Start + ends[x] : x \in DOMAIN ends})
           pieces == Pieces(ends, mem)
<1>1. /\ AtColumn /\ ~row.sent[row.j].null /\ text \in Seq(Byte) /\ len = Len(text) /\ len \in Nat
      /\ Start \in Nat /\ Start + len <= PacketLen
      /\ \A x \in 1 .. Len(text) : row.mem[Start + x - 1] = text[x]
      BY Fitting DEF Fits, HasLength
<1>2. /\ PacketLen \in Nat /\ DOMAIN row.mem = 0 .. PacketLen
      /\ IsStringCell(row.sent[row.j])
      BY <1>1, AtIs, ColumnIs
<1>3. /\ Type \in Numbers \cup {"year", "time", "datetime", "date"} /\ TypeOf(m) = Type /\ Sent(m) = text
      BY <1>1, TypesAre
<1>4. \A x \in 1 .. Len(text) : text[x] # 0
      <2>1. row.sent[row.j].type = Type /\ DOMAIN text = 1 .. Len(text)
            BY <1>1 DEF Type
      <2>2. QED
            BY <1>1, <1>2, <2>1 DEF IsStringCell
<1>5. IsEnds(ends, len) /\ (Type = "year" => Len(ends) = 1)
      <2>1. Readable(Type, len)
            BY <1>3 DEF Readable
      <2>2. QED
            BY <1>1, <2>1, EndsAre
<1> HIDE DEF ends
<1>6. Ended(mem, Start, text, ends)
      <2> SUFFICES ASSUME NEW y \in 0 .. Len(text)
                   PROVE  IF \E x \in 1 .. Len(ends) : y = ends[x] THEN mem[Start + y] = 0
                          ELSE mem[Start + y] = text[y + 1]
          BY DEF Ended
      <2>1. DOMAIN ends = 1 .. Len(ends) /\ \A x \in 1 .. Len(ends) : ends[x] \in 0 .. len
            BY <1>5 DEF IsEnds
      <2>2. Start + y \in 0 .. PacketLen /\ len = Len(text)
            BY <1>1, <1>2
      <2>3. CASE \E x \in 1 .. Len(ends) : y = ends[x]
            <3>1. PICK x \in 1 .. Len(ends) : y = ends[x]
                  BY <2>3
            <3>2. Start + y \in {Start + ends[z] : z \in DOMAIN ends}
                  BY <2>1, <3>1
            <3>3. mem[Start + y] = 0
                  BY <1>2, <2>2, <3>2 DEF Zeroed
            <3>4. QED
                  BY <2>3, <3>3
      <2>4. CASE ~ \E x \in 1 .. Len(ends) : y = ends[x]
            <3>1. \A z \in DOMAIN ends : Start + y # Start + ends[z]
                  <4> TAKE z \in DOMAIN ends
                  <4> DEFINE w == ends[z]
                  <4>1. w \in 0 .. len /\ w # y
                        BY <2>1, <2>4
                  <4> HIDE DEF w
                  <4>2. Start + y # Start + w
                        BY <1>1, <4>1
                  <4>3. QED
                        BY <4>2 DEF w
            <3>2. mem[Start + y] = row.mem[Start + y]
                  BY <1>2, <2>2, <3>1 DEF Zeroed
            <3>3. y # len
                  <4>1. ends[Len(ends)] = len /\ Len(ends) \in 1 .. Len(ends)
                        BY <1>5 DEF IsEnds
                  <4>2. QED
                        BY <2>4, <4>1
            <3>4. y + 1 \in 1 .. Len(text) /\ Start + (y + 1) - 1 = Start + y
                  <4> DEFINE l == Len(text)
                  <4>1. l \in Nat /\ y \in 0 .. l /\ y # l
                        BY <1>1, <3>3
                  <4> HIDE DEF l
                  <4>2. y + 1 \in 1 .. l /\ Start + (y + 1) - 1 = Start + y
                        BY <1>1, <4>1
                  <4>3. QED
                        BY <4>2 DEF l
            <3>5. row.mem[Start + y] = text[y + 1]
                  BY <1>1, <3>4
            <3>6. QED
                  BY <2>4, <3>2, <3>5
      <2>5. QED
            BY <2>3, <2>4
<1>7. /\ DOMAIN pieces = DOMAIN ends /\ DOMAIN ends = 1 .. Len(ends)
      /\ \A x \in 1 .. Len(ends) : pieces[x] = Strtol(mem, Start + From(ends, x))
      BY <1>5 DEF IsEnds, Pieces, From
<1> HIDE DEF mem, pieces, text, len
<1>8. ASSUME NEW x \in 1 .. Len(ends)
      PROVE  /\ pieces[x].whole <=> MadeOf(Numerals(Type), PiecesOf(text, ends)[x])
             /\ pieces[x].whole => pieces[x].digits = PiecesOf(text, ends)[x]
             /\ Len(ends) = 1 /\ Numerals(Type) = Digits => pieces[x].digits = Leading(text)
      <2>1. IsEnds(ends, Len(text)) /\ Start + Len(text) <= PacketLen /\ Start \in Nat /\ text \in Seq(Byte)
            BY <1>1, <1>5
      <2>2. PacketLen \in Nat
            BY <1>2
      <2> DEFINE r == Strtol(mem, Start + From(ends, x))
                 piece == PiecesOf(text, ends)[x]
      <2>3. /\ r.whole <=> MadeOf(Numerals(Type), piece)
            /\ r.whole => r.digits = piece
            /\ Len(ends) = 1 /\ Numerals(Type) = Digits => r.digits = Leading(text)
            BY <1>4, <1>6, <2>1, <2>2, PieceReads
      <2>4. pieces[x] = r
            BY <1>7
      <2>5. QED
            BY <2>3, <2>4
<1>9. ~Skips(TypeOf(m), Sent(m)) /\ Ends(TypeOf(m), Len(Sent(m))) = ends
      <2>1. len = Len(text) /\ ends = Ends(Type, len)
            BY <1>1 DEF ends, len
      <2>2. Type \notin Numbers \/ Type \notin {"time", "year", "datetime", "date"}
            BY DEF Numbers
      <2>3. Type \in Numbers \/ len = Last(Ends(Type, len))
            BY DEF len
      <2>4. QED
            BY <1>3, <2>1, <2>2, <2>3 DEF Skips
<1>10. Unreadable(m) <=> Type # "year" /\ \E x \in DOMAIN pieces : ~pieces[x].whole
      <2>1. Unreadable(m) <=> Type # "year" /\ \E x \in DOMAIN ends : ~MadeOf(Numerals(Type), PiecesOf(text, ends)[x])
            BY <1>1, <1>3, <1>9 DEF Unreadable, NotMadeOf
      <2>2. QED
            BY <1>7, <1>8, <2>1
<1>11. ASSUME ~Unreadable(m)
       PROVE  Value([x \in DOMAIN pieces |-> pieces[x].digits]) = Meaning(m)
      <2>1. Meaning(m) = IF Type = "year" THEN Value(<<Leading(text)>>) ELSE Value(PiecesOf(text, ends))
            BY <1>1, <1>3, <1>9, MeaningsAre
      <2>2. CASE Type = "year"
            <3>1. Numerals(Type) = Digits
                  BY <2>2 DEF Numerals
            <3>2. [x \in DOMAIN pieces |-> pieces[x].digits] = [x \in 1 .. 1 |-> Leading(text)]
                  BY <1>5, <1>7, <1>8, <2>2, <3>1
            <3>3. [x \in 1 .. 1 |-> Leading(text)] = <<Leading(text)>>
                  OBVIOUS
            <3>4. QED
                  BY <2>1, <2>2, <3>2, <3>3
      <2>3. CASE Type # "year"
            <3>1. \A x \in 1 .. Len(ends) : pieces[x].digits = PiecesOf(text, ends)[x]
                  BY <1>7, <1>8, <1>10, <1>11, <2>3
            <3>2. PiecesOf(text, ends) = [x \in DOMAIN ends |-> PiecesOf(text, ends)[x]]
                  BY DEF PiecesOf
            <3>3. [x \in DOMAIN pieces |-> pieces[x].digits] = PiecesOf(text, ends)
                  BY <1>7, <3>1, <3>2
            <3>4. QED
                  BY <2>1, <2>3, <3>3
      <2>4. QED
            BY <2>2, <2>3
<1>12. QED
      BY <1>5, <1>10, <1>11 DEF PiecesMean, mem, pieces, ends, len

LEMMA StringValueStep ==
  ASSUME RowInv, StringValue
  PROVE  RowInv'
<1> DEFINE len == Cell.len
           ends == Ends(Type, Cell.len)
           mem == Zeroed({Start + ends[x] : x \in DOMAIN ends})
           pieces == Pieces(ends, mem)
           e == Start + Cell.len
           s == Reaching([row EXCEPT !.mem = mem], e)
           value == Value([x \in DOMAIN pieces |-> pieces[x].digits])
<1>1. /\ AtColumn /\ Fits /\ ~Cell.nul /\ ~row.binary /\ Type \notin {"text", "other"}
      /\ Type \in Numbers \/ Cell.len = Last(Ends(Type, Cell.len))
      BY DEF StringValue, Fits, HasLength
<1>2. /\ len \in Nat /\ Start \in Nat /\ row.i < Start /\ e = StartAt(row.j + 1) /\ e <= PacketLen
      BY <1>1, Fitting
<1>3. /\ Shape /\ Reading /\ DOMAIN row = RowFields /\ row.j \in 1 .. Len(row.sent)
      /\ PacketLen \in Nat /\ row.i \in Nat /\ row.wh \in 0 .. PacketLen /\ row.wh <= row.i
      /\ row.reach \in Nat /\ ReachOk(row.reach) /\ DOMAIN row.data = 1 .. Len(row.sent)
      /\ DOMAIN row.mem = 0 .. PacketLen /\ row.at = "column"
      BY <1>1, AtIs
<1>4. \A m : m = row.j => PiecesMean(m)
      BY <1>1, PiecesAre
<1>5. IF Type # "year" /\ \E x \in DOMAIN pieces : ~pieces[x].whole
      THEN row' = [s EXCEPT !.at = "error"]
      ELSE row' = [[s EXCEPT !.mem = Restored(@, e), !.data[row.j] = value] EXCEPT !.j = @ + 1, !.i = e]
      BY DEF StringValue, Refuse, Past
<1>6. \A m : m = row.j => /\ Unreadable(m) <=> Type # "year" /\ \E x \in DOMAIN pieces : ~pieces[x].whole
                          /\ ~Unreadable(m) => value = Meaning(m)
      BY <1>4 DEF PiecesMean
<1>7. IsEnds(ends, len)
      BY <1>4 DEF PiecesMean
<1>8. value.is = "value"
      BY DEF Value
<1> HIDE DEF ends, pieces, value, len
<1>9. mem = [k \in 0 .. PacketLen |-> IF k \in {Start + ends[x] : x \in DOMAIN ends} THEN 0 ELSE row.mem[k]]
      BY <1>3 DEF Zeroed
<1> HIDE DEF mem
<1>10. e \in Nat /\ e = Start + len
      BY <1>2 DEF len
<1> HIDE DEF e
<1>11. s = [row EXCEPT !.mem = mem, !.reach = MaxOf(row.reach, e)]
      BY <1>3 DEF Reaching, RowFields
<1> HIDE DEF s
<1>12. ReachOk(MaxOf(row.reach, e))
      <2>1. MaxOf(row.reach, e) = row.reach \/ MaxOf(row.reach, e) = e
            BY DEF MaxOf
      <2>2. QED
            BY <1>2, <1>3, <1>10, <2>1 DEF ReachOk
<1>13. CASE Type # "year" /\ \E x \in DOMAIN pieces : ~pieces[x].whole
      <2>1. row' = [s EXCEPT !.at = "error"]
            BY <1>5, <1>13
      <2>2. /\ DOMAIN row' = RowFields /\ row'.at = "error"
            /\ row'.binary = row.binary /\ row'.sent = row.sent /\ row'.cut = row.cut /\ row'.packet = row.packet
            /\ row'.mem = mem /\ row'.data = row.data /\ row'.reach = MaxOf(row.reach, e)
            /\ row'.j = row.j /\ row'.i = row.i /\ row'.wh = row.wh
            BY <1>3, <1>11, <2>1 DEF RowFields
      <2>3. SameRow
            BY <1>9, <2>2 DEF SameRow
      <2>4. Unreadable(row.j)
            <3>1. PICK m : m = row.j
                  OBVIOUS
            <3>2. Unreadable(m)
                  BY <1>6, <1>13, <3>1
            <3>3. QED
                  BY <3>1, <3>2
      <2>5. Refuses
            BY <1>12, <2>2, <2>3, <2>4 DEF Refuses
      <2>6. QED
            BY <1>1, <2>5, StopsRefused
<1>14. CASE ~(Type # "year" /\ \E x \in DOMAIN pieces : ~pieces[x].whole)
      <2>1. row' = [[s EXCEPT !.mem = Restored(@, e), !.data[row.j] = value] EXCEPT !.j = @ + 1, !.i = e]
            BY <1>5, <1>14
      <2>2. /\ DOMAIN row' = RowFields /\ row'.at = "column"
            /\ row'.binary = row.binary /\ row'.sent = row.sent /\ row'.cut = row.cut /\ row'.packet = row.packet
            /\ row'.mem = Restored(mem, e) /\ row'.data = [row.data EXCEPT ![row.j] = value]
            /\ row'.reach = MaxOf(row.reach, e)
            /\ row'.j = row.j + 1 /\ row'.i = e /\ row'.wh = row.wh
            BY <1>3, <1>11, <2>1 DEF RowFields
      <2>3. row'.mem = [[k \in 0 .. PacketLen |-> IF k \in {Start + ends[x] : x \in DOMAIN ends} THEN 0 ELSE row.mem[k]]
                          EXCEPT ![e] = row.mem[e]]
            BY <1>9, <2>2 DEF Restored
      <2>4. SameRow
            BY <2>2, <2>3 DEF SameRow
      <2>5. ASSUME NEW k \in 0 .. PacketLen, k < row.wh \/ (k >= row'.i /\ k < PacketLen)
            PROVE  row'.mem[k] = row.mem[k]
            <3>1. CASE k = e
                  BY <2>3, <3>1
            <3>2. CASE k # e
                  <4>1. \A x \in DOMAIN ends : k # Start + ends[x]
                        <5> TAKE x \in DOMAIN ends
                        <5> DEFINE w == ends[x]
                        <5>1. w \in 0 .. len
                              BY <1>7 DEF IsEnds
                        <5>2. k < row.wh \/ k > e
                              BY <1>10, <2>2, <2>5, <3>2
                        <5> HIDE DEF w
                        <5>3. len \in Nat
                              BY <1>2
                        <5>4. k # Start + w
                              BY <1>2, <1>3, <1>10, <5>1, <5>2, <5>3
                        <5>5. QED
                              BY <5>4 DEF w
                  <4>2. QED
                        BY <2>3, <3>2, <4>1
            <3>3. QED
                  BY <3>1, <3>2
      <2>6. \A m : m = row.j => ~Unreadable(m) /\ value = Meaning(m)
            BY <1>6, <1>14
      <2>7. row'.i = StartAt(row.j + 1) /\ row'.i <= PacketLen
            BY <1>2, <2>2 DEF e
      <2>8. ReachOk(row'.reach)
            BY <1>12, <2>2
      <2>9. QED
            BY <1>1, <1>8, <2>2, <2>4, <2>5, <2>6, <2>7, <2>8, Given
<1>15. QED
      BY <1>13, <1>14

----------------------------------------------------------------------------
(* Numbers and dates in binary form                                        *)

\* Bytes that are in memory are found there.
LEMMA Peeked ==
  ASSUME NEW k \in Nat, NEW n \in Nat, NEW text \in Seq(Byte), n <= Len(text), PacketLen \in Nat,
         k + n <= PacketLen, \A x \in 1 .. n : row.mem[k + x - 1] = text[x]
  PROVE  Peek(k, n) = SubSeq(text, 1, n)
<1>1. Len(text) \in Nat
      OBVIOUS
<1>2. /\ SubSeq(text, 1, n) \in Seq(Byte) /\ Len(SubSeq(text, 1, n)) = n
      /\ \A x \in 1 .. n : SubSeq(text, 1, n)[x] = text[x]
      BY <1>1
<1>3. SubSeq(text, 1, n) = [x \in 1 .. n |-> SubSeq(text, 1, n)[x]]
      BY <1>2
<1>4. ASSUME NEW x \in 1 .. n
      PROVE  (IF k + x - 1 <= PacketLen THEN row.mem[k + x - 1] ELSE Beyond) = SubSeq(text, 1, n)[x]
      <2>1. k + x - 1 <= PacketLen
            OBVIOUS
      <2>2. QED
            BY <1>2, <2>1
<1>5. QED
      BY <1>3, <1>4 DEF Peek

LEMMA Widths ==
  ASSUME NEW type
  PROVE  WidthOf(type) \in {1, 2, 4, 8}
<1>1. CASE type = "tiny"
      BY <1>1 DEF WidthOf
<1>2. CASE type \in {"short", "year"}
      BY <1>2 DEF WidthOf
<1>3. CASE type \in {"int", "float"}
      BY <1>3 DEF WidthOf
<1>4. CASE type \notin {"tiny", "short", "year", "int", "float"}
      BY <1>4 DEF WidthOf
<1>5. QED
      BY <1>1, <1>2, <1>3, <1>4

\* The bytes of a number are those of its column.
LEMMA NumberIs ==
  ASSUME RowInv, AtColumn, row.binary, ~BitSet, Type \in Numbers \cup {"year"}
  PROVE  LET c == row.sent[row.j]
         IN /\ ~c.null /\ c.cell \in Seq(Byte) /\ Len(c.cell) = Width /\ Width \in {1, 2, 4, 8}
            /\ StartAt(row.j + 1) = row.i + Width /\ row.i + Width <= PacketLen + row.cut
            /\ row.i + Width <= PacketLen => \A x \in 1 .. Width : row.mem[row.i + x - 1] = c.cell[x]
<1> DEFINE c == row.sent[row.j]
<1>1. /\ c.cell \in Seq(Byte) /\ IsBinaryCell(c) /\ Holds(row.mem, row.i, PacketLen - row.i, c.bytes)
      /\ StartAt(row.j + 1) = row.i + Len(c.bytes) /\ StartAt(row.j + 1) <= PacketLen + row.cut
      /\ ~c.null
      BY AtIs, ColumnIs
<1>2. c.bytes = c.cell /\ Len(c.cell) = Width
      <2>1. c.type = Type
            BY DEF Type
      <2>2. Type \notin {"text", "time", "datetime", "date"}
            BY DEF Numbers
      <2>3. QED
            BY <1>1, <2>1, <2>2 DEF IsBinaryCell, Width
<1>3. Width \in {1, 2, 4, 8}
      BY Widths DEF Width
<1>4. row.i \in Nat /\ PacketLen \in Nat
      BY AtIs
<1>5. ASSUME row.i + Width <= PacketLen, NEW x \in 1 .. Width
      PROVE  row.mem[row.i + x - 1] = c.cell[x]
      <2>1. x <= PacketLen - row.i
            BY <1>3, <1>4, <1>5
      <2>2. QED
            BY <1>1, <1>2, <2>1 DEF Holds
<1>6. QED
      BY <1>1, <1>2, <1>3, <1>5

LEMMA BinaryNumberStep ==
  ASSUME RowInv, BinaryNumber
  PROVE  RowInv'
<1> DEFINE c == row.sent[row.j]
           w == Width
           e == row.i + Width
           value == Value(<<Peek(row.i, Width)>>)
<1>1. AtColumn /\ row.binary /\ ~BitSet /\ Type \in Numbers \cup {"year"}
      BY DEF BinaryNumber
<1>2. /\ ~c.null /\ c.cell \in Seq(Byte) /\ Len(c.cell) = w /\ w \in {1, 2, 4, 8}
      /\ StartAt(row.j + 1) = e /\ e <= PacketLen + row.cut
      /\ e <= PacketLen => \A x \in 1 .. w : row.mem[row.i + x - 1] = c.cell[x]
      BY <1>1, NumberIs
<1>3. /\ Shape /\ Reading /\ DOMAIN row = RowFields /\ row.j \in 1 .. Len(row.sent)
      /\ PacketLen \in Nat /\ row.i \in Nat /\ row.wh \in 0 .. PacketLen /\ row.wh <= row.i
      /\ row.reach \in Nat /\ ReachOk(row.reach) /\ DOMAIN row.data = 1 .. Len(row.sent)
      /\ row.mem = [k \in 0 .. PacketLen |-> row.mem[k]] /\ row.at = "column"
      BY <1>1, AtIs
<1>4. \A m : m = row.j => TypeOf(m) = Type /\ Sent(m) = c.cell
      BY <1>1, TypesAre
<1>5. row.cut \in Nat
      BY <1>3 DEF Shape
<1>6. /\ Type # "year" /\ row.i > PacketLen - w => row' = [row EXCEPT !.at = "error"]
      /\ ~(Type # "year" /\ row.i > PacketLen - w) =>
           row' = [[[row EXCEPT !.data[row.j] = value] EXCEPT !.j = @ + 1, !.i = e] EXCEPT !.reach = MaxOf(@, e - 1)]
      <2>1. Type # "year" /\ row.i > PacketLen - w => Refuse(row)
            BY Zenon DEF BinaryNumber
      <2>2. ~(Type # "year" /\ row.i > PacketLen - w) =>
              row' = Reaching(Past([row EXCEPT !.data[row.j] = value], e), row.i + Width - 1)
            BY Zenon DEF BinaryNumber
      <2>3. row.i + Width - 1 = e - 1
            <3> HIDE DEF w
            <3>1. w \in Int /\ row.i + w - 1 = (row.i + w) - 1
                  BY <1>2, <1>3
            <3>2. QED
                  BY <3>1 DEF w
      <2>4. QED
            BY <2>1, <2>2, <2>3, Zenon DEF Refuse, Past, Reaching
<1>7. value.is = "value"
      BY DEF Value
<1>8. e <= PacketLen => \A m : m = row.j => value = Meaning(m)
      <2> SUFFICES ASSUME e <= PacketLen, NEW m, m = row.j
                   PROVE  value = Meaning(m)
          OBVIOUS
      <2>1. Peek(row.i, w) = SubSeq(c.cell, 1, w)
            <3>1. w \in Nat /\ w <= Len(c.cell) /\ row.i + w <= PacketLen
                  BY <1>2
            <3>2. \A x \in 1 .. w : row.mem[row.i + x - 1] = c.cell[x]
                  BY <1>2
            <3> HIDE DEF w
            <3>3. QED
                  BY <1>2, <1>3, <3>1, <3>2, Peeked
      <2>2. SubSeq(c.cell, 1, w) = c.cell
            BY <1>2
      <2>3. Type # "time" /\ Type # "datetime"
            BY <1>1 DEF Numbers
      <2>4. Kept(TypeOf(m), Sent(m)) = c.cell
            BY <1>4, <2>3 DEF Kept
      <2>5. Meaning(m) = Value(<<Kept(TypeOf(m), Sent(m))>>)
            BY <1>1, <1>2, <1>4, <2>3, MeaningsAre
      <2>6. QED
            BY <2>1, <2>2, <2>4, <2>5
<1> HIDE DEF value, c
<1>9. CASE Type # "year" /\ row.i > PacketLen - w
      <2>1. row' = [row EXCEPT !.at = "error"]
            BY <1>6, <1>9
      <2>2. row.cut > 0
            <3> HIDE DEF w
            <3> QED
                BY <1>2, <1>3, <1>5, <1>9 DEF w
      <2>3. /\ DOMAIN row' = RowFields /\ row'.at = "error"
            /\ row'.binary = row.binary /\ row'.sent = row.sent /\ row'.cut = row.cut /\ row'.packet = row.packet
            /\ row'.mem = row.mem /\ row'.data = row.data /\ row'.reach = row.reach
            /\ row'.j = row.j /\ row'.i = row.i /\ row'.wh = row.wh
            BY <1>3, <2>1 DEF RowFields
      <2>4. SameRow
            BY <1>3, <2>3 DEF SameRow
      <2>5. Refuses
            BY <1>3, <2>2, <2>3, <2>4 DEF Refuses
      <2>6. QED
            BY <1>1, <2>5, StopsRefused
<1>10. CASE ~(Type # "year" /\ row.i > PacketLen - w)
      <2>1. row' = [[[row EXCEPT !.data[row.j] = value] EXCEPT !.j = @ + 1, !.i = e]
                     EXCEPT !.reach = MaxOf(@, e - 1)]
            BY <1>6, <1>10
      <2>2. e \in Nat /\ e - 1 \in Nat /\ (e <= PacketLen \/ Type = "year")
            <3> DEFINE p == PacketLen
                       i == row.i
            <3>1. /\ p \in Nat /\ i \in Nat /\ w \in 1 .. 8 /\ (Type = "year" \/ ~(i > p - w))
                  /\ e = i + w
                  BY <1>2, <1>3, <1>10
            <3> HIDE DEF e, w, i, p
            <3>2. e \in Nat /\ e - 1 \in Nat /\ (e <= p \/ Type = "year")
                  BY <3>1
            <3>3. QED
                  BY <3>2 DEF p
      <2> HIDE DEF e, w
      <2>3. /\ DOMAIN row' = RowFields /\ row'.at = "column"
            /\ row'.binary = row.binary /\ row'.sent = row.sent /\ row'.cut = row.cut /\ row'.packet = row.packet
            /\ row'.mem = row.mem /\ row'.data = [row.data EXCEPT ![row.j] = value]
            /\ row'.reach = MaxOf(row.reach, e - 1)
            /\ row'.j = row.j + 1 /\ row'.i = e /\ row'.wh = row.wh
            BY <1>3, <2>1 DEF RowFields
      <2>4. SameRow
            BY <1>3, <2>3 DEF SameRow
      <2>5. ReachOk(row'.reach)
            <3>1. row'.reach = row.reach \/ row'.reach = e - 1
                  BY <2>3 DEF MaxOf
            <3>2. CASE Type = "year"
                  <4>1. row.j \in DOMAIN row.sent
                        BY <1>3, SentIs
                  <4>2. \E k \in DOMAIN row.sent : TypeOf(k) \in {"year", "datetime", "date"}
                        BY <1>4, <3>2, <4>1
                  <4>3. QED
                        BY <1>1, <1>3, <2>2, <3>1, <4>2 DEF ReachOk
            <3>3. CASE e <= PacketLen
                  <4>1. e - 1 <= PacketLen
                        BY <1>3, <2>2, <3>3
                  <4>2. QED
                        BY <1>3, <2>2, <3>1, <4>1 DEF ReachOk
            <3>4. QED
                  BY <2>2, <3>2, <3>3
      <2>6. ASSUME NEW m, m = row.j
            PROVE  /\ ~Unreadable(m)
                   /\ \/ value = Meaning(m)
                      \/ row.binary /\ TypeOf(m) \in {"year", "datetime", "date"} /\ (Sent(m) = <<>> \/ row.cut > 0)
            <3>1. ~Unreadable(m)
                  BY <1>1 DEF Unreadable, NotMadeOf
            <3>2. CASE e <= PacketLen
                  BY <1>8, <2>6, <3>1, <3>2
            <3>3. CASE ~(e <= PacketLen)
                  <4>1. row.cut > 0
                        BY <1>2, <1>3, <1>5, <2>2, <3>3
                  <4>2. Type = "year"
                        BY <2>2, <3>3
                  <4>3. QED
                        BY <1>1, <1>4, <2>6, <3>1, <4>1, <4>2
            <3>4. QED
                  BY <3>2, <3>3
      <2>7. row'.i <= PacketLen \/ YearBefore(row.j + 1)
            <3>1. Type = "year" => YearBefore(row.j + 1)
                  <4>1. row.j \in 1 .. (row.j + 1) - 1
                        BY <1>3
                  <4>2. QED
                        BY <1>1, <1>4, <4>1 DEF YearBefore
            <3>2. QED
                  BY <2>2, <2>3, <3>1
      <2>8. row'.i = StartAt(row.j + 1)
            BY <1>2, <2>3
      <2>9. QED
            BY <1>1, <1>7, <2>3, <2>4, <2>5, <2>6, <2>7, <2>8, Given
<1>11. QED
      BY <1>9, <1>10

\* What is read of a date or time is what is kept of it, and is there, but
\* where the cell has no bytes.
ReadsKept(text, len) ==
  /\ ReadOf(len) \in Nat
  /\ ReadOf(len) = 0 => Type = "time" /\ text = <<>>
  /\ ReadOf(len) > len => Type # "time" /\ text = <<>>
  /\ ReadOf(len) <= len => SubSeq(text, 1, ReadOf(len)) = Kept(Type, text)

LEMMA DateReads ==
  ASSUME NEW text \in Seq(Byte), NEW len \in Nat, len = Len(text),
         \/ Type = "time" /\ len \in {0, 8, 12}
         \/ Type = "datetime" /\ len \in {0, 4, 7, 11}
         \/ Type = "date" /\ len \in {0, 4}
  PROVE  ReadsKept(text, len)
<1>1. (len = 0 => text = <<>>) /\ SubSeq(text, 1, len) = text
      OBVIOUS
<1>2. CASE Type = "time" /\ len \in {0, 8, 12}
      <2>1. ReadOf(len) = len
            BY <1>2 DEF ReadOf
      <2>2. Kept(Type, text) = text
            BY <1>2 DEF Kept
      <2>3. QED
            BY <1>1, <1>2, <2>1, <2>2 DEF ReadsKept
<1>3. CASE Type = "datetime" /\ len \in {0, 4, 7, 11}
      <2>1. ReadOf(len) = IF len > 4 THEN 7 ELSE 4
            BY <1>3 DEF ReadOf
      <2>2. CASE len = 0
            BY <1>1, <1>3, <2>1, <2>2 DEF ReadsKept
      <2>3. CASE len \in {4, 7}
            <3>1. ReadOf(len) = len
                  BY <2>1, <2>3
            <3>2. Kept(Type, text) = text
                  BY <2>3 DEF Kept
            <3>3. QED
                  BY <1>1, <2>3, <3>1, <3>2 DEF ReadsKept
      <2>4. CASE len = 11
            <3>1. ReadOf(len) = 7
                  BY <2>1, <2>4
            <3>2. Kept(Type, text) = SubSeq(text, 1, 7)
                  BY <1>3, <2>4 DEF Kept
            <3>3. QED
                  BY <2>4, <3>1, <3>2 DEF ReadsKept
      <2>5. QED
            BY <1>3, <2>2, <2>3, <2>4
<1>4. CASE Type = "date" /\ len \in {0, 4}
      <2>1. ReadOf(len) = 4
            BY <1>4 DEF ReadOf
      <2>2. Kept(Type, text) = text
            BY <1>4 DEF Kept
      <2>3. CASE len = 0
            BY <1>1, <1>4, <2>1, <2>3 DEF ReadsKept
      <2>4. CASE len = 4
            BY <1>1, <1>4, <2>1, <2>2, <2>4 DEF ReadsKept
      <2>5. QED
            BY <1>4, <2>3, <2>4
<1>5. QED
      BY <1>2, <1>3, <1>4

LEMMA DateIs ==
  ASSUME RowInv, Fits, ~Cell.nul, row.binary, Type \in Dates
  PROVE  ReadsKept(row.sent[row.j].cell, Cell.len)
<1>1. /\ AtColumn /\ ~row.sent[row.j].null /\ row.sent[row.j].cell \in Seq(Byte)
      /\ Cell.len = Len(row.sent[row.j].cell) /\ Cell.len \in Nat
      BY Fitting DEF Fits, HasLength
<1>2. IsBinaryCell(row.sent[row.j]) /\ row.sent[row.j].type = Type
      BY <1>1, AtIs, ColumnIs DEF Type
<1>3. Type \notin Numbers \cup {"year", "text"}
      BY DEF Dates, Numbers
<1>4. \/ Type = "time" /\ Cell.len \in {0, 8, 12}
      \/ Type = "datetime" /\ Cell.len \in {0, 4, 7, 11}
      \/ Type = "date" /\ Cell.len \in {0, 4}
      BY <1>1, <1>2, <1>3 DEF IsBinaryCell
<1>5. QED
      BY <1>1, <1>4, DateReads

LEMMA BinaryDateStep ==
  ASSUME RowInv, BinaryDate
  PROVE  RowInv'
<1> DEFINE text == row.sent[row.j].cell
           len == Cell.len
           n == ReadOf(Cell.len)
           e == Start + Cell.len
           value == Value(<<Peek(Start, n)>>)
<1>1. AtColumn /\ Fits /\ ~Cell.nul /\ row.binary /\ Type \in Dates
      BY DEF BinaryDate, Fits, HasLength
<1>2. /\ ~row.sent[row.j].null /\ text \in Seq(Byte) /\ len = Len(text) /\ len \in Nat
      /\ Start \in Nat /\ row.i < Start /\ e = StartAt(row.j + 1) /\ e <= PacketLen
      /\ \A x \in 1 .. Len(text) : row.mem[Start + x - 1] = text[x]
      BY <1>1, Fitting
<1>3. /\ Shape /\ Reading /\ DOMAIN row = RowFields /\ row.j \in 1 .. Len(row.sent)
      /\ PacketLen \in Nat /\ row.i \in Nat /\ row.wh \in 0 .. PacketLen /\ row.wh <= row.i
      /\ row.reach \in Nat /\ ReachOk(row.reach) /\ DOMAIN row.data = 1 .. Len(row.sent)
      /\ row.mem = [k \in 0 .. PacketLen |-> row.mem[k]] /\ row.at = "column"
      BY <1>1, AtIs
<1>4. \A m : m = row.j => TypeOf(m) = Type /\ Sent(m) = text
      BY <1>1, TypesAre
<1>5. /\ n \in Nat
      /\ n = 0 => Type = "time" /\ text = <<>>
      /\ n > len => Type # "time" /\ text = <<>>
      /\ n <= len => SubSeq(text, 1, n) = Kept(Type, text)
      BY <1>1, DateIs DEF ReadsKept
<1>6. row' = Past(IF n = 0 THEN row
                  ELSE Reaching([row EXCEPT !.data[row.j] = value], Start + n - 1), e)
      BY DEF BinaryDate
<1>7. value.is = "value"
      BY DEF Value
<1>8. \A m : m = row.j => ~Unreadable(m)
      BY <1>1 DEF Unreadable, NotMadeOf
<1>9. CASE n = 0
      <2>1. row' = Past(row, e)
            BY <1>6, <1>9
      <2>2. Type = "time" /\ Len(text) = 0
            BY <1>5, <1>9
      <2>3. \A m : m = row.j => Meaning(m) = Unset
            BY <1>1, <1>2, <1>4, <2>2, MeaningsAre
      <2>4. QED
            BY <1>1, <1>2, <1>8, <2>1, <2>3, PassedOver
<1>10. CASE n # 0
      <2> HIDE DEF n
      <2>1. row' = [Reaching([row EXCEPT !.data[row.j] = value], Start + n - 1) EXCEPT !.j = @ + 1, !.i = e]
            BY <1>6, <1>10 DEF Past
      <2>2. row' = [[[row EXCEPT !.data[row.j] = value] EXCEPT !.reach = MaxOf(@, Start + n - 1)]
                      EXCEPT !.j = @ + 1, !.i = e]
            BY <2>1 DEF Reaching
      <2>3. value = Meaning(row.j) \/ n > len
            <3> SUFFICES ASSUME ~(n > len)
                         PROVE  value = Meaning(row.j)
                OBVIOUS
            <3>1. PICK m : m = row.j
                  OBVIOUS
            <3>2. n <= len
                  BY <1>2, <1>5
            <3>3. Peek(Start, n) = SubSeq(text, 1, n)
                  <4>1. n \in Nat /\ n <= Len(text) /\ Start + n <= PacketLen
                        <5> DEFINE l == Cell.len
                        <5>1. l \in Nat /\ n <= l /\ Start + l <= PacketLen /\ l = Len(text) /\ n \in Nat
                              BY <1>2, <1>5, <3>2
                        <5> HIDE DEF l
                        <5>2. Start + n <= PacketLen
                              <6> DEFINE st == Start
                                         p == PacketLen
                              <6>1. st \in Nat /\ p \in Nat /\ l \in Nat /\ n \in Nat /\ n <= l /\ st + l <= p
                                    BY <1>2, <1>3, <5>1
                              <6> HIDE DEF st, p
                              <6>2. st + n <= p
                                    BY <6>1
                              <6>3. QED
                                    BY <6>2 DEF st, p
                        <5>3. QED
                              BY <5>1, <5>2
                  <4>2. \A x \in 1 .. n : row.mem[Start + x - 1] = text[x]
                        BY <1>2, <4>1
                  <4>3. QED
                        BY <1>2, <1>3, <4>1, <4>2, Peeked
            <3>4. ~(Len(Sent(m)) = 0 /\ TypeOf(m) = "time")
                  <4>1. n > 0 /\ len > 0
                        BY <1>2, <1>5, <1>10, <3>2
                  <4>2. QED
                        BY <1>2, <1>4, <3>1, <4>1
            <3>5. Meaning(m) = Value(<<Kept(TypeOf(m), Sent(m))>>)
                  BY <1>1, <1>2, <3>1, <3>4, MeaningsAre
            <3>6. value = Meaning(m)
                  BY <1>4, <1>5, <3>1, <3>2, <3>3, <3>5
            <3>7. QED
                  BY <3>1, <3>6
      <2> HIDE DEF value
      <2>4. /\ DOMAIN row' = RowFields /\ row'.at = "column"
            /\ row'.binary = row.binary /\ row'.sent = row.sent /\ row'.cut = row.cut /\ row'.packet = row.packet
            /\ row'.mem = row.mem /\ row'.data = [row.data EXCEPT ![row.j] = value]
            /\ row'.reach = MaxOf(row.reach, Start + n - 1)
            /\ row'.j = row.j + 1 /\ row'.i = e /\ row'.wh = row.wh
            BY <1>3, <2>2 DEF RowFields
      <2>5. SameRow
            BY <1>3, <2>4 DEF SameRow
      <2>6. ReachOk(row'.reach)
            <3>1. row'.reach = row.reach \/ row'.reach = Start + n - 1
                  BY <2>4 DEF MaxOf
            <3>2. Start + n - 1 \in Nat
                  BY <1>2, <1>5, <1>10
            <3>3. CASE Type # "time"
                  <4>1. row.j \in DOMAIN row.sent /\ Type \in {"year", "datetime", "date"}
                        BY <1>1, <1>3, <3>3, SentIs DEF Dates
                  <4>2. \E k \in DOMAIN row.sent : TypeOf(k) \in {"year", "datetime", "date"}
                        BY <1>4, <4>1
                  <4>3. QED
                        BY <1>1, <1>3, <3>1, <3>2, <4>2 DEF ReachOk
            <3>4. CASE Type = "time"
                  <4>1. Start + n - 1 <= PacketLen
                        <5> DEFINE l == Cell.len
                        <5>1. l \in Nat /\ Start + l <= PacketLen /\ ~(n > l) /\ n \in Nat
                              BY <1>2, <1>5, <3>4
                        <5> HIDE DEF l
                        <5>2. QED
                              BY <1>2, <1>3, <5>1
                  <4>2. QED
                        BY <1>3, <3>1, <3>2, <4>1 DEF ReachOk
            <3>5. QED
                  BY <3>3, <3>4
      <2>7. ASSUME NEW m, m = row.j
            PROVE  /\ ~Unreadable(m)
                   /\ \/ value = Meaning(m)
                      \/ row.binary /\ TypeOf(m) \in {"year", "datetime", "date"} /\ (Sent(m) = <<>> \/ row.cut > 0)
            <3>1. n > len => row.binary /\ TypeOf(m) \in {"year", "datetime", "date"} /\ Sent(m) = <<>>
                  BY <1>1, <1>4, <1>5, <2>7 DEF Dates
            <3>2. QED
                  BY <1>8, <2>3, <2>7, <3>1
      <2>8. row'.i = StartAt(row.j + 1) /\ row'.i <= PacketLen
            BY <1>2, <2>4
      <2>9. QED
            BY <1>1, <1>7, <2>4, <2>5, <2>6, <2>7, <2>8, Given DEF value
<1>11. QED
      BY <1>9, <1>10

----------------------------------------------------------------------------
(* What is proved of a row                                                 *)

LEMMA RowStarts ==
  ASSUME RowInit
  PROVE  RowInv
<1>1. PICK binary \in BOOLEAN, cut \in Cuts :
        \E cells \in IF binary THEN BinaryRows ELSE StringRows :
          cut <= Len(PacketOf(binary, cells)) /\ row = NewRow(binary, cells, cut)
      BY DEF RowInit
<1>2. PICK cells \in IF binary THEN BinaryRows ELSE StringRows :
        cut <= Len(PacketOf(binary, cells)) /\ row = NewRow(binary, cells, cut)
      BY <1>1
<1> DEFINE whole == PacketOf(binary, cells)
           packet == SubSeq(whole, 1, Len(whole) - cut)
           at == IF binary THEN "bitmap" ELSE "column"
<1>3. /\ row.binary = binary /\ row.sent = cells /\ row.cut = cut /\ row.packet = packet
      /\ row.mem = [k \in 0 .. Len(packet) |-> IF k < Len(packet) THEN packet[k + 1] ELSE Beyond]
      /\ row.j = 1 /\ row.i = 0 /\ row.wh = 0 /\ row.data = [k \in DOMAIN cells |-> Unset] /\ row.reach = 0
      /\ row.at = at /\ DOMAIN row = RowFields
      BY <1>2 DEF NewRow, RowFields
<1>4. cells \in Seq(Cells) /\ cut \in Nat
      BY <1>1, <1>2, RowAssumption
<1>5. whole \in Seq(Byte)
      BY <1>4, Layouts
<1>6. Len(packet) \in Nat
      <2> DEFINE n == Len(whole) - cut
      <2>1. Len(whole) \in Nat
            BY <1>5
      <2>2. 1 \in 1 .. Len(whole) + 1 /\ n \in 1 - 1 .. Len(whole) /\ n - 1 + 1 \in Nat
            BY <1>2, <1>4, <2>1
      <2> HIDE DEF n
      <2>3. Len(SubSeq(whole, 1, n)) = n - 1 + 1
            BY <1>5, <2>2, SubSeqProperties
      <2>4. QED
            BY <2>2, <2>3 DEF n
<1>7. DOMAIN cells = 1 .. Len(cells) /\ Len(cells) \in Nat
      BY <1>4
<1>8. Shape
      <2>1. /\ row.binary \in BOOLEAN /\ (row.binary => row.sent \in BinaryRows) /\ (~row.binary => row.sent \in StringRows)
            /\ row.at \in {"bitmap", "column", "done", "error"}
            BY <1>2, <1>3
      <2>2. Whole = whole /\ PacketLen = Len(packet)
            BY <1>3 DEF Whole, PacketLen
      <2>3. row.cut \in Nat /\ row.cut <= Len(Whole) /\ row.packet = SubSeq(Whole, 1, Len(Whole) - row.cut)
            BY <1>2, <1>3, <1>4, <2>2
      <2> HIDE DEF packet, whole, at
      <2>4. /\ row.mem = [k \in 0 .. PacketLen |-> row.mem[k]]
            /\ row.data = [k \in 1 .. Len(row.sent) |-> row.data[k]]
            BY <1>3, <1>7, <2>2
      <2>5. row.j \in 1 .. Len(row.sent) + 1 /\ row.i \in Nat /\ row.wh \in 0 .. PacketLen /\ row.reach \in Nat
            BY <1>3, <1>6, <1>7, <2>2
      <2>6. QED
            BY <1>3, <2>1, <2>3, <2>4, <2>5 DEF Shape
<1> HIDE DEF packet, whole
<1>9. PacketLen = Len(packet)
      BY <1>3 DEF PacketLen
<1>10. Unread
      <2> SUFFICES ASSUME NEW k \in row.i .. PacketLen - 1
                   PROVE  row.mem[k] = row.packet[k + 1]
          BY DEF Unread
      <2>1. k \in 0 .. Len(packet) /\ k < Len(packet)
            BY <1>3, <1>6, <1>9
      <2>2. QED
            BY <1>3, <2>1
<1>11. Fresh
      <2>1. \A k \in 1 .. Len(cells) : row.data[k] = Unset
            BY <1>3, <1>7
      <2>2. QED
            BY <1>3, <2>1 DEF Fresh
<1>12. InPacket
      BY <1>3, <1>6, <1>9 DEF InPacket
<1>13. Separates /\ row.at \notin {"done", "error"}
      BY <1>3 DEF Separates
<1>14. 1 .. row.j - 1 = {}
      BY <1>3
<1>15. ASSUME row.at = "column"
       PROVE  Reading
      <2>1. ~row.binary
            BY <1>3, <1>15
      <2>2. StartAt(1) = 0
            BY <1>8, <2>1, PacketIs DEF IsLayout, StartAt
      <2>3. row.i = StartAt(row.j)
            BY <1>3, <2>2
      <2>4. row.wh <= row.i /\ row.i <= PacketLen
            BY <1>3, <1>6, <1>9
      <2>5. QED
            BY <1>10, <1>11, <1>14, <2>1, <2>3, <2>4 DEF Reading
<1>16. row.at = "bitmap" => row.binary /\ row.i = 0 /\ row.wh = 0 /\ row.j = 1
      BY <1>3
<1>17. QED
      BY <1>8, <1>10, <1>11, <1>12, <1>13, <1>14, <1>15, <1>16 DEF RowInv

LEMMA RowStays ==
  ASSUME RowInv, UNCHANGED row
  PROVE  RowInv'
<1>1. row' = row
      OBVIOUS
<1>2. /\ PacketLen' = PacketLen /\ Whole' = Whole /\ Unread' = Unread /\ Fresh' = Fresh
      /\ \A k : StartAt(k)' = StartAt(k) /\ Sent(k)' = Sent(k) /\ TypeOf(k)' = TypeOf(k)
      /\ \A d : TextAt(d)' = TextAt(d)
      BY <1>1 DEF PacketLen, Whole, Unread, Fresh, StartAt, Sent, TypeOf, TextAt
<1>3. \A k : Meaning(k)' = Meaning(k) /\ Unreadable(k)' = Unreadable(k) /\ YearBefore(k)' = YearBefore(k)
      BY <1>1, <1>2 DEF Meaning, Unreadable, NotMadeOf, YearBefore
<1>4. \A k : Right(k)' = Right(k)
      BY <1>1, <1>2, <1>3 DEF Right
<1>5. Shape' = Shape /\ Reading' = Reading /\ InPacket' = InPacket /\ Separates' = Separates
      BY <1>1, <1>2, <1>3 DEF Shape, Reading, InPacket, Separates
<1>6. QED
      BY <1>1, <1>2, <1>4, <1>5 DEF RowInv

LEMMA RowStep ==
  ASSUME RowInv, [RowNext]_row
  PROVE  RowInv'
<1>1. CASE UNCHANGED row
      BY <1>1, RowStays
<1>2. CASE StringValue
      BY <1>2, StringValueStep
<1>3. CASE StringLeft
      BY <1>3, StringLeftStep
<1>4. CASE ReadBitmap
      BY <1>4, ReadBitmapStep
<1>5. CASE BinaryLeft
      BY <1>5, BinaryLeftStep
<1>6. CASE BinaryNumber
      BY <1>6, BinaryNumberStep
<1>7. CASE BinaryDate
      BY <1>7, BinaryDateStep
<1>8. CASE CellRefused
      BY <1>8, CellRefusedStep
<1>9. CASE CellNull
      BY <1>9, CellNullStep
<1>10. CASE TextColumn
      BY <1>10, TextColumnStep
<1>11. CASE RowEnds
      BY <1>11, RowEndsStep
<1>12. QED
      BY <1>1, <1>2, <1>3, <1>4, <1>5, <1>6, <1>7, <1>8, <1>9, <1>10, <1>11 DEF RowNext, StringRow, BinaryRow

LEMMA RowInvMeans ==
  ASSUME RowInv
  PROVE  MeansAsSent
<1>1. row.at \in {"column", "done"} => \A k \in 1 .. row.j - 1 : Right(k)
      BY DEF RowInv
<1>2. ASSUME row.at \in {"column", "done"}, NEW k \in 1 .. row.j - 1
      PROVE  LET d == row.data[k]
             IN IF d.is = "text"
                  THEN /\ TextAt(d) = Sent(k) /\ row.mem[d.at + d.len] = 0
                       /\ d.at + d.len < row.wh
                  ELSE \/ d = Meaning(k)
                       \/ row.binary /\ TypeOf(k) \in {"year", "datetime", "date"}
                            /\ (Sent(k) = <<>> \/ row.cut > 0)
      BY <1>1, <1>2 DEF Right
<1>3. QED
      BY <1>2 DEF MeansAsSent

\* The invariant of a row, of which the theorems below are parts.
LEMMA RowInvHolds == RowSpec => []RowInv
<1>1. RowInit => RowInv
      BY RowStarts
<1>2. RowInv /\ [RowNext]_row => RowInv'
      BY RowStep
<1>3. QED
      BY <1>1, <1>2, PTL DEF RowSpec

\* What strtoll leaves of a DECIMAL is a fraction, or no number.
LEMMA UnreadableIs ==
  ASSUME RowInv, NEW k \in DOMAIN row.sent
  PROVE  Unreadable(k) <=> Malformed(k) \/ Fraction(k)
<1> DEFINE type == TypeOf(k)
           text == Sent(k)
<1>1. CASE type # "decimal"
      <2>1. Numerals(type) = Written(type)
            BY <1>1 DEF Numerals, Written
      <2>2. QED
            BY <1>1, <2>1 DEF Unreadable, Malformed, Fraction
<1>2. CASE type = "decimal" /\ ~row.binary /\ ~row.sent[k].null
      <2>1. text \in Seq(Byte)
            <3>1. row.sent \in Seq(Cells)
                  BY SentIs DEF RowInv
            <3>2. row.sent[k] \in Cells
                  <4> HIDE DEF Cells
                  <4> QED
                      BY <3>1
            <3>3. QED
                  BY <3>2 DEF Cells, Sent
      <2>2. Numerals(type) = Digits /\ Written(type) = Digits \cup {Point} /\ Point \notin Digits
            BY <1>2 DEF Numerals, Written, Point, Digits
      <2>3. Ends(type, Len(text)) = <<Len(text)>>
            BY <1>2 DEF Ends
      <2>4. PiecesOf(text, <<Len(text)>>) = <<text>>
            <3>1. SubSeq(text, 1, Len(text)) = text
                  BY <2>1
            <3>2. QED
                  BY <3>1 DEF PiecesOf
      <2>5. ~Skips(type, text)
            BY <1>2 DEF Skips
      <2>6. \A chars : NotMadeOf(chars, k) <=> ~MadeOf(chars, text)
            BY <1>2, <2>3, <2>4, <2>5 DEF NotMadeOf
      <2>7. Fraction(k) <=> \E x \in DOMAIN text : text[x] = Point
            BY <1>2 DEF Fraction
      <2>8. QED
            BY <2>2, <2>6, <2>7 DEF Unreadable, Malformed, MadeOf
<1>3. CASE row.binary \/ row.sent[k].null
      BY <1>3 DEF Unreadable, Malformed, Fraction, NotMadeOf
<1>4. QED
      BY <1>1, <1>2, <1>3

\* Whatever rows the server sends, mysac_decode_string_row and
\* mysac_decode_binary_row touch nothing but the packet and the byte behind
\* it, except in a row that has a year or a date in binary form, of which
\* bytes are read that are not checked to be there.
THEOREM InPacketCorrect == RowSpec => []InPacket
<1>1. RowInv => InPacket
      BY DEF RowInv
<1>2. QED
      BY <1>1, RowInvHolds, PTL

\* Every column mysac_decode_row.c has decoded is what the server meant, and
\* stays so however the texts behind it are moved down over the packet and
\* zeros are put into it.
THEOREM MeansAsSentCorrect == RowSpec => []MeansAsSent
BY RowInvMeans, RowInvHolds, PTL

\* A row that was cut, holds a number that is none, or holds a DECIMAL with a
\* fraction is refused by mysac_decode_row.c, and no other row is, except that
\* a year in binary form may be read from behind a packet that was cut.
THEOREM RefusesBrokenCorrect == RowSpec => []RefusesBroken
<1>1. RowInv => RefusesBroken
      <2> SUFFICES ASSUME RowInv PROVE RefusesBroken
          OBVIOUS
      <2>1. \A k \in DOMAIN row.sent : Unreadable(k) <=> Malformed(k) \/ Fraction(k)
            BY UnreadableIs
      <2>2. Separates
            BY DEF RowInv
      <2>3. QED
            BY <2>1, <2>2 DEF Separates, RefusesBroken
<1>2. QED
      BY <1>1, RowInvHolds, PTL

=============================================================================
