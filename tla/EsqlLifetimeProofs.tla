------------------------- MODULE EsqlLifetimeProofs -------------------------
(***************************************************************************)
(* Proofs about the lives of the library and of a plain object, for any    *)
(* number of results and events and any range of event_count.              *)
(***************************************************************************)
EXTENDS EsqlLifetimeProps, SequenceTheorems, FiniteSetTheorems, WellFoundedInduction, TLAPS

USE LifetimeAssumption

----------------------------------------------------------------------------
(* event_count wraps *)

LEMMA Division ==
  ASSUME NEW n \in Int
  PROVE  /\ n \div Wrap \in Int /\ n % Wrap \in 0 .. Wrap - 1
         /\ n = Wrap * (n \div Wrap) + (n % Wrap)
  BY SMT

LEMMA Multiple ==
  ASSUME NEW k \in Int, NEW r \in Int, Wrap * k = r, -Wrap < r, r < Wrap
  PROVE  k = 0
<1>1. CASE k > 0
  <2>1. Wrap * (k - 1) >= 0
    BY <1>1, SMT
  <2> QED BY <1>1, <2>1, SMT
<1>2. CASE k < 0
  <2>1. Wrap * (-k - 1) >= 0
    BY <1>2, SMT
  <2> QED BY <1>2, <2>1, SMT
<1> QED BY <1>1, <1>2

LEMMA Remainder ==
  ASSUME NEW q \in Int, NEW r \in 0 .. Wrap - 1, NEW n \in Int, n = Wrap * q + r
  PROVE  n % Wrap = r
<1> DEFINE p == n \div Wrap
           s == n % Wrap
<1>1. p \in Int /\ s \in 0 .. Wrap - 1 /\ n = Wrap * p + s
  BY Division
<1> HIDE DEF p, s
<1>2. Wrap * (q - p) = s - r
  BY <1>1, SMT
<1>3. q - p = 0
  BY <1>1, <1>2, Multiple
<1>4. q = p
  BY <1>1, <1>3
<1>5. s = r
  BY <1>1, <1>4, SMT
<1> QED BY <1>5 DEF s

LEMMA ModUp == ASSUME NEW n \in Nat PROVE ((n % Wrap) + 1) % Wrap = (n + 1) % Wrap
<1> DEFINE q == n \div Wrap
           r == n % Wrap
<1>1. q \in Int /\ r \in 0 .. Wrap - 1 /\ n = Wrap * q + r
  BY Division
<1> HIDE DEF q, r
<1>2. CASE r + 1 < Wrap
  <2>1. (n + 1) % Wrap = r + 1
    BY <1>1, <1>2, Remainder
  <2>2. (r + 1) % Wrap = r + 1
    <3>1. r + 1 = Wrap * 0 + (r + 1)
      BY <1>1
    <3> QED BY <1>1, <1>2, <3>1, Remainder
  <2> QED BY <2>1, <2>2 DEF r
<1>3. CASE r + 1 = Wrap
  <2>1. n + 1 = Wrap * (q + 1) + 0
    BY <1>1, <1>3
  <2>2. (n + 1) % Wrap = 0
    BY <1>1, <2>1, Remainder
  <2>3. (r + 1) % Wrap = 0
    <3>1. r + 1 = Wrap * 1 + 0
      BY <1>1, <1>3
    <3> QED BY <1>1, <3>1, Remainder
  <2> QED BY <2>2, <2>3 DEF r
<1> QED BY <1>1, <1>2, <1>3

LEMMA ModDown == ASSUME NEW n \in Nat \ {0} PROVE ((n % Wrap) + Wrap - 1) % Wrap = (n - 1) % Wrap
<1> DEFINE q == n \div Wrap
           r == n % Wrap
<1>1. q \in Int /\ r \in 0 .. Wrap - 1 /\ n = Wrap * q + r
  BY Division
<1> HIDE DEF q, r
<1>2. CASE r > 0
  <2>1. (n - 1) % Wrap = r - 1
    BY <1>1, <1>2, Remainder
  <2>2. (r + Wrap - 1) % Wrap = r - 1
    <3>1. r + Wrap - 1 = Wrap * 1 + (r - 1)
      BY <1>1
    <3> QED BY <1>1, <1>2, <3>1, Remainder
  <2> QED BY <2>1, <2>2 DEF r
<1>3. CASE r = 0
  <2>1. n - 1 = Wrap * (q - 1) + (Wrap - 1)
    BY <1>1, <1>3
  <2>2. (n - 1) % Wrap = Wrap - 1
    BY <1>1, <2>1, Remainder
  <2>3. (r + Wrap - 1) % Wrap = Wrap - 1
    <3>1. r + Wrap - 1 = Wrap * 0 + (Wrap - 1)
      BY <1>1, <1>3
    <3> QED BY <1>1, <3>1, Remainder
  <2> QED BY <2>2, <2>3 DEF r
<1> QED BY <1>1, <1>2, <1>3

----------------------------------------------------------------------------
(* How often an event is in a sequence of events *)

EventKinds == {AboutObject} \cup Results
Where(s, x) == {i \in DOMAIN s : s[i] = x}
Times(s, x) == Cardinality(Where(s, x))
Is(event, x) == IF event = x THEN 1 ELSE 0

LEMMA WhereFinite ==
  ASSUME NEW s \in Seq(EventKinds), NEW x PROVE IsFiniteSet(Where(s, x)) /\ Times(s, x) \in Nat
<1>1. DOMAIN s = 1 .. Len(s) /\ Len(s) \in Nat
  OBVIOUS
<1>2. IsFiniteSet(1 .. Len(s))
  BY <1>1, FS_Interval
<1>3. Where(s, x) \in SUBSET (1 .. Len(s))
  BY <1>1 DEF Where
<1>4. IsFiniteSet(Where(s, x))
  BY <1>2, <1>3, FS_Subset
<1> QED BY <1>4, FS_CardinalityType DEF Times

LEMMA TimesAppend ==
  ASSUME NEW s \in Seq(EventKinds), NEW event \in EventKinds, NEW x
  PROVE  Append(s, event) \in Seq(EventKinds) /\ Times(Append(s, event), x) = Times(s, x) + Is(event, x)
<1> DEFINE t == Append(s, event)
<1>1. /\ t \in Seq(EventKinds) /\ Len(t) = Len(s) + 1
      /\ DOMAIN t = 1 .. Len(s) + 1 /\ DOMAIN s = 1 .. Len(s) /\ Len(s) \in Nat
      /\ \A i \in 1 .. Len(s) : t[i] = s[i]
      /\ t[Len(s) + 1] = event
  BY AppendProperties
<1> HIDE DEF t
<1>2. CASE event = x
  <2>1. Where(t, x) = Where(s, x) \cup {Len(s) + 1} /\ Len(s) + 1 \notin Where(s, x)
    BY <1>1, <1>2 DEF Where
  <2> QED BY <1>1, <1>2, <2>1, WhereFinite, FS_AddElement DEF Times, Is, t
<1>3. CASE event # x
  <2>1. Where(t, x) = Where(s, x)
    BY <1>1, <1>3 DEF Where
  <2> QED BY <1>1, <1>3, <2>1, WhereFinite DEF Times, Is, t
<1> QED BY <1>2, <1>3

LEMMA TimesTail ==
  ASSUME NEW s \in Seq(EventKinds), s # <<>>, NEW x
  PROVE  /\ Head(s) \in EventKinds /\ Tail(s) \in Seq(EventKinds)
         /\ Times(s, x) = Times(Tail(s), x) + Is(Head(s), x)
<1> DEFINE t == Tail(s)
           Later == {i \in DOMAIN s : i > 1 /\ s[i] = x}
<1>1. /\ Head(s) \in EventKinds /\ t \in Seq(EventKinds) /\ Len(t) = Len(s) - 1
      /\ DOMAIN s = 1 .. Len(s) /\ DOMAIN t = 1 .. Len(t) /\ Len(s) \in Nat \ {0}
      /\ \A i \in 1 .. Len(t) : t[i] = s[i + 1]
      /\ Head(s) = s[1]
  BY HeadTailProperties
<1> HIDE DEF t
<1>2. Cardinality(Later) = Times(t, x) /\ IsFiniteSet(Later)
  <2> DEFINE shift == [i \in Where(t, x) |-> i + 1]
  <2>1. shift \in Bijection(Where(t, x), Later)
    <3>1. \A i \in Where(t, x) : i + 1 \in Later
      BY <1>1 DEF Where
    <3>2. \A j \in Later : j - 1 \in Where(t, x) /\ shift[j - 1] = j
      BY <1>1 DEF Where
    <3>3. \A i, j \in Where(t, x) : shift[i] = shift[j] => i = j
      BY <1>1 DEF Where
    <3> QED BY <3>1, <3>2, <3>3 DEF Bijection, Injection, Surjection, IsInjective
  <2>2. ExistsBijection(Where(t, x), Later)
    BY <2>1 DEF ExistsBijection
  <2> QED BY <1>1, <2>2, WhereFinite, FS_Bijection DEF Times
<1>3. CASE Head(s) = x
  <2>1. Where(s, x) = Later \cup {1} /\ 1 \notin Later
    BY <1>1, <1>3 DEF Where
  <2>2. Cardinality(Where(s, x)) = Cardinality(Later) + 1
    BY <1>2, <2>1, FS_AddElement
  <2>3. Times(s, x) = Times(t, x) + 1
    BY <1>2, <2>2 DEF Times
  <2>4. Is(Head(s), x) = 1
    BY <1>3 DEF Is
  <2> QED BY <1>1, <2>3, <2>4 DEF t
<1>4. CASE Head(s) # x
  <2>1. Where(s, x) = Later
    BY <1>1, <1>4 DEF Where
  <2>2. Times(s, x) = Times(t, x) /\ Times(t, x) \in Nat
    BY <1>1, <1>2, <2>1, WhereFinite DEF Times
  <2> QED BY <1>1, <1>4, <2>2 DEF Is, t
<1> QED BY <1>3, <1>4

\* The events about the object.
Num(s) == Times(s, AboutObject)
One(event) == IF event = AboutObject THEN 1 ELSE 0

LEMMA NumTyped == ASSUME NEW s \in Seq(EventKinds) PROVE Num(s) \in Nat
  BY WhereFinite DEF Num

LEMMA NumAppend ==
  ASSUME NEW s \in Seq(EventKinds), NEW event \in EventKinds
  PROVE  Append(s, event) \in Seq(EventKinds) /\ Num(Append(s, event)) = Num(s) + One(event)
  BY TimesAppend DEF Num, One, Is

LEMMA NumTail ==
  ASSUME NEW s \in Seq(EventKinds), s # <<>>
  PROVE  /\ Head(s) \in EventKinds /\ Tail(s) \in Seq(EventKinds)
         /\ Num(s) = Num(Tail(s)) + One(Head(s))
  BY TimesTail DEF Num, One, Is

----------------------------------------------------------------------------
(* What the code does to the heap of a plain object *)

\* The object's count is that of its events, n of them in a handler, and one
\* that waits to be freed has an event that will do it.
Counted(h, n) ==
  h.obj[0].st = "live" =>
    /\ h.obj[0].count = (n + Num(h.events)) % Wrap
    /\ h.obj[0].dead => n + Num(h.events) > 0

Good(h, n) == h \in HeapRec /\ Counted(h, n)

Handling == IF run.at = "handler" /\ run.what = AboutObject THEN 1 ELSE 0

LEMMA HeapTyped ==
  ASSUME NEW h \in HeapRec
  PROVE  /\ 0 \in Objs /\ h.obj \in [Objs -> ObjectRec] /\ h.obj[0] \in ObjectRec
         /\ h.econn \in Int /\ h.events \in Seq(EventKinds)
         /\ h.res \in [Results -> ResultRec]
         /\ h.obj[0].count \in 0 .. Wrap - 1 /\ h.obj[0].dead \in BOOLEAN
         /\ Num(h.events) \in Nat
<1>1. 0 \in Objs
  BY DEF Objs
<1>2. /\ h.obj \in [Objs -> ObjectRec] /\ h.econn \in Int
      /\ h.events \in Seq(EventKinds) /\ h.res \in [Results -> ResultRec]
  BY DEF HeapRec, EventKinds
<1>3. h.obj[0] \in ObjectRec
  BY <1>1, <1>2
<1> QED BY <1>1, <1>2, <1>3, NumTyped DEF ObjectRec

\* A change of the object that leaves its life and its count alone.
LEMMA ObjectChanged ==
  ASSUME NEW h \in HeapRec, NEW n \in {0, 1}, NEW o \in ObjectRec,
         o.st = h.obj[0].st, o.dead = h.obj[0].dead, o.count = h.obj[0].count
  PROVE  /\ [h EXCEPT !.obj[0] = o] \in HeapRec
         /\ Counted(h, n) => Counted([h EXCEPT !.obj[0] = o], n)
<1> DEFINE g == [h EXCEPT !.obj[0] = o]
<1>1. h \in HeapRec /\ 0 \in Objs /\ h.obj \in [Objs -> ObjectRec]
  BY HeapTyped
<1>2. g.obj = [h.obj EXCEPT ![0] = o] /\ g.events = h.events
  BY <1>1 DEF HeapRec
<1>3. g.obj \in [Objs -> ObjectRec] /\ g.obj[0] = o
  BY <1>1, <1>2
<1>4. g = [h EXCEPT !.obj = g.obj]
  BY <1>2
<1>5. g \in HeapRec
  <2> HIDE DEF g
  <2> QED BY <1>1, <1>3, <1>4 DEF HeapRec
<1> HIDE DEF g
<1>6. Counted(h, n) => Counted(g, n)
  BY <1>2, <1>3 DEF Counted
<1> QED BY <1>5, <1>6 DEF g

\* A change of a result.
LEMMA ResultChanged ==
  ASSUME NEW h, NEW n \in {0, 1}, Good(h, n), NEW r \in Results, NEW x \in ResultRec
  PROVE  Good([h EXCEPT !.res[r] = x], n)
<1> DEFINE g == [h EXCEPT !.res[r] = x]
<1>1. h \in HeapRec
  BY DEF Good
<1>2. g.res = [h.res EXCEPT ![r] = x] /\ g.events = h.events /\ g.obj = h.obj
  BY <1>1 DEF HeapRec
<1>3. g.res \in [Results -> ResultRec]
  BY <1>1, <1>2, HeapTyped
<1>4. g = [h EXCEPT !.res = g.res]
  BY <1>2
<1>5. g \in HeapRec
  <2> HIDE DEF g
  <2> QED BY <1>1, <1>3, <1>4 DEF HeapRec
<1> HIDE DEF g
<1>6. Good(g, n)
  BY <1>2, <1>5 DEF Good, Counted
<1> QED BY <1>6 DEF g

LEMMA FieldChanged ==
  ASSUME NEW h, NEW n \in {0, 1}, Good(h, n)
  PROVE  /\ \A S \in SUBSET SourceKinds : Good([h EXCEPT !.obj[0].src = S], n)
         /\ \A b \in BOOLEAN : Good([h EXCEPT !.obj[0].connected = b], n)
         /\ \A c \in {"none", "init", "query"} : Good([h EXCEPT !.obj[0].current = c], n)
         /\ \A r \in Results \cup {None} : Good([h EXCEPT !.obj[0].res = r], n)
<1>1. ASSUME NEW S \in SUBSET SourceKinds PROVE Good([h EXCEPT !.obj[0].src = S], n)
  <2> DEFINE o == [h.obj[0] EXCEPT !.src = S]
  <2>1. /\ o \in ObjectRec
        /\ o.st = h.obj[0].st /\ o.dead = h.obj[0].dead /\ o.count = h.obj[0].count
    BY HeapTyped DEF ObjectRec, Good
  <2>2. [h EXCEPT !.obj[0].src = S] = [h EXCEPT !.obj[0] = o]
    BY HeapTyped DEF Good
  <2> HIDE DEF o
  <2> QED BY <2>1, <2>2, ObjectChanged DEF Good
<1>2. ASSUME NEW b \in BOOLEAN PROVE Good([h EXCEPT !.obj[0].connected = b], n)
  <2> DEFINE o == [h.obj[0] EXCEPT !.connected = b]
  <2>1. /\ o \in ObjectRec
        /\ o.st = h.obj[0].st /\ o.dead = h.obj[0].dead /\ o.count = h.obj[0].count
    BY HeapTyped DEF ObjectRec, Good
  <2>2. [h EXCEPT !.obj[0].connected = b] = [h EXCEPT !.obj[0] = o]
    BY HeapTyped DEF Good
  <2> HIDE DEF o
  <2> QED BY <2>1, <2>2, ObjectChanged DEF Good
<1>3. ASSUME NEW c \in {"none", "init", "query"} PROVE Good([h EXCEPT !.obj[0].current = c], n)
  <2> DEFINE o == [h.obj[0] EXCEPT !.current = c]
  <2>1. /\ o \in ObjectRec
        /\ o.st = h.obj[0].st /\ o.dead = h.obj[0].dead /\ o.count = h.obj[0].count
    BY HeapTyped DEF ObjectRec, Good
  <2>2. [h EXCEPT !.obj[0].current = c] = [h EXCEPT !.obj[0] = o]
    BY HeapTyped DEF Good
  <2> HIDE DEF o
  <2> QED BY <2>1, <2>2, ObjectChanged DEF Good
<1>4. ASSUME NEW r \in Results \cup {None} PROVE Good([h EXCEPT !.obj[0].res = r], n)
  <2> DEFINE o == [h.obj[0] EXCEPT !.res = r]
  <2>1. /\ o \in ObjectRec
        /\ o.st = h.obj[0].st /\ o.dead = h.obj[0].dead /\ o.count = h.obj[0].count
    BY HeapTyped DEF ObjectRec, Good
  <2>2. [h EXCEPT !.obj[0].res = r] = [h EXCEPT !.obj[0] = o]
    BY HeapTyped DEF Good
  <2> HIDE DEF o
  <2> QED BY <2>1, <2>2, ObjectChanged DEF Good
<1> QED BY <1>1, <1>2, <1>3, <1>4

\* An event about the object is added and counted.
LEMMA GoodTold ==
  ASSUME NEW h \in HeapRec, NEW n \in {0, 1}
  PROVE  Told(h, 0) \in HeapRec /\ (Counted(h, n) => Counted(Told(h, 0), n))
<1> DEFINE g == Told(h, 0)
           o == [h.obj[0] EXCEPT !.count = Plus1(@)]
<1>1. /\ h \in HeapRec /\ 0 \in Objs /\ h.obj \in [Objs -> ObjectRec] /\ h.obj[0] \in ObjectRec
      /\ h.obj[0].count \in 0 .. Wrap - 1 /\ h.events \in Seq(EventKinds)
      /\ Num(h.events) \in Nat
  BY HeapTyped
<1>2. Plus1(h.obj[0].count) \in 0 .. Wrap - 1
  <2>1. h.obj[0].count + 1 \in Int
    BY <1>1
  <2> QED BY <2>1, Division DEF Plus1
<1>3. /\ o \in ObjectRec
      /\ o.st = h.obj[0].st /\ o.dead = h.obj[0].dead /\ o.count = Plus1(h.obj[0].count)
  BY <1>1, <1>2 DEF ObjectRec
<1>4. /\ g.obj = [h.obj EXCEPT ![0] = o] /\ g.events = Append(h.events, AboutObject)
      /\ g = [h EXCEPT !.obj = g.obj, !.events = g.events]
  BY <1>1 DEF Told, HeapRec
<1> HIDE DEF o
<1>5. g.obj \in [Objs -> ObjectRec] /\ g.obj[0] = o
  BY <1>1, <1>3, <1>4
<1>6. g.events \in Seq(EventKinds) /\ Num(g.events) = Num(h.events) + 1
  BY <1>1, <1>4, NumAppend DEF EventKinds, One
<1> HIDE DEF g
<1>7. g \in HeapRec
  BY <1>1, <1>4, <1>5, <1>6 DEF HeapRec, EventKinds
<1>8. Counted(h, n) => Counted(g, n)
  <2> DEFINE k == n + Num(h.events)
  <2>1. k \in Nat /\ n + Num(g.events) = k + 1
    BY <1>1, <1>6
  <2> HIDE DEF k
  <2>2. ((k % Wrap) + 1) % Wrap = (k + 1) % Wrap
    BY <2>1, ModUp
  <2>3. Counted(h, n) /\ h.obj[0].st = "live" => h.obj[0].count = k % Wrap
    BY DEF Counted, k
  <2>4. g.obj[0].st = h.obj[0].st /\ g.obj[0].count = (h.obj[0].count + 1) % Wrap
    BY <1>3, <1>5 DEF Plus1
  <2> QED BY <2>1, <2>2, <2>3, <2>4 DEF Counted
<1> QED BY <1>7, <1>8 DEF g

LEMMA GoodDisconnected ==
  ASSUME NEW h \in HeapRec, NEW n \in {0, 1}, kind = "plain"
  PROVE  Disconnected(h, 0) \in HeapRec /\ (Counted(h, n) => Counted(Disconnected(h, 0), n))
<1> DEFINE o == [h.obj[0] EXCEPT !.src = @ \ {"fd"}, !.connected = FALSE]
<1>1. /\ o \in ObjectRec
      /\ o.st = h.obj[0].st /\ o.dead = h.obj[0].dead /\ o.count = h.obj[0].count
  BY HeapTyped DEF ObjectRec
<1>2. Unplugged(h, 0) = [h EXCEPT !.obj[0] = o]
  BY HeapTyped DEF Unplugged, HeapRec
<1> HIDE DEF o
<1>3. Unplugged(h, 0) \in HeapRec /\ (Counted(h, n) => Counted(Unplugged(h, 0), n))
  BY <1>1, <1>2, ObjectChanged
<1> QED BY <1>3, GoodTold DEF Disconnected

\* esql_free of an object that no event is about.
LEMMA GoodFreedNow ==
  ASSUME NEW h \in HeapRec, NEW n \in {0, 1}, kind = "plain", h.obj[0].count = 0
  PROVE  Good(Freed(h), n)
<1>1. PICK d \in HeapRec : Freed(h) = [d EXCEPT !.obj[0].st = "freed"]
  BY GoodDisconnected DEF Freed, FreedConn
<1> DEFINE g == [d EXCEPT !.obj[0].st = "freed"]
           o == [d.obj[0] EXCEPT !.st = "freed"]
<1>2. 0 \in Objs /\ d.obj \in [Objs -> ObjectRec] /\ d.obj[0] \in ObjectRec
  BY <1>1, HeapTyped
<1>3. o \in ObjectRec /\ o.st = "freed"
  BY <1>2 DEF ObjectRec
<1>4. /\ g.obj = [d.obj EXCEPT ![0] = o]
      /\ g = [d EXCEPT !.obj = g.obj]
  BY <1>1, <1>2 DEF HeapRec
<1> HIDE DEF o
<1>5. g.obj \in [Objs -> ObjectRec] /\ g.obj[0] = o
  BY <1>2, <1>3, <1>4
<1> HIDE DEF g
<1>6. g \in HeapRec
  BY <1>1, <1>4, <1>5 DEF HeapRec
<1>7. Counted(g, n)
  BY <1>3, <1>5 DEF Counted
<1> QED BY <1>1, <1>6, <1>7 DEF Good, g

\* esql_free leaves an object that waits for an event, or none.
LEMMA GoodFreed ==
  ASSUME NEW h, NEW n \in {0, 1}, Good(h, n), kind = "plain"
  PROVE  Good(Freed(h), n)
<1>1. CASE h.obj[0].count # 0
  <2> DEFINE g == Freed(h)
             o == [h.obj[0] EXCEPT !.dead = TRUE]
  <2>1. /\ h \in HeapRec /\ 0 \in Objs /\ h.obj \in [Objs -> ObjectRec] /\ h.obj[0] \in ObjectRec
        /\ Num(h.events) \in Nat
    BY HeapTyped DEF Good
  <2>2. /\ o \in ObjectRec
        /\ o.st = h.obj[0].st /\ o.count = h.obj[0].count
    BY <2>1 DEF ObjectRec
  <2>3. /\ g.obj = [h.obj EXCEPT ![0] = o] /\ g.events = h.events
        /\ g = [h EXCEPT !.obj = g.obj]
    BY <1>1, <2>1 DEF Freed, FreedConn, HeapRec
  <2> HIDE DEF o
  <2>4. g.obj \in [Objs -> ObjectRec] /\ g.obj[0] = o
    BY <2>1, <2>2, <2>3
  <2> HIDE DEF g
  <2>5. g \in HeapRec
    BY <2>1, <2>3, <2>4 DEF HeapRec
  <2>6. h.obj[0].st = "live" => n + Num(h.events) > 0
    <3> SUFFICES ASSUME h.obj[0].st = "live", n + Num(h.events) = 0 PROVE FALSE
      BY <2>1
    <3>1. 0 % Wrap = 0
      BY SMT
    <3> QED BY <1>1, <3>1 DEF Good, Counted
  <2>7. Counted(g, n)
    BY <2>2, <2>3, <2>4, <2>6 DEF Good, Counted
  <2> QED BY <2>5, <2>7 DEF Good, g
<1>2. CASE h.obj[0].count = 0
  BY <1>2, GoodFreedNow DEF Good
<1> QED BY <1>1, <1>2

\* The end of an event about the object uncounts it, and frees the object that
\* waited for the last one.
LEMMA GoodFakeFreed ==
  ASSUME NEW h, Good(h, 1), kind = "plain", h.obj[0].st = "live"
  PROVE  Good(FakeFreed(h), 0)
<1> DEFINE k == Num(h.events)
           o == [h.obj[0] EXCEPT !.count = Minus1(@)]
           g == [h EXCEPT !.obj[0].count = Minus1(@)]
<1>1. /\ h \in HeapRec /\ 0 \in Objs /\ h.obj \in [Objs -> ObjectRec] /\ h.obj[0] \in ObjectRec
      /\ k \in Nat /\ h.obj[0].count \in 0 .. Wrap - 1
  BY HeapTyped DEF Good
<1>2. h.obj[0].count = (1 + k) % Wrap
  BY DEF Good, Counted
<1>3. Minus1(h.obj[0].count) = k % Wrap /\ k % Wrap \in 0 .. Wrap - 1
  <2> HIDE DEF k
  <2> DEFINE j == 1 + k
  <2>1. j \in Nat \ {0} /\ j - 1 = k
    BY <1>1
  <2>2. h.obj[0].count = j % Wrap
    BY <1>2
  <2> HIDE DEF j
  <2>3. ((j % Wrap) + Wrap - 1) % Wrap = (j - 1) % Wrap /\ (j - 1) % Wrap \in 0 .. Wrap - 1
    BY <2>1, ModDown, Division
  <2> QED BY <2>1, <2>2, <2>3 DEF Minus1
<1>4. /\ o \in ObjectRec
      /\ o.st = "live" /\ o.dead = h.obj[0].dead /\ o.count = k % Wrap
  BY <1>1, <1>3 DEF ObjectRec
<1>5. /\ g.obj = [h.obj EXCEPT ![0] = o] /\ g.events = h.events
      /\ g = [h EXCEPT !.obj = g.obj]
  BY <1>1 DEF HeapRec
<1>6. FakeFreed(h) = IF LastEvent(g.obj[0].count) /\ g.obj[0].dead
                     THEN Freed([g EXCEPT !.obj[0].count = 0]) ELSE g
  BY DEF FakeFreed
<1> HIDE DEF o
<1>7. g.obj \in [Objs -> ObjectRec] /\ g.obj[0] = o
  BY <1>1, <1>4, <1>5
<1> HIDE DEF g
<1>8. g \in HeapRec
  BY <1>1, <1>5, <1>7 DEF HeapRec
<1>9. CASE LastEvent(g.obj[0].count) /\ g.obj[0].dead
  <2>1. g.obj[0].count = 0 /\ g.obj[0] \in ObjectRec
    BY <1>9, <1>4, <1>7 DEF LastEvent
  <2>2. [g EXCEPT !.obj[0].count = 0] = g
    <3>1. [g.obj[0] EXCEPT !.count = 0] = g.obj[0]
      BY <2>1 DEF ObjectRec
    <3>2. [g.obj EXCEPT ![0] = [g.obj[0] EXCEPT !.count = 0]] = g.obj
      BY <1>1, <1>7, <3>1
    <3> QED BY <1>8, <3>2 DEF HeapRec
  <2> QED BY <1>6, <1>8, <1>9, <2>1, <2>2, GoodFreedNow
<1>10. CASE ~(LastEvent(g.obj[0].count) /\ g.obj[0].dead)
  <2>1. g.obj[0].dead => k > 0
    <3> SUFFICES ASSUME g.obj[0].dead, k = 0 PROVE FALSE
      BY <1>1
    <3>1. 0 % Wrap = 0
      BY SMT
    <3> QED BY <1>4, <1>7, <1>10, <3>1 DEF LastEvent
  <2>2. Counted(g, 0)
    BY <1>1, <1>4, <1>5, <1>7, <2>1 DEF Counted
  <2> QED BY <1>6, <1>8, <1>10, <2>2 DEF Good
<1> QED BY <1>9, <1>10

\* A result is made, given out or returned: no event about the object changes.
LEMMA NewResultUnused == Unused # {} => NewResult \in Unused /\ NewResult \in Results
<1> SUFFICES ASSUME Unused # {} PROVE NewResult \in Unused /\ NewResult \in Results
  OBVIOUS
<1> DEFINE R == OpToRel(<, Nat)
<1>1. Unused \subseteq Nat /\ Unused \subseteq Results
  BY DEF Unused, Results
<1>2. PICK x \in Unused : \A y \in Unused : ~(<<y, x>> \in R)
  <2>1. IsWellFoundedOn(R, Nat)
    BY NatLessThanWellFounded
  <2> HIDE DEF R
  <2> QED BY <1>1, <2>1, WFMin
<1>3. \A y \in Unused : x <= y
  <2> SUFFICES ASSUME NEW y \in Unused, y < x PROVE FALSE
    BY <1>1
  <2>1. <<y, x>> \in R
    BY <1>1 DEF OpToRel
  <2> QED BY <1>2, <2>1
<1>4. NewResult \in Unused
  BY <1>2, <1>3 DEF NewResult
<1> QED BY <1>1, <1>4

LEMMA ResultTyped == ASSUME NEW h \in HeapRec, NEW r \in Results PROVE h.res[r] \in ResultRec
  BY HeapTyped

LEMMA GoodMade ==
  ASSUME NEW h, NEW n \in {0, 1}, Good(h, n), NEW r \in Results, NEW error \in BOOLEAN
  PROVE  Good(Made(h, r, error), n)
<1> DEFINE x == [st |-> "live", refs |-> 1, error |-> error]
           g == [h EXCEPT !.res[r] = x]
<1>1. x \in ResultRec
  BY DEF ResultRec
<1>2. Good(g, n)
  <2> HIDE DEF x
  <2> QED BY <1>1, ResultChanged
<1>3. Made(h, r, error) = [g EXCEPT !.obj[0].res = r]
  BY DEF Made
<1> HIDE DEF g
<1>4. Good([g EXCEPT !.obj[0].res = r], n)
  BY <1>2, FieldChanged
<1> QED BY <1>3, <1>4

LEMMA GoodReffed ==
  ASSUME NEW h, NEW n \in {0, 1}, Good(h, n), NEW r \in Results
  PROVE  Good(Reffed(h, r), n)
<1> DEFINE x == [h.res[r] EXCEPT !.refs = @ + 1]
<1>1. x \in ResultRec
  BY ResultTyped DEF ResultRec, Good
<1>2. Reffed(h, r) = [h EXCEPT !.res[r] = x]
  BY HeapTyped DEF Reffed, Good
<1> HIDE DEF x
<1> QED BY <1>1, <1>2, ResultChanged

LEMMA GoodUnreffed ==
  ASSUME NEW h, NEW n \in {0, 1}, Good(h, n), NEW r \in Results
  PROVE  Good(Unreffed(h, r), n)
<1>1. CASE h.res[r].refs # 1
  <2> DEFINE x == [h.res[r] EXCEPT !.refs = @ - 1]
  <2>1. x \in ResultRec
    BY ResultTyped DEF ResultRec, Good
  <2>2. Unreffed(h, r) = [h EXCEPT !.res[r] = x]
    BY <1>1, HeapTyped DEF Unreffed, Good
  <2> HIDE DEF x
  <2> QED BY <2>1, <2>2, ResultChanged
<1>2. CASE h.res[r].refs = 1
  <2> DEFINE x == [h.res[r] EXCEPT !.refs = 0, !.st = "freed"]
             g == [h EXCEPT !.res[r] = x]
             left == IF g.obj[0].res = r THEN None ELSE g.obj[0].res
  <2>1. x \in ResultRec
    <3> DEFINE y == [h.res[r] EXCEPT !.refs = 0]
    <3>1. h.res[r] \in ResultRec
      BY ResultTyped DEF Good
    <3>2. y \in ResultRec /\ x = [y EXCEPT !.st = "freed"]
      BY <3>1 DEF ResultRec
    <3> HIDE DEF y, x
    <3> QED BY <3>2 DEF ResultRec
  <2>2. g = [h EXCEPT !.res[r].refs = 0, !.res[r].st = "freed"]
    BY HeapTyped DEF Good
  <2>3. Good(g, n)
    <3> HIDE DEF x
    <3> QED BY <2>1, ResultChanged
  <2>4. Unreffed(h, r) = [g EXCEPT !.obj[0].res = left]
    BY <1>2, <2>2 DEF Unreffed
  <2> HIDE DEF g
  <2>5. left \in Results \cup {None}
    BY <2>3, HeapTyped DEF Good, ObjectRec
  <2> HIDE DEF left
  <2>6. Good([g EXCEPT !.obj[0].res = left], n)
    BY <2>3, <2>5, FieldChanged
  <2> QED BY <2>4, <2>6
<1> QED BY <1>1, <1>2

LEMMA GoodGiven ==
  ASSUME NEW h, NEW n \in {0, 1}, Good(h, n), NEW r \in Results
  PROVE  Good(Given(h, 0, r), n)
<1> DEFINE f == Next_(h, 0)
           g == [f EXCEPT !.events = Append(@, r)]
           k == [g EXCEPT !.obj[0].res = None]
<1>1. Good(f, n)
  BY FieldChanged DEF Next_
<1> HIDE DEF f
<1>2. f \in HeapRec /\ f.events \in Seq(EventKinds) /\ Num(f.events) \in Nat
  BY <1>1, HeapTyped DEF Good
<1>3. /\ g.events = Append(f.events, r) /\ g.obj = f.obj
      /\ g = [f EXCEPT !.events = g.events]
  BY <1>2 DEF HeapRec
<1>4. r \in EventKinds /\ One(r) = 0
  BY DEF EventKinds, One, Results, AboutObject
<1>5. g.events \in Seq(EventKinds) /\ Num(g.events) = Num(f.events)
  BY <1>2, <1>3, <1>4, NumAppend
<1> HIDE DEF g
<1>6. g \in HeapRec
  BY <1>2, <1>3, <1>5 DEF HeapRec, EventKinds
<1>7. Good(g, n)
  BY <1>1, <1>3, <1>5, <1>6 DEF Good, Counted
<1>8. Good(k, n)
  BY <1>7, FieldChanged
<1>9. Given(h, 0, r) = [k EXCEPT !.obj[0].res = None]
  BY DEF Given, f, g
<1> HIDE DEF k
<1>10. Good([k EXCEPT !.obj[0].res = None], n)
  BY <1>8, FieldChanged
<1> QED BY <1>9, <1>10

\* The first event is taken by its handlers.
LEMMA GoodTail ==
  ASSUME NEW h, Good(h, 0), h.events # <<>>
  PROVE  Good([h EXCEPT !.events = Tail(@)], One(Head(h.events)))
<1> DEFINE g == [h EXCEPT !.events = Tail(@)]
<1>1. /\ h \in HeapRec /\ h.events \in Seq(EventKinds) /\ Num(h.events) \in Nat
      /\ Tail(h.events) \in Seq(EventKinds) /\ Num(Tail(h.events)) \in Nat
      /\ Num(h.events) = Num(Tail(h.events)) + One(Head(h.events))
  BY HeapTyped, NumTail, NumTyped DEF Good
<1>2. /\ g.events = Tail(h.events) /\ g.obj = h.obj
      /\ g = [h EXCEPT !.events = g.events]
  BY <1>1 DEF HeapRec
<1> HIDE DEF g
<1>3. g \in HeapRec
  BY <1>1, <1>2 DEF HeapRec, EventKinds
<1>4. One(Head(h.events)) \in {0, 1}
  BY DEF One
<1>5. Counted(g, One(Head(h.events)))
  BY <1>1, <1>2, <1>4 DEF Good, Counted
<1> QED BY <1>3, <1>5 DEF Good, g

----------------------------------------------------------------------------
(* A plain object's steps *)

Plain ==
  /\ Good(heap, Handling)
  /\ run \in RunRec /\ run.c = 0
  /\ run.at \in {"answered", "failed"} => run.what \in Results

\* Nothing has been made yet.
Untouched ==
  /\ heap = [obj |-> [o \in Objs |-> NoObject], econn |-> 0, events |-> <<>>,
             res |-> [r \in Results |-> [st |-> "none", refs |-> 0, error |-> FALSE]]]
  /\ ~handle /\ run = Loop /\ held = [r \in Results |-> 0]

LifeInv ==
  /\ kind \in {"none", "plain", "pool"}
  /\ kind = "none" => Untouched
  /\ kind = "plain" => Plain

LEMMA HandlingTyped == Handling \in {0, 1}
  BY DEF Handling

LEMMA PlainStill == ASSUME Plain, run' = run, Good(heap', Handling) PROVE Plain'
  BY DEF Plain, Handling

LEMMA PlainReturns == ASSUME Good(heap', 0), run' = Loop PROVE Plain'
<1>1. run' \in RunRec /\ run'.c = 0 /\ run'.at = "loop"
  BY DEF Loop, RunRec, Objs
<1> QED BY <1>1 DEF Plain, Handling

LEMMA PlainCalls ==
  ASSUME Good(heap', 0), NEW why \in CallbackKinds, NEW r \in EventKinds, Callback(why, 0, r),
         why \in {"answered", "failed"} => r \in Results
  PROVE  Plain'
<1>1. /\ run' \in RunRec /\ run'.c = 0 /\ run'.at # "handler"
      /\ run'.at \in {"answered", "failed"} => run'.what \in Results
  BY DEF Callback, RunRec, Objs, CallbackKinds, EventKinds
<1> QED BY <1>1 DEF Plain, Handling

\* esql_connect.
LEMMA GoodDialled ==
  ASSUME NEW h, NEW n \in {0, 1}, Good(h, n)
  PROVE  Good([h EXCEPT !.obj[0] = Dialled(@)], n)
<1> DEFINE o == Dialled(h.obj[0])
<1>1. h \in HeapRec /\ h.obj[0] \in ObjectRec
  BY HeapTyped DEF Good
<1>2. /\ o \in ObjectRec
      /\ o.st = h.obj[0].st /\ o.dead = h.obj[0].dead /\ o.count = h.obj[0].count
  <2> DEFINE p == [h.obj[0] EXCEPT !.current = "init"]
  <2>1. /\ p \in ObjectRec /\ p.src \cup {"fd"} \in SUBSET SourceKinds
        /\ p.st = h.obj[0].st /\ p.dead = h.obj[0].dead /\ p.count = h.obj[0].count
        /\ o = h.obj[0] \/ o = [p EXCEPT !.src = p.src \cup {"fd"}]
    BY <1>1 DEF Dialled, ObjectRec, SourceKinds
  <2> HIDE DEF p, o
  <2> QED BY <1>1, <2>1 DEF ObjectRec
<1> HIDE DEF o
<1>3. Good([h EXCEPT !.obj[0] = o], n)
  BY <1>1, <1>2, ObjectChanged DEF Good
<1> QED BY <1>3 DEF o

\* Sources of the main loop come and go.
LEMMA SourceAdded ==
  ASSUME NEW h, NEW n \in {0, 1}, Good(h, n), NEW S \in SUBSET SourceKinds
  PROVE  /\ Good([h EXCEPT !.obj[0].src = @ \cup S], n)
         /\ Good([h EXCEPT !.obj[0].src = @ \ S], n)
<1>1. h.obj[0].src \cup S \in SUBSET SourceKinds /\ h.obj[0].src \ S \in SUBSET SourceKinds
  BY HeapTyped DEF Good, ObjectRec
<1> QED BY <1>1, FieldChanged

LEMMA GoodDown ==
  ASSUME NEW h, Good(h, 0), kind = "plain"
  PROVE  /\ \A g \in AndRetry(h, 0) : Good(g, 0)
         /\ Good(Disconnected(h, 0), 0)
         /\ \A g \in Down(h, 0) : Good(g, 0)
         /\ \A g \in AfterFailure(h, 0) : Good(g, 0)
<1>1. ASSUME NEW d, Good(d, 0), NEW g \in AndRetry(d, 0) PROVE Good(g, 0)
  <2>1. ASSUME NEW timer \in RetryTimers PROVE Good([d EXCEPT !.obj[0].src = @ \cup {timer}], 0)
    <3>1. {timer} \in SUBSET SourceKinds
      BY DEF SourceKinds
    <3> QED BY <1>1, <3>1, SourceAdded
  <2> QED BY <1>1, <2>1 DEF AndRetry
<1>2. ASSUME NEW d, Good(d, 0) PROVE Good(Disconnected(d, 0), 0)
  BY <1>2, GoodDisconnected DEF Good
<1>3. Good(Told(h, 0), 0)
  BY GoodTold DEF Good
<1>4. Good(Disconnected(Told(h, 0), 0), 0)
  BY <1>2, <1>3
<1>5. \A g \in Down(h, 0) : Good(g, 0)
  BY <1>1, <1>4 DEF Down
<1>6. Good(Next_(h, 0), 0)
  BY FieldChanged DEF Next_
<1> QED BY <1>1, <1>2, <1>5, <1>6 DEF AfterFailure

\* The program's calls about the object.
LEMMA PlainCall ==
  ASSUME kind = "plain", Plain,
         Connect \/ Disconnect \/ EsqlFree \/ Query(0) \/ \E on \in BOOLEAN : TimeoutSet(on)
  PROVE  Plain'
<1> DEFINE n == Handling
<1>1. n \in {0, 1} /\ Good(heap, n) /\ heap \in HeapRec
  BY HandlingTyped DEF Plain, Good
<1>2. run' = run
  BY DEF Connect, Disconnect, EsqlFree, Query, TimeoutSet
<1> HIDE DEF n
<1>3. CASE Connect
  <2>1. Conns = {0} /\ 0 \in Objs /\ heap.obj \in [Objs -> ObjectRec]
    BY <1>1, HeapTyped DEF Conns
  <2>2. [c \in Objs |-> IF c \in Conns THEN Dialled(heap.obj[c]) ELSE heap.obj[c]]
          = [heap.obj EXCEPT ![0] = Dialled(@)]
    BY <2>1
  <2>3. heap' = [heap EXCEPT !.obj[0] = Dialled(@)]
    BY <1>3, <2>2 DEF Connect
  <2>4. Good(heap', n)
    BY <1>1, <2>3, GoodDialled
  <2> QED BY <1>2, <2>4, PlainStill DEF n
<1>4. CASE Disconnect
  <2>1. heap' = Disconnected(heap, 0)
    BY <1>4 DEF Disconnect
  <2>2. Good(heap', n)
    BY <1>1, <2>1, GoodDisconnected DEF Good
  <2> QED BY <1>2, <2>2, PlainStill DEF n
<1>5. CASE EsqlFree
  <2>1. heap' = Freed(heap)
    BY <1>5 DEF EsqlFree
  <2>2. Good(heap', n)
    BY <1>1, <2>1, GoodFreed
  <2> QED BY <1>2, <2>2, PlainStill DEF n
<1>6. CASE Query(0)
  <2> DEFINE g == [heap EXCEPT !.obj[0].current = "query"]
  <2>1. Good(g, n)
    BY <1>1, FieldChanged
  <2>2. heap' = [g EXCEPT !.obj[0].src = @ \cup {"job"}]
    BY <1>6 DEF Query
  <2> HIDE DEF g
  <2>3. Good([g EXCEPT !.obj[0].src = @ \cup {"job"}], n)
    <3>1. {"job"} \in SUBSET SourceKinds
      BY DEF SourceKinds
    <3> QED BY <1>1, <2>1, <3>1, SourceAdded
  <2>4. Good(heap', n)
    BY <2>2, <2>3
  <2> QED BY <1>2, <2>4, PlainStill DEF n
<1>7. ASSUME NEW on \in BOOLEAN, TimeoutSet(on) PROVE Plain'
  <2> DEFINE S == IF on THEN heap.obj[0].src \cup {"timeout"} ELSE heap.obj[0].src \ {"timeout"}
  <2>1. Conns = {0} /\ 0 \in Objs /\ heap.obj \in [Objs -> ObjectRec]
    BY <1>1, HeapTyped DEF Conns
  <2>2. heap'.obj = [heap.obj EXCEPT ![0].src = S] /\ heap' = [heap EXCEPT !.obj = heap'.obj]
    <3> DEFINE set(o) == IF o = 0 THEN [heap.obj[0] EXCEPT !.src = S] ELSE heap.obj[o]
    <3>1. heap' = [heap EXCEPT !.obj = [o \in Objs |-> IF o \notin Conns THEN heap.obj[o]
                     ELSE [heap.obj[o] EXCEPT !.src = IF on THEN @ \cup {"timeout"} ELSE @ \ {"timeout"}]]]
      BY <1>7 DEF TimeoutSet
    <3>2. \A o \in Objs : (IF o \notin Conns THEN heap.obj[o]
                     ELSE [heap.obj[o] EXCEPT !.src = IF on THEN @ \cup {"timeout"} ELSE @ \ {"timeout"}])
                          = set(o)
      BY <2>1
    <3>3. heap' = [heap EXCEPT !.obj = [o \in Objs |-> set(o)]]
      BY <3>1, <3>2
    <3>4. [o \in Objs |-> set(o)] = [heap.obj EXCEPT ![0].src = S]
      BY <2>1
    <3> HIDE DEF set, S
    <3>5. heap'.obj = [o \in Objs |-> set(o)] /\ heap' = [heap EXCEPT !.obj = heap'.obj]
      BY <1>1, <3>3 DEF HeapRec
    <3> QED BY <3>4, <3>5
  <2>3. heap' = [heap EXCEPT !.obj[0].src = S]
    BY <2>2
  <2>4. S \in SUBSET SourceKinds
    BY <1>1, HeapTyped DEF ObjectRec, SourceKinds
  <2> HIDE DEF S
  <2>5. Good([heap EXCEPT !.obj[0].src = S], n)
    BY <1>1, <2>4, FieldChanged
  <2>6. Good(heap', n)
    BY <2>3, <2>5
  <2> QED BY <1>2, <2>6, PlainStill DEF n
<1> QED BY <1>3, <1>4, <1>5, <1>6, <1>7

LEMMA PlainHolds ==
  \A r \in Results : kind = "plain" /\ Plain /\ (Hold(r) \/ Release(r)) => Plain'
<1> SUFFICES ASSUME NEW r \in Results, kind = "plain", Plain, Hold(r) \/ Release(r) PROVE Plain'
  OBVIOUS
<1>1. Handling \in {0, 1} /\ Good(heap, Handling)
  BY HandlingTyped DEF Plain
<1>2. run' = run /\ heap' \in {Reffed(heap, r), Unreffed(heap, r)}
  BY DEF Hold, Release
<1>3. Good(Reffed(heap, r), Handling) /\ Good(Unreffed(heap, r), Handling)
  BY <1>1, GoodReffed, GoodUnreffed
<1> QED BY <1>2, <1>3, PlainStill

\* The job, if there is one, has run.
LEMMA GoodServed == Good(heap, 0) => Good(Served(0), 0)
<1>1. {"job"} \in SUBSET SourceKinds
  BY DEF SourceKinds
<1> QED BY <1>1, SourceAdded DEF Served

LEMMA LoopHandling == Plain /\ run.at # "handler" => Good(heap, 0)
  BY DEF Plain, Handling

LEMMA PlainIdle == ASSUME Good(heap', 0), run' = run, Plain, run.at = "loop" PROVE Plain'
  BY PlainStill DEF Handling

LEMMA PlainWaits == kind = "plain" /\ Plain /\ Waits(0) => Plain'
<1> SUFFICES ASSUME kind = "plain", Plain, Waits(0) PROVE Plain'
  OBVIOUS
<1>1. heap' = Served(0) /\ run' = run /\ run.at = "loop"
  BY DEF Waits, Ready, AtLoop
<1>2. Good(heap', 0)
  BY <1>1, LoopHandling, GoodServed
<1> QED BY <1>1, <1>2, PlainIdle

LEMMA PlainCompleteInit == kind = "plain" /\ Plain /\ CompleteInit(0) => Plain'
<1> SUFFICES ASSUME kind = "plain", Plain, CompleteInit(0) PROVE Plain'
  OBVIOUS
<1> DEFINE g == [Served(0) EXCEPT !.obj[0].connected = TRUE, !.econn = @]
           h == [g EXCEPT !.obj[0].connected = @ \/ ReadyToTell(g)]
<1>1. run.at = "loop" /\ Good(Served(0), 0)
  BY LoopHandling, GoodServed DEF CompleteInit, Ready, AtLoop
<1>2. /\ ReadyToTell(g)
      /\ \/ heap' = Next_(Told(h, 0), 0) /\ run' = run
         \/ heap' = h /\ Callback("ready", 0, AboutObject)
  BY DEF CompleteInit, ReadyToTell
<1>3. g = [Served(0) EXCEPT !.obj[0].connected = TRUE]
  BY <1>1 DEF Good, HeapRec
<1>4. Good(g, 0)
  <2>1. Good([Served(0) EXCEPT !.obj[0].connected = TRUE], 0)
    BY <1>1, FieldChanged
  <2> QED BY <1>3, <2>1
<1> HIDE DEF g
<1>5. Good(h, 0)
  <2>1. (g.obj[0].connected \/ ReadyToTell(g)) \in BOOLEAN
    OBVIOUS
  <2> QED BY <1>4, <2>1, FieldChanged
<1> HIDE DEF h
<1>6. Good(Next_(Told(h, 0), 0), 0)
  <2>1. Good(Told(h, 0), 0)
    BY <1>5, GoodTold DEF Good
  <2> QED BY <2>1, FieldChanged DEF Next_
<1>7. CASE heap' = Next_(Told(h, 0), 0) /\ run' = run
  BY <1>1, <1>6, <1>7, PlainIdle
<1>8. CASE heap' = h /\ Callback("ready", 0, AboutObject)
  <2>1. Good(heap', 0)
    BY <1>5, <1>8
  <2> QED BY <1>8, <2>1, PlainCalls DEF CallbackKinds, EventKinds
<1> QED BY <1>2, <1>7, <1>8

LEMMA PlainCompleteQuery == kind = "plain" /\ Plain /\ CompleteQuery(0) => Plain'
<1> SUFFICES ASSUME kind = "plain", Plain, CompleteQuery(0) PROVE Plain'
  OBVIOUS
<1> DEFINE kept == heap.obj[0].res # None
           r == IF kept THEN heap.obj[0].res ELSE NewResult
           error == kept /\ heap.res[r].error
           h == Made(Served(0), r, error)
<1>1. run.at = "loop" /\ Good(Served(0), 0) /\ heap \in HeapRec
  BY LoopHandling, GoodServed DEF CompleteQuery, Ready, AtLoop, Plain, Good
<1>2. \/ heap' = Given(h, 0, r) /\ run' = run
      \/ heap' = h /\ Callback("answered", 0, r)
  BY DEF CompleteQuery
<1>3. r \in Results
  <2>1. heap.obj[0].res \in Results \cup {None}
    BY <1>1, HeapTyped DEF ObjectRec
  <2>2. kept \/ Unused # {}
    BY DEF CompleteQuery
  <2> QED BY <2>1, <2>2, NewResultUnused
<1> HIDE DEF r
<1>4. error \in BOOLEAN
  BY <1>1, <1>3, ResultTyped DEF ResultRec
<1> HIDE DEF error
<1>5. Good(h, 0)
  BY <1>1, <1>3, <1>4, GoodMade
<1> HIDE DEF h
<1>6. CASE heap' = Given(h, 0, r) /\ run' = run
  <2>1. Good(heap', 0)
    BY <1>3, <1>5, <1>6, GoodGiven
  <2> QED BY <1>1, <1>6, <2>1, PlainIdle
<1>7. CASE heap' = h /\ Callback("answered", 0, r)
  <2>1. Good(heap', 0) /\ r \in EventKinds
    BY <1>3, <1>5, <1>7 DEF EventKinds
  <2> QED BY <1>3, <1>7, <2>1, PlainCalls DEF CallbackKinds
<1> QED BY <1>2, <1>6, <1>7

LEMMA PlainFails == kind = "plain" /\ Plain /\ Fails(0) => Plain'
<1> SUFFICES ASSUME kind = "plain", Plain, Fails(0) PROVE Plain'
  OBVIOUS
<1> DEFINE h == Made(Served(0), NewResult, TRUE)
<1>1. run.at = "loop" /\ Good(Served(0), 0)
  BY LoopHandling, GoodServed DEF Fails, Ready, AtLoop
<1>2. \/ heap' \in AfterFailure(Served(0), 0) /\ run' = run
      \/ heap' \in Down(Served(0), 0) /\ run' = run
      \/ Unused # {} /\ heap' = h /\ Callback("failed", 0, NewResult)
      \/ heap' = Served(0) /\ Callback("refused", 0, AboutObject)
  BY DEF Fails
<1>3. CASE heap' \in AfterFailure(Served(0), 0) /\ run' = run
  BY <1>1, <1>3, GoodDown, PlainIdle
<1>4. CASE heap' \in Down(Served(0), 0) /\ run' = run
  BY <1>1, <1>4, GoodDown, PlainIdle
<1>5. CASE Unused # {} /\ heap' = h /\ Callback("failed", 0, NewResult)
  <2>1. NewResult \in Results
    BY <1>5, NewResultUnused
  <2>2. Good(h, 0) /\ NewResult \in EventKinds
    BY <1>1, <2>1, GoodMade DEF EventKinds
  <2> HIDE DEF h
  <2>3. Good(heap', 0)
    BY <1>5, <2>2
  <2> QED BY <1>5, <2>1, <2>2, <2>3, PlainCalls DEF CallbackKinds
<1>6. CASE heap' = Served(0) /\ Callback("refused", 0, AboutObject)
  <2>1. Good(heap', 0)
    BY <1>1, <1>6
  <2> QED BY <1>6, <2>1, PlainCalls DEF CallbackKinds, EventKinds
<1> QED BY <1>2, <1>3, <1>4, <1>5, <1>6

LEMMA PlainTimers == kind = "plain" /\ Plain /\ Timers(0) => Plain'
<1> SUFFICES ASSUME kind = "plain", Plain, Timers(0) PROVE Plain'
  OBVIOUS
<1>1. run.at = "loop" /\ run' = run /\ Good(heap, 0)
  BY LoopHandling DEF Timers, TimeoutFires, RetryFires, AtLoop
<1>2. CASE TimeoutFires(0)
  <2> DEFINE h == [heap EXCEPT !.obj[0].src = @ \ {"timeout"}]
  <2>1. Good(h, 0)
    <3>1. {"timeout"} \in SUBSET SourceKinds
      BY DEF SourceKinds
    <3> QED BY <1>1, <3>1, SourceAdded
  <2>2. heap' \in AndRetry(Disconnected(h, 0), 0)
    BY <1>2 DEF TimeoutFires
  <2> HIDE DEF h
  <2>3. Good(Disconnected(h, 0), 0)
    BY <2>1, GoodDisconnected DEF Good
  <2>4. Good(heap', 0)
    BY <2>2, <2>3, GoodDown
  <2> QED BY <1>1, <2>4, PlainIdle
<1>3. CASE RetryFires(0)
  <2>0. PICK timer \in RetryTimers :
          LET h == [heap EXCEPT !.obj[0].src = @ \ {timer}]
          IN \/ heap' = [h EXCEPT !.obj[0].current = "init", !.obj[0].src = @ \cup {"fd"}]
             \/ heap' = Told(h, 0)
    BY <1>3 DEF RetryFires
  <2> DEFINE h == [heap EXCEPT !.obj[0].src = @ \ {timer}]
             g == [h EXCEPT !.obj[0].current = "init"]
  <2>1. Good(h, 0)
    <3>1. {timer} \in SUBSET SourceKinds
      BY DEF SourceKinds
    <3> QED BY <1>1, <3>1, SourceAdded
  <2>2. \/ heap' = [h EXCEPT !.obj[0].current = "init", !.obj[0].src = @ \cup {"fd"}]
        \/ heap' = Told(h, 0)
    BY <2>0
  <2> HIDE DEF h
  <2>3. Good(g, 0)
    BY <2>1, FieldChanged
  <2>7. [h EXCEPT !.obj[0].current = "init", !.obj[0].src = @ \cup {"fd"}]
           = [g EXCEPT !.obj[0].src = @ \cup {"fd"}]
    OBVIOUS
  <2> HIDE DEF g
  <2>4. Good([g EXCEPT !.obj[0].src = @ \cup {"fd"}], 0)
    <3>1. {"fd"} \in SUBSET SourceKinds
      BY DEF SourceKinds
    <3> QED BY <2>3, <3>1, SourceAdded
  <2>5. Good(Told(h, 0), 0)
    BY <2>1, GoodTold DEF Good
  <2>6. Good(heap', 0)
    BY <2>2, <2>4, <2>5, <2>7
  <2> QED BY <1>1, <2>6, PlainIdle
<1> QED BY <1>2, <1>3 DEF Timers

LEMMA PlainCallbackReturns == kind = "plain" /\ Plain /\ CallbackReturns => Plain'
<1> SUFFICES ASSUME kind = "plain", Plain, CallbackReturns PROVE Plain'
  OBVIOUS
<1> DEFINE r == run.what
           g == Next_(Unreffed(heap, r), 0)
           k == [g EXCEPT !.obj[0].res = None]
<1>1. run.c = 0 /\ run.at \in CallbackKinds /\ run' = Loop /\ Good(heap, 0)
  BY LoopHandling DEF Plain, CallbackReturns, CallbackKinds
<1>2. \/ heap' = Next_(heap, 0)
      \/ heap' \in Down(heap, 0)
      \/ r \in Results /\ heap' = [k EXCEPT !.obj[0].res = None]
      \/ r \in Results /\ heap' \in AfterFailure(Unreffed(heap, r), 0)
  <2>1. \/ run.at = "ready" /\ heap' = Next_(heap, 0)
        \/ run.at = "refused" /\ heap' \in Down(heap, 0)
        \/ /\ run.at = "answered" /\ MayUnref(r)
           /\ heap' = [Next_(Unreffed(heap, r), 0) EXCEPT !.obj[0].res = None, !.obj[0].res = None]
        \/ run.at = "failed" /\ MayUnref(r) /\ heap' \in AfterFailure(Unreffed(heap, r), 0)
    BY <1>1 DEF CallbackReturns, CallbackKinds
  <2>2. [Next_(Unreffed(heap, r), 0) EXCEPT !.obj[0].res = None, !.obj[0].res = None]
          = [k EXCEPT !.obj[0].res = None]
    OBVIOUS
  <2>3. run.at \in {"answered", "failed"} => r \in Results
    BY DEF Plain
  <2> QED BY <2>1, <2>2, <2>3
<1>3. CASE heap' = Next_(heap, 0)
  <2>1. Good(heap', 0)
    BY <1>1, <1>3, FieldChanged DEF Next_
  <2> QED BY <1>1, <2>1, PlainReturns
<1>4. CASE heap' \in Down(heap, 0)
  BY <1>1, <1>4, GoodDown, PlainReturns
<1>5. CASE r \in Results /\ heap' = [k EXCEPT !.obj[0].res = None]
  <2>1. Good(Unreffed(heap, r), 0)
    BY <1>1, <1>5, GoodUnreffed
  <2>2. Good(g, 0)
    BY <2>1, FieldChanged DEF Next_
  <2> HIDE DEF g
  <2>3. Good(k, 0)
    BY <2>2, FieldChanged
  <2> HIDE DEF k
  <2>4. Good([k EXCEPT !.obj[0].res = None], 0)
    BY <2>3, FieldChanged
  <2>5. Good(heap', 0)
    BY <1>5, <2>4
  <2> QED BY <1>1, <2>5, PlainReturns
<1>6. CASE r \in Results /\ heap' \in AfterFailure(Unreffed(heap, r), 0)
  <2>1. Good(Unreffed(heap, r), 0)
    BY <1>1, <1>6, GoodUnreffed
  <2> QED BY <1>1, <1>6, <2>1, GoodDown, PlainReturns
<1> QED BY <1>2, <1>3, <1>4, <1>5, <1>6

\* The handlers of an event run, and its end comes.
LEMMA PlainEvents == kind = "plain" /\ Plain /\ Events => Plain'
<1> SUFFICES ASSUME kind = "plain", Plain, Events PROVE Plain'
  OBVIOUS
<1>1. CASE EventStarts
  <2> DEFINE event == Head(heap.events)
  <2>1. /\ run.at = "loop" /\ heap.events # <<>>
        /\ heap' = [heap EXCEPT !.events = Tail(@)]
        /\ run' = [at |-> "handler", c |-> 0, what |-> event]
    BY <1>1 DEF EventStarts, AtLoop
  <2>2. Good(heap, 0) /\ heap.events \in Seq(EventKinds)
    BY <2>1, LoopHandling, HeapTyped DEF Plain, Good
  <2>3. event \in EventKinds
    BY <2>1, <2>2, NumTail
  <2>4. Good(heap', One(event))
    BY <2>1, <2>2, GoodTail
  <2> HIDE DEF event
  <2>5. Handling' = One(event) /\ run' \in RunRec /\ run'.c = 0 /\ run'.at = "handler"
    BY <2>1, <2>3 DEF Handling, One, RunRec, Objs, EventKinds
  <2> QED BY <2>4, <2>5 DEF Plain
<1>2. CASE EventEnds
  <2>1. run.at = "handler" /\ run' = Loop
    BY <1>2 DEF EventEnds
  <2>2. CASE run.what = AboutObject
    <3>1. heap.obj[0].st = "live" /\ heap' = FakeFreed(heap)
      BY <1>2, <2>2 DEF EventEnds, EventLives
    <3>2. Good(heap, 1)
      BY <2>1, <2>2 DEF Plain, Handling
    <3>3. Good(heap', 0)
      BY <3>1, <3>2, GoodFakeFreed
    <3> QED BY <2>1, <3>3, PlainReturns
  <2>3. CASE run.what # AboutObject
    <3>1. heap' = Unreffed(heap, run.what)
      BY <1>2, <2>3 DEF EventEnds
    <3>2. Good(heap, 0) /\ run.what \in Results
      BY <2>3 DEF Plain, Handling, RunRec, AboutObject
    <3>3. Good(heap', 0)
      BY <3>1, <3>2, GoodUnreffed
    <3> QED BY <2>1, <3>3, PlainReturns
  <2> QED BY <2>2, <2>3
<1> QED BY <1>1, <1>2 DEF Events

----------------------------------------------------------------------------
(* All steps *)

LEMMA KindKept ==
  ASSUME LifeInv, Next
  PROVE  kind' = kind \/ \E k \in {"plain", "pool"} : New(k)
<1>1. Program => kind' = kind \/ \E k \in {"plain", "pool"} : New(k)
  BY DEF Program, EsqlInit, EsqlShutdown, Connect, Disconnect, EsqlFree, Query, TimeoutSet, Hold, Release
<1>2. ASSUME NEW c \in Conns, Io(c) \/ Timers(c) PROVE kind' = kind
  BY <1>2 DEF Io, Timers, Waits, CompleteInit, CompleteQuery, Fails, TimeoutFires, RetryFires
<1>3. CallbackReturns \/ Events \/ UsesFreed => kind' = kind
  BY DEF CallbackReturns, Events, EventStarts, EventEnds, UsesFreed
<1> QED BY <1>1, <1>2, <1>3 DEF Next

\* What is made is sound.
LEMMA PlainNew == ASSUME LifeInv, New("plain") PROVE Plain'
<1>1. kind = "none" /\ Untouched
  BY DEF New, LifeInv
<1> DEFINE o == [NoObject EXCEPT !.st = "live"]
<1>2. /\ 0 \in Objs /\ NoObject \in ObjectRec /\ o \in ObjectRec
      /\ o.st = "live" /\ o.count = 0 /\ ~o.dead
  <2>1. NoObject \in ObjectRec /\ NoObject.count = 0 /\ ~NoObject.dead
    <3>1. 0 \in 0 .. Wrap - 1
      OBVIOUS
    <3> QED BY <3>1 DEF NoObject, ObjectRec, None
  <2>2. o \in ObjectRec /\ o.st = "live" /\ o.count = NoObject.count /\ o.dead = NoObject.dead
    BY <2>1 DEF ObjectRec
  <2> QED BY <2>1, <2>2 DEF Objs
<1>3. /\ heap.obj \in [Objs -> ObjectRec] /\ heap.econn = 0 /\ heap.events = <<>>
      /\ heap.res \in [Results -> ResultRec] /\ heap \in HeapRec
  BY <1>1, <1>2 DEF Untouched, ResultRec, HeapRec
<1>4. heap'.obj = [x \in Objs |-> IF x = 0 THEN o ELSE heap.obj[x]]
      /\ heap' = [heap EXCEPT !.obj = heap'.obj] /\ heap'.events = <<>>
  BY <1>3 DEF New, HeapRec
<1> HIDE DEF o
<1>5. heap'.obj \in [Objs -> ObjectRec] /\ heap'.obj[0] = o
  BY <1>2, <1>3, <1>4
<1>6. heap' \in HeapRec
  BY <1>3, <1>4, <1>5 DEF HeapRec
<1>7. Num(<<>>) = 0
  <2>1. Where(<<>>, AboutObject) = {}
    BY DEF Where
  <2> QED BY <2>1, FS_EmptySet DEF Num, Times
<1>8. 0 % Wrap = 0
  BY SMT
<1>9. Good(heap', 0)
  BY <1>2, <1>4, <1>5, <1>6, <1>7, <1>8 DEF Good, Counted
<1>10. run' = Loop
  BY <1>1 DEF New, Untouched
<1> QED BY <1>9, <1>10, PlainReturns

LEMMA UntouchedStill == ASSUME LifeInv, Next, kind = "none", kind' = "none" PROVE Untouched'
<1>1. Untouched /\ Conns = {}
  BY DEF LifeInv, Conns
<1>2. ~Usable /\ ~handle /\ run.at = "loop" /\ heap.events = <<>>
      /\ \A r \in Results : heap.res[r].st = "none" /\ ~(held[r] > 0)
  BY <1>1 DEF Usable, Untouched, Loop
<1>3. \/ EsqlInit \/ EsqlShutdown \/ UsesFreed
  <2>1. ~CallbackReturns /\ ~Events
    BY <1>2 DEF CallbackReturns, CallbackKinds, Events, EventStarts, EventEnds
  <2>2. ASSUME Program PROVE EsqlInit \/ EsqlShutdown
    <3>1. ~New("plain") /\ ~New("pool")
      BY DEF New
    <3>2. ~Connect /\ ~Disconnect /\ ~EsqlFree
      BY <1>2 DEF Connect, Disconnect, EsqlFree
    <3>3. \A on \in BOOLEAN : ~TimeoutSet(on)
      BY <1>2 DEF TimeoutSet
    <3>4. \A r \in Results : ~Hold(r) /\ ~Release(r)
      BY <1>2 DEF Hold, Release
    <3> QED BY <1>1, <2>2, <3>1, <3>2, <3>3, <3>4 DEF Program
  <2> QED BY <1>1, <2>1, <2>2 DEF Next
<1>4. heap' = heap /\ handle' = handle /\ run' = run /\ held' = held
  BY <1>3 DEF EsqlInit, EsqlShutdown, UsesFreed
<1> QED BY <1>1, <1>4 DEF Untouched

LEMMA PlainStep == ASSUME LifeInv, Next, kind = "plain" PROVE Plain'
<1>1. Plain /\ Conns = {0}
  BY DEF LifeInv, Conns
<1>2. ASSUME run' = run, heap' = heap PROVE Plain'
  <2>1. Good(heap', Handling)
    BY <1>1, <1>2 DEF Plain
  <2> QED BY <1>1, <1>2, <2>1, PlainStill
<1>3. CASE EsqlInit \/ EsqlShutdown \/ UsesFreed
  BY <1>2, <1>3 DEF EsqlInit, EsqlShutdown, UsesFreed
<1>4. \A k \in {"plain", "pool"} : ~New(k)
  BY DEF New
<1>5. CASE Program
  BY <1>1, <1>3, <1>4, <1>5, PlainCall, PlainHolds DEF Program
<1>6. CASE Io(0) \/ Timers(0)
  BY <1>1, <1>6, PlainWaits, PlainCompleteInit, PlainCompleteQuery, PlainFails, PlainTimers DEF Io
<1>7. CASE CallbackReturns \/ Events
  BY <1>1, <1>7, PlainCallbackReturns, PlainEvents
<1> QED BY <1>1, <1>3, <1>5, <1>6, <1>7 DEF Next

LEMMA LifeStep == LifeInv /\ [Next]_vars => LifeInv'
<1> SUFFICES ASSUME LifeInv, [Next]_vars PROVE LifeInv'
  OBVIOUS
<1>1. CASE UNCHANGED vars
  BY <1>1 DEF vars, LifeInv, Untouched, Plain, Handling
<1>2. CASE Next
  <2>1. CASE kind' = kind
    BY <1>2, <2>1, UntouchedStill, PlainStep DEF LifeInv
  <2>2. CASE New("plain")
    BY <2>2, PlainNew DEF New, LifeInv
  <2>3. CASE New("pool")
    BY <2>3 DEF New, LifeInv
  <2> QED BY <1>2, <2>1, <2>2, <2>3, KindKept
<1> QED BY <1>1, <1>2

LEMMA LifeInit == Init => LifeInv
  BY DEF Init, LifeInv, Untouched

LEMMA LifeInvariant == Spec => []LifeInv
  BY LifeInit, LifeStep, PTL DEF Spec

LEMMA PendingCounted == Pending = Handling + Num(heap.events)
  BY DEF Pending, Handling, Num, Times, Where

\* At any length of the queue of events, and whatever the range of the counter:
\* the count of a plain object is that of the events about it.
THEOREM CountsEventsCorrect == Spec => []CountsEvents
<1>1. LifeInv => CountsEvents
  BY PendingCounted DEF LifeInv, Plain, Good, Counted, CountsEvents
<1> QED BY <1>1, LifeInvariant, PTL

\* A plain object that esql_free found with events left has one that will free it.
THEOREM WillBeFreedCorrect == Spec => []WillBeFreed
<1>1. LifeInv => WillBeFreed
  BY PendingCounted DEF LifeInv, Plain, Good, Counted, WillBeFreed
<1> QED BY <1>1, LifeInvariant, PTL

----------------------------------------------------------------------------
(* The library *)

LibInv ==
  /\ lib \in LibRec /\ lib.users <= lib.inits
  /\ ~lib.broken => lib.inits = lib.users /\ (lib.up <=> lib.users > 0)

LEMMA LibChanges == Next => EsqlInit \/ EsqlShutdown \/ lib' = lib
<1>1. Program => EsqlInit \/ EsqlShutdown \/ lib' = lib
  BY DEF Program, New, Connect, Disconnect, EsqlFree, Query, TimeoutSet, Hold, Release
<1>2. ASSUME NEW c \in Conns, Io(c) \/ Timers(c) PROVE lib' = lib
  BY <1>2 DEF Io, Timers, Waits, CompleteInit, CompleteQuery, Fails, TimeoutFires, RetryFires
<1>3. CallbackReturns \/ Events \/ UsesFreed => lib' = lib
  BY DEF CallbackReturns, Events, EventStarts, EventEnds, UsesFreed
<1> QED BY <1>1, <1>2, <1>3 DEF Next

LEMMA LibStep == LibInv /\ [Next]_vars => LibInv'
<1> SUFFICES ASSUME LibInv, [Next]_vars PROVE LibInv'
  OBVIOUS
<1>0. /\ lib \in LibRec /\ lib.inits \in Nat /\ lib.users \in Nat
      /\ lib.up \in BOOLEAN /\ lib.broken \in BOOLEAN
      /\ lib.users <= lib.inits
      /\ ~lib.broken => lib.inits = lib.users /\ (lib.up <=> lib.users > 0)
  BY DEF LibInv, LibRec
<1>1. CASE EsqlInit
  <2>1. CASE lib' = [lib EXCEPT !.inits = @ + 1, !.users = @ + 1] /\ lib.inits # 0
    <3>1. /\ lib'.inits = lib.inits + 1 /\ lib'.users = lib.users + 1
          /\ lib'.up = lib.up /\ lib'.broken = lib.broken /\ lib' \in LibRec
      <4> DEFINE j == [lib EXCEPT !.inits = lib.inits + 1]
                 k == [j EXCEPT !.users = lib.users + 1]
      <4>1. lib' = k
        BY <2>1
      <4>2. j \in LibRec /\ j.inits = lib.inits + 1 /\ j.users = lib.users /\ j.up = lib.up /\ j.broken = lib.broken
        BY <1>0, <2>1 DEF LibRec
      <4> HIDE DEF j
      <4>3. k \in LibRec /\ k.inits = lib.inits + 1 /\ k.users = lib.users + 1 /\ k.up = lib.up /\ k.broken = lib.broken
        BY <1>0, <4>2, <2>1 DEF LibRec
      <4> HIDE DEF k
      <4> QED BY <4>1, <4>3 DEF LibRec
    <3> QED BY <1>0, <2>1, <3>1 DEF LibInv
  <2>2. CASE lib' = [lib EXCEPT !.inits = 1, !.users = @ + 1, !.up = TRUE] /\ lib.inits = 0
    <3>1. /\ lib'.inits = 1 /\ lib'.users = lib.users + 1
          /\ lib'.up /\ lib'.broken = lib.broken /\ lib' \in LibRec
      <4> DEFINE j == [lib EXCEPT !.inits = 1]
                 k == [j EXCEPT !.users = lib.users + 1]
      <4>1. lib' = [k EXCEPT !.up = TRUE]
        BY <2>2
      <4>2. j \in LibRec /\ j.inits = 1 /\ j.users = lib.users /\ j.up = lib.up /\ j.broken = lib.broken
        BY <1>0, <2>2 DEF LibRec
      <4> HIDE DEF j
      <4>3. k \in LibRec /\ k.inits = 1 /\ k.users = lib.users + 1 /\ k.up = lib.up /\ k.broken = lib.broken
        BY <1>0, <4>2, <2>2 DEF LibRec
      <4> HIDE DEF k
      <4> QED BY <4>1, <4>3 DEF LibRec
    <3> QED BY <1>0, <2>2, <3>1 DEF LibInv
  <2>3. CASE lib' = [lib EXCEPT !.inits = 1, !.broken = TRUE] /\ lib.inits = 0
    <3>1. /\ lib'.inits = 1 /\ lib'.users = lib.users /\ lib'.broken /\ lib' \in LibRec
      BY <1>0, <2>3 DEF LibRec
    <3> QED BY <1>0, <2>3, <3>1 DEF LibInv
  <2> QED BY <1>1, <2>1, <2>2, <2>3 DEF EsqlInit
<1>2. CASE EsqlShutdown
  <2>1. PICK up \in BOOLEAN :
          /\ lib' = [lib EXCEPT !.inits = @ - 1, !.users = @ - 1, !.up = up]
          /\ up <=> lib.up /\ ~(lib.inits = 1)
    <3> DEFINE up == lib.up /\ ~(lib.inits = 1)
    <3>1. up \in BOOLEAN
      OBVIOUS
    <3>2. lib' = [lib EXCEPT !.inits = @ - 1, !.users = @ - 1, !.up = up]
      BY <1>2 DEF EsqlShutdown, LastUser
    <3> QED BY <3>1, <3>2, Zenon
  <2>2. lib.users > 0
    BY <1>2 DEF EsqlShutdown
  <2>3. /\ lib'.inits = lib.inits - 1 /\ lib'.users = lib.users - 1
        /\ lib'.up = up /\ lib'.broken = lib.broken /\ lib' \in LibRec
    <3> DEFINE j == [lib EXCEPT !.inits = lib.inits - 1]
               k == [j EXCEPT !.users = lib.users - 1]
    <3>1. lib' = [k EXCEPT !.up = up]
      BY <2>1
    <3>2. j \in LibRec /\ j.inits = lib.inits - 1 /\ j.users = lib.users /\ j.up = lib.up /\ j.broken = lib.broken
      BY <1>0, <2>1, <2>2 DEF LibRec
    <3> HIDE DEF j
    <3>3. k \in LibRec /\ k.inits = lib.inits - 1 /\ k.users = lib.users - 1 /\ k.up = lib.up /\ k.broken = lib.broken
      BY <1>0, <3>2, <2>1, <2>2 DEF LibRec
    <3> HIDE DEF k
    <3> QED BY <3>1, <3>3 DEF LibRec
  <2> QED BY <1>0, <2>1, <2>2, <2>3 DEF LibInv
<1>3. CASE lib' = lib
  BY <1>3 DEF LibInv
<1> QED BY <1>1, <1>2, <1>3, LibChanges DEF vars

\* As long as no esql_init has failed, the library is up exactly while the
\* program has initialised it more often than it has shut it down.
THEOREM LibraryUpCorrect == Spec => []LibraryUp
<1>1. Init => LibInv
  BY DEF Init, LibInv, LibRec
<1>2. LibInv => LibraryUp
  BY DEF LibInv, LibraryUp
<1> QED BY <1>1, <1>2, LibStep, PTL DEF Spec

----------------------------------------------------------------------------
(***************************************************************************)
(* What is freed when.  As long as the program keeps to its contract       *)
(* (tidy), what it may still use, what the main loop may still call and    *)
(* what an event still names is there, for an object of any kind and any   *)
(* size.                                                                   *)
(***************************************************************************)

\* The object is there, and what is connected has a descriptor.
InUse(h) ==
  /\ h.obj[0].st = "live" /\ ~h.obj[0].dead
  /\ \A c \in Conns : h.obj[c].st = "live" /\ (h.obj[c].connected => "fd" \in h.obj[c].src)

\* No result has been touched.
Same(h, g) ==
  /\ g.res = h.res
  /\ \A c \in Objs : g.obj[c].res = h.obj[c].res
  /\ \A r \in Results : Times(g.events, r) = Times(h.events, r)

\* g is what a change that is about connections only may make of h.
Sound(h, g) == g \in HeapRec /\ Same(h, g) /\ (InUse(h) => InUse(g))

LEMMA HeapFields ==
  ASSUME NEW h \in HeapRec
  PROVE  /\ h.obj \in [Objs -> ObjectRec] /\ h.econn \in Int /\ h.events \in Seq(EventKinds)
         /\ h.res \in [Results -> ResultRec]
         /\ \A c \in Objs : h.obj[c] \in ObjectRec
         /\ \A r \in Results : h.res[r] \in ResultRec /\ Times(h.events, r) \in Nat
         /\ 0 \in Objs /\ Conns \subseteq Objs /\ Members \subseteq Objs
<1>1. /\ h.obj \in [Objs -> ObjectRec] /\ h.econn \in Int
      /\ h.events \in Seq(EventKinds) /\ h.res \in [Results -> ResultRec]
  BY DEF HeapRec, EventKinds
<1>2. 0 \in Objs /\ Conns \subseteq Objs /\ Members \subseteq Objs
  BY DEF Objs, Conns, Members
<1>3. \A r \in Results : Times(h.events, r) \in Nat
  BY <1>1, WhereFinite
<1> QED BY <1>1, <1>2, <1>3

\* A heap is its four parts.
LEMMA HeapParts ==
  ASSUME NEW h \in HeapRec
  PROVE  /\ \A f \in [Objs -> ObjectRec] :
              LET g == [h EXCEPT !.obj = f]
              IN g \in HeapRec /\ g.obj = f /\ g.econn = h.econn /\ g.events = h.events /\ g.res = h.res
         /\ \A n \in Int :
              LET g == [h EXCEPT !.econn = n]
              IN g \in HeapRec /\ g.obj = h.obj /\ g.econn = n /\ g.events = h.events /\ g.res = h.res
         /\ \A s \in Seq(EventKinds) :
              LET g == [h EXCEPT !.events = s]
              IN g \in HeapRec /\ g.obj = h.obj /\ g.econn = h.econn /\ g.events = s /\ g.res = h.res
         /\ \A f \in [Results -> ResultRec] :
              LET g == [h EXCEPT !.res = f]
              IN g \in HeapRec /\ g.obj = h.obj /\ g.econn = h.econn /\ g.events = h.events /\ g.res = f
<1> USE DEF HeapRec, EventKinds
<1>1. ASSUME NEW f \in [Objs -> ObjectRec]
      PROVE  LET g == [h EXCEPT !.obj = f]
             IN g \in HeapRec /\ g.obj = f /\ g.econn = h.econn /\ g.events = h.events /\ g.res = h.res
  OBVIOUS
<1>2. ASSUME NEW n \in Int
      PROVE  LET g == [h EXCEPT !.econn = n]
             IN g \in HeapRec /\ g.obj = h.obj /\ g.econn = n /\ g.events = h.events /\ g.res = h.res
  OBVIOUS
<1>3. ASSUME NEW s \in Seq(EventKinds)
      PROVE  LET g == [h EXCEPT !.events = s]
             IN g \in HeapRec /\ g.obj = h.obj /\ g.econn = h.econn /\ g.events = s /\ g.res = h.res
  OBVIOUS
<1>4. ASSUME NEW f \in [Results -> ResultRec]
      PROVE  LET g == [h EXCEPT !.res = f]
             IN g \in HeapRec /\ g.obj = h.obj /\ g.econn = h.econn /\ g.events = h.events /\ g.res = f
  OBVIOUS
<1> QED BY <1>1, <1>2, <1>3, <1>4, Zenon

LEMMA SoundTwice ==
  ASSUME NEW h, NEW g, NEW k, Sound(h, g), Sound(g, k) PROVE Sound(h, k)
<1>1. Same(h, k)
  BY DEF Sound, Same
<1> QED BY <1>1 DEF Sound

LEMMA SoundStill == ASSUME NEW h \in HeapRec PROVE Sound(h, h)
  BY DEF Sound, Same

\* Another function of objects, one that gives and takes no life and no result.
LEMMA SoundObjects ==
  ASSUME NEW h \in HeapRec, NEW f \in [Objs -> ObjectRec],
         \A c \in Objs : /\ f[c].res = h.obj[c].res
                         /\ f[c].st = h.obj[c].st /\ f[c].dead = h.obj[c].dead
                         /\ InUse(h) /\ c \in Conns /\ f[c].connected => "fd" \in f[c].src
  PROVE  Sound(h, [h EXCEPT !.obj = f])
<1> DEFINE g == [h EXCEPT !.obj = f]
<1>1. g \in HeapRec /\ g.obj = f /\ g.events = h.events /\ g.res = h.res
  BY HeapParts
<1> HIDE DEF g
<1>2. Same(h, g)
  BY <1>1 DEF Same
<1>3. InUse(h) => InUse(g)
  BY <1>1, HeapFields DEF InUse
<1> QED BY <1>1, <1>2, <1>3 DEF Sound, g

\* Another object.
LEMMA SoundObject ==
  ASSUME NEW h \in HeapRec, NEW c \in Objs, NEW o \in ObjectRec,
         o.res = h.obj[c].res, o.st = h.obj[c].st, o.dead = h.obj[c].dead,
         InUse(h) /\ c \in Conns /\ o.connected => "fd" \in o.src
  PROVE  Sound(h, [h EXCEPT !.obj[c] = o])
<1> DEFINE f == [h.obj EXCEPT ![c] = o]
<1>1. h.obj \in [Objs -> ObjectRec]
  BY HeapFields
<1>2. f \in [Objs -> ObjectRec] /\ f[c] = o /\ \A b \in Objs \ {c} : f[b] = h.obj[b]
  BY <1>1
<1>3. [h EXCEPT !.obj[c] = o] = [h EXCEPT !.obj = f]
  OBVIOUS
<1> HIDE DEF f
<1>4. ASSUME NEW b \in Objs
      PROVE  /\ f[b].res = h.obj[b].res
             /\ f[b].st = h.obj[b].st /\ f[b].dead = h.obj[b].dead
             /\ InUse(h) /\ b \in Conns /\ f[b].connected => "fd" \in f[b].src
  BY <1>2 DEF InUse
<1>5. Sound(h, [h EXCEPT !.obj = f])
  BY <1>2, <1>4, SoundObjects
<1> QED BY <1>3, <1>5

\* A field of an object.
LEMMA SoundField ==
  ASSUME NEW h \in HeapRec, NEW c \in Objs
  PROVE  /\ \A S \in SUBSET SourceKinds :
              ("fd" \in h.obj[c].src => "fd" \in S) => Sound(h, [h EXCEPT !.obj[c].src = S])
         /\ \A b \in BOOLEAN :
              (b /\ c \in Conns => "fd" \in h.obj[c].src) => Sound(h, [h EXCEPT !.obj[c].connected = b])
         /\ \A x \in {"none", "init", "query"} : Sound(h, [h EXCEPT !.obj[c].current = x])
<1>1. h.obj[c] \in ObjectRec
  BY HeapFields
<1>2. ASSUME NEW S \in SUBSET SourceKinds, "fd" \in h.obj[c].src => "fd" \in S
      PROVE  Sound(h, [h EXCEPT !.obj[c].src = S])
  <2> DEFINE o == [h.obj[c] EXCEPT !.src = S]
  <2>1. /\ o \in ObjectRec /\ o.res = h.obj[c].res /\ o.st = h.obj[c].st /\ o.dead = h.obj[c].dead
        /\ o.connected = h.obj[c].connected /\ o.src = S
    BY <1>1 DEF ObjectRec
  <2>2. [h EXCEPT !.obj[c].src = S] = [h EXCEPT !.obj[c] = o]
    BY HeapFields
  <2> HIDE DEF o
  <2>3. InUse(h) /\ c \in Conns /\ o.connected => "fd" \in o.src
    BY <1>2, <2>1 DEF InUse
  <2> QED BY <2>1, <2>2, <2>3, SoundObject
<1>3. ASSUME NEW b \in BOOLEAN, b /\ c \in Conns => "fd" \in h.obj[c].src
      PROVE  Sound(h, [h EXCEPT !.obj[c].connected = b])
  <2> DEFINE o == [h.obj[c] EXCEPT !.connected = b]
  <2>1. /\ o \in ObjectRec /\ o.res = h.obj[c].res /\ o.st = h.obj[c].st /\ o.dead = h.obj[c].dead
        /\ o.connected = b /\ o.src = h.obj[c].src
    BY <1>1 DEF ObjectRec
  <2>2. [h EXCEPT !.obj[c].connected = b] = [h EXCEPT !.obj[c] = o]
    BY HeapFields
  <2> HIDE DEF o
  <2> QED BY <1>3, <2>1, <2>2, SoundObject
<1>4. ASSUME NEW x \in {"none", "init", "query"} PROVE Sound(h, [h EXCEPT !.obj[c].current = x])
  <2> DEFINE o == [h.obj[c] EXCEPT !.current = x]
  <2>1. /\ o \in ObjectRec /\ o.res = h.obj[c].res /\ o.st = h.obj[c].st /\ o.dead = h.obj[c].dead
        /\ o.connected = h.obj[c].connected /\ o.src = h.obj[c].src
    BY <1>1 DEF ObjectRec
  <2>2. [h EXCEPT !.obj[c].current = x] = [h EXCEPT !.obj[c] = o]
    BY HeapFields
  <2> HIDE DEF o
  <2>3. InUse(h) /\ c \in Conns /\ o.connected => "fd" \in o.src
    BY <2>1 DEF InUse
  <2> QED BY <2>1, <2>2, <2>3, SoundObject
<1> QED BY <1>2, <1>3, <1>4

LEMMA SoundCount == ASSUME NEW h \in HeapRec, NEW n \in Int PROVE Sound(h, [h EXCEPT !.econn = n])
<1> DEFINE g == [h EXCEPT !.econn = n]
<1>1. g \in HeapRec /\ g.obj = h.obj /\ g.events = h.events /\ g.res = h.res
  BY HeapParts
<1> HIDE DEF g
<1>2. Same(h, g) /\ (InUse(h) => InUse(g))
  BY <1>1 DEF Same, InUse
<1> QED BY <1>1, <1>2 DEF Sound, g

\* An event about the object of c is added, and c counts it.
LEMMA SoundTold == ASSUME NEW h \in HeapRec, NEW c \in Objs PROVE Sound(h, Told(h, c))
<1> DEFINE s == Append(h.events, AboutObject)
           k == [h EXCEPT !.events = s]
           o == [k.obj[c] EXCEPT !.count = Plus1(@)]
<1>1. s \in Seq(EventKinds) /\ \A r \in Results : Times(s, r) = Times(h.events, r)
  <2>1. AboutObject \in EventKinds /\ h.events \in Seq(EventKinds)
    BY HeapFields DEF EventKinds
  <2>2. \A r \in Results : Is(AboutObject, r) = 0
    BY DEF Is, Results, AboutObject
  <2>3. \A r \in Results : Times(h.events, r) \in Nat
    BY HeapFields
  <2> QED BY <2>1, <2>2, <2>3, TimesAppend
<1> HIDE DEF s
<1>2. k \in HeapRec /\ k.obj = h.obj /\ k.events = s /\ k.res = h.res
  BY <1>1, HeapParts
<1>3. Told(h, c) = [k EXCEPT !.obj[c] = o]
  <2>1. Told(h, c) = [k EXCEPT !.obj[c].count = Plus1(@)]
    BY DEF Told, s
  <2> HIDE DEF k
  <2> QED BY <1>2, <2>1, HeapFields
<1> HIDE DEF k
<1>4. Sound(h, k)
  BY <1>1, <1>2 DEF Sound, Same, InUse
<1>5. /\ o \in ObjectRec /\ o.res = k.obj[c].res /\ o.st = k.obj[c].st /\ o.dead = k.obj[c].dead
      /\ o.connected = k.obj[c].connected /\ o.src = k.obj[c].src
  <2>1. k.obj[c] \in ObjectRec
    BY <1>2, HeapFields
  <2>2. Plus1(k.obj[c].count) \in 0 .. Wrap - 1
    <3>1. k.obj[c].count + 1 \in Int
      BY <2>1 DEF ObjectRec
    <3> QED BY <3>1, Division DEF Plus1
  <2> QED BY <2>1, <2>2 DEF ObjectRec
<1> HIDE DEF o
<1>6. InUse(k) /\ c \in Conns /\ o.connected => "fd" \in o.src
  BY <1>5 DEF InUse
<1>7. Sound(k, [k EXCEPT !.obj[c] = o])
  BY <1>2, <1>5, <1>6, SoundObject
<1> QED BY <1>3, <1>4, <1>7, SoundTwice

\* esql_disconnect of one connection.
LEMMA SoundDisconnected ==
  ASSUME NEW h \in HeapRec, NEW c \in Objs
  PROVE  Sound(h, Disconnected(h, c))
<1> DEFINE o == [h.obj[c] EXCEPT !.src = @ \ {"fd"}, !.connected = FALSE]
           k == [h EXCEPT !.obj[c] = o]
           n == IF kind = "pool" /\ h.obj[c].connected THEN k.econn - 1 ELSE k.econn
<1>1. /\ o \in ObjectRec /\ o.res = h.obj[c].res /\ o.st = h.obj[c].st /\ o.dead = h.obj[c].dead
      /\ o.connected = FALSE
  <2> DEFINE p == [h.obj[c] EXCEPT !.src = h.obj[c].src \ {"fd"}]
  <2>1. o = [p EXCEPT !.connected = FALSE]
    OBVIOUS
  <2>2. p \in ObjectRec /\ p.res = h.obj[c].res /\ p.st = h.obj[c].st /\ p.dead = h.obj[c].dead
    <3>1. h.obj[c] \in ObjectRec
      BY HeapFields
    <3> QED BY <3>1 DEF ObjectRec
  <2> HIDE DEF p, o
  <2> QED BY <2>1, <2>2 DEF ObjectRec
<1>2. Unplugged(h, c) = [k EXCEPT !.econn = n]
  BY HeapFields DEF Unplugged, HeapRec
<1> HIDE DEF o
<1>3. Sound(h, k)
  BY <1>1, SoundObject
<1> HIDE DEF k
<1>4. Sound(k, [k EXCEPT !.econn = n])
  <2>1. k \in HeapRec /\ n \in Int
    BY <1>3, HeapFields DEF Sound
  <2> HIDE DEF n
  <2> QED BY <2>1, SoundCount
<1>5. Sound(h, Unplugged(h, c)) /\ Unplugged(h, c) \in HeapRec
  BY <1>2, <1>3, <1>4, SoundTwice DEF Sound
<1>6. Sound(h, Told(Unplugged(h, c), c))
  BY <1>5, SoundTold, SoundTwice
<1> QED BY <1>5, <1>6 DEF Disconnected

\* esql_disconnect of members one after the other.
LEMMA SoundHungUp ==
  ASSUME NEW h \in HeapRec, NEW cs \in SUBSET Members
  PROVE  Sound(h, HungUp(h, cs))
<1> DEFINE n == h.econn - Cardinality(cs)
           s == IF \E c \in cs : TellsLastLoss(h, cs, c) THEN Append(h.events, AboutObject) ELSE h.events
           up(c) == IF TellsLastLoss(h, cs, c) THEN Plus1(h.obj[c].count) ELSE h.obj[c].count
           off(c) == [h.obj[c] EXCEPT !.src = @ \ {"fd"}, !.connected = FALSE, !.count = up(c)]
           f == [c \in Objs |-> IF c \notin cs THEN h.obj[c] ELSE off(c)]
           j == [h EXCEPT !.econn = n]
           k == [j EXCEPT !.events = s]
<1>1. HungUp(h, cs) = [k EXCEPT !.obj = f]
  BY DEF HungUp
<1>2. Cardinality(cs) \in Nat
  <2>1. IsFiniteSet(Members)
    BY FS_Interval DEF Members
  <2> QED BY <2>1, FS_Subset, FS_CardinalityType
<1>3. n \in Int
  BY <1>2, HeapFields
<1>4. s \in Seq(EventKinds) /\ \A r \in Results : Times(s, r) = Times(h.events, r)
  <2>1. AboutObject \in EventKinds /\ h.events \in Seq(EventKinds)
    BY HeapFields DEF EventKinds
  <2>2. \A r \in Results : Is(AboutObject, r) = 0
    BY DEF Is, Results, AboutObject
  <2>3. \A r \in Results : Times(h.events, r) \in Nat
    BY HeapFields
  <2> QED BY <2>1, <2>2, <2>3, TimesAppend
<1>5. ASSUME NEW c \in Objs
      PROVE  /\ f[c] \in ObjectRec
             /\ f[c].res = h.obj[c].res /\ f[c].st = h.obj[c].st /\ f[c].dead = h.obj[c].dead
             /\ InUse(h) /\ c \in Conns /\ f[c].connected => "fd" \in f[c].src
  <2>1. h.obj[c] \in ObjectRec /\ h.obj[c].count \in 0 .. Wrap - 1
    BY HeapFields DEF ObjectRec
  <2>2. up(c) \in 0 .. Wrap - 1
    <3>1. h.obj[c].count + 1 \in Int
      BY <2>1
    <3> QED BY <2>1, <3>1, Division DEF Plus1
  <2> HIDE DEF up
  <2>3. /\ off(c) \in ObjectRec /\ off(c).res = h.obj[c].res /\ off(c).st = h.obj[c].st
        /\ off(c).dead = h.obj[c].dead /\ off(c).connected = FALSE
    <3> DEFINE p == [h.obj[c] EXCEPT !.src = h.obj[c].src \ {"fd"}]
               q == [p EXCEPT !.connected = FALSE]
    <3>1. off(c) = [q EXCEPT !.count = up(c)]
      OBVIOUS
    <3>2. p \in ObjectRec /\ p.res = h.obj[c].res /\ p.st = h.obj[c].st /\ p.dead = h.obj[c].dead
      BY <2>1 DEF ObjectRec
    <3> HIDE DEF p
    <3>3. /\ q \in ObjectRec /\ q.res = h.obj[c].res /\ q.st = h.obj[c].st /\ q.dead = h.obj[c].dead
          /\ q.connected = FALSE
      BY <3>2 DEF ObjectRec
    <3> HIDE DEF q, off
    <3> QED BY <2>2, <3>1, <3>3 DEF ObjectRec
  <2> HIDE DEF off
  <2>4. f[c] = h.obj[c] \/ f[c] = off(c)
    OBVIOUS
  <2> HIDE DEF f
  <2> QED BY <2>1, <2>3, <2>4 DEF InUse
<1> HIDE DEF n, s, off
<1>6. j \in HeapRec /\ j.obj = h.obj /\ j.res = h.res
  BY <1>3, HeapParts
<1> HIDE DEF j
<1>7. k \in HeapRec /\ k.obj = h.obj /\ k.res = h.res /\ k.events = s
  BY <1>4, <1>6, HeapParts
<1> HIDE DEF k
<1>8. Sound(h, k)
  BY <1>4, <1>7 DEF Sound, Same, InUse
<1>9. f \in [Objs -> ObjectRec]
  BY <1>5
<1> HIDE DEF f
<1>10. Sound(k, [k EXCEPT !.obj = f])
  <2>1. InUse(k) => InUse(h)
    BY <1>7 DEF InUse
  <2> QED BY <1>5, <1>7, <1>9, <2>1, SoundObjects
<1> QED BY <1>1, <1>8, <1>10, SoundTwice

\* What is done after a disconnect, a timeout or a failure.
LEMMA SoundNext == ASSUME NEW h \in HeapRec, NEW c \in Objs PROVE Sound(h, Next_(h, c))
  BY SoundField DEF Next_

LEMMA SoundRetry ==
  ASSUME NEW h \in HeapRec, NEW c \in Objs, NEW g \in AndRetry(h, c) PROVE Sound(h, g)
<1>1. ASSUME NEW timer \in RetryTimers
      PROVE  Sound(h, [h EXCEPT !.obj[c].src = @ \cup {timer}])
  <2>1. h.obj[c] \in ObjectRec
    BY HeapFields
  <2>2. h.obj[c].src \cup {timer} \in SUBSET SourceKinds
    BY <2>1 DEF ObjectRec, SourceKinds
  <2> QED BY <2>2, SoundField
<1> QED BY <1>1, SoundStill DEF AndRetry

LEMMA SoundDown ==
  ASSUME NEW h \in HeapRec, NEW c \in Objs
  PROVE  /\ \A g \in Down(h, c) : Sound(h, g)
         /\ \A g \in AfterFailure(h, c) : Sound(h, g)
<1>1. Sound(h, Told(h, c))
  BY SoundTold
<1>2. Sound(Told(h, c), Disconnected(Told(h, c), c))
  BY <1>1, SoundDisconnected DEF Sound
<1>3. Sound(h, Disconnected(Told(h, c), c)) /\ Disconnected(Told(h, c), c) \in HeapRec
  BY <1>1, <1>2, SoundTwice DEF Sound
<1>4. ASSUME NEW g \in Down(h, c) PROVE Sound(h, g)
  <2>1. Sound(Disconnected(Told(h, c), c), g)
    BY <1>3, <1>4, SoundRetry DEF Down
  <2> QED BY <1>3, <2>1, SoundTwice
<1> QED BY <1>4, SoundNext DEF AfterFailure

----------------------------------------------------------------------------
(* The references of a result *)

\* The reference of the callback or event handler that is running.
Owns(q, r) == IF q.at # "loop" /\ q.what = r THEN 1 ELSE 0

\* In a heap, with what the program holds and what is running: a result lives
\* as long as somebody refers to it, and nobody holds or queues an error.
Balanced(h, hold, q) ==
  \A r \in Results :
    /\ h.res[r].refs = hold[r] + Times(h.events, r) + Owns(q, r)
    /\ h.res[r].st = "live" <=> h.res[r].refs > 0
    /\ h.res[r].error => hold[r] = 0 /\ Times(h.events, r) = 0

\* e->res is the result of the callback that is running, or nothing.
Forgotten(h, q) ==
  /\ h.obj[0].res # None => q.at \in {"answered", "failed"} /\ q.what = h.obj[0].res
  /\ \A c \in Members : h.obj[c].res = None
  /\ q.at \in {"answered", "failed"} => q.what \in Results
  /\ q.at = "failed" => h.res[q.what].error
  /\ q.at \in {"ready", "refused"} => q.what \notin Results

Counts(h, hold, q) == Balanced(h, hold, q) /\ Forgotten(h, q)

LEMMA CountsSame ==
  ASSUME NEW h, NEW g, NEW hold, NEW q, Same(h, g), Counts(h, hold, q)
  PROVE  Counts(g, hold, q)
<1>1. 0 \in Objs /\ Members \subseteq Objs
  BY DEF Objs, Members
<1> QED BY <1>1 DEF Same, Counts, Balanced, Forgotten

\* A callback about the object is called, or returns.
LEMMA CountsCalled ==
  ASSUME NEW h \in HeapRec, NEW hold, NEW q, NEW p, Counts(h, hold, q),
         q.at # "loop" => q.what \notin Results, p.at # "loop" => p.what \notin Results,
         p.at \notin {"answered", "failed"}
  PROVE  Counts(h, hold, p)
<1>1. \A r \in Results : Owns(p, r) = 0 /\ Owns(q, r) = 0
  BY DEF Owns
<1>2. Balanced(h, hold, p)
  BY <1>1 DEF Counts, Balanced
<1>3. h.obj[0].res = None
  <2>1. h.obj[0].res \in Results \cup {None}
    BY HeapFields DEF ObjectRec
  <2> QED BY <2>1 DEF Counts, Forgotten
<1> QED BY <1>2, <1>3 DEF Counts, Forgotten

\* A result is another.
LEMMA ResParts ==
  ASSUME NEW h \in HeapRec, NEW r \in Results, NEW x \in ResultRec
  PROVE  LET g == [h EXCEPT !.res[r] = x]
         IN /\ g \in HeapRec /\ g.obj = h.obj /\ g.econn = h.econn /\ g.events = h.events
            /\ g.res[r] = x /\ \A s \in Results \ {r} : g.res[s] = h.res[s]
            /\ InUse(h) => InUse(g)
<1> DEFINE f == [h.res EXCEPT ![r] = x]
           g == [h EXCEPT !.res = f]
<1>1. f \in [Results -> ResultRec] /\ f[r] = x /\ \A s \in Results \ {r} : f[s] = h.res[s]
  BY HeapFields
<1>2. [h EXCEPT !.res[r] = x] = g
  OBVIOUS
<1> HIDE DEF f
<1>3. g \in HeapRec /\ g.obj = h.obj /\ g.econn = h.econn /\ g.events = h.events /\ g.res = f
  BY <1>1, HeapParts
<1> HIDE DEF g
<1>4. InUse(h) => InUse(g)
  BY <1>3 DEF InUse
<1> QED BY <1>1, <1>2, <1>3, <1>4

\* The object has another result, or none.
LEMMA ResSet ==
  ASSUME NEW h \in HeapRec, NEW c \in Objs, NEW x \in Results \cup {None}
  PROVE  LET g == [h EXCEPT !.obj[c].res = x]
         IN /\ g \in HeapRec /\ g.events = h.events /\ g.res = h.res
            /\ g.obj[c].res = x /\ \A b \in Objs \ {c} : g.obj[b].res = h.obj[b].res
            /\ InUse(h) => InUse(g)
<1> DEFINE o == [h.obj[c] EXCEPT !.res = x]
           f == [h.obj EXCEPT ![c] = o]
           g == [h EXCEPT !.obj = f]
<1>1. h.obj \in [Objs -> ObjectRec] /\ h.obj[c] \in ObjectRec
  BY HeapFields
<1>2. /\ o \in ObjectRec /\ o.res = x /\ o.st = h.obj[c].st /\ o.dead = h.obj[c].dead
      /\ o.connected = h.obj[c].connected /\ o.src = h.obj[c].src
  BY <1>1 DEF ObjectRec
<1>3. [h EXCEPT !.obj[c].res = x] = g
  BY <1>1
<1> HIDE DEF o
<1>4. f \in [Objs -> ObjectRec] /\ f[c] = o /\ \A b \in Objs \ {c} : f[b] = h.obj[b]
  BY <1>1, <1>2
<1> HIDE DEF f
<1>5. g \in HeapRec /\ g.obj = f /\ g.events = h.events /\ g.res = h.res
  BY <1>4, HeapParts
<1> HIDE DEF g
<1>6. InUse(h) => InUse(g)
  <2>1. \A b \in Objs : /\ g.obj[b].st = h.obj[b].st /\ g.obj[b].dead = h.obj[b].dead
                        /\ g.obj[b].connected = h.obj[b].connected /\ g.obj[b].src = h.obj[b].src
    BY <1>2, <1>4, <1>5
  <2> QED BY <2>1, HeapFields DEF InUse
<1> QED BY <1>2, <1>3, <1>4, <1>5, <1>6

\* esql_res_unref.
LEMMA UnreffedParts ==
  ASSUME NEW h \in HeapRec, NEW r \in Results
  PROVE  LET g == Unreffed(h, r)
         IN /\ g \in HeapRec /\ g.events = h.events /\ (InUse(h) => InUse(g))
            /\ \A s \in Results \ {r} : g.res[s] = h.res[s]
            /\ g.res[r].error = h.res[r].error
            /\ g.res[r].refs = h.res[r].refs - 1
            /\ h.res[r].refs # 1 => g.res[r].st = h.res[r].st
            /\ h.res[r].refs = 1 => g.res[r].st = "freed" /\ g.obj[0].res # r
            /\ \A c \in Members : g.obj[c].res = h.obj[c].res
            /\ g.obj[0].res \in {h.obj[0].res, None}
<1>1. h.res[r] \in ResultRec /\ h.res[r].refs \in Int /\ h.res \in [Results -> ResultRec]
  BY HeapFields DEF ResultRec
<1>2. CASE h.res[r].refs # 1
  <2> DEFINE x == [h.res[r] EXCEPT !.refs = @ - 1]
             g == [h EXCEPT !.res[r] = x]
  <2>1. /\ x \in ResultRec /\ x.refs = h.res[r].refs - 1 /\ x.st = h.res[r].st
        /\ x.error = h.res[r].error
    BY <1>1 DEF ResultRec
  <2>2. Unreffed(h, r) = g
    BY <1>1, <1>2 DEF Unreffed
  <2> HIDE DEF x
  <2>3. /\ g \in HeapRec /\ g.obj = h.obj /\ g.events = h.events /\ g.res[r] = x
        /\ \A s \in Results \ {r} : g.res[s] = h.res[s]
        /\ InUse(h) => InUse(g)
    BY <2>1, ResParts
  <2> HIDE DEF g
  <2> QED BY <1>2, <2>1, <2>2, <2>3
<1>3. CASE h.res[r].refs = 1
  <2> DEFINE y == [h.res[r] EXCEPT !.refs = 0]
             x == [y EXCEPT !.st = "freed"]
             g == [h EXCEPT !.res[r] = x]
             left == IF g.obj[0].res = r THEN None ELSE g.obj[0].res
             k == [g EXCEPT !.obj[0].res = left]
  <2>1. y \in ResultRec /\ y.refs = 0 /\ y.error = h.res[r].error
    BY <1>1 DEF ResultRec
  <2>2. Unreffed(h, r) = k
    <3>1. g = [h EXCEPT !.res[r].refs = 0, !.res[r].st = "freed"]
      BY <1>1
    <3> HIDE DEF g
    <3> QED BY <1>3, <3>1 DEF Unreffed
  <2> HIDE DEF y
  <2>3. x \in ResultRec /\ x.refs = 0 /\ x.error = h.res[r].error /\ x.st = "freed"
    BY <2>1 DEF ResultRec
  <2> HIDE DEF x
  <2>4. /\ g \in HeapRec /\ g.obj = h.obj /\ g.events = h.events /\ g.res[r] = x
        /\ \A s \in Results \ {r} : g.res[s] = h.res[s]
        /\ InUse(h) => InUse(g)
    BY <2>3, ResParts
  <2> HIDE DEF g
  <2>5. /\ left \in Results \cup {None} /\ left \in {h.obj[0].res, None} /\ left # r
    <3>1. g.obj[0].res \in Results \cup {None} /\ None \notin Results
      BY <2>4, HeapFields DEF ObjectRec, Results, None
    <3> QED BY <2>4, <3>1
  <2> HIDE DEF left
  <2>6. /\ k \in HeapRec /\ k.events = g.events /\ k.res = g.res
        /\ k.obj[0].res = left /\ \A b \in Objs \ {0} : k.obj[b].res = g.obj[b].res
        /\ InUse(g) => InUse(k)
    BY <2>4, <2>5, ResSet, HeapFields
  <2> HIDE DEF k
  <2>7. \A c \in Members : k.obj[c].res = h.obj[c].res
    <3>1. Members \subseteq Objs \ {0}
      BY DEF Members, Objs
    <3> QED BY <2>4, <2>6, <3>1
  <2> QED BY <1>3, <2>2, <2>3, <2>4, <2>5, <2>6, <2>7
<1> QED BY <1>2, <1>3

\* The program gives a reference back.
LEMMA CountsReleased ==
  ASSUME NEW h \in HeapRec, NEW hold \in [Results -> Nat], NEW q, NEW r \in Results,
         Counts(h, hold, q), hold[r] > 0
  PROVE  Counts(Unreffed(h, r), [hold EXCEPT ![r] = @ - 1], q)
<1> DEFINE g == Unreffed(h, r)
           less == [hold EXCEPT ![r] = @ - 1]
<1>1. /\ g \in HeapRec /\ g.events = h.events
      /\ \A s \in Results \ {r} : g.res[s] = h.res[s]
      /\ g.res[r].error = h.res[r].error
      /\ g.res[r].refs = h.res[r].refs - 1
      /\ h.res[r].refs # 1 => g.res[r].st = h.res[r].st
      /\ h.res[r].refs = 1 => g.res[r].st = "freed"
      /\ \A c \in Members : g.obj[c].res = h.obj[c].res
      /\ g.obj[0].res \in {h.obj[0].res, None}
  BY UnreffedParts
<1> HIDE DEF g
<1>2. less[r] = hold[r] - 1 /\ \A s \in Results \ {r} : less[s] = hold[s]
  OBVIOUS
<1> HIDE DEF less
<1>3. Owns(q, r) \in {0, 1} /\ Times(h.events, r) \in Nat /\ hold[r] \in Nat
  BY HeapFields DEF Owns
<1>4. ~h.res[r].error
  BY DEF Counts, Balanced
<1>5. ASSUME NEW s \in Results
      PROVE  /\ g.res[s].refs = less[s] + Times(g.events, s) + Owns(q, s)
             /\ g.res[s].st = "live" <=> g.res[s].refs > 0
             /\ g.res[s].error => less[s] = 0 /\ Times(g.events, s) = 0
  <2>1. CASE s = r
    <3>1. h.res[r].refs = hold[r] + Times(h.events, r) + Owns(q, r) /\ h.res[r].st = "live"
      BY <1>3 DEF Counts, Balanced
    <3>2. g.res[r].refs = less[r] + Times(g.events, r) + Owns(q, r)
      BY <1>1, <1>2, <1>3, <3>1
    <3>3. g.res[r].refs > 0 <=> h.res[r].refs # 1
      <4>1. h.res[r].refs \in Nat /\ h.res[r].refs >= 1
        BY <1>3, <3>1
      <4> QED BY <1>1, <4>1
    <3>4. g.res[r].st = "live" <=> g.res[r].refs > 0
      BY <1>1, <3>1, <3>3
    <3> QED BY <1>1, <1>4, <2>1, <3>2, <3>4
  <2>2. CASE s # r
    BY <1>1, <1>2, <2>2 DEF Counts, Balanced
  <2> QED BY <2>1, <2>2
<1>6. Balanced(g, less, q)
  BY <1>5 DEF Balanced
<1>7. Forgotten(g, q)
  BY <1>1 DEF Counts, Forgotten
<1> QED BY <1>6, <1>7 DEF Counts, g, less

\* A callback or event handler has returned, and its reference is given back.
LEMMA CountsReturned ==
  ASSUME NEW h \in HeapRec, NEW hold \in [Results -> Nat], NEW q, NEW r \in Results,
         Counts(h, hold, q), q.at # "loop", q.what = r
  PROVE  /\ Balanced(Unreffed(h, r), hold, Loop)
         /\ \A c \in Members : Unreffed(h, r).obj[c].res = None
         /\ q.at # "answered" => Counts(Unreffed(h, r), hold, Loop)
<1> DEFINE g == Unreffed(h, r)
<1>1. /\ g \in HeapRec /\ g.events = h.events
      /\ \A s \in Results \ {r} : g.res[s] = h.res[s]
      /\ g.res[r].error = h.res[r].error
      /\ g.res[r].refs = h.res[r].refs - 1
      /\ h.res[r].refs # 1 => g.res[r].st = h.res[r].st
      /\ h.res[r].refs = 1 => g.res[r].st = "freed" /\ g.obj[0].res # r
      /\ \A c \in Members : g.obj[c].res = h.obj[c].res
      /\ g.obj[0].res \in {h.obj[0].res, None}
  BY UnreffedParts
<1> HIDE DEF g
<1>2. Owns(q, r) = 1 /\ \A s \in Results \ {r} : Owns(q, s) = 0
  BY DEF Owns
<1>3. \A s \in Results : Owns(Loop, s) = 0 /\ Times(h.events, s) \in Nat /\ hold[s] \in Nat
  BY HeapFields DEF Owns, Loop
<1>4. ASSUME NEW s \in Results
      PROVE  /\ g.res[s].refs = hold[s] + Times(g.events, s) + Owns(Loop, s)
             /\ g.res[s].st = "live" <=> g.res[s].refs > 0
             /\ g.res[s].error => hold[s] = 0 /\ Times(g.events, s) = 0
  <2>1. CASE s = r
    <3>1. /\ h.res[r].refs = hold[r] + Times(h.events, r) + 1 /\ h.res[r].st = "live"
          /\ h.res[r].error => hold[r] = 0 /\ Times(h.events, r) = 0
      BY <1>2, <1>3 DEF Counts, Balanced
    <3>2. g.res[r].refs = hold[r] + Times(g.events, r) + Owns(Loop, r)
      BY <1>1, <1>3, <3>1
    <3>3. g.res[r].st = "live" <=> g.res[r].refs > 0
      BY <1>1, <1>3, <3>1
    <3>4. g.res[r].error => hold[r] = 0 /\ Times(g.events, r) = 0
      BY <1>1, <3>1
    <3> QED BY <2>1, <3>2, <3>3, <3>4
  <2>2. CASE s # r
    BY <1>1, <1>2, <1>3, <2>2 DEF Counts, Balanced
  <2> QED BY <2>1, <2>2
<1>5. Balanced(g, hold, Loop)
  BY <1>4 DEF Balanced
<1>6. \A c \in Members : g.obj[c].res = None
  BY <1>1 DEF Counts, Forgotten
<1>7. ASSUME q.at # "answered" PROVE g.obj[0].res = None
  <2>1. CASE q.at = "failed"
    <3>1. h.res[r].error
      BY <2>1 DEF Counts, Forgotten
    <3>2. h.res[r].refs = 1
      BY <1>2, <1>3, <3>1 DEF Counts, Balanced
    <3>3. h.obj[0].res \in {r, None}
      BY DEF Counts, Forgotten
    <3> QED BY <1>1, <3>2, <3>3
  <2>2. CASE q.at # "failed"
    BY <1>1, <1>7, <2>2 DEF Counts, Forgotten
  <2> QED BY <2>1, <2>2
<1>8. q.at # "answered" => Forgotten(g, Loop)
  BY <1>6, <1>7 DEF Forgotten, Loop
<1> QED BY <1>5, <1>6, <1>8 DEF Counts, g

\* esql_res_ref.
LEMMA CountsReffed ==
  ASSUME NEW h \in HeapRec, NEW hold \in [Results -> Nat], NEW q, NEW r \in Results,
         Counts(h, hold, q), h.res[r].st = "live"
  PROVE  /\ Reffed(h, r) \in HeapRec /\ (InUse(h) => InUse(Reffed(h, r)))
         /\ ~h.res[r].error => Counts(Reffed(h, r), [hold EXCEPT ![r] = @ + 1], q)
<1> DEFINE x == [h.res[r] EXCEPT !.refs = @ + 1]
           g == [h EXCEPT !.res[r] = x]
           more == [hold EXCEPT ![r] = @ + 1]
<1>1. h.res[r] \in ResultRec /\ h.res[r].refs \in Int /\ h.res \in [Results -> ResultRec]
  BY HeapFields DEF ResultRec
<1>2. /\ x \in ResultRec /\ x.refs = h.res[r].refs + 1 /\ x.st = h.res[r].st
      /\ x.error = h.res[r].error
  BY <1>1 DEF ResultRec
<1>3. Reffed(h, r) = g
  BY <1>1 DEF Reffed
<1> HIDE DEF x
<1>4. /\ g \in HeapRec /\ g.obj = h.obj /\ g.events = h.events /\ g.res[r] = x
      /\ \A s \in Results \ {r} : g.res[s] = h.res[s]
      /\ InUse(h) => InUse(g)
  BY <1>2, ResParts
<1> HIDE DEF g
<1>5. more[r] = hold[r] + 1 /\ hold[r] \in Nat /\ \A s \in Results \ {r} : more[s] = hold[s]
  OBVIOUS
<1> HIDE DEF more
<1>6. Owns(q, r) \in {0, 1} /\ Times(h.events, r) \in Nat
  BY HeapFields DEF Owns
<1>7. ASSUME ~h.res[r].error PROVE Counts(g, more, q)
  <2>1. ASSUME NEW s \in Results
        PROVE  /\ g.res[s].refs = more[s] + Times(g.events, s) + Owns(q, s)
               /\ g.res[s].st = "live" <=> g.res[s].refs > 0
               /\ g.res[s].error => more[s] = 0 /\ Times(g.events, s) = 0
    <3>1. CASE s = r
      <4>1. h.res[r].refs = hold[r] + Times(h.events, r) + Owns(q, r) /\ h.res[r].refs > 0
        BY DEF Counts, Balanced
      <4> QED BY <1>2, <1>4, <1>5, <1>6, <1>7, <3>1, <4>1
    <3>2. CASE s # r
      BY <1>4, <1>5, <3>2 DEF Counts, Balanced
    <3> QED BY <3>1, <3>2
  <2>2. Balanced(g, more, q)
    BY <2>1 DEF Balanced
  <2>3. \A s \in Results : g.res[s].error = h.res[s].error
    BY <1>2, <1>4
  <2>4. Forgotten(g, q)
    BY <1>4, <2>3 DEF Counts, Forgotten
  <2> QED BY <2>2, <2>4 DEF Counts
<1> QED BY <1>3, <1>4, <1>7 DEF more

\* esql_res_calloc.
LEMMA MadeParts ==
  ASSUME NEW h \in HeapRec, NEW r \in Results, NEW error \in BOOLEAN
  PROVE  LET g == Made(h, r, error)
         IN /\ g \in HeapRec /\ g.events = h.events /\ (InUse(h) => InUse(g))
            /\ g.res[r] = [st |-> "live", refs |-> 1, error |-> error]
            /\ \A s \in Results \ {r} : g.res[s] = h.res[s]
            /\ \A c \in Members : g.obj[c].res = h.obj[c].res
            /\ g.obj[0].res = r
<1> DEFINE x == [st |-> "live", refs |-> 1, error |-> error]
           k == [h EXCEPT !.res[r] = x]
           g == [k EXCEPT !.obj[0].res = r]
<1>1. x \in ResultRec
  BY DEF ResultRec
<1>2. Made(h, r, error) = g
  BY DEF Made
<1> HIDE DEF x
<1>3. /\ k \in HeapRec /\ k.obj = h.obj /\ k.events = h.events /\ k.res[r] = x
      /\ \A s \in Results \ {r} : k.res[s] = h.res[s]
      /\ InUse(h) => InUse(k)
  BY <1>1, ResParts
<1> HIDE DEF k
<1>4. /\ g \in HeapRec /\ g.events = k.events /\ g.res = k.res
      /\ g.obj[0].res = r /\ \A b \in Objs \ {0} : g.obj[b].res = k.obj[b].res
      /\ InUse(k) => InUse(g)
  BY <1>3, ResSet, HeapFields
<1> HIDE DEF g
<1>5. Members \subseteq Objs \ {0}
  BY DEF Members, Objs
<1> QED BY <1>2, <1>3, <1>4, <1>5 DEF x

\* A result is made for a callback.
LEMMA BalancedMade ==
  ASSUME NEW h \in HeapRec, NEW hold \in [Results -> Nat], NEW r \in Results,
         Counts(h, hold, Loop), h.res[r].st # "live",
         NEW q, q.at \in {"answered", "failed"}, q.what = r,
         NEW g, g.events = h.events, g.res[r].st = "live", g.res[r].refs = 1,
         \A s \in Results \ {r} : g.res[s] = h.res[s]
  PROVE  Balanced(g, hold, q)
<1>3. \A s \in Results : /\ Owns(Loop, s) = 0 /\ Times(h.events, s) \in Nat /\ hold[s] \in Nat
                         /\ Owns(q, s) = IF s = r THEN 1 ELSE 0
  BY HeapFields DEF Owns, Loop
<1>4. hold[r] = 0 /\ Times(h.events, r) = 0
  <2>1. /\ h.res[r].refs = hold[r] + Times(h.events, r) + Owns(Loop, r)
        /\ ~(h.res[r].refs > 0)
    BY DEF Counts, Balanced
  <2> QED BY <1>3, <2>1
<1>5. ASSUME NEW s \in Results
      PROVE  /\ g.res[s].refs = hold[s] + Times(g.events, s) + Owns(q, s)
             /\ g.res[s].st = "live" <=> g.res[s].refs > 0
             /\ g.res[s].error => hold[s] = 0 /\ Times(g.events, s) = 0
  <2>1. CASE s = r
    BY <1>3, <1>4, <2>1
  <2>2. CASE s # r
    BY <1>3, <2>2 DEF Counts, Balanced
  <2> QED BY <2>1, <2>2
<1> QED BY <1>5 DEF Balanced

LEMMA CountsFailed ==
  ASSUME NEW h \in HeapRec, NEW hold \in [Results -> Nat], NEW r \in Results,
         Counts(h, hold, Loop), h.res[r].st # "live", NEW q, q.at = "failed", q.what = r
  PROVE  Counts(Made(h, r, TRUE), hold, q)
<1>1. PICK error \in BOOLEAN : error = TRUE
  OBVIOUS
<1> DEFINE g == Made(h, r, error)
<1>2. Made(h, r, TRUE) = g
  BY <1>1, Zenon
<1>3. /\ g \in HeapRec /\ g.events = h.events
      /\ g.res[r] = [st |-> "live", refs |-> 1, error |-> error]
      /\ \A s \in Results \ {r} : g.res[s] = h.res[s]
      /\ \A c \in Members : g.obj[c].res = h.obj[c].res
      /\ g.obj[0].res = r
  BY MadeParts
<1> HIDE DEF g
<1>4. g.res[r].st = "live" /\ g.res[r].refs = 1 /\ g.res[r].error = error
  BY <1>3
<1>5. q.at \in {"answered", "failed"}
  OBVIOUS
<1>6. Balanced(g, hold, q)
  BY <1>3, <1>4, <1>5, BalancedMade
<1>7. Forgotten(g, q)
  BY <1>1, <1>3, <1>4 DEF Counts, Forgotten
<1> QED BY <1>2, <1>6, <1>7 DEF Counts

LEMMA CountsAnswered ==
  ASSUME NEW h \in HeapRec, NEW hold \in [Results -> Nat], NEW r \in Results,
         Counts(h, hold, Loop), h.res[r].st # "live", NEW q, q.at = "answered", q.what = r
  PROVE  Counts(Made(h, r, FALSE), hold, q)
<1>1. PICK error \in BOOLEAN : error = FALSE
  OBVIOUS
<1> DEFINE g == Made(h, r, error)
<1>2. Made(h, r, FALSE) = g
  BY <1>1, Zenon
<1>3. /\ g \in HeapRec /\ g.events = h.events
      /\ g.res[r] = [st |-> "live", refs |-> 1, error |-> error]
      /\ \A s \in Results \ {r} : g.res[s] = h.res[s]
      /\ \A c \in Members : g.obj[c].res = h.obj[c].res
      /\ g.obj[0].res = r
  BY MadeParts
<1> HIDE DEF g
<1>4. g.res[r].st = "live" /\ g.res[r].refs = 1 /\ g.res[r].error = error
  BY <1>3
<1>5. q.at \in {"answered", "failed"}
  OBVIOUS
<1>6. Balanced(g, hold, q)
  BY <1>3, <1>4, <1>5, BalancedMade
<1>7. Forgotten(g, q)
  BY <1>1, <1>3, <1>4 DEF Counts, Forgotten
<1> QED BY <1>2, <1>6, <1>7 DEF Counts

\* The object forgets its result.
Cleared(h, c) == [h EXCEPT !.obj[0].res = None, !.obj[c].res = None]

LEMMA ClearedParts ==
  ASSUME NEW h \in HeapRec, NEW c \in Objs
  PROVE  LET g == Cleared(h, c)
         IN /\ g \in HeapRec /\ g.events = h.events /\ g.res = h.res /\ (InUse(h) => InUse(g))
            /\ g.obj[0].res = None
            /\ \A b \in Members : g.obj[b].res \in {h.obj[b].res, None}
<1> DEFINE k == [h EXCEPT !.obj[0].res = None]
           g == [k EXCEPT !.obj[c].res = None]
<1>1. Cleared(h, c) = g
  BY DEF Cleared
<1>2. None \in Results \cup {None} /\ 0 \in Objs /\ Members \subseteq Objs
  BY DEF Objs, Members
<1>3. /\ k \in HeapRec /\ k.events = h.events /\ k.res = h.res
      /\ k.obj[0].res = None /\ \A b \in Objs \ {0} : k.obj[b].res = h.obj[b].res
      /\ InUse(h) => InUse(k)
  BY <1>2, ResSet
<1> HIDE DEF k
<1>4. /\ g \in HeapRec /\ g.events = k.events /\ g.res = k.res
      /\ g.obj[c].res = None /\ \A b \in Objs \ {c} : g.obj[b].res = k.obj[b].res
      /\ InUse(k) => InUse(g)
  BY <1>2, <1>3, ResSet
<1> HIDE DEF g
<1>5. \A b \in Objs : g.obj[b].res \in {k.obj[b].res, None} /\ k.obj[b].res \in {h.obj[b].res, None}
  BY <1>3, <1>4
<1> QED BY <1>1, <1>2, <1>3, <1>4, <1>5

LEMMA CountsCleared ==
  ASSUME NEW h \in HeapRec, NEW c \in Objs, NEW hold, Balanced(h, hold, Loop),
         \A b \in Members : h.obj[b].res = None
  PROVE  Counts(Cleared(h, c), hold, Loop)
<1> DEFINE g == Cleared(h, c)
<1>1. /\ g.events = h.events /\ g.res = h.res /\ g.obj[0].res = None
      /\ \A b \in Members : g.obj[b].res \in {h.obj[b].res, None}
  BY ClearedParts
<1> HIDE DEF g
<1>2. Balanced(g, hold, Loop)
  BY <1>1 DEF Balanced
<1>3. Forgotten(g, Loop)
  BY <1>1 DEF Forgotten, Loop
<1> QED BY <1>2, <1>3 DEF Counts, g

\* A result is given to a RESULT event.
LEMMA GivenParts ==
  ASSUME NEW h \in HeapRec, NEW c \in Objs, NEW r \in Results
  PROVE  LET g == Given(h, c, r)
         IN /\ g \in HeapRec /\ g.res = h.res /\ (InUse(h) => InUse(g))
            /\ \A s \in Results : Times(g.events, s) = Times(h.events, s) + Is(r, s)
            /\ g.obj[0].res = None
            /\ \A b \in Members : g.obj[b].res \in {h.obj[b].res, None}
<1> DEFINE n == Next_(h, c)
           t == Append(n.events, r)
           k == [n EXCEPT !.events = t]
           g == Cleared(k, c)
<1>1. Sound(h, n)
  BY SoundNext
<1>2. Given(h, c, r) = g
  BY DEF Given, Cleared
<1> HIDE DEF n
<1>3. n \in HeapRec /\ n.res = h.res /\ (InUse(h) => InUse(n)) /\ \A b \in Objs : n.obj[b].res = h.obj[b].res
  BY <1>1 DEF Sound, Same
<1>4. r \in EventKinds /\ n.events \in Seq(EventKinds)
  BY <1>3, HeapFields DEF EventKinds
<1>5. t \in Seq(EventKinds) /\ \A s \in Results : Times(t, s) = Times(h.events, s) + Is(r, s)
  <2>1. \A s \in Results : Times(n.events, s) = Times(h.events, s)
    BY <1>1 DEF Sound, Same
  <2> QED BY <1>4, <2>1, TimesAppend
<1> HIDE DEF t
<1>6. k \in HeapRec /\ k.obj = n.obj /\ k.events = t /\ k.res = n.res
  BY <1>3, <1>5, HeapParts
<1> HIDE DEF k
<1>7. InUse(n) => InUse(k)
  BY <1>6 DEF InUse
<1>8. /\ g \in HeapRec /\ g.events = k.events /\ g.res = k.res /\ (InUse(k) => InUse(g))
      /\ g.obj[0].res = None /\ \A b \in Members : g.obj[b].res \in {k.obj[b].res, None}
  BY <1>6, ClearedParts
<1> HIDE DEF g
<1>9. Members \subseteq Objs
  BY DEF Members, Objs
<1> QED BY <1>2, <1>3, <1>5, <1>6, <1>7, <1>8, <1>9

LEMMA CountsGiven ==
  ASSUME NEW h \in HeapRec, NEW c \in Objs, NEW hold \in [Results -> Nat], NEW r \in Results, NEW q,
         Counts(h, hold, q), q.at = "answered", q.what = r, ~h.res[r].error
  PROVE  Counts(Given(h, c, r), hold, Loop)
<1> DEFINE g == Given(h, c, r)
<1>1. /\ g.res = h.res /\ g.obj[0].res = None
      /\ \A s \in Results : Times(g.events, s) = Times(h.events, s) + Is(r, s)
      /\ \A b \in Members : g.obj[b].res \in {h.obj[b].res, None}
  BY GivenParts
<1> HIDE DEF g
<1>2. ASSUME NEW s \in Results
      PROVE  /\ g.res[s].refs = hold[s] + Times(g.events, s) + Owns(Loop, s)
             /\ g.res[s].st = "live" <=> g.res[s].refs > 0
             /\ g.res[s].error => hold[s] = 0 /\ Times(g.events, s) = 0
  <2>1. /\ Owns(Loop, s) = 0 /\ Times(h.events, s) \in Nat /\ hold[s] \in Nat
        /\ Owns(q, s) = Is(r, s) /\ Is(r, s) \in {0, 1}
    BY HeapFields DEF Owns, Loop, Is
  <2>2. /\ h.res[s].refs = hold[s] + Times(h.events, s) + Owns(q, s)
        /\ h.res[s].st = "live" <=> h.res[s].refs > 0
        /\ h.res[s].error => hold[s] = 0 /\ Times(h.events, s) = 0 /\ s # r
    BY DEF Counts, Balanced
  <2>3. s # r => Is(r, s) = 0
    BY DEF Is
  <2>4. g.res[s].error => hold[s] = 0 /\ Times(g.events, s) = 0
    BY <1>1, <2>1, <2>2, <2>3
  <2>5. g.res[s].refs = hold[s] + Times(g.events, s) + Owns(Loop, s)
    BY <1>1, <2>1, <2>2
  <2> QED BY <1>1, <2>2, <2>4, <2>5
<1>3. Balanced(g, hold, Loop)
  BY <1>2 DEF Balanced
<1>4. Forgotten(g, Loop)
  BY <1>1 DEF Counts, Forgotten, Loop
<1> QED BY <1>3, <1>4 DEF Counts, g

----------------------------------------------------------------------------
(* What freeing does to the heap *)

\* Another function of objects, with the same results.
LEMMA SameObjects ==
  ASSUME NEW h \in HeapRec, NEW f \in [Objs -> ObjectRec], \A c \in Objs : f[c].res = h.obj[c].res
  PROVE  LET g == [h EXCEPT !.obj = f] IN g \in HeapRec /\ Same(h, g) /\ g.obj = f /\ g.events = h.events
<1> DEFINE g == [h EXCEPT !.obj = f]
<1>1. g \in HeapRec /\ g.obj = f /\ g.events = h.events /\ g.res = h.res
  BY HeapParts
<1> HIDE DEF g
<1>2. Same(h, g)
  BY <1>1 DEF Same
<1> QED BY <1>1, <1>2 DEF g

LEMMA SameObject ==
  ASSUME NEW h \in HeapRec, NEW c \in Objs, NEW o \in ObjectRec, o.res = h.obj[c].res
  PROVE  LET g == [h EXCEPT !.obj[c] = o]
         IN /\ g \in HeapRec /\ Same(h, g) /\ g.events = h.events
            /\ g.obj[c] = o /\ \A b \in Objs \ {c} : g.obj[b] = h.obj[b]
<1> DEFINE f == [h.obj EXCEPT ![c] = o]
           g == [h EXCEPT !.obj = f]
<1>1. f \in [Objs -> ObjectRec] /\ f[c] = o /\ \A b \in Objs \ {c} : f[b] = h.obj[b]
  BY HeapFields
<1>2. [h EXCEPT !.obj[c] = o] = g
  OBVIOUS
<1> HIDE DEF f
<1>3. \A b \in Objs : f[b].res = h.obj[b].res
  BY <1>1
<1>4. g \in HeapRec /\ Same(h, g) /\ g.obj = f /\ g.events = h.events
  BY <1>1, <1>3, SameObjects
<1> HIDE DEF g
<1> QED BY <1>1, <1>2, <1>4

LEMMA SameTwice == ASSUME NEW h, NEW g, NEW k, Same(h, g), Same(g, k) PROVE Same(h, k)
  BY DEF Same

LEMMA SameDead ==
  ASSUME NEW h \in HeapRec, NEW c \in Objs
  PROVE  LET g == [h EXCEPT !.obj[c].dead = TRUE]
         IN /\ g \in HeapRec /\ Same(h, g) /\ g.events = h.events
            /\ g.obj[c] = [h.obj[c] EXCEPT !.dead = TRUE]
            /\ \A b \in Objs \ {c} : g.obj[b] = h.obj[b]
<1> DEFINE o == [h.obj[c] EXCEPT !.dead = TRUE]
<1>1. h.obj[c] \in ObjectRec /\ h.obj \in [Objs -> ObjectRec]
  BY HeapFields
<1>2. o \in ObjectRec /\ o.res = h.obj[c].res
  BY <1>1 DEF ObjectRec
<1>3. [h EXCEPT !.obj[c].dead = TRUE] = [h EXCEPT !.obj[c] = o]
  BY <1>1
<1> HIDE DEF o
<1>4. LET g == [h EXCEPT !.obj[c] = o]
      IN /\ g \in HeapRec /\ Same(h, g) /\ g.events = h.events
         /\ g.obj[c] = o /\ \A b \in Objs \ {c} : g.obj[b] = h.obj[b]
  BY <1>2, SameObject
<1> QED BY <1>3, <1>4 DEF o

LEMMA SameFreed ==
  ASSUME NEW h \in HeapRec, NEW c \in Objs
  PROVE  LET g == [h EXCEPT !.obj[c].st = "freed"]
         IN /\ g \in HeapRec /\ Same(h, g) /\ g.events = h.events
            /\ g.obj[c] = [h.obj[c] EXCEPT !.st = "freed"]
            /\ \A b \in Objs \ {c} : g.obj[b] = h.obj[b]
<1> DEFINE o == [h.obj[c] EXCEPT !.st = "freed"]
<1>1. h.obj[c] \in ObjectRec /\ h.obj \in [Objs -> ObjectRec]
  BY HeapFields
<1>2. o \in ObjectRec /\ o.res = h.obj[c].res
  BY <1>1 DEF ObjectRec
<1>3. [h EXCEPT !.obj[c].st = "freed"] = [h EXCEPT !.obj[c] = o]
  BY <1>1
<1> HIDE DEF o
<1>4. LET g == [h EXCEPT !.obj[c] = o]
      IN /\ g \in HeapRec /\ Same(h, g) /\ g.events = h.events
         /\ g.obj[c] = o /\ \A b \in Objs \ {c} : g.obj[b] = h.obj[b]
  BY <1>2, SameObject
<1> QED BY <1>3, <1>4 DEF o

LEMMA SameFreedConn ==
  ASSUME NEW h \in HeapRec, NEW c \in Objs
  PROVE  FreedConn(h, c) \in HeapRec /\ Same(h, FreedConn(h, c))
<1>1. CASE h.obj[c].count # 0
  BY <1>1, SameDead DEF FreedConn
<1>2. CASE h.obj[c].count = 0
  <2>1. PICK g : Sound(h, g) /\ FreedConn(h, c) = [g EXCEPT !.obj[c].st = "freed"]
    BY <1>2, SoundDisconnected, SoundStill DEF FreedConn
  <2>2. g \in HeapRec /\ Same(h, g)
    BY <2>1 DEF Sound
  <2> DEFINE k == [g EXCEPT !.obj[c].st = "freed"]
  <2>3. k \in HeapRec /\ Same(g, k)
    BY <2>2, SameFreed
  <2> HIDE DEF k
  <2>4. Same(h, k)
    BY <2>2, <2>3, SameTwice
  <2> QED BY <2>1, <2>3, <2>4 DEF k
<1> QED BY <1>1, <1>2

LEMMA SamePoolFreed ==
  ASSUME NEW h \in HeapRec PROVE PoolFreed(h) \in HeapRec /\ Same(h, PoolFreed(h)) 
<1> DEFINE idle == {c \in Members : h.obj[c].count = 0}
           up == {c \in idle : h.obj[c].connected}
           g == IF lib.up THEN HungUp(h, up) ELSE h
           f == [c \in Objs |-> IF c \in {0} \cup idle THEN [g.obj[c] EXCEPT !.st = "freed"]
                                ELSE [g.obj[c] EXCEPT !.dead = TRUE]]
<1>1. PoolFreed(h) = [g EXCEPT !.obj = f]
  BY DEF PoolFreed
<1>2. up \in SUBSET Members
  OBVIOUS
<1> HIDE DEF idle, up
<1>3. Sound(h, g)
  BY <1>2, SoundHungUp, SoundStill
<1> HIDE DEF g
<1>4. g \in HeapRec /\ Same(h, g)
  BY <1>3 DEF Sound
<1>5. ASSUME NEW o \in ObjectRec
      PROVE  /\ [o EXCEPT !.st = "freed"] \in ObjectRec /\ [o EXCEPT !.st = "freed"].res = o.res
             /\ [o EXCEPT !.dead = TRUE] \in ObjectRec /\ [o EXCEPT !.dead = TRUE].res = o.res
  BY DEF ObjectRec
<1>6. \A c \in Objs : f[c] \in ObjectRec /\ f[c].res = g.obj[c].res
  BY <1>4, <1>5, HeapFields
<1>7. f \in [Objs -> ObjectRec]
  BY <1>6
<1> HIDE DEF f
<1>8. [g EXCEPT !.obj = f] \in HeapRec /\ Same(g, [g EXCEPT !.obj = f])
  BY <1>4, <1>6, <1>7, SameObjects
<1> QED BY <1>1, <1>4, <1>8, SameTwice

LEMMA FreedParts == ASSUME NEW h \in HeapRec PROVE Freed(h) \in HeapRec /\ Same(h, Freed(h))
  BY SameFreedConn, SamePoolFreed, HeapFields DEF Freed

\* The end of an event about the object, with and without the object's being freed.
Uncounted(h) == [h EXCEPT !.obj[0].count = Minus1(@)]

LEMMA UncountedParts ==
  ASSUME NEW h \in HeapRec
  PROVE  /\ Sound(h, Uncounted(h)) /\ Uncounted(h).events = h.events
         /\ Uncounted(h).obj[0] = [h.obj[0] EXCEPT !.count = Minus1(@)]
         /\ \A c \in Objs \ {0} : Uncounted(h).obj[c] = h.obj[c]
<1> DEFINE o == [h.obj[0] EXCEPT !.count = Minus1(@)]
<1>1. h.obj \in [Objs -> ObjectRec] /\ h.obj[0] \in ObjectRec /\ 0 \in Objs
  BY HeapFields
<1>2. Minus1(h.obj[0].count) \in 0 .. Wrap - 1
  <2>1. h.obj[0].count + Wrap - 1 \in Int
    BY <1>1 DEF ObjectRec
  <2> QED BY <2>1, Division DEF Minus1
<1>3. /\ o \in ObjectRec /\ o.res = h.obj[0].res /\ o.st = h.obj[0].st /\ o.dead = h.obj[0].dead
      /\ o.connected = h.obj[0].connected /\ o.src = h.obj[0].src
  BY <1>1, <1>2 DEF ObjectRec
<1>4. Uncounted(h) = [h EXCEPT !.obj[0] = o]
  BY <1>1 DEF Uncounted
<1> HIDE DEF o
<1>5. Sound(h, [h EXCEPT !.obj[0] = o])
  BY <1>1, <1>3, SoundObject DEF InUse
<1>6. LET g == [h EXCEPT !.obj[0] = o]
      IN g.events = h.events /\ g.obj[0] = o /\ \A b \in Objs \ {0} : g.obj[b] = h.obj[b]
  BY <1>1, <1>3, SameObject
<1> QED BY <1>4, <1>5, <1>6 DEF o

LEMMA FakeFreedParts ==
  ASSUME NEW h \in HeapRec
  PROVE  /\ FakeFreed(h) \in HeapRec /\ Same(h, FakeFreed(h))
         /\ ~h.obj[0].dead => FakeFreed(h) = Uncounted(h)
<1> DEFINE g == Uncounted(h)
<1>1. g \in HeapRec /\ Same(h, g) /\ Sound(h, g)
  BY UncountedParts DEF Sound
<1>2. FakeFreed(h) = IF LastEvent(g.obj[0].count) /\ g.obj[0].dead
                     THEN Freed([g EXCEPT !.obj[0].count = 0]) ELSE g
  BY DEF FakeFreed, Uncounted
<1>3. g.obj[0].dead = h.obj[0].dead
  <2>1. h.obj[0] \in ObjectRec
    BY HeapFields
  <2> QED BY <2>1, UncountedParts DEF ObjectRec
<1> HIDE DEF g
<1>4. CASE LastEvent(g.obj[0].count)
  <2>1. [g EXCEPT !.obj[0].count = 0] = g
    <3>1. g.obj \in [Objs -> ObjectRec] /\ g.obj[0] \in ObjectRec /\ g.obj[0].count = 0
      BY <1>1, <1>4, HeapFields DEF LastEvent
    <3>2. [g.obj[0] EXCEPT !.count = 0] = g.obj[0]
      BY <3>1 DEF ObjectRec
    <3>3. [g.obj EXCEPT ![0] = [g.obj[0] EXCEPT !.count = 0]] = g.obj
      BY <3>1, <3>2
    <3> QED BY <1>1, <3>3 DEF HeapRec
  <2>2. Freed(g) \in HeapRec /\ Same(h, Freed(g))
    BY <1>1, FreedParts, SameTwice
  <2> QED BY <1>1, <1>2, <1>3, <2>1, <2>2 DEF g
<1>5. CASE ~LastEvent(g.obj[0].count)
  BY <1>1, <1>2, <1>5 DEF g
<1> QED BY <1>4, <1>5

----------------------------------------------------------------------------
(* The contract *)

TypeInv ==
  /\ TypeOK
  /\ run.at \in {"answered", "failed"} => run.what \in Results
  /\ run.at \in CallbackKinds => run.c \in Conns

\* Something lives that uses the library and the object.
Working ==
  \/ LiveResults # {}
  \/ run.at \in CallbackKinds
  \/ \E c \in Conns : heap.obj[c].src # {}

\* The program has freed its object: of a plain one the events that are left
\* are counted, of a pool there are none.
Left ==
  /\ kind = "plain" =>
       /\ Handling + Num(heap.events) < Wrap
       /\ heap.obj[0].st = "live" => heap.obj[0].dead
       /\ heap.obj[0].st # "live" => Handling + Num(heap.events) = 0
  /\ kind # "plain" => heap.events = <<>> /\ run.at = "loop"

Contract ==
  /\ Counts(heap, held, run)
  /\ handle => kind # "none" /\ InUse(heap)
  /\ Working => lib.up /\ handle
  /\ ~handle => Left /\ \A c \in Conns : ~heap.obj[c].connected
  /\ ~stale

Safe == TypeInv /\ (tidy => Contract)

LEMMA SafeTypes ==
  ASSUME Safe
  PROVE  /\ heap \in HeapRec /\ held \in [Results -> Nat] /\ run \in RunRec
         /\ lib \in LibRec /\ kind \in {"none", "plain", "pool"} /\ budget \in [BudgetKinds -> Nat]
         /\ handle \in BOOLEAN /\ tidy \in BOOLEAN /\ stale \in BOOLEAN
  BY DEF Safe, TypeInv, TypeOK

LEMMA Spent ==
  ASSUME Safe, NEW what \in BudgetKinds, Can(what), Spend(what)
  PROVE  budget' \in [BudgetKinds -> Nat]
<1>1. budget \in [BudgetKinds -> Nat] /\ budget[what] \in Nat /\ budget[what] > 0
  BY SafeTypes DEF Can
<1> QED BY <1>1 DEF Spend

\* A step of the program or the main loop that uses the object.
LEMMA Works ==
  ASSUME Safe, lib' = lib, kind' = kind, handle' = handle, stale' = stale,
         heap' \in HeapRec, InUse(heap) => InUse(heap'), held' \in [Results -> Nat],
         budget' \in [BudgetKinds -> Nat], tidy' \in BOOLEAN, tidy' => tidy,
         run' \in RunRec, run'.at \in {"answered", "failed"} => run'.what \in Results,
         run'.at \in CallbackKinds => run'.c \in Conns,
         tidy' => lib.up /\ handle /\ Counts(heap', held', run')
  PROVE  Safe'
<1>1. Conns' = Conns
  BY DEF Conns
<1>2. TypeInv'
  BY <1>1, SafeTypes DEF TypeInv, TypeOK
<1>3. ASSUME tidy' PROVE Contract'
  <2>1. InUse(heap)' /\ kind' # "none"
    <3>1. InUse(heap) /\ kind # "none"
      BY <1>3 DEF Safe, Contract
    <3> QED BY <1>1, <3>1 DEF InUse
  <2>2. Counts(heap, held, run)'
    BY <1>3 DEF Counts, Balanced, Forgotten, Owns
  <2> QED BY <1>3, <2>1, <2>2 DEF Contract, Safe
<1> QED BY <1>2, <1>3 DEF Safe

\* A step that touches no result.
LEMMA WorksQuietly ==
  ASSUME Safe, lib' = lib, kind' = kind, handle' = handle, stale' = stale, tidy' = tidy,
         held' = held, budget' \in [BudgetKinds -> Nat], Sound(heap, heap'),
         \/ run' = run
         \/ /\ tidy /\ run.at # "loop" => run.what \notin Results
            /\ \/ run' = Loop
               \/ \E why \in {"ready", "refused"} : \E c \in Conns : Callback(why, c, AboutObject),
         tidy => lib.up /\ handle
  PROVE  Safe'
<1>1. heap' \in HeapRec /\ Same(heap, heap') /\ (InUse(heap) => InUse(heap'))
  BY DEF Sound
<1>2. /\ run' \in RunRec
      /\ run'.at \in {"answered", "failed"} => run'.what \in Results
      /\ run'.at \in CallbackKinds => run'.c \in Conns
  <2>1. CASE run' = run
    BY <2>1 DEF Safe, TypeInv, TypeOK
  <2>2. CASE run' = Loop
    BY <2>2 DEF Loop, RunRec, CallbackKinds, Objs
  <2>3. ASSUME NEW why \in {"ready", "refused"}, NEW c \in Conns, Callback(why, c, AboutObject)
        PROVE  /\ run' \in RunRec
               /\ run'.at \in {"answered", "failed"} => run'.what \in Results
               /\ run'.at \in CallbackKinds => run'.c \in Conns
    <3>1. c \in Objs
      BY DEF Conns, Objs, Members
    <3> QED BY <2>3, <3>1 DEF Callback, RunRec, CallbackKinds
  <2> QED BY <2>1, <2>2, <2>3
<1>3. ASSUME tidy PROVE Counts(heap', held, run')
  <2>1. Counts(heap, held, run)
    BY <1>3 DEF Safe, Contract
  <2>2. Counts(heap', held, run)
    BY <1>1, <2>1, CountsSame
  <2>3. CASE run' = run
    BY <2>2, <2>3
  <2>4. CASE /\ tidy /\ run.at # "loop" => run.what \notin Results
             /\ \/ run' = Loop
                \/ \E why \in {"ready", "refused"} : \E c \in Conns : Callback(why, c, AboutObject)
    <3>1. AboutObject \notin Results
      BY DEF AboutObject, Results
    <3>2. run'.at \notin {"answered", "failed"} /\ (run'.at # "loop" => run'.what = AboutObject)
      BY <2>4 DEF Loop, Callback
    <3> QED BY <1>1, <1>3, <2>2, <2>4, <3>1, <3>2, CountsCalled, SafeTypes
  <2> QED BY <2>3, <2>4
<1>4. held' \in [Results -> Nat] /\ tidy' \in BOOLEAN /\ (tidy' => tidy)
  BY SafeTypes
<1>5. tidy' => lib.up /\ handle /\ Counts(heap', held', run')
  BY <1>3
<1> QED BY <1>1, <1>2, <1>4, <1>5, Works

\* What the object's being used means.
LEMMA InCharge ==
  ASSUME Safe, tidy, Working PROVE lib.up /\ handle
  BY DEF Safe, Contract

LEMMA SourceInCharge ==
  ASSUME Safe, NEW c \in Conns, heap.obj[c].src # {} PROVE tidy => lib.up /\ handle
  BY InCharge DEF Working

----------------------------------------------------------------------------
(* The program's calls *)

LEMMA SafeConnect == ASSUME Safe, Connect PROVE Safe'
<1> DEFINE f == [c \in Objs |-> IF c \in Conns THEN Dialled(heap.obj[c]) ELSE heap.obj[c]]
<1>1. heap' = [heap EXCEPT !.obj = f]
  BY DEF Connect
<1>2. ASSUME NEW o \in ObjectRec
      PROVE  /\ Dialled(o) \in ObjectRec /\ Dialled(o).res = o.res
             /\ Dialled(o).st = o.st /\ Dialled(o).dead = o.dead
             /\ Dialled(o).connected = o.connected /\ o.src \subseteq Dialled(o).src
  <2>1. CASE o.connected
    BY <2>1 DEF Dialled
  <2>2. CASE ~o.connected
    <3> DEFINE p == [o EXCEPT !.current = "init"]
    <3>1. /\ p \in ObjectRec /\ p.res = o.res /\ p.st = o.st /\ p.dead = o.dead
          /\ p.connected = o.connected /\ p.src = o.src
      BY DEF ObjectRec
    <3>2. Dialled(o) = [p EXCEPT !.src = p.src \cup {"fd"}]
      BY <2>2 DEF Dialled
    <3> HIDE DEF p
    <3>3. p.src \cup {"fd"} \in SUBSET SourceKinds
      BY <3>1 DEF ObjectRec, SourceKinds
    <3> QED BY <3>1, <3>2, <3>3 DEF ObjectRec
  <2> QED BY <2>1, <2>2
<1>3. heap \in HeapRec /\ Conns \subseteq Objs /\ \A c \in Objs : heap.obj[c] \in ObjectRec
  BY SafeTypes, HeapFields
<1>4. ASSUME NEW c \in Objs
      PROVE  /\ f[c] \in ObjectRec
             /\ f[c].res = heap.obj[c].res
             /\ f[c].st = heap.obj[c].st /\ f[c].dead = heap.obj[c].dead
             /\ InUse(heap) /\ c \in Conns /\ f[c].connected => "fd" \in f[c].src
  <2>1. f[c] = Dialled(heap.obj[c]) \/ f[c] = heap.obj[c]
    BY <1>3
  <2> HIDE DEF f
  <2> QED BY <1>2, <1>3, <2>1 DEF InUse
<1>5. f \in [Objs -> ObjectRec]
  BY <1>4
<1> HIDE DEF f
<1>6. Sound(heap, heap')
  BY <1>1, <1>3, <1>4, <1>5, SoundObjects
<1>7. budget' \in [BudgetKinds -> Nat]
  BY Spent DEF Connect, BudgetKinds
<1> QED BY <1>6, <1>7, WorksQuietly DEF Connect, Usable

LEMMA SafeDisconnect == ASSUME Safe, Disconnect PROVE Safe'
<1>1. heap \in HeapRec /\ 0 \in Objs
  BY SafeTypes, HeapFields
<1>2. CASE kind = "plain"
  BY <1>1, <1>2, SoundDisconnected, WorksQuietly, Spent DEF Disconnect, Usable, BudgetKinds
<1>3. CASE kind # "plain"
  <2> DEFINE cs == {c \in Members : heap.obj[c].connected}
             g == HungUp(heap, cs)
  <2>1. heap' = [g EXCEPT !.obj[0].connected = FALSE]
    BY <1>3 DEF Disconnect
  <2>2. Sound(heap, g)
    BY <1>1, SoundHungUp
  <2> HIDE DEF g
  <2>3. Sound(g, heap')
    BY <1>1, <2>1, <2>2, SoundField DEF Sound
  <2>4. Sound(heap, heap')
    BY <2>2, <2>3, SoundTwice
  <2> QED BY <2>4, WorksQuietly, Spent DEF Disconnect, Usable, BudgetKinds
<1> QED BY <1>2, <1>3

LEMMA SafeQuery == ASSUME Safe, NEW c \in Conns, Query(c) PROVE Safe'
<1> DEFINE g == [heap EXCEPT !.obj[c].current = "query"]
<1>1. heap \in HeapRec /\ c \in Objs
  BY SafeTypes, HeapFields
<1>2. Sound(heap, g)
  BY <1>1, SoundField
<1>3. heap' = [g EXCEPT !.obj[c].src = @ \cup {"job"}]
  BY DEF Query
<1> HIDE DEF g
<1>4. g \in HeapRec
  BY <1>2 DEF Sound
<1>5. g.obj[c].src \cup {"job"} \in SUBSET SourceKinds
  <2>1. g.obj[c] \in ObjectRec
    BY <1>1, <1>4, HeapFields
  <2> QED BY <2>1 DEF ObjectRec, SourceKinds
<1>6. Sound(g, heap')
  BY <1>1, <1>3, <1>4, <1>5, SoundField
<1>7. Sound(heap, heap')
  BY <1>2, <1>6, SoundTwice
<1> QED BY <1>7, WorksQuietly, Spent DEF Query, Usable, BudgetKinds

LEMMA SafeTimeoutSet == ASSUME Safe, NEW on \in BOOLEAN, TimeoutSet(on) PROVE Safe'
<1> DEFINE S(c) == IF on THEN heap.obj[c].src \cup {"timeout"} ELSE heap.obj[c].src \ {"timeout"}
           set(c) == [heap.obj[c] EXCEPT !.src = S(c)]
           f == [c \in Objs |-> IF c \notin Conns THEN heap.obj[c] ELSE set(c)]
<1>1. heap' = [heap EXCEPT !.obj = f]
  BY DEF TimeoutSet
<1>2. heap \in HeapRec /\ Conns \subseteq Objs /\ \A c \in Objs : heap.obj[c] \in ObjectRec
  BY SafeTypes, HeapFields
<1>3. ASSUME NEW c \in Objs
      PROVE  /\ f[c] \in ObjectRec
             /\ f[c].res = heap.obj[c].res
             /\ f[c].st = heap.obj[c].st /\ f[c].dead = heap.obj[c].dead
             /\ InUse(heap) /\ c \in Conns /\ f[c].connected => "fd" \in f[c].src
  <2>1. heap.obj[c] \in ObjectRec /\ S(c) \in SUBSET SourceKinds
        /\ ("fd" \in heap.obj[c].src => "fd" \in S(c))
    <3>1. heap.obj[c] \in ObjectRec
      BY <1>2
    <3> QED BY <3>1 DEF ObjectRec, SourceKinds
  <2> HIDE DEF S
  <2>2. /\ set(c) \in ObjectRec /\ set(c).res = heap.obj[c].res
        /\ set(c).st = heap.obj[c].st /\ set(c).dead = heap.obj[c].dead
        /\ set(c).connected = heap.obj[c].connected /\ set(c).src = S(c)
    BY <2>1 DEF ObjectRec
  <2> HIDE DEF set
  <2>3. f[c] = set(c) \/ f[c] = heap.obj[c]
    OBVIOUS
  <2> HIDE DEF f
  <2> QED BY <2>1, <2>2, <2>3 DEF InUse
<1> HIDE DEF set
<1>4. f \in [Objs -> ObjectRec]
  BY <1>3
<1> HIDE DEF f
<1>5. Sound(heap, heap')
  BY <1>1, <1>2, <1>3, <1>4, SoundObjects
<1> QED BY <1>5, WorksQuietly, Spent DEF TimeoutSet, Usable, BudgetKinds

LEMMA LiveInCharge ==
  ASSUME Safe, NEW r \in Results, heap.res[r].st = "live" PROVE tidy => lib.up /\ handle
<1>1. LiveResults # {}
  BY DEF LiveResults
<1> QED BY <1>1, InCharge DEF Working

LEMMA SafeHold == ASSUME Safe, NEW r \in Results, Hold(r) PROVE Safe'
<1>1. /\ heap' = Reffed(heap, r) /\ held' = [held EXCEPT ![r] = @ + 1] /\ heap.res[r].st = "live"
      /\ tidy' = (tidy /\ ~heap.res[r].error)
      /\ UNCHANGED <<lib, kind, handle, run, stale>>
  BY DEF Hold
<1>2. heap \in HeapRec /\ held \in [Results -> Nat] /\ held' \in [Results -> Nat]
  BY <1>1, SafeTypes
<1>3. budget' \in [BudgetKinds -> Nat]
  BY Spent DEF Hold, BudgetKinds
<1>4. heap' \in HeapRec /\ (InUse(heap) => InUse(heap'))
  <2> DEFINE x == [heap.res[r] EXCEPT !.refs = @ + 1]
  <2>1. heap.res[r] \in ResultRec /\ heap.res \in [Results -> ResultRec]
    BY <1>2, HeapFields
  <2>2. x \in ResultRec /\ heap' = [heap EXCEPT !.res[r] = x]
    BY <1>1, <2>1 DEF ResultRec, Reffed
  <2> HIDE DEF x
  <2> QED BY <1>2, <2>2, ResParts
<1>5. ASSUME tidy' PROVE Counts(heap', held', run)
  BY <1>1, <1>2, <1>5, CountsReffed DEF Safe, Contract
<1>6. tidy' => lib.up /\ handle
  BY <1>1, LiveInCharge
<1>7. /\ run \in RunRec
      /\ run.at \in {"answered", "failed"} => run.what \in Results
      /\ run.at \in CallbackKinds => run.c \in Conns
      /\ tidy' \in BOOLEAN
  BY <1>1 DEF Safe, TypeInv, TypeOK
<1> QED BY <1>1, <1>2, <1>3, <1>4, <1>5, <1>6, <1>7, Works

LEMMA SafeRelease == ASSUME Safe, NEW r \in Results, Release(r) PROVE Safe'
<1>1. /\ heap' = Unreffed(heap, r) /\ held' = [held EXCEPT ![r] = @ - 1] /\ held[r] > 0
      /\ heap.res[r].st = "live"
      /\ UNCHANGED <<lib, kind, handle, run, budget, tidy, stale>>
  BY DEF Release, MayUnref
<1>2. heap \in HeapRec /\ held \in [Results -> Nat] /\ held' \in [Results -> Nat]
  BY <1>1, SafeTypes
<1>3. heap' \in HeapRec /\ (InUse(heap) => InUse(heap'))
  BY <1>1, <1>2, UnreffedParts
<1>4. tidy => Counts(heap', held', run)
  BY <1>1, <1>2, CountsReleased DEF Safe, Contract
<1>5. tidy => lib.up /\ handle
  BY <1>1, LiveInCharge
<1>6. /\ run \in RunRec
      /\ run.at \in {"answered", "failed"} => run.what \in Results
      /\ run.at \in CallbackKinds => run.c \in Conns
      /\ tidy \in BOOLEAN /\ budget \in [BudgetKinds -> Nat]
  BY DEF Safe, TypeInv, TypeOK
<1> QED BY <1>1, <1>2, <1>3, <1>4, <1>5, <1>6, Works

----------------------------------------------------------------------------
(* The main loop *)

LEMMA SoundServed ==
  ASSUME Safe, NEW c \in Conns
  PROVE  Sound(heap, Served(c)) /\ Served(c) \in HeapRec /\ Served(c).obj[c].src = heap.obj[c].src \ {"job"}
<1>1. heap \in HeapRec /\ c \in Objs /\ heap.obj[c] \in ObjectRec /\ heap.obj \in [Objs -> ObjectRec]
  BY SafeTypes, HeapFields
<1>2. heap.obj[c].src \ {"job"} \in SUBSET SourceKinds
  BY <1>1 DEF ObjectRec
<1>3. Sound(heap, Served(c))
  BY <1>1, <1>2, SoundField DEF Served
<1>4. Served(c).obj[c].src = heap.obj[c].src \ {"job"}
  <2>1. Served(c).obj = [heap.obj EXCEPT ![c].src = @ \ {"job"}]
    BY <1>1 DEF Served, HeapRec
  <2>2. Served(c).obj[c] = [heap.obj[c] EXCEPT !.src = @ \ {"job"}]
    BY <1>1, <2>1
  <2> QED BY <1>1, <2>2 DEF ObjectRec
<1> QED BY <1>3, <1>4 DEF Sound

LEMMA ReadyInCharge ==
  ASSUME Safe, NEW c \in Conns, Ready(c) PROVE run.at = "loop" /\ (tidy => lib.up /\ handle)
<1>1. heap.obj[c].src # {}
  BY DEF Ready
<1> QED BY <1>1, SourceInCharge DEF Ready, AtLoop

LEMMA SafeWaits == ASSUME Safe, NEW c \in Conns, Waits(c) PROVE Safe'
  BY SoundServed, ReadyInCharge, WorksQuietly, SafeTypes DEF Waits

LEMMA SafeCompleteInit == ASSUME Safe, NEW c \in Conns, CompleteInit(c) PROVE Safe'
<1> DEFINE s == Served(c)
           j == [s EXCEPT !.obj[c].connected = TRUE]
           n == IF kind = "pool" THEN j.econn + 1 ELSE j.econn
           g == [j EXCEPT !.econn = n]
           h == [g EXCEPT !.obj[0].connected = @ \/ ReadyToTell(g)]
<1>1. c \in Objs /\ 0 \in Objs /\ run.at = "loop" /\ (tidy => lib.up /\ handle)
  BY ReadyInCharge, SafeTypes, HeapFields DEF CompleteInit
<1>2. Sound(heap, s) /\ s \in HeapRec /\ "fd" \in s.obj[c].src
  BY SoundServed DEF CompleteInit
<1>3. [s EXCEPT !.obj[c].connected = TRUE, !.econn = IF kind = "pool" THEN @ + 1 ELSE @] = g
  BY <1>2 DEF HeapRec
<1>4. \/ ~ReadyToTell(g) /\ heap' = Next_(g, c) /\ run' = run
      \/ ReadyToTell(g) /\ heap' = Next_(Told(h, c), c) /\ run' = run
      \/ ReadyToTell(g) /\ heap' = h /\ Callback("ready", c, AboutObject)
  BY <1>3 DEF CompleteInit
<1> HIDE DEF s
<1>5. Sound(s, j)
  BY <1>1, <1>2, SoundField
<1>6. Sound(heap, j) /\ j \in HeapRec
  BY <1>2, <1>5, SoundTwice DEF Sound
<1> HIDE DEF j
<1>7. n \in Int
  BY <1>6, HeapFields
<1> HIDE DEF n
<1>8. Sound(j, g)
  BY <1>6, <1>7, SoundCount
<1>9. Sound(heap, g) /\ g \in HeapRec
  BY <1>6, <1>8, SoundTwice DEF Sound
<1>10. (g.obj[0].connected \/ ReadyToTell(g)) \in BOOLEAN
  OBVIOUS
<1>11. 0 \in Conns => c = 0
  BY DEF Conns, Members
<1>12. 0 \in Conns => "fd" \in g.obj[0].src
  <2> SUFFICES ASSUME c = 0 PROVE "fd" \in g.obj[0].src
    BY <1>11
  <2>1. g.obj = j.obj
    BY <1>6 DEF HeapRec
  <2>2. j.obj[0].src = s.obj[0].src
    BY <1>2, HeapFields DEF j, HeapRec, ObjectRec
  <2> QED BY <1>2, <2>1, <2>2
<1> HIDE DEF g
<1>13. Sound(g, h)
  BY <1>1, <1>9, <1>10, <1>12, SoundField
<1>14. Sound(heap, h) /\ h \in HeapRec
  BY <1>9, <1>13, SoundTwice DEF Sound
<1> HIDE DEF h
<1>15. Sound(heap, Next_(g, c))
  BY <1>1, <1>9, SoundNext, SoundTwice
<1>16. Sound(heap, Next_(Told(h, c), c))
  <2>1. Sound(heap, Told(h, c)) /\ Told(h, c) \in HeapRec
    BY <1>1, <1>14, SoundTold, SoundTwice DEF Sound
  <2> QED BY <1>1, <2>1, SoundNext, SoundTwice
<1>17. /\ lib' = lib /\ kind' = kind /\ handle' = handle /\ stale' = stale /\ tidy' = tidy
       /\ held' = held /\ budget' \in [BudgetKinds -> Nat]
  BY SafeTypes DEF CompleteInit
<1> QED BY <1>1, <1>4, <1>14, <1>15, <1>16, <1>17, WorksQuietly

LEMMA SafeFails == ASSUME Safe, NEW c \in Conns, Fails(c) PROVE Safe'
<1> DEFINE s == Served(c)
           r == NewResult
           h == Made(s, r, TRUE)
<1>1. c \in Objs /\ run.at = "loop" /\ (tidy => lib.up /\ handle)
  BY ReadyInCharge, SafeTypes, HeapFields DEF Fails
<1>2. Sound(heap, s) /\ s \in HeapRec
  BY SoundServed
<1>3. \/ heap' \in AfterFailure(s, c) /\ run' = run
      \/ heap' \in Down(s, c) /\ run' = run
      \/ heap' = s /\ Callback("refused", c, AboutObject)
      \/ Unused # {} /\ heap' = h /\ Callback("failed", c, r)
  BY DEF Fails
<1>4. /\ lib' = lib /\ kind' = kind /\ handle' = handle /\ stale' = stale /\ tidy' = tidy /\ held' = held
      /\ budget' \in [BudgetKinds -> Nat]
  BY Spent DEF Fails, BudgetKinds
<1> HIDE DEF s, r
<1>5. CASE \/ heap' \in AfterFailure(s, c) /\ run' = run
           \/ heap' \in Down(s, c) /\ run' = run
           \/ heap' = s /\ Callback("refused", c, AboutObject)
  <2>1. Sound(heap, heap')
    BY <1>1, <1>2, <1>5, SoundDown, SoundTwice
  <2> QED BY <1>1, <1>4, <1>5, <2>1, WorksQuietly
<1>6. CASE Unused # {} /\ heap' = h /\ Callback("failed", c, r)
  <2>1. r \in Results /\ heap.res[r].st = "none"
    BY <1>6, NewResultUnused DEF r, Unused
  <2>2. run' = [at |-> "failed", c |-> c, what |-> r]
    BY <1>6 DEF Callback
  <2>3. /\ run' \in RunRec /\ run'.at = "failed" /\ run'.what = r /\ run'.c = c
    BY <1>1, <2>1, <2>2 DEF RunRec, CallbackKinds
  <2>4. h \in HeapRec /\ (InUse(s) => InUse(h))
    BY <1>2, <2>1, MadeParts
  <2>5. InUse(heap) => InUse(h)
    BY <1>2, <2>4 DEF Sound
  <2>6. ASSUME tidy PROVE Counts(h, held, run')
    <3>1. Counts(heap, held, run)
      BY <2>6 DEF Safe, Contract
    <3>2. Counts(heap, held, Loop)
      BY <1>1, <3>1 DEF Counts, Balanced, Forgotten, Owns, Loop
    <3>3. Counts(s, held, Loop) /\ s.res[r].st = "none"
      BY <1>2, <2>1, <3>2, CountsSame DEF Sound, Same
    <3>4. s.res[r].st # "live" /\ held \in [Results -> Nat] /\ TRUE \in BOOLEAN
      BY <3>3, SafeTypes
    <3> DEFINE q == run'
    <3>5. q.at = "failed" /\ q.what = r
      BY <2>3
    <3> HIDE DEF q
    <3>6. Counts(Made(s, r, TRUE), held, q)
      BY <1>2, <2>1, <3>3, <3>4, <3>5, CountsFailed
    <3> QED BY <3>6 DEF q
  <2> HIDE DEF h
  <2>7. held \in [Results -> Nat] /\ tidy \in BOOLEAN
    BY SafeTypes
  <2>8. tidy' => lib.up /\ handle /\ Counts(heap', held', run')
    BY <1>1, <1>4, <1>6, <2>6
  <2>9. heap' \in HeapRec /\ (InUse(heap) => InUse(heap'))
    BY <1>6, <2>4, <2>5
  <2> QED BY <1>4, <2>1, <2>3, <2>7, <2>8, <2>9, Works
<1> QED BY <1>3, <1>5, <1>6

LEMMA SafeCompleteQuery == ASSUME Safe, NEW c \in Conns, CompleteQuery(c) PROVE Safe'
<1> DEFINE s == Served(c)
           kept == heap.obj[c].res # None
           r == IF kept THEN heap.obj[c].res ELSE NewResult
<1>1. c \in Objs /\ run.at = "loop" /\ (tidy => lib.up /\ handle) /\ heap \in HeapRec
  BY ReadyInCharge, SafeTypes, HeapFields DEF CompleteQuery
<1>2. Sound(heap, s) /\ s \in HeapRec
  BY SoundServed
<1>3. kept \/ Unused # {}
  BY DEF CompleteQuery
<1>4. r \in Results /\ (~kept => heap.res[r].st = "none")
  <2>1. heap.obj[c].res \in Results \cup {None}
    BY <1>1, HeapFields DEF ObjectRec
  <2>2. CASE kept
    BY <2>1, <2>2
  <2>3. CASE ~kept
    BY <1>3, <2>3, NewResultUnused DEF Unused
  <2> QED BY <2>2, <2>3
<1>5. PICK error \in BOOLEAN : error = (kept /\ heap.res[r].error)
  OBVIOUS
<1> DEFINE h == Made(s, r, error)
<1>6. /\ \/ heap' = Given(h, c, r) /\ run' = run
         \/ heap' = h /\ Callback("answered", c, r)
      /\ UNCHANGED <<lib, kind, handle, held, budget, tidy, stale>>
  BY <1>5 DEF CompleteQuery
<1>7. tidy => ~kept
  <2>1. c \in {0} \cup Members
    BY DEF Conns
  <2>2. heap.obj[0].res \in Results \cup {None}
    BY <1>1, HeapFields DEF ObjectRec
  <2> QED BY <1>1, <2>1, <2>2 DEF Safe, Contract, Counts, Forgotten
<1> HIDE DEF s, kept, r
<1>8. h \in HeapRec /\ (InUse(heap) => InUse(h)) /\ h.res[r] = [st |-> "live", refs |-> 1, error |-> error]
  <2>1. h \in HeapRec /\ (InUse(s) => InUse(h)) /\ h.res[r] = [st |-> "live", refs |-> 1, error |-> error]
    BY <1>2, <1>4, MadeParts
  <2> QED BY <1>2, <2>1 DEF Sound
<1> DEFINE q == [at |-> "answered", c |-> c, what |-> r]
<1>9. q \in RunRec /\ q.at = "answered" /\ q.what = r /\ q.c = c
  BY <1>1, <1>4 DEF RunRec, CallbackKinds
<1>10. Callback("answered", c, r) => run' = q
  BY DEF Callback
<1> HIDE DEF q
<1>11. ASSUME tidy PROVE error = FALSE /\ Counts(h, held, q)
  <2>1. Counts(heap, held, run)
    BY <1>11 DEF Safe, Contract
  <2>2. Counts(heap, held, Loop)
    BY <1>1, <2>1 DEF Counts, Balanced, Forgotten, Owns, Loop
  <2>3. Counts(s, held, Loop) /\ s.res[r].st = "none"
    BY <1>2, <1>4, <1>7, <1>11, <2>2, CountsSame DEF Sound, Same
  <2>4. s.res[r].st # "live" /\ held \in [Results -> Nat] /\ error = FALSE
    BY <1>5, <1>7, <1>11, <2>3, SafeTypes
  <2>5. Counts(Made(s, r, FALSE), held, q)
    BY <1>2, <1>4, <1>9, <2>3, <2>4, CountsAnswered
  <2> QED BY <2>4, <2>5, Zenon
<1> HIDE DEF h
<1>12. held \in [Results -> Nat] /\ tidy \in BOOLEAN /\ budget \in [BudgetKinds -> Nat] /\ run \in RunRec
  BY SafeTypes
<1>13. CASE heap' = Given(h, c, r) /\ run' = run
  <2> DEFINE g == Given(h, c, r)
  <2>1. g \in HeapRec /\ (InUse(heap) => InUse(g))
    BY <1>1, <1>4, <1>8, GivenParts
  <2>2. ASSUME tidy PROVE Counts(g, held, run)
    <3>1. h.res[r].error = FALSE
      BY <1>8, <1>11, <2>2
    <3>2. Counts(g, held, Loop)
      BY <1>1, <1>4, <1>8, <1>9, <1>11, <1>12, <2>2, <3>1, CountsGiven
    <3> HIDE DEF g
    <3> QED BY <1>1, <3>2 DEF Counts, Balanced, Forgotten, Owns, Loop
  <2> HIDE DEF g
  <2>3. heap' = g
    BY <1>13 DEF g
  <2>4. tidy' => lib.up /\ handle /\ Counts(heap', held', run')
    BY <1>1, <1>6, <1>13, <2>2, <2>3
  <2> QED BY <1>1, <1>6, <1>12, <1>13, <2>1, <2>3, <2>4, Works DEF CallbackKinds
<1>14. CASE heap' = h /\ Callback("answered", c, r)
  <2>1. tidy' => lib.up /\ handle /\ Counts(heap', held', run')
    BY <1>1, <1>6, <1>10, <1>11, <1>14
  <2> QED BY <1>4, <1>6, <1>8, <1>9, <1>10, <1>12, <1>14, <2>1, Works
<1> QED BY <1>6, <1>13, <1>14

LEMMA SoundTaken ==
  ASSUME Safe, NEW c \in Conns, NEW what \in {"timeout"} \cup RetryTimers
  PROVE  LET h == [heap EXCEPT !.obj[c].src = @ \ {what}] IN Sound(heap, h) /\ h \in HeapRec
<1>1. heap \in HeapRec /\ c \in Objs /\ heap.obj[c] \in ObjectRec
  BY SafeTypes, HeapFields
<1>2. /\ heap.obj[c].src \ {what} \in SUBSET SourceKinds
      /\ "fd" \in heap.obj[c].src => "fd" \in heap.obj[c].src \ {what}
  <2>1. what # "fd"
    BY LifetimeAssumption
  <2> QED BY <1>1, <2>1 DEF ObjectRec
<1>3. Sound(heap, [heap EXCEPT !.obj[c].src = @ \ {what}])
  BY <1>1, <1>2, SoundField
<1> QED BY <1>3 DEF Sound

LEMMA SafeTimers == ASSUME Safe, NEW c \in Conns, Timers(c) PROVE Safe'
<1>1. c \in Objs /\ run.at = "loop" /\ (tidy => lib.up /\ handle)
  <2>1. run.at = "loop" /\ heap.obj[c].src # {}
    BY DEF Timers, TimeoutFires, RetryFires, AtLoop
  <2> QED BY <2>1, SourceInCharge, SafeTypes, HeapFields
<1>2. /\ lib' = lib /\ kind' = kind /\ handle' = handle /\ stale' = stale /\ tidy' = tidy
      /\ held' = held /\ run' = run /\ budget' \in [BudgetKinds -> Nat]
  BY Spent, SafeTypes DEF Timers, TimeoutFires, RetryFires, BudgetKinds
<1>3. CASE TimeoutFires(c)
  <2> DEFINE h == [heap EXCEPT !.obj[c].src = @ \ {"timeout"}]
             g == Disconnected(h, c)
  <2>1. Sound(heap, h) /\ h \in HeapRec
    BY SoundTaken
  <2>2. heap' \in AndRetry(g, c)
    BY <1>3 DEF TimeoutFires
  <2> HIDE DEF h
  <2>3. Sound(h, g)
    BY <1>1, <2>1, SoundDisconnected
  <2>4. Sound(heap, g) /\ g \in HeapRec
    BY <2>1, <2>3, SoundTwice DEF Sound
  <2> HIDE DEF g
  <2>5. Sound(heap, heap')
    BY <1>1, <2>2, <2>4, SoundRetry, SoundTwice
  <2> QED BY <1>1, <1>2, <2>5, WorksQuietly
<1>4. CASE RetryFires(c)
  <2>0. PICK timer \in RetryTimers :
          LET h == [heap EXCEPT !.obj[c].src = @ \ {timer}]
          IN \/ heap' = [h EXCEPT !.obj[c].current = "init", !.obj[c].src = @ \cup {"fd"}]
             \/ heap' = Told(h, c)
    BY <1>4 DEF RetryFires
  <2> DEFINE h == [heap EXCEPT !.obj[c].src = @ \ {timer}]
             g == [h EXCEPT !.obj[c].current = "init"]
             S == g.obj[c].src \cup {"fd"}
  <2>1. Sound(heap, h) /\ h \in HeapRec
    BY SoundTaken
  <2>2. \/ heap' = [h EXCEPT !.obj[c].current = "init", !.obj[c].src = @ \cup {"fd"}]
        \/ heap' = Told(h, c)
    BY <2>0
  <2> HIDE DEF h
  <2>3. Sound(h, g)
    BY <1>1, <2>1, SoundField
  <2>4. Sound(heap, g) /\ g \in HeapRec
    BY <2>1, <2>3, SoundTwice DEF Sound
  <2>5. heap' = [g EXCEPT !.obj[c].src = @ \cup {"fd"}] \/ heap' = Told(h, c)
    BY <1>1, <2>1, <2>2, HeapFields DEF HeapRec, ObjectRec
  <2> HIDE DEF g
  <2>6. S \in SUBSET SourceKinds /\ "fd" \in S
    <3>1. g.obj[c] \in ObjectRec
      BY <1>1, <2>4, HeapFields
    <3> QED BY <3>1 DEF ObjectRec, SourceKinds
  <2>7. Sound(g, [g EXCEPT !.obj[c].src = S])
    BY <1>1, <2>4, <2>6, SoundField
  <2>8. [g EXCEPT !.obj[c].src = @ \cup {"fd"}] = [g EXCEPT !.obj[c].src = S]
    BY <1>1, <2>4, HeapFields
  <2>9. Sound(heap, Told(h, c))
    BY <1>1, <2>1, SoundTold, SoundTwice
  <2>10. Sound(heap, heap')
    BY <2>5, <2>4, <2>7, <2>8, <2>9, SoundTwice
  <2> QED BY <1>1, <1>2, <2>10, WorksQuietly
<1> QED BY <1>3, <1>4 DEF Timers

LEMMA SafeCallbackReturns == ASSUME Safe, CallbackReturns PROVE Safe'
<1> DEFINE c == run.c
           r == run.what
           u == Unreffed(heap, r)
<1>1. /\ run.at \in CallbackKinds /\ run' = Loop
      /\ UNCHANGED <<lib, kind, handle, held, budget, tidy, stale>>
      /\ \/ run.at = "ready" /\ heap' = Next_(heap, c)
         \/ run.at = "refused" /\ heap' \in Down(heap, c)
         \/ run.at = "answered" /\ heap' = Cleared(Next_(u, c), c)
         \/ run.at = "failed" /\ heap' \in AfterFailure(u, c)
  BY DEF CallbackReturns, CallbackKinds, Cleared
<1>2. /\ c \in Conns /\ c \in Objs /\ heap \in HeapRec /\ held \in [Results -> Nat]
      /\ tidy \in BOOLEAN /\ budget \in [BudgetKinds -> Nat]
  <2>1. c \in Conns
    BY <1>1 DEF Safe, TypeInv
  <2> QED BY <2>1, SafeTypes, HeapFields
<1>3. tidy => lib.up /\ handle
  BY <1>1, InCharge DEF Working
<1>4. tidy => Counts(heap, held, run)
  BY DEF Safe, Contract
<1>5. CASE \/ run.at = "ready" /\ heap' = Next_(heap, c)
           \/ run.at = "refused" /\ heap' \in Down(heap, c)
  <2>1. Sound(heap, heap')
    BY <1>2, <1>5, SoundNext, SoundDown
  <2>2. tidy => run.what \notin Results
    BY <1>4, <1>5 DEF Counts, Forgotten
  <2> QED BY <1>1, <1>2, <1>3, <2>1, <2>2, WorksQuietly
<1>6. CASE \/ run.at = "answered" /\ heap' = Cleared(Next_(u, c), c)
           \/ run.at = "failed" /\ heap' \in AfterFailure(u, c)
  <2>1. r \in Results /\ run.at # "loop"
    BY <1>6 DEF Safe, TypeInv
  <2>2. u \in HeapRec /\ (InUse(heap) => InUse(u))
    BY <1>2, <2>1, UnreffedParts
  <2>3. tidy => /\ Balanced(u, held, Loop)
                /\ \A b \in Members : u.obj[b].res = None
                /\ run.at # "answered" => Counts(u, held, Loop)
    BY <1>2, <1>4, <2>1, CountsReturned
  <2> HIDE DEF u
  <2>4. heap' \in HeapRec /\ (InUse(u) => InUse(heap')) /\ (tidy => Counts(heap', held, Loop))
    <3>1. CASE run.at = "answered" /\ heap' = Cleared(Next_(u, c), c)
      <4> DEFINE n == Next_(u, c)
      <4>1. n \in HeapRec /\ (InUse(u) => InUse(n)) /\ Same(u, n)
        BY <1>2, <2>2, SoundNext DEF Sound
      <4> HIDE DEF n
      <4>2. Cleared(n, c) \in HeapRec /\ (InUse(n) => InUse(Cleared(n, c)))
        BY <1>2, <4>1, ClearedParts
      <4>3. ASSUME tidy PROVE Counts(Cleared(n, c), held, Loop)
        <5>1. Balanced(n, held, Loop)
          BY <2>3, <4>1, <4>3 DEF Same, Balanced
        <5>2. \A b \in Members : n.obj[b].res = None
          BY <2>3, <4>1, <4>3 DEF Same, Members, Objs
        <5> QED BY <1>2, <4>1, <5>1, <5>2, CountsCleared
      <4> QED BY <3>1, <4>1, <4>2, <4>3 DEF n
    <3>2. CASE run.at = "failed" /\ heap' \in AfterFailure(u, c)
      <4>1. Sound(u, heap')
        BY <1>2, <2>2, <3>2, SoundDown
      <4>2. heap' \in HeapRec /\ (InUse(u) => InUse(heap')) /\ Same(u, heap')
        BY <4>1 DEF Sound
      <4> QED BY <2>3, <3>2, <4>2, CountsSame
    <3> QED BY <1>6, <3>1, <3>2
  <2>5. run' \in RunRec /\ run'.at = "loop"
    BY <1>1 DEF Loop, RunRec, Objs
  <2>6. run'.at \notin {"answered", "failed"} /\ run'.at \notin CallbackKinds
    BY <2>5 DEF CallbackKinds
  <2>7. tidy' => lib.up /\ handle /\ Counts(heap', held', run')
    BY <1>1, <1>3, <2>4
  <2> QED BY <1>1, <1>2, <2>2, <2>4, <2>5, <2>6, <2>7, Works
<1> QED BY <1>1, <1>5, <1>6

----------------------------------------------------------------------------
(* The events *)

\* A plain object that is not connected is freed now, or waits.
LEMMA PlainFreed ==
  ASSUME NEW h \in HeapRec, kind = "plain", ~h.obj[0].connected
  PROVE  LET g == Freed(h)
         IN /\ g.events = h.events /\ g.obj[0].src = h.obj[0].src /\ ~g.obj[0].connected
            /\ h.obj[0].count # 0 => g.obj[0].dead /\ g.obj[0].st = h.obj[0].st
            /\ h.obj[0].count = 0 => g.obj[0].st = "freed" /\ g.obj[0].dead = h.obj[0].dead
<1>1. h.obj[0] \in ObjectRec /\ 0 \in Objs
  BY HeapFields
<1>2. Freed(h) = FreedConn(h, 0)
  BY DEF Freed
<1>3. CASE h.obj[0].count # 0
  <2> DEFINE o == [h.obj[0] EXCEPT !.dead = TRUE]
  <2>1. Freed(h) = [h EXCEPT !.obj[0].dead = TRUE]
    BY <1>2, <1>3 DEF FreedConn
  <2>2. Freed(h).events = h.events /\ Freed(h).obj[0] = o
    BY <1>1, <2>1, SameDead
  <2>3. o.src = h.obj[0].src /\ o.connected = h.obj[0].connected /\ o.dead /\ o.st = h.obj[0].st
    BY <1>1 DEF ObjectRec
  <2> HIDE DEF o
  <2> QED BY <1>3, <2>2, <2>3
<1>4. CASE h.obj[0].count = 0
  <2> DEFINE o == [h.obj[0] EXCEPT !.st = "freed"]
  <2>1. Freed(h) = [h EXCEPT !.obj[0].st = "freed"]
    BY <1>2, <1>4 DEF FreedConn
  <2>2. Freed(h).events = h.events /\ Freed(h).obj[0] = o
    BY <1>1, <2>1, SameFreed
  <2>3. /\ o.src = h.obj[0].src /\ o.connected = h.obj[0].connected
        /\ o.dead = h.obj[0].dead /\ o.st = "freed"
    BY <1>1 DEF ObjectRec
  <2> HIDE DEF o
  <2> QED BY <1>4, <2>2, <2>3
<1> QED BY <1>3, <1>4

\* The end of an event about a plain object that waits: it waits for another
\* event, or is freed.
LEMMA PlainEnds ==
  ASSUME NEW h \in HeapRec, kind = "plain", h.obj[0].st = "live", h.obj[0].dead, ~h.obj[0].connected,
         h.obj[0].count = 1 + Num(h.events)
  PROVE  LET g == FakeFreed(h)
         IN /\ g.events = h.events /\ g.obj[0].src = h.obj[0].src /\ ~g.obj[0].connected
            /\ g.obj[0].st = "live" => g.obj[0].dead
            /\ g.obj[0].st # "live" => Num(h.events) = 0
<1> DEFINE u == Uncounted(h)
           o == [h.obj[0] EXCEPT !.count = Minus1(@)]
<1>1. h.obj[0] \in ObjectRec /\ 0 \in Objs /\ Num(h.events) \in Nat /\ Wrap \in Nat \ {0, 1}
  BY HeapFields, NumTyped, LifetimeAssumption
<1>2. u \in HeapRec /\ u.events = h.events /\ u.obj[0] = o
  BY UncountedParts DEF Sound
<1>3. /\ o.src = h.obj[0].src /\ o.connected = h.obj[0].connected /\ o.st = h.obj[0].st
      /\ o.dead = h.obj[0].dead /\ o.count = Minus1(h.obj[0].count)
  BY <1>1 DEF ObjectRec
<1>4. Minus1(h.obj[0].count) = Num(h.events)
  <2>1. h.obj[0].count \in 0 .. Wrap - 1
    BY <1>1 DEF ObjectRec
  <2>2. h.obj[0].count + Wrap - 1 = Num(h.events) + Wrap /\ Num(h.events) < Wrap
    BY <1>1, <2>1
  <2> QED BY <1>1, <2>2, Multiple, Remainder DEF Minus1
<1>5. FakeFreed(h) = IF LastEvent(u.obj[0].count) /\ u.obj[0].dead
                     THEN Freed([u EXCEPT !.obj[0].count = 0]) ELSE u
  BY DEF FakeFreed, Uncounted
<1> HIDE DEF o, u
<1>6. CASE Num(h.events) = 0
  <2>1. [u EXCEPT !.obj[0].count = 0] = u
    <3>1. u.obj \in [Objs -> ObjectRec] /\ u.obj[0] \in ObjectRec /\ u.obj[0].count = 0
      BY <1>2, <1>3, <1>4, <1>6, HeapFields
    <3>2. [u.obj[0] EXCEPT !.count = 0] = u.obj[0]
      BY <3>1 DEF ObjectRec
    <3>3. [u.obj EXCEPT ![0] = [u.obj[0] EXCEPT !.count = 0]] = u.obj
      BY <3>1, <3>2
    <3> QED BY <1>2, <3>3 DEF HeapRec
  <2>2. FakeFreed(h) = Freed(u)
    BY <1>2, <1>3, <1>4, <1>5, <1>6, <2>1 DEF LastEvent
  <2>3. LET g == Freed(u)
        IN g.events = u.events /\ g.obj[0].src = u.obj[0].src /\ ~g.obj[0].connected /\ g.obj[0].st = "freed"
    BY <1>2, <1>3, <1>4, <1>6, PlainFreed
  <2> QED BY <1>2, <1>3, <1>6, <2>2, <2>3
<1>7. CASE Num(h.events) # 0
  <2>1. FakeFreed(h) = u
    BY <1>2, <1>3, <1>4, <1>5, <1>7 DEF LastEvent
  <2> QED BY <1>2, <1>3, <2>1
<1> QED BY <1>6, <1>7

\* The handlers of an event take over its reference and its place in the count.
LEMMA SafeEventStarts == ASSUME Safe, EventStarts PROVE Safe'
<1> DEFINE event == Head(heap.events)
           rest == Tail(heap.events)
           q == [at |-> "handler", c |-> 0, what |-> event]
<1>1. /\ run.at = "loop" /\ heap.events # <<>> /\ EventLives(event)
      /\ run' = q /\ heap' = [heap EXCEPT !.events = rest]
      /\ UNCHANGED <<lib, kind, handle, held, budget, tidy, stale>>
  BY DEF EventStarts, AtLoop
<1>2. heap \in HeapRec /\ heap.events \in Seq(EventKinds) /\ 0 \in Objs
  BY SafeTypes, HeapFields
<1>3. /\ event \in EventKinds /\ rest \in Seq(EventKinds)
      /\ \A x : Times(heap.events, x) = Times(rest, x) + Is(event, x)
  BY <1>1, <1>2, TimesTail
<1>4. \A x : Times(rest, x) \in Nat
  BY <1>3, WhereFinite
<1>5. q \in RunRec /\ q.at = "handler" /\ q.what = event
  BY <1>2, <1>3 DEF RunRec, EventKinds
<1> HIDE DEF event, rest, q
<1>6. heap' \in HeapRec /\ heap'.obj = heap.obj /\ heap'.events = rest /\ heap'.res = heap.res
  BY <1>1, <1>2, <1>3, HeapParts
<1>7. Conns' = Conns
  BY <1>1 DEF Conns
<1>8. TypeInv'
  <2>1. run' \in RunRec /\ run'.at \notin {"answered", "failed"} /\ run'.at \notin CallbackKinds
    BY <1>1, <1>5 DEF CallbackKinds
  <2> QED BY <1>1, <1>6, <2>1 DEF Safe, TypeInv, TypeOK
<1>9. ASSUME tidy PROVE Contract'
  <2>1. Contract
    BY <1>9 DEF Safe
  <2>2. \A r \in Results : Owns(run, r) = 0 /\ Owns(q, r) = Is(event, r) /\ Is(event, r) \in {0, 1}
    BY <1>1, <1>5 DEF Owns, Is
  <2>3. ASSUME NEW r \in Results
        PROVE  /\ heap'.res[r].refs = held[r] + Times(rest, r) + Owns(q, r)
               /\ heap'.res[r].st = "live" <=> heap'.res[r].refs > 0
               /\ heap'.res[r].error => held[r] = 0 /\ Times(rest, r) = 0
    <3>1. /\ heap.res[r].refs = held[r] + Times(heap.events, r) + Owns(run, r)
          /\ heap.res[r].st = "live" <=> heap.res[r].refs > 0
          /\ heap.res[r].error => held[r] = 0 /\ Times(heap.events, r) = 0
      BY <2>1 DEF Contract, Counts, Balanced
    <3>2. held[r] \in Nat /\ Times(rest, r) \in Nat
      BY <1>4, SafeTypes
    <3>3. Times(heap.events, r) = Times(rest, r) + Is(event, r) /\ Owns(run, r) = 0
          /\ Owns(q, r) = Is(event, r) /\ Is(event, r) \in {0, 1}
      BY <1>3, <2>2
    <3> QED BY <1>6, <3>1, <3>2, <3>3
  <2>4. Balanced(heap, held, run)'
    BY <1>1, <1>6, <2>3 DEF Balanced, Owns
  <2>5. Forgotten(heap, run)'
    <3>1. heap.obj[0].res = None /\ \A c \in Members : heap.obj[c].res = None
      <4>1. heap.obj[0].res \in Results \cup {None}
        BY <1>2, HeapFields DEF ObjectRec
      <4> QED BY <1>1, <2>1, <4>1 DEF Contract, Counts, Forgotten
    <3> QED BY <1>1, <1>5, <1>6, <3>1 DEF Forgotten
  <2>6. handle' => kind' # "none" /\ InUse(heap)'
    BY <1>1, <1>6, <1>7, <2>1 DEF Contract, InUse
  <2>7. Working' => Working
    BY <1>1, <1>5, <1>6, <1>7 DEF Working, LiveResults, CallbackKinds
  <2>8. ASSUME ~handle PROVE Left'
    <3>1. kind = "plain"
      BY <1>1, <2>1, <2>8 DEF Contract, Left
    <3>2. Handling = 0 /\ Num(heap.events) = Num(rest) + Handling' /\ Num(rest) \in Nat
      BY <1>1, <1>3, <1>4, <1>5 DEF Handling, Num, Is
    <3>3. Handling' + Num(heap'.events) = Handling + Num(heap.events)
      BY <1>6, <3>2, HandlingTyped DEF Handling
    <3> QED BY <1>1, <1>6, <2>1, <2>8, <3>1, <3>3 DEF Contract, Left
  <2> QED BY <1>1, <1>6, <1>7, <2>1, <2>4, <2>5, <2>6, <2>7, <2>8 DEF Contract, Counts
<1> QED BY <1>1, <1>8, <1>9 DEF Safe

\* The end of an event about the object.
LEMMA SafeEventEnds ==
  ASSUME LifeInv, Safe, EventEnds, run.what = AboutObject PROVE Safe'
<1> DEFINE u == Uncounted(heap)
<1>1. /\ run.at = "handler" /\ heap.obj[0].st = "live" /\ heap' = FakeFreed(heap) /\ run' = Loop
      /\ UNCHANGED <<lib, kind, handle, held, budget, tidy, stale>>
  BY DEF EventEnds, EventLives
<1>2. heap \in HeapRec /\ 0 \in Objs /\ Conns \subseteq Objs /\ held \in [Results -> Nat]
  BY SafeTypes, HeapFields
<1>3. heap' \in HeapRec /\ Same(heap, heap') /\ (~heap.obj[0].dead => heap' = u)
  BY <1>1, <1>2, FakeFreedParts
<1>4. Conns' = Conns
  BY <1>1 DEF Conns
<1>5. run' \in RunRec /\ run'.at = "loop"
  BY <1>1 DEF Loop, RunRec, Objs
<1>6. TypeInv'
  <2>1. run'.at \notin {"answered", "failed"} /\ run'.at \notin CallbackKinds
    BY <1>5 DEF CallbackKinds
  <2> QED BY <1>1, <1>3, <1>5, <2>1 DEF Safe, TypeInv, TypeOK
<1>7. ASSUME tidy PROVE Contract'
  <2>1. Contract
    BY <1>7 DEF Safe
  <2>2. Counts(heap, held, run)'
    <3>1. AboutObject \notin Results
      BY DEF AboutObject, Results
    <3>2. Counts(heap', held, run)
      BY <1>3, <2>1, CountsSame DEF Contract
    <3>3. Counts(heap', held, Loop)
      BY <1>3, <3>1, <3>2, CountsCalled DEF Loop
    <3> QED BY <1>1, <3>3 DEF Counts, Balanced, Forgotten, Owns
  <2>3. CASE handle
    <3>1. InUse(heap) /\ kind # "none" /\ heap' = u
      BY <1>3, <2>1, <2>3 DEF Contract, InUse
    <3>2. /\ Sound(heap, u) /\ u.obj[0] = [heap.obj[0] EXCEPT !.count = Minus1(@)]
          /\ \A c \in Objs \ {0} : u.obj[c] = heap.obj[c]
      BY <1>2, UncountedParts
    <3>3. InUse(heap)'
      BY <1>4, <3>1, <3>2 DEF Sound, InUse
    <3>4. \A c \in Conns : heap'.obj[c].src = heap.obj[c].src
      <4>1. u.obj[0].src = heap.obj[0].src
        BY <1>2, <3>2, HeapFields DEF ObjectRec
      <4> HIDE DEF u
      <4> QED BY <1>2, <3>1, <3>2, <4>1
    <3>5. Working' => Working
      BY <1>3, <1>4, <1>5, <3>4 DEF Working, LiveResults, CallbackKinds, Same
    <3> QED BY <1>1, <2>1, <2>2, <2>3, <3>1, <3>3, <3>5 DEF Contract
  <2>4. CASE ~handle
    <3>1. kind = "plain" /\ Conns = {0} /\ ~Working /\ ~heap.obj[0].connected
      BY <1>1, <2>1, <2>4 DEF Contract, Left, Conns
    <3>2. heap.obj[0].dead /\ Handling = 1 /\ 1 + Num(heap.events) < Wrap
      BY <1>1, <2>1, <2>4, <3>1 DEF Contract, Left, Handling
    <3>3. heap.obj[0].count = 1 + Num(heap.events)
      <4>1. Good(heap, Handling)
        BY <3>1 DEF LifeInv, Plain
      <4>2. heap.obj[0].count = (1 + Num(heap.events)) % Wrap
        BY <1>1, <3>2, <4>1 DEF Good, Counted
      <4>3. Num(heap.events) \in Nat /\ Wrap \in Nat
        BY <1>2, HeapFields, NumTyped, LifetimeAssumption
      <4> DEFINE n == 1 + Num(heap.events)
      <4>4. n \in 0 .. Wrap - 1 /\ n \in Int /\ 0 \in Int /\ n = Wrap * 0 + n
        BY <3>2, <4>3
      <4> HIDE DEF n
      <4>5. n % Wrap = n
        BY <4>4, Remainder
      <4> QED BY <4>2, <4>5 DEF n
    <3>4. /\ heap'.events = heap.events /\ heap'.obj[0].src = heap.obj[0].src /\ ~heap'.obj[0].connected
          /\ heap'.obj[0].st = "live" => heap'.obj[0].dead
          /\ heap'.obj[0].st # "live" => Num(heap.events) = 0
      BY <1>1, <1>2, <3>1, <3>2, <3>3, PlainEnds
    <3>5. Handling' = 0 /\ Num(heap.events) \in Nat
      BY <1>2, <1>5, HeapFields, NumTyped DEF Handling
    <3>6. Left'
      BY <1>1, <3>1, <3>2, <3>4, <3>5 DEF Left
    <3>7. ~Working'
      BY <1>3, <1>4, <1>5, <3>1, <3>4 DEF Working, LiveResults, CallbackKinds, Same
    <3> QED BY <1>1, <1>4, <2>1, <2>2, <2>4, <3>1, <3>4, <3>6, <3>7 DEF Contract
  <2> QED BY <2>3, <2>4
<1> QED BY <1>1, <1>6, <1>7 DEF Safe

\* The end of a RESULT event.
LEMMA SafeResultEnds ==
  ASSUME Safe, EventEnds, run.what # AboutObject PROVE Safe'
<1> DEFINE r == run.what
           u == Unreffed(heap, r)
<1>1. /\ run.at = "handler" /\ heap.res[r].st = "live" /\ heap' = u /\ run' = Loop
      /\ UNCHANGED <<lib, kind, handle, held, budget, tidy, stale>>
  BY DEF EventEnds, EventLives, MayUnref
<1>2. r \in Results
  BY SafeTypes DEF RunRec
<1>3. heap \in HeapRec /\ held \in [Results -> Nat] /\ tidy \in BOOLEAN /\ budget \in [BudgetKinds -> Nat]
  BY SafeTypes
<1>4. tidy => lib.up /\ handle
  BY <1>1, <1>2, LiveInCharge
<1>5. u \in HeapRec /\ (InUse(heap) => InUse(u))
  BY <1>2, <1>3, UnreffedParts
<1>6. tidy => Counts(u, held, Loop)
  BY <1>1, <1>2, <1>3, CountsReturned DEF Safe, Contract
<1> HIDE DEF u
<1>7. run' \in RunRec /\ run'.at \notin {"answered", "failed"} /\ run'.at \notin CallbackKinds
  BY <1>1 DEF Loop, RunRec, Objs, CallbackKinds
<1>8. tidy' => lib.up /\ handle /\ Counts(heap', held', run')
  BY <1>1, <1>4, <1>6
<1> QED BY <1>1, <1>3, <1>5, <1>7, <1>8, Works

----------------------------------------------------------------------------
(* The program lets go *)

LEMMA NumBounded == ASSUME NEW s \in Seq(EventKinds) PROVE Num(s) <= Len(s)
<1>1. DOMAIN s = 1 .. Len(s) /\ Len(s) \in Nat
  OBVIOUS
<1>2. IsFiniteSet(1 .. Len(s)) /\ Cardinality(1 .. Len(s)) = Len(s)
  <2>1. 1 \in Int /\ Len(s) \in Int
    BY <1>1
  <2>2. /\ IsFiniteSet(1 .. Len(s))
        /\ Cardinality(1 .. Len(s)) = IF 1 > Len(s) THEN 0 ELSE Len(s) - 1 + 1
    BY <2>1, FS_Interval, Zenon
  <2> QED BY <1>1, <2>2
<1>3. Where(s, AboutObject) \in SUBSET (1 .. Len(s))
  BY <1>1 DEF Where
<1>4. Cardinality(Where(s, AboutObject)) <= Cardinality(1 .. Len(s))
  BY <1>2, <1>3, FS_Subset
<1> QED BY <1>2, <1>4 DEF Num, Times

\* A pool none of whose members is connected is freed, or waits: nothing is
\* hung up and nothing is told.
LEMMA PoolLeft ==
  ASSUME NEW h \in HeapRec, kind = "pool", \A c \in Members : ~h.obj[c].connected
  PROVE  LET g == Freed(h)
         IN /\ g.events = h.events
            /\ \A c \in Members : g.obj[c].src = h.obj[c].src /\ ~g.obj[c].connected
<1>1. h.obj \in [Objs -> ObjectRec] /\ 0 \in Objs /\ Members \subseteq Objs \ {0}
  BY HeapFields DEF Members, Objs
<1>2. CASE h.obj[0].count # 0
  <2>1. Freed(h) = [h EXCEPT !.obj[0].dead = TRUE]
    BY <1>2 DEF Freed, FreedConn
  <2>2. Freed(h).events = h.events /\ \A c \in Members : Freed(h).obj[c] = h.obj[c]
    BY <1>1, <2>1, SameDead
  <2> QED BY <2>2
<1>3. CASE h.obj[0].count = 0
  <2> DEFINE idle == {c \in Members : h.obj[c].count = 0}
             g == IF lib.up THEN HungUp(h, {c \in idle : h.obj[c].connected}) ELSE h
             f == [c \in Objs |-> IF c \in {0} \cup idle THEN [g.obj[c] EXCEPT !.st = "freed"]
                                  ELSE [g.obj[c] EXCEPT !.dead = TRUE]]
  <2>1. Freed(h) = [g EXCEPT !.obj = f]
    BY <1>3 DEF Freed, PoolFreed
  <2>2. {c \in idle : h.obj[c].connected} = {}
    OBVIOUS
  <2>3. g \in HeapRec
    <3>1. {} \in SUBSET Members
      OBVIOUS
    <3> QED BY <2>2, <3>1, SoundHungUp DEF Sound
  <2>4. g.events = h.events /\ \A c \in Objs : g.obj[c] = h.obj[c]
    <3>1. \A c \in {} : ~TellsLastLoss(h, {}, c)
      OBVIOUS
    <3>2. HungUp(h, {}).events = h.events /\ \A c \in Objs : HungUp(h, {}).obj[c] = h.obj[c]
      BY DEF HungUp, HeapRec
    <3> QED BY <2>2, <3>2
  <2> HIDE DEF idle, g
  <2>5. \A o \in ObjectRec : /\ [o EXCEPT !.st = "freed"] \in ObjectRec /\ [o EXCEPT !.dead = TRUE] \in ObjectRec
                             /\ [o EXCEPT !.st = "freed"].src = o.src /\ [o EXCEPT !.dead = TRUE].src = o.src
                             /\ [o EXCEPT !.st = "freed"].connected = o.connected
                             /\ [o EXCEPT !.dead = TRUE].connected = o.connected
    BY DEF ObjectRec
  <2>6. \A c \in Objs : g.obj[c] \in ObjectRec /\ g.obj[c] = h.obj[c]
    BY <2>3, <2>4, HeapFields
  <2>7. \A c \in Objs : /\ f[c] \in ObjectRec /\ f[c].src = h.obj[c].src
                        /\ f[c].connected = h.obj[c].connected
    BY <2>5, <2>6
  <2>8. f \in [Objs -> ObjectRec]
    BY <2>7
  <2> HIDE DEF f
  <2>9. Freed(h).obj = f /\ Freed(h).events = g.events
    BY <2>1, <2>3, <2>8, HeapParts
  <2> QED BY <1>1, <2>4, <2>7, <2>9
<1> QED BY <1>2, <1>3

LEMMA SafeEsqlFree == ASSUME LifeInv, Safe, EsqlFree PROVE Safe'
<1>1. /\ handle /\ handle' = FALSE /\ heap' = Freed(heap) /\ tidy' = (tidy /\ SettledToFree)
      /\ UNCHANGED <<lib, kind, held, run, budget, stale>>
  BY DEF EsqlFree
<1>2. heap \in HeapRec /\ heap' \in HeapRec /\ Same(heap, heap')
  BY <1>1, SafeTypes, FreedParts
<1>3. Conns' = Conns
  BY <1>1 DEF Conns
<1>4. TypeInv'
  BY <1>1, <1>2, <1>3, SafeTypes DEF Safe, TypeInv, TypeOK
<1>5. ASSUME tidy' PROVE Contract'
  <2>1. Contract /\ SettledToFree /\ kind # "none" /\ InUse(heap)
    BY <1>1, <1>5 DEF Safe, Contract
  <2>2. Counts(heap, held, run)'
    <3>1. Counts(heap', held, run)
      BY <1>2, <2>1, CountsSame DEF Contract
    <3> QED BY <1>1, <3>1 DEF Counts, Balanced, Forgotten, Owns
  <2>3. \A c \in Conns : heap.obj[c].src = {} /\ ~heap.obj[c].connected
    BY <2>1 DEF SettledToFree, InUse
  <2>4. \A c \in Conns : heap'.obj[c].src = {} /\ ~heap'.obj[c].connected
    <3>1. CASE kind = "plain"
      BY <1>1, <1>2, <2>3, <3>1, PlainFreed DEF Conns
    <3>2. CASE kind = "pool"
      BY <1>1, <1>2, <2>3, <3>2, PoolLeft DEF Conns
    <3> QED BY <2>1, <3>1, <3>2, SafeTypes
  <2>5. ~Working'
    <3>1. LiveResults' = {}
      BY <1>2, <2>1 DEF LiveResults, Same, SettledToFree
    <3>2. run'.at \notin CallbackKinds
      BY <1>1, <2>1 DEF SettledToFree, CallbackKinds
    <3> QED BY <1>3, <2>4, <3>1, <3>2 DEF Working
  <2>6. Left'
    <3>1. CASE kind = "plain"
      <4>1. /\ heap'.events = heap.events
            /\ heap'.obj[0].st = "live" => heap'.obj[0].dead
            /\ heap'.obj[0].st # "live" => heap.obj[0].count = 0
        <5>1. ~heap.obj[0].connected /\ heap.obj[0].st = "live"
          BY <2>1, <2>3, <3>1 DEF Conns, InUse
        <5> QED BY <1>1, <1>2, <3>1, <5>1, PlainFreed
      <4>2. /\ Handling \in {0, 1} /\ Num(heap.events) \in Nat /\ Wrap \in Nat
            /\ Len(heap.events) \in Nat /\ Num(heap.events) <= Len(heap.events)
        BY <1>2, HeapFields, NumTyped, NumBounded, HandlingTyped, LifetimeAssumption
      <4>3. Len(heap.events) < Wrap - 1
        BY <2>1, <3>1 DEF SettledToFree
      <4> DEFINE n == Handling + Num(heap.events)
      <4>4. n \in Nat /\ n < Wrap /\ n \in 0 .. Wrap - 1 /\ n \in Int /\ 0 \in Int /\ n = Wrap * 0 + n
        BY <4>2, <4>3
      <4>5. heap.obj[0].count = n % Wrap
        BY <2>1, <3>1 DEF InUse, LifeInv, Plain, Good, Counted
      <4> HIDE DEF n
      <4>6. heap.obj[0].count = n
        BY <4>4, <4>5, Remainder
      <4>7. (Handling + Num(heap.events))' = n
        BY <1>1, <4>1 DEF Handling, n
      <4> QED BY <1>1, <3>1, <4>1, <4>4, <4>6, <4>7 DEF Left
    <3>2. CASE kind = "pool"
      <4>1. heap'.events = heap.events
        BY <1>1, <1>2, <2>3, <3>2, PoolLeft DEF Conns
      <4> QED BY <1>1, <2>1, <3>2, <4>1 DEF Left, SettledToFree
    <3> QED BY <2>1, <3>1, <3>2, SafeTypes
  <2> QED BY <1>1, <1>3, <2>1, <2>2, <2>4, <2>5, <2>6 DEF Contract
<1> QED BY <1>1, <1>4, <1>5, SafeTypes DEF Safe

LEMMA SafeNew == ASSUME LifeInv, Safe, NEW k \in {"plain", "pool"}, New(k) PROVE Safe'
<1> DEFINE o == [NoObject EXCEPT !.st = "live"]
           f == [b \in Objs |-> IF b = 0 \/ k = "pool" THEN o ELSE heap.obj[b]]
<1>1. /\ kind = "none" /\ Untouched /\ lib.up /\ kind' = k /\ handle' = TRUE
      /\ UNCHANGED <<lib, held, run, budget, tidy, stale>>
  BY DEF New, LifeInv
<1>2. /\ heap.obj = [b \in Objs |-> NoObject] /\ heap.events = <<>>
      /\ heap.res = [r \in Results |-> [st |-> "none", refs |-> 0, error |-> FALSE]]
      /\ heap \in HeapRec /\ run = Loop /\ held = [r \in Results |-> 0]
  BY <1>1, SafeTypes DEF Untouched
<1>3. 0 \in Objs /\ Members \subseteq Objs /\ Conns' \subseteq Objs /\ (k = "plain" => Conns' = {0})
  BY <1>1 DEF Objs, Members, Conns
<1>4. NoObject \in ObjectRec /\ NoObject.res = None /\ NoObject.src = {} /\ ~NoObject.connected /\ ~NoObject.dead
  <2>1. 0 \in 0 .. Wrap - 1
    BY LifetimeAssumption
  <2> QED BY <2>1 DEF NoObject, ObjectRec, None
<1>5. /\ o \in ObjectRec /\ o.res = None /\ o.src = {} /\ ~o.connected /\ ~o.dead /\ o.st = "live"
  BY <1>4 DEF ObjectRec
<1>6. heap' = [heap EXCEPT !.obj = f]
  BY DEF New
<1> HIDE DEF o
<1>7. f \in [Objs -> ObjectRec] /\ \A b \in Objs : f[b].res = heap.obj[b].res
  BY <1>2, <1>4, <1>5
<1>8. heap' \in HeapRec /\ Same(heap, heap') /\ heap'.obj = f
  BY <1>2, <1>6, <1>7, SameObjects
<1>9. \A b \in Conns' : f[b] = o /\ f[0] = o
  BY <1>1, <1>3
<1> HIDE DEF f
<1>10. TypeInv'
  <2>1. run.at \notin {"answered", "failed"} /\ run.at \notin CallbackKinds
    BY <1>2 DEF Loop, CallbackKinds
  <2> QED BY <1>1, <1>8, <2>1, SafeTypes DEF TypeInv, TypeOK
<1>11. ASSUME tidy PROVE Contract'
  <2>1. Contract
    BY <1>11 DEF Safe
  <2>2. Counts(heap, held, run)'
    <3>1. Counts(heap', held, run)
      BY <1>8, <2>1, CountsSame DEF Contract
    <3> QED BY <1>1, <3>1 DEF Counts, Balanced, Forgotten, Owns
  <2>3. InUse(heap)'
    <3>1. Conns' # {}
      BY <1>1, LifetimeAssumption DEF Conns, Members
    <3> QED BY <1>5, <1>8, <1>9, <3>1 DEF InUse
  <2> QED BY <1>1, <2>1, <2>2, <2>3 DEF Contract
<1> QED BY <1>1, <1>10, <1>11 DEF Safe

LEMMA LibKept ==
  ASSUME LibInv, [Next]_vars
  PROVE  /\ EsqlInit => lib' \in LibRec /\ (lib.up => lib'.up)
         /\ EsqlShutdown => lib' \in LibRec /\ (lib.up /\ ~LastUser(lib.inits) => lib'.up)
<1>1. lib \in LibRec /\ lib' \in LibRec
  BY LibStep DEF LibInv
<1>2. EsqlInit => (lib.up => lib'.up)
  BY <1>1 DEF EsqlInit, LibRec
<1>3. ASSUME EsqlShutdown, lib.up, ~LastUser(lib.inits) PROVE lib'.up
  <2>1. lib' = [lib EXCEPT !.inits = @ - 1, !.users = @ - 1, !.up = @ /\ ~LastUser(lib.inits)]
    BY <1>3 DEF EsqlShutdown
  <2>2. lib'.up = (lib.up /\ ~LastUser(lib.inits))
    BY <1>1, <2>1 DEF LibRec
  <2> QED BY <1>3, <2>2
<1> QED BY <1>1, <1>2, <1>3

\* A step of the library alone.
LEMMA SafeLibrary == ASSUME LibInv, Safe, Next, EsqlInit \/ EsqlShutdown PROVE Safe'
<1>1. /\ UNCHANGED <<kind, heap, handle, held, run, stale>> /\ run.at = "loop"
      /\ lib' \in LibRec /\ budget' \in [BudgetKinds -> Nat] /\ tidy' \in BOOLEAN /\ (tidy' => tidy)
  <2>1. lib' \in LibRec
    BY LibKept
  <2>2. CASE EsqlInit
    <3>1. budget' \in [BudgetKinds -> Nat]
      BY <2>2, Spent DEF EsqlInit, BudgetKinds
    <3> QED BY <2>1, <2>2, <3>1, SafeTypes DEF EsqlInit
  <2>3. CASE EsqlShutdown
    BY <2>1, <2>3, SafeTypes DEF EsqlShutdown
  <2> QED BY <2>2, <2>3
<1>2. Conns' = Conns
  BY <1>1 DEF Conns
<1>3. TypeInv'
  BY <1>1, <1>2 DEF Safe, TypeInv, TypeOK
<1>4. ASSUME tidy', Working PROVE lib'.up
  <2>1. lib.up
    BY <1>1, <1>4, InCharge
  <2>2. EsqlShutdown => ~LastUser(lib.inits)
    <3> SUFFICES ASSUME EsqlShutdown, LastUser(lib.inits) PROVE FALSE
      OBVIOUS
    <3>1. SettledToShutDown
      BY <1>4 DEF EsqlShutdown
    <3> QED BY <1>1, <1>4, <3>1 DEF Working, SettledToShutDown, CallbackKinds
  <2> QED BY <2>1, <2>2, LibKept
<1>5. Working' <=> Working
  BY <1>1, <1>2 DEF Working, LiveResults
<1>6. ASSUME tidy' PROVE Contract'
  <2>1. Contract
    BY <1>1, <1>6 DEF Safe
  <2>2. Counts(heap, held, run)' /\ (InUse(heap) => InUse(heap)') /\ (Left => Left')
    BY <1>1, <1>2, <2>1 DEF Contract, Counts, Balanced, Forgotten, Owns, InUse, Left, Handling
  <2> QED BY <1>1, <1>2, <1>4, <1>5, <1>6, <2>1, <2>2 DEF Contract
<1> QED BY <1>3, <1>6 DEF Safe

----------------------------------------------------------------------------
(* Nothing freed is used *)

LEMMA NothingFreedNamed == ASSUME Safe, tidy PROVE ~NamesFreed
<1>1. Contract
  BY DEF Safe
<1>2. heap \in HeapRec /\ run \in RunRec /\ heap.events \in Seq(EventKinds)
  BY SafeTypes, HeapFields
<1>3. ASSUME Working PROVE OwnersLive /\ \A c \in Conns : Alive(c)
  BY <1>1, <1>3 DEF Contract, InUse, OwnersLive, Alive
<1>4. ASSUME NEW r \in Results, held[r] + Times(heap.events, r) + Owns(run, r) > 0
      PROVE  heap.res[r].st = "live" /\ MayUnref(r)
  <2>1. heap.res[r].st = "live"
    BY <1>1, <1>4 DEF Contract, Counts, Balanced
  <2>2. Working
    BY <2>1 DEF Working, LiveResults
  <2> QED BY <1>3, <2>1, <2>2 DEF MayUnref
<1>5. \A r \in Results : held[r] \in Nat /\ Times(heap.events, r) \in Nat /\ Owns(run, r) \in {0, 1}
  BY SafeTypes, HeapFields DEF Owns
<1>6. ASSUME Handling + Num(heap.events) > 0 PROVE heap.obj[0].st = "live"
  <2>1. CASE handle
    BY <1>1, <2>1 DEF Contract, InUse
  <2>2. CASE ~handle /\ kind = "plain"
    BY <1>1, <1>6, <2>2 DEF Contract, Left
  <2>3. CASE ~handle /\ kind # "plain"
    <3>1. heap.events = <<>> /\ run.at = "loop"
      BY <1>1, <2>3 DEF Contract, Left
    <3>2. Handling = 0 /\ Num(heap.events) = 0
      <4>1. Where(<<>>, AboutObject) = {}
        BY DEF Where
      <4> QED BY <3>1, <4>1, FS_EmptySet DEF Handling, Num, Times
    <3> QED BY <1>6, <3>2
  <2> QED BY <2>1, <2>2, <2>3
<1>7. ~(AtLoop /\ \E c \in Conns : heap.obj[c].src # {} /\ ~Alive(c))
  BY <1>3 DEF Working
<1>8. ~(run.at \in CallbackKinds /\ ~Alive(run.c))
  <2> SUFFICES ASSUME run.at \in CallbackKinds PROVE Alive(run.c)
    OBVIOUS
  <2>1. run.c \in Conns /\ Working
    BY DEF Safe, TypeInv, Working
  <2> QED BY <1>3, <2>1
<1>9. ~(run.at \in {"answered", "failed"} /\ ~MayUnref(run.what))
  <2> SUFFICES ASSUME run.at \in {"answered", "failed"} PROVE MayUnref(run.what)
    OBVIOUS
  <2>1. run.what \in Results /\ Owns(run, run.what) = 1
    BY DEF Safe, TypeInv, Owns
  <2> QED BY <1>4, <1>5, <2>1
<1>10. ~(AtLoop /\ heap.events # <<>> /\ ~EventLives(Head(heap.events)))
  <2> SUFFICES ASSUME AtLoop, heap.events # <<>> PROVE EventLives(Head(heap.events))
    OBVIOUS
  <2> DEFINE event == Head(heap.events)
  <2>1. /\ event \in EventKinds /\ Tail(heap.events) \in Seq(EventKinds)
        /\ \A x : Times(heap.events, x) = Times(Tail(heap.events), x) + Is(event, x)
    BY <1>2, TimesTail
  <2>2. Times(Tail(heap.events), event) \in Nat
    BY <2>1, WhereFinite
  <2>3. Times(heap.events, event) > 0
    BY <2>1, <2>2 DEF Is
  <2> HIDE DEF event
  <2>4. CASE event = AboutObject
    <3>1. Num(heap.events) > 0 /\ Num(heap.events) \in Nat /\ Handling \in {0, 1}
      BY <1>2, <2>3, <2>4, NumTyped, HandlingTyped DEF Num
    <3>2. heap.obj[0].st = "live"
      BY <1>6, <3>1
    <3> QED BY <2>4, <3>2 DEF EventLives, event
  <2>5. CASE event # AboutObject
    <3>1. event \in Results
      BY <2>1, <2>5 DEF EventKinds
    <3> QED BY <1>4, <1>5, <2>3, <2>5, <3>1 DEF EventLives, event
  <2> QED BY <2>4, <2>5
<1>11. ~(run.at = "handler" /\ ~EventLives(run.what))
  <2> SUFFICES ASSUME run.at = "handler" PROVE EventLives(run.what)
    OBVIOUS
  <2>1. CASE run.what = AboutObject
    BY <1>2, <1>6, <2>1, NumTyped DEF Handling, EventLives
  <2>2. CASE run.what # AboutObject
    <3>1. run.what \in Results /\ Owns(run, run.what) = 1
      BY <1>2, <2>2 DEF RunRec, Owns
    <3> QED BY <1>4, <1>5, <2>2, <3>1 DEF EventLives
  <2> QED BY <2>1, <2>2
<1>12. ~(run.at = "handler" /\ run.what # AboutObject /\ ~MayUnref(run.what))
  <2> SUFFICES ASSUME run.at = "handler", run.what # AboutObject PROVE MayUnref(run.what)
    OBVIOUS
  <2>1. run.what \in Results /\ Owns(run, run.what) = 1
    BY <1>2 DEF RunRec, Owns
  <2> QED BY <1>4, <1>5, <2>1
<1>13. ~(\E r \in Results : held[r] > 0 /\ ~MayUnref(r))
  BY <1>4, <1>5
<1> QED BY <1>7, <1>8, <1>9, <1>10, <1>11, <1>12, <1>13 DEF NamesFreed

LEMMA SafeUsesFreed == ASSUME Safe, UsesFreed PROVE Safe'
<1>1. NamesFreed /\ stale' = TRUE /\ UNCHANGED <<lib, kind, heap, handle, held, run, budget, tidy>>
  BY DEF UsesFreed
<1>2. ~tidy
  BY <1>1, NothingFreedNamed
<1>3. Conns' = Conns
  BY <1>1 DEF Conns
<1>4. TypeInv'
  BY <1>1, <1>3 DEF Safe, TypeInv, TypeOK
<1> QED BY <1>1, <1>2, <1>4 DEF Safe

LEMMA SafeStutters == ASSUME Safe, UNCHANGED vars PROVE Safe'
  BY DEF Safe, TypeInv, TypeOK, Contract, Counts, Balanced, Forgotten, Owns, InUse, Working, Left,
         Handling, LiveResults, Conns, vars

LEMMA SafeInit == Init => Safe
<1> SUFFICES ASSUME Init PROVE Safe
  OBVIOUS
<1>1. NoObject \in ObjectRec /\ NoObject.res = None /\ NoObject.src = {} /\ ~NoObject.connected
  <2>1. 0 \in 0 .. Wrap - 1
    BY LifetimeAssumption
  <2> QED BY <2>1 DEF NoObject, ObjectRec, None
<1>2. /\ heap.obj = [o \in Objs |-> NoObject] /\ heap.econn = 0 /\ heap.events = <<>>
      /\ heap.res = [r \in Results |-> [st |-> "none", refs |-> 0, error |-> FALSE]]
      /\ heap \in HeapRec
  BY <1>1 DEF Init, HeapRec, ResultRec
<1>3. /\ kind = "none" /\ run = Loop /\ run.at = "loop" /\ ~handle /\ ~stale /\ Conns = {}
      /\ held = [r \in Results |-> 0]
  BY DEF Init, Loop, Conns
<1>4. TypeInv
  <2>1. Loop \in RunRec /\ run.at \notin CallbackKinds
    BY <1>3 DEF Loop, RunRec, Objs, CallbackKinds
  <2>2. budget \in [BudgetKinds -> Nat]
    BY LifetimeAssumption DEF Init
  <2>3. lib \in LibRec /\ held \in [Results -> Nat]
    BY <1>3 DEF Init, LibRec
  <2>4. handle \in BOOLEAN /\ tidy \in BOOLEAN /\ stale \in BOOLEAN
    BY DEF Init
  <2>5. TypeOK
    BY <1>2, <1>3, <2>1, <2>2, <2>3, <2>4 DEF TypeOK
  <2> QED BY <1>3, <2>1, <2>5 DEF TypeInv
<1>5. Counts(heap, held, run)
  <2>1. \A r \in Results : /\ heap.res[r].st = "none" /\ heap.res[r].refs = 0 /\ ~heap.res[r].error
                           /\ held[r] = 0 /\ Owns(run, r) = 0 /\ Times(heap.events, r) = 0
    <3>1. \A r : Where(<<>>, r) = {}
      BY DEF Where
    <3>2. \A r : Times(heap.events, r) = 0
      BY <1>2, <3>1, FS_EmptySet DEF Times
    <3>3. \A r \in Results : Owns(run, r) = 0 /\ held[r] = 0
      BY <1>3 DEF Owns
    <3>4. \A r \in Results : heap.res[r] = [st |-> "none", refs |-> 0, error |-> FALSE]
      BY <1>2
    <3> QED BY <3>2, <3>3, <3>4
  <2>2. \A c \in Objs : heap.obj[c].res = None
    BY <1>1, <1>2
  <2> QED BY <1>3, <2>1, <2>2, HeapFields, <1>2 DEF Counts, Balanced, Forgotten
<1>6. LiveResults = {}
  BY <1>2 DEF LiveResults
<1> QED BY <1>2, <1>3, <1>4, <1>5, <1>6 DEF Safe, Contract, Working, Left, CallbackKinds

LEMMA SafeStep == LifeInv /\ LibInv /\ Safe /\ [Next]_vars => Safe'
<1> SUFFICES ASSUME LifeInv, LibInv, Safe, [Next]_vars PROVE Safe'
  OBVIOUS
<1>1. ASSUME Next, Program PROVE Safe'
  <2>1. ASSUME NEW k \in {"plain", "pool"}, New(k) PROVE Safe'
    BY <2>1, SafeNew
  <2>2. ASSUME NEW c \in Conns, Query(c) PROVE Safe'
    BY <2>2, SafeQuery
  <2>3. ASSUME NEW on \in BOOLEAN, TimeoutSet(on) PROVE Safe'
    BY <2>3, SafeTimeoutSet
  <2>4. ASSUME NEW r \in Results, Hold(r) \/ Release(r) PROVE Safe'
    BY <2>4, SafeHold, SafeRelease
  <2> QED BY <1>1, <2>1, <2>2, <2>3, <2>4, SafeLibrary, SafeConnect, SafeDisconnect, SafeEsqlFree DEF Program
<1>2. ASSUME NEW c \in Conns, Io(c) \/ Timers(c) PROVE Safe'
  BY <1>2, SafeWaits, SafeCompleteInit, SafeCompleteQuery, SafeFails, SafeTimers DEF Io
<1>3. ASSUME Events PROVE Safe'
  BY <1>3, SafeEventStarts, SafeEventEnds, SafeResultEnds DEF Events
<1>4. ASSUME CallbackReturns \/ UsesFreed PROVE Safe'
  BY <1>4, SafeCallbackReturns, SafeUsesFreed
<1>5. CASE UNCHANGED vars
  BY <1>5, SafeStutters
<1>6. CASE Next
  BY <1>1, <1>2, <1>3, <1>4, <1>6 DEF Next
<1> QED BY <1>5, <1>6

LEMMA SafeInvariant == Spec => []Safe
<1>1. Init => LibInv
  BY DEF Init, LibInv, LibRec
<1> QED BY <1>1, SafeInit, SafeStep, LibStep, LifeInvariant, PTL DEF Spec

\* Every variable has its type in every reachable state: an object's event_count
\* stays in its range, and what the main loop calls back about is an object.
THEOREM TypeCorrect == Spec => []TypeOK
<1>1. Safe => TypeOK
  BY DEF Safe, TypeInv
<1> QED BY <1>1, SafeInvariant, PTL

\* A program that keeps to the contract never comes to the use of an object, an
\* event or a result that has been freed, whatever is still to be delivered and
\* in whatever order.
THEOREM NoStaleUseCorrect == Spec => []NoStaleUse
<1>1. Safe => NoStaleUse
  BY DEF Safe, Contract, NoStaleUse
<1> QED BY <1>1, SafeInvariant, PTL

\* The count of a result (esql_res_ref, esql_res_unref) is the references of the
\* program, of the events to come and of the callback or handler that is running.
THEOREM RefsExactCorrect == Spec => []RefsExact
<1>1. Safe => RefsExact
  <2> SUFFICES ASSUME Safe, tidy, NEW r \in Results
               PROVE  heap.res[r].refs = held[r] + OwnRefs(r)
    BY DEF RefsExact
  <2>1. heap.res[r].refs = held[r] + Times(heap.events, r) + Owns(run, r)
    BY DEF Safe, Contract, Counts, Balanced
  <2>2. held[r] \in Nat /\ Times(heap.events, r) \in Nat /\ Owns(run, r) \in {0, 1}
    BY SafeTypes, HeapFields DEF Owns
  <2>3. OwnRefs(r) = Times(heap.events, r) + Owns(run, r)
    BY DEF OwnRefs, Times, Where, Owns
  <2> QED BY <2>1, <2>2, <2>3
<1> QED BY <1>1, SafeInvariant, PTL
=============================================================================
