-------------------------- MODULE WebStreamProofs ---------------------------
(***************************************************************************)
(* Proofs about the event stream and its websockets: the ring buffer, the  *)
(* order of the cursors, the binary search and the query, and with them    *)
(* what a client is sent and what the pages of a listing contain.          *)
(***************************************************************************)
EXTENDS WebStream, NatLemmas

(* The ring buffer *)

Rings(S) == [start : 0 .. Capacity - 1, end : -1 .. Capacity - 1,
             size : 0 .. Capacity, buf : [0 .. Capacity - 1 -> S]]

\* The ring holds the last of the entries; while it is not full, they start
\* at 0, and when it is, the newest is the one before start.
Holds(r, entries) ==
    /\ r.size = IF Len(entries) < Capacity THEN Len(entries) ELSE Capacity
    /\ r.size < Capacity => r.start = 0 /\ r.end = r.size - 1
    /\ r.size = Capacity =>
          r.end = IF r.start = 0 THEN Capacity - 1 ELSE r.start - 1
    /\ \A i \in 0 .. r.size - 1 :
          Get(r, i) = entries[Len(entries) - r.size + i + 1]

\* x % Capacity, of positions that are beyond the end by less than a round.
Wrapped(x) == IF x < Capacity THEN x ELSE x - Capacity

LEMMA ModIs ==
    ASSUME NEW x \in Nat, x < 2 * Capacity
    PROVE  x % Capacity = Wrapped(x)
<1>1. Capacity \in Nat \ {0}
  BY CapacityAssumption
<1>2. CASE x < Capacity
  BY <1>1, <1>2 DEF Wrapped
<1>3. CASE x >= Capacity
  BY <1>1, <1>3 DEF Wrapped
<1> QED
  BY <1>1, <1>2, <1>3

LEMMA GetIn ==
    ASSUME NEW S, NEW r \in Rings(S), NEW i \in 0 .. Capacity - 1
    PROVE  Get(r, i) \in S
<1>1. r.start \in 0 .. Capacity - 1 /\ r.buf \in [0 .. Capacity - 1 -> S]
  BY DEF Rings
<1>2. r.start + i \in Nat /\ r.start + i < 2 * Capacity
  BY <1>1, CapacityAssumption
<1>3. (r.start + i) % Capacity \in 0 .. Capacity - 1
  <2>1. (r.start + i) % Capacity = Wrapped(r.start + i)
    BY <1>2, ModIs, Zenon
  <2> QED
    BY <1>1, <1>2, <2>1, CapacityAssumption DEF Wrapped
<1> QED
  BY <1>1, <1>3 DEF Get

LEMMA ValuesIs ==
    ASSUME NEW S, NEW r \in Rings(S)
    PROVE  /\ Values(r) \in Seq(S) /\ Len(Values(r)) = r.size
           /\ \A i \in 1 .. r.size : Values(r)[i] = Get(r, i - 1)
<1>1. r.size \in 0 .. Capacity /\ Capacity \in Nat
  BY CapacityAssumption DEF Rings
<1>2. \A i \in 1 .. r.size : Get(r, i - 1) \in S
  <2> TAKE i \in 1 .. r.size
  <2>1. i - 1 \in 0 .. Capacity - 1
    BY <1>1
  <2> QED
    BY <2>1, GetIn
<1> QED
  BY <1>1, <1>2 DEF Values

LEMMA EmptyRingIs ==
    ASSUME NEW S, NEW zero \in S
    PROVE  EmptyRing(zero) \in Rings(S) /\ Holds(EmptyRing(zero), <<>>)
BY CapacityAssumption DEF EmptyRing, Rings, Holds

LEMMA AddIs ==
    ASSUME NEW S, NEW r \in Rings(S), NEW e \in S
    PROVE  /\ Add(r, e) \in Rings(S)
           /\ Add(r, e).size = IF r.size = Capacity THEN r.size ELSE r.size + 1
           /\ Add(r, e).start =
                 IF r.size = Capacity THEN (r.start + 1) % Capacity ELSE r.start
           /\ Add(r, e).end = (r.end + 1) % Capacity
           /\ Add(r, e).buf = [r.buf EXCEPT ![(r.end + 1) % Capacity] = e]
<1>1. /\ r.start \in 0 .. Capacity - 1 /\ r.end \in -1 .. Capacity - 1
      /\ r.size \in 0 .. Capacity /\ r.buf \in [0 .. Capacity - 1 -> S]
      /\ Capacity \in Nat \ {0}
  BY CapacityAssumption DEF Rings
<1>2. (r.end + 1) % Capacity \in 0 .. Capacity - 1
  <2>1. r.end + 1 \in Nat /\ r.end + 1 < 2 * Capacity
    BY <1>1
  <2>2. (r.end + 1) % Capacity = Wrapped(r.end + 1)
    BY <2>1, ModIs, Zenon
  <2> QED
    BY <1>1, <2>1, <2>2 DEF Wrapped
<1>3. (r.start + 1) % Capacity \in 0 .. Capacity - 1
  <2>1. r.start + 1 \in Nat /\ r.start + 1 < 2 * Capacity
    BY <1>1
  <2>2. (r.start + 1) % Capacity = Wrapped(r.start + 1)
    BY <2>1, ModIs, Zenon
  <2> QED
    BY <1>1, <2>1, <2>2 DEF Wrapped
<1>4. [r.buf EXCEPT ![(r.end + 1) % Capacity] = e] \in [0 .. Capacity - 1 -> S]
  BY <1>1, <1>2
<1>5. Add(r, e) = [r EXCEPT
          !.start = IF r.size = Capacity THEN (r.start + 1) % Capacity ELSE r.start,
          !.size = IF r.size = Capacity THEN r.size ELSE r.size + 1,
          !.end = (r.end + 1) % Capacity,
          !.buf = [r.buf EXCEPT ![(r.end + 1) % Capacity] = e]]
  BY DEF Add
<1>6. PICK start \in 0 .. Capacity - 1, end \in 0 .. Capacity - 1,
           buf \in [0 .. Capacity - 1 -> S] :
         /\ start = IF r.size = Capacity THEN (r.start + 1) % Capacity ELSE r.start
         /\ end = (r.end + 1) % Capacity
         /\ buf = [r.buf EXCEPT ![(r.end + 1) % Capacity] = e]
  BY <1>1, <1>2, <1>3, <1>4
<1>7. PICK size \in 0 .. Capacity :
         size = IF r.size = Capacity THEN r.size ELSE r.size + 1
  BY <1>1
<1>8. Add(r, e) = [r EXCEPT !.start = start, !.size = size, !.end = end, !.buf = buf]
  BY <1>5, <1>6, <1>7
<1> HIDE <1>5
<1>9. end \in -1 .. Capacity - 1
  BY <1>1
<1>10. /\ Add(r, e) \in Rings(S)
       /\ Add(r, e).start = start /\ Add(r, e).size = size
       /\ Add(r, e).end = end /\ Add(r, e).buf = buf
  BY <1>8, <1>9 DEF Rings
<1> QED
  BY <1>6, <1>7, <1>10

\* Add overwrites the oldest entry of a full ring, and no other.
LEMMA AddHolds ==
    ASSUME NEW S, NEW r \in Rings(S), NEW entries \in Seq(S), NEW e \in S,
           Holds(r, entries)
    PROVE  Holds(Add(r, e), Append(entries, e))
<1>1. /\ r.start \in 0 .. Capacity - 1 /\ r.end \in -1 .. Capacity - 1
      /\ r.size \in 0 .. Capacity /\ r.buf \in [0 .. Capacity - 1 -> S]
      /\ Capacity \in Nat \ {0}
  BY CapacityAssumption DEF Rings
<1> DEFINE a == Add(r, e)
           now == Append(entries, e)
<1>2. /\ a \in Rings(S)
      /\ a.size = IF r.size = Capacity THEN r.size ELSE r.size + 1
      /\ a.start = IF r.size = Capacity THEN (r.start + 1) % Capacity ELSE r.start
      /\ a.end = (r.end + 1) % Capacity
      /\ a.buf = [r.buf EXCEPT ![(r.end + 1) % Capacity] = e]
  BY AddIs
<1>3. /\ Len(entries) \in Nat /\ Len(now) = Len(entries) + 1
      /\ now[Len(entries) + 1] = e
      /\ \A k \in 1 .. Len(entries) : now[k] = entries[k]
  OBVIOUS
<1> HIDE DEF a, now
<1>4. CASE r.size < Capacity
  <2>1. /\ r.size = Len(entries) /\ r.start = 0 /\ r.end = r.size - 1
        /\ \A i \in 0 .. r.size - 1 : Get(r, i) = entries[i + 1]
    BY <1>1, <1>3, <1>4 DEF Holds
  <2>2. (r.end + 1) % Capacity = r.size
    <3>1. r.end + 1 = r.size /\ r.size < 2 * Capacity /\ r.size \in Nat
      BY <1>1, <1>4, <2>1
    <3>2. r.size % Capacity = Wrapped(r.size)
      BY <3>1, ModIs, Zenon
    <3> QED
      BY <1>4, <3>1, <3>2 DEF Wrapped
  <2>3. /\ a.size = r.size + 1 /\ a.start = 0 /\ a.end = r.size
        /\ a.buf = [r.buf EXCEPT ![r.size] = e]
    BY <1>1, <1>2, <1>4, <2>1, <2>2
  <2>4. ASSUME NEW i \in 0 .. a.size - 1
        PROVE  Get(a, i) = now[Len(now) - a.size + i + 1]
    <3>1. i \in 0 .. r.size /\ i \in 0 .. Capacity - 1
      BY <1>1, <1>4, <2>3
    <3>2. i % Capacity = i
      <4>1. i \in Nat /\ i < 2 * Capacity /\ i < Capacity
        BY <1>1, <3>1
      <4>2. i % Capacity = Wrapped(i)
        BY <4>1, ModIs, Zenon
      <4> QED
        BY <4>1, <4>2 DEF Wrapped
    <3>3. Get(a, i) = a.buf[i] /\ Get(r, i) = r.buf[i]
      BY <2>1, <2>3, <3>1, <3>2 DEF Get
    <3>4. Len(now) - a.size + i + 1 = i + 1
      BY <1>3, <2>1, <2>3, <3>1
    <3>5. CASE i = r.size
      <4>1. a.buf[i] = e
        BY <1>1, <1>4, <2>3, <3>5
      <4> QED
        BY <1>3, <2>1, <3>3, <3>4, <3>5, <4>1
    <3>6. CASE i # r.size
      <4>1. a.buf[i] = r.buf[i] /\ i \in 0 .. r.size - 1
        BY <1>1, <2>3, <3>1, <3>6
      <4>2. i + 1 \in 1 .. Len(entries)
        BY <1>1, <2>1, <4>1
      <4> QED
        BY <1>3, <2>1, <3>3, <3>4, <4>1, <4>2
    <3> QED
      BY <3>5, <3>6
  <2>5. a.size = Capacity =>
           a.end = IF a.start = 0 THEN Capacity - 1 ELSE a.start - 1
    BY <1>1, <2>3
  <2>6. /\ a.size = IF Len(now) < Capacity THEN Len(now) ELSE Capacity
        /\ a.size < Capacity => a.start = 0 /\ a.end = a.size - 1
    BY <1>1, <1>3, <1>4, <2>1, <2>3
  <2> QED
    BY <2>4, <2>5, <2>6 DEF Holds, a, now
<1>5. CASE r.size = Capacity
  <2>1. /\ Len(entries) >= Capacity
        /\ r.end = IF r.start = 0 THEN Capacity - 1 ELSE r.start - 1
        /\ \A i \in 0 .. Capacity - 1 :
              Get(r, i) = entries[Len(entries) - Capacity + i + 1]
    <3>1. Len(entries) >= Capacity
      BY <1>1, <1>3, <1>5 DEF Holds
    <3> QED
      BY <1>5, <3>1 DEF Holds
  <2>2. (r.end + 1) % Capacity = r.start
    <3>1. r.end + 1 \in Nat /\ r.end + 1 < 2 * Capacity
      BY <1>1
    <3>2. (r.end + 1) % Capacity = Wrapped(r.end + 1)
      BY <3>1, ModIs, Zenon
    <3> QED
      BY <1>1, <2>1, <3>1, <3>2 DEF Wrapped
  <2>3. (r.start + 1) % Capacity =
           IF r.start = Capacity - 1 THEN 0 ELSE r.start + 1
    <3>1. r.start + 1 \in Nat /\ r.start + 1 < 2 * Capacity
      BY <1>1
    <3>2. (r.start + 1) % Capacity = Wrapped(r.start + 1)
      BY <3>1, ModIs, Zenon
    <3> QED
      BY <1>1, <3>2 DEF Wrapped
  <2>4. /\ a.size = Capacity /\ a.end = r.start
        /\ a.start = IF r.start = Capacity - 1 THEN 0 ELSE r.start + 1
        /\ a.buf = [r.buf EXCEPT ![r.start] = e]
    BY <1>2, <1>5, <2>2, <2>3
  <2>5. a.end = IF a.start = 0 THEN Capacity - 1 ELSE a.start - 1
    BY <1>1, <2>4
  <2>6. ASSUME NEW i \in 0 .. Capacity - 1
        PROVE  Get(a, i) = now[Len(now) - Capacity + i + 1]
    <3>1. PICK start \in 0 .. Capacity - 1, next \in 0 .. Capacity - 1 :
             /\ start = r.start /\ next = a.start
             /\ next = IF start = Capacity - 1 THEN 0 ELSE start + 1
      BY <1>1, <2>4, SMTT(30)
    <3>2. next + i \in Nat /\ next + i < 2 * Capacity
      BY <1>1
    <3>3. (next + i) % Capacity = Wrapped(next + i)
      BY <3>2, ModIs, Zenon
    <3>4. Get(a, i) = a.buf[(next + i) % Capacity]
      BY <3>1 DEF Get
    <3>5. PICK len \in Nat : len = Len(entries) /\ Len(now) = len + 1 /\ len >= Capacity
      BY <1>3, <2>1
    <3>6. CASE i = Capacity - 1
      <4>1. (next + i) % Capacity = start
        BY <1>1, <3>1, <3>3, <3>6, SMTT(30) DEF Wrapped
      <4>2. Get(a, i) = e
        BY <1>1, <2>4, <3>1, <3>4, <4>1
      <4>3. Len(now) - Capacity + i + 1 = Len(entries) + 1
        BY <1>1, <3>5, <3>6
      <4> QED
        BY <1>3, <4>2, <4>3
    <3>7. CASE i # Capacity - 1
      <4>1. /\ i + 1 \in 0 .. Capacity - 1 /\ start + (i + 1) \in Nat
            /\ start + (i + 1) < 2 * Capacity
        BY <1>1, <3>7
      <4>2. (start + (i + 1)) % Capacity = Wrapped(start + (i + 1))
        BY <4>1, ModIs, Zenon
      <4>3. Wrapped(next + i) = Wrapped(start + (i + 1))
        BY <1>1, <3>1, <3>7, SMTT(30) DEF Wrapped
      <4>4. /\ Wrapped(start + (i + 1)) # start
            /\ Wrapped(start + (i + 1)) \in 0 .. Capacity - 1
        BY <1>1, <4>1 DEF Wrapped
      <4>5. Get(a, i) = r.buf[(start + (i + 1)) % Capacity]
        BY <1>1, <2>4, <3>1, <3>3, <3>4, <4>2, <4>3, <4>4
      <4>6. Get(a, i) = Get(r, i + 1)
        BY <3>1, <4>5 DEF Get
      <4>7. /\ len - Capacity + (i + 1) + 1 = len + 1 - Capacity + i + 1
            /\ len + 1 - Capacity + i + 1 \in 1 .. len
        BY <1>1, <3>5, <4>1
      <4>8. Get(r, i + 1) = entries[len - Capacity + (i + 1) + 1]
        BY <2>1, <3>5, <4>1
      <4>9. PICK k \in 1 .. len : k = len + 1 - Capacity + i + 1
        BY <4>7
      <4>10. Get(a, i) = entries[k] /\ now[k] = entries[k]
        BY <1>3, <3>5, <4>6, <4>7, <4>8, <4>9
      <4>11. Len(now) - Capacity + i + 1 = k
        BY <1>1, <3>5, <4>9
      <4> QED
        BY <4>10, <4>11
    <3> QED
      BY <3>6, <3>7
  <2>7. a.size = IF Len(now) < Capacity THEN Len(now) ELSE Capacity
    BY <1>1, <1>3, <2>1, <2>4
  <2>8. \A i \in 0 .. a.size - 1 : Get(a, i) = now[Len(now) - a.size + i + 1]
    BY <2>4, <2>6
  <2>9. a.size < Capacity => a.start = 0 /\ a.end = a.size - 1
    BY <1>1, <2>4
  <2>10. Holds(a, now)
    BY <2>5, <2>7, <2>8, <2>9 DEF Holds
  <2> QED
    BY <2>10 DEF a, now
<1> QED
  BY <1>1, <1>4, <1>5
-----------------------------------------------------------------------------
(* The binary search *)

Spans(r) == (0 .. r.size) \X (0 .. r.size)

Half(p) == (p[1] + p[2]) \div 2

\* One round of the search, f being the search of a shorter span.
Narrow(f, r, c, p) == IF p[1] >= p[2] THEN p[1]
                      ELSE IF c > Get(r, Half(p)).cursor THEN f[<<Half(p) + 1, p[2]>>]
                      ELSE f[<<p[1], Half(p)>>]

IsSearch(f, r, c) == f = [p \in Spans(r) |-> Narrow(f, r, c, p)]

LEMMA HalfIs ==
    ASSUME NEW S, NEW r \in Rings(S), NEW p \in Spans(r), p[1] < p[2]
    PROVE  /\ p[1] <= Half(p) /\ Half(p) < p[2]
           /\ <<Half(p) + 1, p[2]>> \in Spans(r) /\ <<p[1], Half(p)>> \in Spans(r)
<1>1. r.size \in Nat
  BY CapacityAssumption DEF Rings
<1>2. p[1] \in 0 .. r.size /\ p[2] \in 0 .. r.size
  BY DEF Spans
<1>3. p[1] <= Half(p) /\ Half(p) < p[2] /\ Half(p) \in Int
  BY <1>1, <1>2 DEF Half
<1> QED
  BY <1>1, <1>2, <1>3 DEF Spans

\* A span of at most d is searched by f.
Searches(f, r, c, d) ==
    /\ f = [p \in Spans(r) |-> f[p]]
    /\ \A p \in Spans(r) : p[2] - p[1] <= d => f[p] = Narrow(f, r, c, p)

LEMMA SearchesNext ==
    ASSUME NEW S, NEW r \in Rings(S), NEW c, NEW d \in Nat, NEW f,
           Searches(f, r, c, d)
    PROVE  \E g : Searches(g, r, c, d + 1)
<1> DEFINE g == [p \in Spans(r) |-> Narrow(f, r, c, p)]
<1>1. ASSUME NEW p \in Spans(r), p[2] - p[1] <= d PROVE g[p] = f[p]
  BY <1>1 DEF Searches
<1>2. ASSUME NEW p \in Spans(r), p[2] - p[1] <= d + 1
      PROVE  g[p] = Narrow(g, r, c, p)
  <2>1. g[p] = Narrow(f, r, c, p)
    OBVIOUS
  <2>2. CASE p[1] >= p[2]
    BY <2>1, <2>2 DEF Narrow
  <2>3. CASE ~(p[1] >= p[2])
    <3>1. r.size \in Nat /\ p[1] \in 0 .. r.size /\ p[2] \in 0 .. r.size
      BY CapacityAssumption DEF Rings, Spans
    <3>2. p[1] < p[2]
      BY <2>3, <3>1
    <3>3. PICK hi \in Spans(r), lo \in Spans(r) :
             hi = <<Half(p) + 1, p[2]>> /\ lo = <<p[1], Half(p)>>
      BY <3>2, HalfIs
    <3>4. Half(p) \in Int /\ p[1] <= Half(p) /\ Half(p) < p[2]
      BY <3>1, <3>2, HalfIs DEF Half
    <3>5. hi[2] - hi[1] <= d /\ lo[2] - lo[1] <= d
      BY <1>2, <3>1, <3>3, <3>4
    <3>6. g[hi] = f[hi] /\ g[lo] = f[lo]
      BY <1>1, <3>5
    <3> HIDE DEF g
    <3> QED
      BY <2>1, <2>3, <3>3, <3>6 DEF Narrow
  <2> QED
    BY <2>2, <2>3
<1>3. g = [p \in Spans(r) |-> g[p]]
  OBVIOUS
<1>4. Searches(g, r, c, d + 1)
  <2> HIDE DEF g
  <2> QED
    BY <1>2, <1>3 DEF Searches
<1> QED
  BY <1>4

LEMMA SearchExists ==
    ASSUME NEW S, NEW r \in Rings(S), NEW c
    PROVE  \E f : IsSearch(f, r, c)
<1>1. r.size \in Nat
  BY CapacityAssumption DEF Rings
<1> DEFINE D == {d \in Nat : \E f : Searches(f, r, c, d)}
<1>2. 0 \in D
  <2> DEFINE f == [p \in Spans(r) |-> p[1]]
  <2>1. ASSUME NEW p \in Spans(r), p[2] - p[1] <= 0 PROVE f[p] = Narrow(f, r, c, p)
    <3>1. p[1] \in 0 .. r.size /\ p[2] \in 0 .. r.size
      BY DEF Spans
    <3>2. p[1] >= p[2]
      BY <1>1, <2>1, <3>1
    <3> QED
      BY <3>2 DEF Narrow
  <2>2. f = [p \in Spans(r) |-> f[p]]
    OBVIOUS
  <2>3. Searches(f, r, c, 0)
    <3> HIDE DEF f
    <3> QED
      BY <2>1, <2>2 DEF Searches
  <2> QED
    BY <2>3
<1>3. \A d \in D \cap Nat : d + 1 \in D
  BY SearchesNext
<1>4. Nat \subseteq D
  <2> HIDE DEF D
  <2> QED
    BY <1>2, <1>3, NatInd
<1>5. PICK f : Searches(f, r, c, r.size)
  BY <1>1, <1>4
<1>6. ASSUME NEW p \in Spans(r) PROVE f[p] = Narrow(f, r, c, p)
  <2>1. p[2] - p[1] <= r.size
    BY <1>1 DEF Spans
  <2> QED
    BY <1>5, <2>1 DEF Searches
<1>7. f = [p \in Spans(r) |-> Narrow(f, r, c, p)]
  BY <1>5, <1>6 DEF Searches
<1> QED
  BY <1>7 DEF IsSearch

LEMMA SearchIs ==
    ASSUME NEW S, NEW r \in Rings(S), NEW c
    PROVE  \E f : IsSearch(f, r, c) /\ SearchFrom(r, c) = f[<<0, r.size>>]
<1> DEFINE f == CHOOSE f : IsSearch(f, r, c)
<1>1. IsSearch(f, r, c)
  BY SearchExists
<1>2. SearchFrom(r, c) = f[<<0, r.size>>]
  BY DEF SearchFrom, IsSearch, Narrow, Half, Spans
<1> QED
  BY <1>1, <1>2

\* The cursors of the ring are numbers, and they increase.
Numbered(r) == \A i \in 0 .. r.size - 1 : Get(r, i).cursor \in Int

InOrder(r) == \A i, j \in 0 .. r.size - 1 :
                 i < j => Get(r, i).cursor < Get(r, j).cursor

\* Position m parts the span: the cursors before it are smaller than c, those
\* from it on are not.
Parts(r, c, lo, hi, m) ==
    /\ \A k \in lo .. hi - 1 : k < m => Get(r, k).cursor < c
    /\ \A k \in lo .. hi - 1 : k >= m => Get(r, k).cursor >= c

LEMMA SearchNext ==
    ASSUME NEW S, NEW r \in Rings(S), NEW c \in Int, Numbered(r),
           NEW f, IsSearch(f, r, c), NEW d \in Nat,
           \A p \in Spans(r) : p[1] <= p[2] /\ p[2] - p[1] <= d =>
              /\ f[p] \in p[1] .. p[2]
              /\ InOrder(r) => Parts(r, c, p[1], p[2], f[p]),
           NEW p \in Spans(r), p[1] <= p[2], p[2] - p[1] <= d + 1
    PROVE  /\ f[p] \in p[1] .. p[2]
           /\ InOrder(r) => Parts(r, c, p[1], p[2], f[p])
<1>1. r.size \in Nat /\ p[1] \in 0 .. r.size /\ p[2] \in 0 .. r.size
  BY CapacityAssumption DEF Rings, Spans
<1>2. f[p] = Narrow(f, r, c, p)
  BY DEF IsSearch
<1>3. CASE p[1] = p[2]
  <2>1. f[p] = p[1]
    BY <1>1, <1>2, <1>3 DEF Narrow
  <2> QED
    BY <1>1, <1>3, <2>1 DEF Parts
<1>4. CASE p[1] < p[2]
  <2>1. PICK h \in 0 .. r.size - 1 : h = Half(p) /\ p[1] <= h /\ h < p[2]
    BY <1>1, <1>4, HalfIs DEF Half
  <2>2. PICK hi \in Spans(r), lo \in Spans(r) :
           hi = <<h + 1, p[2]>> /\ lo = <<p[1], h>>
    BY <1>4, <2>1, HalfIs
  <2>3. Get(r, h).cursor \in Int
    BY <2>1 DEF Numbered
  <2>4. CASE c > Get(r, h).cursor
    <3>1. f[p] = f[hi]
      BY <1>1, <1>2, <1>4, <2>1, <2>2, <2>4 DEF Narrow
    <3>2. /\ hi[1] = h + 1 /\ hi[2] = p[2]
          /\ hi[1] <= hi[2] /\ hi[2] - hi[1] <= d
      BY <1>1, <2>1, <2>2
    <3>3. /\ f[hi] \in h + 1 .. p[2]
          /\ InOrder(r) => Parts(r, c, h + 1, p[2], f[hi])
      BY <3>2
    <3>4. ASSUME InOrder(r) PROVE Parts(r, c, p[1], p[2], f[p])
      <4>1. \A k \in p[1] .. p[2] - 1 : k <= h => Get(r, k).cursor < c
        <5> TAKE k \in p[1] .. p[2] - 1
        <5> HAVE k <= h
        <5>1. k \in 0 .. r.size - 1 /\ Get(r, k).cursor \in Int
          BY <1>1 DEF Numbered
        <5>2. Get(r, k).cursor <= Get(r, h).cursor
          BY <2>1, <2>3, <3>4, <5>1 DEF InOrder
        <5> QED
          BY <2>3, <2>4, <5>1, <5>2
      <4>2. \A k \in p[1] .. p[2] - 1 : k <= h \/ k \in h + 1 .. p[2] - 1
        BY <1>1, <2>1
      <4> QED
        BY <1>1, <2>1, <3>1, <3>3, <3>4, <4>1, <4>2 DEF Parts
    <3> QED
      BY <1>1, <2>1, <3>1, <3>3, <3>4
  <2>5. CASE ~(c > Get(r, h).cursor)
    <3>1. f[p] = f[lo]
      BY <1>1, <1>2, <1>4, <2>1, <2>2, <2>5 DEF Narrow
    <3>2. /\ lo[1] = p[1] /\ lo[2] = h
          /\ lo[1] <= lo[2] /\ lo[2] - lo[1] <= d
      BY <1>1, <2>1, <2>2
    <3>3. /\ f[lo] \in p[1] .. h
          /\ InOrder(r) => Parts(r, c, p[1], h, f[lo])
      BY <3>2
    <3>4. ASSUME InOrder(r) PROVE Parts(r, c, p[1], p[2], f[p])
      <4>1. \A k \in p[1] .. p[2] - 1 : k >= h => Get(r, k).cursor >= c
        <5> TAKE k \in p[1] .. p[2] - 1
        <5> HAVE k >= h
        <5>1. k \in 0 .. r.size - 1 /\ Get(r, k).cursor \in Int
          BY <1>1 DEF Numbered
        <5>2. Get(r, k).cursor >= Get(r, h).cursor
          BY <2>1, <2>3, <3>4, <5>1 DEF InOrder
        <5> QED
          BY <2>3, <2>5, <5>1, <5>2
      <4>2. \A k \in p[1] .. p[2] - 1 : k >= h \/ k \in p[1] .. h - 1
        BY <1>1, <2>1
      <4> QED
        BY <1>1, <2>1, <3>1, <3>3, <3>4, <4>1, <4>2 DEF Parts
    <3> QED
      BY <1>1, <2>1, <3>1, <3>3, <3>4
  <2> QED
    BY <2>4, <2>5
<1> QED
  BY <1>1, <1>3, <1>4

\* The search ends in the ring or at its end and, if the cursors increase,
\* at the first that is not smaller.
LEMMA SearchFinds ==
    ASSUME NEW S, NEW r \in Rings(S), NEW c \in Int, Numbered(r)
    PROVE  /\ SearchFrom(r, c) \in 0 .. r.size
           /\ InOrder(r) => Parts(r, c, 0, r.size, SearchFrom(r, c))
<1>1. r.size \in Nat
  BY CapacityAssumption DEF Rings
<1>2. PICK f : IsSearch(f, r, c) /\ SearchFrom(r, c) = f[<<0, r.size>>]
  BY SearchIs
<1> DEFINE Right(p) == /\ f[p] \in p[1] .. p[2]
                       /\ InOrder(r) => Parts(r, c, p[1], p[2], f[p])
           D == {d \in Nat : \A p \in Spans(r) :
                               p[1] <= p[2] /\ p[2] - p[1] <= d => Right(p)}
<1>3. 0 \in D
  <2> SUFFICES ASSUME NEW p \in Spans(r), p[1] <= p[2], p[2] - p[1] <= 0
               PROVE  Right(p)
    OBVIOUS
  <2>1. p[1] \in 0 .. r.size /\ p[2] \in 0 .. r.size
    BY DEF Spans
  <2>2. p[1] = p[2]
    BY <1>1, <2>1
  <2>3. f[p] = p[1]
    BY <1>1, <1>2, <2>1, <2>2 DEF IsSearch, Narrow
  <2> QED
    BY <1>1, <2>1, <2>2, <2>3 DEF Parts
<1>4. \A d \in D \cap Nat : d + 1 \in D
  <2> TAKE d \in D \cap Nat
  <2>1. \A p \in Spans(r) : p[1] <= p[2] /\ p[2] - p[1] <= d => Right(p)
    OBVIOUS
  <2>2. ASSUME NEW p \in Spans(r), p[1] <= p[2], p[2] - p[1] <= d + 1
        PROVE  Right(p)
    BY <1>2, <2>1, <2>2, SearchNext
  <2> QED
    BY <2>2
<1>5. Nat \subseteq D
  <2> HIDE DEF D
  <2> QED
    BY <1>3, <1>4, NatInd
<1> HIDE DEF D, Right
<1>6. PICK p \in Spans(r) : p = <<0, r.size>>
  <2>1. 0 \in 0 .. r.size /\ r.size \in 0 .. r.size
    BY <1>1
  <2>2. <<0, r.size>> \in Spans(r)
    BY <2>1 DEF Spans
  <2> QED
    BY <2>2
<1>7. p[1] = 0 /\ p[2] = r.size /\ p[1] <= p[2] /\ p[2] - p[1] <= r.size
  BY <1>1, <1>6
<1>8. Right(p)
  BY <1>1, <1>5, <1>7 DEF D
<1> QED
  BY <1>2, <1>6, <1>7, <1>8 DEF Right
-----------------------------------------------------------------------------
(* Selecting the elements that pass a test *)

\* One step of the selection, f being the one of the elements before.
Grow(f, s, K, n) == IF n = 0 THEN <<>>
                    ELSE IF s[n] \in K THEN Append(f[n - 1], s[n])
                    ELSE f[n - 1]

\* f[n] has those of the first n elements of s that are in K.
IsSel(f, s, K) == f = [n \in 0 .. Len(s) |-> Grow(f, s, K, n)]

\* The same for the first d elements only.
Selects(f, s, K, d) ==
    /\ f = [n \in 0 .. Len(s) |-> f[n]]
    /\ \A n \in 0 .. Len(s) : n <= d => f[n] = Grow(f, s, K, n)

LEMMA SelectsNext ==
    ASSUME NEW S, NEW s \in Seq(S), NEW K, NEW d \in Nat, NEW f,
           Selects(f, s, K, d)
    PROVE  \E g : Selects(g, s, K, d + 1)
<1> DEFINE g == [n \in 0 .. Len(s) |-> Grow(f, s, K, n)]
<1>1. ASSUME NEW n \in 0 .. Len(s), n <= d PROVE g[n] = f[n]
  BY <1>1 DEF Selects
<1>2. ASSUME NEW n \in 0 .. Len(s), n <= d + 1 PROVE g[n] = Grow(g, s, K, n)
  <2>1. g[n] = Grow(f, s, K, n)
    OBVIOUS
  <2>2. CASE n = 0
    BY <2>1, <2>2 DEF Grow
  <2>3. CASE n # 0
    <3>1. PICK m \in 0 .. Len(s) : m = n - 1 /\ m <= d
      BY <1>2, <2>3
    <3>2. g[m] = f[m]
      BY <1>1, <3>1
    <3> HIDE DEF g
    <3> QED
      BY <2>1, <2>3, <3>1, <3>2 DEF Grow
  <2> QED
    BY <2>2, <2>3
<1>3. g = [n \in 0 .. Len(s) |-> g[n]]
  OBVIOUS
<1>4. Selects(g, s, K, d + 1)
  <2> HIDE DEF g
  <2> QED
    BY <1>2, <1>3 DEF Selects
<1> QED
  BY <1>4

LEMMA SelExists ==
    ASSUME NEW S, NEW s \in Seq(S), NEW K
    PROVE  \E f : IsSel(f, s, K)
<1>1. Len(s) \in Nat
  OBVIOUS
<1> DEFINE D == {d \in Nat : \E f : Selects(f, s, K, d)}
<1>2. 0 \in D
  <2> DEFINE f == [n \in 0 .. Len(s) |-> <<>>]
  <2>1. ASSUME NEW n \in 0 .. Len(s), n <= 0 PROVE f[n] = Grow(f, s, K, n)
    <3>1. n = 0
      BY <1>1, <2>1
    <3> QED
      BY <3>1 DEF Grow
  <2>2. f = [n \in 0 .. Len(s) |-> f[n]]
    OBVIOUS
  <2>3. Selects(f, s, K, 0)
    <3> HIDE DEF f
    <3> QED
      BY <2>1, <2>2 DEF Selects
  <2> QED
    BY <2>3
<1>3. \A d \in D \cap Nat : d + 1 \in D
  BY SelectsNext
<1>4. Nat \subseteq D
  <2> HIDE DEF D
  <2> QED
    BY <1>2, <1>3, NatInd
<1>5. PICK f : Selects(f, s, K, Len(s))
  BY <1>1, <1>4
<1>6. \A n \in 0 .. Len(s) : f[n] = Grow(f, s, K, n)
  BY <1>1, <1>5 DEF Selects
<1>7. f = [n \in 0 .. Len(s) |-> Grow(f, s, K, n)]
  BY <1>5, <1>6 DEF Selects
<1> QED
  BY <1>7 DEF IsSel

\* Position p[i] of s is where element i of q was found, of the first n.
Picks(p, q, s, K, n) ==
    /\ p \in [1 .. Len(q) -> 1 .. n]
    /\ \A i, j \in 1 .. Len(q) : i < j => p[i] < p[j]
    /\ \A i \in 1 .. Len(q) : q[i] = s[p[i]] /\ s[p[i]] \in K
    /\ \A m \in 1 .. n : s[m] \in K => \E i \in 1 .. Len(q) : p[i] = m

LEMMA PicksNext ==
    ASSUME NEW S, NEW s \in Seq(S), NEW K, NEW n \in 0 .. Len(s) - 1,
           NEW q \in Seq(S), NEW p, Picks(p, q, s, K, n), s[n + 1] \in K
    PROVE  \E r : Picks(r, Append(q, s[n + 1]), s, K, n + 1)
<1>1. PICK len \in Nat : len = Len(q)
  OBVIOUS
<1>2. n \in Nat /\ n + 1 \in 1 .. Len(s) /\ s[n + 1] \in S
  OBVIOUS
<1> DEFINE r == [i \in 1 .. len + 1 |-> IF i <= len THEN p[i] ELSE n + 1]
           now == Append(q, s[n + 1])
<1>3. /\ Len(now) = len + 1 /\ now[len + 1] = s[n + 1]
      /\ \A i \in 1 .. len : now[i] = q[i]
  BY <1>1, <1>2
<1>4. /\ \A i \in 1 .. len : r[i] = p[i] /\ p[i] \in 1 .. n
      /\ r[len + 1] = n + 1
  BY <1>1 DEF Picks
<1>5. \A i \in 1 .. len + 1 : i \in 1 .. len \/ i = len + 1
  OBVIOUS
<1>6. r = [i \in 1 .. len + 1 |-> r[i]]
  OBVIOUS
<1> HIDE DEF r, now
<1>7. \A i \in 1 .. len + 1 : r[i] \in 1 .. n + 1
  BY <1>2, <1>4, <1>5
<1>8. r \in [1 .. len + 1 -> 1 .. n + 1]
  BY <1>6, <1>7
<1>9. ASSUME NEW i \in 1 .. len + 1, NEW j \in 1 .. len + 1, i < j
      PROVE  r[i] < r[j]
  <2>1. i \in 1 .. len
    BY <1>9
  <2>2. CASE j \in 1 .. len
    BY <1>1, <1>4, <1>9, <2>1, <2>2 DEF Picks
  <2>3. CASE j = len + 1
    BY <1>2, <1>4, <2>1, <2>3
  <2> QED
    BY <1>5, <2>2, <2>3
<1>10. \A i \in 1 .. len + 1 : now[i] = s[r[i]] /\ s[r[i]] \in K
  BY <1>1, <1>3, <1>4, <1>5 DEF Picks
<1>11. ASSUME NEW m \in 1 .. n + 1, s[m] \in K
       PROVE  \E i \in 1 .. len + 1 : r[i] = m
  <2>1. CASE m = n + 1
    BY <1>4, <2>1
  <2>2. CASE m # n + 1
    <3>1. m \in 1 .. n
      BY <1>2, <2>2
    <3>2. PICK i \in 1 .. len : p[i] = m
      BY <1>1, <1>11, <3>1 DEF Picks
    <3> QED
      BY <1>4, <3>2
  <2> QED
    BY <2>1, <2>2
<1>12. Picks(r, now, s, K, n + 1)
  BY <1>3, <1>8, <1>9, <1>10, <1>11 DEF Picks
<1> QED
  BY <1>12 DEF now

LEMMA SelPicks ==
    ASSUME NEW S, NEW s \in Seq(S), NEW K, NEW f, IsSel(f, s, K)
    PROVE  /\ f[Len(s)] \in Seq(S)
           /\ \E p : Picks(p, f[Len(s)], s, K, Len(s))
<1>1. Len(s) \in Nat
  OBVIOUS
<1> DEFINE Right(n) == f[n] \in Seq(S) /\ \E p : Picks(p, f[n], s, K, n)
           D == {n \in Nat : n <= Len(s) => Right(n)}
<1>2. 0 \in D
  <2>1. f[0] = <<>>
    BY <1>1 DEF IsSel, Grow
  <2>2. Picks(<<>>, <<>>, s, K, 0)
    BY DEF Picks
  <2>3. \E p : Picks(p, f[0], s, K, 0)
    BY <2>1, <2>2
  <2>4. f[0] \in Seq(S)
    BY <2>1
  <2> QED
    BY <2>3, <2>4
<1>3. \A n \in D \cap Nat : n + 1 \in D
  <2> TAKE n \in D \cap Nat
  <2> SUFFICES ASSUME n + 1 <= Len(s) PROVE Right(n + 1)
    OBVIOUS
  <2>1. /\ n + 1 \in 0 .. Len(s) /\ n \in 0 .. Len(s) - 1 /\ (n + 1) - 1 = n
        /\ n + 1 # 0 /\ s[n + 1] \in S
    BY <1>1
  <2>2. f[n] \in Seq(S) /\ \E p : Picks(p, f[n], s, K, n)
    BY <1>1, <2>1
  <2>3. PICK p : Picks(p, f[n], s, K, n)
    BY <2>2
  <2>4. f[n + 1] = IF s[n + 1] \in K THEN Append(f[n], s[n + 1]) ELSE f[n]
    <3>1. f[n + 1] = Grow(f, s, K, n + 1)
      BY <2>1 DEF IsSel
    <3> QED
      BY <2>1, <3>1 DEF Grow
  <2>5. CASE s[n + 1] \in K
    <3>1. \E r : Picks(r, Append(f[n], s[n + 1]), s, K, n + 1)
      BY <2>1, <2>2, <2>3, <2>5, PicksNext
    <3> QED
      BY <2>1, <2>2, <2>4, <2>5, <3>1
  <2>6. CASE s[n + 1] \notin K
    <3>1. \A m \in 1 .. n + 1 : m \in 1 .. n \/ m = n + 1
      BY <2>1
    <3>2. Picks(p, f[n], s, K, n + 1)
      BY <2>1, <2>3, <2>6, <3>1 DEF Picks
    <3> QED
      BY <2>2, <2>4, <2>6, <3>2
  <2> QED
    BY <2>5, <2>6
<1>4. Nat \subseteq D
  <2> HIDE DEF D
  <2> QED
    BY <1>2, <1>3, NatInd
<1> QED
  BY <1>1, <1>4

\* t is s without its first o elements, none of which is in K.
Shorter(s, K, t, L, o) ==
    /\ Len(s) = o + Len(t)
    /\ \A i \in 1 .. o : s[i] \notin K
    /\ \A i \in 1 .. Len(t) : s[o + i] = t[i] /\ (s[o + i] \in K <=> t[i] \in L)

\* What the first o elements do not add can be left out.
LEMMA SelShift ==
    ASSUME NEW S, NEW s \in Seq(S), NEW t \in Seq(S), NEW K, NEW L,
           NEW f, IsSel(f, s, K), NEW g, IsSel(g, t, L),
           NEW o \in Nat, Shorter(s, K, t, L, o)
    PROVE  f[Len(s)] = g[Len(t)]
<1>1. PICK len \in Nat : len = Len(t) /\ Len(s) = o + len
  BY DEF Shorter
<1>2. /\ \A n \in 0 .. o + len : f[n] = Grow(f, s, K, n)
      /\ \A n \in 0 .. len : g[n] = Grow(g, t, L, n)
  <2>1. f = [n \in 0 .. o + len |-> Grow(f, s, K, n)]
    BY <1>1 DEF IsSel
  <2>2. g = [n \in 0 .. len |-> Grow(g, t, L, n)]
    BY <1>1 DEF IsSel
  <2>3. \A n \in 0 .. o + len : f[n] = Grow(f, s, K, n)
    BY <2>1
  <2>4. \A n \in 0 .. len : g[n] = Grow(g, t, L, n)
    BY <2>2
  <2> QED
    BY <2>3, <2>4
<1> DEFINE D == {n \in Nat : n <= o => f[n] = <<>>}
           E == {n \in Nat : n <= len => f[o + n] = g[n]}
<1>3. 0 \in D
  BY <1>1, <1>2 DEF Grow
<1>4. \A n \in D \cap Nat : n + 1 \in D
  <2> TAKE n \in D \cap Nat
  <2> SUFFICES ASSUME n + 1 <= o PROVE f[n + 1] = <<>>
    OBVIOUS
  <2>1. /\ f[n] = <<>> /\ n + 1 \in 1 .. o /\ n + 1 \in 0 .. o + len
        /\ (n + 1) - 1 = n /\ n + 1 # 0
    BY <1>1
  <2>2. f[n + 1] = Grow(f, s, K, n + 1)
    BY <1>2, <2>1
  <2>3. s[n + 1] \notin K
    BY <2>1 DEF Shorter
  <2> QED
    BY <2>1, <2>2, <2>3 DEF Grow
<1>5. Nat \subseteq D
  <2> HIDE DEF D
  <2> QED
    BY <1>3, <1>4, NatInd
<1>6. 0 \in E
  <2>1. f[o] = <<>>
    BY <1>5
  <2>2. g[0] = <<>>
    BY <1>1, <1>2 DEF Grow
  <2> QED
    BY <2>1, <2>2
<1>7. \A n \in E \cap Nat : n + 1 \in E
  <2> TAKE n \in E \cap Nat
  <2> SUFFICES ASSUME n + 1 <= len PROVE f[o + (n + 1)] = g[n + 1]
    OBVIOUS
  <2>1. /\ f[o + n] = g[n] /\ n + 1 \in 1 .. Len(t) /\ n + 1 \in 0 .. len
        /\ (n + 1) - 1 = n /\ n + 1 # 0
    BY <1>1
  <2>2. /\ o + (n + 1) \in 0 .. o + len /\ (o + (n + 1)) - 1 = o + n
        /\ o + (n + 1) # 0
    BY <1>1, <2>1
  <2>3. g[n + 1] = Grow(g, t, L, n + 1)
    BY <1>2, <2>1
  <2>4. f[o + (n + 1)] = Grow(f, s, K, o + (n + 1))
    BY <1>2, <2>2
  <2>5. g[n + 1] = IF t[n + 1] \in L THEN Append(g[n], t[n + 1]) ELSE g[n]
    BY <2>1, <2>3 DEF Grow
  <2>6. f[o + (n + 1)] = IF s[o + (n + 1)] \in K
                         THEN Append(f[o + n], s[o + (n + 1)]) ELSE f[o + n]
    BY <2>2, <2>4 DEF Grow
  <2>7. /\ s[o + (n + 1)] = t[n + 1]
        /\ s[o + (n + 1)] \in K <=> t[n + 1] \in L
    BY <2>1 DEF Shorter
  <2> QED
    BY <2>1, <2>5, <2>6, <2>7
<1>8. Nat \subseteq E
  <2> HIDE DEF E
  <2> QED
    BY <1>6, <1>7, NatInd
<1> QED
  BY <1>1, <1>8
-----------------------------------------------------------------------------
(* The query *)

Passing(S, filtered) == {e \in S : Filter(filtered, e)}

LEMMA FirstOfIs ==
    ASSUME NEW S, NEW s \in Seq(S), NEW count \in Nat
    PROVE  /\ FirstOf(s, count) \in Seq(S)
           /\ Len(FirstOf(s, count)) = IF Len(s) < count THEN Len(s) ELSE count
           /\ \A i \in 1 .. Len(FirstOf(s, count)) :
                 i \in 1 .. Len(s) /\ FirstOf(s, count)[i] = s[i]
<1>1. PICK len \in Nat : len = Len(s)
  OBVIOUS
<1>2. PICK m \in Nat : /\ m = Min({Len(s), count})
                       /\ m = IF len < count THEN len ELSE count
  <2>1. /\ Min({len, count}) \in {len, count}
        /\ Min({len, count}) <= len /\ Min({len, count}) <= count
    BY MinPair
  <2> QED
    BY <1>1, <2>1
<1>3. FirstOf(s, count) = SubSeq(s, 1, m)
  BY <1>2 DEF FirstOf
<1>4. \A i \in 1 .. m : i \in 1 .. len
  BY <1>2
<1>5. SubSeq(s, 1, m) \in Seq(S) /\ Len(SubSeq(s, 1, m)) = m
  BY <1>1, <1>4
<1>6. \A i \in 1 .. m : SubSeq(s, 1, m)[i] = s[i]
  BY <1>1, <1>4
<1> QED
  BY <1>1, <1>2, <1>3, <1>4, <1>5, <1>6

LEMMA StartIs ==
    ASSUME NEW S, NEW r \in Rings(S), NEW c \in Int, Numbered(r),
           NEW forward \in BOOLEAN
    PROVE  LET pos == SearchFrom(r, c) IN
           /\ pos \in 0 .. r.size
           /\ StartPos(r, forward, c) =
                 IF ~forward THEN pos - 1
                 ELSE IF Found(r, pos, c) THEN pos + 1 ELSE pos
           /\ forward => StartPos(r, forward, c) \in 0 .. r.size
           /\ ~forward => StartPos(r, forward, c) \in -1 .. r.size - 1
<1>1. PICK pos \in 0 .. r.size : pos = SearchFrom(r, c)
  BY SearchFinds
<1>2. StartPos(r, forward, c) = IF ~forward THEN pos - 1
                                ELSE IF Found(r, pos, c) THEN pos + 1 ELSE pos
  BY <1>1 DEF StartPos
<1>3. Found(r, pos, c) => pos < r.size
  BY DEF Found
<1>4. r.size \in Nat
  BY CapacityAssumption DEF Rings
<1> QED
  BY <1>1, <1>2, <1>3, <1>4

\* The entries a query looks at, in the order it does.
RunOf(r, forward, c) == Iterator(r, forward)[StartPos(r, forward, c)]

LEMMA RunIs ==
    ASSUME NEW S, NEW r \in Rings(S), NEW c \in Int, Numbered(r),
           NEW forward \in BOOLEAN,
           NEW pos, pos = StartPos(r, forward, c)
    PROVE  /\ RunOf(r, forward, c) \in Seq(S)
           /\ forward =>
                 /\ pos \in 0 .. r.size
                 /\ Len(RunOf(r, forward, c)) = r.size - pos
                 /\ \A i \in 1 .. r.size - pos :
                       RunOf(r, forward, c)[i] = Get(r, pos + i - 1)
           /\ ~forward =>
                 /\ pos \in -1 .. r.size - 1
                 /\ Len(RunOf(r, forward, c)) = pos + 1
                 /\ \A i \in 1 .. pos + 1 :
                       RunOf(r, forward, c)[i] = Get(r, pos - i + 1)
<1>1. r.size \in 0 .. Capacity /\ Capacity \in Nat
  BY CapacityAssumption DEF Rings
<1>2. /\ forward => pos \in 0 .. r.size
      /\ ~forward => pos \in -1 .. r.size - 1
  BY StartIs
<1>3. \A i \in 0 .. r.size - 1 : Get(r, i) \in S
  <2> TAKE i \in 0 .. r.size - 1
  <2>1. i \in 0 .. Capacity - 1
    BY <1>1
  <2> QED
    BY <2>1, GetIn
<1>4. CASE forward
  <2>0. pos \in 0 .. r.size
    BY <1>2, <1>4, Zenon
  <2>1. pos \in -1 .. r.size
    BY <1>1, <2>0
  <2>2. RunOf(r, forward, c) = [i \in 1 .. r.size - pos |-> Get(r, pos + i - 1)]
    BY <1>4, <2>1 DEF RunOf, Iterator
  <2>3. \A i \in 1 .. r.size - pos : Get(r, pos + i - 1) \in S
    <3> TAKE i \in 1 .. r.size - pos
    <3>1. pos + i - 1 \in 0 .. r.size - 1
      BY <1>1, <2>0
    <3> QED
      BY <1>3, <3>1
  <2>4. r.size - pos \in Nat
    BY <1>1, <2>0
  <2> QED
    <3>1. RunOf(r, forward, c) \in Seq(S) /\ Len(RunOf(r, forward, c)) = r.size - pos
      BY <2>2, <2>3, <2>4
    <3>2. \A i \in 1 .. r.size - pos : RunOf(r, forward, c)[i] = Get(r, pos + i - 1)
      BY <2>2
    <3> QED
      BY <1>4, <2>0, <3>1, <3>2, Zenon
<1>5. CASE ~forward
  <2>1. pos \in -1 .. r.size
    BY <1>1, <1>2, <1>5
  <2>2. RunOf(r, forward, c) = [i \in 1 .. pos + 1 |-> Get(r, pos - i + 1)]
    BY <1>5, <2>1 DEF RunOf, Iterator
  <2>3. \A i \in 1 .. pos + 1 : Get(r, pos - i + 1) \in S
    <3> TAKE i \in 1 .. pos + 1
    <3>1. pos - i + 1 \in 0 .. r.size - 1
      BY <1>1, <1>2, <1>5
    <3> QED
      BY <1>3, <3>1
  <2>4. pos + 1 \in Nat
    BY <1>1, <1>2, <1>5
  <2> QED
    BY <1>2, <1>5, <2>2, <2>3, <2>4
<1> QED
  BY <1>4, <1>5

\* What a query returns, all being the entries that match.
Answer(all, c, count) ==
    LET items == FirstOf(all, count) IN
    [items |-> items,
     first |-> IF items = <<>> THEN c ELSE items[1].cursor,
     last  |-> IF items = <<>> THEN c ELSE items[Len(items)].cursor,
     more  |-> Len(all) > count]

LEMMA QueryIs ==
    ASSUME NEW S, NEW r \in Rings(S), NEW c \in Int, Numbered(r),
           NEW forward \in BOOLEAN, NEW count, NEW filtered,
           NEW run \in Seq(S), run = RunOf(r, forward, c)
    PROVE  \E f : /\ IsSel(f, run, Passing(S, filtered))
                  /\ Query(r, forward, c, count, filtered) =
                        Answer(f[Len(run)], c, count)
<1> DEFINE IsTested(f) ==
               f = [n \in 0 .. Len(run) |->
                      IF n = 0 THEN <<>>
                      ELSE IF Filter(filtered, run[n]) THEN Append(f[n - 1], run[n])
                      ELSE f[n - 1]]
<1>1. ASSUME NEW f PROVE IsTested(f) <=> IsSel(f, run, Passing(S, filtered))
  <2>1. ASSUME NEW n \in 0 .. Len(run)
        PROVE  Grow(f, run, Passing(S, filtered), n) =
                  IF n = 0 THEN <<>>
                  ELSE IF Filter(filtered, run[n]) THEN Append(f[n - 1], run[n])
                  ELSE f[n - 1]
    <3>1. n # 0 => run[n] \in S
      OBVIOUS
    <3> QED
      BY <3>1 DEF Grow, Passing
  <2> QED
    BY <2>1 DEF IsSel
<1>2. PICK f : f = CHOOSE g : IsTested(g)
  OBVIOUS
<1>3. IsTested(f)
  BY <1>1, <1>2, SelExists
<1>4. Query(r, forward, c, count, filtered) = Answer(f[Len(run)], c, count)
  BY <1>2 DEF Query, Select, RunOf, Answer
<1> QED
  BY <1>1, <1>3, <1>4

LEMMA CursorsAre == /\ MaxCursor \in Nat
                    /\ MaxCursor + 1 = 2 ^ TimeBits * 2 ^ IndexBits
<1>1. TimeBits \in Nat /\ IndexBits \in Nat /\ TimeBits + IndexBits \in Nat
  BY WidthAssumption
<1>2. 2 ^ (TimeBits + IndexBits) = 2 ^ TimeBits * 2 ^ IndexBits
  BY <1>1, PowSum
<1>3. 2 ^ (TimeBits + IndexBits) \in Nat \ {0}
  BY <1>1, PowPos
<1>4. PICK p \in Nat \ {0} : p = 2 ^ (TimeBits + IndexBits)
  BY <1>3
<1>5. MaxCursor = p - 1
  BY <1>4 DEF MaxCursor
<1>6. MaxCursor \in Nat /\ MaxCursor + 1 = p
  BY <1>5
<1> QED
  BY <1>2, <1>4, <1>6

LEMMA RingNumbered == ASSUME NEW r \in Rings(Item) PROVE Numbered(r)
<1>1. r.size \in 0 .. Capacity /\ Capacity \in Nat
  BY CapacityAssumption DEF Rings
<1>2. ASSUME NEW i \in 0 .. r.size - 1 PROVE Get(r, i).cursor \in Int
  <2>1. i \in 0 .. Capacity - 1
    BY <1>1
  <2>2. Get(r, i) \in Item
    BY <2>1, GetIn
  <2> QED
    BY <2>2 DEF Item
<1> QED
  BY <1>2 DEF Numbered

\* A query returns entries of the ring, and cursors of theirs or its own.
LEMMA QueryIn ==
    ASSUME NEW r \in Rings(Item), NEW c \in 0 .. MaxCursor, NEW count \in Nat,
           NEW forward \in BOOLEAN, NEW filtered \in BOOLEAN
    PROVE  /\ Query(r, forward, c, count, filtered).items \in Seq(Item)
           /\ Query(r, forward, c, count, filtered).first \in 0 .. MaxCursor
           /\ Query(r, forward, c, count, filtered).last \in 0 .. MaxCursor
           /\ Query(r, forward, c, count, filtered).more \in BOOLEAN
<1>1. MaxCursor \in Int
  BY CursorsAre
<1>2. Numbered(r) /\ c \in Int
  BY <1>1, RingNumbered
<1>3. PICK run \in Seq(Item) : run = RunOf(r, forward, c)
  BY <1>2, RunIs
<1>4. PICK f : /\ IsSel(f, run, Passing(Item, filtered))
               /\ Query(r, forward, c, count, filtered) =
                     Answer(f[Len(run)], c, count)
  BY <1>2, <1>3, QueryIs
<1>5. f[Len(run)] \in Seq(Item)
  BY <1>4, SelPicks
<1>6. PICK items \in Seq(Item) : items = FirstOf(f[Len(run)], count)
  BY <1>5, FirstOfIs
<1>7. \A e \in Item : e.cursor \in 0 .. MaxCursor
  BY DEF Item
<1>8. items # <<>> => items[1] \in Item /\ items[Len(items)] \in Item
  <2>1. items # <<>> => Len(items) \in Nat \ {0}
    OBVIOUS
  <2> QED
    BY <2>1
<1> QED
  BY <1>4, <1>6, <1>7, <1>8 DEF Answer

\* Two words side by side.
LEMMA WordsFit ==
    ASSUME NEW a \in Nat \ {0}, NEW b \in Nat \ {0},
           NEW h \in 0 .. a - 1, NEW l \in 0 .. b - 1
    PROVE  h * b + l \in 0 .. a * b - 1
<1>1. PICK d \in Nat : a = h + 1 + d
  <2>1. a - h - 1 \in Nat /\ a = h + 1 + (a - h - 1)
    OBVIOUS
  <2> QED
    BY <2>1
<1>2. h * b \in Nat /\ d * b \in Nat
  OBVIOUS
<1>3. a * b = h * b + b + d * b
  BY <1>1
<1> QED
  BY <1>2, <1>3

LEMMA CursorOfIn ==
    ASSUME NEW m \in Nat, NEW x \in Int
    PROVE  CursorOf(m, x) \in 0 .. MaxCursor
<1>1. PICK a \in Nat \ {0}, b \in Nat \ {0} : a = 2 ^ TimeBits /\ b = 2 ^ IndexBits
  BY WidthAssumption, PowPos
<1>2. x % b \in 0 .. b - 1 /\ m % a \in 0 .. a - 1
  BY <1>1
<1>3. PICK low \in 0 .. b - 1, high \in 0 .. a - 1 :
         low = x % b /\ high = IF x < 0 THEN a - 1 ELSE m % a
  BY <1>1, <1>2
<1>4. CursorOf(m, x) = high * b + low
  BY <1>1, <1>3 DEF CursorOf
<1>5. high * b + low \in 0 .. a * b - 1
  BY <1>1, WordsFit
<1>6. PICK p \in Nat : p = a * b /\ MaxCursor + 1 = p /\ MaxCursor \in Nat
  BY <1>1, CursorsAre
<1>7. MaxCursor = p - 1
  BY <1>6
<1> QED
  BY <1>4, <1>5, <1>6, <1>7
-----------------------------------------------------------------------------
(* Types *)

\* What a subscription has yet to be sent, of the entries there may be.
Owing(sub) == {e \in Item : /\ Filter(sub.filtered, e)
                            /\ e.n > sub.base
                            /\ \A i \in DOMAIN sub.sent : e.n > sub.sent[i].n}

LEMMA PendingIs ==
    ASSUME NEW sub, NEW values \in Seq(Item), values = Values(ring)
    PROVE  \E f : IsSel(f, values, Owing(sub)) /\ Pending(sub) = f[Len(values)]
<1> DEFINE Wanted(e) == /\ Filter(sub.filtered, e)
                        /\ e.n > sub.base
                        /\ \A i \in DOMAIN sub.sent : e.n > sub.sent[i].n
           IsTested(f) ==
               f = [n \in 0 .. Len(values) |->
                      IF n = 0 THEN <<>>
                      ELSE IF Wanted(values[n]) THEN Append(f[n - 1], values[n])
                      ELSE f[n - 1]]
<1>1. ASSUME NEW f PROVE IsTested(f) <=> IsSel(f, values, Owing(sub))
  <2>1. ASSUME NEW n \in 0 .. Len(values)
        PROVE  Grow(f, values, Owing(sub), n) =
                  IF n = 0 THEN <<>>
                  ELSE IF Wanted(values[n]) THEN Append(f[n - 1], values[n])
                  ELSE f[n - 1]
    <3>1. n # 0 => values[n] \in Item
      OBVIOUS
    <3>2. n # 0 => (values[n] \in Owing(sub) <=> Wanted(values[n]))
      BY <3>1 DEF Owing
    <3> HIDE DEF Wanted
    <3> QED
      BY <3>2 DEF Grow
  <2> HIDE DEF Wanted
  <2> QED
    BY <2>1 DEF IsSel
<1>2. PICK f : f = CHOOSE g : IsTested(g)
  OBVIOUS
<1>3. IsTested(f)
  BY <1>1, <1>2, SelExists
<1>4. Pending(sub) = f[Len(values)]
  BY <1>2 DEF Pending, Select
<1> QED
  BY <1>1, <1>3, <1>4

LEMMA PendingIn ==
    ASSUME NEW sub, ring \in Rings(Item)
    PROVE  FirstOf(Pending(sub), Limit) \in Seq(Item)
<1>1. PICK values \in Seq(Item) : values = Values(ring)
  BY ValuesIs
<1>2. PICK f : IsSel(f, values, Owing(sub)) /\ Pending(sub) = f[Len(values)]
  BY <1>1, PendingIs
<1>3. Pending(sub) \in Seq(Item)
  BY <1>1, <1>2, SelPicks
<1> QED
  BY <1>3, FirstOfIs, BoundsAssumption

LEMMA IndexNext ==
    ASSUME NEW x \in -(2 ^ (IndexBits - 1)) .. 2 ^ (IndexBits - 1) - 1
    PROVE  NextIndex(x) \in -(2 ^ (IndexBits - 1)) .. 2 ^ (IndexBits - 1) - 1
<1>1. PICK half \in Nat \ {0} : half = 2 ^ (IndexBits - 1)
  <2>1. IndexBits - 1 \in Nat
    BY WidthAssumption
  <2> QED
    BY <2>1, PowPos
<1> QED
  BY <1>1 DEF NextIndex

LEMMA NoItems == \E none \in Seq(Item) : none = <<>>
<1>1. <<>> \in Seq(Item)
  OBVIOUS
<1> QED
  BY <1>1, Zenon

LEMMA SetIs ==
    ASSUME TypeOK, NEW s \in Sub, NEW sub, Set(s, sub)
    PROVE  /\ subs' = [u \in Sub |-> IF u = s THEN sub ELSE subs[u]]
           /\ subs'[s] = sub
           /\ \A u \in Sub \ {s} : subs'[u] = subs[u]
BY DEF TypeOK, Set

LEMMA SetTyped ==
    ASSUME TypeOK, NEW s \in Sub, NEW sub \in Subscription, Set(s, sub)
    PROVE  subs' \in [Sub -> Subscription]
BY DEF TypeOK, Set

LEMMA SignalledTyped ==
    ASSUME NEW sub \in Subscription
    PROVE  Signalled(sub) \subseteq Subscription
<1>1. [sub EXCEPT !.armed = TRUE] \in Subscription
  BY DEF Subscription
<1>2. \A b \in BOOLEAN : [sub EXCEPT !.unsignalled = b] \in Subscription
  BY DEF Subscription
<1>3. sub.unsignalled \in BOOLEAN
  BY DEF Subscription
<1> QED
  BY <1>1, <1>2, <1>3 DEF Signalled

LEMMA TypeInit == ASSUME Init PROVE TypeOK
<1>1. NoItem \in Item
  BY CursorsAre, BoundsAssumption DEF NoItem, Item
<1>2. ring \in Rings(Item)
  BY <1>1, EmptyRingIs DEF Init
<1>3. NoSub \in Subscription
  BY CursorsAre, BoundsAssumption DEF NoSub, Subscription
<1>4. index \in -(2 ^ (IndexBits - 1)) .. 2 ^ (IndexBits - 1) - 1
  <2>1. IndexBits - 1 \in Nat
    BY WidthAssumption
  <2> QED
    BY <2>1, PowPos DEF Init
<1>5. ms \in 0 .. MaxTime /\ faults \in 0 .. MaxFaults /\ log \in Seq(Item)
  BY BoundsAssumption DEF Init
<1>6. subs \in [Sub -> Subscription]
  BY <1>3 DEF Init
<1> QED
  BY <1>2, <1>4, <1>5, <1>6 DEF TypeOK, Rings

LEMMA TypeStep == ASSUME TypeOK, [Next]_vars PROVE TypeOK'
<1>1. ring \in Rings(Item) /\ subs \in [Sub -> Subscription]
  BY DEF TypeOK, Rings
<1>2. ASSUME NEW match \in BOOLEAN, Append_(match) PROVE TypeOK'
  <2>1. PICK e : /\ e = [n |-> Len(log) + 1, cursor |-> CursorOf(ms, index),
                         match |-> match]
                 /\ ring' = Add(ring, e) /\ log' = Append(log, e)
    BY <1>2 DEF Append_
  <2>2. Len(log) + 1 \in 0 .. MaxAppends
    BY <1>2, BoundsAssumption, SMTT(30) DEF Append_, InBounds, TypeOK
  <2>3. CursorOf(ms, index) \in 0 .. MaxCursor
    <3>1. ms \in Nat
      BY BoundsAssumption DEF TypeOK
    <3>2. index \in Int
      <4>1. IndexBits - 1 \in Nat
        BY WidthAssumption
      <4> QED
        BY <4>1, PowPos DEF TypeOK
    <3> QED
      BY <3>1, <3>2, CursorOfIn
  <2>4. e \in Item
    BY <2>1, <2>2, <2>3 DEF Item
  <2>5. ring' \in Rings(Item)
    BY <1>1, <2>1, <2>4, AddIs
  <2>6. log' \in Seq(Item)
    BY <2>1, <2>4 DEF TypeOK
  <2>7. index' \in -(2 ^ (IndexBits - 1)) .. 2 ^ (IndexBits - 1) - 1
    BY <1>2, IndexNext DEF Append_, TypeOK
  <2>8. subs' \in [Sub -> Subscription]
    <3>1. /\ subs' \in [Sub -> UNION {Signalled(subs[s]) : s \in Sub}]
          /\ \A s \in Sub : subs'[s] \in Signalled(subs[s])
      BY <1>2 DEF Append_
    <3>2. \A s \in Sub : subs'[s] \in Subscription
      BY <1>1, <3>1, SignalledTyped
    <3> QED
      BY <3>1, <3>2
  <2>9. ms' \in 0 .. MaxTime /\ faults' \in 0 .. MaxFaults
    BY <1>2 DEF Append_, TypeOK
  <2> QED
    BY <2>5, <2>6, <2>7, <2>8, <2>9 DEF TypeOK, Rings
<1>3. CASE Tick
  BY <1>3, BoundsAssumption DEF Tick, InBounds, TypeOK
<1>4. ASSUME NEW s \in Sub, NEW sub \in Subscription, Set(s, sub),
             UNCHANGED StreamVars, faults' \in 0 .. MaxFaults
      PROVE  TypeOK'
  BY <1>4, SetTyped DEF StreamVars, TypeOK
<1>5. ASSUME NEW s \in Sub, NEW filtered \in BOOLEAN, Accept(s, filtered)
      PROVE  TypeOK'
  <2>1. Query(ring, FALSE, MaxCursor, 1, FALSE).first \in 0 .. MaxCursor
    <3>1. MaxCursor \in 0 .. MaxCursor /\ 1 \in Nat /\ FALSE \in BOOLEAN
      BY CursorsAre
    <3> QED
      BY <1>1, <3>1, QueryIn
  <2>2. PICK c \in 0 .. MaxCursor : c = Query(ring, FALSE, MaxCursor, 1, FALSE).first
    BY <2>1
  <2>3. Len(log) \in 0 .. MaxAppends
    BY <1>5, BoundsAssumption, SMTT(30) DEF Accept, InBounds, TypeOK
  <2>4. NoSub \in Subscription
    BY CursorsAre, BoundsAssumption DEF NoSub, Subscription
  <2>5. PICK sub : sub = [NoSub EXCEPT !.pc = "listen", !.filtered = filtered,
                                       !.deb = "start", !.cursor = c, !.base = Len(log)]
    OBVIOUS
  <2>6. sub \in Subscription
    BY <2>3, <2>4, <2>5 DEF Subscription
  <2>7. Set(s, sub) /\ UNCHANGED StreamVars /\ faults' = faults
    BY <1>5, <2>2, <2>5 DEF Accept
  <2> QED
    BY <1>4, <2>6, <2>7 DEF TypeOK
<1>6. ASSUME NEW s \in Sub,
             Listen(s) \/ Update(s) \/ Disconnect(s) \/ DebouncerStep(s)
      PROVE  TypeOK'
  <2>1. PICK sub : /\ Set(s, sub) /\ UNCHANGED StreamVars /\ faults' = faults
                   /\ \/ sub = [subs[s] EXCEPT !.pc = "loop", !.listening = TRUE]
                      \/ sub = [subs[s] EXCEPT !.pc = "query", !.deb = "back"]
                      \/ sub = [subs[s] EXCEPT !.over = TRUE]
                      \/ sub = [subs[s] EXCEPT !.deb = "select"]
                      \/ sub = [subs[s] EXCEPT !.deb = "gone"]
                      \/ sub = [subs[s] EXCEPT !.deb = "send", !.armed = FALSE]
                      \/ sub = [subs[s] EXCEPT !.deb = "back"]
    BY <1>6 DEF Listen, Update, Disconnect, DebouncerStep, Debounce, TimerFires,
                DropUpdate
  <2>2. subs[s] \in Subscription
    BY <1>1
  <2>3. PICK old \in Subscription : old = subs[s]
    BY <2>2
  <2>4. /\ [old EXCEPT !.pc = "loop", !.listening = TRUE] \in Subscription
        /\ [old EXCEPT !.pc = "query", !.deb = "back"] \in Subscription
        /\ [old EXCEPT !.over = TRUE] \in Subscription
    BY DEF Subscription
  <2>5. /\ [old EXCEPT !.deb = "select"] \in Subscription
        /\ [old EXCEPT !.deb = "gone"] \in Subscription
        /\ [old EXCEPT !.deb = "send", !.armed = FALSE] \in Subscription
        /\ [old EXCEPT !.deb = "back"] \in Subscription
    BY DEF Subscription
  <2>6. sub \in Subscription
    BY <2>1, <2>3, <2>4, <2>5
  <2> QED
    BY <1>4, <2>1, <2>6 DEF TypeOK
<1>7. ASSUME NEW s \in Sub, Fetch(s) PROVE TypeOK'
  <2>1. PICK res, want :
           /\ res = Query(ring, TRUE, subs[s].cursor, Limit, subs[s].filtered)
           /\ want = FirstOf(Pending(subs[s]), Limit)
           /\ Set(s, [subs[s] EXCEPT !.pc = "write", !.items = res.items,
                                     !.last = res.last, !.want = want,
                                     !.unsignalled = res.more])
           /\ UNCHANGED StreamVars /\ faults' = faults
    BY <1>7 DEF Fetch
  <2>2. PICK sub \in Subscription : sub = subs[s]
    BY <1>1
  <2>3. /\ sub.cursor \in 0 .. MaxCursor /\ sub.filtered \in BOOLEAN
        /\ Limit \in Nat
    BY BoundsAssumption DEF Subscription
  <2>4. /\ res.items \in Seq(Item) /\ res.last \in 0 .. MaxCursor
        /\ res.more \in BOOLEAN
    BY <1>1, <2>1, <2>2, <2>3, QueryIn
  <2>5. want \in Seq(Item)
    BY <1>1, <2>1, PendingIn
  <2>6. [sub EXCEPT !.pc = "write", !.items = res.items, !.last = res.last,
                    !.want = want, !.unsignalled = res.more] \in Subscription
    BY <2>4, <2>5 DEF Subscription
  <2> QED
    BY <1>4, <2>1, <2>2, <2>6 DEF TypeOK
<1>8. ASSUME NEW s \in Sub, Write(s) PROVE TypeOK'
  <2>1. PICK sub \in Subscription : sub = subs[s]
    BY <1>1
  <2>2. NotWrote(sub) \in Subscription
    <3>1. PICK none \in Seq(Item) : none = <<>>
      BY NoItems
    <3>2. [sub EXCEPT !.pc = "loop", !.items = none, !.want = none] \in Subscription
      BY DEF Subscription
    <3> QED
      BY <3>1, <3>2 DEF NotWrote
  <2>3. [NotWrote(sub) EXCEPT !.unsignalled = TRUE] \in Subscription
    BY <2>2 DEF Subscription
  <2>4. Wrote(sub) \in Subscription
    <3>1. sub.sent \o sub.items \in Seq(Item) /\ sub.last \in 0 .. MaxCursor
      BY DEF Subscription
    <3>2. PICK none \in Seq(Item), sent \in Seq(Item), c \in 0 .. MaxCursor :
             none = <<>> /\ sent = sub.sent \o sub.items /\ c = sub.last
      BY <3>1, NoItems, Zenon
    <3>3. [sub EXCEPT !.pc = "loop", !.cursor = c, !.sent = sent,
                      !.items = none, !.want = none] \in Subscription
      BY DEF Subscription
    <3> QED
      BY <3>2, <3>3 DEF Wrote, CursorAfter
  <2>5. /\ \/ Set(s, NotWrote(sub)) \/ Set(s, Wrote(sub))
           \/ Set(s, [NotWrote(sub) EXCEPT !.unsignalled = TRUE])
        /\ UNCHANGED StreamVars
    BY <1>8, <2>1 DEF Write
  <2>6. faults' \in 0 .. MaxFaults
    BY <1>8, BoundsAssumption, SMTT(30) DEF Write, TypeOK
  <2> QED
    BY <1>4, <2>2, <2>3, <2>4, <2>5, <2>6
<1>9. ASSUME NEW s \in Sub, Leave(s) PROVE TypeOK'
  <2>1. NoSub \in Subscription
    BY CursorsAre, BoundsAssumption DEF NoSub, Subscription
  <2>2. PICK deb, armed : deb = subs[s].deb /\ armed = subs[s].armed
    OBVIOUS
  <2>3. [NoSub EXCEPT !.pc = "done", !.over = TRUE, !.deb = deb, !.armed = armed]
           \in Subscription
    BY <1>1, <2>1, <2>2 DEF Subscription
  <2> QED
    BY <1>4, <1>9, <2>2, <2>3 DEF Leave, TypeOK
<1>10. CASE UNCHANGED vars
  BY <1>10 DEF vars, TypeOK
<1> QED
  BY <1>2, <1>3, <1>5, <1>6, <1>7, <1>8, <1>9, <1>10 DEF Next, HandlerStep

\* Every part of the state has its type, whatever the widths of the cursor
\* and however far the clock and the index have come: the position in
\* RingBuf stays in the buffer, and every query returns entries and cursors.
THEOREM TypeCorrect == Spec => []TypeOK
<1>1. Init => TypeOK
  BY TypeInit
<1>2. TypeOK /\ [Next]_vars => TypeOK'
  BY TypeStep
<1> QED
  BY <1>1, <1>2, PTL DEF Spec
-----------------------------------------------------------------------------
(* The entries and their cursors *)

\* The clock fits in its part of a cursor, and the index does not come round.
WithinWords == MaxTime < 2 ^ TimeBits /\ MaxAppends < 2 ^ IndexBits

\* The clock's part of the cursor of an entry that is appended now.
High == IF index < 0 THEN 2 ^ TimeBits - 1 ELSE ms

\* The index counts the entries, the first of a round of the signed word as
\* they are; no cursor is beyond the one of the next entry, or MaxCursor.
LogOK ==
    /\ Len(log) <= MaxAppends
    /\ index = IF Len(log) < 2 ^ (IndexBits - 1) THEN Len(log)
               ELSE Len(log) - 2 ^ IndexBits
    /\ \A k \in 1 .. Len(log) :
          /\ log[k].n = k
          /\ log[k].cursor <= High * 2 ^ IndexBits + (k - 1)
          /\ log[k].cursor < MaxCursor
    /\ \A i, j \in 1 .. Len(log) : i < j => log[i].cursor < log[j].cursor

Kept == LogOK /\ Holds(ring, log)

LEMMA WordsAre ==
    ASSUME WithinWords
    PROVE  \E t \in Nat \ {0}, half \in Nat \ {0} :
              /\ t = 2 ^ TimeBits /\ half = 2 ^ (IndexBits - 1)
              /\ 2 ^ IndexBits = 2 * half /\ MaxCursor + 1 = t * (2 * half)
              /\ MaxTime < t /\ MaxAppends < 2 * half
<1>1. TimeBits \in Nat /\ IndexBits - 1 \in Nat /\ (IndexBits - 1) + 1 = IndexBits
  BY WidthAssumption
<1>2. 2 ^ ((IndexBits - 1) + 1) = 2 * 2 ^ (IndexBits - 1)
  BY <1>1, PowNext
<1>3. PICK t \in Nat \ {0}, half \in Nat \ {0} :
         t = 2 ^ TimeBits /\ half = 2 ^ (IndexBits - 1)
  BY <1>1, PowPos
<1>4. 2 ^ IndexBits = 2 * half
  BY <1>1, <1>2, <1>3
<1>5. MaxCursor + 1 = t * (2 * half)
  BY <1>3, <1>4, CursorsAre
<1>6. MaxTime < t /\ MaxAppends < 2 * half
  BY <1>3, <1>4 DEF WithinWords
<1> QED
  BY <1>3, <1>4, <1>5, <1>6

LEMMA TimesMore ==
    ASSUME NEW a \in Nat, NEW b \in Nat, NEW c \in Nat, a <= b
    PROVE  a * c <= b * c
<1>1. PICK d \in Nat : b = a + d
  <2>1. b - a \in Nat /\ b = a + (b - a)
    OBVIOUS
  <2> QED
    BY <2>1
<1>2. b * c = a * c + d * c /\ a * c \in Nat /\ d * c \in Nat
  BY <1>1
<1> QED
  BY <1>2

LEMMA ModBelow ==
    ASSUME NEW b \in Nat \ {0}, NEW n \in 0 .. b - 1
    PROVE  n % b = n /\ (n - b) % b = n
OBVIOUS

\* The cursor of the next entry.
LEMMA NextCursor ==
    ASSUME WithinWords, TypeOK, LogOK, Len(log) + 1 <= MaxAppends
    PROVE  /\ CursorOf(ms, index) = High * 2 ^ IndexBits + Len(log)
           /\ High \in 0 .. 2 ^ TimeBits - 1
           /\ CursorOf(ms, index) < MaxCursor
<1>1. PICK t \in Nat \ {0}, half \in Nat \ {0} :
         /\ t = 2 ^ TimeBits /\ half = 2 ^ (IndexBits - 1)
         /\ 2 ^ IndexBits = 2 * half /\ MaxCursor + 1 = t * (2 * half)
         /\ MaxTime < t /\ MaxAppends < 2 * half
  BY WordsAre
<1>2. PICK len \in Nat : len = Len(log)
  BY DEF TypeOK
<1>3. PICK b \in Nat \ {0} : b = 2 * half
  OBVIOUS
<1>4. index = IF len < half THEN len ELSE len - b
  BY <1>1, <1>2, <1>3 DEF LogOK
<1>5. len \in 0 .. b - 1 /\ len + 1 <= b - 1 /\ ms \in 0 .. t - 1
  <2>1. ms \in 0 .. MaxTime
    BY DEF TypeOK
  <2>2. MaxTime \in Nat /\ MaxAppends \in Nat
    BY BoundsAssumption
  <2>3. MaxTime < t /\ MaxAppends < b /\ len + 1 <= MaxAppends
    BY <1>1, <1>2, <1>3
  <2> QED
    BY <2>1, <2>2, <2>3
<1>6. index % b = len
  BY <1>4, <1>5, ModBelow
<1>7. ms % t = ms
  BY <1>5, ModBelow
<1>8. CursorOf(ms, index) = High * b + len
  BY <1>1, <1>3, <1>6, <1>7 DEF CursorOf, High
<1>9. High \in 0 .. t - 1
  BY <1>1, <1>5 DEF High
<1>10. PICK high \in 0 .. t - 1 : high = High
  BY <1>9
<1>11. high * b <= (t - 1) * b
  BY TimesMore
<1>12. (t - 1) * b + b = t * b /\ high * b \in Nat /\ (t - 1) * b \in Nat
  OBVIOUS
<1>13. MaxCursor + 1 = t * b /\ MaxCursor \in Nat
  BY <1>1, <1>3, CursorsAre
<1>14. high * b + len < MaxCursor
  BY <1>5, <1>11, <1>12, <1>13
<1> QED
  BY <1>1, <1>2, <1>3, <1>8, <1>9, <1>10, <1>14

LEMMA KeptInit == ASSUME WithinWords, Init PROVE Kept
<1>1. 0 < 2 ^ (IndexBits - 1)
  BY WordsAre
<1>2. LogOK
  BY <1>1, BoundsAssumption DEF Init, LogOK
<1>3. NoItem \in {NoItem}
  OBVIOUS
<1>4. Holds(ring, log)
  BY <1>3, EmptyRingIs DEF Init
<1> QED
  BY <1>2, <1>4 DEF Kept

LEMMA EntryTyped ==
    ASSUME TypeOK, Len(log) + 1 <= MaxAppends, NEW match \in BOOLEAN
    PROVE  [n |-> Len(log) + 1, cursor |-> CursorOf(ms, index), match |-> match]
              \in Item
<1>1. ms \in Nat /\ Len(log) + 1 \in 0 .. MaxAppends
  BY BoundsAssumption DEF TypeOK
<1>2. index \in Int
  <2>1. IndexBits - 1 \in Nat
    BY WidthAssumption
  <2> QED
    BY <2>1, PowPos DEF TypeOK
<1> QED
  BY <1>1, <1>2, CursorOfIn DEF Item

\* The clock's part does not become smaller, whether the index overflows or not.
LEMMA AppendKept ==
    ASSUME WithinWords, TypeOK, Kept, NEW match \in BOOLEAN, Append_(match)
    PROVE  Kept'
<1>1. Len(log) + 1 <= MaxAppends
  BY BoundsAssumption DEF Append_, InBounds, TypeOK
<1>2. PICK e \in Item : /\ e.n = Len(log) + 1 /\ e.cursor = CursorOf(ms, index)
                        /\ ring' = Add(ring, e) /\ log' = Append(log, e)
  <2>1. PICK e : /\ e = [n |-> Len(log) + 1, cursor |-> CursorOf(ms, index),
                         match |-> match]
                 /\ ring' = Add(ring, e) /\ log' = Append(log, e)
    BY DEF Append_
  <2>2. e \in Item
    BY <1>1, <2>1, EntryTyped
  <2> QED
    BY <2>1, <2>2
<1>3. Holds(ring', log')
  <2>1. ring \in Rings(Item) /\ log \in Seq(Item) /\ Holds(ring, log)
    BY DEF Kept, TypeOK, Rings
  <2> QED
    BY <1>2, <2>1, AddHolds
<1>4. PICK t \in Nat \ {0}, half \in Nat \ {0} :
         /\ t = 2 ^ TimeBits /\ half = 2 ^ (IndexBits - 1)
         /\ 2 ^ IndexBits = 2 * half /\ MaxAppends < 2 * half
  BY WordsAre
<1>5. PICK len \in Nat, b \in Nat \ {0} : len = Len(log) /\ b = 2 * half
  BY DEF TypeOK
<1>6. PICK high \in 0 .. t - 1 : high = High
  BY <1>1, <1>4, NextCursor DEF Kept
<1>7. e.cursor = high * b + len /\ e.cursor < MaxCursor /\ e.cursor \in Int
  BY <1>1, <1>2, <1>4, <1>5, <1>6, NextCursor DEF Kept, Item
<1>8. index = IF len < half THEN len ELSE len - b
  BY <1>4, <1>5 DEF Kept, LogOK
<1>9. index' = IF index = half - 1 THEN -half ELSE index + 1
  BY <1>4 DEF Append_, NextIndex
<1>10. len + 1 < b
  BY <1>1, <1>4, <1>5, BoundsAssumption
<1>11. index' = IF len + 1 < half THEN len + 1 ELSE len + 1 - b
  BY <1>5, <1>8, <1>9, <1>10
<1>12. PICK high2 \in 0 .. t - 1 : high2 = High' /\ high <= high2
  <2>1. High' = IF index' < 0 THEN t - 1 ELSE ms
    BY <1>4 DEF Append_, High
  <2>2. high = IF index < 0 THEN t - 1 ELSE ms
    BY <1>4, <1>6 DEF High
  <2>3. index < 0 => index' < 0
    BY <1>5, <1>8, <1>10, <1>11
  <2>4. CASE index' < 0
    <3>1. High' \in 0 .. t - 1 /\ high <= High'
      BY <2>1, <2>4
    <3> QED
      BY <3>1
  <2>5. CASE ~(index' < 0)
    <3>1. High' = high
      BY <2>1, <2>2, <2>3, <2>5
    <3> QED
      BY <3>1
  <2> QED
    BY <2>4, <2>5
<1>13. high * b <= high2 * b /\ high * b \in Nat /\ high2 * b \in Nat
  <2>1. high \in Nat /\ high2 \in Nat /\ b \in Nat /\ high <= high2
    BY <1>12
  <2>2. high * b <= high2 * b
    BY <2>1, TimesMore, Zenon
  <2> QED
    BY <2>1, <2>2
<1>14. /\ Len(log') = len + 1 /\ log'[len + 1] = e
       /\ \A k \in 1 .. len : log'[k] = log[k] /\ log[k] \in Item
  BY <1>2, <1>5, SMTT(30) DEF TypeOK
<1>15. \A k \in 1 .. len : /\ log[k].n = k /\ log[k].cursor <= high * b + (k - 1)
                           /\ log[k].cursor < MaxCursor /\ log[k].cursor \in Int
  <2>1. \A k \in 1 .. len : log[k].cursor \in Int
    BY <1>14 DEF Item
  <2> QED
    BY <1>4, <1>5, <1>6, <2>1 DEF Kept, LogOK
<1>16. \A k \in 1 .. len + 1 : k \in 1 .. len \/ k = len + 1
  OBVIOUS
<1>17. PICK p \in Nat, p2 \in Nat : p = high * b /\ p2 = high2 * b /\ p <= p2
  BY <1>13
<1>18. ASSUME NEW k \in 1 .. len + 1
       PROVE  /\ log'[k].n = k
              /\ log'[k].cursor <= p2 + (k - 1)
              /\ log'[k].cursor < MaxCursor
  <2>1. CASE k \in 1 .. len
    BY <1>14, <1>15, <1>17, <2>1, SMTT(30)
  <2>2. CASE k = len + 1
    BY <1>2, <1>5, <1>7, <1>14, <1>17, <2>2
  <2> QED
    BY <1>16, <2>1, <2>2
<1>19. ASSUME NEW i \in 1 .. len + 1, NEW j \in 1 .. len + 1, i < j
       PROVE  log'[i].cursor < log'[j].cursor
  <2>1. i \in 1 .. len
    BY <1>19
  <2>2. CASE j \in 1 .. len
    BY <1>5, <1>14, <1>19, <2>1, <2>2 DEF Kept, LogOK
  <2>3. CASE j = len + 1
    <3>1. /\ log'[i].cursor <= p + (i - 1) /\ log'[i].cursor \in Int
          /\ log'[j].cursor = p + len
      BY <1>7, <1>14, <1>15, <1>17, <2>1, <2>3
    <3> QED
      BY <2>1, <3>1
  <2> QED
    BY <1>16, <2>2, <2>3
<1>20. LogOK'
  <2>1. 2 ^ IndexBits = b /\ p2 = High' * b
    BY <1>4, <1>5, <1>12, <1>17
  <2>2. \A k \in 1 .. Len(log') : /\ log'[k].n = k
                                  /\ log'[k].cursor <= High' * 2 ^ IndexBits + (k - 1)
                                  /\ log'[k].cursor < MaxCursor
    BY <1>14, <1>18, <2>1
  <2>3. \A i, j \in 1 .. Len(log') : i < j => log'[i].cursor < log'[j].cursor
    BY <1>14, <1>19
  <2>4. Len(log') <= MaxAppends
    BY <1>1, <1>5, <1>14
  <2>5. index' = IF Len(log') < 2 ^ (IndexBits - 1) THEN Len(log')
                 ELSE Len(log') - 2 ^ IndexBits
    <3>1. PICK now \in Nat : now = Len(log') /\ now = len + 1
      BY <1>14
    <3>2. index' = IF now < half THEN now ELSE now - b
      BY <1>11, <3>1
    <3> QED
      BY <1>4, <1>5, <3>1, <3>2
  <2> QED
    BY <2>2, <2>3, <2>4, <2>5 DEF LogOK
<1> QED
  BY <1>3, <1>20 DEF Kept

LEMMA TickKept == ASSUME WithinWords, TypeOK, Kept, Tick PROVE Kept'
<1>1. PICK t \in Nat \ {0}, half \in Nat \ {0} :
         /\ t = 2 ^ TimeBits /\ half = 2 ^ (IndexBits - 1)
         /\ 2 ^ IndexBits = 2 * half /\ MaxTime < t
  BY WordsAre
<1>2. /\ ms \in Nat /\ ms' = ms + 1 /\ ms' <= MaxTime
      /\ UNCHANGED <<index, ring, log>>
  BY BoundsAssumption DEF Tick, InBounds, TypeOK
<1>3. PICK high \in Nat, high2 \in Nat : high = High /\ high2 = High' /\ high <= high2
  <2>1. High = IF index < 0 THEN t - 1 ELSE ms
    BY <1>1 DEF High
  <2>2. High' = IF index < 0 THEN t - 1 ELSE ms + 1
    BY <1>1, <1>2 DEF High
  <2>3. High \in Nat /\ High' \in Nat /\ High <= High'
    BY <1>1, <1>2, <2>1, <2>2
  <2> QED
    BY <2>3
<1>4. PICK b \in Nat \ {0} : b = 2 ^ IndexBits
  BY <1>1
<1>5. high * b <= high2 * b /\ high * b \in Nat /\ high2 * b \in Nat
  <2>1. high \in Nat /\ high2 \in Nat /\ b \in Nat /\ high <= high2
    BY <1>3
  <2>2. high * b <= high2 * b
    BY <2>1, TimesMore, Zenon
  <2> QED
    BY <2>1, <2>2
<1>6. PICK p \in Nat, p2 \in Nat : p = high * b /\ p2 = high2 * b /\ p <= p2
  BY <1>5
<1>7. \A k \in 1 .. Len(log) : log[k].cursor <= p2 + (k - 1)
  <2> TAKE k \in 1 .. Len(log)
  <2>1. log[k].cursor \in Int
    <3>1. log[k] \in Item
      BY DEF TypeOK
    <3> QED
      BY <3>1, CursorsAre DEF Item
  <2>2. log[k].cursor <= p + (k - 1)
    BY <1>3, <1>4, <1>6 DEF Kept, LogOK
  <2> QED
    BY <1>6, <2>1, <2>2
<1>8. \A k \in 1 .. Len(log) : log[k].cursor <= High' * 2 ^ IndexBits + (k - 1)
  BY <1>3, <1>4, <1>6, <1>7
<1> QED
  BY <1>2, <1>8 DEF Kept, LogOK

LEMMA OthersKept ==
    ASSUME Kept, UNCHANGED StreamVars
    PROVE  Kept'
BY DEF Kept, LogOK, High, StreamVars

LEMMA KeptStep == ASSUME WithinWords, TypeOK, Kept, [Next]_vars PROVE Kept'
<1>1. \/ \E match \in BOOLEAN : Append_(match)
      \/ Tick
      \/ UNCHANGED StreamVars
  BY DEF Next, HandlerStep, DebouncerStep, Accept, Listen, Update, Fetch, Write, Leave,
         Disconnect, Debounce, TimerFires, DropUpdate, vars, StreamVars
<1> QED
  BY <1>1, AppendKept, TickKept, OthersKept

\* The entries of the ring, by their place in the log.
LEMMA RingIs ==
    ASSUME TypeOK, Kept
    PROVE  /\ ring \in Rings(Item)
           /\ ring.size \in 0 .. Len(log) /\ ring.size <= Capacity
           /\ ring.size = 0 <=> Len(log) = 0
           /\ \A i \in 0 .. ring.size - 1 :
                 LET k == Len(log) - ring.size + i + 1 IN
                 /\ k \in 1 .. Len(log) /\ Get(ring, i) = log[k]
                 /\ Get(ring, i) \in Item /\ Get(ring, i).n = k
           /\ Numbered(ring) /\ InOrder(ring)
<1>1. /\ ring \in Rings(Item) /\ log \in Seq(Item) /\ Holds(ring, log)
      /\ Capacity \in Nat \ {0}
  BY CapacityAssumption DEF TypeOK, Kept, Rings
<1>2. PICK len \in Nat, size \in Nat : len = Len(log) /\ size = ring.size
  BY <1>1, CapacityAssumption DEF Rings
<1>3. size = IF len < Capacity THEN len ELSE Capacity
  BY <1>1, <1>2 DEF Holds
<1>4. size \in 0 .. len /\ size <= Capacity /\ (size = 0 <=> len = 0)
  BY <1>1, <1>2, <1>3
<1>5. ASSUME NEW i \in 0 .. size - 1
      PROVE  /\ len - size + i + 1 \in 1 .. len
             /\ Get(ring, i) = log[len - size + i + 1]
             /\ Get(ring, i) \in Item /\ Get(ring, i).n = len - size + i + 1
  <2>1. PICK k \in 1 .. len : k = len - size + i + 1
    BY <1>4
  <2>2. Get(ring, i) = log[k]
    BY <1>1, <1>2, <2>1 DEF Holds
  <2>3. log[k] \in Item /\ log[k].n = k
    BY <1>1, <1>2 DEF Kept, LogOK
  <2> QED
    BY <2>1, <2>2, <2>3
<1>6. Numbered(ring)
  BY <1>1, RingNumbered
<1>7. InOrder(ring)
  <2> SUFFICES ASSUME NEW i \in 0 .. size - 1, NEW j \in 0 .. size - 1, i < j
               PROVE  Get(ring, i).cursor < Get(ring, j).cursor
    BY <1>2 DEF InOrder
  <2>1. PICK k \in 1 .. len, l \in 1 .. len :
           k = len - size + i + 1 /\ l = len - size + j + 1
    BY <1>5
  <2>2. k < l
    BY <1>4, <2>1
  <2> QED
    BY <1>2, <1>5, <2>1, <2>2 DEF Kept, LogOK
<1> QED
  BY <1>1, <1>2, <1>4, <1>5, <1>6, <1>7

LEMMA SubSeqIs ==
    ASSUME NEW S, NEW s \in Seq(S), NEW m \in Nat, m <= Len(s)
    PROVE  /\ SubSeq(s, m + 1, Len(s)) \in Seq(S)
           /\ Len(SubSeq(s, m + 1, Len(s))) = Len(s) - m
           /\ \A i \in 1 .. Len(s) - m : SubSeq(s, m + 1, Len(s))[i] = s[m + i]
<1>1. PICK len \in Nat, d \in Nat : len = Len(s) /\ d = len - m
  OBVIOUS
<1>2. SubSeq(s, m + 1, len) = [i \in 1 .. d |-> s[i + (m + 1) - 1]]
  BY <1>1
<1>3. \A i \in 1 .. d : s[i + (m + 1) - 1] = s[m + i] /\ s[m + i] \in S
  BY <1>1
<1>4. \A i \in 1 .. d : SubSeq(s, m + 1, len)[i] = s[m + i]
  BY <1>2, <1>3
<1>5. SubSeq(s, m + 1, len) \in Seq(S) /\ Len(SubSeq(s, m + 1, len)) = d
  BY <1>2, <1>3
<1> QED
  BY <1>1, <1>4, <1>5

LEMMA KeptHolds == ASSUME TypeOK, Kept PROVE RingHolds
<1>1. PICK len \in Nat, size \in Nat : len = Len(log) /\ size = ring.size
  BY RingIs, CapacityAssumption DEF TypeOK, Rings
<1>2. /\ ring \in Rings(Item) /\ log \in Seq(Item)
      /\ size \in 0 .. len /\ InOrder(ring)
      /\ \A i \in 0 .. size - 1 : /\ len - size + i + 1 \in 1 .. len
                                  /\ Get(ring, i) = log[len - size + i + 1]
  BY <1>1, RingIs DEF TypeOK
<1>3. /\ Values(ring) \in Seq(Item) /\ Len(Values(ring)) = size
      /\ \A i \in 1 .. size : Values(ring)[i] = Get(ring, i - 1)
  BY <1>1, <1>2, ValuesIs
<1>4. PICK values \in Seq(Item) : values = Values(ring)
  BY <1>3
<1>5. PICK old \in Nat : old = len - size
  BY <1>2
<1>6. \A i \in 1 .. size : i - 1 \in 0 .. size - 1 /\ values[i] = log[old + i]
  <2> TAKE i \in 1 .. size
  <2>1. i - 1 \in 0 .. size - 1 /\ len - size + (i - 1) + 1 = old + i
    BY <1>5
  <2> QED
    BY <1>2, <1>3, <1>4, <2>1
<1>7. SubSeq(log, old + 1, Len(log)) = values
  <2>1. log \in Seq(Item) /\ old \in Nat /\ old <= Len(log)
    BY <1>1, <1>2, <1>5
  <2>2. PICK newer : newer = SubSeq(log, old + 1, Len(log))
    OBVIOUS
  <2>3. /\ newer \in Seq(Item) /\ Len(newer) = Len(log) - old
        /\ \A i \in 1 .. Len(log) - old : newer[i] = log[old + i]
    BY <2>1, <2>2, SubSeqIs, Zenon
  <2>4. Len(log) - old = size
    BY <1>1, <1>2, <1>5
  <2>5. Len(newer) = Len(values) /\ \A i \in 1 .. Len(newer) : newer[i] = values[i]
    BY <1>3, <1>4, <1>6, <2>3, <2>4
  <2> QED
    BY <1>4, <2>2, <2>3, <2>5
<1>8. ASSUME NEW i \in 1 .. size - 1 PROVE values[i].cursor < values[i + 1].cursor
  <2>1. /\ i \in 1 .. size /\ i + 1 \in 1 .. size /\ (i + 1) - 1 = i
        /\ i - 1 \in 0 .. size - 1 /\ i \in 0 .. size - 1 /\ i - 1 < i
    OBVIOUS
  <2>2. values[i] = Get(ring, i - 1) /\ values[i + 1] = Get(ring, i)
    BY <1>3, <1>4, <2>1
  <2> QED
    BY <1>1, <1>2, <2>1, <2>2 DEF InOrder
<1>9. ring.size = IF Len(log) < Capacity THEN Len(log) ELSE Capacity
  BY DEF Kept, Holds
<1> QED
  BY <1>1, <1>4, <1>5, <1>7, <1>8, <1>9 DEF RingHolds

\* The ring buffer of Buffered holds the latest entries in order of arrival,
\* and the cursors Append gives them increase, also across the overflow of
\* the signed index, for any capacity and any widths that the clock and the
\* number of entries stay within.
THEOREM RingCorrect == ASSUME WithinWords PROVE Spec => []RingHolds
<1>1. Init => TypeOK /\ Kept
  BY TypeInit, KeptInit
<1>2. TypeOK /\ Kept /\ [Next]_vars => (TypeOK /\ Kept)'
  BY TypeStep, KeptStep
<1>3. TypeOK /\ Kept => RingHolds
  BY KeptHolds
<1> QED
  BY <1>1, <1>2, <1>3, PTL DEF Spec
-----------------------------------------------------------------------------
(* The subscriptions *)

\* Entries of the log, in its order.
FromLog(q, entries) ==
    /\ \A i \in 1 .. Len(q) : q[i].n \in 1 .. Len(entries) /\ q[i] = entries[q[i].n]
    /\ \A i, j \in 1 .. Len(q) : i < j => q[i].n < q[j].n

\* The last entry a client was sent, or that was there before it came.
Mark(sub) == IF sub.sent = <<>> THEN sub.base ELSE sub.sent[Len(sub.sent)].n

Active == {"listen", "loop", "query", "write"}

\* The cursor of a subscription is that of its mark.  What was fetched lies
\* after it, and is what was to be sent; the cursor to come is that of the
\* last of it.  A subscription to an empty stream has the greatest cursor,
\* and fetches nothing.
SubOK(sub, entries) ==
    /\ FromLog(sub.sent, entries) /\ FromLog(sub.items, entries)
    /\ sub.sent # <<>> => Mark(sub) > sub.base
    /\ \A i \in 1 .. Len(sub.items) : sub.items[i].n > Mark(sub)
    /\ sub.pc \in Active /\ sub.base = 0 =>
          sub.sent = <<>> /\ sub.items = <<>> /\ sub.cursor = MaxCursor
    /\ sub.pc \in Active /\ sub.base > 0 =>
          Mark(sub) \in 1 .. Len(entries) /\ sub.cursor = entries[Mark(sub)].cursor
    /\ sub.pc = "write" /\ sub.items # <<>> =>
          sub.last = sub.items[Len(sub.items)].cursor
    /\ sub.pc = "write" /\ sub.base > 0 => sub.items = sub.want

AllOK == \A s \in Sub : SubOK(subs[s], log)

StartAfter(r, c) == StartPos(r, TRUE, c)

\* A forward query starts at the first entry whose cursor is greater.
LEMMA ForwardStart ==
    ASSUME NEW S, NEW r \in Rings(S), NEW c \in Int, Numbered(r), InOrder(r),
           NEW o, o = StartAfter(r, c)
    PROVE  /\ o \in 0 .. r.size
           /\ \A i \in 0 .. r.size - 1 : i >= o <=> Get(r, i).cursor > c
<1>1. PICK size \in Nat : size = r.size
  BY CapacityAssumption DEF Rings
<1>2. PICK pos \in 0 .. size : pos = SearchFrom(r, c) /\ Parts(r, c, 0, size, pos)
  BY <1>1, SearchFinds
<1>3. \/ o = pos + 1 /\ pos < size /\ Get(r, pos).cursor = c
      \/ o = pos /\ (pos < size => Get(r, pos).cursor # c)
  <2>1. o = IF Found(r, pos, c) THEN pos + 1 ELSE pos
    <3>1. \A forward \in BOOLEAN :
             forward => StartPos(r, forward, c) =
                           IF Found(r, pos, c) THEN pos + 1 ELSE pos
      BY <1>2, StartIs
    <3>2. TRUE => StartPos(r, TRUE, c) = IF Found(r, pos, c) THEN pos + 1 ELSE pos
      BY <3>1, Zenon
    <3> QED
      BY <3>2, Zenon DEF StartAfter
  <2>2. Found(r, pos, c) <=> pos < size /\ Get(r, pos).cursor = c
    BY <1>1 DEF Found
  <2> QED
    BY <2>1, <2>2
<1>4. o \in 0 .. size
  BY <1>3
<1>5. ASSUME NEW i \in 0 .. size - 1 PROVE i >= o <=> Get(r, i).cursor > c
  <2>1. /\ Get(r, i).cursor \in Int
        /\ i < pos => Get(r, i).cursor < c
        /\ i >= pos => Get(r, i).cursor >= c
    BY <1>1, <1>2 DEF Numbered, Parts
  <2>2. CASE i < pos
    BY <1>3, <2>1, <2>2
  <2>3. CASE i = pos
    BY <1>3, <2>1, <2>3
  <2>4. CASE i > pos
    <3>1. pos \in 0 .. size - 1 /\ Get(r, pos).cursor \in Int
      BY <1>1, <1>2, <2>4 DEF Numbered
    <3>2. Get(r, pos).cursor >= c
      BY <1>2, <3>1 DEF Parts
    <3>3. Get(r, pos).cursor < Get(r, i).cursor
      BY <1>1, <2>4, <3>1 DEF InOrder
    <3>4. Get(r, i).cursor > c
      BY <2>1, <3>1, <3>2, <3>3
    <3> QED
      BY <1>3, <2>4, <3>4
  <2> QED
    BY <2>2, <2>3, <2>4
<1> QED
  BY <1>1, <1>4, <1>5

\* What a client is owed is what lies after its mark.
LEMMA OwingIs ==
    ASSUME TypeOK, NEW sub \in Subscription, SubOK(sub, log), NEW e \in Item
    PROVE  e \in Owing(sub) <=> Filter(sub.filtered, e) /\ e.n > Mark(sub)
<1>1. PICK sent \in Seq(Item), base \in Nat : sent = sub.sent /\ base = sub.base
  BY BoundsAssumption DEF Subscription
<1>2. e.n \in Nat /\ \A i \in 1 .. Len(sent) : sent[i].n \in Nat
  <2>1. \A x \in Item : x.n \in Nat
    BY BoundsAssumption DEF Item
  <2>2. \A i \in 1 .. Len(sent) : sent[i] \in Item
    OBVIOUS
  <2> QED
    BY <2>1, <2>2
<1>3. e \in Owing(sub) <=> /\ Filter(sub.filtered, e) /\ e.n > base
                           /\ \A i \in 1 .. Len(sent) : e.n > sent[i].n
  BY <1>1 DEF Owing
<1>4. CASE sent = <<>>
  <2>1. Len(sent) = 0 /\ Mark(sub) = base
    BY <1>1, <1>4 DEF Mark
  <2> QED
    BY <1>3, <2>1
<1>5. CASE sent # <<>>
  <2>1. PICK len \in Nat \ {0} : len = Len(sent)
    BY <1>5
  <2>2. Mark(sub) = sent[len].n /\ Mark(sub) > base
    BY <1>1, <1>5, <2>1 DEF Mark, SubOK
  <2>3. \A i \in 1 .. len : sent[i].n <= sent[len].n
    <3> TAKE i \in 1 .. len
    <3>1. i < len => sent[i].n < sent[len].n
      BY <1>1, <2>1 DEF SubOK, FromLog
    <3>2. i < len \/ i = len
      OBVIOUS
    <3> QED
      BY <1>2, <2>1, <3>1, <3>2
  <2>4. e.n > sent[len].n => /\ e.n > base
                             /\ \A i \in 1 .. Len(sent) : e.n > sent[i].n
    <3>1. sent[len].n \in Nat
      BY <1>2, <2>1
    <3> QED
      BY <1>2, <2>1, <2>2, <2>3, <3>1
  <2>5. (\A i \in 1 .. Len(sent) : e.n > sent[i].n) => e.n > sent[len].n
    BY <2>1
  <2> QED
    BY <1>3, <2>2, <2>4, <2>5
<1> QED
  BY <1>4, <1>5

\* A selection of a part of the log is in its order.
LEMMA PicksFromLog ==
    ASSUME NEW entries \in Seq(Item), NEW run \in Seq(Item), NEW K,
           NEW q \in Seq(Item), NEW p, Picks(p, q, run, K, Len(run)),
           NEW m \in Nat, m + Len(run) <= Len(entries),
           \A i \in 1 .. Len(run) : run[i] = entries[m + i] /\ run[i].n = m + i,
           NEW count \in Nat
    PROVE  /\ FromLog(FirstOf(q, count), entries)
           /\ \A i \in 1 .. Len(FirstOf(q, count)) : FirstOf(q, count)[i].n > m
<1>1. PICK len \in Nat, total \in Nat : len = Len(run) /\ total = Len(entries)
  OBVIOUS
<1>2. PICK items \in Seq(Item) : items = FirstOf(q, count)
  BY FirstOfIs
<1>3. \A i \in 1 .. Len(items) : i \in 1 .. Len(q) /\ items[i] = q[i]
  BY <1>2, FirstOfIs
<1>4. \A i \in 1 .. Len(q) : p[i] \in 1 .. len /\ q[i] = run[p[i]]
  BY <1>1 DEF Picks
<1>5. \A i \in 1 .. Len(items) :
         /\ items[i].n = m + p[i] /\ items[i].n \in 1 .. total /\ items[i].n > m
         /\ items[i] = entries[items[i].n]
  <2> TAKE i \in 1 .. Len(items)
  <2>1. PICK k \in 1 .. len : k = p[i] /\ items[i] = run[k]
    BY <1>3, <1>4
  <2>2. run[k] = entries[m + k] /\ run[k].n = m + k
    BY <1>1
  <2>3. m + k \in 1 .. total /\ m + k > m
    BY <1>1
  <2> QED
    BY <2>1, <2>2, <2>3
<1>6. ASSUME NEW i \in 1 .. Len(items), NEW j \in 1 .. Len(items), i < j
      PROVE  items[i].n < items[j].n
  <2>1. i \in 1 .. Len(q) /\ j \in 1 .. Len(q)
    BY <1>3
  <2>2. p[i] < p[j] /\ p[i] \in 1 .. len /\ p[j] \in 1 .. len
    BY <1>4, <1>6, <2>1 DEF Picks
  <2> QED
    BY <1>5, <2>2
<1> QED
  BY <1>1, <1>2, <1>5, <1>6 DEF FromLog

RunAfter(r, c) == RunOf(r, TRUE, c)

QueryAfter(r, c, count, filtered) == Query(r, TRUE, c, count, filtered)

LEMMA RunAfterIs ==
    ASSUME NEW r \in Rings(Item), NEW c \in Int, NEW o, o = StartAfter(r, c)
    PROVE  /\ RunAfter(r, c) \in Seq(Item)
           /\ Len(RunAfter(r, c)) = r.size - o
           /\ \A i \in 1 .. r.size - o : RunAfter(r, c)[i] = Get(r, o + i - 1)
<1>1. Numbered(r)
  BY RingNumbered
<1>2. PICK size \in Nat : size = r.size /\ size <= Capacity
  BY CapacityAssumption DEF Rings
<1>3. o \in 0 .. size
  <2>1. \A forward \in BOOLEAN :
           forward => StartPos(r, forward, c) \in 0 .. r.size
    BY <1>1, StartIs
  <2>2. StartPos(r, TRUE, c) \in 0 .. r.size
    BY <2>1, Zenon
  <2> QED
    BY <1>2, <2>2, Zenon DEF StartAfter
<1>4. RunAfter(r, c) = [i \in 1 .. size - o |-> Get(r, o + i - 1)]
  <2>1. Iterator(r, TRUE) = [pos \in -1 .. r.size |->
                                [i \in 1 .. r.size - pos |-> Get(r, pos + i - 1)]]
    BY DEF Iterator
  <2>2. o \in -1 .. r.size
    BY <1>2, <1>3
  <2>3. Iterator(r, TRUE)[o] = [i \in 1 .. r.size - o |-> Get(r, o + i - 1)]
    BY <2>1, <2>2
  <2> QED
    BY <1>2, <2>3, Zenon DEF RunAfter, RunOf, StartAfter
<1>5. \A i \in 1 .. size - o : Get(r, o + i - 1) \in Item
  <2> TAKE i \in 1 .. size - o
  <2>1. o + i - 1 \in 0 .. Capacity - 1
    BY <1>2, <1>3, CapacityAssumption
  <2> QED
    BY <2>1, GetIn
<1>6. size - o \in Nat
  BY <1>3
<1>7. /\ RunAfter(r, c) \in Seq(Item) /\ Len(RunAfter(r, c)) = size - o
      /\ \A i \in 1 .. size - o : RunAfter(r, c)[i] = Get(r, o + i - 1)
  BY <1>4, <1>5, <1>6
<1> QED
  BY <1>2, <1>7

LEMMA QueryAfterIs ==
    ASSUME NEW r \in Rings(Item), NEW c \in Int, NEW count, NEW filtered,
           NEW run \in Seq(Item), run = RunAfter(r, c)
    PROVE  \E f : /\ IsSel(f, run, Passing(Item, filtered))
                  /\ QueryAfter(r, c, count, filtered) = Answer(f[Len(run)], c, count)
<1>1. TRUE \in BOOLEAN /\ run = RunOf(r, TRUE, c)
  BY DEF RunAfter
<1>2. \E f : /\ IsSel(f, run, Passing(Item, filtered))
             /\ Query(r, TRUE, c, count, filtered) = Answer(f[Len(run)], c, count)
  <2>1. \A forward \in BOOLEAN :
           run = RunOf(r, forward, c) =>
              \E f : /\ IsSel(f, run, Passing(Item, filtered))
                     /\ Query(r, forward, c, count, filtered) =
                           Answer(f[Len(run)], c, count)
    BY RingNumbered, QueryIs
  <2> QED
    BY <1>1, <2>1, Zenon
<1> QED
  BY <1>2, Zenon DEF QueryAfter

\* What Fetch gets for a subscription.
LEMMA Fetched ==
    ASSUME TypeOK, Kept, NEW sub \in Subscription, SubOK(sub, log),
           sub.pc = "query",
           NEW res, res = QueryAfter(ring, sub.cursor, Limit, sub.filtered),
           NEW want, want = FirstOf(Pending(sub), Limit)
    PROVE  /\ res.items \in Seq(Item) /\ FromLog(res.items, log)
           /\ \A i \in 1 .. Len(res.items) : res.items[i].n > Mark(sub)
           /\ sub.base = 0 => res.items = <<>>
           /\ res.items # <<>> => res.last = res.items[Len(res.items)].cursor
           /\ sub.base > 0 => res.items = want
<1>1. PICK c \in Int, base \in Nat, filtered \in BOOLEAN :
         c = sub.cursor /\ base = sub.base /\ filtered = sub.filtered
  BY CursorsAre, BoundsAssumption DEF Subscription
<1>2. /\ ring \in Rings(Item) /\ log \in Seq(Item)
      /\ Numbered(ring) /\ InOrder(ring) /\ Limit \in Nat
  BY RingIs, BoundsAssumption DEF TypeOK
<1>3. PICK len \in Nat, size \in Nat :
         /\ len = Len(log) /\ size = ring.size /\ size <= len
         /\ \A i \in 0 .. size - 1 :
               /\ len - size + i + 1 \in 1 .. len
               /\ Get(ring, i) = log[len - size + i + 1]
               /\ Get(ring, i) \in Item /\ Get(ring, i).n = len - size + i + 1
  <2>1. Len(log) \in Nat /\ ring.size \in Nat
    BY <1>2, CapacityAssumption DEF Rings
  <2> QED
    BY <2>1, RingIs
<1>4. PICK old \in Nat : old = len - size /\ old + size = len
  <2>1. size <= len
    BY <1>3
  <2>2. len - size \in Nat /\ (len - size) + size = len
    BY <2>1
  <2> QED
    BY <2>2
<1>5. PICK o \in 0 .. size :
         /\ o = StartAfter(ring, c)
         /\ \A i \in 0 .. size - 1 : i >= o <=> Get(ring, i).cursor > c
  BY <1>2, <1>3, ForwardStart
<1>6. PICK run \in Seq(Item) :
         /\ run = RunAfter(ring, c) /\ Len(run) = size - o
         /\ \A i \in 1 .. size - o : run[i] = Get(ring, o + i - 1)
  <2>1. /\ RunAfter(ring, c) \in Seq(Item)
        /\ Len(RunAfter(ring, c)) = ring.size - o
        /\ \A i \in 1 .. ring.size - o : RunAfter(ring, c)[i] = Get(ring, o + i - 1)
    BY <1>2, <1>5, RunAfterIs, ZenonT(60)
  <2> QED
    BY <1>3, <2>1
<1>7. PICK f :
         /\ IsSel(f, run, Passing(Item, filtered))
         /\ QueryAfter(ring, c, Limit, filtered) = Answer(f[Len(run)], c, Limit)
  BY <1>2, <1>6, QueryAfterIs, SMTT(30)
<1>8. PICK q \in Seq(Item) :
         /\ q = f[Len(run)]
         /\ \E p : Picks(p, q, run, Passing(Item, filtered), Len(run))
  BY <1>7, SelPicks
<1>8a. PICK p : Picks(p, q, run, Passing(Item, filtered), Len(run))
  BY <1>8
<1>9. PICK items \in Seq(Item) : items = FirstOf(q, Limit)
  BY <1>2, <1>8, <1>8a, FirstOfIs
<1>10. /\ res.items = items
       /\ items # <<>> => res.last = items[Len(items)].cursor
  BY <1>1, <1>7, <1>8, <1>8a, <1>9 DEF Answer
<1>11. PICK m \in Nat : m = old + o /\ m + Len(run) = len
  <2>1. Len(run) = size - o
    BY <1>6
  <2>2. old + o \in Nat /\ (old + o) + Len(run) = len
    BY <1>4, <2>1
  <2> QED
    BY <2>2
<1>12. \A i \in 1 .. Len(run) : run[i] = log[m + i] /\ run[i].n = m + i
  <2> TAKE i \in 1 .. Len(run)
  <2>1. PICK k \in 0 .. size - 1 : k = o + i - 1 /\ run[i] = Get(ring, k)
    BY <1>5, <1>6
  <2>2. i \in Int /\ m = old + o /\ k = o + i - 1
    BY <1>11, <2>1
  <2>3. len - size + k + 1 = m + i
    BY <1>4, <2>2
  <2> QED
    BY <1>3, <2>1, <2>3
<1>13. FromLog(items, log) /\ \A i \in 1 .. Len(items) : items[i].n > m
  <2>1. m + Len(run) <= Len(log)
    BY <1>3, <1>11
  <2> QED
    BY <1>2, <1>8, <1>8a, <1>9, <1>12, <2>1, PicksFromLog
<1>14. CASE base = 0
  <2>1. c = MaxCursor /\ sub.sent = <<>> /\ Mark(sub) = 0
    BY <1>1, <1>14 DEF SubOK, Active, Mark
  <2>2. ASSUME NEW i \in 0 .. size - 1 PROVE ~(i >= o)
    <3>1. PICK k \in 1 .. len : k = len - size + i + 1 /\ Get(ring, i) = log[k]
      BY <1>3
    <3>2. log[k].cursor < MaxCursor /\ log[k].cursor \in Int /\ MaxCursor \in Int
      BY <1>2, <1>3, <3>1, CursorsAre, SMTT(30) DEF Kept, LogOK, Item
    <3>3. ~(Get(ring, i).cursor > c)
      BY <2>1, <3>1, <3>2, SMTT(30)
    <3> QED
      BY <1>5, <3>3
  <2>3. o = size
    <3>1. ~(o \in 0 .. size - 1)
      BY <1>5, <2>2
    <3> QED
      BY <1>5, <3>1
  <2>4. Len(run) = 0
    BY <1>6, <2>3
  <2>5. Len(q) = 0
    <3>1. \A i \in 1 .. Len(q) : p[i] \in 1 .. 0
      BY <1>8, <1>8a, <2>4 DEF Picks
    <3>2. Len(q) \in Nat
      OBVIOUS
    <3> QED
      BY <3>1, <3>2
  <2>6. Len(items) = 0
    BY <1>2, <1>9, <2>5, FirstOfIs
  <2>7. items = <<>>
    BY <2>6
  <2> QED
    BY <1>1, <1>10, <1>13, <1>14, <2>6, <2>7
<1>15. CASE base > 0
  <2>1. PICK mark \in 1 .. len : mark = Mark(sub) /\ c = log[mark].cursor
    BY <1>1, <1>3, <1>15 DEF SubOK, Active
  <2>2. ASSUME NEW i \in 0 .. size - 1
        PROVE  i >= o <=> old + i + 1 > mark
    <3>1. PICK k \in 1 .. len : k = len - size + i + 1 /\ Get(ring, i) = log[k]
      BY <1>3
    <3>2. k = old + i + 1
      BY <1>4, <3>1
    <3>3. log[k].cursor \in Int /\ log[mark].cursor \in Int
      <4>1. \A x \in Item : x.cursor \in Int
        BY CursorsAre DEF Item
      <4> QED
        BY <1>2, <1>3, <4>1
    <3>4. /\ k < mark => log[k].cursor < log[mark].cursor
          /\ k > mark => log[mark].cursor < log[k].cursor
      BY <1>3 DEF Kept, LogOK
    <3>5. log[k].cursor > log[mark].cursor <=> k > mark
      <4>1. k < mark \/ k = mark \/ k > mark
        OBVIOUS
      <4> QED
        BY <3>3, <3>4, <4>1
    <3> QED
      BY <1>5, <2>1, <3>1, <3>2, <3>5
  <2>3. m >= mark
    <3>1. CASE o = size
      BY <1>4, <1>11, <2>1, <3>1
    <3>2. CASE o # size
      <4>1. o \in 0 .. size - 1 /\ o >= o
        BY <1>5, <3>2
      <4>2. old + o + 1 > mark
        BY <2>2, <4>1
      <4> QED
        BY <1>11, <4>2
    <3> QED
      BY <3>1, <3>2
  <2>4. \A i \in 1 .. Len(items) : items[i].n > Mark(sub)
    <3> TAKE i \in 1 .. Len(items)
    <3>1. items[i].n \in Nat /\ items[i].n > m
      <4>1. \A x \in Item : x.n \in Nat
        BY BoundsAssumption DEF Item
      <4> QED
        BY <1>13, <4>1
    <3> QED
      BY <2>1, <2>3, <3>1
  <2>5. PICK values \in Seq(Item) :
           /\ values = Values(ring) /\ Len(values) = size
           /\ \A i \in 1 .. size : values[i] = Get(ring, i - 1)
    BY <1>2, <1>3, ValuesIs
  <2>6. PICK g : IsSel(g, values, Owing(sub)) /\ Pending(sub) = g[Len(values)]
    BY <2>5, PendingIs
  <2>7. \A i \in 1 .. o : values[i] \notin Owing(sub)
    <3> TAKE i \in 1 .. o
    <3>1. PICK k \in 0 .. size - 1 : k = i - 1 /\ ~(k >= o) /\ values[i] = Get(ring, k)
      BY <1>5, <2>5, SMTT(30)
    <3>2. values[i] \in Item /\ values[i].n = old + k + 1
      BY <1>3, <1>4, <3>1
    <3>3. ~(values[i].n > mark)
      BY <2>2, <3>1, <3>2
    <3> QED
      BY <2>1, <3>2, <3>3, OwingIs
  <2>8. \A i \in 1 .. Len(run) :
           /\ values[o + i] = run[i]
           /\ values[o + i] \in Owing(sub) <=> run[i] \in Passing(Item, filtered)
    <3> TAKE i \in 1 .. Len(run)
    <3>1. PICK k \in 0 .. size - 1 : k = o + i - 1 /\ k >= o /\ run[i] = Get(ring, k)
      BY <1>5, <1>6
    <3>2. o + i \in 1 .. size /\ (o + i) - 1 = k
      BY <1>5, <3>1, SMTT(30)
    <3>3. values[o + i] = run[i]
      BY <2>5, <3>1, <3>2
    <3>4. run[i] \in Item /\ run[i].n = old + k + 1 /\ run[i].n > mark
      BY <1>3, <1>4, <2>2, <3>1
    <3>5. run[i] \in Owing(sub) <=> Filter(filtered, run[i])
      BY <1>1, <2>1, <3>4, OwingIs
    <3> QED
      BY <3>3, <3>4, <3>5 DEF Passing
  <2>9. Len(values) = o + Len(run)
    BY <1>5, <1>6, <2>5
  <2>10. g[Len(values)] = f[Len(run)]
    <3>1. o \in Nat
      BY <1>5
    <3>2. IsSel(f, run, Passing(Item, filtered)) /\ IsSel(g, values, Owing(sub))
      BY <1>7, <2>6
    <3>3. Shorter(values, Owing(sub), run, Passing(Item, filtered), o)
      BY <2>7, <2>8, <2>9 DEF Shorter
    <3> QED
      BY <3>1, <3>2, <3>3, SelShift
  <2>11. items = want
    BY <1>8, <1>8a, <1>9, <2>6, <2>10
  <2> QED
    BY <1>1, <1>10, <1>13, <1>15, <2>4, <2>11
<1> QED
  BY <1>1, <1>14, <1>15

RunBefore(r, c) == RunOf(r, FALSE, c)

LastCursor(r) == Query(r, FALSE, MaxCursor, 1, FALSE).first

Everything == Passing(Item, FALSE)

LEMMA RunBeforeIs ==
    ASSUME NEW r \in Rings(Item), NEW c \in Int, Numbered(r),
           SearchFrom(r, c) = r.size
    PROVE  /\ RunBefore(r, c) \in Seq(Item)
           /\ Len(RunBefore(r, c)) = r.size
           /\ r.size > 0 => RunBefore(r, c)[1] = Get(r, r.size - 1)
<1>1. PICK size \in Nat : size = r.size /\ size <= Capacity
  BY CapacityAssumption DEF Rings
<1>2. StartPos(r, FALSE, c) = size - 1
  <2>1. \A forward \in BOOLEAN :
           ~forward => StartPos(r, forward, c) = SearchFrom(r, c) - 1
    BY StartIs
  <2>2. StartPos(r, FALSE, c) = SearchFrom(r, c) - 1
    BY <2>1, Zenon
  <2> QED
    BY <1>1, <2>2, Zenon
<1>3. RunBefore(r, c) = [i \in 1 .. size |-> Get(r, size - i)]
  <2>1. Iterator(r, FALSE) = [pos \in -1 .. r.size |->
                                 [i \in 1 .. pos + 1 |-> Get(r, pos - i + 1)]]
    BY DEF Iterator
  <2>2. PICK last \in -1 .. r.size : last = size - 1
    BY <1>1
  <2>3. Iterator(r, FALSE)[last] = [i \in 1 .. last + 1 |-> Get(r, last - i + 1)]
    BY <2>1
  <2>4. Iterator(r, FALSE)[last] = [i \in 1 .. size |-> Get(r, size - i)]
    <3>1. last + 1 = size /\ \A i \in 1 .. size : last - i + 1 = size - i
      BY <2>2
    <3> QED
      BY <2>3, <3>1
  <2> QED
    BY <1>2, <2>2, <2>4, Zenon DEF RunBefore, RunOf
<1>4. \A i \in 1 .. size : Get(r, size - i) \in Item
  <2> TAKE i \in 1 .. size
  <2>1. size - i \in 0 .. Capacity - 1
    BY <1>1, CapacityAssumption
  <2> QED
    BY <2>1, GetIn
<1>5. RunBefore(r, c) \in Seq(Item) /\ Len(RunBefore(r, c)) = size
  BY <1>3, <1>4
<1>6. size > 0 => RunBefore(r, c)[1] = Get(r, size - 1)
  BY <1>3
<1> QED
  BY <1>1, <1>5, <1>6

LEMMA LastCursorIs ==
    ASSUME TypeOK, Kept
    PROVE  LastCursor(ring) = IF Len(log) = 0 THEN MaxCursor
                              ELSE log[Len(log)].cursor
<1>1. /\ ring \in Rings(Item) /\ log \in Seq(Item)
      /\ Numbered(ring) /\ InOrder(ring) /\ MaxCursor \in Int
  BY RingIs, CursorsAre DEF TypeOK
<1>2. PICK len \in Nat, size \in Nat :
         /\ len = Len(log) /\ size = ring.size /\ size <= len /\ (size = 0 <=> len = 0)
         /\ \A i \in 0 .. size - 1 : /\ len - size + i + 1 \in 1 .. len
                                     /\ Get(ring, i) = log[len - size + i + 1]
  <2>1. Len(log) \in Nat /\ ring.size \in Nat
    BY <1>1, CapacityAssumption DEF Rings
  <2> QED
    BY <2>1, RingIs
<1>3. SearchFrom(ring, MaxCursor) = ring.size
  <2>1. PICK pos \in 0 .. size : /\ pos = SearchFrom(ring, MaxCursor)
                                 /\ Parts(ring, MaxCursor, 0, size, pos)
    BY <1>1, <1>2, SearchFinds
  <2>2. ASSUME pos < size PROVE FALSE
    <3>1. pos \in 0 .. size - 1 /\ pos >= pos
      BY <2>2
    <3>2. Get(ring, pos).cursor >= MaxCursor
      BY <2>1, <3>1 DEF Parts
    <3>3. PICK k \in 1 .. len : Get(ring, pos) = log[k]
      BY <1>2, <3>1
    <3>4. log[k].cursor < MaxCursor
      BY <1>2 DEF Kept, LogOK
    <3>5. log[k].cursor \in Int
      BY <1>1, <1>2, <3>1, <3>3 DEF Numbered
    <3> QED
      BY <1>1, <3>2, <3>3, <3>4, <3>5
  <2>3. pos = size
    BY <2>2
  <2> QED
    BY <1>2, <2>1, <2>3
<1>4. PICK run \in Seq(Item) :
         /\ run = RunBefore(ring, MaxCursor) /\ Len(run) = size
         /\ size > 0 => run[1] = Get(ring, size - 1)
  BY <1>1, <1>2, <1>3, RunBeforeIs
<1>5. PICK f : /\ IsSel(f, run, Everything)
               /\ LastCursor(ring) = Answer(f[Len(run)], MaxCursor, 1).first
  <2>1. \A forward \in BOOLEAN : \A filtered :
           run = RunOf(ring, forward, MaxCursor) =>
              \E f : /\ IsSel(f, run, Passing(Item, filtered))
                     /\ Query(ring, forward, MaxCursor, 1, filtered) =
                           Answer(f[Len(run)], MaxCursor, 1)
    BY <1>1, QueryIs
  <2>2. FALSE \in BOOLEAN /\ run = RunOf(ring, FALSE, MaxCursor)
    BY <1>4 DEF RunBefore
  <2>3. \E f : /\ IsSel(f, run, Everything)
               /\ Query(ring, FALSE, MaxCursor, 1, FALSE) =
                     Answer(f[Len(run)], MaxCursor, 1)
    BY <2>1, <2>2, Zenon DEF Everything
  <2> QED
    BY <2>3, Zenon DEF LastCursor
<1>6. PICK q \in Seq(Item) :
         q = f[Len(run)] /\ \E p : Picks(p, q, run, Everything, Len(run))
  BY <1>5, SelPicks
<1>6a. PICK p : Picks(p, q, run, Everything, Len(run))
  BY <1>6
<1>7. PICK items \in Seq(Item) :
         /\ items = FirstOf(q, 1)
         /\ Len(items) = IF Len(q) < 1 THEN Len(q) ELSE 1
         /\ \A i \in 1 .. Len(items) : items[i] = q[i]
  <2>1. 1 \in Nat
    OBVIOUS
  <2>2. /\ FirstOf(q, 1) \in Seq(Item)
        /\ Len(FirstOf(q, 1)) = IF Len(q) < 1 THEN Len(q) ELSE 1
        /\ \A i \in 1 .. Len(FirstOf(q, 1)) :
              i \in 1 .. Len(q) /\ FirstOf(q, 1)[i] = q[i]
    BY <2>1, FirstOfIs, Zenon
  <2> QED
    BY <2>2, Zenon
<1>8. LastCursor(ring) = IF items = <<>> THEN MaxCursor ELSE items[1].cursor
  BY <1>5, <1>6, <1>6a, <1>7 DEF Answer
<1>9. PICK found \in Nat : found = Len(q)
  OBVIOUS
<1>10. CASE size = 0
  <2>1. \A i \in 1 .. found : p[i] \in 1 .. 0
    BY <1>4, <1>6, <1>6a, <1>9, <1>10 DEF Picks
  <2>2. found = 0
    BY <2>1
  <2>3. items = <<>>
    BY <1>7, <1>9, <2>2
  <2> QED
    BY <1>2, <1>8, <1>10, <2>3
<1>11. CASE size # 0
  <2>1. 1 \in 1 .. size /\ run[1] \in Item
    BY <1>4, <1>11
  <2>2. run[1] \in Everything
    BY <2>1 DEF Everything, Passing, Filter
  <2>3. PICK i \in 1 .. found : p[i] = 1
    BY <1>4, <1>6, <1>6a, <1>9, <2>1, <2>2 DEF Picks
  <2>4. 1 \in 1 .. found /\ p[1] \in 1 .. size
    BY <1>4, <1>6, <1>6a, <1>9, <2>3, SMTT(30) DEF Picks
  <2>5. p[1] = 1
    <3>1. 1 < i => p[1] < p[i]
      BY <1>6, <1>6a, <1>9, <2>4 DEF Picks
    <3> QED
      BY <2>3, <2>4, <3>1
  <2>6. q[1] = run[1]
    BY <1>6, <1>6a, <1>9, <2>4, <2>5 DEF Picks
  <2>7. Len(items) = 1 /\ items # <<>> /\ items[1] = run[1]
    BY <1>7, <1>9, <2>4, <2>6
  <2>8. run[1] = log[len]
    <3>1. size > 0
      BY <1>11
    <3>2. size - 1 \in 0 .. size - 1 /\ len - size + (size - 1) + 1 = len
      BY <3>1
    <3>3. Get(ring, size - 1) = log[len - size + (size - 1) + 1]
      BY <1>2, <3>2
    <3> QED
      BY <1>4, <3>1, <3>2, <3>3
  <2> QED
    BY <1>2, <1>8, <1>11, <2>7, <2>8
<1> QED
  BY <1>10, <1>11

\* Another entry in the log changes nothing about a subscription.
LEMMA SubExtends ==
    ASSUME NEW entries \in Seq(Item), NEW e \in Item, NEW sub \in Subscription,
           SubOK(sub, entries)
    PROVE  SubOK(sub, Append(entries, e))
<1>1. PICK more \in Seq(Item), len \in Nat :
         /\ more = Append(entries, e) /\ len = Len(entries) /\ Len(more) = len + 1
         /\ \A k \in 1 .. len : more[k] = entries[k]
  <2>1. /\ Append(entries, e) \in Seq(Item) /\ Len(entries) \in Nat
        /\ Len(Append(entries, e)) = Len(entries) + 1
        /\ \A k \in 1 .. Len(entries) : Append(entries, e)[k] = entries[k]
    OBVIOUS
  <2> QED
    BY <2>1
<1>2. \A k \in 1 .. len : k \in 1 .. Len(more)
  BY <1>1
<1>3. ASSUME NEW q, FromLog(q, entries) PROVE FromLog(q, more)
  BY <1>1, <1>2, <1>3 DEF FromLog
<1>4. SubOK(sub, more)
  BY <1>1, <1>2, <1>3 DEF SubOK
<1> QED
  BY <1>1, <1>4

\* Nor does a step that leaves alone what was sent, fetched and promised.
LEMMA SubMoves ==
    ASSUME NEW entries, NEW sub, SubOK(sub, entries), NEW new,
           new.sent = sub.sent, new.items = sub.items, new.want = sub.want,
           new.base = sub.base, new.cursor = sub.cursor, new.last = sub.last,
           \/ new.pc = sub.pc
           \/ new.pc \in {"loop", "query"} /\ sub.pc \in Active
    PROVE  SubOK(new, entries)
<1>1. Mark(new) = Mark(sub)
  BY DEF Mark
<1> QED
  BY <1>1 DEF SubOK, Active

LEMMA SubOpened ==
    ASSUME TypeOK, Kept, NEW filtered, NEW c, c = LastCursor(ring), NEW new,
           new = [NoSub EXCEPT !.pc = "listen", !.filtered = filtered,
                               !.deb = "start", !.cursor = c, !.base = Len(log)]
    PROVE  SubOK(new, log)
<1>1. /\ new.pc = "listen" /\ new.cursor = c /\ new.base = Len(log)
      /\ new.sent = <<>> /\ new.items = <<>> /\ Mark(new) = new.base
  BY DEF NoSub, Mark
<1>2. c = IF Len(log) = 0 THEN MaxCursor ELSE log[Len(log)].cursor
  BY LastCursorIs
<1>3. Len(log) \in Nat
  BY DEF TypeOK
<1>4. FromLog(new.sent, log) /\ FromLog(new.items, log)
  BY <1>1 DEF FromLog
<1>5. Len(new.items) = 0
  BY <1>1
<1> QED
  BY <1>1, <1>2, <1>3, <1>4, <1>5 DEF SubOK

LEMMA SubFetched ==
    ASSUME TypeOK, Kept, NEW sub \in Subscription, SubOK(sub, log),
           sub.pc = "query", NEW unsignalled,
           NEW res, res = QueryAfter(ring, sub.cursor, Limit, sub.filtered),
           NEW want, want = FirstOf(Pending(sub), Limit), NEW new,
           new = [sub EXCEPT !.pc = "write", !.items = res.items, !.last = res.last,
                             !.want = want, !.unsignalled = unsignalled]
    PROVE  SubOK(new, log)
<1>1. /\ FromLog(res.items, log)
      /\ \A i \in 1 .. Len(res.items) : res.items[i].n > Mark(sub)
      /\ sub.base = 0 => res.items = <<>>
      /\ res.items # <<>> => res.last = res.items[Len(res.items)].cursor
      /\ sub.base > 0 => res.items = want
  BY Fetched
<1>2. /\ new.pc = "write" /\ new.items = res.items /\ new.last = res.last
      /\ new.want = want /\ new.sent = sub.sent /\ new.base = sub.base
      /\ new.cursor = sub.cursor
  BY DEF Subscription
<1>3. Mark(new) = Mark(sub)
  BY <1>2 DEF Mark
<1> QED
  BY <1>1, <1>2, <1>3 DEF SubOK, Active

LEMMA SubNotWrote ==
    ASSUME NEW entries, NEW sub \in Subscription, SubOK(sub, entries),
           sub.pc = "write", NEW new, NEW unsignalled,
           new = [NotWrote(sub) EXCEPT !.unsignalled = unsignalled]
    PROVE  SubOK(new, entries)
<1>1. /\ new.pc = "loop" /\ new.items = <<>> /\ new.sent = sub.sent
      /\ new.base = sub.base /\ new.cursor = sub.cursor
  BY DEF NotWrote, Subscription
<1>2. Mark(new) = Mark(sub) /\ Len(new.items) = 0 /\ FromLog(new.items, entries)
  BY <1>1 DEF Mark, FromLog
<1> QED
  BY <1>1, <1>2 DEF SubOK, Active

\* The message continues what was sent, and the cursor goes with it.
LEMMA SubWrote ==
    ASSUME NEW entries \in Seq(Item), NEW sub \in Subscription, SubOK(sub, entries),
           sub.pc = "write", sub.items # <<>>, NEW new, new = Wrote(sub)
    PROVE  SubOK(new, entries)
<1>1. PICK sent \in Seq(Item), items \in Seq(Item) :
         sent = sub.sent /\ items = sub.items
  BY DEF Subscription
<1>2. PICK a \in Nat, b \in Nat \ {0} : a = Len(sent) /\ b = Len(items)
  BY <1>1
<1>3. PICK all \in Seq(Item) : /\ all = sent \o items /\ Len(all) = a + b
                               /\ \A i \in 1 .. a : all[i] = sent[i]
                               /\ \A i \in 1 .. b : all[a + i] = items[i]
  <2>1. /\ sent \o items \in Seq(Item)
        /\ Len(sent \o items) = Len(sent) + Len(items)
        /\ \A i \in 1 .. Len(sent) : (sent \o items)[i] = sent[i]
        /\ \A i \in 1 .. Len(items) : (sent \o items)[Len(sent) + i] = items[i]
    OBVIOUS
  <2> QED
    BY <1>2, <2>1
<1>4. PICK last : last = sub.last
  OBVIOUS
<1>5. /\ new.pc = "loop" /\ new.cursor = last /\ new.sent = all
      /\ new.items = <<>> /\ new.base = sub.base
  BY <1>1, <1>3, <1>4 DEF Wrote, CursorAfter, Subscription
<1>6. \A x \in Item : x.n \in Nat
  BY BoundsAssumption DEF Item
<1>7. PICK mark : mark = Mark(sub)
  OBVIOUS
<1>8. /\ \A i \in 1 .. a : sent[i].n \in Nat /\ sent[i].n <= mark
      /\ mark \in Nat
  <2>1. CASE sent = <<>>
    <3>1. a = 0 /\ mark = sub.base /\ sub.base \in Nat
      BY <1>1, <1>2, <1>7, <2>1, BoundsAssumption DEF Mark, Subscription
    <3> QED
      BY <3>1
  <2>2. CASE sent # <<>>
    <3>1. a \in 1 .. a /\ mark = sent[a].n
      BY <1>1, <1>2, <1>7, <2>2 DEF Mark
    <3>2. \A i \in 1 .. a : sent[i].n \in Nat
      BY <1>2, <1>6
    <3>3. \A i \in 1 .. a : i < a => sent[i].n < sent[a].n
      BY <1>1, <1>2, <3>1 DEF SubOK, FromLog
    <3>4. \A i \in 1 .. a : i < a \/ i = a
      OBVIOUS
    <3>5. PICK n \in Nat : n = sent[a].n /\ mark = n
      BY <3>1, <3>2
    <3>6. ASSUME NEW i \in 1 .. a PROVE sent[i].n \in Nat /\ sent[i].n <= n
      <4>1. CASE i = a
        BY <3>5, <4>1
      <4>2. CASE i < a
        BY <3>2, <3>3, <3>5, <4>2
      <4> QED
        BY <3>4, <4>1, <4>2
    <3> QED
      BY <3>5, <3>6
  <2> QED
    BY <2>1, <2>2
<1>9. \A i \in 1 .. b : items[i].n \in Nat /\ items[i].n > mark
  <2>1. \A i \in 1 .. b : items[i].n > mark
    BY <1>1, <1>2, <1>7 DEF SubOK
  <2>2. \A i \in 1 .. b : items[i].n \in Nat
    BY <1>2, <1>6
  <2> QED
    BY <2>1, <2>2
<1>10. \A i \in 1 .. a + b : i \in 1 .. a \/ \E k \in 1 .. b : i = a + k
  <2> TAKE i \in 1 .. a + b
  <2>1. CASE i > a
    <3>1. i - a \in 1 .. b /\ i = a + (i - a)
      BY <2>1
    <3> QED
      BY <3>1
  <2> QED
    BY <2>1
<1>11. /\ \A i \in 1 .. a : sent[i].n \in 1 .. Len(entries) /\ sent[i] = entries[sent[i].n]
       /\ \A i \in 1 .. b : items[i].n \in 1 .. Len(entries) /\ items[i] = entries[items[i].n]
       /\ \A i, j \in 1 .. a : i < j => sent[i].n < sent[j].n
       /\ \A i, j \in 1 .. b : i < j => items[i].n < items[j].n
  BY <1>1, <1>2 DEF SubOK, FromLog
<1>12. ASSUME NEW i \in 1 .. a + b
       PROVE  all[i].n \in 1 .. Len(entries) /\ all[i] = entries[all[i].n]
  <2>1. CASE i \in 1 .. a
    BY <1>3, <1>11, <2>1
  <2>2. ASSUME NEW k \in 1 .. b, i = a + k
        PROVE  all[i].n \in 1 .. Len(entries) /\ all[i] = entries[all[i].n]
    BY <1>3, <1>11, <2>2
  <2> QED
    BY <1>10, <2>1, <2>2
<1>13. ASSUME NEW i \in 1 .. a + b, NEW j \in 1 .. a + b, i < j
       PROVE  all[i].n < all[j].n
  <2>1. CASE i \in 1 .. a /\ j \in 1 .. a
    BY <1>3, <1>11, <1>13, <2>1
  <2>2. ASSUME i \in 1 .. a, NEW k \in 1 .. b, j = a + k PROVE all[i].n < all[j].n
    <3>1. all[i].n \in Nat /\ all[i].n <= mark /\ all[j].n \in Nat /\ all[j].n > mark
      BY <1>3, <1>8, <1>9, <2>2
    <3> QED
      BY <1>8, <3>1, SMTT(30)
  <2>3. ASSUME NEW k \in 1 .. b, NEW l \in 1 .. b, i = a + k, j = a + l
        PROVE  all[i].n < all[j].n
    <3>1. k < l
      BY <1>13, <2>3
    <3> QED
      BY <1>3, <1>11, <2>3, <3>1
  <2>4. ~(i \notin 1 .. a /\ j \in 1 .. a)
    BY <1>13
  <2> QED
    BY <1>10, <2>1, <2>2, <2>3, <2>4
<1>14. FromLog(all, entries)
  BY <1>3, <1>12, <1>13 DEF FromLog
<1>15. all # <<>> /\ Mark(new) = items[b].n
  <2>1. all # <<>> /\ all[a + b] = items[b]
    BY <1>2, <1>3
  <2> QED
    BY <1>3, <1>5, <2>1 DEF Mark
<1>16. last = items[b].cursor
  BY <1>1, <1>2, <1>4 DEF SubOK
<1>17. sub.base > 0 => mark >= sub.base
  <2>1. sub.base \in Nat
    BY BoundsAssumption DEF Subscription
  <2>2. mark = sub.base \/ mark > sub.base
    BY <1>1, <1>7 DEF SubOK, Mark
  <2> QED
    BY <1>8, <2>1, <2>2
<1>18. sub.base \in Nat /\ sub.base # 0
  <2>1. sub.base \in Nat
    BY BoundsAssumption DEF Subscription
  <2>2. sub.base # 0
    BY DEF SubOK, Active
  <2> QED
    BY <2>1, <2>2
<1>19. Mark(new) > new.base /\ Mark(new) \in 1 .. Len(entries)
  <2>1. b \in 1 .. b /\ sub.base > 0
    BY <1>18
  <2>2. items[b].n > mark /\ items[b].n \in Nat /\ items[b].n \in 1 .. Len(entries)
    BY <1>9, <1>11, <2>1
  <2>3. items[b].n > sub.base
    BY <1>8, <1>17, <1>18, <2>1, <2>2
  <2> QED
    BY <1>5, <1>15, <2>2, <2>3
<1>20. new.cursor = entries[Mark(new)].cursor
  <2>1. b \in 1 .. b
    OBVIOUS
  <2> QED
    BY <1>5, <1>11, <1>15, <1>16, <2>1
<1>21. Len(new.items) = 0 /\ FromLog(new.items, entries)
  BY <1>5 DEF FromLog
<1> QED
  BY <1>5, <1>14, <1>15, <1>18, <1>19, <1>20, <1>21 DEF SubOK

LEMMA SignalledSame ==
    ASSUME NEW sub \in Subscription, NEW new \in Signalled(sub)
    PROVE  /\ new.sent = sub.sent /\ new.items = sub.items /\ new.want = sub.want
           /\ new.base = sub.base /\ new.cursor = sub.cursor /\ new.last = sub.last
           /\ new.pc = sub.pc
<1>1. \/ new = [sub EXCEPT !.armed = TRUE]
      \/ \E b : new = [sub EXCEPT !.unsignalled = b]
  BY DEF Signalled
<1> QED
  BY <1>1 DEF Subscription

LEMMA AllInit == ASSUME Init PROVE AllOK
<1>1. /\ NoSub.pc = "closed" /\ NoSub.sent = <<>> /\ NoSub.items = <<>>
  BY DEF NoSub
<1>2. FromLog(<<>>, log)
  BY DEF FromLog
<1>3. SubOK(NoSub, log)
  BY <1>1, <1>2 DEF SubOK, Active
<1> QED
  BY <1>3 DEF Init, AllOK

\* One subscription changes, the log does not.
LEMMA AllSet ==
    ASSUME TypeOK, AllOK, NEW s \in Sub, NEW sub, Set(s, sub), log' = log,
           SubOK(sub, log)
    PROVE  AllOK'
<1>1. subs'[s] = sub /\ \A u \in Sub \ {s} : subs'[u] = subs[u]
  BY SetIs
<1>2. \A u \in Sub : SubOK(subs'[u], log)
  BY <1>1 DEF AllOK
<1> QED
  BY <1>2 DEF AllOK

LEMMA AllStep ==
    ASSUME TypeOK, Kept, AllOK, [Next]_vars
    PROVE  AllOK'
<1>1. subs \in [Sub -> Subscription] /\ log \in Seq(Item)
  BY DEF TypeOK
<1>2. \A s \in Sub : SubOK(subs[s], log)
  BY DEF AllOK
<1>3. ASSUME NEW match \in BOOLEAN, Append_(match) PROVE AllOK'
  <2>1. Len(log) + 1 <= MaxAppends
    BY <1>3, BoundsAssumption DEF Append_, InBounds, TypeOK
  <2>2. PICK e \in Item : log' = Append(log, e)
    <3>1. PICK e : /\ e = [n |-> Len(log) + 1, cursor |-> CursorOf(ms, index),
                           match |-> match]
                   /\ log' = Append(log, e)
      BY <1>3 DEF Append_
    <3> QED
      BY <2>1, <3>1, EntryTyped
  <2>3. ASSUME NEW s \in Sub PROVE SubOK(subs'[s], log')
    <3>1. PICK sub \in Subscription : sub = subs[s] /\ SubOK(sub, log)
      BY <1>1, <1>2
    <3>2. PICK new : new = subs'[s] /\ new \in Signalled(sub)
      BY <1>3, <3>1 DEF Append_
    <3>3. SubOK(sub, Append(log, e))
      BY <1>1, <3>1, SubExtends
    <3>4. SubOK(new, Append(log, e))
      BY <3>2, <3>3, SignalledSame, SubMoves
    <3> QED
      BY <2>2, <3>2, <3>4
  <2> QED
    BY <2>3 DEF AllOK
<1>4. CASE Tick
  BY <1>4 DEF Tick, AllOK
<1>5. ASSUME NEW s \in Sub, NEW filtered \in BOOLEAN, Accept(s, filtered)
      PROVE  AllOK'
  <2>1. PICK new : /\ new = [NoSub EXCEPT !.pc = "listen", !.filtered = filtered,
                                          !.deb = "start", !.cursor = LastCursor(ring),
                                          !.base = Len(log)]
                   /\ Set(s, new) /\ log' = log
    BY <1>5 DEF Accept, StreamVars, LastCursor
  <2>2. SubOK(new, log)
    BY <2>1, SubOpened
  <2> QED
    BY <2>1, <2>2, AllSet
<1>6. ASSUME NEW s \in Sub,
             Listen(s) \/ Update(s) \/ Disconnect(s) \/ DebouncerStep(s)
      PROVE  AllOK'
  <2>1. PICK old \in Subscription : old = subs[s] /\ SubOK(old, log)
    BY <1>1, <1>2
  <2>2. PICK new :
           /\ Set(s, new) /\ log' = log
           /\ \/ new = [old EXCEPT !.pc = "loop", !.listening = TRUE]
                 /\ old.pc = "listen"
              \/ new = [old EXCEPT !.pc = "query", !.deb = "back"] /\ old.pc = "loop"
              \/ new = [old EXCEPT !.over = TRUE]
              \/ new = [old EXCEPT !.deb = "select"]
              \/ new = [old EXCEPT !.deb = "gone"]
              \/ new = [old EXCEPT !.deb = "send", !.armed = FALSE]
              \/ new = [old EXCEPT !.deb = "back"]
    BY <1>6, <2>1 DEF Listen, Update, Disconnect, DebouncerStep, Debounce, TimerFires,
                      DropUpdate, StreamVars
  <2>3. /\ new.sent = old.sent /\ new.items = old.items /\ new.want = old.want
        /\ new.base = old.base /\ new.cursor = old.cursor /\ new.last = old.last
        /\ \/ new.pc = old.pc
           \/ new.pc \in {"loop", "query"} /\ old.pc \in Active
    BY <2>2 DEF Subscription, Active
  <2>4. SubOK(new, log)
    BY <2>1, <2>3, SubMoves
  <2> QED
    BY <2>2, <2>4, AllSet
<1>7. ASSUME NEW s \in Sub, Fetch(s) PROVE AllOK'
  <2>1. PICK old \in Subscription : old = subs[s] /\ SubOK(old, log)
    BY <1>1, <1>2
  <2>2. PICK res, want, new :
           /\ res = QueryAfter(ring, old.cursor, Limit, old.filtered)
           /\ want = FirstOf(Pending(old), Limit)
           /\ new = [old EXCEPT !.pc = "write", !.items = res.items, !.last = res.last,
                                !.want = want, !.unsignalled = res.more]
           /\ Set(s, new) /\ log' = log /\ old.pc = "query"
    BY <1>7, <2>1 DEF Fetch, StreamVars, QueryAfter
  <2>3. SubOK(new, log)
    BY <2>1, <2>2, SubFetched
  <2> QED
    BY <2>2, <2>3, AllSet
<1>8. ASSUME NEW s \in Sub, Write(s) PROVE AllOK'
  <2>1. PICK old \in Subscription : old = subs[s] /\ SubOK(old, log)
    BY <1>1, <1>2
  <2>2. /\ old.pc = "write" /\ log' = log
        /\ \/ Set(s, NotWrote(old))
           \/ old.items # <<>> /\ Set(s, Wrote(old))
           \/ Set(s, [NotWrote(old) EXCEPT !.unsignalled = TRUE])
    BY <1>8, <2>1 DEF Write, StreamVars
  <2>3. NotWrote(old) = [NotWrote(old) EXCEPT !.unsignalled = old.unsignalled]
    BY DEF NotWrote, Subscription
  <2>4. /\ SubOK(NotWrote(old), log)
        /\ SubOK([NotWrote(old) EXCEPT !.unsignalled = TRUE], log)
    BY <2>1, <2>2, <2>3, SubNotWrote
  <2>5. old.items # <<>> => SubOK(Wrote(old), log)
    BY <1>1, <2>1, <2>2, SubWrote
  <2> QED
    BY <2>2, <2>4, <2>5, AllSet
<1>9. ASSUME NEW s \in Sub, Leave(s) PROVE AllOK'
  <2>1. PICK new : /\ new = [NoSub EXCEPT !.pc = "done", !.over = TRUE,
                                          !.deb = subs[s].deb, !.armed = subs[s].armed]
                   /\ Set(s, new) /\ log' = log
    BY <1>9 DEF Leave, StreamVars
  <2>2. new.pc = "done" /\ new.sent = <<>> /\ new.items = <<>>
    BY <2>1 DEF NoSub
  <2>3. FromLog(<<>>, log)
    BY DEF FromLog
  <2>4. SubOK(new, log)
    BY <2>2, <2>3 DEF SubOK, Active
  <2> QED
    BY <2>1, <2>4, AllSet
<1>10. CASE UNCHANGED vars
  BY <1>10 DEF vars, AllOK
<1> QED
  BY <1>3, <1>4, <1>5, <1>6, <1>7, <1>8, <1>9, <1>10 DEF Next, HandlerStep

IInv == TypeOK /\ Kept /\ AllOK

LEMMA Invariance == ASSUME WithinWords PROVE Spec => []IInv
<1>1. Init => IInv
  BY TypeInit, KeptInit, AllInit DEF IInv
<1>2. IInv /\ [Next]_vars => IInv'
  BY TypeStep, KeptStep, AllStep DEF IInv
<1> QED
  BY <1>1, <1>2, PTL DEF Spec

\* A websocket is sent every entry at most once and in order of arrival,
\* whatever else is appended, fails to be written or is signalled between its
\* queries.
THEOREM InOrderOnce == ASSUME WithinWords PROVE Spec => []SentInOrder
<1>1. ASSUME IInv, NEW s \in Sub PROVE LET sent == subs[s].sent IN
         \A i, j \in DOMAIN sent : i < j => sent[i].n < sent[j].n
  <2>1. PICK sent \in Seq(Item) : sent = subs[s].sent
    BY <1>1 DEF IInv, TypeOK, Subscription
  <2>2. \A i, j \in 1 .. Len(sent) : i < j => sent[i].n < sent[j].n
    BY <1>1, <2>1 DEF IInv, AllOK, SubOK, FromLog
  <2>3. DOMAIN sent = 1 .. Len(sent)
    OBVIOUS
  <2> QED
    BY <2>1, <2>2, <2>3
<1>2. IInv => SentInOrder
  BY <1>1 DEF SentInOrder
<1> QED
  BY <1>2, Invariance, PTL

\* What the handler is about to write are the entries of the ring that came
\* after those it has sent, and after those it found, up to the limit: a query
\* from the cursor, by binary search, leaves none of them out.  The stream was
\* not empty when the connection was accepted.
THEOREM NothingLeftOut == ASSUME WithinWords PROVE Spec => []SendsPending
<1>1. IInv => SendsPending
  BY DEF IInv, AllOK, SubOK, SendsPending
<1> QED
  BY <1>1, Invariance, PTL

(* Listings *)

\* a comes before b, going up or down.
Ahead(up, a, b) == IF up THEN a < b ELSE b < a

\* q has the entries of X, in the order of their cursors.
Lists(q, X, up) ==
    /\ \A i \in 1 .. Len(q) : q[i] \in X
    /\ \A x \in X : \E i \in 1 .. Len(q) : q[i] = x
    /\ \A i, j \in 1 .. Len(q) : i < j => Ahead(up, q[i].cursor, q[j].cursor)

\* The two ways to go.
Opposite(up, down) == up \in BOOLEAN /\ down \in BOOLEAN /\ (down <=> ~up)

LEMMA ItemCursors == \A x \in Item : x.cursor \in Int
BY CursorsAre DEF Item

\* There is only one way to list a set.
LEMMA ListsSame ==
    ASSUME NEW X, NEW up \in BOOLEAN, NEW q \in Seq(Item), NEW t \in Seq(Item),
           Lists(q, X, up), Lists(t, X, up)
    PROVE  q = t
<1>1. PICK a \in Nat, b \in Nat : a = Len(q) /\ b = Len(t)
  OBVIOUS
<1>2. /\ \A i \in 1 .. a : q[i].cursor \in Int
      /\ \A i \in 1 .. b : t[i].cursor \in Int
  BY <1>1, ItemCursors
<1>3. /\ \A i, j \in 1 .. a : i < j => Ahead(up, q[i].cursor, q[j].cursor)
      /\ \A i, j \in 1 .. b : i < j => Ahead(up, t[i].cursor, t[j].cursor)
  BY <1>1 DEF Lists
<1>4. /\ \A i \in 1 .. a : \E j \in 1 .. b : t[j] = q[i]
      /\ \A j \in 1 .. b : \E i \in 1 .. a : q[i] = t[j]
  BY <1>1 DEF Lists
<1> DEFINE Differ == {n \in Nat \ {0} : n <= a /\ n <= b /\ q[n] # t[n]}
<1>5. Differ = {}
  <2> SUFFICES ASSUME Differ # {} PROVE FALSE
    OBVIOUS
  <2>1. PICK n \in Differ : \A k \in Differ : n <= k
    <3>1. Differ \subseteq Nat
      OBVIOUS
    <3> HIDE DEF Differ
    <3> QED
      BY <3>1, NatMin
  <2>2. n \in 1 .. a /\ n \in 1 .. b /\ q[n] # t[n]
    OBVIOUS
  <2>3. \A k \in 1 .. a : k < n => k \in 1 .. b /\ q[k] = t[k]
    <3> TAKE k \in 1 .. a
    <3> HAVE k < n
    <3>1. k \notin Differ /\ k \in 1 .. b /\ k \in Nat \ {0} /\ k <= a /\ k <= b
      BY <2>1, <2>2
    <3> QED
      BY <3>1
  <2>4. PICK j \in 1 .. b : t[j] = q[n]
    BY <1>4, <2>2
  <2>5. PICK i \in 1 .. a : q[i] = t[n]
    BY <1>4, <2>2
  <2> HIDE DEF Differ
  <2>6. n < j
    <3>1. j # n
      BY <2>2, <2>4
    <3>2. ~(j < n)
      <4> SUFFICES ASSUME j < n PROVE FALSE
        OBVIOUS
      <4>1. j \in 1 .. a /\ q[j] = q[n]
        BY <2>2, <2>3, <2>4
      <4>2. Ahead(up, q[j].cursor, q[n].cursor)
        BY <1>3, <2>2, <4>1
      <4> QED
        BY <1>2, <2>2, <4>1, <4>2 DEF Ahead
    <3> QED
      BY <2>2, <3>1, <3>2
  <2>7. n < i
    <3>1. i # n
      BY <2>2, <2>5
    <3>2. ~(i < n)
      <4> SUFFICES ASSUME i < n PROVE FALSE
        OBVIOUS
      <4>1. i \in 1 .. b /\ t[i] = t[n]
        BY <2>2, <2>3, <2>5
      <4>2. Ahead(up, t[i].cursor, t[n].cursor)
        BY <1>3, <2>2, <4>1
      <4> QED
        BY <1>2, <2>2, <4>1, <4>2 DEF Ahead
    <3> QED
      BY <2>2, <3>1, <3>2
  <2>8. /\ Ahead(up, q[n].cursor, q[i].cursor)
        /\ Ahead(up, t[n].cursor, t[j].cursor)
    BY <1>3, <2>2, <2>6, <2>7
  <2>9. /\ Ahead(up, q[n].cursor, t[n].cursor)
        /\ Ahead(up, t[n].cursor, q[n].cursor)
    BY <2>4, <2>5, <2>8
  <2> QED
    BY <1>2, <2>2, <2>9 DEF Ahead
<1>6. \A n \in Nat \ {0} : n <= a /\ n <= b => q[n] = t[n]
  BY <1>5
<1>7. a = b
  <2>1. ASSUME a < b PROVE FALSE
    <3>1. PICK i \in 1 .. a : q[i] = t[a + 1] /\ i \in 1 .. b /\ a + 1 \in 1 .. b
      BY <1>4, <2>1
    <3>2. q[i] = t[i] /\ i < a + 1
      BY <1>6, <3>1
    <3>3. Ahead(up, t[i].cursor, t[a + 1].cursor)
      BY <1>3, <3>1, <3>2
    <3> QED
      BY <1>2, <3>1, <3>2, <3>3 DEF Ahead
  <2>2. ASSUME b < a PROVE FALSE
    <3>1. PICK i \in 1 .. b : t[i] = q[b + 1] /\ i \in 1 .. a /\ b + 1 \in 1 .. a
      BY <1>4, <2>2
    <3>2. t[i] = q[i] /\ i < b + 1
      BY <1>6, <3>1
    <3>3. Ahead(up, q[i].cursor, q[b + 1].cursor)
      BY <1>3, <3>1, <3>2
    <3> QED
      BY <1>2, <3>1, <3>2, <3>3 DEF Ahead
  <2> QED
    BY <2>1, <2>2
<1>8. Len(q) = Len(t) /\ \A i \in 1 .. Len(q) : q[i] = t[i]
  BY <1>1, <1>6, <1>7
<1> QED
  BY <1>8

LEMMA ReverseIs ==
    ASSUME NEW S, NEW q \in Seq(S)
    PROVE  /\ Reverse(q) \in Seq(S) /\ Len(Reverse(q)) = Len(q)
           /\ \A i \in 1 .. Len(q) : Len(q) - i + 1 \in 1 .. Len(q)
           /\ \A i \in 1 .. Len(q) : Reverse(q)[i] = q[Len(q) - i + 1]
<1>1. PICK n \in Nat : n = Len(q)
  OBVIOUS
<1>2. \A i \in 1 .. n : n - i + 1 \in 1 .. n /\ (n - i) + 1 = n - i + 1
  OBVIOUS
<1>3. Reverse(q) = [i \in 1 .. n |-> q[(n - i) + 1]]
  BY <1>1 DEF Reverse
<1>4. \A i \in 1 .. n : q[(n - i) + 1] \in S
  BY <1>1, <1>2
<1>5. Reverse(q) \in Seq(S) /\ Len(Reverse(q)) = n
  BY <1>3, <1>4
<1> QED
  BY <1>1, <1>2, <1>3, <1>5

LEMMA ListsReverse ==
    ASSUME NEW X, NEW up \in BOOLEAN, NEW down \in BOOLEAN, Opposite(up, down),
           NEW q \in Seq(Item), Lists(q, X, up)
    PROVE  Lists(Reverse(q), X, down)
<1>1. PICK n \in Nat, r \in Seq(Item) :
         /\ n = Len(q) /\ r = Reverse(q) /\ Len(r) = n
         /\ \A i \in 1 .. n : n - i + 1 \in 1 .. n /\ r[i] = q[n - i + 1]
  BY ReverseIs
<1>2. \A i \in 1 .. n : r[i] \in X
  BY <1>1 DEF Lists
<1>3. ASSUME NEW x \in X PROVE \E i \in 1 .. n : r[i] = x
  <2>1. PICK i \in 1 .. n : q[i] = x
    BY <1>1 DEF Lists
  <2>2. n - i + 1 \in 1 .. n /\ n - (n - i + 1) + 1 = i
    OBVIOUS
  <2> QED
    BY <1>1, <2>1, <2>2
<1>4. ASSUME NEW i \in 1 .. n, NEW j \in 1 .. n, i < j
      PROVE  Ahead(down, r[i].cursor, r[j].cursor)
  <2>1. PICK k \in 1 .. n, l \in 1 .. n : k = n - j + 1 /\ l = n - i + 1
    BY <1>1
  <2>2. k < l
    BY <1>4, <2>1
  <2>3. r[i] = q[l] /\ r[j] = q[k]
    BY <1>1, <2>1
  <2>4. Ahead(up, q[k].cursor, q[l].cursor)
    BY <1>1, <2>2 DEF Lists
  <2> QED
    BY <2>3, <2>4 DEF Ahead, Opposite
<1>5. Lists(r, X, down)
  BY <1>1, <1>2, <1>3, <1>4 DEF Lists
<1> QED
  BY <1>1, <1>5

\* A selection from a listing lists what was selected.
LEMMA SelLists ==
    ASSUME NEW X, NEW up \in BOOLEAN, NEW s \in Seq(Item), Lists(s, X, up),
           NEW K, NEW f, IsSel(f, s, K)
    PROVE  f[Len(s)] \in Seq(Item) /\ Lists(f[Len(s)], X \cap K, up)
<1>1. PICK q \in Seq(Item) :
         q = f[Len(s)] /\ \E p : Picks(p, q, s, K, Len(s))
  BY SelPicks
<1>2. PICK p : Picks(p, q, s, K, Len(s))
  BY <1>1
<1>3. PICK n \in Nat, len \in Nat : n = Len(s) /\ len = Len(q)
  OBVIOUS
<1>4. /\ \A i \in 1 .. len : p[i] \in 1 .. n /\ q[i] = s[p[i]] /\ s[p[i]] \in K
      /\ \A i, j \in 1 .. len : i < j => p[i] < p[j]
      /\ \A m \in 1 .. n : s[m] \in K => \E i \in 1 .. len : p[i] = m
  BY <1>2, <1>3 DEF Picks
<1>5. /\ \A i \in 1 .. n : s[i] \in X
      /\ \A x \in X : \E i \in 1 .. n : s[i] = x
      /\ \A i, j \in 1 .. n : i < j => Ahead(up, s[i].cursor, s[j].cursor)
  BY <1>3 DEF Lists
<1>6. \A i \in 1 .. len : q[i] \in X \cap K
  BY <1>4, <1>5
<1>7. \A x \in X \cap K : \E i \in 1 .. len : q[i] = x
  BY <1>4, <1>5
<1>8. ASSUME NEW i \in 1 .. len, NEW j \in 1 .. len, i < j
      PROVE  Ahead(up, q[i].cursor, q[j].cursor)
  <2>1. PICK k \in 1 .. n, l \in 1 .. n : k = p[i] /\ l = p[j]
    BY <1>4
  <2>2. k < l /\ q[i] = s[k] /\ q[j] = s[l]
    BY <1>4, <1>8, <2>1
  <2> QED
    BY <1>5, <2>2
<1>9. Lists(q, X \cap K, up)
  BY <1>3, <1>6, <1>7, <1>8 DEF Lists
<1> QED
  BY <1>1, <1>9

\* The entries beyond a cursor.
Past(X, up, c) == {x \in X : Ahead(up, c, x.cursor)}

\* The first a of m are not beyond the cursor, the others are.
SplitsAt(m, up, c, a) ==
    /\ a \in 0 .. Len(m)
    /\ \A i \in 1 .. Len(m) : Ahead(up, c, m[i].cursor) <=> i > a

\* Those of a listing that are beyond a cursor are its last ones.
LEMMA TailIs ==
    ASSUME NEW X, NEW up \in BOOLEAN, NEW m \in Seq(Item), Lists(m, X, up),
           NEW c \in Int
    PROVE  \E a \in 0 .. Len(m) : SplitsAt(m, up, c, a)
<1>1. PICK n \in Nat : n = Len(m)
  OBVIOUS
<1> DEFINE D == {i \in 1 .. n : Ahead(up, c, m[i].cursor)}
<1>2. CASE D = {}
  <2>1. \A i \in 1 .. n : Ahead(up, c, m[i].cursor) <=> i > n
    BY <1>2
  <2>2. n \in 0 .. n
    OBVIOUS
  <2> QED
    BY <1>1, <2>1, <2>2 DEF SplitsAt
<1>3. CASE D # {}
  <2>1. PICK d \in D : \A i \in D : d <= i
    <3>1. D \subseteq Nat
      OBVIOUS
    <3> HIDE DEF D
    <3> QED
      BY <1>3, <3>1, NatMin
  <2>2. d \in 1 .. n /\ Ahead(up, c, m[d].cursor)
    OBVIOUS
  <2>3. PICK a \in 0 .. n : a = d - 1
    BY <2>2
  <2>4. ASSUME NEW i \in 1 .. n PROVE Ahead(up, c, m[i].cursor) <=> i > a
    <3>1. CASE i < d
      <4>1. i \notin D
        BY <2>1, <2>2, <3>1
      <4> QED
        BY <2>2, <2>3, <3>1, <4>1
    <3>2. CASE i = d
      BY <2>2, <2>3, <3>2
    <3>3. CASE i > d
      <4>1. Ahead(up, m[d].cursor, m[i].cursor)
        BY <1>1, <2>2, <3>3 DEF Lists
      <4>2. m[d].cursor \in Int /\ m[i].cursor \in Int
        BY <1>1, <2>2, ItemCursors
      <4>3. Ahead(up, c, m[i].cursor)
        BY <2>2, <4>1, <4>2 DEF Ahead
      <4> QED
        BY <2>2, <2>3, <3>3, <4>3
    <3> QED
      BY <2>2, <3>1, <3>2, <3>3
  <2> QED
    BY <1>1, <2>3, <2>4 DEF SplitsAt
<1> QED
  BY <1>2, <1>3

\* q is m without its first a entries.
IsTail(q, m, a) == /\ Len(q) = Len(m) - a
                   /\ \A i \in 1 .. Len(m) - a : q[i] = m[a + i]

LEMMA TailListed ==
    ASSUME NEW X, NEW up \in BOOLEAN, NEW m \in Seq(Item), Lists(m, X, up),
           NEW c \in Int, NEW a, SplitsAt(m, up, c, a),
           NEW q \in Seq(Item), Lists(q, Past(X, up, c), up)
    PROVE  IsTail(q, m, a)
<1>1. PICK n \in Nat : n = Len(m)
  OBVIOUS
<1>2. /\ a \in Nat /\ a <= n
      /\ \A i \in 1 .. n : Ahead(up, c, m[i].cursor) <=> i > a
  BY <1>1 DEF SplitsAt
<1>3. PICK t \in Seq(Item) : /\ Len(t) = n - a
                             /\ \A i \in 1 .. n - a : t[i] = m[a + i]
  <2>1. a <= Len(m)
    BY <1>1, <1>2
  <2>2. /\ SubSeq(m, a + 1, Len(m)) \in Seq(Item)
        /\ Len(SubSeq(m, a + 1, Len(m))) = Len(m) - a
        /\ \A i \in 1 .. Len(m) - a : SubSeq(m, a + 1, Len(m))[i] = m[a + i]
    BY <1>2, <2>1, SubSeqIs, Zenon
  <2> QED
    BY <1>1, <2>2, Zenon
<1>4. PICK d \in Nat : d = n - a
  BY <1>2
<1>5. \A i \in 1 .. d : a + i \in 1 .. n /\ a + i > a /\ t[i] = m[a + i]
  BY <1>2, <1>3, <1>4
<1>6. \A i \in 1 .. d : t[i] \in Past(X, up, c)
  <2> TAKE i \in 1 .. d
  <2>1. m[a + i] \in X /\ Ahead(up, c, m[a + i].cursor)
    BY <1>1, <1>2, <1>5 DEF Lists
  <2> QED
    BY <1>5, <2>1 DEF Past
<1>7. ASSUME NEW x \in Past(X, up, c) PROVE \E i \in 1 .. d : t[i] = x
  <2>1. x \in X /\ Ahead(up, c, x.cursor)
    BY DEF Past
  <2>2. PICK k \in 1 .. n : m[k] = x
    BY <1>1, <2>1 DEF Lists
  <2>3. k > a
    BY <1>2, <2>1, <2>2
  <2>4. k - a \in 1 .. d /\ a + (k - a) = k
    BY <1>2, <1>4, <2>3
  <2> QED
    BY <1>5, <2>2, <2>4
<1>8. ASSUME NEW i \in 1 .. d, NEW j \in 1 .. d, i < j
      PROVE  Ahead(up, t[i].cursor, t[j].cursor)
  <2>1. PICK k \in 1 .. n, l \in 1 .. n : k = a + i /\ l = a + j
    BY <1>5
  <2>2. k < l /\ t[i] = m[k] /\ t[j] = m[l]
    BY <1>2, <1>5, <1>8, <2>1
  <2> QED
    BY <1>1, <2>2 DEF Lists
<1>9. Lists(t, Past(X, up, c), up)
  BY <1>3, <1>4, <1>6, <1>7, <1>8 DEF Lists
<1>10. q = t
  BY <1>9, ListsSame
<1> QED
  BY <1>1, <1>3, <1>10 DEF IsTail

\* The first b of m are beyond the cursor going down, the others are not.
EndsAt(m, down, c, b) ==
    /\ b \in 0 .. Len(m)
    /\ \A i \in 1 .. Len(m) : Ahead(down, c, m[i].cursor) <=> i <= b

\* q is the first b entries of m, the last of them first.
IsHead(q, m, b) == Len(q) = b /\ \A i \in 1 .. b : q[i] = m[b - i + 1]

\* And those before it, listed the other way round, its first ones.
LEMMA HeadListed ==
    ASSUME NEW X, NEW up \in BOOLEAN, NEW down \in BOOLEAN, Opposite(up, down),
           NEW m \in Seq(Item), Lists(m, X, up),
           NEW c \in Int, NEW b, EndsAt(m, down, c, b),
           NEW q \in Seq(Item), Lists(q, Past(X, down, c), down)
    PROVE  IsHead(q, m, b)
<1>1. PICK n \in Nat, r \in Seq(Item) :
         /\ n = Len(m) /\ r = Reverse(m) /\ Len(r) = n
         /\ \A i \in 1 .. n : n - i + 1 \in 1 .. n /\ r[i] = m[n - i + 1]
  BY ReverseIs
<1>2. Lists(r, X, down)
  BY <1>1, ListsReverse
<1>3. PICK a \in 0 .. n : a = n - b
  <2>1. b \in 0 .. n
    BY <1>1 DEF EndsAt
  <2>2. n - b \in 0 .. n
    BY <2>1
  <2> QED
    BY <2>2
<1>4. \A i \in 1 .. n : Ahead(down, c, r[i].cursor) <=> i > a
  <2> TAKE i \in 1 .. n
  <2>1. b \in 0 .. n
    BY <1>1 DEF EndsAt
  <2>2. PICK k \in 1 .. n : k = n - i + 1 /\ r[i] = m[k]
    BY <1>1
  <2>3. Ahead(down, c, m[k].cursor) <=> k <= b
    BY <1>1 DEF EndsAt
  <2>4. k <= b <=> i > a
    BY <1>3, <2>1, <2>2
  <2> QED
    BY <2>2, <2>3, <2>4
<1>5. Len(q) = n - a /\ \A i \in 1 .. n - a : q[i] = r[a + i]
  <2>1. SplitsAt(r, down, c, a)
    BY <1>1, <1>4 DEF SplitsAt
  <2>2. IsTail(q, r, a)
    BY <1>2, <2>1, TailListed
  <2> QED
    BY <1>1, <2>2 DEF IsTail
<1>6. b \in 0 .. n /\ n - a = b
  <2>1. b \in 0 .. n
    BY <1>1 DEF EndsAt
  <2> QED
    BY <1>3, <2>1
<1>7. \A i \in 1 .. b : a + i \in 1 .. n /\ n - (a + i) + 1 = b - i + 1
  BY <1>3, <1>6
<1>8. ASSUME NEW i \in 1 .. b PROVE q[i] = m[b - i + 1]
  <2>1. PICK k \in 1 .. n : k = a + i /\ n - k + 1 = b - i + 1
    BY <1>7
  <2>2. q[i] = r[k]
    BY <1>5, <1>6, <2>1
  <2> QED
    BY <1>1, <2>1, <2>2
<1> QED
  BY <1>5, <1>6, <1>8 DEF IsHead
-----------------------------------------------------------------------------
(* The pages of the list endpoint *)

\* The entries in the ring.
Held == {Get(ring, i) : i \in 0 .. ring.size - 1}

LEMMA HeldIs ==
    ASSUME TypeOK, Kept
    PROVE  /\ ring \in Rings(Item) /\ Numbered(ring) /\ InOrder(ring)
           /\ ring.size \in Nat
           /\ \A i \in 0 .. ring.size - 1 :
                 Get(ring, i) \in Item /\ Get(ring, i).cursor \in Int
<1>1. ring \in Rings(Item) /\ Numbered(ring) /\ InOrder(ring)
  BY RingIs
<1>2. ring.size \in Nat
  BY <1>1, CapacityAssumption DEF Rings
<1>3. \A i \in 0 .. ring.size - 1 : Get(ring, i) \in Item
  BY RingIs
<1> QED
  BY <1>1, <1>2, <1>3, ItemCursors

LEMMA RunForward ==
    ASSUME TypeOK, Kept, NEW up \in BOOLEAN, up, NEW c \in Int
    PROVE  /\ RunOf(ring, up, c) \in Seq(Item)
           /\ Lists(RunOf(ring, up, c), Past(Held, up, c), up)
<1>1. PICK size \in Nat : size = ring.size
  BY HeldIs
<1>2. /\ ring \in Rings(Item) /\ Numbered(ring) /\ InOrder(ring)
      /\ \A i \in 0 .. size - 1 : Get(ring, i).cursor \in Int
  BY <1>1, HeldIs
<1>3. PICK o \in 0 .. size :
         /\ o = StartAfter(ring, c)
         /\ \A i \in 0 .. size - 1 : i >= o <=> Get(ring, i).cursor > c
  <2>1. PICK o \in 0 .. size :
           /\ o = StartAfter(ring, c)
           /\ \A i \in 0 .. size - 1 : i >= o <=> Get(ring, i).cursor > c
    BY <1>1, <1>2, ForwardStart
  <2> QED
    BY <2>1
<1>4. PICK run \in Seq(Item), len \in Nat :
         /\ run = RunOf(ring, up, c) /\ len = size - o /\ Len(run) = len
         /\ \A i \in 1 .. len : run[i] = Get(ring, o + i - 1)
  <2>1. /\ RunAfter(ring, c) \in Seq(Item)
        /\ Len(RunAfter(ring, c)) = ring.size - o
        /\ \A i \in 1 .. ring.size - o : RunAfter(ring, c)[i] = Get(ring, o + i - 1)
    <3>1. ring \in Rings(Item) /\ o = StartAfter(ring, c)
      BY <1>2, <1>3
    <3> QED
      BY <3>1, RunAfterIs
  <2>2. RunOf(ring, up, c) = RunAfter(ring, c)
    <3>1. up = TRUE
      BY Zenon
    <3> QED
      BY <3>1, Zenon DEF RunAfter
  <2>3. /\ RunOf(ring, up, c) \in Seq(Item)
        /\ Len(RunOf(ring, up, c)) = size - o
        /\ \A i \in 1 .. size - o : RunOf(ring, up, c)[i] = Get(ring, o + i - 1)
    BY <1>1, <2>1, <2>2, Zenon
  <2>4. size - o \in Nat
    OBVIOUS
  <2> QED
    BY <2>3, <2>4, Zenon
<1>5. len = size - o
  BY <1>4
<1>6. \A i \in 1 .. len : o + i - 1 \in 0 .. size - 1 /\ o + i - 1 >= o
  BY <1>5
<1>7. \A i \in 1 .. len : run[i] \in Past(Held, up, c)
  <2> TAKE i \in 1 .. len
  <2>1. PICK k \in 0 .. size - 1 : k = o + i - 1 /\ k >= o /\ run[i] = Get(ring, k)
    BY <1>4, <1>6
  <2>2. run[i] \in Held
    BY <1>1, <2>1 DEF Held
  <2>3. run[i].cursor > c /\ run[i].cursor \in Int
    BY <1>2, <1>3, <2>1
  <2> QED
    BY <2>2, <2>3 DEF Past, Ahead
<1>8. ASSUME NEW x \in Past(Held, up, c) PROVE \E i \in 1 .. len : run[i] = x
  <2>1. x \in Held /\ c < x.cursor
    BY DEF Past, Ahead
  <2>2. PICK k \in 0 .. size - 1 : x = Get(ring, k)
    BY <1>1, <2>1 DEF Held
  <2>3. k >= o
    BY <1>2, <1>3, <2>1, <2>2
  <2>4. PICK i \in 1 .. len : i = k - o + 1 /\ o + i - 1 = k
    <3>1. k - o + 1 \in 1 .. len /\ o + (k - o + 1) - 1 = k
      BY <1>5, <2>3
    <3> QED
      BY <3>1
  <2> QED
    BY <1>4, <2>2, <2>4
<1>9. ASSUME NEW i \in 1 .. len, NEW j \in 1 .. len, i < j
      PROVE  Ahead(up, run[i].cursor, run[j].cursor)
  <2>1. PICK k \in 0 .. size - 1, l \in 0 .. size - 1 :
           k = o + i - 1 /\ l = o + j - 1
    BY <1>6
  <2>2. k < l /\ run[i] = Get(ring, k) /\ run[j] = Get(ring, l)
    <3>1. k < l
      BY <1>9, <2>1
    <3> QED
      BY <1>4, <2>1, <3>1
  <2>3. run[i].cursor < run[j].cursor
    BY <1>1, <1>2, <2>2 DEF InOrder
  <2> QED
    BY <2>3 DEF Ahead
<1>10. Lists(run, Past(Held, up, c), up)
  BY <1>4, <1>7, <1>8, <1>9 DEF Lists
<1> QED
  BY <1>4, <1>10

LEMMA RunBackward ==
    ASSUME TypeOK, Kept, NEW up \in BOOLEAN, ~up, NEW c \in Int
    PROVE  /\ RunOf(ring, up, c) \in Seq(Item)
           /\ Lists(RunOf(ring, up, c), Past(Held, up, c), up)
<1>1. PICK size \in Nat : size = ring.size
  BY HeldIs
<1>2. /\ ring \in Rings(Item) /\ Numbered(ring) /\ InOrder(ring)
      /\ \A i \in 0 .. size - 1 : Get(ring, i).cursor \in Int
  BY <1>1, HeldIs
<1>3. PICK len \in 0 .. size :
         /\ len - 1 = StartPos(ring, up, c)
         /\ \A i \in 0 .. size - 1 : i < len <=> Get(ring, i).cursor < c
  <2>1. PICK pos \in 0 .. size : /\ pos = SearchFrom(ring, c)
                                 /\ Parts(ring, c, 0, size, pos)
    BY <1>1, <1>2, SearchFinds
  <2>2. StartPos(ring, up, c) = pos - 1
    BY <1>1, <1>2, <2>1, StartIs
  <2>3. ASSUME NEW i \in 0 .. size - 1 PROVE i < pos <=> Get(ring, i).cursor < c
    <3>1. /\ i < pos => Get(ring, i).cursor < c
          /\ i >= pos => Get(ring, i).cursor >= c
      BY <2>1 DEF Parts
    <3> QED
      BY <1>2, <2>1, <3>1
  <2> QED
    BY <2>2, <2>3
<1>4. PICK run \in Seq(Item) :
         /\ run = RunOf(ring, up, c) /\ Len(run) = len
         /\ \A i \in 1 .. len : run[i] = Get(ring, len - i)
  <2>1. PICK pos \in Int : pos = len - 1 /\ pos = StartPos(ring, up, c)
    BY <1>3
  <2>2. pos \in -1 .. ring.size /\ pos = len - 1
    BY <1>1, <2>1
  <2>3. RunOf(ring, up, c) = [i \in 1 .. pos + 1 |-> Get(ring, pos - i + 1)]
    BY <2>1, <2>2 DEF RunOf, Iterator
  <2>4. pos + 1 = len /\ \A i \in 1 .. len : pos - i + 1 = len - i
    BY <2>2
  <2>5. \A i \in 1 .. len : Get(ring, len - i) \in Item
    <3> TAKE i \in 1 .. len
    <3>1. PICK k \in 0 .. size - 1 : k = len - i
      OBVIOUS
    <3> QED
      BY <1>1, <3>1, HeldIs
  <2>6. RunOf(ring, up, c) = [i \in 1 .. len |-> Get(ring, len - i)]
    BY <2>3, <2>4
  <2> QED
    BY <2>5, <2>6
<1>5. \A i \in 1 .. len : len - i \in 0 .. size - 1 /\ len - i < len
  BY <1>3
<1>6. \A i \in 1 .. len : run[i] \in Past(Held, up, c)
  <2> TAKE i \in 1 .. len
  <2>1. PICK k \in 0 .. size - 1 : k = len - i /\ k < len /\ run[i] = Get(ring, k)
    BY <1>4, <1>5
  <2>2. run[i] \in Held
    BY <1>1, <2>1 DEF Held
  <2>3. run[i].cursor < c
    BY <1>3, <2>1
  <2> QED
    BY <2>2, <2>3 DEF Past, Ahead
<1>7. ASSUME NEW x \in Past(Held, up, c) PROVE \E i \in 1 .. len : run[i] = x
  <2>1. x \in Held /\ x.cursor < c
    BY DEF Past, Ahead
  <2>2. PICK k \in 0 .. size - 1 : x = Get(ring, k)
    BY <1>1, <2>1 DEF Held
  <2>3. k < len
    BY <1>3, <2>1, <2>2
  <2>4. PICK i \in 1 .. len : i = len - k /\ len - i = k
    BY <1>3, <2>2, <2>3
  <2> QED
    BY <1>4, <2>2, <2>4
<1>8. ASSUME NEW i \in 1 .. len, NEW j \in 1 .. len, i < j
      PROVE  Ahead(up, run[i].cursor, run[j].cursor)
  <2>1. PICK k \in 0 .. size - 1, l \in 0 .. size - 1 : k = len - i /\ l = len - j
    BY <1>5
  <2>2. l < k /\ run[i] = Get(ring, k) /\ run[j] = Get(ring, l)
    BY <1>3, <1>4, <1>8, <2>1
  <2>3. run[j].cursor < run[i].cursor
    BY <1>1, <1>2, <2>2 DEF InOrder
  <2> QED
    BY <2>3 DEF Ahead
<1>9. Lists(run, Past(Held, up, c), up)
  BY <1>4, <1>6, <1>7, <1>8 DEF Lists
<1> QED
  BY <1>4, <1>9

\* The entries of the ring that match.
Matching(filtered) == Held \cap Passing(Item, filtered)

\* The first of the entries of X beyond cursor c.
Answers(ans, X, up, c, count) ==
    \E all \in Seq(Item) : Lists(all, Past(X, up, c), up) /\ ans = Answer(all, c, count)

\* A query answers with the first entries beyond its cursor that match.
LEMMA QueryLists ==
    ASSUME TypeOK, Kept, NEW up \in BOOLEAN, NEW c \in Int, NEW count, NEW filtered
    PROVE  Answers(Query(ring, up, c, count, filtered), Matching(filtered), up, c, count)
<1>1. PICK run \in Seq(Item) :
         run = RunOf(ring, up, c) /\ Lists(run, Past(Held, up, c), up)
  BY RunForward, RunBackward
<1>2. PICK f : /\ IsSel(f, run, Passing(Item, filtered))
               /\ Query(ring, up, c, count, filtered) = Answer(f[Len(run)], c, count)
  BY <1>1, HeldIs, QueryIs
<1>3. PICK all \in Seq(Item) :
         /\ all = f[Len(run)]
         /\ Lists(all, Past(Held, up, c) \cap Passing(Item, filtered), up)
  BY <1>1, <1>2, SelLists
<1>4. Past(Held, up, c) \cap Passing(Item, filtered) = Past(Matching(filtered), up, c)
  BY DEF Past, Matching
<1> QED
  BY <1>2, <1>3, <1>4 DEF Answers

LEMMA ValuesListed ==
    ASSUME TypeOK, Kept, NEW up \in BOOLEAN, up
    PROVE  Values(ring) \in Seq(Item) /\ Lists(Values(ring), Held, up)
<1>1. PICK size \in Nat : size = ring.size
  BY HeldIs
<1>2. PICK values \in Seq(Item) :
         /\ values = Values(ring) /\ Len(values) = size
         /\ \A i \in 1 .. size : values[i] = Get(ring, i - 1)
  BY <1>1, HeldIs, ValuesIs
<1>3. \A i \in 1 .. size : values[i] \in Held
  <2> TAKE i \in 1 .. size
  <2>1. PICK k \in 0 .. size - 1 : k = i - 1
    OBVIOUS
  <2> QED
    BY <1>1, <1>2, <2>1 DEF Held
<1>4. ASSUME NEW x \in Held PROVE \E i \in 1 .. size : values[i] = x
  <2>1. PICK k \in 0 .. size - 1 : x = Get(ring, k)
    BY <1>1 DEF Held
  <2>2. k + 1 \in 1 .. size /\ (k + 1) - 1 = k
    OBVIOUS
  <2> QED
    BY <1>2, <2>1, <2>2
<1>5. ASSUME NEW i \in 1 .. size, NEW j \in 1 .. size, i < j
      PROVE  Ahead(up, values[i].cursor, values[j].cursor)
  <2>1. PICK k \in 0 .. size - 1, l \in 0 .. size - 1 : k = i - 1 /\ l = j - 1
    OBVIOUS
  <2>2. k < l
    BY <1>5, <2>1
  <2>3. Get(ring, k).cursor < Get(ring, l).cursor
    BY <1>1, <2>2, HeldIs DEF InOrder
  <2> QED
    BY <1>2, <2>1, <2>3 DEF Ahead
<1>6. Lists(values, Held, up)
  BY <1>2, <1>3, <1>4, <1>5 DEF Lists
<1> QED
  BY <1>2, <1>6

\* The entries in the order of the endpoint.
Listing(entries, backward) == IF backward THEN Reverse(entries) ELSE entries

LEMMA ListingIs ==
    ASSUME TypeOK, Kept, NEW backward \in BOOLEAN, NEW up \in BOOLEAN,
           Opposite(backward, up)
    PROVE  /\ Listing(Values(ring), backward) \in Seq(Item)
           /\ Lists(Listing(Values(ring), backward), Held, up)
<1>1. CASE backward
  <2>1. PICK values \in Seq(Item) :
           values = Values(ring) /\ Lists(values, Held, backward)
    BY <1>1, ValuesListed
  <2>2. Lists(Reverse(values), Held, up) /\ Reverse(values) \in Seq(Item)
    BY <2>1, ListsReverse, ReverseIs
  <2> QED
    BY <1>1, <2>1, <2>2 DEF Listing
<1>2. CASE ~backward
  <2>1. up
    BY <1>2 DEF Opposite
  <2> QED
    BY <1>2, <2>1, ValuesListed DEF Listing
<1> QED
  BY <1>1, <1>2

LastOf(s, count) ==
    LET n == IF Len(s) < count THEN Len(s) ELSE count
    IN  SubSeq(s, Len(s) - n + 1, Len(s))

\* The entries that a page is about lie on that side of its cursor.
Asking(up, c, filtered) == Passing(Item, filtered) \cap Past(Item, up, c)

LEMMA PageIs ==
    ASSUME NEW entries, NEW backward \in BOOLEAN, NEW after \in BOOLEAN,
           NEW up \in BOOLEAN, Opposite(QueriesBackward(backward, after), up),
           NEW c, NEW count, NEW filtered,
           NEW s \in Seq(Item), s = Listing(entries, backward)
    PROVE  \E f : /\ IsSel(f, s, Asking(up, c, filtered))
                  /\ PageOf(entries, backward, after, c, count, filtered) =
                        IF after THEN FirstOf(f[Len(s)], count)
                        ELSE LastOf(f[Len(s)], count)
<1> DEFINE Asked(e) == /\ Filter(filtered, e)
                       /\ IF backward = after THEN e.cursor < c ELSE e.cursor > c
           IsTested(f) ==
               f = [n \in 0 .. Len(s) |->
                      IF n = 0 THEN <<>>
                      ELSE IF Asked(s[n]) THEN Append(f[n - 1], s[n])
                      ELSE f[n - 1]]
<1>1. \A e \in Item : e \in Asking(up, c, filtered) <=> Asked(e)
  <2> TAKE e \in Item
  <2>1. up <=> ~(backward = after)
    BY DEF Opposite, QueriesBackward
  <2>2. e \in Asking(up, c, filtered) <=> Filter(filtered, e) /\ Ahead(up, c, e.cursor)
    BY DEF Asking, Passing, Past
  <2>3. Ahead(up, c, e.cursor) <=> IF backward = after THEN e.cursor < c ELSE c < e.cursor
    BY <2>1 DEF Ahead
  <2> QED
    BY <2>2, <2>3
<1>2. ASSUME NEW f PROVE IsTested(f) <=> IsSel(f, s, Asking(up, c, filtered))
  <2> HIDE DEF Asked
  <2>1. ASSUME NEW n \in 0 .. Len(s)
        PROVE  Grow(f, s, Asking(up, c, filtered), n) =
                  IF n = 0 THEN <<>>
                  ELSE IF Asked(s[n]) THEN Append(f[n - 1], s[n])
                  ELSE f[n - 1]
    <3>1. n # 0 => s[n] \in Item
      OBVIOUS
    <3>2. n # 0 => (s[n] \in Asking(up, c, filtered) <=> Asked(s[n]))
      BY <1>1, <3>1
    <3> QED
      BY <3>2 DEF Grow
  <2> QED
    BY <2>1 DEF IsSel
<1>3. PICK f : f = CHOOSE g : IsTested(g)
  OBVIOUS
<1>4. IsTested(f)
  BY <1>2, <1>3, SelExists
<1>5. PageOf(entries, backward, after, c, count, filtered) =
         IF after THEN FirstOf(f[Len(s)], count) ELSE LastOf(f[Len(s)], count)
  BY <1>3 DEF PageOf, Select, Listing, LastOf
<1> QED
  BY <1>2, <1>4, <1>5

LEMMA LastOfReverse ==
    ASSUME NEW S, NEW all \in Seq(S), NEW count \in Nat
    PROVE  Reverse(FirstOf(all, count)) = LastOf(Reverse(all), count)
<1>1. PICK len \in Nat, n \in Nat, rest \in Nat :
         /\ len = Len(all) /\ n = (IF len < count THEN len ELSE count)
         /\ rest = len - n
  <2>1. PICK len \in Nat, n \in Nat :
           len = Len(all) /\ n = (IF len < count THEN len ELSE count)
    OBVIOUS
  <2>2. len - n \in Nat
    BY <2>1
  <2> QED
    BY <2>1, <2>2
<1>2. len = rest + n
  BY <1>1
<1>3. PICK items \in Seq(S) :
         /\ items = FirstOf(all, count) /\ Len(items) = n
         /\ \A i \in 1 .. n : items[i] = all[i]
  BY <1>1, FirstOfIs
<1>4. PICK r \in Seq(S) :
         /\ r = Reverse(all) /\ Len(r) = len
         /\ \A i \in 1 .. len : r[i] = all[len - i + 1]
  BY <1>1, ReverseIs
<1>5. PICK q \in Seq(S) :
         /\ q = Reverse(items) /\ Len(q) = n
         /\ \A i \in 1 .. n : q[i] = items[n - i + 1]
  BY <1>3, ReverseIs
<1>6. PICK t \in Seq(S) :
         /\ t = LastOf(r, count) /\ Len(t) = n
         /\ \A i \in 1 .. n : t[i] = r[rest + i]
  <2>1. LastOf(r, count) = SubSeq(r, len - n + 1, Len(r))
    BY <1>1, <1>4 DEF LastOf
  <2>2. rest <= Len(r)
    BY <1>2, <1>4
  <2>3. /\ SubSeq(r, rest + 1, Len(r)) \in Seq(S)
        /\ Len(SubSeq(r, rest + 1, Len(r))) = Len(r) - rest
        /\ \A i \in 1 .. Len(r) - rest : SubSeq(r, rest + 1, Len(r))[i] = r[rest + i]
    BY <2>2, SubSeqIs, Zenon
  <2>4. Len(r) - rest = n /\ len - n + 1 = rest + 1
    BY <1>2, <1>4
  <2> QED
    BY <2>1, <2>3, <2>4
<1>7. \A i \in 1 .. n : q[i] = t[i]
  <2> TAKE i \in 1 .. n
  <2>1. PICK k \in 1 .. n, l \in 1 .. len :
           k = n - i + 1 /\ l = rest + i /\ len - l + 1 = k
    <3>1. /\ n - i + 1 \in 1 .. n /\ rest + i \in 1 .. len
          /\ len - (rest + i) + 1 = n - i + 1
      BY <1>2
    <3> QED
      BY <3>1
  <2>2. q[i] = all[k]
    BY <1>3, <1>5, <2>1
  <2>3. t[i] = r[l] /\ r[l] = all[len - l + 1]
    BY <1>4, <1>6, <2>1
  <2> QED
    BY <2>1, <2>2, <2>3
<1>8. q = t
  BY <1>5, <1>6, <1>7
<1> QED
  BY <1>3, <1>4, <1>5, <1>6, <1>8

LEMMA PageMatches ==
    ASSUME TypeOK, Kept, NEW backward \in BOOLEAN, NEW after \in BOOLEAN,
           NEW c \in Int, NEW count \in Nat, NEW filtered
    PROVE  ListPage(ring, backward, after, c, count, filtered).items =
              PageOf(Values(ring), backward, after, c, count, filtered)
<1>1. PICK forward \in BOOLEAN : forward = ~QueriesBackward(backward, after)
  BY DEF QueriesBackward
<1>2. PICK up \in BOOLEAN : Opposite(backward, up)
  BY DEF Opposite
<1>3. /\ after => (forward <=> up)
      /\ ~after => Opposite(forward, up)
      /\ Opposite(QueriesBackward(backward, after), forward)
  BY <1>1, <1>2 DEF QueriesBackward, Opposite
<1>4. PICK all \in Seq(Item) :
         /\ Lists(all, Past(Matching(filtered), forward, c), forward)
         /\ Query(ring, forward, c, count, filtered) = Answer(all, c, count)
  BY QueryLists DEF Answers
<1>5. PICK s \in Seq(Item) :
         s = Listing(Values(ring), backward) /\ Lists(s, Held, up)
  BY <1>2, ListingIs
<1>6. PICK f :
         /\ IsSel(f, s, Asking(forward, c, filtered))
         /\ PageOf(Values(ring), backward, after, c, count, filtered) =
               IF after THEN FirstOf(f[Len(s)], count) ELSE LastOf(f[Len(s)], count)
  BY <1>3, <1>5, PageIs
<1>7. PICK side \in Seq(Item) :
         side = f[Len(s)] /\ Lists(side, Held \cap Asking(forward, c, filtered), up)
  BY <1>5, <1>6, SelLists
<1>8. Held \cap Asking(forward, c, filtered) = Past(Matching(filtered), forward, c)
  BY DEF Asking, Matching, Past, Passing
<1>9. ListPage(ring, backward, after, c, count, filtered).items =
         IF after THEN FirstOf(all, count) ELSE Reverse(FirstOf(all, count))
  <2>1. ListPage(ring, backward, after, c, count, filtered) =
           IF after THEN Answer(all, c, count) ELSE ReverseResult(Answer(all, c, count))
    BY <1>1, <1>4, Zenon DEF ListPage
  <2> QED
    BY <2>1 DEF Answer, ReverseResult
<1>10. CASE after
  <2>1. Lists(all, Past(Matching(filtered), forward, c), up)
    BY <1>3, <1>4, <1>10 DEF Lists, Ahead
  <2>2. all = side
    BY <1>7, <1>8, <2>1, ListsSame
  <2> QED
    BY <1>6, <1>7, <1>9, <1>10, <2>2
<1>11. CASE ~after
  <2>1. Lists(Reverse(all), Past(Matching(filtered), forward, c), up)
    BY <1>3, <1>4, <1>11, ListsReverse
  <2>2. Reverse(all) = side
    BY <1>7, <1>8, <2>1, ReverseIs, ListsSame
  <2>3. Reverse(FirstOf(all, count)) = LastOf(side, count)
    BY <2>2, LastOfReverse
  <2> QED
    BY <1>6, <1>7, <1>9, <1>11, <2>3
<1> QED
  BY <1>10, <1>11

\* The answer has the first n of all the entries.
HasFirst(ans, all, c, n) ==
    /\ ans.items \in Seq(Item) /\ Len(ans.items) = n
    /\ \A i \in 1 .. n : ans.items[i] = all[i]
    /\ n = 0 => ans.first = c /\ ans.last = c
    /\ n > 0 => ans.first = all[1].cursor /\ ans.last = all[n].cursor

LEMMA AnswerIs ==
    ASSUME NEW all \in Seq(Item), NEW c, NEW count \in Nat \ {0}, NEW n \in Nat,
           n = IF Len(all) < count THEN Len(all) ELSE count,
           NEW ans, ans = Answer(all, c, count)
    PROVE  HasFirst(ans, all, c, n)
<1>1. PICK items \in Seq(Item) :
         /\ items = FirstOf(all, count) /\ Len(items) = n
         /\ \A i \in 1 .. n : items[i] = all[i]
  BY FirstOfIs
<1>2. /\ ans.items = items
      /\ ans.first = IF items = <<>> THEN c ELSE items[1].cursor
      /\ ans.last = IF items = <<>> THEN c ELSE items[n].cursor
  BY <1>1 DEF Answer
<1>3. /\ items = <<>> <=> n = 0
      /\ n > 0 => 1 \in 1 .. n /\ n \in 1 .. n
  BY <1>1
<1> QED
  BY <1>1, <1>2, <1>3 DEF HasFirst

\* From m's entry x the entries after it are the ones beyond its cursor.
LEMMA SplitsAfter ==
    ASSUME NEW X, NEW up \in BOOLEAN, NEW m \in Seq(Item), Lists(m, X, up),
           NEW x \in 1 .. Len(m)
    PROVE  \A i \in 1 .. Len(m) : Ahead(up, m[x].cursor, m[i].cursor) <=> i > x
<1>1. \A i \in 1 .. Len(m) : m[i].cursor \in Int
  BY ItemCursors
<1> TAKE i \in 1 .. Len(m)
<1>2. /\ i < x => Ahead(up, m[i].cursor, m[x].cursor)
      /\ x < i => Ahead(up, m[x].cursor, m[i].cursor)
  BY DEF Lists
<1>3. i < x \/ i = x \/ x < i
  OBVIOUS
<1> QED
  BY <1>1, <1>2, <1>3 DEF Ahead

\* One page is the other, cursors included.
SamePage(prev, page) == /\ prev.items = page.items
                        /\ prev.first = page.first /\ prev.last = page.last

\* Of the entries X, a page after cursor c, the page after it, which has some,
\* and the page before that one.
LEMMA BackAgain ==
    ASSUME NEW X, NEW up \in BOOLEAN, NEW down \in BOOLEAN, Opposite(up, down),
           \E m \in Seq(Item) : Lists(m, X, up), NEW count \in Nat \ {0},
           NEW c \in Int, NEW page, Answers(page, X, up, c, count),
           NEW l \in Int, l = page.last,
           NEW next, Answers(next, X, up, l, count), next.items # <<>>,
           NEW d \in Int, d = next.first,
           NEW back, Answers(back, X, down, d, count)
    PROVE  SamePage(ReverseResult(back), page)
<1>1. PICK prev : prev = ReverseResult(back)
  OBVIOUS
<1>2. PICK m \in Seq(Item) : Lists(m, X, up)
  OBVIOUS
<1>3. PICK all1 \in Seq(Item) :
          Lists(all1, Past(X, up, c), up) /\ page = Answer(all1, c, count)
  BY DEF Answers
<1>4. PICK all2 \in Seq(Item) :
          Lists(all2, Past(X, up, l), up) /\ next = Answer(all2, l, count)
  BY DEF Answers
<1>5. PICK all3 \in Seq(Item) :
          Lists(all3, Past(X, down, d), down) /\ back = Answer(all3, d, count)
  BY DEF Answers
<1>6. PICK n \in Nat : n = Len(m)
  OBVIOUS
<1>7. PICK a \in 0 .. n : SplitsAt(m, up, c, a) /\ IsTail(all1, m, a)
  <2>1. PICK t \in 0 .. Len(m) : SplitsAt(m, up, c, t)
    BY <1>2, TailIs
  <2>2. IsTail(all1, m, t)
    BY <1>2, <1>3, <2>1, TailListed
  <2> QED
    BY <1>6, <2>1, <2>2, Zenon
<1>8. PICK a2 \in 0 .. n : SplitsAt(m, up, l, a2) /\ IsTail(all2, m, a2)
  <2>1. PICK t \in 0 .. Len(m) : SplitsAt(m, up, l, t)
    BY <1>2, TailIs
  <2>2. IsTail(all2, m, t)
    BY <1>2, <1>4, <2>1, TailListed
  <2> QED
    BY <1>6, <2>1, <2>2, Zenon
<1>9. PICK rest \in Nat, rest2 \in Nat :
         /\ rest = n - a /\ rest2 = n - a2
         /\ Len(all1) = rest /\ \A i \in 1 .. rest : all1[i] = m[a + i]
         /\ Len(all2) = rest2 /\ \A i \in 1 .. rest2 : all2[i] = m[a2 + i]
  <2>1. n - a \in Nat /\ n - a2 \in Nat
    OBVIOUS
  <2>2. Len(all1) = n - a /\ \A i \in 1 .. n - a : all1[i] = m[a + i]
    BY <1>6, <1>7 DEF IsTail
  <2>3. Len(all2) = n - a2 /\ \A i \in 1 .. n - a2 : all2[i] = m[a2 + i]
    BY <1>6, <1>8 DEF IsTail
  <2> QED
    BY <2>1, <2>2, <2>3, Zenon
<1>10. n = a + rest /\ n = a2 + rest2
  BY <1>9
<1>11. PICK k \in Nat, k2 \in Nat :
         /\ k = IF rest < count THEN rest ELSE count
         /\ k2 = IF rest2 < count THEN rest2 ELSE count
  OBVIOUS
<1>12. /\ page.items \in Seq(Item) /\ Len(page.items) = k
       /\ \A i \in 1 .. k : page.items[i] = all1[i]
       /\ k = 0 => l = c
       /\ k > 0 => page.first = all1[1].cursor /\ l = all1[k].cursor
  <2>1. k = IF Len(all1) < count THEN Len(all1) ELSE count
    BY <1>9, <1>11
  <2>2. HasFirst(page, all1, c, k)
    BY <1>3, <2>1, AnswerIs
  <2> QED
    BY <2>2 DEF HasFirst
<1>13. k2 > 0 /\ d = all2[1].cursor
  <2>1. /\ next.items \in Seq(Item) /\ Len(next.items) = k2
        /\ k2 > 0 => d = all2[1].cursor
    <3>1. k2 = IF Len(all2) < count THEN Len(all2) ELSE count
      BY <1>9, <1>11
    <3>2. HasFirst(next, all2, l, k2)
      BY <1>4, <3>1, AnswerIs
    <3> QED
      BY <3>2 DEF HasFirst
  <2> QED
    BY <2>1
\* The page has entries, and they are not the last ones.
<1>14. rest2 > 0 /\ a2 < n
  BY <1>10, <1>11, <1>13
<1>15. k > 0
  <2> SUFFICES ASSUME k = 0 PROVE FALSE
    OBVIOUS
  <2>1. l = c /\ rest = 0 /\ a = n
    <3>1. rest = 0
      BY <1>11
    <3> QED
      BY <1>10, <1>12, <3>1, SMTT(30)
  <2>2. PICK j \in 1 .. n : j > a2
    <3>1. n \in 1 .. n /\ n > a2
      BY <1>14
    <3> QED
      BY <3>1, Zenon
  <2>3. Ahead(up, l, m[j].cursor)
    BY <1>6, <1>8, <2>2 DEF SplitsAt
  <2>4. j > a
    BY <1>6, <1>7, <2>1, <2>3 DEF SplitsAt
  <2> QED
    BY <2>1, <2>4
<1>16. PICK x \in 1 .. n : x = a + k /\ l = m[x].cursor
  <2>1. a + k \in 1 .. n /\ k \in 1 .. rest
    BY <1>10, <1>11, <1>15, SMTT(30)
  <2> QED
    BY <1>9, <1>12, <1>15, <2>1, SMTT(30)
<1>17. a2 = x
  <2>1. \A i \in 1 .. n : i > a2 <=> i > x
    <3>1. \A i \in 1 .. n : Ahead(up, m[x].cursor, m[i].cursor) <=> i > x
      BY <1>2, <1>6, SplitsAfter
    <3> QED
      BY <1>6, <1>8, <1>16, <3>1 DEF SplitsAt
  <2>2. ~(a2 < x)
    <3>1. x > a2 <=> x > x
      BY <2>1, Zenon
    <3> QED
      BY <3>1
  <2>3. ~(x < a2)
    <3> SUFFICES ASSUME x < a2 PROVE FALSE
      OBVIOUS
    <3>1. a2 \in 1 .. n
      OBVIOUS
    <3>2. a2 > a2 <=> a2 > x
      BY <2>1, <3>1, Zenon
    <3> QED
      BY <3>2
  <2> QED
    BY <2>2, <2>3
<1>18. k = count /\ x + 1 \in 1 .. n
  BY <1>10, <1>11, <1>14, <1>16, <1>17
<1>19. d = m[x + 1].cursor
  <2>1. 1 \in 1 .. rest2
    BY <1>14
  <2> QED
    BY <1>9, <1>13, <1>17, <2>1
\* Before the next page lie the entries up to x.
<1>20. \A i \in 1 .. n : Ahead(down, d, m[i].cursor) <=> i <= x
  <2> TAKE i \in 1 .. n
  <2>1. PICK y \in 1 .. n : y = x + 1 /\ d = m[y].cursor
    BY <1>18, <1>19
  <2>2. /\ i < y => Ahead(up, m[i].cursor, m[y].cursor)
        /\ y < i => Ahead(up, m[y].cursor, m[i].cursor)
    BY <1>2, <1>6 DEF Lists
  <2>3. m[i].cursor \in Int /\ m[y].cursor \in Int
    BY <1>6, ItemCursors
  <2>4. i < y \/ i = y \/ y < i
    OBVIOUS
  <2>5. Ahead(down, d, m[i].cursor) <=> i < y
    BY <2>1, <2>2, <2>3, <2>4, SMTT(30) DEF Ahead, Opposite
  <2> QED
    BY <2>1, <2>5
<1>21. Len(all3) = x /\ \A i \in 1 .. x : all3[i] = m[x - i + 1]
  <2>1. EndsAt(m, down, d, x)
    BY <1>6, <1>20 DEF EndsAt
  <2>2. IsHead(all3, m, x)
    BY <1>2, <1>5, <2>1, HeadListed
  <2> QED
    BY <2>2 DEF IsHead
<1>22. PICK found \in Seq(Item) :
          /\ found = back.items /\ Len(found) = count
          /\ \A i \in 1 .. count : found[i] = all3[i]
          /\ back.first = all3[1].cursor /\ back.last = all3[count].cursor
  <2>1. count = IF Len(all3) < count THEN Len(all3) ELSE count
    BY <1>16, <1>18, <1>21
  <2>2. HasFirst(back, all3, d, count) /\ count > 0
    BY <1>5, <2>1, AnswerIs
  <2> QED
    BY <2>2 DEF HasFirst
<1>23. /\ prev.items = Reverse(found)
       /\ prev.first = back.last /\ prev.last = back.first
  BY <1>1, <1>5, <1>22 DEF ReverseResult, Answer
<1>24. PICK items \in Seq(Item) :
          /\ items = prev.items /\ Len(items) = count
          /\ \A i \in 1 .. count : items[i] = found[count - i + 1]
  <2>1. /\ Reverse(found) \in Seq(Item) /\ Len(Reverse(found)) = Len(found)
        /\ \A i \in 1 .. Len(found) : Len(found) - i + 1 \in 1 .. Len(found)
        /\ \A i \in 1 .. Len(found) : Reverse(found)[i] = found[Len(found) - i + 1]
    BY ReverseIs, Zenon
  <2>2. PICK items \in Seq(Item) : items = prev.items /\ items = Reverse(found)
    BY <1>23, <2>1
  <2>3. Len(found) = count
    BY <1>22
  <2> QED
    BY <2>1, <2>2, <2>3
<1>25. count \in 1 .. rest /\ count \in 1 .. x /\ x = a + count
  BY <1>11, <1>16, <1>18
<1>26. ASSUME NEW i \in 1 .. count PROVE items[i] = page.items[i]
  <2>1. PICK j \in 1 .. count : j = count - i + 1
    OBVIOUS
  <2>2. j \in 1 .. x /\ x - j + 1 = a + i /\ i \in 1 .. rest
    <3>1. i \in 1 .. rest /\ j \in 1 .. x
      BY <1>25, SMTT(30)
    <3>2. x - j + 1 = a + i
      BY <1>25, <2>1
    <3> QED
      BY <3>1, <3>2
  <2>3. items[i] = all3[j] /\ all3[j] = m[x - j + 1]
    BY <1>21, <1>22, <1>24, <2>1, <2>2
  <2>4. page.items[i] = m[a + i]
    BY <1>9, <1>12, <1>18, <2>2, SMTT(30)
  <2> QED
    BY <2>2, <2>3, <2>4
<1>27. prev.items = page.items
  <2>1. PICK shown \in Seq(Item) : shown = page.items /\ Len(shown) = count
    BY <1>12, <1>18
  <2>2. items = shown
    BY <1>24, <1>26, <2>1
  <2> QED
    BY <1>24, <2>1, <2>2
<1>28. prev.first = page.first
  <2>1. count \in 1 .. x /\ x - count + 1 = a + 1 /\ 1 \in 1 .. rest
    BY <1>25
  <2>2. all3[count] = m[a + 1] /\ all1[1] = m[a + 1]
    BY <1>9, <1>21, <2>1
  <2> QED
    BY <1>12, <1>15, <1>22, <1>23, <2>2, SMTT(30)
<1>29. prev.last = page.last
  <2>1. 1 \in 1 .. x /\ x - 1 + 1 = x
    BY <1>16
  <2>2. all3[1] = m[x]
    BY <1>21, <2>1
  <2> QED
    BY <1>16, <1>22, <1>23, <2>2
<1> QED
  BY <1>1, <1>27, <1>28, <1>29 DEF SamePage

PageAfter(backward, c, count, filtered) ==
    ListPage(ring, backward, TRUE, c, count, filtered)

PageBefore(backward, c, count, filtered) ==
    ListPage(ring, backward, FALSE, c, count, filtered)

LEMMA PagesAre ==
    ASSUME NEW backward \in BOOLEAN, NEW up \in BOOLEAN, NEW down \in BOOLEAN,
           Opposite(backward, up), Opposite(up, down),
           NEW c, NEW count, NEW filtered
    PROVE  /\ PageAfter(backward, c, count, filtered) =
                 Query(ring, up, c, count, filtered)
           /\ PageBefore(backward, c, count, filtered) =
                 ReverseResult(Query(ring, down, c, count, filtered))
<1>1. ASSUME NEW after \in BOOLEAN
      PROVE  /\ after => up = ~QueriesBackward(backward, after)
             /\ ~after => down = ~QueriesBackward(backward, after)
  BY DEF QueriesBackward, Opposite
<1>2. ASSUME NEW after \in BOOLEAN
      PROVE  /\ after => ListPage(ring, backward, after, c, count, filtered) =
                            Query(ring, up, c, count, filtered)
             /\ ~after => ListPage(ring, backward, after, c, count, filtered) =
                             ReverseResult(Query(ring, down, c, count, filtered))
  <2>1. CASE after
    <3>1. up = ~QueriesBackward(backward, after)
      BY <1>1, <2>1
    <3> QED
      BY <2>1, <3>1, Zenon DEF ListPage
  <2>2. CASE ~after
    <3>1. down = ~QueriesBackward(backward, after)
      BY <1>1, <2>2
    <3> QED
      BY <2>2, <3>1, Zenon DEF ListPage
  <2> QED
    BY <2>1, <2>2
<1> QED
  BY <1>2, Zenon DEF PageAfter, PageBefore

LEMMA RoundTrip ==
    ASSUME TypeOK, Kept, NEW backward \in BOOLEAN, NEW filtered \in BOOLEAN,
           NEW c \in 0 .. MaxCursor, NEW count \in Nat \ {0},
           NEW page, page = PageAfter(backward, c, count, filtered),
           NEW next, next = PageAfter(backward, page.last, count, filtered),
           next.items # <<>>
    PROVE  SamePage(PageBefore(backward, next.first, count, filtered), page)
<1>1. PICK up \in BOOLEAN, down \in BOOLEAN :
         Opposite(backward, up) /\ Opposite(up, down)
  BY DEF Opposite
<1>2. ring \in Rings(Item) /\ count \in Nat
  BY HeldIs
<1>3. \A x \in 0 .. MaxCursor : x \in Int
  BY CursorsAre
<1>4. page = Query(ring, up, c, count, filtered)
  BY <1>1, PagesAre
<1>5. PICK l \in 0 .. MaxCursor : l = page.last
  <2>1. /\ Query(ring, up, c, count, filtered).items \in Seq(Item)
        /\ Query(ring, up, c, count, filtered).first \in 0 .. MaxCursor
        /\ Query(ring, up, c, count, filtered).last \in 0 .. MaxCursor
        /\ Query(ring, up, c, count, filtered).more \in BOOLEAN
    BY <1>2, QueryIn, Zenon
  <2> QED
    BY <1>4, <2>1
<1>6. next = Query(ring, up, l, count, filtered)
  BY <1>1, <1>5, PagesAre
<1>7. PICK d \in 0 .. MaxCursor : d = next.first
  <2>1. /\ Query(ring, up, l, count, filtered).items \in Seq(Item)
        /\ Query(ring, up, l, count, filtered).first \in 0 .. MaxCursor
        /\ Query(ring, up, l, count, filtered).last \in 0 .. MaxCursor
        /\ Query(ring, up, l, count, filtered).more \in BOOLEAN
    BY <1>2, QueryIn, Zenon
  <2> QED
    BY <1>6, <2>1
<1>8. PICK back : back = Query(ring, down, d, count, filtered)
  OBVIOUS
<1>9. PageBefore(backward, next.first, count, filtered) = ReverseResult(back)
  BY <1>1, <1>7, <1>8, PagesAre
<1>10. PICK X : X = Matching(filtered)
  OBVIOUS
<1>11. \E m \in Seq(Item) : Lists(m, X, up)
  <2>1. PICK s \in Seq(Item) : Lists(s, Held, up)
    BY <1>1, ListingIs
  <2>2. PICK f : IsSel(f, s, Passing(Item, filtered))
    BY SelExists
  <2> QED
    BY <1>10, <2>1, <2>2, SelLists DEF Matching
<1>12. c \in Int /\ l \in Int /\ d \in Int
  BY <1>3
<1>13. /\ Answers(page, X, up, c, count) /\ Answers(next, X, up, l, count)
       /\ Answers(back, X, down, d, count)
  BY <1>4, <1>6, <1>8, <1>10, <1>12, QueryLists
<1> QED
  BY <1>1, <1>5, <1>7, <1>9, <1>11, <1>12, <1>13, BackAgain

\* A page of the list endpoint (createListHandler, by the table of its four
\* cases) has exactly the entries of the ring buffer that match and lie
\* directly after or before its cursor, in the order it was asked for: the
\* binary search, the iterators and the reversal leave none out, whatever the
\* capacity, the widths of the cursor and the cursor asked for.
THEOREM PagesRight == ASSUME WithinWords PROVE Spec => []PagesCorrect
<1>1. ASSUME IInv PROVE PagesCorrect
  <2>1. TypeOK /\ Kept
    BY <1>1 DEF IInv
  <2>2. SubSeq(log, Len(log) - ring.size + 1, Len(log)) = Values(ring)
    BY <2>1, KeptHolds DEF RingHolds
  <2>3. ASSUME NEW cursor \in 0 .. MaxCursor, NEW count \in Counts,
               NEW backward \in BOOLEAN, NEW after \in BOOLEAN,
               NEW filtered \in BOOLEAN
        PROVE  ListPage(ring, backward, after, cursor, count, filtered).items =
                  PageOf(SubSeq(log, Len(log) - ring.size + 1, Len(log)),
                         backward, after, cursor, count, filtered)
    <3>1. cursor \in Int /\ count \in Nat
      BY CursorsAre, BoundsAssumption
    <3>2. ListPage(ring, backward, after, cursor, count, filtered).items =
             PageOf(Values(ring), backward, after, cursor, count, filtered)
      BY <2>1, <3>1, PageMatches
    <3> QED
      BY <2>2, <3>2, Zenon
  <2> QED
    BY <2>3, Zenon DEF PagesCorrect
<1> QED
  BY <1>1, Invariance, PTL

\* The links of the pages lead back: the page before the one after a page is
\* that page, with the same entries and the same two cursors, unless the page
\* after it is empty.
THEOREM LinksLeadBack == ASSUME WithinWords PROVE Spec => []PagesRoundTrip
<1>1. ASSUME IInv PROVE PagesRoundTrip
  <2>1. TypeOK /\ Kept
    BY <1>1 DEF IInv
  <2>2. ASSUME NEW cursor \in 0 .. MaxCursor, NEW count \in Counts,
               NEW backward \in BOOLEAN, NEW filtered \in BOOLEAN,
               NEW page, page = PageAfter(backward, cursor, count, filtered),
               NEW next, next = PageAfter(backward, page.last, count, filtered),
               NEW prev, prev = PageBefore(backward, next.first, count, filtered),
               next.items # <<>>
        PROVE  /\ prev.items = page.items
               /\ prev.first = page.first /\ prev.last = page.last
    <3>1. count \in Nat \ {0}
      BY BoundsAssumption
    <3>2. SamePage(PageBefore(backward, next.first, count, filtered), page)
      BY <2>1, <2>2, <3>1, RoundTrip
    <3> QED
      BY <2>2, <3>2 DEF SamePage
  <2>3. ASSUME NEW cursor \in 0 .. MaxCursor, NEW count \in Counts,
               NEW backward \in BOOLEAN, NEW filtered \in BOOLEAN
        PROVE  LET page == PageAfter(backward, cursor, count, filtered)
                   next == PageAfter(backward, page.last, count, filtered)
                   prev == PageBefore(backward, next.first, count, filtered)
               IN  next.items # <<>> =>
                      /\ prev.items = page.items
                      /\ prev.first = page.first /\ prev.last = page.last
    <3>1. PICK page : page = PageAfter(backward, cursor, count, filtered)
      OBVIOUS
    <3>2. PICK next : next = PageAfter(backward, page.last, count, filtered)
      OBVIOUS
    <3>3. PICK prev : prev = PageBefore(backward, next.first, count, filtered)
      OBVIOUS
    <3>4. next.items # <<>> => /\ prev.items = page.items
                               /\ prev.first = page.first /\ prev.last = page.last
      BY <2>2, <3>1, <3>2, <3>3
    <3> QED
      BY <3>1, <3>2, <3>3, <3>4
  <2> QED
    BY <2>3, Zenon DEF PagesRoundTrip, PageAfter, PageBefore
<1> QED
  BY <1>1, Invariance, PTL
=============================================================================
