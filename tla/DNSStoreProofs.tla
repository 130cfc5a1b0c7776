--------------------------- MODULE DNSStoreProofs ---------------------------
(***************************************************************************)
(* Proofs about the DNS store, for every set of domains, addresses, expiry *)
(* times and route timeouts: its two indexes agree, and it implements the  *)
(* set of records of RecordStore.                                          *)
(***************************************************************************)
EXTENDS DNSStore, TLAPS

(* Lemmas about MultiMap. *)

\* MultiMap.Set adds one key and changes no other.
LEMMA SetLookup ==
    ASSUME NEW m, NEW k1, NEW k2, NEW v, NEW x, NEW y
    PROVE  /\ Has(Set(m, k1, k2, v), x, y) <=> Has(m, x, y) \/ (x = k1 /\ y = k2)
           /\ Set(m, k1, k2, v)[k1][k2] = v
           /\ Has(m, x, y) /\ ~(x = k1 /\ y = k2)
                 => Set(m, k1, k2, v)[x][y] = m[x][y]
  <1>1. CASE k1 \in DOMAIN m
    <2> DEFINE inner == Put(m[k1], k2, v)
    <2>1. Set(m, k1, k2, v) = Put(m, k1, inner)
      BY <1>1 DEF Set
    <2>2. /\ DOMAIN inner = DOMAIN m[k1] \cup {k2}
          /\ inner[k2] = v
          /\ \A z \in DOMAIN m[k1] : z # k2 => inner[z] = m[k1][z]
      BY DEF Put
    <2>3. /\ DOMAIN Put(m, k1, inner) = DOMAIN m
          /\ Put(m, k1, inner)[k1] = inner
          /\ \A z \in DOMAIN m : z # k1 => Put(m, k1, inner)[z] = m[z]
      BY <1>1 DEF Put
    <2> HIDE DEF inner
    <2>4. Has(Put(m, k1, inner), x, y) <=> Has(m, x, y) \/ (x = k1 /\ y = k2)
      BY <1>1, <2>2, <2>3 DEF Has
    <2> QED
      BY <1>1, <2>1, <2>2, <2>3, <2>4 DEF Has
  <1>2. CASE k1 \notin DOMAIN m
    <2> DEFINE inner == [z \in {k2} |-> v]
    <2>1. Set(m, k1, k2, v) = Put(m, k1, inner)
      BY <1>2 DEF Set
    <2>2. DOMAIN inner = {k2} /\ inner[k2] = v
      OBVIOUS
    <2>3. /\ DOMAIN Put(m, k1, inner) = DOMAIN m \cup {k1}
          /\ Put(m, k1, inner)[k1] = inner
          /\ \A z \in DOMAIN m : z # k1 => Put(m, k1, inner)[z] = m[z]
      BY DEF Put
    <2> HIDE DEF inner
    <2>4. Has(Put(m, k1, inner), x, y) <=> Has(m, x, y) \/ (x = k1 /\ y = k2)
      BY <1>2, <2>2, <2>3 DEF Has
    <2> QED
      BY <1>2, <2>1, <2>2, <2>3, <2>4 DEF Has
  <1> QED
    BY <1>1, <1>2

\* MultiMap.Remove takes away one key and changes no other.
LEMMA RemoveLookup ==
    ASSUME NEW m, NEW k1, NEW k2, NEW x, NEW y
    PROVE  /\ Has(RemoveKey(m, k1, k2), x, y) <=> Has(m, x, y) /\ ~(x = k1 /\ y = k2)
           /\ Has(m, x, y) /\ ~(x = k1 /\ y = k2)
                 => RemoveKey(m, k1, k2)[x][y] = m[x][y]
  <1>1. CASE ~Has(m, k1, k2)
    BY <1>1 DEF RemoveKey, Has
  <1>2. CASE Has(m, k1, k2) /\ DOMAIN m[k1] = {k2}
    <2>1. RemoveKey(m, k1, k2) = Delete(m, k1)
      BY <1>2 DEF RemoveKey
    <2>2. /\ DOMAIN Delete(m, k1) = DOMAIN m \ {k1}
          /\ \A z \in DOMAIN m : z # k1 => Delete(m, k1)[z] = m[z]
      BY DEF Delete
    <2> QED
      BY <1>2, <2>1, <2>2 DEF Has
  <1>3. CASE Has(m, k1, k2) /\ DOMAIN m[k1] # {k2}
    <2> DEFINE inner == Delete(m[k1], k2)
    <2>1. RemoveKey(m, k1, k2) = Put(m, k1, inner)
      BY <1>3 DEF RemoveKey
    <2>2. /\ DOMAIN inner = DOMAIN m[k1] \ {k2}
          /\ \A z \in DOMAIN m[k1] : z # k2 => inner[z] = m[k1][z]
      BY DEF Delete
    <2>3. /\ DOMAIN Put(m, k1, inner) = DOMAIN m
          /\ Put(m, k1, inner)[k1] = inner
          /\ \A z \in DOMAIN m : z # k1 => Put(m, k1, inner)[z] = m[z]
      BY <1>3 DEF Put, Has
    <2> HIDE DEF inner
    <2> QED
      BY <1>3, <2>1, <2>2, <2>3 DEF Has
  <1> QED
    BY <1>1, <1>2, <1>3

LEMMA SetType ==
    ASSUME NEW m, NEW K1, NEW K2, IsMultiMap(m, K1, K2),
           NEW k1 \in K1, NEW k2 \in K2, NEW r \in Record
    PROVE  IsMultiMap(Set(m, k1, k2, r), K1, K2)
  <1> DEFINE inner == IF k1 \in DOMAIN m THEN Put(m[k1], k2, r) ELSE [z \in {k2} |-> r]
  <1>1. inner \in [DOMAIN inner -> Record] /\ DOMAIN inner \subseteq K2
    BY DEF Put, IsMultiMap
  <1>2. Set(m, k1, k2, r) = Put(m, k1, inner)
    BY DEF Set
  <1> HIDE DEF inner
  <1> QED
    BY <1>1, <1>2 DEF Put, IsMultiMap

LEMMA RemoveType ==
    ASSUME NEW m, NEW K1, NEW K2, IsMultiMap(m, K1, K2), NEW k1, NEW k2
    PROVE  IsMultiMap(RemoveKey(m, k1, k2), K1, K2)
  <1>1. CASE ~Has(m, k1, k2)
    BY <1>1 DEF RemoveKey
  <1>2. CASE Has(m, k1, k2) /\ DOMAIN m[k1] = {k2}
    BY <1>2 DEF RemoveKey, Delete, IsMultiMap
  <1>3. CASE Has(m, k1, k2) /\ DOMAIN m[k1] # {k2}
    <2> DEFINE inner == Delete(m[k1], k2)
    <2>1. inner \in [DOMAIN inner -> Record] /\ DOMAIN inner \subseteq K2
      BY <1>3 DEF Delete, IsMultiMap, Has
    <2>2. RemoveKey(m, k1, k2) = Put(m, k1, inner)
      BY <1>3 DEF RemoveKey
    <2>3. k1 \in DOMAIN m
      BY <1>3 DEF Has
    <2> HIDE DEF inner
    <2> QED
      BY <2>1, <2>2, <2>3 DEF Put, IsMultiMap
  <1> QED
    BY <1>1, <1>2, <1>3

LEMMA EmptyType == \A K1, K2 : IsMultiMap(EmptyMap, K1, K2)
  BY DEF EmptyMap, IsMultiMap

\* No inner map is empty.
Filled(m) == \A k \in DOMAIN m : DOMAIN m[k] # {}

LEMMA SetFilled ==
    ASSUME NEW m, Filled(m), NEW k1, NEW k2, NEW v
    PROVE  Filled(Set(m, k1, k2, v))
  BY DEF Filled, Set, Put

LEMMA RemoveFilled ==
    ASSUME NEW m, Filled(m), NEW k1, NEW k2
    PROVE  Filled(RemoveKey(m, k1, k2))
  BY DEF Filled, RemoveKey, Put, Delete, Has

-----------------------------------------------------------------------------
(* What View sees of these. *)

LEMMA ViewEmpty == View(EmptyMap) = {}
  BY DEF View, EmptyMap, Has

LEMMA ViewSet ==
    ASSUME NEW m, NEW r \in Record
    PROVE  View(Set(m, r.domain, r.ip, r)) = AddRec(View(m), r)
  <1> DEFINE n == Set(m, r.domain, r.ip, r)
  <1>1. ASSUME NEW s \in Record
        PROVE  s \in View(n) <=> s \in AddRec(View(m), r)
    <2>1. CASE SameKey(s, r)
      <3>1. Has(n, s.domain, s.ip) /\ n[s.domain][s.ip] = r
        BY <2>1, SetLookup DEF SameKey
      <3> QED
        BY <2>1, <3>1 DEF View, AddRec, SameKey
    <2>2. CASE ~SameKey(s, r)
      <3>1. /\ Has(n, s.domain, s.ip) <=> Has(m, s.domain, s.ip)
            /\ Has(m, s.domain, s.ip) => n[s.domain][s.ip] = m[s.domain][s.ip]
        BY <2>2, SetLookup DEF SameKey
      <3> HIDE DEF n
      <3>2. s \in View(n) <=> s \in View(m)
        BY <3>1 DEF View
      <3> QED
        BY <2>2, <3>2 DEF AddRec, SameKey
    <2> QED
      BY <2>1, <2>2
  <1>2. View(n) \subseteq Record /\ AddRec(View(m), r) \subseteq Record
    BY DEF View, AddRec
  <1> QED
    BY <1>1, <1>2

LEMMA ViewRemove ==
    ASSUME NEW m, NEW r \in Record
    PROVE  View(RemoveKey(m, r.domain, r.ip)) = RemoveRec(View(m), r)
  <1> DEFINE n == RemoveKey(m, r.domain, r.ip)
  <1>1. ASSUME NEW s \in Record
        PROVE  s \in View(n) <=> s \in RemoveRec(View(m), r)
    <2>1. /\ Has(n, s.domain, s.ip) <=> Has(m, s.domain, s.ip) /\ ~SameKey(s, r)
          /\ Has(m, s.domain, s.ip) /\ ~SameKey(s, r)
                => n[s.domain][s.ip] = m[s.domain][s.ip]
      BY RemoveLookup DEF SameKey
    <2> HIDE DEF n
    <2> QED
      BY <2>1 DEF View, RemoveRec
  <1>2. View(n) \subseteq Record /\ RemoveRec(View(m), r) \subseteq Record
    BY DEF View, RemoveRec
  <1> QED
    BY <1>1, <1>2

\* A map holds one record per key.
LEMMA ViewUnique == \A m : UniqueKeys(View(m))
  BY DEF UniqueKeys, View, SameKey
-----------------------------------------------------------------------------
(* The inductive invariant. *)

\* What is written to the second index, and by whom, while one is half done.
HalfOK ==
    /\ call.half # {} => /\ call.op # "none"
                         /\ \E r \in Record : call.half = {r}
    /\ \A r \in call.half :
          IF call.op \in {"add", "fill"}
          THEN Has(byDomain, r.domain, r.ip) /\ byDomain[r.domain][r.ip] = r
          ELSE ~Has(byDomain, r.domain, r.ip)

\* The indexes agree on every key but that of the record half done.
AgreeElsewhere ==
    \A d \in Domain, i \in IP :
        (\A r \in call.half : ~(r.domain = d /\ r.ip = i)) => Agree(d, i)

\* fill: what is in the maps and what is to come are records of different keys.
FillOK == call.op = "fill" => UniqueKeys(View(byDomain) \cup call.todo)

\* RemoveExpired: of the records it found those still there, those already
\* visited, and those gone.
SweepOK ==
    IF call.op = "sweep"
    THEN /\ call.start <= now
         /\ call.todo \subseteq View(byDomain)
         /\ View(byDomain) \subseteq before
         /\ before \ View(byDomain) \subseteq ExpiredIn(before, now, call.extra)
         /\ ExpiredIn(before, call.start, call.extra) \cap View(byDomain)
               \subseteq call.todo
    ELSE /\ call.start = 0 /\ call.extra = 0
         /\ call.op # "fill" => call.todo = {}

IInv == /\ TypeOK
        /\ Filled(byDomain) /\ Filled(byIP)
        /\ HalfOK /\ AgreeElsewhere
        /\ FillOK /\ SweepOK

Call == [op : {"none", "add", "remove", "fill", "sweep"},
         todo : SUBSET Record, half : SUBSET Record,
         start : 0 .. MaxTime, extra : Extra \cup {0}]

\* When mu is free nothing is half done.
LEMMA FreeAgree == IInv /\ Free => call = Idle /\ \A d \in Domain, i \in IP : Agree(d, i)
  BY DEF IInv, Free, Idle, AgreeElsewhere

LEMMA InitInv == Init => IInv
  <1> SUFFICES ASSUME Init PROVE IInv
    OBVIOUS
  <1>1. TypeOK
    BY EmptyType, MaxTimeAssumption DEF Init, TypeOK, Idle
  <1>2. Filled(byDomain) /\ Filled(byIP)
    BY DEF Init, Filled, EmptyMap
  <1>3. AgreeElsewhere
    BY DEF Init, AgreeElsewhere, Agree, Has, EmptyMap
  <1>4. HalfOK /\ FillOK /\ SweepOK
    BY DEF Init, Idle, HalfOK, FillOK, SweepOK
  <1> QED
    BY <1>1, <1>2, <1>3, <1>4 DEF IInv

\* Every time there is is a natural number.
LEMMA TimesType ==
    TypeOK => now \in Nat /\ call.start \in Nat /\ call.extra \in Nat
  <1> SUFFICES ASSUME TypeOK
               PROVE  now \in Nat /\ call.start \in Nat /\ call.extra \in Nat
    OBVIOUS
  <1>1. /\ now \in 0 .. MaxTime /\ call.start \in 0 .. MaxTime
        /\ call.extra \in Extra \cup {0}
    BY DEF TypeOK
  <1>2. \A x \in Extra \cup {0} : x \in Nat
    BY ExtraAssumption
  <1> QED
    BY <1>1, <1>2, MaxTimeAssumption

\* A step that leaves the maps and the call alone.
LEMMA ClockInv ==
    ASSUME IInv, UNCHANGED <<byDomain, byIP, call, before>>,
           now' \in 0 .. MaxTime, now <= now'
    PROVE  IInv'
  <1>1. TypeOK' /\ (Filled(byDomain) /\ Filled(byIP))'
    BY DEF IInv, TypeOK, Filled
  <1>2. AgreeElsewhere'
    BY DEF IInv, AgreeElsewhere, Agree
  <1>3. HalfOK' /\ FillOK'
    BY DEF IInv, HalfOK, FillOK
  <1>4. SweepOK'
    <2>1. now \in Nat /\ now' \in Nat /\ call.start \in Nat /\ call.extra \in Nat
      BY TimesType, MaxTimeAssumption DEF IInv
    <2>2. \A r \in Record : r.expires \in Nat
      BY ExpiryAssumption DEF Record
    <2>3. before \subseteq Record
      BY DEF IInv, TypeOK
    <2>4. ExpiredIn(before, now, call.extra) \subseteq ExpiredIn(before, now', call.extra)
      BY <2>1, <2>2, <2>3 DEF ExpiredIn, Expired
    <2> QED
      BY <2>1, <2>4 DEF IInv, SweepOK
  <1> QED
    BY <1>1, <1>2, <1>3, <1>4 DEF IInv

\* The indexes still agree elsewhere when a record of its own half is written
\* to the first of them, or taken out.
LEMMA FirstIndexAgree ==
    ASSUME IInv, NEW r \in Record, call.half = {}, call'.half = {r},
           \/ byDomain' = Set(byDomain, r.domain, r.ip, r)
           \/ byDomain' = RemoveKey(byDomain, r.domain, r.ip),
           byIP' = byIP
    PROVE  AgreeElsewhere'
  <1>1. SUFFICES ASSUME NEW d \in Domain, NEW i \in IP, ~(r.domain = d /\ r.ip = i)
                 PROVE  Agree(d, i)'
    BY DEF AgreeElsewhere
  <1>2. Agree(d, i)
    BY DEF IInv, AgreeElsewhere
  <1>3. /\ Has(byDomain', d, i) <=> Has(byDomain, d, i)
        /\ Has(byDomain, d, i) => byDomain'[d][i] = byDomain[d][i]
    BY <1>1, SetLookup, RemoveLookup
  <1> QED
    BY <1>2, <1>3 DEF Agree

LEMMA AddInv == ASSUME IInv, NEW r \in Record, Add(r) PROVE IInv'
  <1>1. call = Idle
    BY FreeAgree DEF Add, Lock
  <1>2. /\ call' = [op |-> "add", todo |-> {}, half |-> {r}, start |-> 0, extra |-> 0]
        /\ byDomain' = Set(byDomain, r.domain, r.ip, r)
        /\ UNCHANGED <<now, byIP, before>>
    BY DEF Add, Lock, Held, Idle
  <1>3. r.domain \in Domain /\ r.ip \in IP
    BY DEF Record
  <1>4. TypeOK'
    <2>1. call' \in Call
      BY <1>2, MaxTimeAssumption DEF Call
    <2> QED
      BY <1>2, <1>3, SetType, <2>1 DEF IInv, TypeOK, Call
  <1>5. (Filled(byDomain) /\ Filled(byIP))'
    BY <1>2, SetFilled DEF IInv
  <1>6. AgreeElsewhere'
    BY <1>1, <1>2, FirstIndexAgree DEF Idle
  <1>7. HalfOK'
    BY <1>2, SetLookup DEF HalfOK
  <1>8. FillOK' /\ SweepOK'
    BY <1>2 DEF FillOK, SweepOK
  <1> QED
    BY <1>4, <1>5, <1>6, <1>7, <1>8 DEF IInv

LEMMA RemoveInv == ASSUME IInv, NEW r \in Record, Remove(r) PROVE IInv'
  <1>1. call = Idle
    BY FreeAgree DEF Remove, Lock
  <1>2. /\ call' = [op |-> "remove", todo |-> {}, half |-> {r}, start |-> 0, extra |-> 0]
        /\ byDomain' = RemoveKey(byDomain, r.domain, r.ip)
        /\ UNCHANGED <<now, byIP, before>>
    BY DEF Remove, Lock, Held, Idle
  <1>4. TypeOK'
    <2>1. call' \in Call
      BY <1>2, MaxTimeAssumption DEF Call
    <2> QED
      BY <1>2, RemoveType, <2>1 DEF IInv, TypeOK, Call
  <1>5. (Filled(byDomain) /\ Filled(byIP))'
    BY <1>2, RemoveFilled DEF IInv
  <1>6. AgreeElsewhere'
    BY <1>1, <1>2, FirstIndexAgree DEF Idle
  <1>7. HalfOK'
    BY <1>2, RemoveLookup DEF HalfOK
  <1>8. FillOK' /\ SweepOK'
    BY <1>2 DEF FillOK, SweepOK
  <1> QED
    BY <1>4, <1>5, <1>6, <1>7, <1>8 DEF IInv

LEMMA FillInv ==
    ASSUME IInv, NEW R \in SUBSET Record, UniqueKeys(R), Fill(R) PROVE IInv'
  <1>1. call = Idle
    BY FreeAgree DEF Fill, Lock
  <1>2. /\ call' = [op |-> "fill", todo |-> R, half |-> {}, start |-> 0, extra |-> 0]
        /\ byDomain' = EmptyMap /\ byIP' = EmptyMap
        /\ UNCHANGED <<now, before>>
    BY DEF Fill, Lock, Held, Idle
  <1>3. TypeOK'
    <2>1. call' \in Call
      BY <1>2, MaxTimeAssumption DEF Call
    <2> QED
      BY <1>2, EmptyType, <2>1 DEF IInv, TypeOK, Call
  <1>4. (Filled(byDomain) /\ Filled(byIP))'
    BY <1>2 DEF Filled, EmptyMap
  <1>5. AgreeElsewhere'
    BY <1>2 DEF AgreeElsewhere, Agree, Has, EmptyMap
  <1>6. HalfOK' /\ SweepOK'
    BY <1>2 DEF HalfOK, SweepOK
  <1>7. FillOK'
    BY <1>2, ViewEmpty DEF FillOK
  <1> QED
    BY <1>3, <1>4, <1>5, <1>6, <1>7 DEF IInv

\* Of records with different keys, the next one replaces none.
LEMMA FillKeeps ==
    ASSUME IInv, FillRecord,
           NEW r \in call.todo, byDomain' = Set(byDomain, r.domain, r.ip, r)
    PROVE  View(byDomain') \cup (call.todo \ {r}) = View(byDomain) \cup call.todo
  <1>1. r \in Record /\ UniqueKeys(View(byDomain) \cup call.todo)
    BY DEF IInv, TypeOK, FillOK, FillRecord
  <1>2. View(byDomain') = AddRec(View(byDomain), r)
    BY <1>1, ViewSet
  <1>3. \A s \in View(byDomain) : SameKey(s, r) => s = r
    BY <1>1 DEF UniqueKeys
  <1> QED
    BY <1>2, <1>3 DEF AddRec

LEMMA FillRecordInv == ASSUME IInv, FillRecord PROVE IInv'
  <1>1. PICK r \in call.todo : /\ byDomain' = Set(byDomain, r.domain, r.ip, r)
                               /\ call' = [call EXCEPT !.todo = @ \ {r}, !.half = {r}]
    BY DEF FillRecord
  <1>2. /\ call.op = "fill" /\ call.half = {} /\ call \in Call
        /\ UNCHANGED <<now, byIP, before>>
    BY DEF FillRecord, IInv, TypeOK, Call
  <1>3. r \in Record /\ r.domain \in Domain /\ r.ip \in IP
    BY <1>2 DEF Call, Record
  <1>4. /\ call'.op = "fill" /\ call'.half = {r} /\ call'.todo = call.todo \ {r}
        /\ call'.start = call.start /\ call'.extra = call.extra /\ call' \in Call
    BY <1>1, <1>2, <1>3 DEF Call
  <1>5. TypeOK'
    BY <1>1, <1>2, <1>3, <1>4, SetType DEF IInv, TypeOK, Call
  <1>6. (Filled(byDomain) /\ Filled(byIP))'
    BY <1>1, <1>2, SetFilled DEF IInv
  <1>7. AgreeElsewhere'
    BY <1>1, <1>2, <1>3, <1>4, FirstIndexAgree
  <1>8. HalfOK'
    BY <1>1, <1>3, <1>4, SetLookup DEF HalfOK
  <1>9. FillOK'
    BY <1>1, <1>2, <1>4, FillKeeps DEF FillOK, IInv
  <1>10. SweepOK'
    BY <1>2, <1>4 DEF IInv, SweepOK
  <1> QED
    BY <1>5, <1>6, <1>7, <1>8, <1>9, <1>10 DEF IInv

LEMMA RemoveExpiredInv ==
    ASSUME IInv, NEW extra \in Extra, RemoveExpired(extra) PROVE IInv'
  <1>1. call = Idle /\ \A d \in Domain, i \in IP : Agree(d, i)
    BY FreeAgree DEF RemoveExpired, Lock
  <1>2. /\ call' = [op |-> "sweep", todo |-> View(byDomain), half |-> {},
                    start |-> now, extra |-> extra]
        /\ before' = View(byDomain)
        /\ UNCHANGED <<now, byDomain, byIP>>
    BY DEF RemoveExpired, Lock, Held, Idle
  <1>3. View(byDomain) \subseteq Record
    BY DEF View
  <1>4. TypeOK'
    BY <1>2, <1>3 DEF IInv, TypeOK, Idle
  <1>5. (Filled(byDomain) /\ Filled(byIP))'
    BY <1>2 DEF IInv, Filled
  <1>6. AgreeElsewhere'
    BY <1>1, <1>2 DEF AgreeElsewhere, Agree
  <1>7. HalfOK' /\ FillOK'
    BY <1>2 DEF HalfOK, FillOK
  <1>8. SweepOK'
    <2>1. now <= now
      BY MaxTimeAssumption DEF IInv, TypeOK
    <2>2. ExpiredIn(before', now, extra) \cap View(byDomain) \subseteq View(byDomain)
      OBVIOUS
    <2> QED
      BY <1>2, <2>1, <2>2 DEF SweepOK
  <1> QED
    BY <1>4, <1>5, <1>6, <1>7, <1>8 DEF IInv

\* One more record visited.
LEMMA VisitedInv ==
    ASSUME IInv, call.op = "sweep", call.half = {}, NEW r \in call.todo,
           ~Expired(r, now, call.extra),
           call' = [call EXCEPT !.todo = @ \ {r}],
           UNCHANGED <<now, byDomain, byIP, before>>
    PROVE  IInv'
  <1>1. call \in Call
    BY DEF IInv, TypeOK, Call
  <1>2. /\ call'.op = "sweep" /\ call'.half = {} /\ call'.todo = call.todo \ {r}
        /\ call'.start = call.start /\ call'.extra = call.extra /\ call' \in Call
    BY <1>1 DEF Call
  <1>3. TypeOK' /\ (Filled(byDomain) /\ Filled(byIP))'
    BY <1>2 DEF IInv, TypeOK, Call, Filled
  <1>4. AgreeElsewhere'
    BY <1>2 DEF IInv, AgreeElsewhere, Agree
  <1>5. HalfOK' /\ FillOK'
    BY <1>2 DEF HalfOK, FillOK
  <1>6. r \notin ExpiredIn(before, call.start, call.extra)
    <2>1. r \in Record
      BY <1>1 DEF Call
    <2>2. /\ call.start \in Nat /\ call.extra \in Nat /\ now \in Nat
          /\ r.expires \in Nat
      BY <2>1, TimesType, ExpiryAssumption DEF IInv, Record
    <2>3. call.start <= now
      BY DEF IInv, SweepOK
    <2> QED
      BY <2>2, <2>3 DEF ExpiredIn, Expired
  <1>7. SweepOK'
    <2>1. SweepOK
      BY DEF IInv
    <2> QED
      BY <1>2, <1>6, <2>1 DEF SweepOK
  <1> QED
    BY <1>3, <1>4, <1>5, <1>7 DEF IInv

\* One more record removed from the first index.
LEMMA SweptInv ==
    ASSUME IInv, call.op = "sweep", call.half = {}, NEW r \in call.todo,
           Expired(r, now, call.extra),
           byDomain' = RemoveKey(byDomain, r.domain, r.ip),
           call' = [call EXCEPT !.todo = @ \ {r}, !.half = {r}],
           UNCHANGED <<now, byIP, before>>
    PROVE  IInv'
  <1>1. call \in Call /\ r \in Record
    BY DEF IInv, TypeOK, Call
  <1>2. /\ call'.op = "sweep" /\ call'.half = {r} /\ call'.todo = call.todo \ {r}
        /\ call'.start = call.start /\ call'.extra = call.extra /\ call' \in Call
    BY <1>1 DEF Call
  <1>3. TypeOK'
    BY <1>2, RemoveType DEF IInv, TypeOK, Call
  <1>4. (Filled(byDomain) /\ Filled(byIP))'
    BY RemoveFilled DEF IInv
  <1>5. AgreeElsewhere'
    BY <1>1, <1>2, FirstIndexAgree
  <1>6. HalfOK'
    BY <1>1, <1>2, RemoveLookup DEF HalfOK
  <1>7. FillOK'
    BY <1>2 DEF FillOK
  <1>8. SweepOK'
    <2>1. SweepOK
      BY DEF IInv
    <2>2. View(byDomain)' = RemoveRec(View(byDomain), r)
      BY <1>1, ViewRemove
    <2>3. RemoveRec(View(byDomain), r) = View(byDomain) \ {r}
      BY <2>1, ViewUnique DEF SweepOK, RemoveRec, UniqueKeys, SameKey
    <2>4. r \in before => r \in ExpiredIn(before, now, call.extra)
      BY DEF ExpiredIn
    <2> QED
      BY <1>2, <2>1, <2>2, <2>3, <2>4 DEF SweepOK
  <1> QED
    BY <1>3, <1>4, <1>5, <1>6, <1>7, <1>8 DEF IInv

LEMMA SweepRecordInv == ASSUME IInv, SweepRecord PROVE IInv'
  BY VisitedInv, SweptInv DEF SweepRecord, SweepExpired

LEMMA SecondIndexInv == ASSUME IInv, SecondIndex PROVE IInv'
  <1>1. PICK r \in call.half : IF call.op \in {"add", "fill"} THEN IndexIP(r)
                                                            ELSE UnindexIP(r)
    BY DEF SecondIndex
  <1>2. /\ call \in Call /\ r \in Record /\ call.half = {r}
        /\ r.domain \in Domain /\ r.ip \in IP
        /\ UNCHANGED <<now, byDomain, before>>
    BY <1>1 DEF IInv, TypeOK, Call, HalfOK, SecondIndex, Record
  <1>3. /\ call'.op = call.op /\ call'.half = {} /\ call'.todo = call.todo
        /\ call'.start = call.start /\ call'.extra = call.extra /\ call' \in Call
    BY <1>2 DEF Call, SecondIndex
  <1>4. IF call.op \in {"add", "fill"}
        THEN /\ byIP' = Set(byIP, r.ip, r.domain, r)
             /\ Has(byDomain, r.domain, r.ip) /\ byDomain[r.domain][r.ip] = r
        ELSE /\ byIP' = RemoveKey(byIP, r.ip, r.domain)
             /\ ~Has(byDomain, r.domain, r.ip)
    BY <1>1, <1>2 DEF IndexIP, UnindexIP, IInv, HalfOK
  <1>5. TypeOK'
    BY <1>2, <1>3, <1>4, SetType, RemoveType DEF IInv, TypeOK, Call
  <1>6. (Filled(byDomain) /\ Filled(byIP))'
    BY <1>2, <1>4, SetFilled, RemoveFilled DEF IInv
  <1>7. ASSUME NEW d \in Domain, NEW i \in IP PROVE Agree(d, i)'
    <2>1. CASE r.domain = d /\ r.ip = i
      BY <1>2, <1>4, <2>1, SetLookup, RemoveLookup DEF Agree
    <2>2. CASE ~(r.domain = d /\ r.ip = i)
      <3>1. Agree(d, i)
        BY <1>2, <2>2 DEF IInv, AgreeElsewhere
      <3>2. /\ Has(byIP', i, d) <=> Has(byIP, i, d)
            /\ Has(byIP, i, d) => byIP'[i][d] = byIP[i][d]
        BY <1>4, <2>2, SetLookup, RemoveLookup
      <3> QED
        BY <1>2, <3>1, <3>2 DEF Agree
    <2> QED
      BY <2>1, <2>2
  <1>8. AgreeElsewhere'
    BY <1>7 DEF AgreeElsewhere
  <1>9. HalfOK' /\ FillOK' /\ SweepOK'
    BY <1>2, <1>3 DEF IInv, HalfOK, FillOK, SweepOK
  <1> QED
    BY <1>5, <1>6, <1>8, <1>9 DEF IInv

LEMMA ReturnInv == ASSUME IInv, Return PROVE IInv'
  <1>1. /\ call' = Idle /\ before' = {} /\ call.half = {}
        /\ UNCHANGED <<now, byDomain, byIP>>
    BY DEF Return
  <1>2. call' \in Call
    BY <1>1, MaxTimeAssumption DEF Call, Idle
  <1>3. TypeOK' /\ (Filled(byDomain) /\ Filled(byIP))'
    BY <1>1, <1>2 DEF IInv, TypeOK, Call, Filled
  <1>4. AgreeElsewhere'
    BY <1>1 DEF IInv, AgreeElsewhere, Agree, Idle
  <1>5. HalfOK' /\ FillOK' /\ SweepOK'
    BY <1>1 DEF HalfOK, FillOK, SweepOK, Idle
  <1> QED
    BY <1>3, <1>4, <1>5 DEF IInv

LEMMA NextInv == IInv /\ [Next]_vars => IInv'
  <1> SUFFICES ASSUME IInv, [Next]_vars PROVE IInv'
    OBVIOUS
  <1>1. now \in 0 .. MaxTime
    BY DEF IInv, TypeOK
  <1>2. CASE Tick
    BY <1>1, <1>2, ClockInv, MaxTimeAssumption DEF Tick
  <1>3. ASSUME NEW r \in Record, Add(r) \/ Remove(r) PROVE IInv'
    BY <1>3, AddInv, RemoveInv
  <1>4. ASSUME NEW R \in SUBSET Record, UniqueKeys(R), Fill(R) PROVE IInv'
    BY <1>4, FillInv
  <1>5. ASSUME NEW extra \in Extra, RemoveExpired(extra) PROVE IInv'
    BY <1>5, RemoveExpiredInv
  <1>6. CASE FillRecord \/ SweepRecord \/ SecondIndex \/ Return
    BY <1>6, FillRecordInv, SweepRecordInv, SecondIndexInv, ReturnInv
  <1>7. CASE UNCHANGED vars
    BY <1>1, <1>7, ClockInv, MaxTimeAssumption DEF vars
  <1> QED
    BY <1>2, <1>3, <1>4, <1>5, <1>6, <1>7 DEF Next

THEOREM Invariance == Spec => []IInv
  BY InitInv, NextInv, PTL DEF Spec

\* The maps, the running operation and its bookkeeping are what the code
\* declares them to be.
THEOREM TypeCorrect == Spec => []TypeOK
  <1>1. IInv => TypeOK
    BY DEF IInv
  <1> QED
    BY <1>1, Invariance, PTL

\* Whenever mu is free, LookupIP and Records tell the same story, whatever
\* operations ran before, for any number of domains and addresses.
THEOREM IndexesAlwaysAgree == Spec => []IndexesAgree
  <1>1. IInv => IndexesAgree
    BY FreeAgree DEF IndexesAgree
  <1> QED
    BY <1>1, Invariance, PTL

\* MultiMap.Remove leaves no empty inner map in either index.
THEOREM NothingEmpty == Spec => []NoEmptyInner
  <1>1. IInv => NoEmptyInner
    BY DEF IInv, Filled, NoEmptyInner
  <1> QED
    BY <1>1, Invariance, PTL

-----------------------------------------------------------------------------
(* The store implements RecordStore. *)

LEMMA SameOperators ==
    /\ Abstract!Record = Record
    /\ \A R, r : Abstract!AddRec(R, r) = AddRec(R, r)
    /\ \A R, r : Abstract!RemoveRec(R, r) = RemoveRec(R, r)
    /\ \A R : Abstract!UniqueKeys(R) <=> UniqueKeys(R)
    /\ \A R, t, extra : Abstract!ExpiredIn(R, t, extra) = ExpiredIn(R, t, extra)
  BY DEF Record, Abstract!Record,
         AddRec, Abstract!AddRec, RemoveRec, Abstract!RemoveRec,
         UniqueKeys, Abstract!UniqueKeys, SameKey, Abstract!SameKey,
         ExpiredIn, Abstract!ExpiredIn, Expired, Abstract!Expired,
         ZeroTime, Abstract!ZeroTime

\* A step the abstract store does not see.
Unseen == UNCHANGED <<now, AbsRecords, AbsSweeping>>

LEMMA AbstractInit == Init => Abstract!Init
  <1> SUFFICES ASSUME Init PROVE Abstract!Init
    OBVIOUS
  <1>1. now \in Nat
    BY MaxTimeAssumption DEF Init
  <1>2. AbsRecords = {}
    BY ViewEmpty DEF Init, AbsRecords, Idle
  <1>3. AbsSweeping = Abstract!NotSweeping
    BY DEF Init, AbsSweeping, Idle, Abstract!NotSweeping
  <1> QED
    BY <1>1, <1>2, <1>3 DEF Abstract!Init

LEMMA AbstractTick == Tick => Abstract!Tick
  BY DEF Tick, Abstract!Tick, AbsRecords, AbsSweeping

\* When mu is free the abstract records are those of the first index.
LEMMA FreeRecords ==
    Free => AbsRecords = View(byDomain) /\ AbsSweeping = Abstract!NotSweeping
  <1> SUFFICES ASSUME Free
               PROVE  AbsRecords = View(byDomain) /\ AbsSweeping = Abstract!NotSweeping
    OBVIOUS
  <1>1. call.op = "none" /\ call.start = 0 /\ call.extra = 0
    BY DEF Free, Idle
  <1> QED
    BY <1>1 DEF AbsRecords, AbsSweeping, Abstract!NotSweeping

LEMMA AbstractAdd == ASSUME NEW r \in Record, Add(r) PROVE Abstract!Add(r)
  <1>1. AbsRecords = View(byDomain) /\ AbsSweeping = Abstract!NotSweeping
    BY FreeRecords DEF Add, Lock
  <1>2. /\ call' = [op |-> "add", todo |-> {}, half |-> {r}, start |-> 0, extra |-> 0]
        /\ byDomain' = Set(byDomain, r.domain, r.ip, r) /\ now' = now
    BY DEF Add, Lock, Held, Idle
  <1>3. AbsRecords' = View(byDomain') /\ AbsSweeping' = Abstract!NotSweeping
    BY <1>2 DEF AbsRecords, AbsSweeping, Abstract!NotSweeping
  <1> QED
    BY <1>1, <1>2, <1>3, ViewSet, SameOperators DEF Abstract!Add, Abstract!NotSweeping

LEMMA AbstractRemove == ASSUME NEW r \in Record, Remove(r) PROVE Abstract!Remove(r)
  <1>1. AbsRecords = View(byDomain) /\ AbsSweeping = Abstract!NotSweeping
    BY FreeRecords DEF Remove, Lock
  <1>2. /\ call' = [op |-> "remove", todo |-> {}, half |-> {r}, start |-> 0, extra |-> 0]
        /\ byDomain' = RemoveKey(byDomain, r.domain, r.ip) /\ now' = now
    BY DEF Remove, Lock, Held, Idle
  <1>3. AbsRecords' = View(byDomain') /\ AbsSweeping' = Abstract!NotSweeping
    BY <1>2 DEF AbsRecords, AbsSweeping, Abstract!NotSweeping
  <1> QED
    BY <1>1, <1>2, <1>3, ViewRemove, SameOperators
       DEF Abstract!Remove, Abstract!NotSweeping

LEMMA AbstractFill ==
    ASSUME NEW R \in SUBSET Record, UniqueKeys(R), Fill(R) PROVE Abstract!Fill
  <1>1. AbsSweeping = Abstract!NotSweeping
    BY FreeRecords DEF Fill, Lock
  <1>2. /\ call' = [op |-> "fill", todo |-> R, half |-> {}, start |-> 0, extra |-> 0]
        /\ byDomain' = EmptyMap /\ now' = now
    BY DEF Fill, Lock, Held, Idle
  <1>3. AbsRecords' = R /\ AbsSweeping' = Abstract!NotSweeping
    BY <1>2, ViewEmpty DEF AbsRecords, AbsSweeping, Abstract!NotSweeping
  <1> QED
    BY <1>1, <1>2, <1>3, SameOperators DEF Abstract!Fill, Abstract!NotSweeping

LEMMA AbstractStart ==
    ASSUME NEW extra \in Extra, RemoveExpired(extra)
    PROVE  Abstract!StartRemoveExpired(extra)
  <1>1. AbsRecords = View(byDomain) /\ AbsSweeping = Abstract!NotSweeping
    BY FreeRecords DEF RemoveExpired, Lock
  <1>2. /\ call' = [op |-> "sweep", todo |-> View(byDomain), half |-> {},
                    start |-> now, extra |-> extra]
        /\ before' = View(byDomain) /\ now' = now
    BY DEF RemoveExpired, Lock, Held, Idle
  <1>3. /\ AbsRecords' = View(byDomain)
        /\ AbsSweeping' = [active |-> TRUE, start |-> now, extra |-> extra]
    BY <1>2 DEF AbsRecords, AbsSweeping
  <1> QED
    BY <1>1, <1>2, <1>3 DEF Abstract!StartRemoveExpired, Abstract!NotSweeping

LEMMA AbstractFillRecord == ASSUME IInv, FillRecord PROVE Unseen
  <1>1. PICK r \in call.todo : /\ byDomain' = Set(byDomain, r.domain, r.ip, r)
                               /\ call' = [call EXCEPT !.todo = @ \ {r}, !.half = {r}]
    BY DEF FillRecord
  <1>2. call \in Call /\ call.op = "fill" /\ now' = now
    BY DEF FillRecord, IInv, TypeOK, Call
  <1>3. /\ call'.op = "fill" /\ call'.todo = call.todo \ {r}
        /\ call'.start = call.start /\ call'.extra = call.extra
    BY <1>1, <1>2 DEF Call
  <1> QED
    BY <1>1, <1>2, <1>3, FillKeeps DEF Unseen, AbsRecords, AbsSweeping

LEMMA AbstractSweepRecord == ASSUME IInv, SweepRecord PROVE Unseen
  <1>1. call \in Call /\ call.op = "sweep" /\ UNCHANGED <<now, before>>
    BY DEF SweepRecord, IInv, TypeOK, Call
  <1>2. call'.op = "sweep" /\ call'.start = call.start /\ call'.extra = call.extra
    BY <1>1 DEF SweepRecord, Call
  <1> QED
    BY <1>1, <1>2 DEF Unseen, AbsRecords, AbsSweeping

LEMMA AbstractSecondIndex == ASSUME IInv, SecondIndex PROVE Unseen
  <1>1. call \in Call /\ UNCHANGED <<now, byDomain, before>>
    BY DEF SecondIndex, IInv, TypeOK, Call
  <1>2. /\ call'.op = call.op /\ call'.todo = call.todo
        /\ call'.start = call.start /\ call'.extra = call.extra
    BY <1>1 DEF SecondIndex, Call
  <1> QED
    BY <1>1, <1>2 DEF Unseen, AbsRecords, AbsSweeping

LEMMA AbstractReturn ==
    ASSUME IInv, Return PROVE Abstract!EndRemoveExpired \/ Unseen
  <1>1. /\ call' = Idle /\ call.todo = {} /\ UNCHANGED <<now, byDomain>>
        /\ call \in Call
    BY DEF Return, IInv, TypeOK, Call
  <1>2. AbsRecords' = View(byDomain) /\ AbsSweeping' = Abstract!NotSweeping
    BY <1>1 DEF AbsRecords, AbsSweeping, Idle, Abstract!NotSweeping
  <1>3. CASE call.op = "sweep"
    <2>1. /\ AbsRecords = before
          /\ AbsSweeping = [active |-> TRUE, start |-> call.start,
                            extra |-> call.extra]
      BY <1>3 DEF AbsRecords, AbsSweeping
    <2>2. /\ View(byDomain) \subseteq before
          /\ before \ View(byDomain) \subseteq ExpiredIn(before, now, call.extra)
          /\ ExpiredIn(before, call.start, call.extra) \cap View(byDomain) = {}
      BY <1>1, <1>3 DEF IInv, SweepOK
    <2>3. before \ ExpiredIn(before, now, call.extra) \subseteq View(byDomain)
      BY <2>2
    <2> QED
      BY <1>1, <1>2, <2>1, <2>2, <2>3, SameOperators DEF Abstract!EndRemoveExpired
  <1>4. CASE call.op # "sweep"
    <2>1. AbsRecords = View(byDomain)
      BY <1>1, <1>4 DEF AbsRecords
    <2>2. call.start = 0 /\ call.extra = 0
      BY <1>4 DEF IInv, SweepOK
    <2> QED
      BY <1>1, <1>2, <1>4, <2>1, <2>2 DEF Unseen, AbsSweeping, Abstract!NotSweeping
  <1> QED
    BY <1>3, <1>4

LEMMA AbstractNext == IInv /\ [Next]_vars => [Abstract!Next]_(Abstract!vars)
  <1> SUFFICES ASSUME IInv, [Next]_vars PROVE Abstract!Next \/ Unseen
    BY DEF Unseen, Abstract!vars
  <1>1. CASE Tick
    BY <1>1, AbstractTick DEF Abstract!Next
  <1>2. ASSUME NEW r \in Record, Add(r) \/ Remove(r) PROVE Abstract!Next
    BY <1>2, AbstractAdd, AbstractRemove, SameOperators DEF Abstract!Next
  <1>3. ASSUME NEW R \in SUBSET Record, UniqueKeys(R), Fill(R) PROVE Abstract!Next
    BY <1>3, AbstractFill DEF Abstract!Next
  <1>4. ASSUME NEW extra \in Extra, RemoveExpired(extra) PROVE Abstract!Next
    BY <1>4, AbstractStart DEF Abstract!Next
  <1>5. CASE FillRecord \/ SweepRecord \/ SecondIndex
    BY <1>5, AbstractFillRecord, AbstractSweepRecord, AbstractSecondIndex
  <1>6. CASE Return
    BY <1>6, AbstractReturn DEF Abstract!Next
  <1>7. CASE UNCHANGED vars
    BY <1>7 DEF vars, Unseen, AbsRecords, AbsSweeping
  <1> QED
    BY <1>1, <1>2, <1>3, <1>4, <1>5, <1>6, <1>7 DEF Next

\* Every behaviour of the two indexes under their mutex is one of a set of
\* records on which Add, Remove and fill are atomic, and RemoveExpired removes
\* at least what had expired when it began and at most what has when it ends.
THEOREM Refinement == Spec => ImplementsRecordStore
  BY Invariance, AbstractInit, AbstractNext, PTL
     DEF Spec, ImplementsRecordStore, Abstract!Spec
=============================================================================
