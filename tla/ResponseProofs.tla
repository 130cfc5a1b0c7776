--------------------------- MODULE ResponseProofs ---------------------------
(***************************************************************************)
(* The loop of processTypeAResponse finds, in an answer section of any     *)
(* length, the addresses it is meant to find (AddressesFound), and gives   *)
(* them a TTL of at least one second (QueryTTLPositive).                   *)
(*                                                                         *)
(* Both speak of a recursive function, by induction (NatInd).              *)
(***************************************************************************)
EXTENDS DNSResponse, NatLemmas

-----------------------------------------------------------------------------
(* The walk as a function. *)

Start(q) == [name |-> q, visited |-> {}]

Stays(rrs, at) == at.name \in at.visited \/ Of(rrs, "CNAME", at.name) = {}

Move(rrs, at) ==
    IF Stays(rrs, at) THEN at
    ELSE [name |-> CNAME(rrs, at.name).data,
          visited |-> at.visited \cup {at.name}]

IsWalk(w, n, q, rrs) ==
    w = [k \in 0 .. n |-> IF k = 0 THEN Start(q) ELSE Move(rrs, w[k - 1])]

LEMMA WalkExists ==
    ASSUME NEW q, NEW rrs
    PROVE  \A n \in Nat : \E w : IsWalk(w, n, q, rrs)
<1> DEFINE S == {n \in Nat : \E w : IsWalk(w, n, q, rrs)}
<1>1. 0 \in S
  <2> DEFINE w == [k \in 0 .. 0 |-> Start(q)]
  <2>1. w = [k \in 0 .. 0 |-> IF k = 0 THEN Start(q) ELSE Move(rrs, w[k - 1])]
    OBVIOUS
  <2> QED
    BY <2>1 DEF IsWalk
<1>2. ASSUME NEW n \in Nat, NEW w, IsWalk(w, n, q, rrs)
      PROVE  \E x : IsWalk(x, n + 1, q, rrs)
  <2> DEFINE x == [k \in 0 .. n + 1 |-> IF k <= n THEN w[k] ELSE Move(rrs, w[n])]
  <2>1. ASSUME NEW k \in 0 .. n + 1
        PROVE  x[k] = IF k = 0 THEN Start(q) ELSE Move(rrs, x[k - 1])
    <3>1. CASE k = 0
      BY <1>2, <3>1 DEF IsWalk
    <3>2. CASE k # 0 /\ k <= n
      <4>1. k \in 0 .. n /\ k - 1 \in 0 .. n /\ k - 1 \in 0 .. n + 1 /\ k - 1 <= n
        BY <3>2
      <4>2. w[k] = Move(rrs, w[k - 1])
        BY <1>2, <3>2, <4>1 DEF IsWalk
      <4> QED
        BY <3>2, <4>1, <4>2
    <3>3. CASE k = n + 1
      BY <3>3
    <3> QED
      BY <3>1, <3>2, <3>3
  <2>2. x = [k \in 0 .. n + 1 |-> IF k = 0 THEN Start(q) ELSE Move(rrs, x[k - 1])]
    BY <2>1
  <2> QED
    BY <2>2 DEF IsWalk
<1>3. \A n \in S \cap Nat : n + 1 \in S
  BY <1>2
<1>4. Nat \subseteq S
  <2> HIDE DEF S
  <2> QED
    BY <1>1, <1>3, NatInd
<1> QED
  BY <1>4

LEMMA WalkIs ==
    ASSUME NEW R, NEW q, NEW rrs \in Seq(R)
    PROVE  \E w : IsWalk(w, Len(rrs), q, rrs) /\ WalkFrom(q, rrs) = w[Len(rrs)]
<1> DEFINE w == CHOOSE w : IsWalk(w, Len(rrs), q, rrs)
<1>1. Len(rrs) \in Nat
  OBVIOUS
<1>2. IsWalk(w, Len(rrs), q, rrs)
  BY <1>1, WalkExists
<1>3. WalkFrom(q, rrs) = w[Len(rrs)]
  BY DEF WalkFrom, IsWalk, Move, Stays, Start
<1> QED
  BY <1>2, <1>3

-----------------------------------------------------------------------------
(* What holds all along the walk. *)

Aliases(rrs) == {n \in Names(rrs) : Of(rrs, "CNAME", n) # {}}

\* It has been at names with an alias only, q is the first of them, the alias
\* of each leads on to another, and the walk could not have avoided any of
\* them.  Unless it stays where it is, k names have been left after k aliases.
OnWay(q, rrs, k, at) ==
    /\ at.visited \subseteq Aliases(rrs)
    /\ q \in at.visited \cup {at.name}
    /\ \A n \in at.visited : CNAME(rrs, n).data \in at.visited \cup {at.name}
    /\ at.visited \cup ({at.name} \cap Names(rrs)) \subseteq Reachable(q, rrs)
    /\ Stays(rrs, at) \/ Cardinality(at.visited) = k

\* An alias of a name is one of the section's records.
LEMMA AliasIs ==
    ASSUME NEW R, NEW rrs \in Seq(R), NEW n, Of(rrs, "CNAME", n) # {}
    PROVE  \E i \in DOMAIN rrs : /\ rrs[i].type = "CNAME" /\ rrs[i].name = n
                                 /\ CNAME(rrs, n) = rrs[i]
<1> DEFINE S == Of(rrs, "CNAME", n)
<1>1. S \subseteq Nat /\ Len(rrs) \in Nat /\ \A i \in S : i <= Len(rrs)
  BY DEF Of
<1>2. Max(S) \in S
  <2> HIDE DEF S
  <2> QED
    BY <1>1, MaxOf DEF S
<1> QED
  BY <1>2 DEF CNAME, Of

LEMMA NamesFinite ==
    ASSUME NEW R, NEW rrs \in Seq(R)
    PROVE  /\ IsFiniteSet(Names(rrs)) /\ Cardinality(Names(rrs)) <= Len(rrs)
           /\ Cardinality(Names(rrs)) \in Nat
<1> DEFINE f == [i \in 1 .. Len(rrs) |-> rrs[i].name]
<1>1. f \in Surjection(1 .. Len(rrs), Names(rrs))
  <2>1. DOMAIN rrs = 1 .. Len(rrs)
    OBVIOUS
  <2>2. Names(rrs) = {rrs[i].name : i \in 1 .. Len(rrs)}
    BY <2>1 DEF Names
  <2>3. f \in [1 .. Len(rrs) -> Names(rrs)]
    BY <2>2
  <2>4. \A t \in Names(rrs) : \E s \in 1 .. Len(rrs) : f[s] = t
    BY <2>2
  <2> HIDE DEF f
  <2> QED
    BY <2>3, <2>4, Zenon DEF Surjection
<1>2. IsFiniteSet(1 .. Len(rrs)) /\ Cardinality(1 .. Len(rrs)) = Len(rrs)
  <2> DEFINE n == Len(rrs)
  <2>1. 1 \in Int /\ n \in Nat /\ n \in Int
    OBVIOUS
  <2> HIDE DEF n
  <2>2. Cardinality(1 .. n) = IF 1 > n THEN 0 ELSE n - 1 + 1
    BY <2>1, FS_Interval
  <2> QED
    BY <2>1, <2>2, FS_Interval DEF n
<1>3. IsFiniteSet(Names(rrs)) /\ Cardinality(Names(rrs)) <= Len(rrs)
  BY <1>1, <1>2, FS_Surjection
<1> QED
  BY <1>3, FS_CardinalityType

LEMMA StartOnWay ==
    ASSUME NEW q, NEW rrs
    PROVE  OnWay(q, rrs, 0, Start(q))
<1>1. {q} \cap Names(rrs) \subseteq Reachable(q, rrs)
  BY DEF Reachable
<1> QED
  BY <1>1, FS_EmptySet DEF OnWay, Start

LEMMA MoveOnWay ==
    ASSUME NEW R, NEW rrs \in Seq(R), NEW q, NEW k \in Nat, NEW at,
           OnWay(q, rrs, k, at)
    PROVE  OnWay(q, rrs, k + 1, Move(rrs, at))
<1>1. CASE Stays(rrs, at)
  BY <1>1 DEF OnWay, Move
<1>2. CASE ~ Stays(rrs, at)
  <2> DEFINE next == Move(rrs, at)
  <2>1. /\ at.name \notin at.visited /\ Of(rrs, "CNAME", at.name) # {}
        /\ next.name = CNAME(rrs, at.name).data
        /\ next.visited = at.visited \cup {at.name}
    BY <1>2 DEF Move, Stays
  <2> HIDE DEF next
  <2>2. PICK i \in DOMAIN rrs : /\ rrs[i].type = "CNAME" /\ rrs[i].name = at.name
                                /\ CNAME(rrs, at.name) = rrs[i]
    BY <2>1, AliasIs
  <2>3. at.name \in Aliases(rrs)
    BY <2>1, <2>2 DEF Aliases, Names
  <2>4. next.visited \subseteq Aliases(rrs)
    BY <2>1, <2>3 DEF OnWay
  <2>5. at.name \in Reachable(q, rrs)
    BY <2>3 DEF OnWay, Aliases
  <2>6. {next.name} \cap Names(rrs) \subseteq Reachable(q, rrs)
    BY <2>1, <2>2, <2>5 DEF Reachable
  <2>7. IsFiniteSet(at.visited)
    <3>1. at.visited \in SUBSET Names(rrs)
      BY DEF OnWay, Aliases
    <3> QED
      BY <3>1, NamesFinite, FS_Subset
  <2>8. Cardinality(next.visited) = k + 1
    BY <2>1, <2>7, FS_AddElement, <1>2 DEF OnWay
  <2> QED
    BY <2>1, <2>4, <2>5, <2>6, <2>8 DEF OnWay, next
<1> QED
  BY <1>1, <1>2

LEMMA WalkOnWay ==
    ASSUME NEW R, NEW rrs \in Seq(R), NEW q
    PROVE  OnWay(q, rrs, Len(rrs), WalkFrom(q, rrs))
<1>1. PICK w : IsWalk(w, Len(rrs), q, rrs) /\ WalkFrom(q, rrs) = w[Len(rrs)]
  BY WalkIs
<1> DEFINE S == {k \in Nat : k <= Len(rrs) => OnWay(q, rrs, k, w[k])}
<1>2. 0 \in S
  BY <1>1, StartOnWay DEF IsWalk
<1>3. ASSUME NEW k \in S, k + 1 <= Len(rrs)
      PROVE  OnWay(q, rrs, k + 1, w[k + 1])
  <2>1. k \in Nat /\ k <= Len(rrs) /\ OnWay(q, rrs, k, w[k])
    BY <1>3
  <2>2. w[k + 1] = Move(rrs, w[k])
    <3>1. k + 1 \in 0 .. Len(rrs) /\ k + 1 # 0 /\ (k + 1) - 1 = k
      BY <1>3, <2>1
    <3> QED
      BY <1>1, <3>1 DEF IsWalk
  <2> QED
    BY <2>1, <2>2, MoveOnWay
<1>4. \A k \in S \cap Nat : k + 1 \in S
  BY <1>3
<1>5. Nat \subseteq S
  <2> HIDE DEF S
  <2> QED
    BY <1>2, <1>4, NatInd
<1> QED
  BY <1>1, <1>5

\* After as many aliases as there are records the walk stays where it is.
LEMMA WalkStays ==
    ASSUME NEW R, NEW rrs \in Seq(R), NEW q
    PROVE  Stays(rrs, WalkFrom(q, rrs))
<1> DEFINE at == WalkFrom(q, rrs)
<1> SUFFICES ASSUME ~ Stays(rrs, at) PROVE FALSE
  OBVIOUS
<1>1. OnWay(q, rrs, Len(rrs), at)
  BY WalkOnWay
<1> HIDE DEF at
<1>2. at.visited \subseteq Names(rrs) /\ Cardinality(at.visited) = Len(rrs)
  BY <1>1 DEF OnWay, Aliases
<1>3. at.name \in Names(rrs) /\ at.name \notin at.visited
  <2>1. Of(rrs, "CNAME", at.name) # {} /\ at.name \notin at.visited
    BY DEF Stays
  <2> QED
    BY <2>1, AliasIs DEF Names
<1>4. IsFiniteSet(at.visited)
  BY <1>2, NamesFinite, FS_Subset
<1>5. Cardinality(at.visited \cup {at.name}) = Len(rrs) + 1
  BY <1>2, <1>3, <1>4, FS_AddElement
<1>6. at.visited \cup {at.name} \in SUBSET Names(rrs)
  BY <1>2, <1>3
<1>7. Cardinality(at.visited \cup {at.name}) <= Cardinality(Names(rrs))
  BY <1>6, NamesFinite, FS_Subset
<1>8. Len(rrs) \in Nat /\ Cardinality(Names(rrs)) <= Len(rrs)
      /\ Cardinality(Names(rrs)) \in Nat
  BY NamesFinite
<1> QED
  BY <1>5, <1>7, <1>8

\* The names that the question leads to are those the walk has been at.
LEMMA ReachableIs ==
    ASSUME NEW R, NEW rrs \in Seq(R), NEW q,
           \A n \in Names(rrs) : Cardinality(Of(rrs, "CNAME", n)) <= 1
    PROVE  Reachable(q, rrs) \subseteq
              WalkFrom(q, rrs).visited \cup {WalkFrom(q, rrs).name}
<1> DEFINE at == WalkFrom(q, rrs)
           names == Names(rrs) \cup {q}
           S == (at.visited \cup {at.name}) \cap names
<1>1. OnWay(q, rrs, Len(rrs), at) /\ Stays(rrs, at)
  BY WalkOnWay, WalkStays
<1> HIDE DEF at
<1>2. q \in S
  BY <1>1 DEF OnWay
<1>3. ASSUME NEW i \in DOMAIN rrs, rrs[i].type = "CNAME", rrs[i].name \in S
      PROVE  rrs[i].data \in S \/ rrs[i].data \notin names
  <2> DEFINE n == rrs[i].name
             O == Of(rrs, "CNAME", n)
  <2>1. i \in O /\ n \in Names(rrs)
    BY <1>3 DEF Of, Names
  <2>2. n \in at.visited
    BY <1>1, <1>3, <2>1 DEF Stays
  <2>3. PICK j \in DOMAIN rrs : /\ rrs[j].type = "CNAME" /\ rrs[j].name = n
                                /\ CNAME(rrs, n) = rrs[j]
    BY <2>1, AliasIs
  <2>4. j \in O
    BY <2>3 DEF Of
  <2>5. i = j
    <3>1. O \in SUBSET (1 .. Len(rrs)) /\ 1 \in Int /\ Len(rrs) \in Int
      BY DEF Of
    <3>2. IsFiniteSet(1 .. Len(rrs))
      BY <3>1, FS_Interval
    <3>3. IsFiniteSet(O) /\ Cardinality(O) <= 1
      BY <2>1, <3>1, <3>2, FS_Subset
    <3> HIDE DEF O
    <3>4. Cardinality(O) \in Nat
      BY <3>3, FS_CardinalityType
    <3>5. Cardinality(O) # 0
      BY <2>1, <3>3, FS_EmptySet
    <3>6. Cardinality(O) = 1
      BY <3>3, <3>4, <3>5
    <3>7. \E x : O = {x}
      BY <3>3, <3>6, FS_Singleton
    <3> QED
      BY <2>1, <2>4, <3>7
  <2>6. rrs[i].data \in at.visited \cup {at.name}
    BY <1>1, <2>2, <2>3, <2>5 DEF OnWay
  <2> QED
    BY <2>6
<1>4. S \in SUBSET names
  OBVIOUS
<1>5. Reachable(q, rrs) \subseteq S
  <2> HIDE DEF S
  <2> QED
    BY <1>2, <1>3, <1>4 DEF Reachable
<1> QED
  BY <1>5 DEF at

\* processTypeAResponse, service.go: the loop over the aliases of an answer,
\* of whatever length and with whatever loops among them, ends with the
\* addresses of the name the question leads to, and with none if the aliases
\* lead in a circle.  A name has at most one alias.
THEOREM AddressesFound ==
    ASSUME NEW R, NEW rrs \in Seq(R), NEW q,
           \A n \in Names(rrs) : Cardinality(Of(rrs, "CNAME", n)) <= 1
    PROVE  Addresses(q, rrs) = AddressesOf(q, rrs)
<1> DEFINE at == WalkFrom(q, rrs)
<1>1. /\ OnWay(q, rrs, Len(rrs), at) /\ Stays(rrs, at)
      /\ Reachable(q, rrs) \subseteq at.visited \cup {at.name}
  BY WalkOnWay, WalkStays, ReachableIs
<1>2. Addresses(q, rrs) =
         IF at.name \in at.visited THEN {}
         ELSE {rrs[i].data : i \in Of(rrs, "A", at.name)}
  BY DEF Addresses
<1> HIDE DEF at
<1>3. \A n \in at.visited : Of(rrs, "CNAME", n) # {}
  BY <1>1 DEF OnWay, Aliases
<1>4. CASE at.name \in at.visited
  <2>1. AddressesOf(q, rrs) = {}
    BY <1>1, <1>3, <1>4 DEF AddressesOf
  <2> QED
    BY <1>2, <1>4, <2>1
<1>5. CASE at.name \notin at.visited
  <2> DEFINE T == {k \in DOMAIN rrs : /\ rrs[k].type = "A"
                                      /\ rrs[k].name \in Reachable(q, rrs)
                                      /\ Of(rrs, "CNAME", rrs[k].name) = {}}
  <2>1. Of(rrs, "CNAME", at.name) = {}
    BY <1>1, <1>5 DEF Stays
  <2>2. ASSUME NEW k \in T PROVE k \in Of(rrs, "A", at.name)
    <3>1. rrs[k].name = at.name
      BY <1>1, <1>3
    <3> QED
      BY <3>1 DEF Of
  <2>3. ASSUME NEW k \in Of(rrs, "A", at.name) PROVE k \in T
    <3>1. k \in DOMAIN rrs /\ rrs[k].type = "A" /\ rrs[k].name = at.name
      BY DEF Of
    <3>2. at.name \in Reachable(q, rrs)
      BY <1>1, <3>1 DEF OnWay, Names
    <3> QED
      BY <2>1, <3>1, <3>2
  <2>4. T = Of(rrs, "A", at.name)
    BY <2>2, <2>3
  <2>5. AddressesOf(q, rrs) = {rrs[i].data : i \in T}
    BY DEF AddressesOf
  <2> QED
    BY <1>2, <1>5, <2>4, <2>5
<1> QED
  BY <1>4, <1>5

\* DNSQuery.TTL, types.go: a record that is stamped has a positive TTL,
\* however many zeros the answer has.
THEOREM QueryTTLPositive ==
    ASSUME NEW R, NEW rrs \in Seq(R), NEW q, Addresses(q, rrs) # {},
           \A i \in DOMAIN rrs : rrs[i].ttl \in Nat
    PROVE  QueryTTL(q, rrs) \in Nat /\ QueryTTL(q, rrs) >= 1
<1> DEFINE at == WalkFrom(q, rrs)
           As == {rrs[i].ttl : i \in {k \in DOMAIN rrs : rrs[k].type = "A"}}
           Cs == {CNAME(rrs, n).ttl : n \in at.visited}
<1>1. As # {} /\ As \subseteq Nat
  BY DEF Addresses, Of
<1>2. Cs \subseteq Nat
  <2>1. \A n \in at.visited : Of(rrs, "CNAME", n) # {}
    BY WalkOnWay DEF OnWay, Aliases
  <2> HIDE DEF at
  <2>2. \A n \in at.visited : CNAME(rrs, n).ttl \in Nat
    BY <2>1, AliasIs
  <2> QED
    BY <2>2
<1>3. MinTTL(q, rrs) = Min(As \cup Cs)
  BY DEF MinTTL
<1> HIDE DEF As, Cs
<1>4. MinTTL(q, rrs) \in Nat
  <2>1. As \cup Cs \subseteq Nat /\ As \cup Cs # {}
    BY <1>1, <1>2
  <2>2. Min(As \cup Cs) \in As \cup Cs
    BY <2>1, MinOf
  <2> QED
    BY <1>3, <2>1, <2>2
<1> QED
  BY <1>4, MaxPair DEF QueryTTL
=============================================================================
