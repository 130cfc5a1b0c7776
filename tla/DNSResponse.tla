---------------------------- MODULE DNSResponse -----------------------------
(***************************************************************************)
(* What the routing service makes of the answer section of a type A        *)
(* response (processTypeAResponse in service.go): a sequence of resource   *)
(* records [type, name, data, ttl], where data is the address of an A      *)
(* record or the target of a CNAME record.                                 *)
(***************************************************************************)
EXTENDS Integers, Sequences, FiniteSetsExt

\* The records of one type of a name.
Of(rrs, type, n) == {i \in DOMAIN rrs : rrs[i].type = type /\ rrs[i].name = n}

\* The map cnames: of several aliases of a name the last one counts.
CNAME(rrs, n) == rrs[Max(Of(rrs, "CNAME", n))]

\* The loop over the chain: where it is after k aliases, at a name that has
\* no alias or was visited before it stays.
WalkFrom(q, rrs) ==
    LET w[k \in 0 .. Len(rrs)] ==
          IF k = 0 THEN [name |-> q, visited |-> {}]
          ELSE LET at == w[k - 1] IN
               IF at.name \in at.visited \/ Of(rrs, "CNAME", at.name) = {} THEN at
               ELSE [name |-> CNAME(rrs, at.name).data,
                     visited |-> at.visited \cup {at.name}]
    IN w[Len(rrs)]

\* The names looked up in the configuration.
Chain(q, rrs) == LET w == WalkFrom(q, rrs) IN w.visited \cup {w.name}

\* The addresses of the name at the end of the chain; none if it is a loop.
Addresses(q, rrs) ==
    LET w == WalkFrom(q, rrs) IN
    IF w.name \in w.visited THEN {} ELSE {rrs[i].data : i \in Of(rrs, "A", w.name)}

\* The smallest TTL of all A records and of the aliases of the chain.
MinTTL(q, rrs) ==
    Min({rrs[i].ttl : i \in {k \in DOMAIN rrs : rrs[k].type = "A"}}
        \cup {CNAME(rrs, n).ttl : n \in WalkFrom(q, rrs).visited})

\* DNSQuery.TTL: at least one second.
QueryTTL(q, rrs) == Max({1, MinTTL(q, rrs)})
-----------------------------------------------------------------------------
\* What the walk is meant to find: of the names in every set that holds q and
\* the target of each alias of its members, the addresses of those that are
\* no alias themselves.
Names(rrs) == {rrs[i].name : i \in DOMAIN rrs}

Reachable(q, rrs) ==
    LET names == Names(rrs) \cup {q}
        closed(S) == /\ q \in S
                     /\ \A i \in DOMAIN rrs :
                           rrs[i].type = "CNAME" /\ rrs[i].name \in S
                              => rrs[i].data \in S \/ rrs[i].data \notin names
    IN {n \in names : \A S \in SUBSET names : closed(S) => n \in S}

AddressesOf(q, rrs) ==
    {rrs[i].data : i \in {k \in DOMAIN rrs :
        /\ rrs[k].type = "A"
        /\ rrs[k].name \in Reachable(q, rrs)
        /\ Of(rrs, "CNAME", rrs[k].name) = {}}}
=============================================================================
