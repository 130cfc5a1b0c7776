----------------------------- MODULE MCResolver -----------------------------
(* Instances of Resolver for TLC. *)
EXTENDS Resolver, TLC

CONSTANTS c1, c2, c3, a, b, aaaa, many, v1, v2

Clients == {c1, c2, c3}

Names2 == {a, b}

A(name, addr, ttl) == [type |-> "A", name |-> name, data |-> addr, ttl |-> ttl]
Alias(name, target, ttl) ==
    [type |-> "CNAME", name |-> name, data |-> target, ttl |-> ttl]

\* An address of TTL 2; an address of TTL 0 behind an alias of TTL 2, which
\* the cache keeps for 2 and the store for 1, and that of a name which is an
\* alias itself; an address of TTL 1 behind an alias of TTL 3.
Replies ==
    {<<A(a, v1, 2)>>,
     <<A(b, v2, 0), A(a, v1, 2), Alias(a, b, 2)>>,
     <<Alias(a, b, 3), A(b, v2, 1)>>}

\* An address, and nothing.
Addresses1 == {<<A(a, v1, 1)>>, <<>>}

\* In every answer section of three records, aliases and loops of them
\* included, the walk finds the addresses it is meant to find.
ASSUME WalkFindsAddresses ==
    \A rrs \in [1 .. 3 -> {A(n, v, 1) : n \in {a, b, many}, v \in {v1, v2}}
                          \cup {Alias(n, m, 1) : n, m \in {a, b, many}}] :
        (\A n \in {a, b, many} : Cardinality(Of(rrs, "CNAME", n)) <= 1)
            => Addresses(a, rrs) = AddressesOf(a, rrs)

Symm == Permutations(Clients)
=============================================================================
