----------------------------- MODULE MCIPRoutes -----------------------------
(***************************************************************************)
(* Instances of IPRoutes.  d2 is a name under d1; no configuration routes  *)
(* d3.  The host moves from one interface to the other with the            *)
(* configuration, and in cfgA and cfgC d2 matches both, so that two routes *)
(* compete for its address and LookupHost may answer either way.           *)
(*                                                                         *)
(* cfgA has a static network that another program may claim as well, cfgC  *)
(* a static route to the address that is also routed dynamically.          *)
(***************************************************************************)
EXTENDS IPRoutes, DNSResponse, TLC

CONSTANTS d1, d2, d3, i1, i2, j1, j2

MCDomain == {d1, d2, d3}
OneIP == {1}
TwoIPs == {1, 2}
MCPrefix == {100}
MCIface == {i1, i2}
OneResolver == {j1}
TwoResolvers == {j1, j2}
AnyResolver == Permutations(TwoResolvers)
MCSubDomain == {<<d2, d1>>}
MCExpiry == 0 .. 9

Hosts(h1, h2) == [i \in Iface |-> IF i = i1 THEN h1 ELSE h2]

cfgA == [hosts |-> Hosts({d1}, {d2}), static |-> {RouteOf(i1, 100)}, timeout |-> 0]
cfgB == [hosts |-> Hosts({}, {d1}), static |-> {}, timeout |-> 1]
cfgC == [hosts |-> Hosts({d1}, {d2}), static |-> {RouteOf(i2, 1)}, timeout |-> 0]

LifecycleConfigs == {cfgA, cfgB}
LiveConfigs == {cfgB, cfgC}

A(name, ip, ttl) == [type |-> "A", name |-> name, data |-> ip, ttl |-> ttl]
Alias(name, target, ttl) ==
    [type |-> "CNAME", name |-> name, data |-> target, ttl |-> ttl]

\* What a resolution of d makes of an answer section.
Response(d, rrs) == [domain |-> d, chain |-> Chain(d, rrs),
                     ips |-> Addresses(d, rrs), ttl |-> MinTTL(d, rrs)]

\* Names that share an address.
LifecycleAnswers == {Response(d1, <<A(d1, 1, 0)>>),
                     Response(d2, <<Alias(d2, d1, 1), A(d1, 1, 2)>>)}
LiveAnswers == {Response(d2, <<Alias(d2, d1, 2), A(d1, 1, 0)>>),
                Response(d3, <<A(d3, 2, 1), A(d3, 1, 1)>>)}

\* At most q queries, u updates, f faults, e events and r restarts.
UpTo(q, u, f, e, r) ==
    [queries : 0 .. q, updates : 0 .. u, faults : 0 .. f, events : 0 .. e,
     restarts : 0 .. r]

\* Two resolutions with a restart (which may bring another configuration)
\* before, between or after them; or one with any two of failure, event and
\* restart; or one with an update.
LifecycleBudget ==
    {b \in UpTo(2, 1, 1, 1, 1) :
        LET disturbances == b.faults + b.events + b.restarts IN
        \/ b.updates = 0 /\ disturbances = b.restarts
        \/ b.updates = 0 /\ b.queries <= 1 /\ disturbances <= 2
        \/ b.queries <= 1 /\ disturbances = 0}

\* Any two different ones.
LiveBudget ==
    {b \in UpTo(1, 1, 1, 1, 1) :
        b.queries + b.updates + b.faults + b.events + b.restarts <= 2}

Undisturbed == UpTo(0, 0, 0, 0, 0)

NoRoutes == {}
ForeignNet == {RouteOf(i2, 100)}
ZeroNet == {100}
=============================================================================
