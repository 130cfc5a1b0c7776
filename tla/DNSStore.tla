------------------------------ MODULE DNSStore ------------------------------
(***************************************************************************)
(* The DNS store of dns_store.go: the same records indexed twice, by       *)
(* domain and by address, in two MultiMaps (maps of maps) under one mutex. *)
(* Every write of a map is a step of its own; the mutex keeps two          *)
(* operations apart but not an operation and the clock.  An action is      *)
(* named after the statement it models.                                    *)
(***************************************************************************)
EXTENDS DNSRecords

CONSTANTS Extra,   \* the values of extraTTL (route_timeout) in use
          MaxTime  \* bound on the clock

ASSUME ExtraAssumption == Extra \subseteq Nat
ASSUME MaxTimeAssumption == MaxTime \in Nat

VARIABLES now,       \* the wall clock
          byDomain,  \* MultiMap[domain][ip]
          byIP,      \* MultiMap[ip][domain]
          call,      \* the operation that holds mu, and where it is
          before     \* history: the records when RemoveExpired took mu

vars == <<now, byDomain, byIP, call, before>>
-----------------------------------------------------------------------------
(* MultiMap: a partial function to partial functions. *)

EmptyMap == [k \in {} |-> {}]

Has(m, k1, k2) == k1 \in DOMAIN m /\ k2 \in DOMAIN m[k1]

Put(f, k, v) == [x \in DOMAIN f \cup {k} |-> IF x = k THEN v ELSE f[x]]

Delete(f, k) == [x \in DOMAIN f \ {k} |-> f[x]]

Set(m, k1, k2, v) ==
    IF k1 \in DOMAIN m THEN Put(m, k1, Put(m[k1], k2, v))
                       ELSE Put(m, k1, [x \in {k2} |-> v])

\* Mutant: Remove leaves an empty inner map behind.
RemoveKeepEmpty(m, k1, k2) ==
    IF Has(m, k1, k2) THEN Put(m, k1, Delete(m[k1], k2)) ELSE m

\* The inner map is dropped with its last entry.
RemoveKey(m, k1, k2) ==
    IF Has(m, k1, k2)
    THEN IF DOMAIN m[k1] = {k2} THEN Delete(m, k1)
                                ELSE Put(m, k1, Delete(m[k1], k2))
    ELSE m

\* The records iterate() yields from byDomain.
View(m) == {r \in Record : Has(m, r.domain, r.ip) /\ m[r.domain][r.ip] = r}
-----------------------------------------------------------------------------
(* The mutex.  op is what the holder runs; todo what its loop has yet to   *)
(* visit; half the record written to byDomain but not yet to byIP.         *)

Idle == [op |-> "none", todo |-> {}, half |-> {}, start |-> 0, extra |-> 0]

Held(op) == [Idle EXCEPT !.op = op]

Free == call = Idle

Lock(c) == Free /\ call' = c

Init == /\ now \in 0 .. MaxTime
        /\ byDomain = EmptyMap
        /\ byIP = EmptyMap
        /\ call = Idle
        /\ before = {}

Tick == /\ now < MaxTime
        /\ now' = now + 1
        /\ UNCHANGED <<byDomain, byIP, call, before>>

\* Add: Lock, then the first statement of add.
Add(r) == /\ Lock([Held("add") EXCEPT !.half = {r}])
          /\ byDomain' = Set(byDomain, r.domain, r.ip, r)
          /\ UNCHANGED <<now, byIP, before>>

\* Remove: Lock, then the first statement of remove.  The argument need not
\* be in the store, nor have the expiry the store has.
Remove(r) == /\ Lock([Held("remove") EXCEPT !.half = {r}])
             /\ byDomain' = RemoveKey(byDomain, r.domain, r.ip)
             /\ UNCHANGED <<now, byIP, before>>

\* fill: Lock and clear both maps; the loop follows.
Fill(R) == /\ Lock([Held("fill") EXCEPT !.todo = R])
           /\ byDomain' = EmptyMap
           /\ byIP' = EmptyMap
           /\ UNCHANGED <<now, before>>

FillRecord == /\ call.op = "fill" /\ call.half = {}
              /\ \E r \in call.todo :
                    /\ byDomain' = Set(byDomain, r.domain, r.ip, r)
                    /\ call' = [call EXCEPT !.todo = @ \ {r}, !.half = {r}]
              /\ UNCHANGED <<now, byIP, before>>

\* RemoveExpired: Lock; the loop ranges over the entries of byDomain, in any
\* order, while its body removes entries already visited.
RemoveExpired(extra) ==
    /\ Lock([Held("sweep") EXCEPT !.todo = View(byDomain), !.start = now,
                                  !.extra = extra])
    /\ before' = View(byDomain)
    /\ UNCHANGED <<now, byDomain, byIP>>

\* Mutant: the sweep tests Expired without the extra time to live.
ExpiredEarly(r) == Expired(r, now, 0)

SweepExpired(r) == Expired(r, now, call.extra)

SweepRecord ==
    /\ call.op = "sweep" /\ call.half = {}
    /\ \E r \in call.todo :
          IF SweepExpired(r)
          THEN /\ byDomain' = RemoveKey(byDomain, r.domain, r.ip)
               /\ call' = [call EXCEPT !.todo = @ \ {r}, !.half = {r}]
          ELSE /\ call' = [call EXCEPT !.todo = @ \ {r}]
               /\ UNCHANGED byDomain
    /\ UNCHANGED <<now, byIP, before>>

\* Mutant: add writes the second index only for an address it has not seen.
IndexIPOnce(r) == byIP' = IF r.ip \in DOMAIN byIP
                          THEN byIP ELSE Set(byIP, r.ip, r.domain, r)

\* Mutant: the keys of the second index are swapped.
IndexIPSwapped(r) == byIP' = Set(byIP, r.domain, r.ip, r)

\* The second statement of add.
IndexIP(r) == byIP' = Set(byIP, r.ip, r.domain, r)

\* The second statement of remove.
UnindexIP(r) == byIP' = RemoveKey(byIP, r.ip, r.domain)

SecondIndex ==
    /\ \E r \in call.half : IF call.op \in {"add", "fill"} THEN IndexIP(r)
                                                           ELSE UnindexIP(r)
    /\ call' = [call EXCEPT !.half = {}]
    /\ UNCHANGED <<now, byDomain, before>>

\* The deferred Unlock.
Return == /\ ~Free /\ call.half = {} /\ call.todo = {}
          /\ call' = Idle
          /\ before' = {}
          /\ UNCHANGED <<now, byDomain, byIP>>

Next == \/ Tick
        \/ \E r \in Record : Add(r) \/ Remove(r)
        \/ \E R \in SUBSET Record : UniqueKeys(R) /\ Fill(R)
        \/ \E extra \in Extra : RemoveExpired(extra)
        \/ FillRecord \/ SweepRecord \/ SecondIndex \/ Return

Spec == Init /\ [][Next]_vars
-----------------------------------------------------------------------------
IsMultiMap(m, K1, K2) ==
    /\ m = [k \in DOMAIN m |-> m[k]]
    /\ DOMAIN m \subseteq K1
    /\ \A k \in DOMAIN m : /\ m[k] \in [DOMAIN m[k] -> Record]
                          /\ DOMAIN m[k] \subseteq K2

TypeOK ==
    /\ now \in 0 .. MaxTime
    /\ IsMultiMap(byDomain, Domain, IP)
    /\ IsMultiMap(byIP, IP, Domain)
    /\ call \in [op : {"none", "add", "remove", "fill", "sweep"},
                 todo : SUBSET Record, half : SUBSET Record,
                 start : 0 .. MaxTime, extra : Extra \cup {0}]
    /\ before \in SUBSET Record

\* The two indexes agree on a key: both have it, with the same record, which
\* is filed under its own domain and address; or neither has it.
Agree(d, i) ==
    /\ Has(byDomain, d, i) <=> Has(byIP, i, d)
    /\ Has(byDomain, d, i) => /\ byDomain[d][i] = byIP[i][d]
                              /\ byDomain[d][i].domain = d
                              /\ byDomain[d][i].ip = i

\* Whenever mu is free, LookupIP (which reads byIP) and Records (which reads
\* byDomain) tell the same story, after any sequence of add, remove, fill and
\* RemoveExpired, though the latter deletes from the map it ranges over.
IndexesAgree == Free => \A d \in Domain, i \in IP : Agree(d, i)

\* MultiMap.Remove drops an inner map with its last entry: the number of
\* domains and addresses held is the number of those with records, so what
\* RemoveExpired has swept leaves nothing behind.
NoEmptyInner == /\ \A d \in DOMAIN byDomain : DOMAIN byDomain[d] # {}
                /\ \A i \in DOMAIN byIP : DOMAIN byIP[i] # {}
-----------------------------------------------------------------------------
(* The store implements RecordStore: Add, Remove and fill take effect when *)
(* they take mu, RemoveExpired when it releases it.                        *)

AbsRecords == IF call.op = "sweep" THEN before
              ELSE IF call.op = "fill" THEN View(byDomain) \cup call.todo
              ELSE View(byDomain)

AbsSweeping == [active |-> call.op = "sweep", start |-> call.start,
                extra |-> call.extra]

Abstract == INSTANCE RecordStore WITH records <- AbsRecords,
                                      sweeping <- AbsSweeping

\* Every behaviour of the two-index store is one of the abstract set of
\* records: RemoveExpired removes at least what had expired when it took the
\* lock and nothing that has not expired when it returns.
ImplementsRecordStore == Abstract!Spec
=============================================================================
