---------------------------- MODULE RecordStore -----------------------------
(***************************************************************************)
(* What DNSStore promises: a set of records, at most one per key, on which *)
(* Add, Remove and fill are atomic.  RemoveExpired reads the clock once    *)
(* per record, so it is not an atomic snapshot: it removes at least what   *)
(* had expired when it took the lock and at most what has expired when it  *)
(* releases it.                                                            *)
(***************************************************************************)
EXTENDS DNSRecords

CONSTANT Extra    \* the values of extraTTL (route_timeout) in use

VARIABLES now,      \* the wall clock
          records,  \* the set of records
          sweeping  \* RemoveExpired under way: when it began, its extraTTL

vars == <<now, records, sweeping>>

NotSweeping == [active |-> FALSE, start |-> 0, extra |-> 0]

Init == /\ now \in Nat
        /\ records = {}
        /\ sweeping = NotSweeping

Tick == now' = now + 1 /\ UNCHANGED <<records, sweeping>>

Add(r) == /\ ~sweeping.active
          /\ records' = AddRec(records, r)
          /\ UNCHANGED <<now, sweeping>>

Remove(r) == /\ ~sweeping.active
             /\ records' = RemoveRec(records, r)
             /\ UNCHANGED <<now, sweeping>>

Fill == /\ ~sweeping.active
        /\ records' \in SUBSET Record
        /\ UniqueKeys(records')
        /\ UNCHANGED <<now, sweeping>>

StartRemoveExpired(extra) ==
    /\ ~sweeping.active
    /\ sweeping' = [active |-> TRUE, start |-> now, extra |-> extra]
    /\ UNCHANGED <<now, records>>

EndRemoveExpired ==
    /\ sweeping.active
    /\ records' \subseteq records
    /\ ExpiredIn(records, sweeping.start, sweeping.extra) \cap records' = {}
    /\ records \ ExpiredIn(records, now, sweeping.extra) \subseteq records'
    /\ sweeping' = NotSweeping
    /\ UNCHANGED now

Next == \/ Tick
        \/ \E r \in Record : Add(r) \/ Remove(r)
        \/ Fill
        \/ \E extra \in Extra : StartRemoveExpired(extra)
        \/ EndRemoveExpired

Spec == Init /\ [][Next]_vars
=============================================================================
