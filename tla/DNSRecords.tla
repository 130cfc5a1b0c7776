----------------------------- MODULE DNSRecords -----------------------------
(***************************************************************************)
(* The values the DNS store holds (DNSRecord of types.go) and what its     *)
(* operations do to a set of them.  A record is identified by its          *)
(* DNSRecordKey, the pair (IP, Domain), and carries the time it expires.   *)
(* Instants are naturals; a record loaded from a dump written by hand may  *)
(* have the zero time, which never expires.                                *)
(***************************************************************************)
EXTENDS Integers

CONSTANTS Domain, \* normalized domain names
          IP,     \* host addresses (IPv4 with prefix 32), numbers: they are sorted
          Expiry  \* the instants at which a record may expire

ASSUME IPAssumption == IP \subseteq Nat
ASSUME ExpiryAssumption == Expiry \subseteq Nat

ZeroTime == 0

Record == [ip : IP, domain : Domain, expires : Expiry]

SameKey(r, s) == r.ip = s.ip /\ r.domain = s.domain

\* DNSRecord.Expired at the instant t: the record outlives Expires by extra,
\* and the comparison is strict.
Expired(r, t, extra) == r.expires # ZeroTime /\ t > r.expires + extra

ExpiredIn(R, t, extra) == {r \in R : Expired(r, t, extra)}

\* A later record replaces the one with the same key, whatever its expiry.
AddRec(R, r) == {s \in R : ~SameKey(s, r)} \cup {r}

RemoveRec(R, r) == {s \in R : ~SameKey(s, r)}

LookupIP(R, ip) == {r \in R : r.ip = ip}

\* At most one record per key.
UniqueKeys(R) == \A r, s \in R : SameKey(r, s) => r = s
=============================================================================
