----------------------------- MODULE MCDNSStore -----------------------------
(***************************************************************************)
(* Two domains sharing two addresses, so that an inner map of either index *)
(* has zero, one or two entries; records that never expire (zero time),    *)
(* that have expired and that have not; a route timeout of 0 and of 1.     *)
(***************************************************************************)
EXTENDS DNSStore

CONSTANTS d1, d2

MCDomain == {d1, d2}
MCIP == {1, 2}
MCExpiry == {ZeroTime, 1}
MCExtra == {0, 1}
=============================================================================
