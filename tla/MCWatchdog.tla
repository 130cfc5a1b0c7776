---------------------------- MODULE MCWatchdog -----------------------------
(***************************************************************************)
(* Two good contents of the configuration file, one that does not parse    *)
(* and one with an address that cannot be parsed.  Three runs of the       *)
(* script: the start at boot; another start, a stop or a restart; a stop   *)
(* or a restart; in place of any of them restart_watchdogs.sh may run.     *)
(***************************************************************************)
EXTENDS Watchdog

MCPid == 1 .. 3
MCStalePid == {1}
MCGood == {"a", "b"}
MCMalformed == {"malformed"}
MCBadAddress == {"address"}
BootThenAny == [i \in Script |-> CASE i = 1 -> {"start"}
                                   [] i = 2 -> {"start", "stop", "restart"}
                                   [] OTHER -> {"stop", "restart"}]
StartThenStop == [i \in Script |-> IF i = 1 THEN {"start"} ELSE {"stop"}]

\* What may still break OneInstance, NoOrphan or Recovers: they say nothing of
\* a behaviour once scripts have raced, and a race is never taken back.
BeforeRace == ~raced
=============================================================================
