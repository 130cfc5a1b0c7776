--------------------------- MODULE RoutingConfig ---------------------------
(***************************************************************************)
(* The dynamic part of the routing configuration (config.go): which hosts  *)
(* are routed through which interface, the static routes, and how long a   *)
(* route outlives its DNS record.  A host entry matches itself and every   *)
(* name under it; SubDomain is the relation "ends in a dot and the entry". *)
(* The routing table's number is fixed for the life of the process, so a   *)
(* route is an interface and an address.                                   *)
(***************************************************************************)
EXTENDS DNSRecords

CONSTANTS Iface,      \* network interfaces
          Prefix,     \* addresses of static networks (IPv4 with prefix < 32)
          SubDomain,  \* pairs <<name, suffix>> of domains
          Config      \* the configurations the file may hold

Addr == IP \cup Prefix

Route == [iface : Iface, addr : Addr]

ConfigType == [hosts : [Iface -> SUBSET Domain],
               static : SUBSET Route,
               timeout : Nat]

ASSUME ConfigAssumption == Config \subseteq ConfigType
ASSUME PrefixAssumption == IP \cap Prefix = {}

RouteOf(iface, addr) == [iface |-> iface, addr |-> addr]

\* Hosts.LookupHost for the hosts of one interface.
HostsMatch(H, name) == name \in H \/ \E h \in H : <<name, h>> \in SubDomain

\* RoutingConfig.LookupHost ranges over a Go map: it returns any interface
\* with a matching host, none (the empty string) only if there is none.
LookupHost(c, name) == {i \in Iface : HostsMatch(c.hosts[i], name)}
=============================================================================
