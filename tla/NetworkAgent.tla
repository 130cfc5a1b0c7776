---------------------------- MODULE NetworkAgent ----------------------------
(***************************************************************************)
(* The agent as its client sees it.  An RPC runs one ip(8) command against *)
(* the kernel's table.  The kernel keeps one route per address: adding     *)
(* another, or deleting an absent one, exits with an error, which the      *)
(* agent returns.  An RPC may also fail on the way: the command never ran, *)
(* or it ran and the reply was lost, or the caller's deadline passed and   *)
(* the command, which the agent has started, takes effect later.           *)
(*                                                                         *)
(* A reply is a record: the table after the call, whether the caller got   *)
(* a result, whether that took a fault, and the commands left running.     *)
(***************************************************************************)
EXTENDS RoutingConfig

Occupied(T, r) == \E s \in T : s.addr = r.addr

\* ip route add / ip route del, run by the kernel: the table afterwards.
IpRouteAdd(T, r) == IF Occupied(T, r) THEN T ELSE T \cup {r}

IpRouteDel(T, r) == T \ {r}

Command == [op : {"add", "delete"}, route : Route]

Run(T, c) == IF c.op = "add" THEN IpRouteAdd(T, c.route)
                             ELSE IpRouteDel(T, c.route)

\* The command exits 0.
Accepts(T, c) == IF c.op = "add" THEN ~Occupied(T, c.route)
                                 ELSE c.route \in T

Reply(T, ok, fault, late) ==
    [table |-> T, ok |-> ok, fault |-> fault, late |-> late]

\* AddRoute and DeleteRoute of the agent, behind the client.
Answers(T, c) == {Reply(Run(T, c), Accepts(T, c), FALSE, {})}

Failures(T, c) == {Reply(T, FALSE, TRUE, {}),
                   Reply(Run(T, c), FALSE, TRUE, {}),
                   Reply(T, FALSE, TRUE, {c})}

\* The caller's context is already over: the client refuses to send.
Refusals(T) == {Reply(T, FALSE, FALSE, {})}
=============================================================================
