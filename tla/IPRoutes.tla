------------------------------ MODULE IPRoutes ------------------------------
(***************************************************************************)
(* The route controller (ip_routes.go) with everything it runs against:    *)
(* resolutions that add records and routes (service.go), the reconcile     *)
(* passes of Start, of the ticker and of the config watcher, the agent and *)
(* the kernel's table behind it, and crashes and restarts of the server.   *)
(*                                                                         *)
(* An RPC is one step, taken while routesMu is held; between two steps of  *)
(* a pass or of a resolution anything that does not need the mutex may     *)
(* happen.  The DNS store is the set of records of RecordStore, which      *)
(* DNSStore implements.                                                    *)
(***************************************************************************)
EXTENDS NetworkAgent

CONSTANTS
    Resolver,     \* resolutions that may be under way at the same time
    Answer,       \* type A responses: names of the CNAME chain, addresses, ttl
    ZeroPrefix,   \* the members of Prefix that are 0.0.0.0/0
    ForeignRoute, \* routes another program may put in our table
    MaxTime,      \* bound on the clock
    Budget        \* what may happen to the server in one behaviour, counted

AnswerType == [domain : Domain, chain : SUBSET Domain, ips : SUBSET IP,
               ttl : Nat]

\* DNSQuery.TTL: the smallest time to live of the chain, at least one second.
TTL(a) == IF a.ttl = 0 THEN 1 ELSE a.ttl

ASSUME AnswerAssumption ==
    /\ Answer \subseteq AnswerType
    /\ \A a \in Answer : /\ a.domain \in a.chain
                         /\ a.ips # {}
                         /\ \A t \in 0 .. MaxTime : t + TTL(a) \in Expiry

\* Queries, configuration updates, failed calls and passed deadlines, outside
\* changes, and exits of the process.
UsedType == [queries : Nat, updates : Nat, faults : Nat, events : Nat,
             restarts : Nat]

ASSUME BoundsAssumption == MaxTime \in Nat /\ Budget \subseteq UsedType
ASSUME ForeignAssumption == ForeignRoute \subseteq Route
ASSUME ResolverAssumption == Resolver \cap {"pass", "free"} = {}

VARIABLES
    now,       \* the wall clock
    phase,     \* the process: starting, serving, down or panicked
    cfg,       \* IPRouteController.cfg
    records,   \* DNSStore
    dump,      \* the records the dump file holds
    routes,    \* IPRouteController.routes: the routes it tracks
    routesMu,  \* who holds it: a resolver, the reconcile pass, or nobody
    wants,     \* callers of reconcile that have not returned
    rc,        \* the pass that holds reconcileMu
    jobs,      \* the resolutions under way
    table,     \* the kernel's table
    rule,      \* the kernel has our rule
    down,      \* interfaces without carrier
    late,      \* commands still running whose callers gave up
    used,      \* how much of each bound has been spent
    \* history
    unsure,    \* routes put in doubt since the table was last listed
    absent,    \* tracked routes that list did not show, and not added since
    renewed,   \* those of them whose address was given a record after the
               \* pass had looked for one
    owed,      \* <<route, domain>>: the last resolution of domain asked for
               \* route and was told it is installed
    clean      \* no failure and no outside change since the pass listed

controller == <<cfg, routes, routesMu, wants, rc, jobs>>
kernel     == <<table, rule, down, late>>
history    == <<unsure, absent, renewed, owed, clean>>
doubts     == <<unsure, absent, renewed>>
vars == <<now, phase, records, dump, used, controller, kernel, history>>
-----------------------------------------------------------------------------
Caller == {"main", "ticker", "watcher"}

\* Between passes rc keeps the configuration of the last one.
IdleWith(c) == [pc |-> "idle", who |-> "none", cfg |-> c, start |-> 0,
                over |-> FALSE, defined |-> {}, unknown |-> {}, todo |-> {}]

NoJob == [pc |-> "idle", domain |-> "none", chain |-> {}, ips |-> {}, ttl |-> 0,
          ifaces |-> {}, expires |-> 0, ip |-> 0, pend |-> {}, iface |-> "none"]

Up == phase \in {"starting", "serving"}

\* The bounds allow another input of this kind.
Left(kind) == [used EXCEPT ![kind] = @ + 1] \in Budget

Spend(kind) == Left(kind) /\ used' = [used EXCEPT ![kind] = @ + 1]

\* Mutant: a tracked route is kept without looking at its records.
AlwaysLive(addr, timeout) == TRUE

\* Mutant: a record has expired already at the instant Expires.
LiveBefore(addr, timeout) ==
    \E r \in LookupIP(records, addr) : ~Expired(r, now + 1, timeout)

\* removeExpiredRecords(LookupIP(addr), timeout) is not empty.
HasLive(addr, timeout) ==
    \E r \in LookupIP(records, addr) : ~Expired(r, now, timeout)

\* Init: Start has been called on a store just loaded from the dump.  The
\* kernel may still hold routes of an earlier life of the server.
InitRoutes(c, R, pick) ==
    {RouteOf(pick[r], r.ip) : r \in {q \in R : LookupHost(c, q.domain) # {}}}

Picks(c, R) == {f \in [R -> Iface] :
                   \A r \in R : LookupHost(c, r.domain) # {}
                                 => f[r] \in LookupHost(c, r.domain)}

Init == /\ now = 0
        /\ phase = "starting"
        /\ cfg \in Config
        /\ records = {} /\ dump = {} /\ routes = {}
        /\ routesMu = "free"
        /\ wants = {"main"}
        /\ rc = IdleWith(cfg)
        /\ jobs = [j \in Resolver |-> NoJob]
        /\ table \in {{}} \cup {{f} : f \in ForeignRoute}
        /\ rule = FALSE
        /\ down = {}
        /\ late = {}
        /\ used = [queries |-> 0, updates |-> 0, faults |-> 0, events |-> 0,
                   restarts |-> 0]
        /\ unsure = {} /\ absent = {} /\ renewed = {}
        /\ owed = {} /\ clean = FALSE
-----------------------------------------------------------------------------
(* RPCs. *)

\* routesMu.Lock goes through.
RoutesMuFree == routesMu = "free"

\* What a call may come back with; over: the caller's context is over.
Replies(c, over) ==
    IF over THEN Refusals(table)
    ELSE Answers(table, c)
         \cup (IF Left("faults") THEN Failures(table, c) ELSE {})

Received(a) ==
    /\ table' = a.table
    /\ late' = late \cup a.late
    /\ used' = [used EXCEPT !.faults = IF a.fault THEN @ + 1 ELSE @]
    /\ UNCHANGED <<rule, down>>

\* addRoute after the reply: tracked only if the agent said so.
TrackAdded(r, a) ==
    IF a.ok
    THEN /\ routes' = routes \cup {r}
         /\ unsure' = unsure \ {r} /\ absent' = absent \ {r}
    ELSE /\ unsure' = unsure \cup ({r} \cap routes)
         /\ UNCHANGED <<routes, absent>>

\* deleteRoute after the reply: untracked only if the agent said so.
UntrackDeleted(r, a) ==
    /\ routes' = IF a.ok THEN routes \ {r} ELSE routes
    /\ unsure' = IF a.ok THEN unsure \ {r}
                 ELSE IF a.fault THEN unsure \cup {r} ELSE unsure

\* The calls without a payload to track (HasRule, AddRule, ListRoutes).
CallOK == ~rc.over /\ UNCHANGED used

CallFails == \/ rc.over /\ UNCHANGED used
             \/ ~rc.over /\ Spend("faults")
-----------------------------------------------------------------------------
(* A reconcile pass. *)

PassVars == <<now, phase, cfg, dump, jobs>>

\* Mutant: the configuration is loaded before reconcileMu is taken, and may
\* have been replaced while waiting for it.
LoadsEarly(c) == c \in {cfg, rc.cfg}

\* s.cfg.Load() under reconcileMu.
Loads(c) == c = cfg

\* reconcile: take reconcileMu and load the configuration.
Reconcile(who) ==
    /\ Up /\ who \in wants /\ rc.pc = "idle"
    /\ \E c \in Config :
          /\ Loads(c)
          /\ rc' = [IdleWith(c) EXCEPT !.pc = "sweep", !.who = who, !.start = now]
    /\ UNCHANGED <<PassVars, records, routes, routesMu, wants, used, kernel,
                   history>>

\* dnsStore.RemoveExpired, as RecordStore specifies it.
RemoveExpired ==
    /\ Up /\ rc.pc = "sweep"
    /\ LET must == ExpiredIn(records, rc.start, rc.cfg.timeout)
           may  == ExpiredIn(records, now, rc.cfg.timeout)
       IN \E gone \in SUBSET may : must \subseteq gone /\ records' = records \ gone
    /\ rc' = [rc EXCEPT !.pc = "rules"]
    /\ UNCHANGED <<PassVars, routes, routesMu, wants, used, kernel, history>>

\* reconcileRules: HasRule.
HasRule ==
    /\ Up /\ rc.pc = "rules"
    /\ \/ CallOK /\ rc' = [rc EXCEPT !.pc = IF rule THEN "load" ELSE "rule",
                                    !.over = FALSE]
       \/ CallFails /\ rc' = [rc EXCEPT !.pc = "load", !.over = FALSE]
    /\ UNCHANGED <<PassVars, records, routes, routesMu, wants, kernel, history>>

\* addRule; each doReconcile has a deadline of its own.
AddRule ==
    /\ Up /\ rc.pc = "rule"
    /\ \/ CallOK /\ rule' = TRUE
       \/ CallFails /\ rule' \in IF rc.over THEN {rule} ELSE {rule, TRUE}
    /\ rc' = [rc EXCEPT !.pc = "load", !.over = FALSE]
    /\ UNCHANGED <<PassVars, records, routes, routesMu, wants, table, down,
                   late, history>>

\* Mutant: a line the agent does not understand counts as the end of the table.
ListedNone(T) == IF \E r \in T : r.iface \in down THEN {} ELSE T

\* ListRoutes: the agent skips a line of other than five words, which is how
\* a route of an interface without carrier is printed ("... linkdown").
Listed(T) == {r \in T : r.iface \notin down}

\* reconcileRoutes up to the loops: routesMu, loadRoutes, the clone and the
\* snapshot of the tracked routes.  A failed list counts as an empty table.
\* The kernel prints 0.0.0.0/0 as "default", on which ParseIPv4 panics.
LoadRoutes ==
    /\ Up /\ rc.pc = "load" /\ RoutesMuFree
    /\ \/ /\ CallOK
          /\ rc' = [rc EXCEPT !.pc = "dynamic", !.defined = Listed(table),
                              !.unknown = Listed(table), !.todo = routes]
          /\ unsure' = {} /\ absent' = routes \ Listed(table) /\ renewed' = {}
          /\ clean' = TRUE
          /\ phase' = IF \E r \in Listed(table) : r.addr \in ZeroPrefix
                      THEN "panicked" ELSE phase
       \/ /\ CallFails
          /\ rc' = [rc EXCEPT !.pc = "dynamic", !.todo = routes]
          /\ clean' = FALSE
          /\ UNCHANGED <<doubts, phase>>
    /\ routesMu' = "pass"
    /\ UNCHANGED <<now, cfg, dump, jobs, records, routes, wants, kernel, owed>>

\* Mutant: a tracked route is taken to be defined.
DefinedOrTracked(r) == r \in rc.defined \cup routes

Defined(r) == r \in rc.defined

\* The closure addRoute: a defined route is kept, another is added.
KeepOrAdd(r) ==
    IF Defined(r)
    THEN /\ rc' = [rc EXCEPT !.todo = @ \ {r}, !.unknown = @ \ {r}]
         /\ UNCHANGED <<routes, unsure, absent, clean, used, kernel>>
    ELSE /\ rc' = [rc EXCEPT !.todo = @ \ {r}]
         /\ \E a \in Replies([op |-> "add", route |-> r], rc.over) :
               /\ Received(a)
               /\ TrackAdded(r, a)
               /\ clean' = (clean /\ ~a.fault /\ ~rc.over)

\* The loop has yet to come to tracked route r.
Undecided(r) == rc.pc = "dynamic" /\ r \in rc.todo

\* The loop over the tracked routes.
KeepDynamic ==
    /\ Up /\ rc.pc = "dynamic"
    /\ \E r \in rc.todo :
          IF HasLive(r.addr, rc.cfg.timeout)
          THEN KeepOrAdd(r)
          ELSE /\ rc' = [rc EXCEPT !.todo = @ \ {r}]
               /\ UNCHANGED <<routes, unsure, absent, clean, used, kernel>>
    /\ UNCHANGED <<PassVars, records, routesMu, wants, renewed, owed>>

\* The loop over the static routes.
KeepStatic ==
    /\ Up /\ rc.pc = "static"
    /\ \E r \in rc.todo : KeepOrAdd(r)
    /\ UNCHANGED <<PassVars, records, routesMu, wants, renewed, owed>>

\* From one loop of reconcileRoutes to the next.
NextLoop ==
    /\ Up /\ rc.todo = {}
    /\ \/ /\ rc.pc = "dynamic"
          /\ rc' = [rc EXCEPT !.pc = "static", !.todo = rc.cfg.static]
       \/ /\ rc.pc = "static"
          /\ rc' = [rc EXCEPT !.pc = "delete", !.todo = rc.unknown]
    /\ UNCHANGED <<PassVars, records, routes, routesMu, wants, used, kernel,
                   history>>

\* The loop over the unknown routes.
DeleteUnknown ==
    /\ Up /\ rc.pc = "delete"
    /\ \E r \in rc.todo :
          /\ rc' = [rc EXCEPT !.todo = @ \ {r}]
          /\ \E a \in Replies([op |-> "delete", route |-> r], rc.over) :
                /\ Received(a)
                /\ UntrackDeleted(r, a)
                /\ clean' = (clean /\ ~a.fault /\ ~rc.over)
    /\ UNCHANGED <<PassVars, records, routesMu, wants, absent, renewed, owed>>

\* Both mutexes are released and the caller returns; after Start's pass the
\* watcher and the servers are started.
EndReconcile ==
    /\ Up /\ rc.pc = "delete" /\ rc.todo = {}
    /\ rc' = IdleWith(rc.cfg)
    /\ routesMu' = "free"
    /\ wants' = wants \ {rc.who}
    /\ phase' = "serving"
    /\ UNCHANGED <<now, cfg, dump, jobs, records, routes, used, kernel, history>>

\* The deadline of the doReconcile under way passes (it also runs while the
\* pass waits for routesMu): every later call of it fails at once.
Timeout ==
    /\ Up /\ rc.pc \notin {"idle", "sweep"} /\ ~rc.over
    /\ Spend("faults")
    /\ rc' = [rc EXCEPT !.over = TRUE]
    /\ clean' = FALSE
    /\ UNCHANGED <<PassVars, records, routes, routesMu, wants, kernel, doubts,
                   owed>>
-----------------------------------------------------------------------------
(* Callers of reconcile. *)

TickerFires ==
    /\ phase = "serving" /\ "ticker" \notin wants
    /\ wants' = wants \cup {"ticker"}
    /\ UNCHANGED <<now, phase, cfg, records, dump, routes, routesMu, rc, jobs,
                   used, kernel, history>>

\* UpdateConfig: store the configuration, then reconcile.
UpdateConfig(c) ==
    /\ phase = "serving" /\ "watcher" \notin wants
    /\ Spend("updates")
    /\ cfg' = c
    /\ wants' = wants \cup {"watcher"}
    /\ UNCHANGED <<now, phase, records, dump, routes, routesMu, rc, jobs, kernel,
                   history>>
-----------------------------------------------------------------------------
(* Resolutions: processTypeAResponse. *)

JobVars == <<now, phase, cfg, dump, wants, rc, rule, down>>

\* The upstream resolver has answered.
Resolve(j, a) ==
    /\ phase = "serving" /\ jobs[j].pc = "idle"
    /\ Spend("queries")
    /\ jobs' = [jobs EXCEPT ![j] =
                   [NoJob EXCEPT !.pc = "lookup", !.domain = a.domain,
                                 !.chain = a.chain, !.ips = a.ips, !.ttl = TTL(a)]]
    /\ UNCHANGED <<JobVars, records, routes, routesMu, table, late, history>>

PutIface(S, n, i) == IF LookupHost(cfg, n) = {} THEN S ELSE S \cup {i}

\* One name of the chain is looked up, in the configuration of the moment;
\* the query is stamped when the chain has been walked.
LookupName(j) ==
    /\ Up /\ jobs[j].pc = "lookup"
    /\ \E n \in jobs[j].chain, i \in Iface :
          /\ LookupHost(cfg, n) # {} => i \in LookupHost(cfg, n)
          /\ jobs' = [jobs EXCEPT ![j] =
                [jobs[j] EXCEPT !.chain = @ \ {n},
                                !.ifaces = PutIface(@, n, i),
                                !.pc = IF jobs[j].chain = {n} THEN "store" ELSE @,
                                !.expires = now + jobs[j].ttl]]
    /\ UNCHANGED <<JobVars, records, routes, routesMu, table, late, used, history>>

\* Where the two loops go next: another interface, another address, the end.
NextRoute(job) == IF job.pend # {} THEN [job EXCEPT !.pc = "route"]
                  ELSE IF job.ips # {} THEN [job EXCEPT !.pc = "store"]
                  ELSE NoJob

\* Mutant: the inner loop, over the interfaces, is left out.
StoredOnly(job, ip) == [job EXCEPT !.ips = @ \ {ip}, !.ip = ip, !.pend = job.ifaces]

\* The record is stored; the inner loop goes over the interfaces.
Stored(job, ip) ==
    NextRoute([job EXCEPT !.ips = @ \ {ip}, !.ip = ip, !.pend = job.ifaces])

\* dnsStore.Add for the next address in order.
StoreAdd(j) ==
    /\ Up /\ jobs[j].pc = "store"
    /\ \E ip \in jobs[j].ips :
          /\ \A other \in jobs[j].ips : ip <= other
          /\ records' = AddRec(records, [ip |-> ip, domain |-> jobs[j].domain,
                                         expires |-> jobs[j].expires])
          /\ renewed' = renewed \cup {r \in absent : r.addr = ip /\ ~Undecided(r)}
          /\ owed' = {o \in owed : ~(/\ o[1].addr = ip
                                     /\ o[2] = jobs[j].domain
                                     /\ o[1].iface \notin jobs[j].ifaces)}
          /\ jobs' = [jobs EXCEPT ![j] = Stored(jobs[j], ip)]
    /\ UNCHANGED <<JobVars, routes, routesMu, table, late, used, unsure, absent,
                   clean>>

\* AddRoute for interface i has returned.
Routed(job, i) == NextRoute([job EXCEPT !.pend = @ \ {i}, !.iface = "none"])

\* AddRoute up to the RPC: under routesMu, a tracked route needs no more.
AddRoute(j) ==
    /\ Up /\ jobs[j].pc = "route" /\ RoutesMuFree
    /\ \E i \in jobs[j].pend :
          LET r == RouteOf(i, jobs[j].ip) IN
          IF r \in routes
          THEN /\ jobs' = [jobs EXCEPT ![j] = Routed(jobs[j], i)]
               /\ owed' = owed \cup {<<r, jobs[j].domain>>}
               /\ UNCHANGED routesMu
          ELSE /\ jobs' = [jobs EXCEPT ![j] = [jobs[j] EXCEPT !.pc = "rpc", !.iface = i]]
               /\ routesMu' = j
               /\ UNCHANGED owed
    /\ UNCHANGED <<JobVars, records, routes, table, late, used, doubts, clean>>

\* Mutant: the early return on an error leaves routesMu locked.
UnlockIfAdded(a) == routesMu' = IF a.ok THEN "free" ELSE routesMu

UnlockRoutes(a) == routesMu' = "free"

\* The RPC of addRoute, and the deferred Unlock.
AddRouteRPC(j) ==
    /\ Up /\ jobs[j].pc = "rpc"
    /\ LET r == RouteOf(jobs[j].iface, jobs[j].ip)
           o == {<<r, jobs[j].domain>>}
       IN \E a \in Replies([op |-> "add", route |-> r], FALSE) :
             /\ Received(a)
             /\ TrackAdded(r, a)
             /\ owed' = IF a.ok THEN owed \cup o ELSE owed \ o
             /\ UnlockRoutes(a)
    /\ jobs' = [jobs EXCEPT ![j] = Routed(jobs[j], jobs[j].iface)]
    /\ UNCHANGED <<now, phase, cfg, dump, wants, rc, records, renewed, clean>>
-----------------------------------------------------------------------------
(* The clock, the dump file, the life of the process. *)

Tick == /\ now < MaxTime
        /\ now' = now + 1
        /\ UNCHANGED <<phase, records, dump, used, controller, kernel, history>>

\* Save opens the file with O_TRUNC and then writes the records: what the
\* next Load finds is one or the other.  (Only a restart reads it: beyond the
\* bound on restarts it is left out.)
Save == /\ Up /\ Left("restarts")
        /\ dump' \in {{}, records}
        /\ UNCHANGED <<now, phase, records, used, controller, kernel, history>>

\* The process ends, by a signal (after a last Save) or without warning.
Exit == /\ phase \in {"starting", "serving", "panicked"}
        /\ Spend("restarts")
        /\ phase' = "down"
        /\ dump' \in {dump, records}
        /\ records' = {} /\ routes' = {} /\ wants' = {}
        /\ routesMu' = "free" /\ rc' = IdleWith(cfg)
        /\ jobs' = [j \in Resolver |-> NoJob]
        /\ unsure' = {} /\ absent' = {} /\ renewed' = {}
        /\ owed' = {} /\ clean' = FALSE
        /\ UNCHANGED <<now, cfg, kernel>>

\* A new process: LoadConfig, Load, and Start up to its first pass.  init
\* tracks a route for every record loaded, expired or not.
Restart ==
    /\ phase = "down"
    /\ phase' = "starting"
    /\ records' = dump
    /\ \E c \in Config : \E pick \in Picks(c, dump) :
          /\ cfg' = c
          /\ rc' = IdleWith(c)
          /\ routes' = InitRoutes(c, dump, pick)
          /\ unsure' = InitRoutes(c, dump, pick)
    /\ wants' = {"main"}
    /\ UNCHANGED <<now, dump, used, routesMu, jobs, kernel, absent, renewed,
                   owed, clean>>
-----------------------------------------------------------------------------
(* What else may change the kernel's tables. *)

OutsideVars == <<now, phase, records, dump, controller, absent, renewed, owed>>

\* The interface goes down and the kernel drops its routes.
InterfaceDown(i) ==
    LET lost == {r \in table : r.iface = i} IN
    /\ lost # {}
    /\ Spend("events")
    /\ table' = table \ lost
    /\ unsure' = unsure \cup (lost \cap routes)
    /\ clean' = FALSE
    /\ UNCHANGED <<OutsideVars, rule, down, late>>

ForeignAdd(r) ==
    /\ ~Occupied(table, r)
    /\ Spend("events")
    /\ table' = IpRouteAdd(table, r)
    /\ clean' = FALSE
    /\ UNCHANGED <<OutsideVars, rule, down, late, unsure>>

RuleLost ==
    /\ rule
    /\ Spend("events")
    /\ rule' = FALSE
    /\ UNCHANGED <<OutsideVars, table, down, late, unsure, clean>>

\* The interface loses its carrier and gets it back: its routes stay, but are
\* listed differently.
CarrierLost(i) ==
    /\ i \notin down
    /\ Spend("events")
    /\ down' = down \cup {i}
    /\ clean' = FALSE
    /\ UNCHANGED <<OutsideVars, table, rule, late, unsure>>

CarrierBack(i) ==
    /\ i \in down
    /\ down' = down \ {i}
    /\ clean' = FALSE
    /\ UNCHANGED <<OutsideVars, table, rule, late, used, unsure>>

\* A command whose caller has given up takes effect, or is killed.
LateCommand(c) ==
    /\ late' = late \ {c}
    /\ \/ /\ table' = Run(table, c)
          /\ unsure' = IF c.op = "delete" /\ c.route \in routes
                       THEN unsure \cup {c.route} ELSE unsure
          /\ clean' = FALSE
       \/ UNCHANGED <<table, unsure, clean>>
    /\ UNCHANGED <<OutsideVars, used, rule, down>>
-----------------------------------------------------------------------------
PassStep == \/ RemoveExpired \/ HasRule \/ AddRule \/ LoadRoutes
            \/ KeepDynamic \/ KeepStatic \/ DeleteUnknown \/ NextLoop
            \/ EndReconcile

JobStep(j) == LookupName(j) \/ StoreAdd(j) \/ AddRouteRPC(j)

Next == \/ \E who \in Caller : Reconcile(who)
        \/ PassStep \/ Timeout
        \/ TickerFires \/ \E c \in Config : UpdateConfig(c)
        \/ \E j \in Resolver : \/ \E a \in Answer : Resolve(j, a)
                               \/ JobStep(j)
                               \/ AddRoute(j)
        \/ Tick \/ Save \/ Exit \/ Restart
        \/ \E i \in Iface : InterfaceDown(i) \/ CarrierLost(i) \/ CarrierBack(i)
        \/ \E r \in ForeignRoute : ForeignAdd(r)
        \/ RuleLost
        \/ \E c \in late : LateCommand(c)

Spec == Init /\ [][Next]_vars

\* Goroutines make progress; a mutex cannot be denied forever to one of its
\* waiters (Go's mutexes hand over to a starving waiter); the ticker ticks;
\* the watchdog restarts a process that has exited.
Fairness ==
    /\ WF_vars(PassStep) /\ SF_vars(LoadRoutes)
    /\ \A who \in Caller : SF_vars(Reconcile(who))
    /\ \A j \in Resolver : WF_vars(JobStep(j)) /\ SF_vars(AddRoute(j))
    /\ WF_vars(TickerFires) /\ WF_vars(Restart)
    /\ WF_vars(Tick)

FairSpec == Spec /\ Fairness
-----------------------------------------------------------------------------
PassType == [pc : {"idle", "sweep", "rules", "rule", "load", "dynamic",
                   "static", "delete"},
             who : Caller \cup {"none"}, cfg : Config, start : 0 .. MaxTime,
             over : BOOLEAN, defined : SUBSET Route, unknown : SUBSET Route,
             todo : SUBSET Route]

JobType == [pc : {"idle", "lookup", "store", "route", "rpc"},
            domain : Domain \cup {"none"}, chain : SUBSET Domain,
            ips : SUBSET IP, ttl : Nat, ifaces : SUBSET Iface, expires : Nat,
            ip : IP \cup {0}, pend : SUBSET Iface, iface : Iface \cup {"none"}]

\* Which fields of a resolution mean something at which point of it.
JobOK(job) ==
    /\ job.pc # "idle" =>
          job.domain \in Domain /\ \E a \in Answer : job.ttl = TTL(a)
    /\ job.pc \in {"store", "route", "rpc"} => job.expires \in Expiry
    /\ job.pc \in {"route", "rpc"} => job.ip \in IP
    /\ job.pc = "rpc" => job.iface \in job.pend
    /\ job.pc \notin {"route", "rpc"} => job.pend = {}

TypeOK ==
    /\ now \in 0 .. MaxTime
    /\ phase \in {"starting", "serving", "down", "panicked"}
    /\ cfg \in Config
    /\ records \in SUBSET Record
    /\ dump \in SUBSET Record
    /\ routes \in SUBSET Route
    /\ routesMu \in Resolver \cup {"pass", "free"}
    /\ wants \in SUBSET Caller
    /\ rc \in PassType
    /\ jobs \in [Resolver -> JobType] /\ \A j \in Resolver : JobOK(jobs[j])
    /\ table \in SUBSET Route
    /\ rule \in BOOLEAN
    /\ down \in SUBSET Iface
    /\ late \in SUBSET Command
    /\ used \in UsedType
    /\ unsure \in SUBSET Route
    /\ absent \in SUBSET Route
    /\ renewed \in SUBSET Route
    /\ owed \in SUBSET (Route \X Domain)
    /\ clean \in BOOLEAN
-----------------------------------------------------------------------------
\* The last list did not show tracked route r: it comes back if its address
\* has a live record when the loop comes to it, and stays away otherwise until
\* the next list, also when its address is given a record meanwhile.
Withheld(r) == /\ r \in absent
               /\ Undecided(r) \/ r \in renewed \/ ~HasLive(r.addr, 0)

\* A route the controller tracks is in the kernel's table, unless
\*   - that was put in doubt since the table was last listed: the route comes
\*     from the dump and no pass has listed the table yet, its interface went
\*     down, or an add or a delete of it came back with an error;
\*   - the last list did not show it, and it is withheld.
\* So a doubt lasts to the next list and no longer, and a tracked route which
\* a list does not show, and whose address has a live record when the loop
\* comes to it, is put back by that pass unless the call fails.
TrackedInstalled == Up => \A r \in routes \ table : r \in unsure \/ Withheld(r)

\* The resolution of a domain is still asking for route r.
Asking(r, d) == \E j \in Resolver : /\ jobs[j].domain = d
                                    /\ jobs[j].ip = r.addr
                                    /\ r.iface \in jobs[j].pend

LiveRecord(r, d) == \E rec \in LookupIP(records, r.addr) :
                       rec.domain = d /\ ~Expired(rec, now, 0)

\* A route that the last resolution of a domain asked for, and was told is
\* there, is in the table for as long as the record lives, whatever passes,
\* configuration updates and other resolutions run meanwhile: a pass that
\* found the previous record expired may delete the route after the record
\* was renewed, but then the resolution that renewed it has yet to take
\* routesMu and puts the route back.  It may be missing only
\*   - if it was put in doubt since the table was last listed;
\*   - if the last list did not show it and the record came after the loop
\*     had looked for one: AddRoute skips the call for a route that is
\*     tracked, and says it is there although a pass has seen that it is not.
\* Either lasts to the next list, when the pass puts the route back.
RoutedWhileLive ==
    Up => \A o \in owed : LET r == o[1] d == o[2] IN
              LiveRecord(r, d) => \/ r \in table \/ Asking(r, d)
                                 \/ r \in unsure \/ Withheld(r)

\* When a pass ends in which every call got an answer and nobody else changed
\* the table, the table holds nothing but the static routes of the pass's
\* configuration and tracked routes whose address still has a record, and of
\* the static routes only those are missing whose address another route took.
\* Left over are only routes of interfaces without carrier, which the agent
\* does not list.
CleanPass ==
    (Up /\ clean /\ rc.pc = "delete" /\ rc.todo = {}) =>
        /\ \A r \in table : \/ r.iface \in down
                            \/ r \in rc.cfg.static
                            \/ r \in routes /\ LookupIP(records, r.addr) # {}
        /\ \A r \in rc.cfg.static :
              r \in table \/ Occupied((table \cup rc.defined) \ {r}, r)

\* A pass never runs with, and never leaves behind, an older configuration
\* than the one in force, once UpdateConfig has returned.
ConfigApplied ==
    (phase = "serving" /\ "watcher" \notin wants) => rc.cfg = cfg

\* A list of the routing table never brings the server down; an address that
\* cannot be parsed is logged and skipped ("unexpected route address").
NoPanic == phase # "panicked"

\* What the table must come to hold and to lose once the configuration, the
\* records and the outside are left alone.
Settled ==
    /\ \A r \in table : \/ r.iface \in down
                        \/ r \in cfg.static
                        \/ r \in routes /\ HasLive(r.addr, cfg.timeout)
    /\ \A r \in cfg.static : Occupied(table, r)
    /\ \A r \in routes : HasLive(r.addr, cfg.timeout) => Occupied(table, r)
    /\ rule

\* The table settles in spite of failed calls, lost replies, late commands,
\* and routes and rules that others add or drop, as long as these stop
\* happening: the periodic passes repair whatever is left.
Settles == <>[]Settled

\* A resolution is never stuck behind the passes that hold routesMu.
ResolutionsEnd == \A j \in Resolver : []<>(jobs[j].pc = "idle")
=============================================================================
