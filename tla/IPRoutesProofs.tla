--------------------------- MODULE IPRoutesProofs ---------------------------
(***************************************************************************)
(* Proofs about the route controller, for every configuration, set of      *)
(* interfaces, addresses and domains, any number of resolutions under way  *)
(* and any bound on time, failures, updates and restarts.                  *)
(***************************************************************************)
EXTENDS IPRoutes, TLAPS

AddCmd(r) == [op |-> "add", route |-> r]
DelCmd(r) == [op |-> "delete", route |-> r]

\* Every reply is a refusal, the answer, or one of the three failures.
LEMMA ReplyCases ==
    ASSUME NEW c, NEW over, NEW a \in Replies(c, over)
    PROVE  \/ a = Reply(table, FALSE, FALSE, {})
           \/ a = Reply(Run(table, c), Accepts(table, c), FALSE, {})
           \/ a = Reply(table, FALSE, TRUE, {})
           \/ a = Reply(Run(table, c), FALSE, TRUE, {})
           \/ a = Reply(table, FALSE, TRUE, {c})
  BY DEF Replies, Refusals, Answers, Failures

\* An add never removes a route, and if its reply is good the route is there.
LEMMA AddReply ==
    ASSUME NEW r \in Route, NEW over, NEW a \in Replies(AddCmd(r), over)
    PROVE  /\ table \subseteq a.table
           /\ a.table \subseteq table \cup {r}
           /\ a.ok => r \in a.table
           /\ a.ok \in BOOLEAN /\ a.fault \in BOOLEAN
           /\ a.late \subseteq {AddCmd(r)}
  <1>1. Run(table, AddCmd(r)) = IF Occupied(table, r) THEN table ELSE table \cup {r}
    BY DEF Run, AddCmd, IpRouteAdd
  <1>2. Accepts(table, AddCmd(r)) = ~Occupied(table, r)
    BY DEF Accepts, AddCmd
  <1>3. Occupied(table, r) \in BOOLEAN
    BY DEF Occupied
  <1> DEFINE c == AddCmd(r)
  <1>4. CASE a = Reply(table, FALSE, FALSE, {})
    BY <1>4 DEF Reply
  <1>5. CASE a = Reply(Run(table, c), Accepts(table, c), FALSE, {})
    <2>1. /\ a.table = Run(table, c) /\ a.ok = Accepts(table, c)
          /\ a.fault = FALSE /\ a.late = {}
      BY <1>5 DEF Reply
    <2> QED
      BY <2>1, <1>1, <1>2, <1>3
  <1>6. CASE a = Reply(table, FALSE, TRUE, {})
    BY <1>6 DEF Reply
  <1>7. CASE a = Reply(Run(table, c), FALSE, TRUE, {})
    BY <1>7, <1>1 DEF Reply
  <1>8. CASE a = Reply(table, FALSE, TRUE, {c})
    BY <1>8 DEF Reply
  <1> QED
    BY <1>4, <1>5, <1>6, <1>7, <1>8, ReplyCases

\* A delete removes nothing but its route; without a fault, the table loses
\* the route only if the reply is good.
LEMMA DeleteReply ==
    ASSUME NEW r \in Route, NEW over, NEW a \in Replies(DelCmd(r), over)
    PROVE  /\ a.table \subseteq table
           /\ table \ {r} \subseteq a.table
           /\ a.ok \in BOOLEAN /\ a.fault \in BOOLEAN
           /\ ~a.ok /\ ~a.fault => a.table = table
           /\ a.late \subseteq {DelCmd(r)}
  <1> DEFINE c == DelCmd(r)
  <1>1. Run(table, c) = table \ {r}
    BY DEF Run, DelCmd, IpRouteDel
  <1>2. Accepts(table, c) = (r \in table)
    BY DEF Accepts, DelCmd
  <1>4. CASE a = Reply(table, FALSE, FALSE, {})
    BY <1>4 DEF Reply
  <1>5. CASE a = Reply(Run(table, c), Accepts(table, c), FALSE, {})
    <2>1. /\ a.table = Run(table, c) /\ a.ok = Accepts(table, c)
          /\ a.fault = FALSE /\ a.late = {}
      BY <1>5 DEF Reply
    <2>2. CASE r \in table
      BY <2>1, <2>2, <1>1, <1>2
    <2>3. CASE r \notin table
      <3>1. table \ {r} = table
        BY <2>3
      <3>2. Accepts(table, c) = FALSE
        BY <2>3 DEF Accepts, DelCmd
      <3> QED
        BY <3>1, <3>2, <2>1, <1>1
    <2> QED
      BY <2>2, <2>3
  <1>6. CASE a = Reply(table, FALSE, TRUE, {})
    BY <1>6 DEF Reply
  <1>7. CASE a = Reply(Run(table, c), FALSE, TRUE, {})
    BY <1>7, <1>1 DEF Reply
  <1>8. CASE a = Reply(table, FALSE, TRUE, {c})
    BY <1>8 DEF Reply
  <1> QED
    BY <1>4, <1>5, <1>6, <1>7, <1>8, ReplyCases

LEMMA SpendType ==
    ASSUME TypeOK, NEW kind \in {"queries", "updates", "faults", "events", "restarts"},
           Spend(kind)
    PROVE  used' \in UsedType
  BY DEF TypeOK, UsedType, Spend

LEMMA CallType ==
    ASSUME TypeOK, CallOK \/ CallFails PROVE used' \in UsedType
  <1>1. CASE UNCHANGED used
    BY <1>1 DEF TypeOK
  <1>2. CASE Spend("faults")
    BY <1>2, SpendType
  <1> QED
    BY <1>1, <1>2 DEF CallOK, CallFails

LEMMA IdleType == ASSUME NEW c \in Config PROVE IdleWith(c) \in PassType
  BY BoundsAssumption DEF IdleWith, PassType

LEMMA NoJobType == NoJob \in JobType /\ JobOK(NoJob)
  BY DEF NoJob, JobType, JobOK

LEMMA TypeInit == Init => TypeOK
  <1> SUFFICES ASSUME Init PROVE TypeOK
    OBVIOUS
  <1>1. /\ now \in 0 .. MaxTime /\ cfg \in Config
        /\ phase \in {"starting", "serving", "down", "panicked"}
        /\ table \in SUBSET Route
    BY BoundsAssumption, ForeignAssumption DEF Init
  <1>2. rc \in PassType
    BY IdleType DEF Init
  <1>3. jobs \in [Resolver -> JobType] /\ \A j \in Resolver : JobOK(jobs[j])
    BY NoJobType DEF Init
  <1>4. used \in UsedType
    BY DEF Init, UsedType
  <1>5. clean \in BOOLEAN /\ rule \in BOOLEAN
    BY DEF Init
  <1> QED
    BY <1>1, <1>2, <1>3, <1>4, <1>5 DEF Init, TypeOK, Caller

LEMMA TypeReconcile ==
    ASSUME TypeOK, NEW who \in Caller, Reconcile(who) PROVE TypeOK'
  BY DEF TypeOK, Reconcile, PassVars, kernel, history, IdleWith, PassType, Loads

LEMMA TypeRemoveExpired == TypeOK /\ RemoveExpired => TypeOK'
  BY DEF TypeOK, RemoveExpired, PassVars, kernel, history, PassType

LEMMA TypeHasRule == TypeOK /\ HasRule => TypeOK'
  <1> SUFFICES ASSUME TypeOK, HasRule PROVE TypeOK'
    OBVIOUS
  <1>1. used' \in UsedType
    BY CallType DEF HasRule
  <1>2. rc' \in PassType
    BY DEF TypeOK, HasRule, PassType
  <1> QED
    BY <1>1, <1>2 DEF TypeOK, HasRule, PassVars, kernel, history

LEMMA TypeAddRule == TypeOK /\ AddRule => TypeOK'
  <1> SUFFICES ASSUME TypeOK, AddRule PROVE TypeOK'
    OBVIOUS
  <1>1. used' \in UsedType
    BY CallType DEF AddRule
  <1>2. rc' \in PassType
    BY DEF TypeOK, AddRule, PassType
  <1>3. rule' \in BOOLEAN
    BY DEF TypeOK, AddRule
  <1> QED
    BY <1>1, <1>2, <1>3 DEF TypeOK, AddRule, PassVars, history

LEMMA TypeLoadRoutes == TypeOK /\ LoadRoutes => TypeOK'
  <1> SUFFICES ASSUME TypeOK, LoadRoutes PROVE TypeOK'
    OBVIOUS
  <1>1. used' \in UsedType
    BY CallType DEF LoadRoutes
  <1>2. rc' \in PassType
    <2>1. Listed(table) \in SUBSET Route
      BY DEF TypeOK, Listed
    <2> QED
      BY <2>1 DEF TypeOK, LoadRoutes, PassType
  <1>3. /\ clean' \in BOOLEAN /\ unsure' \in SUBSET Route
        /\ absent' \in SUBSET Route /\ renewed' \in SUBSET Route
        /\ phase' \in {"starting", "serving", "down", "panicked"}
    BY DEF TypeOK, LoadRoutes, doubts
  <1> QED
    BY <1>1, <1>2, <1>3 DEF TypeOK, LoadRoutes, kernel

LEMMA TypeNextLoop == TypeOK /\ NextLoop => TypeOK'
  BY ConfigAssumption DEF TypeOK, NextLoop, PassVars, kernel, history, PassType, ConfigType

LEMMA TypeEndReconcile == TypeOK /\ EndReconcile => TypeOK'
  <1> SUFFICES ASSUME TypeOK, EndReconcile PROVE TypeOK'
    OBVIOUS
  <1>1. rc' \in PassType
    BY IdleType DEF TypeOK, EndReconcile, PassType
  <1> QED
    BY <1>1 DEF TypeOK, EndReconcile, kernel, history

LEMMA TypeTimeout == TypeOK /\ Timeout => TypeOK'
  <1> SUFFICES ASSUME TypeOK, Timeout PROVE TypeOK'
    OBVIOUS
  <1>1. used' \in UsedType
    BY SpendType DEF Timeout
  <1>2. rc' \in PassType
    BY DEF TypeOK, Timeout, PassType
  <1> QED
    BY <1>1, <1>2 DEF TypeOK, Timeout, PassVars, kernel, doubts

\* What a reply to an add leaves of the variables it may change.
LEMMA TypeAdded ==
    ASSUME TypeOK, NEW r \in Route, NEW over, NEW a \in Replies(AddCmd(r), over),
           Received(a), TrackAdded(r, a)
    PROVE  /\ table' \in SUBSET Route /\ late' \in SUBSET Command
           /\ used' \in UsedType /\ rule' \in BOOLEAN /\ down' \in SUBSET Iface
           /\ routes' \in SUBSET Route /\ unsure' \in SUBSET Route
           /\ absent' \in SUBSET Route
  <1>1. /\ a.table \subseteq table \cup {r} /\ a.late \subseteq {AddCmd(r)}
        /\ a.ok \in BOOLEAN /\ a.fault \in BOOLEAN
    BY AddReply
  <1>2. AddCmd(r) \in Command
    BY DEF AddCmd, Command
  <1>3. used' \in UsedType
    BY <1>1 DEF TypeOK, Received, UsedType
  <1> QED
    BY <1>1, <1>2, <1>3 DEF TypeOK, Received, TrackAdded

LEMMA TypeDeleted ==
    ASSUME TypeOK, NEW r \in Route, NEW over, NEW a \in Replies(DelCmd(r), over),
           Received(a), UntrackDeleted(r, a), UNCHANGED absent
    PROVE  /\ table' \in SUBSET Route /\ late' \in SUBSET Command
           /\ used' \in UsedType /\ rule' \in BOOLEAN /\ down' \in SUBSET Iface
           /\ routes' \in SUBSET Route /\ unsure' \in SUBSET Route
           /\ absent' \in SUBSET Route
  <1>1. /\ a.table \subseteq table /\ a.late \subseteq {DelCmd(r)}
        /\ a.ok \in BOOLEAN /\ a.fault \in BOOLEAN
    BY DeleteReply
  <1>2. DelCmd(r) \in Command
    BY DEF DelCmd, Command
  <1>3. used' \in UsedType
    BY <1>1 DEF TypeOK, Received, UsedType
  <1> QED
    BY <1>1, <1>2, <1>3 DEF TypeOK, Received, UntrackDeleted

LEMMA TypeKeepOrAdd ==
    ASSUME TypeOK, NEW r \in rc.todo, KeepOrAdd(r)
    PROVE  /\ table' \in SUBSET Route /\ late' \in SUBSET Command
           /\ used' \in UsedType /\ rule' \in BOOLEAN /\ down' \in SUBSET Iface
           /\ routes' \in SUBSET Route /\ unsure' \in SUBSET Route
           /\ absent' \in SUBSET Route
           /\ clean' \in BOOLEAN /\ rc' \in PassType
  <1>1. r \in Route
    BY DEF TypeOK, PassType
  <1>2. rc' \in PassType
    <2>1. \/ rc' = [rc EXCEPT !.todo = @ \ {r}, !.unknown = @ \ {r}]
          \/ rc' = [rc EXCEPT !.todo = @ \ {r}]
      BY Zenon DEF KeepOrAdd
    <2>2. rc \in PassType
      BY DEF TypeOK
    <2>3. CASE rc' = [rc EXCEPT !.todo = @ \ {r}, !.unknown = @ \ {r}]
      BY <2>2, <2>3 DEF PassType
    <2>4. CASE rc' = [rc EXCEPT !.todo = @ \ {r}]
      BY <2>2, <2>4 DEF PassType
    <2> QED
      BY <2>1, <2>3, <2>4
  <1>3. CASE Defined(r)
    BY <1>2, <1>3 DEF KeepOrAdd, TypeOK, kernel
  <1>4. CASE ~Defined(r)
    <2>1. PICK a \in Replies(AddCmd(r), rc.over) :
             /\ Received(a) /\ TrackAdded(r, a)
             /\ clean' = (clean /\ ~a.fault /\ ~rc.over)
      BY <1>4 DEF KeepOrAdd, AddCmd
    <2> QED
      BY <1>1, <1>2, <2>1, TypeAdded
  <1> QED
    BY <1>3, <1>4

LEMMA TypeKeepDynamic == TypeOK /\ KeepDynamic => TypeOK'
  <1> SUFFICES ASSUME TypeOK, KeepDynamic PROVE TypeOK'
    OBVIOUS
  <1>1. PICK r \in rc.todo :
           \/ KeepOrAdd(r)
           \/ /\ rc' = [rc EXCEPT !.todo = @ \ {r}]
              /\ UNCHANGED <<routes, unsure, absent, clean, used, kernel>>
    BY DEF KeepDynamic
  <1>2. CASE KeepOrAdd(r)
    BY <1>2, TypeKeepOrAdd DEF TypeOK, KeepDynamic, PassVars
  <1>3. CASE /\ rc' = [rc EXCEPT !.todo = @ \ {r}]
             /\ UNCHANGED <<routes, unsure, absent, clean, used, kernel>>
    BY <1>3 DEF TypeOK, KeepDynamic, PassVars, PassType, kernel
  <1> QED
    BY <1>1, <1>2, <1>3

LEMMA TypeKeepStatic == TypeOK /\ KeepStatic => TypeOK'
  BY TypeKeepOrAdd DEF TypeOK, KeepStatic, PassVars

LEMMA TypeDeleteUnknown == TypeOK /\ DeleteUnknown => TypeOK'
  <1> SUFFICES ASSUME TypeOK, DeleteUnknown PROVE TypeOK'
    OBVIOUS
  <1>1. PICK r \in rc.todo :
           /\ rc' = [rc EXCEPT !.todo = @ \ {r}]
           /\ \E a \in Replies(DelCmd(r), rc.over) :
                 /\ Received(a) /\ UntrackDeleted(r, a)
                 /\ clean' = (clean /\ ~a.fault /\ ~rc.over)
           /\ UNCHANGED absent
    BY DEF DeleteUnknown, DelCmd
  <1>2. r \in Route /\ rc' \in PassType
    BY <1>1 DEF TypeOK, PassType
  <1> QED
    BY <1>1, <1>2, TypeDeleted DEF TypeOK, DeleteUnknown, PassVars

LEMMA TypeTickerFires == TypeOK /\ TickerFires => TypeOK'
  BY DEF TypeOK, TickerFires, kernel, history, Caller

LEMMA TypeUpdateConfig ==
    ASSUME TypeOK, NEW c \in Config, UpdateConfig(c) PROVE TypeOK'
  <1>1. used' \in UsedType
    BY SpendType DEF UpdateConfig
  <1> QED
    BY <1>1 DEF TypeOK, UpdateConfig, kernel, history, Caller

\* Replacing one resolution by a well-formed one.
LEMMA TypeJobs ==
    ASSUME TypeOK, NEW j \in Resolver, NEW job \in JobType, JobOK(job),
           jobs' = [jobs EXCEPT ![j] = job]
    PROVE  jobs' \in [Resolver -> JobType] /\ \A k \in Resolver : JobOK(jobs'[k])
  BY DEF TypeOK

LEMMA TypeResolve ==
    ASSUME TypeOK, NEW j \in Resolver, NEW a \in Answer, Resolve(j, a)
    PROVE  TypeOK'
  <1> DEFINE job == [NoJob EXCEPT !.pc = "lookup", !.domain = a.domain,
                         !.chain = a.chain, !.ips = a.ips, !.ttl = TTL(a)]
  <1>1. a.domain \in Domain /\ a.chain \in SUBSET Domain /\ a.ips \in SUBSET IP
        /\ TTL(a) \in Nat
    BY AnswerAssumption DEF AnswerType, TTL
  <1>2. job \in JobType /\ JobOK(job)
    BY <1>1 DEF NoJob, JobType, JobOK
  <1>3. jobs' = [jobs EXCEPT ![j] = job]
    BY DEF Resolve
  <1>4. used' \in UsedType
    BY SpendType DEF Resolve
  <1> HIDE DEF job
  <1> QED
    BY <1>2, <1>3, <1>4, TypeJobs DEF TypeOK, Resolve, JobVars, history

LEMMA TypeLookupName ==
    ASSUME TypeOK, NEW j \in Resolver, LookupName(j) PROVE TypeOK'
  <1>1. PICK n \in jobs[j].chain, i \in Iface :
           jobs' = [jobs EXCEPT ![j] =
                [jobs[j] EXCEPT !.chain = @ \ {n},
                          !.ifaces = PutIface(@, n, i),
                          !.pc = IF jobs[j].chain = {n} THEN "store" ELSE @,
                          !.expires = now + jobs[j].ttl]]
    BY DEF LookupName
  <1> DEFINE job == [jobs[j] EXCEPT !.chain = @ \ {n},
                          !.ifaces = PutIface(@, n, i),
                          !.pc = IF jobs[j].chain = {n} THEN "store" ELSE @,
                          !.expires = now + jobs[j].ttl]
  <1>2. /\ jobs[j] \in JobType /\ JobOK(jobs[j]) /\ jobs[j].pc = "lookup"
        /\ now \in 0 .. MaxTime
    BY DEF TypeOK, LookupName
  <1>3. now + jobs[j].ttl \in Expiry
    <2>1. PICK a \in Answer : jobs[j].ttl = TTL(a)
      BY <1>2 DEF JobOK
    <2> QED
      BY <1>2, <2>1, AnswerAssumption
  <1>4. PutIface(jobs[j].ifaces, n, i) \in SUBSET Iface
    BY <1>2 DEF PutIface, JobType
  <1>5. job \in JobType /\ JobOK(job)
    BY <1>2, <1>3, <1>4, ExpiryAssumption DEF JobType, JobOK
  <1>6. jobs' = [jobs EXCEPT ![j] = job]
    BY <1>1
  <1> HIDE DEF job
  <1> QED
    BY <1>5, <1>6, TypeJobs DEF TypeOK, LookupName, JobVars, history

\* The next point of a resolution whose current address is ip.
LEMMA NextRouteType ==
    ASSUME NEW job \in JobType, job.domain \in Domain, job.expires \in Expiry,
           \E a \in Answer : job.ttl = TTL(a), job.ip \in IP
    PROVE  NextRoute(job) \in JobType /\ JobOK(NextRoute(job))
  <1>1. CASE job.pend # {}
    BY <1>1 DEF NextRoute, JobType, JobOK
  <1>2. CASE job.pend = {} /\ job.ips # {}
    BY <1>2 DEF NextRoute, JobType, JobOK
  <1>3. CASE job.pend = {} /\ job.ips = {}
    BY <1>3, NoJobType DEF NextRoute
  <1> QED
    BY <1>1, <1>2, <1>3

LEMMA TypeStoreAdd ==
    ASSUME TypeOK, NEW j \in Resolver, StoreAdd(j) PROVE TypeOK'
  <1>1. PICK ip \in jobs[j].ips :
           /\ records' = AddRec(records, [ip |-> ip, domain |-> jobs[j].domain,
                                          expires |-> jobs[j].expires])
           /\ jobs' = [jobs EXCEPT ![j] = Stored(jobs[j], ip)]
    BY DEF StoreAdd
  <1>2. /\ jobs[j] \in JobType /\ JobOK(jobs[j]) /\ jobs[j].pc = "store"
    BY DEF TypeOK, StoreAdd
  <1>3. ip \in IP /\ jobs[j].domain \in Domain /\ jobs[j].expires \in Expiry
    BY <1>2 DEF JobType, JobOK
  <1>4. records' \in SUBSET Record
    BY <1>1, <1>3 DEF TypeOK, AddRec, Record
  <1> DEFINE next == [jobs[j] EXCEPT !.ips = @ \ {ip}, !.ip = ip,
                                     !.pend = jobs[j].ifaces]
  <1>5. Stored(jobs[j], ip) \in JobType /\ JobOK(Stored(jobs[j], ip))
    <2>1. /\ next \in JobType /\ next.domain \in Domain
          /\ next.expires \in Expiry /\ next.ip \in IP
          /\ \E a \in Answer : next.ttl = TTL(a)
      BY <1>2, <1>3 DEF JobType, JobOK
    <2> HIDE DEF next
    <2>2. NextRoute(next) \in JobType /\ JobOK(NextRoute(next))
      BY <2>1, NextRouteType
    <2> QED
      BY <2>2 DEF Stored, next
  <1>6. owed' \in SUBSET (Route \X Domain) /\ renewed' \in SUBSET Route
    BY DEF TypeOK, StoreAdd
  <1> QED
    BY <1>1, <1>4, <1>5, <1>6, TypeJobs DEF TypeOK, StoreAdd, JobVars

LEMMA RoutedType ==
    ASSUME NEW job \in JobType, JobOK(job), job.pc \in {"route", "rpc"}, NEW i
    PROVE  Routed(job, i) \in JobType /\ JobOK(Routed(job, i))
  <1> DEFINE next == [job EXCEPT !.pend = @ \ {i}, !.iface = "none"]
  <1>1. /\ next \in JobType /\ next.domain \in Domain
        /\ next.expires \in Expiry /\ next.ip \in IP
        /\ \E a \in Answer : next.ttl = TTL(a)
    BY DEF JobType, JobOK
  <1> HIDE DEF next
  <1>2. NextRoute(next) \in JobType /\ JobOK(NextRoute(next))
    BY <1>1, NextRouteType
  <1> QED
    BY <1>2 DEF Routed, next

LEMMA TypeAddRoute ==
    ASSUME TypeOK, NEW j \in Resolver, AddRoute(j) PROVE TypeOK'
  <1>1. /\ jobs[j] \in JobType /\ JobOK(jobs[j]) /\ jobs[j].pc = "route"
        /\ jobs[j].domain \in Domain /\ jobs[j].ip \in IP
    BY DEF TypeOK, AddRoute, JobOK
  <1>2. PICK i \in jobs[j].pend :
           LET r == RouteOf(i, jobs[j].ip) IN
           \/ /\ jobs' = [jobs EXCEPT ![j] = Routed(jobs[j], i)]
              /\ owed' = owed \cup {<<r, jobs[j].domain>>}
              /\ UNCHANGED routesMu
           \/ /\ jobs' = [jobs EXCEPT ![j] =
                              [jobs[j] EXCEPT !.pc = "rpc", !.iface = i]]
              /\ routesMu' = j
              /\ UNCHANGED owed
    BY DEF AddRoute
  <1> DEFINE r == RouteOf(i, jobs[j].ip)
  <1>3. i \in Iface /\ r \in Route
    BY <1>1 DEF JobType, RouteOf, Route, Addr
  <1>4. CASE /\ jobs' = [jobs EXCEPT ![j] = Routed(jobs[j], i)]
             /\ owed' = owed \cup {<<r, jobs[j].domain>>}
             /\ UNCHANGED routesMu
    <2>1. owed' \in SUBSET (Route \X Domain)
      BY <1>1, <1>3, <1>4 DEF TypeOK
    <2>2. Routed(jobs[j], i) \in JobType /\ JobOK(Routed(jobs[j], i))
      BY <1>1, RoutedType
    <2> QED
      BY <1>4, <2>1, <2>2, TypeJobs DEF TypeOK, AddRoute, JobVars, doubts
  <1>5. CASE /\ jobs' = [jobs EXCEPT ![j] =
                              [jobs[j] EXCEPT !.pc = "rpc", !.iface = i]]
             /\ routesMu' = j
             /\ UNCHANGED owed
    <2> DEFINE job == [jobs[j] EXCEPT !.pc = "rpc", !.iface = i]
    <2>1. job \in JobType /\ JobOK(job)
      BY <1>1, <1>3 DEF JobType, JobOK
    <2>2. jobs' = [jobs EXCEPT ![j] = job]
      BY <1>5
    <2> HIDE DEF job
    <2> QED
      BY <1>5, <2>1, <2>2, TypeJobs DEF TypeOK, AddRoute, JobVars, doubts
  <1> QED
    BY <1>2, <1>4, <1>5

LEMMA TypeAddRouteRPC ==
    ASSUME TypeOK, NEW j \in Resolver, AddRouteRPC(j) PROVE TypeOK'
  <1> DEFINE r == RouteOf(jobs[j].iface, jobs[j].ip)
             o == {<<r, jobs[j].domain>>}
  <1>1. /\ jobs[j] \in JobType /\ JobOK(jobs[j]) /\ jobs[j].pc = "rpc"
        /\ jobs[j].domain \in Domain /\ jobs[j].ip \in IP
        /\ jobs[j].iface \in Iface
    BY DEF TypeOK, AddRouteRPC, JobOK, JobType
  <1>2. r \in Route
    BY <1>1 DEF RouteOf, Route, Addr
  <1>3. PICK a \in Replies(AddCmd(r), FALSE) :
           /\ Received(a) /\ TrackAdded(r, a)
           /\ owed' = IF a.ok THEN owed \cup o ELSE owed \ o
           /\ routesMu' = "free"
    BY DEF AddRouteRPC, AddCmd, UnlockRoutes
  <1>4. owed' \in SUBSET (Route \X Domain)
    BY <1>1, <1>2, <1>3 DEF TypeOK
  <1>5. jobs' = [jobs EXCEPT ![j] = Routed(jobs[j], jobs[j].iface)]
    BY DEF AddRouteRPC
  <1>6. /\ Routed(jobs[j], jobs[j].iface) \in JobType
        /\ JobOK(Routed(jobs[j], jobs[j].iface))
    BY <1>1, RoutedType
  <1>7. /\ table' \in SUBSET Route /\ late' \in SUBSET Command
        /\ used' \in UsedType /\ rule' \in BOOLEAN /\ down' \in SUBSET Iface
        /\ routes' \in SUBSET Route /\ unsure' \in SUBSET Route
        /\ absent' \in SUBSET Route
    BY <1>2, <1>3, TypeAdded
  <1> QED
    BY <1>3, <1>4, <1>5, <1>6, <1>7, TypeJobs DEF TypeOK, AddRouteRPC

LEMMA TypeTick == TypeOK /\ Tick => TypeOK'
  BY BoundsAssumption DEF TypeOK, Tick, controller, kernel, history

LEMMA TypeSave == TypeOK /\ Save => TypeOK'
  BY DEF TypeOK, Save, controller, kernel, history

LEMMA TypeExit == TypeOK /\ Exit => TypeOK'
  <1> SUFFICES ASSUME TypeOK, Exit PROVE TypeOK'
    OBVIOUS
  <1>1. used' \in UsedType
    BY SpendType DEF Exit
  <1>2. rc' \in PassType
    BY IdleType DEF Exit, TypeOK
  <1>3. jobs' \in [Resolver -> JobType] /\ \A j \in Resolver : JobOK(jobs'[j])
    BY NoJobType DEF Exit
  <1> QED
    BY <1>1, <1>2, <1>3 DEF TypeOK, Exit, kernel

LEMMA InitRoutesType ==
    ASSUME NEW c \in Config, NEW R \in SUBSET Record, NEW pick \in Picks(c, R)
    PROVE  InitRoutes(c, R, pick) \in SUBSET Route
  BY DEF InitRoutes, Picks, RouteOf, Route, Addr, Record

LEMMA TypeRestart == TypeOK /\ Restart => TypeOK'
  <1> SUFFICES ASSUME TypeOK, Restart PROVE TypeOK'
    OBVIOUS
  <1>1. PICK c \in Config : \E pick \in Picks(c, dump) :
           /\ cfg' = c /\ rc' = IdleWith(c)
           /\ routes' = InitRoutes(c, dump, pick)
           /\ unsure' = InitRoutes(c, dump, pick)
    BY DEF Restart
  <1>2. routes' \in SUBSET Route /\ unsure' \in SUBSET Route
    BY <1>1, InitRoutesType DEF TypeOK
  <1>3. rc' \in PassType
    BY <1>1, IdleType
  <1> QED
    BY <1>1, <1>2, <1>3 DEF TypeOK, Restart, kernel, Caller

LEMMA TypeOutside ==
    ASSUME TypeOK,
           \/ \E i \in Iface : InterfaceDown(i)
           \/ \E r \in ForeignRoute : ForeignAdd(r)
           \/ RuleLost
           \/ \E i \in Iface : CarrierLost(i) \/ CarrierBack(i)
    PROVE  TypeOK'
  <1>1. used' \in UsedType
    BY SpendType
       DEF InterfaceDown, ForeignAdd, RuleLost, CarrierLost, CarrierBack, TypeOK
  <1>2. CASE \E i \in Iface : InterfaceDown(i)
    BY <1>1, <1>2 DEF TypeOK, InterfaceDown, OutsideVars, controller
  <1>3. CASE \E r \in ForeignRoute : ForeignAdd(r)
    BY <1>1, <1>3, ForeignAssumption
       DEF TypeOK, ForeignAdd, OutsideVars, controller, IpRouteAdd
  <1>4. CASE RuleLost
    BY <1>1, <1>4 DEF TypeOK, RuleLost, OutsideVars, controller
  <1>5. CASE \E i \in Iface : CarrierLost(i) \/ CarrierBack(i)
    BY <1>1, <1>5 DEF TypeOK, CarrierLost, CarrierBack, OutsideVars, controller
  <1> QED
    BY <1>2, <1>3, <1>4, <1>5

\* What a late command does to the table.
LEMMA RunTable ==
    ASSUME NEW T, NEW c \in Command
    PROVE  /\ Run(T, c) \subseteq T \cup {c.route}
           /\ T \ {c.route} \subseteq Run(T, c)
           /\ c.op # "delete" => T \subseteq Run(T, c)
  BY DEF Run, IpRouteAdd, IpRouteDel, Command

LEMMA TypeLateCommand ==
    ASSUME TypeOK, NEW c \in late, LateCommand(c) PROVE TypeOK'
  <1>1. c \in Command /\ c.route \in Route
    BY DEF TypeOK, Command
  <1>2. table' \in SUBSET Route
    BY <1>1, RunTable DEF TypeOK, LateCommand
  <1>3. unsure' \in SUBSET Route /\ clean' \in BOOLEAN
    BY <1>1 DEF TypeOK, LateCommand
  <1> QED
    BY <1>2, <1>3 DEF TypeOK, LateCommand, OutsideVars, controller

LEMMA TypeNext == TypeOK /\ [Next]_vars => TypeOK'
  <1> SUFFICES ASSUME TypeOK, [Next]_vars PROVE TypeOK'
    OBVIOUS
  <1>1. CASE \E who \in Caller : Reconcile(who)
    BY <1>1, TypeReconcile
  <1>2. CASE PassStep \/ Timeout
    BY <1>2, TypeRemoveExpired, TypeHasRule, TypeAddRule, TypeLoadRoutes,
       TypeKeepDynamic, TypeKeepStatic, TypeDeleteUnknown, TypeNextLoop,
       TypeEndReconcile, TypeTimeout DEF PassStep
  <1>3. CASE TickerFires \/ \E c \in Config : UpdateConfig(c)
    BY <1>3, TypeTickerFires, TypeUpdateConfig
  <1>4. CASE \E j \in Resolver : \/ \E a \in Answer : Resolve(j, a)
                                 \/ JobStep(j)
                                 \/ AddRoute(j)
    BY <1>4, TypeResolve, TypeLookupName, TypeStoreAdd, TypeAddRouteRPC,
       TypeAddRoute DEF JobStep
  <1>5. CASE Tick \/ Save \/ Exit \/ Restart
    BY <1>5, TypeTick, TypeSave, TypeExit, TypeRestart
  <1>6. CASE \/ \E i \in Iface : InterfaceDown(i)
             \/ \E r \in ForeignRoute : ForeignAdd(r)
             \/ RuleLost
             \/ \E i \in Iface : CarrierLost(i) \/ CarrierBack(i)
    BY <1>6, TypeOutside
  <1>7. CASE \E c \in late : LateCommand(c)
    BY <1>7, TypeLateCommand
  <1>8. CASE UNCHANGED vars
    BY <1>8 DEF TypeOK, vars, controller, kernel, history
  <1> QED
    BY <1>1, <1>2, <1>3, <1>4, <1>5, <1>6, <1>7, <1>8 DEF Next

\* Type correctness of the controller and its environment, including which
\* fields of a resolution are meaningful when.
THEOREM TypeCorrect == Spec => []TypeOK
  BY TypeInit, TypeNext, PTL DEF Spec
=============================================================================
