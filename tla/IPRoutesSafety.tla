--------------------------- MODULE IPRoutesSafety ---------------------------
(***************************************************************************)
(* The safety properties of the route controller, proved from an inductive *)
(* invariant: the two mutexes exclude what they should (LockInv), a pass   *)
(* belongs to a caller that waits for it (PassInv), what the last list     *)
(* showed is not counted as absent (ListInv), and a route that is owed to  *)
(* a live record is tracked and not condemned by the pass under way, or is *)
(* being asked for again (OwedInv).                                        *)
(***************************************************************************)
EXTENDS IPRoutesProofs

InLoops == rc.pc \in {"dynamic", "static", "delete"}

LockInv == /\ routesMu = "pass" <=> InLoops
           /\ \A j \in Resolver : routesMu = j <=> jobs[j].pc = "rpc"

PassInv == /\ rc.unknown \subseteq rc.defined
           /\ phase = "down" => owed = {} /\ rc.pc = "idle"

\* The pass under way has seen the route, did not keep it, and may delete it.
Condemned(r) == \/ rc.pc = "dynamic" /\ r \in rc.unknown \ rc.todo
                \/ rc.pc = "static" /\ r \in rc.unknown
                \/ rc.pc = "delete" /\ r \in rc.todo

OwedInv ==
    Up => \A o \in owed :
             LiveRecord(o[1], o[2]) =>
                \/ Asking(o[1], o[2])
                \/ o[1] \in routes /\ ~Condemned(o[1])

CallerInv == /\ rc.pc = "idle" <=> rc.who = "none"
             /\ rc.pc # "idle" => rc.who \in wants

WatcherInv == /\ rc.who = "watcher" => rc.cfg = cfg
              /\ Up /\ "watcher" \notin wants => rc.cfg = cfg

-----------------------------------------------------------------------------
(* Steps that leave the tracked routes and the resolutions alone, and under *)
(* which no record comes to life.                                           *)

Quiet == \/ \E who \in Caller : Reconcile(who)
         \/ RemoveExpired \/ HasRule \/ AddRule \/ NextLoop \/ EndReconcile
         \/ Timeout \/ TickerFires \/ \E c \in Config : UpdateConfig(c)
         \/ Tick \/ Save \/ UNCHANGED vars
         \/ \E i \in Iface : InterfaceDown(i)
         \/ \E r \in ForeignRoute : ForeignAdd(r)
         \/ RuleLost
         \/ \E i \in Iface : CarrierLost(i) \/ CarrierBack(i)
         \/ \E c \in late : LateCommand(c)

LEMMA QuietFrame ==
    ASSUME TypeOK, Quiet
    PROVE  /\ UNCHANGED <<jobs, owed, routes, absent, renewed>>
           /\ Up' => Up
           /\ records' \subseteq records
           /\ now' \in Nat /\ now <= now'
  <1>1. UNCHANGED <<jobs, owed, routes, absent, renewed>>
    BY DEF Quiet, Reconcile, RemoveExpired, HasRule, AddRule, NextLoop,
           EndReconcile, Timeout, TickerFires, UpdateConfig, Tick, Save,
           InterfaceDown, ForeignAdd, RuleLost, CarrierLost, CarrierBack,
           LateCommand, PassVars, OutsideVars, controller, history, doubts, vars
  <1>2. Up' => Up
    BY DEF Quiet, Reconcile, RemoveExpired, HasRule, AddRule, NextLoop,
           EndReconcile, Timeout, TickerFires, UpdateConfig, Tick, Save,
           InterfaceDown, ForeignAdd, RuleLost, CarrierLost, CarrierBack,
           LateCommand, PassVars, OutsideVars, controller, vars, Up
  <1>3. records' \subseteq records
    BY DEF Quiet, Reconcile, RemoveExpired, HasRule, AddRule, NextLoop,
           EndReconcile, Timeout, TickerFires, UpdateConfig, Tick, Save,
           InterfaceDown, ForeignAdd, RuleLost, CarrierLost, CarrierBack,
           LateCommand, PassVars, OutsideVars, controller, vars
  <1>4. now' = now \/ now' = now + 1
    BY DEF Quiet, Reconcile, RemoveExpired, HasRule, AddRule, NextLoop,
           EndReconcile, Timeout, TickerFires, UpdateConfig, Tick, Save,
           InterfaceDown, ForeignAdd, RuleLost, CarrierLost, CarrierBack,
           LateCommand, PassVars, OutsideVars, controller, vars
  <1>5. now \in Nat
    BY BoundsAssumption DEF TypeOK
  <1> QED
    BY <1>1, <1>2, <1>3, <1>4, <1>5

\* A record with time left for the shorter timeout has some for the longer.
LEMMA LiveLonger ==
    ASSUME TypeOK, NEW addr, NEW timeout \in Nat, ~HasLive(addr, timeout)
    PROVE  ~HasLive(addr, 0)
  <1> SUFFICES ASSUME NEW rec \in LookupIP(records, addr), ~Expired(rec, now, 0)
               PROVE  FALSE
    BY DEF HasLive
  <1>1. rec \in Record
    BY DEF LookupIP, TypeOK
  <1>2. rec.expires \in Nat
    BY <1>1, ExpiryAssumption DEF Record
  <1>3. now \in Nat
    BY BoundsAssumption DEF TypeOK
  <1>4. ~Expired(rec, now, timeout)
    BY <1>2, <1>3 DEF Expired
  <1> QED
    BY <1>4 DEF HasLive

LEMMA NoneLive ==
    ASSUME TypeOK, NEW addr, ~HasLive(addr, 0),
           {rec \in records' : rec.ip = addr} \subseteq records,
           now' \in Nat, now <= now'
    PROVE  ~HasLive(addr, 0)'
  <1> SUFFICES ASSUME NEW rec \in LookupIP(records', addr), ~Expired(rec, now', 0)
               PROVE  FALSE
    BY DEF HasLive
  <1>1. rec \in LookupIP(records, addr) /\ rec \in Record
    BY DEF LookupIP, TypeOK
  <1>2. rec.expires \in Nat
    BY <1>1, ExpiryAssumption DEF Record
  <1>3. now \in Nat
    BY BoundsAssumption DEF TypeOK
  <1>4. ~Expired(rec, now, 0)
    BY <1>2, <1>3 DEF Expired
  <1> QED
    BY <1>1, <1>4 DEF HasLive
-----------------------------------------------------------------------------
(* Tracked routes are installed. *)

\* What the last list showed was not absent from it, nor has become so since.
ListInv == rc.defined \cap absent = {}

\* A withheld route stays withheld unless it is added, a new list shows it, or
\* the loop comes to it, as long as no record of its address comes to life.
LEMMA WithheldKept ==
    ASSUME TypeOK, NEW r, Withheld(r), r \in absent', renewed \subseteq renewed',
           Undecided(r) => Undecided(r)',
           {rec \in records' : rec.ip = r.addr} \subseteq records,
           now' \in Nat, now <= now'
    PROVE  Withheld(r)'
  <1>1. CASE Undecided(r) \/ r \in renewed
    BY <1>1 DEF Withheld
  <1>2. CASE ~HasLive(r.addr, 0)
    <2>1. ~HasLive(r.addr, 0)'
      BY <1>2, NoneLive
    <2> QED
      BY <2>1 DEF Withheld
  <1> QED
    BY <1>1, <1>2 DEF Withheld

LEMMA TrackedQuiet ==
    ASSUME TypeOK, TrackedInstalled, Quiet PROVE TrackedInstalled'
  <1> SUFFICES ASSUME Up', NEW r \in routes' \ table'
               PROVE  r \in unsure' \/ Withheld(r)'
    BY DEF TrackedInstalled
  <1>1. /\ UNCHANGED <<routes, absent, renewed>> /\ Up
        /\ records' \subseteq records /\ now' \in Nat /\ now <= now'
    BY QuietFrame
  <1>2. unsure \subseteq unsure' /\ (r \in table => r \in unsure')
    <2>1. CASE \E i \in Iface : InterfaceDown(i)
      BY <1>1, <2>1 DEF InterfaceDown
    <2>2. ASSUME NEW c \in late, LateCommand(c)
          PROVE  unsure \subseteq unsure' /\ (r \in table => r \in unsure')
      <3>1. c \in Command
        BY DEF TypeOK
      <3> QED
        BY <1>1, <2>2, <3>1, RunTable DEF LateCommand
    <2>3. CASE UNCHANGED unsure /\ table \subseteq table'
      BY <2>3
    <2> QED
      BY <2>1, <2>2, <2>3 DEF Quiet, Reconcile, RemoveExpired, HasRule, AddRule,
         NextLoop, EndReconcile, Timeout, TickerFires, UpdateConfig, Tick, Save,
         ForeignAdd, IpRouteAdd, RuleLost, CarrierLost, CarrierBack, kernel,
         history, doubts, vars
  <1>3. Undecided(r) => Undecided(r)'
    <2> SUFFICES ASSUME rc.pc = "dynamic", r \in rc.todo
                 PROVE  rc'.pc = "dynamic" /\ r \in rc'.todo
      BY DEF Undecided
    <2>1. CASE Timeout
      BY <2>1 DEF Timeout, TypeOK, PassType
    <2>2. CASE UNCHANGED rc
      BY <2>2
    <2> QED
      BY <2>1, <2>2 DEF Quiet, Reconcile, RemoveExpired, HasRule, AddRule,
         NextLoop, EndReconcile, TickerFires, UpdateConfig, Tick, Save,
         InterfaceDown, ForeignAdd, RuleLost, CarrierLost, CarrierBack,
         LateCommand, OutsideVars, controller, vars
  <1>4. Withheld(r) => Withheld(r)'
    <2> SUFFICES ASSUME Withheld(r) PROVE Withheld(r)'
      OBVIOUS
    <2>1. r \in absent' /\ renewed \subseteq renewed'
      BY <1>1 DEF Withheld
    <2>2. {rec \in records' : rec.ip = r.addr} \subseteq records
      BY <1>1
    <2> QED
      BY <1>1, <1>3, <2>1, <2>2, WithheldKept
  <1> QED
    BY <1>1, <1>2, <1>4 DEF TrackedInstalled

\* An add leaves its route installed or in doubt, and the others as they were.
LEMMA AddKeepsTracked ==
    ASSUME NEW q \in Route, NEW over, NEW a \in Replies(AddCmd(q), over),
           Received(a), TrackAdded(q, a), NEW r \in routes' \ table'
    PROVE  /\ r \in routes \ table
           /\ r = q => r \in unsure'
           /\ r # q => (r \in unsure => r \in unsure') /\ (r \in absent => r \in absent')
  <1>1. /\ table \subseteq a.table
        /\ a.ok => q \in a.table
        /\ a.ok \in BOOLEAN
    BY AddReply
  <1>2. table' = a.table
    BY DEF Received
  <1>3. CASE a.ok
    BY <1>1, <1>2, <1>3 DEF TrackAdded
  <1>4. CASE ~a.ok
    BY <1>1, <1>2, <1>4 DEF TrackAdded
  <1> QED
    BY <1>3, <1>4

\* A delete takes its route from the tracked ones or puts it in doubt.
LEMMA DeleteKeepsTracked ==
    ASSUME NEW q \in Route, NEW over, NEW a \in Replies(DelCmd(q), over),
           Received(a), UntrackDeleted(q, a), NEW r \in routes' \ table'
    PROVE  /\ r \in routes
           /\ r \in table => r \in unsure'
           /\ r \in unsure => r \in unsure'
  <1>1. /\ table \ {q} \subseteq a.table
        /\ a.ok \in BOOLEAN /\ a.fault \in BOOLEAN
        /\ ~a.ok /\ ~a.fault => a.table = table
    BY DeleteReply
  <1> QED
    BY <1>1 DEF Received, UntrackDeleted

\* The closure addRoute; a route the list showed is not among the absent.
LEMMA KeepOrAddKeepsTracked ==
    ASSUME ListInv, NEW q \in Route, KeepOrAdd(q), NEW r \in routes' \ table'
    PROVE  /\ r \in routes \ table
           /\ r \in unsure => r \in unsure'
           /\ r \in absent => r \in unsure' \/ (r # q /\ r \in absent')
  <1>1. CASE Defined(q)
    BY <1>1 DEF KeepOrAdd, Defined, ListInv, kernel
  <1>2. CASE ~Defined(q)
    BY <1>2, AddKeepsTracked DEF KeepOrAdd, AddCmd
  <1> QED
    BY <1>1, <1>2

LEMMA TrackedKeepDynamic ==
    ASSUME TypeOK, ListInv, TrackedInstalled, KeepDynamic PROVE TrackedInstalled'
  <1>1. PICK q \in rc.todo :
           IF HasLive(q.addr, rc.cfg.timeout) THEN KeepOrAdd(q)
           ELSE /\ rc' = [rc EXCEPT !.todo = @ \ {q}]
                /\ UNCHANGED <<routes, unsure, absent, clean, used, kernel>>
    BY DEF KeepDynamic
  <1>2. /\ UNCHANGED <<phase, now, records, renewed>> /\ Up /\ rc.pc = "dynamic"
    BY DEF KeepDynamic, PassVars
  <1>3. q \in Route /\ rc.cfg.timeout \in Nat /\ now \in Nat
    BY ConfigAssumption, BoundsAssumption DEF TypeOK, PassType, ConfigType
  <1> SUFFICES ASSUME NEW r \in routes' \ table'
               PROVE  r \in unsure' \/ Withheld(r)'
    BY DEF TrackedInstalled
  <1>4. r # q => (Undecided(r) => Undecided(r)')
    <2>1. \/ rc' = [rc EXCEPT !.todo = @ \ {q}]
          \/ rc' = [rc EXCEPT !.todo = @ \ {q}, !.unknown = @ \ {q}]
      BY <1>1, Zenon DEF KeepOrAdd
    <2>2. rc'.pc = rc.pc /\ rc'.todo = rc.todo \ {q}
      BY <2>1 DEF TypeOK, PassType
    <2> QED
      BY <1>2, <2>2, Zenon DEF Undecided
  <1>5. CASE HasLive(q.addr, rc.cfg.timeout)
    <2>1. /\ r \in routes \ table
          /\ r \in unsure => r \in unsure'
          /\ r \in absent => r \in unsure' \/ (r # q /\ r \in absent')
      BY <1>1, <1>3, <1>5, KeepOrAddKeepsTracked
    <2>2. CASE r \in unsure'
      BY <2>2
    <2>3. CASE r \notin unsure'
      <3>1. Withheld(r) /\ r # q /\ r \in absent'
        BY <1>2, <2>1, <2>3 DEF TrackedInstalled, Withheld
      <3> QED
        BY <1>2, <1>3, <1>4, <3>1, WithheldKept
    <2> QED
      BY <2>2, <2>3
  <1>6. CASE ~HasLive(q.addr, rc.cfg.timeout)
    <2>1. UNCHANGED <<routes, table, unsure, absent>>
      BY <1>1, <1>6 DEF kernel
    <2>2. CASE r \in unsure
      BY <2>1, <2>2
    <2>3. CASE Withheld(r) /\ r # q
      <3>1. r \in absent'
        BY <2>1, <2>3 DEF Withheld
      <3> QED
        BY <1>2, <1>3, <1>4, <2>3, <3>1, WithheldKept
    <2>4. CASE Withheld(r) /\ r = q
      <3>1. ~HasLive(r.addr, 0)
        BY <1>3, <1>6, <2>4, LiveLonger
      <3>2. ~HasLive(r.addr, 0)'
        BY <1>2, <1>3, <3>1, NoneLive
      <3> QED
        BY <2>1, <2>4, <3>2 DEF Withheld
    <2> QED
      BY <1>2, <2>1, <2>2, <2>3, <2>4 DEF TrackedInstalled
  <1> QED
    BY <1>5, <1>6

\* A record that comes to an address marks the routes the loop has passed.
LEMMA TrackedStoreAdd ==
    ASSUME TypeOK, TrackedInstalled, NEW j \in Resolver, StoreAdd(j)
    PROVE  TrackedInstalled'
  <1>1. PICK ip \in jobs[j].ips :
           /\ records' = AddRec(records, [ip |-> ip, domain |-> jobs[j].domain,
                                          expires |-> jobs[j].expires])
           /\ renewed' = renewed \cup {r \in absent : r.addr = ip /\ ~Undecided(r)}
    BY DEF StoreAdd
  <1>2. /\ UNCHANGED <<phase, now, rc, routes, table, unsure, absent>> /\ Up
    BY DEF StoreAdd, JobVars
  <1>3. now \in Nat
    BY BoundsAssumption DEF TypeOK
  <1> SUFFICES ASSUME NEW r \in routes \ table, Withheld(r) PROVE Withheld(r)'
    BY <1>2 DEF TrackedInstalled
  <1>4. r \in absent /\ (Undecided(r) <=> Undecided(r)')
    BY <1>2 DEF Withheld, Undecided
  <1>5. CASE Undecided(r) \/ r \in renewed'
    BY <1>2, <1>4, <1>5 DEF Withheld
  <1>6. CASE ~Undecided(r) /\ r \notin renewed'
    <2>1. r.addr # ip
      BY <1>1, <1>4, <1>6
    <2>2. {rec \in records' : rec.ip = r.addr} \subseteq records
      BY <1>1, <2>1 DEF AddRec
    <2>3. r \in absent' /\ renewed \subseteq renewed' /\ now' = now
      BY <1>1, <1>2, <1>4
    <2> QED
      BY <1>3, <1>6, <2>2, <2>3, WithheldKept
  <1> QED
    BY <1>5, <1>6

LEMMA TrackedNext ==
    TypeOK /\ ListInv /\ TrackedInstalled /\ [Next]_vars => TrackedInstalled'
  <1> SUFFICES ASSUME TypeOK, ListInv, TrackedInstalled, [Next]_vars
               PROVE  TrackedInstalled'
    OBVIOUS
  <1>0. now \in Nat
    BY BoundsAssumption DEF TypeOK
  <1>1. CASE LoadRoutes
    <2>1. /\ UNCHANGED <<routes, table>> /\ Up
          /\ rc'.pc = "dynamic" /\ rc'.todo = routes
          /\ \/ absent' = routes \ Listed(table)
             \/ UNCHANGED <<unsure, absent>>
      BY <1>1 DEF LoadRoutes, kernel, doubts, TypeOK, PassType
    <2> QED
      BY <2>1 DEF TrackedInstalled, Withheld, Undecided, Listed
  <1>2. CASE KeepStatic
    <2>1. PICK q \in rc.todo : KeepOrAdd(q)
      BY <1>2 DEF KeepStatic
    <2>2. /\ UNCHANGED <<phase, now, records, renewed>> /\ Up /\ rc.pc = "static"
      BY <1>2 DEF KeepStatic, PassVars
    <2>3. q \in Route
      BY DEF TypeOK, PassType
    <2> SUFFICES ASSUME NEW r \in routes' \ table', r \notin unsure'
                 PROVE  Withheld(r)'
      BY DEF TrackedInstalled
    <2>4. Withheld(r) /\ r \in absent' /\ ~Undecided(r)
      BY <2>1, <2>2, <2>3, KeepOrAddKeepsTracked
         DEF TrackedInstalled, Withheld, Undecided
    <2> QED
      BY <1>0, <2>2, <2>4, WithheldKept
  <1>3. CASE DeleteUnknown
    <2>1. PICK q \in rc.todo : \E a \in Replies(DelCmd(q), rc.over) :
             Received(a) /\ UntrackDeleted(q, a)
      BY <1>3 DEF DeleteUnknown, DelCmd
    <2>2. /\ UNCHANGED <<phase, now, records, absent, renewed>> /\ Up
          /\ rc.pc = "delete"
      BY <1>3 DEF DeleteUnknown, PassVars
    <2>3. q \in Route
      BY DEF TypeOK, PassType
    <2> SUFFICES ASSUME NEW r \in routes' \ table', r \notin unsure'
                 PROVE  Withheld(r)'
      BY DEF TrackedInstalled
    <2>4. Withheld(r) /\ r \in absent' /\ ~Undecided(r)
      BY <2>1, <2>2, <2>3, DeleteKeepsTracked
         DEF TrackedInstalled, Withheld, Undecided
    <2> QED
      BY <1>0, <2>2, <2>4, WithheldKept
  <1>4. ASSUME NEW j \in Resolver,
               \/ \E a \in Answer : Resolve(j, a)
               \/ LookupName(j) \/ AddRoute(j)
        PROVE  TrackedInstalled'
    <2>1. UNCHANGED <<phase, now, rc, records, routes, table, unsure, absent, renewed>>
      BY <1>4 DEF Resolve, LookupName, AddRoute, JobVars, history, doubts
    <2>2. \A r : Undecided(r) <=> Undecided(r)'
      BY <2>1 DEF Undecided
    <2>3. \A r : Withheld(r) => Withheld(r)'
      BY <1>0, <2>1, <2>2, WithheldKept DEF Withheld
    <2> QED
      BY <2>1, <2>3 DEF TrackedInstalled, Up
  <1>5. ASSUME NEW j \in Resolver, AddRouteRPC(j) PROVE TrackedInstalled'
    <2> DEFINE q == RouteOf(jobs[j].iface, jobs[j].ip)
    <2>1. /\ Up /\ UNCHANGED <<phase, now, rc, records, renewed>>
          /\ \E a \in Replies(AddCmd(q), FALSE) : Received(a) /\ TrackAdded(q, a)
      BY <1>5 DEF AddRouteRPC, AddCmd
    <2>2. q \in Route
      BY <1>5 DEF TypeOK, AddRouteRPC, JobOK, JobType, RouteOf, Route, Addr
    <2> HIDE DEF q
    <2> SUFFICES ASSUME NEW r \in routes' \ table', r \notin unsure'
                 PROVE  Withheld(r)'
      BY DEF TrackedInstalled
    <2>3. Withheld(r) /\ r \in absent'
      BY <2>1, <2>2, AddKeepsTracked DEF TrackedInstalled, Withheld
    <2>4. Undecided(r) => Undecided(r)'
      BY <2>1 DEF Undecided
    <2> QED
      BY <1>0, <2>1, <2>3, <2>4, WithheldKept
  <1>6. CASE Exit \/ Restart
    BY <1>6 DEF Exit, Restart, TrackedInstalled, Up
  <1> QED
    BY <1>1, <1>2, <1>3, <1>4, <1>5, <1>6, TrackedQuiet, TrackedKeepDynamic,
       TrackedStoreAdd DEF Next, PassStep, JobStep, Quiet

LEMMA ListNext == TypeOK /\ ListInv /\ [Next]_vars => ListInv'
  <1> SUFFICES ASSUME TypeOK, ListInv, [Next]_vars PROVE ListInv'
    OBVIOUS
  <1>1. CASE (\E who \in Caller : Reconcile(who)) \/ EndReconcile \/ Exit \/ Restart
    <2>1. rc'.defined = {}
      <3>1. CASE \E who \in Caller : Reconcile(who)
        BY <3>1 DEF Reconcile, IdleWith
      <3>2. CASE Restart
        BY <3>2 DEF Restart, IdleWith
      <3> QED
        BY <1>1, <3>1, <3>2 DEF EndReconcile, Exit, IdleWith
    <2> QED
      BY <2>1 DEF ListInv
  <1>2. CASE LoadRoutes
    BY <1>2 DEF LoadRoutes, doubts, ListInv, TypeOK, PassType
  <1>3. CASE KeepDynamic \/ KeepStatic \/ DeleteUnknown
    <2>1. rc'.defined = rc.defined
      <3>1. \E r \in rc.todo :
              \/ rc' = [rc EXCEPT !.todo = @ \ {r}]
              \/ rc' = [rc EXCEPT !.todo = @ \ {r}, !.unknown = @ \ {r}]
        BY <1>3, Zenon DEF KeepDynamic, KeepStatic, KeepOrAdd, DeleteUnknown
      <3> QED
        BY <3>1 DEF TypeOK, PassType
    <2>2. absent' \subseteq absent
      BY <1>3 DEF KeepDynamic, KeepStatic, KeepOrAdd, TrackAdded, DeleteUnknown
    <2> QED
      BY <2>1, <2>2 DEF ListInv
  <1>4. CASE HasRule \/ AddRule \/ RemoveExpired \/ NextLoop \/ Timeout
    <2>1. rc'.defined = rc.defined
      BY <1>4 DEF HasRule, AddRule, RemoveExpired, NextLoop, Timeout, TypeOK, PassType
    <2>2. UNCHANGED absent
      BY <1>4 DEF HasRule, AddRule, RemoveExpired, NextLoop, Timeout, history, doubts
    <2> QED
      BY <2>1, <2>2 DEF ListInv
  <1>5. ASSUME NEW j \in Resolver,
               \/ \E a \in Answer : Resolve(j, a)
               \/ LookupName(j) \/ StoreAdd(j) \/ AddRoute(j) \/ AddRouteRPC(j)
        PROVE  ListInv'
    BY <1>5 DEF Resolve, LookupName, StoreAdd, AddRoute, AddRouteRPC, TrackAdded,
                JobVars, history, doubts, ListInv
  <1>6. CASE Quiet /\ UNCHANGED rc
    BY <1>6, QuietFrame DEF ListInv
  <1> QED
    BY <1>1, <1>2, <1>3, <1>4, <1>5, <1>6 DEF Next, PassStep, JobStep, Quiet,
       TickerFires, UpdateConfig, Tick, Save, InterfaceDown, ForeignAdd, RuleLost,
       CarrierLost, CarrierBack, LateCommand, OutsideVars, controller, vars

\* A route the controller tracks is in the kernel's table, unless that was put
\* in doubt since the table was last listed, or the last list did not show it
\* and it is withheld: addRoute and deleteRoute touch the set only on a good
\* reply, and what a pass has seen to be missing, it adds while a record lives.
THEOREM Tracked == Spec => []TrackedInstalled
  <1>1. Init => TrackedInstalled /\ ListInv
    BY DEF Init, TrackedInstalled, ListInv
  <1> QED
    BY <1>1, TrackedNext, ListNext, TypeCorrect, PTL DEF Spec
-----------------------------------------------------------------------------
(* The configuration of the last pass. *)

InnerStep == \/ RemoveExpired \/ HasRule \/ AddRule \/ LoadRoutes \/ KeepDynamic
             \/ KeepStatic \/ DeleteUnknown \/ NextLoop \/ Timeout

\* A loop body takes a route off todo, and maybe off unknown.
LEMMA LoopBody ==
    ASSUME TypeOK, KeepDynamic \/ KeepStatic \/ DeleteUnknown
    PROVE  \E r \in rc.todo :
              \/ rc' = [rc EXCEPT !.todo = @ \ {r}]
              \/ rc' = [rc EXCEPT !.todo = @ \ {r}, !.unknown = @ \ {r}]
  BY Zenon DEF KeepDynamic, KeepStatic, KeepOrAdd, DeleteUnknown

\* The steps between the begin and the end of a pass keep its caller and its
\* configuration.
LEMMA InnerFrame ==
    ASSUME TypeOK, InnerStep
    PROVE  /\ rc'.who = rc.who /\ rc'.cfg = rc.cfg
           /\ rc.pc # "idle" /\ rc'.pc # "idle"
           /\ UNCHANGED <<wants, cfg, jobs>>
           /\ Up
  <1>1. CASE RemoveExpired \/ NextLoop \/ Timeout
    BY <1>1 DEF RemoveExpired, NextLoop, Timeout, PassVars, TypeOK, PassType
  <1>2. CASE HasRule \/ AddRule
    BY <1>2 DEF HasRule, AddRule, PassVars, TypeOK, PassType
  <1>3. CASE LoadRoutes
    BY <1>3 DEF LoadRoutes, TypeOK, PassType
  <1>4. CASE KeepDynamic \/ KeepStatic \/ DeleteUnknown
    <2>1. /\ Up /\ rc.pc # "idle" /\ UNCHANGED <<wants, cfg, jobs>>
      BY <1>4 DEF KeepDynamic, KeepStatic, DeleteUnknown, PassVars
    <2> QED
      BY <1>4, <2>1, LoopBody DEF TypeOK, PassType
  <1> QED
    BY <1>1, <1>2, <1>3, <1>4 DEF InnerStep

ConfigInv == CallerInv /\ WatcherInv

LEMMA ConfigNext == TypeOK /\ ConfigInv /\ [Next]_vars => ConfigInv'
  <1> SUFFICES ASSUME TypeOK, ConfigInv, [Next]_vars PROVE ConfigInv'
    OBVIOUS
  <1> USE DEF ConfigInv, CallerInv, WatcherInv
  <1>1. ASSUME NEW who \in Caller, Reconcile(who) PROVE ConfigInv'
    BY <1>1 DEF Reconcile, PassVars, Loads, IdleWith, Caller, Up
  <1>2. CASE InnerStep
    BY <1>2, InnerFrame DEF Up
  <1>3. CASE EndReconcile
    BY <1>3 DEF EndReconcile, IdleWith, Up
  <1>4. CASE TickerFires
    BY <1>4 DEF TickerFires, Up
  <1>5. ASSUME NEW c \in Config, UpdateConfig(c) PROVE ConfigInv'
    BY <1>5 DEF UpdateConfig, Up
  <1>6. ASSUME NEW j \in Resolver,
               \/ \E a \in Answer : Resolve(j, a)
               \/ LookupName(j) \/ StoreAdd(j) \/ AddRoute(j) \/ AddRouteRPC(j)
        PROVE  ConfigInv'
    BY <1>6 DEF Resolve, LookupName, StoreAdd, AddRoute, AddRouteRPC, JobVars, Up
  <1>7. CASE Tick \/ Save
    BY <1>7 DEF Tick, Save, controller, Up
  <1>8. CASE Exit
    BY <1>8 DEF Exit, IdleWith, Up
  <1>9. CASE Restart
    BY <1>9 DEF Restart, IdleWith, Up
  <1>10. CASE \/ \E i \in Iface : InterfaceDown(i)
              \/ \E r \in ForeignRoute : ForeignAdd(r)
              \/ RuleLost
              \/ \E i \in Iface : CarrierLost(i) \/ CarrierBack(i)
              \/ \E c \in late : LateCommand(c)
    BY <1>10 DEF InterfaceDown, ForeignAdd, RuleLost,
       CarrierLost, CarrierBack, LateCommand, OutsideVars,
                 controller, Up
  <1>11. CASE UNCHANGED vars
    BY <1>11 DEF vars, controller, Up
  <1> QED
    BY <1>1, <1>2, <1>3, <1>4, <1>5, <1>6, <1>7, <1>8, <1>9, <1>10, <1>11
       DEF Next, PassStep, JobStep, InnerStep

\* Once UpdateConfig has returned, no pass runs with an older configuration,
\* and the last pass ran with the one in force.
THEOREM ConfigInForce == Spec => []ConfigApplied
  <1>1. Init => ConfigInv
    BY DEF Init, ConfigInv, CallerInv, WatcherInv, IdleWith
  <1>2. ConfigInv => ConfigApplied
    BY DEF ConfigInv, WatcherInv, ConfigApplied, Up
  <1> QED
    BY <1>1, <1>2, ConfigNext, TypeCorrect, PTL DEF Spec
-----------------------------------------------------------------------------
(* The mutexes. *)

LEMMA RoutedPC ==
    ASSUME NEW job \in JobType, NEW i PROVE Routed(job, i).pc # "rpc"
  BY DEF Routed, NextRoute, NoJob, JobType

LEMMA StoredPC ==
    ASSUME NEW job \in JobType, NEW ip PROVE Stored(job, ip).pc # "rpc"
  BY DEF Stored, NextRoute, NoJob, JobType

\* A step that leaves routesMu, the pass's position in or out of the loops,
\* and every resolution's position at or off the RPC.
LEMMA LockSame ==
    ASSUME LockInv, UNCHANGED routesMu, InLoops' <=> InLoops,
           \A j \in Resolver : jobs'[j].pc = "rpc" <=> jobs[j].pc = "rpc"
    PROVE  LockInv'
  BY DEF LockInv

LEMMA LockNext == TypeOK /\ PassInv /\ LockInv /\ [Next]_vars => LockInv'
  <1> SUFFICES ASSUME TypeOK, PassInv, LockInv, [Next]_vars PROVE LockInv'
    OBVIOUS
  <1>1. ASSUME NEW who \in Caller, Reconcile(who) PROVE LockInv'
    BY <1>1, LockSame DEF Reconcile, PassVars, IdleWith, InLoops
  <1>2. CASE RemoveExpired \/ HasRule \/ AddRule \/ NextLoop \/ Timeout
    <2>1. UNCHANGED <<routesMu, jobs>>
      BY <1>2 DEF RemoveExpired, HasRule, AddRule, NextLoop, Timeout, PassVars
    <2>2. InLoops' <=> InLoops
      BY <1>2 DEF RemoveExpired, HasRule, AddRule, NextLoop, Timeout, InLoops,
                  TypeOK, PassType
    <2> QED
      BY <2>1, <2>2, LockSame
  <1>3. CASE LoadRoutes
    BY <1>3, ResolverAssumption
       DEF LoadRoutes, RoutesMuFree, LockInv, InLoops, TypeOK, PassType
  <1>4. CASE KeepDynamic \/ KeepStatic \/ DeleteUnknown
    <2>1. UNCHANGED <<routesMu, jobs>>
      BY <1>4 DEF KeepDynamic, KeepStatic, DeleteUnknown, PassVars
    <2>2. InLoops' <=> InLoops
      BY <1>4, LoopBody DEF InLoops, TypeOK, PassType
    <2> QED
      BY <2>1, <2>2, LockSame
  <1>5. CASE EndReconcile
    BY <1>5, ResolverAssumption DEF EndReconcile, IdleWith, LockInv, InLoops
  <1>6. CASE TickerFires \/ \E c \in Config : UpdateConfig(c)
    BY <1>6, LockSame DEF TickerFires, UpdateConfig, InLoops
  <1>7. ASSUME NEW j \in Resolver, NEW a \in Answer, Resolve(j, a) PROVE LockInv'
    BY <1>7, LockSame DEF Resolve, JobVars, InLoops, NoJob, TypeOK
  <1>8. ASSUME NEW j \in Resolver, LookupName(j) PROVE LockInv'
    BY <1>8, LockSame DEF LookupName, JobVars, InLoops, TypeOK, JobType
  <1>9. ASSUME NEW j \in Resolver, StoreAdd(j) PROVE LockInv'
    BY <1>9, LockSame, StoredPC DEF StoreAdd, JobVars, InLoops, TypeOK
  <1>10. ASSUME NEW j \in Resolver, AddRoute(j) PROVE LockInv'
    <2>1. PICK i \in jobs[j].pend :
             \/ /\ jobs' = [jobs EXCEPT ![j] = Routed(jobs[j], i)]
                /\ UNCHANGED routesMu
             \/ /\ jobs' = [jobs EXCEPT ![j] =
                                [jobs[j] EXCEPT !.pc = "rpc", !.iface = i]]
                /\ routesMu' = j
      BY <1>10 DEF AddRoute
    <2>2. routesMu = "free" /\ jobs[j].pc = "route" /\ UNCHANGED rc
      BY <1>10 DEF AddRoute, RoutesMuFree, JobVars
    <2>3. CASE /\ jobs' = [jobs EXCEPT ![j] = Routed(jobs[j], i)]
               /\ UNCHANGED routesMu
      BY <2>2, <2>3, RoutedPC, LockSame DEF InLoops, TypeOK
    <2>4. CASE /\ jobs' = [jobs EXCEPT ![j] =
                              [jobs[j] EXCEPT !.pc = "rpc", !.iface = i]]
               /\ routesMu' = j
      BY <2>2, <2>4, ResolverAssumption DEF LockInv, InLoops, TypeOK, JobType
    <2> QED
      BY <2>1, <2>3, <2>4
  <1>11. ASSUME NEW j \in Resolver, AddRouteRPC(j) PROVE LockInv'
    <2>1. /\ routesMu = j /\ routesMu' = "free" /\ UNCHANGED rc
          /\ jobs' = [jobs EXCEPT ![j] = Routed(jobs[j], jobs[j].iface)]
      BY <1>11 DEF AddRouteRPC, LockInv, UnlockRoutes
    <2> QED
      BY <2>1, RoutedPC, ResolverAssumption DEF LockInv, InLoops, TypeOK
  <1>12. CASE Tick \/ Save
    BY <1>12, LockSame DEF Tick, Save, controller, InLoops
  <1>13. CASE Exit
    BY <1>13, ResolverAssumption DEF Exit, IdleWith, NoJob, LockInv, InLoops
  <1>14. CASE Restart
    BY <1>14, LockSame DEF Restart, IdleWith, InLoops, PassInv
  <1>15. CASE \/ \E i \in Iface : InterfaceDown(i)
              \/ \E r \in ForeignRoute : ForeignAdd(r)
              \/ RuleLost
              \/ \E i \in Iface : CarrierLost(i) \/ CarrierBack(i)
              \/ \E c \in late : LateCommand(c)
    BY <1>15, LockSame DEF InterfaceDown, ForeignAdd, RuleLost,
       CarrierLost, CarrierBack, LateCommand,
                           OutsideVars, controller, InLoops
  <1>16. CASE UNCHANGED vars
    BY <1>16, LockSame DEF vars, controller, InLoops
  <1> QED
    BY <1>1, <1>2, <1>3, <1>4, <1>5, <1>6, <1>7, <1>8, <1>9, <1>10, <1>11,
       <1>12, <1>13, <1>14, <1>15, <1>16 DEF Next, PassStep, JobStep

LEMMA PassNext == TypeOK /\ PassInv /\ [Next]_vars => PassInv'
  <1> SUFFICES ASSUME TypeOK, PassInv, [Next]_vars PROVE PassInv'
    OBVIOUS
  <1> USE DEF PassInv
  <1>1. ASSUME NEW who \in Caller, Reconcile(who) PROVE PassInv'
    BY <1>1 DEF Reconcile, PassVars, IdleWith, Up
  <1>2. CASE RemoveExpired \/ HasRule \/ AddRule \/ NextLoop \/ Timeout
    BY <1>2 DEF RemoveExpired, HasRule, AddRule, NextLoop, Timeout, PassVars,
                Up, TypeOK, PassType
  <1>3. CASE LoadRoutes
    BY <1>3 DEF LoadRoutes, Up, TypeOK, PassType
  <1>4. CASE KeepDynamic \/ KeepStatic \/ DeleteUnknown
    <2>1. Up /\ UNCHANGED phase
      BY <1>4 DEF KeepDynamic, KeepStatic, DeleteUnknown, PassVars
    <2>2. rc'.unknown \subseteq rc.unknown /\ rc'.defined = rc.defined
      BY <1>4, LoopBody DEF TypeOK, PassType
    <2> QED
      BY <2>1, <2>2 DEF Up
  <1>5. CASE EndReconcile
    BY <1>5 DEF EndReconcile, IdleWith
  <1>6. CASE TickerFires \/ \E c \in Config : UpdateConfig(c)
    BY <1>6 DEF TickerFires, UpdateConfig, history
  <1>7. ASSUME NEW j \in Resolver,
               \/ \E a \in Answer : Resolve(j, a)
               \/ LookupName(j) \/ StoreAdd(j) \/ AddRoute(j) \/ AddRouteRPC(j)
        PROVE  PassInv'
    BY <1>7 DEF Resolve, LookupName, StoreAdd, AddRoute, AddRouteRPC, JobVars, Up
  <1>8. CASE Tick \/ Save
    BY <1>8 DEF Tick, Save, controller, history
  <1>9. CASE Exit \/ Restart
    BY <1>9 DEF Exit, Restart, IdleWith
  <1>10. CASE \/ \E i \in Iface : InterfaceDown(i)
              \/ \E r \in ForeignRoute : ForeignAdd(r)
              \/ RuleLost
              \/ \E i \in Iface : CarrierLost(i) \/ CarrierBack(i)
              \/ \E c \in late : LateCommand(c)
    BY <1>10 DEF InterfaceDown, ForeignAdd, RuleLost,
       CarrierLost, CarrierBack, LateCommand, OutsideVars,
                 controller
  <1>11. CASE UNCHANGED vars
    BY <1>11 DEF vars, controller, history
  <1> QED
    BY <1>1, <1>2, <1>3, <1>4, <1>5, <1>6, <1>7, <1>8, <1>9, <1>10, <1>11
       DEF Next, PassStep, JobStep
-----------------------------------------------------------------------------
(* Routes owed to live records. *)

\* A step that takes nothing from an owed route: no route is untracked or
\* newly condemned, no record of an owed route renewed, no request dropped.
LEMMA OwedKept ==
    ASSUME OwedInv, Up' => Up, owed' \subseteq owed, routes \subseteq routes',
           \A r \in Route, d \in Domain : LiveRecord(r, d)' => LiveRecord(r, d),
           \A r \in Route, d \in Domain : Asking(r, d) => Asking(r, d)',
           \A r \in Route : Condemned(r)' => Condemned(r),
           TypeOK
    PROVE  OwedInv'
  <1> SUFFICES ASSUME Up', NEW o \in owed', LiveRecord(o[1], o[2])',
                      ~Asking(o[1], o[2])'
               PROVE  o[1] \in routes' /\ ~Condemned(o[1])'
    BY DEF OwedInv
  <1>1. o \in owed /\ o[1] \in Route /\ o[2] \in Domain
    BY DEF TypeOK
  <1> QED
    BY <1>1 DEF OwedInv

LEMMA SameRecords ==
    ASSUME UNCHANGED <<now, records>>, NEW r, NEW d
    PROVE  LiveRecord(r, d)' <=> LiveRecord(r, d)
  BY DEF LiveRecord, LookupIP, Expired

LEMMA SameJobs ==
    ASSUME UNCHANGED jobs, NEW r, NEW d
    PROVE  Asking(r, d)' <=> Asking(r, d)
  BY DEF Asking

LEMMA SamePass ==
    ASSUME UNCHANGED rc, NEW r PROVE Condemned(r)' <=> Condemned(r)
  BY DEF Condemned

\* Records only leave the store, or time passes: nothing comes to life.
LEMMA FewerRecords ==
    ASSUME TypeOK, records' \subseteq records, now' \in Nat, now <= now', NEW r, NEW d
    PROVE  LiveRecord(r, d)' => LiveRecord(r, d)
  <1> SUFFICES ASSUME NEW rec \in LookupIP(records', r.addr),
                      rec.domain = d, ~Expired(rec, now', 0)
               PROVE  LiveRecord(r, d)
    BY DEF LiveRecord
  <1>1. rec \in LookupIP(records, r.addr) /\ rec \in Record
    BY DEF LookupIP, TypeOK
  <1>2. rec.expires \in Nat
    BY <1>1, ExpiryAssumption DEF Record
  <1>2a. now \in Nat
    BY BoundsAssumption DEF TypeOK
  <1>3. ~Expired(rec, now, 0)
    BY <1>2, <1>2a DEF Expired
  <1> QED
    BY <1>1, <1>3 DEF LiveRecord

LEMMA OwedQuiet ==
    ASSUME TypeOK, OwedInv, Quiet PROVE OwedInv'
  <1>4. ASSUME NEW r \in Route PROVE Condemned(r)' => Condemned(r)
    <2>1. CASE (\E who \in Caller : Reconcile(who)) \/ EndReconcile
      <3>1. rc'.pc \in {"sweep", "idle"}
        <4>1. ASSUME NEW who \in Caller, Reconcile(who) PROVE rc'.pc = "sweep"
          BY <4>1 DEF Reconcile, IdleWith
        <4>2. EndReconcile => rc'.pc = "idle"
          BY DEF EndReconcile, IdleWith
        <4> QED
          BY <2>1, <4>1, <4>2
      <3> QED
        BY <3>1 DEF Condemned
    <2>1a. CASE RemoveExpired
      BY <2>1a DEF RemoveExpired, Condemned, TypeOK, PassType
    <2>2. CASE HasRule \/ AddRule
      BY <2>2 DEF HasRule, AddRule, Condemned, TypeOK, PassType
    <2>3. CASE NextLoop \/ Timeout
      <3>1. CASE NextLoop
        BY <3>1 DEF NextLoop, Condemned, TypeOK, PassType
      <3>2. CASE Timeout
        BY <3>2 DEF Timeout, Condemned, TypeOK, PassType
      <3> QED
        BY <2>3, <3>1, <3>2
    <2>4. CASE UNCHANGED rc
      BY <2>4, SamePass
    <2> QED
      BY <2>1, <2>1a, <2>2, <2>3, <2>4 DEF Quiet, TickerFires, UpdateConfig, Tick, Save,
         InterfaceDown, ForeignAdd, RuleLost,
         CarrierLost, CarrierBack, LateCommand, OutsideVars,
         controller, vars
  <1> QED
    BY <1>4, QuietFrame, FewerRecords, SameJobs, OwedKept

\* The list of the table condemns what is not tracked; what is tracked has yet
\* to be looked at.
LEMMA OwedLoadRoutes ==
    ASSUME TypeOK, LockInv, OwedInv, LoadRoutes PROVE OwedInv'
  <1> SUFFICES ASSUME NEW o \in owed, LiveRecord(o[1], o[2]),
                      ~Asking(o[1], o[2])
               PROVE  o[1] \in routes' /\ ~Condemned(o[1])'
    BY SameRecords, SameJobs DEF OwedInv, LoadRoutes
  <1>1. o[1] \in routes
    BY DEF OwedInv, LoadRoutes
  <1>2. rc'.pc = "dynamic" /\ rc'.todo = routes /\ routes' = routes
    BY DEF LoadRoutes, TypeOK, PassType
  <1> QED
    BY <1>1, <1>2 DEF Condemned

LEMMA KeepOrAddRoutes ==
    ASSUME NEW r, KeepOrAdd(r) PROVE routes \subseteq routes'
  BY DEF KeepOrAdd, TrackAdded

\* A tracked route that is not kept has no live record, under any timeout.
LEMMA NotLive ==
    ASSUME TypeOK, NEW r \in Route, NEW d, NEW timeout \in Nat,
           ~HasLive(r.addr, timeout)
    PROVE  ~LiveRecord(r, d)
  BY LiveLonger DEF LiveRecord, HasLive

LEMMA OwedKeepDynamic ==
    ASSUME TypeOK, PassInv, OwedInv, KeepDynamic PROVE OwedInv'
  <1>1. PICK r \in rc.todo :
           IF HasLive(r.addr, rc.cfg.timeout) THEN KeepOrAdd(r)
           ELSE /\ rc' = [rc EXCEPT !.todo = @ \ {r}]
                /\ UNCHANGED <<routes, unsure, absent, clean, used, kernel>>
    BY DEF KeepDynamic
  <1>2. r \in Route /\ rc.cfg.timeout \in Nat
    BY ConfigAssumption DEF TypeOK, PassType, ConfigType
  <1>3. /\ UNCHANGED <<phase, now, records, jobs, owed>> /\ Up
        /\ rc.pc = "dynamic"
    BY DEF KeepDynamic, PassVars
  <1>4. routes \subseteq routes'
    BY <1>1, KeepOrAddRoutes
  <1>5. ASSUME NEW q \in Route, q # r PROVE Condemned(q)' => Condemned(q)
    <2>1. /\ rc'.pc = rc.pc /\ rc'.unknown \subseteq rc.unknown
          /\ rc'.todo = rc.todo \ {r}
      <3>1. \/ rc' = [rc EXCEPT !.todo = @ \ {r}]
            \/ rc' = [rc EXCEPT !.todo = @ \ {r}, !.unknown = @ \ {r}]
        BY <1>1, Zenon DEF KeepOrAdd
      <3> QED
        BY <3>1 DEF TypeOK, PassType
    <2> QED
      BY <1>3, <1>5, <2>1 DEF Condemned
  <1>6. CASE ~HasLive(r.addr, rc.cfg.timeout)
    <2>1. \A d : ~LiveRecord(r, d)
      BY <1>2, <1>6, NotLive
    <2> SUFFICES ASSUME NEW o \in owed, LiveRecord(o[1], o[2]), ~Asking(o[1], o[2])
                 PROVE  o[1] \in routes' /\ ~Condemned(o[1])'
      BY <1>3, SameRecords, SameJobs DEF OwedInv, Up
    <2>2. o[1] \in Route /\ o[1] # r
      BY <2>1 DEF TypeOK
    <2>3. o[1] \in routes /\ ~Condemned(o[1])
      BY <1>3 DEF OwedInv
    <2> QED
      BY <2>2, <2>3, <1>4, <1>5
  <1>7. CASE HasLive(r.addr, rc.cfg.timeout)
    <2>1. ~Condemned(r)'
      <3>1. rc'.pc = "dynamic" /\ r \notin rc'.unknown
        <4>1. CASE Defined(r)
          BY <1>1, <1>3, <1>7, <4>1 DEF KeepOrAdd, TypeOK, PassType
        <4>2. CASE ~Defined(r)
          BY <1>1, <1>3, <1>7, <4>2 DEF KeepOrAdd, Defined, PassInv, TypeOK, PassType
        <4> QED
          BY <4>1, <4>2
      <3> QED
        BY <3>1 DEF Condemned
    <2>2. \A q \in Route : Condemned(q)' => Condemned(q)
      BY <2>1, <1>5
    <2>3. Up' => Up
      BY <1>3
    <2> QED
      BY <1>3, <1>4, <2>2, <2>3, SameRecords, SameJobs, OwedKept
  <1> QED
    BY <1>6, <1>7

LEMMA OwedKeepStatic ==
    ASSUME TypeOK, OwedInv, KeepStatic PROVE OwedInv'
  <1>1. /\ UNCHANGED <<phase, now, records, jobs, owed>> /\ Up
        /\ rc.pc = "static"
    BY DEF KeepStatic, PassVars
  <1>2. routes \subseteq routes'
    BY KeepOrAddRoutes DEF KeepStatic
  <1>3. rc'.pc = rc.pc /\ rc'.unknown \subseteq rc.unknown
    BY LoopBody DEF TypeOK, PassType
  <1>4. \A q \in Route : Condemned(q)' => Condemned(q)
    BY <1>1, <1>3 DEF Condemned
  <1> QED
    BY <1>1, <1>2, <1>4, SameRecords, SameJobs, OwedKept

\* The route deleted is condemned: whoever it is owed to is asking for it.
LEMMA OwedDeleteUnknown ==
    ASSUME TypeOK, OwedInv, DeleteUnknown PROVE OwedInv'
  <1>1. PICK r \in rc.todo :
           /\ rc' = [rc EXCEPT !.todo = @ \ {r}]
           /\ \E a : UntrackDeleted(r, a)
    BY DEF DeleteUnknown
  <1>2. /\ UNCHANGED <<phase, now, records, jobs, owed>> /\ Up
        /\ rc.pc = "delete"
    BY DEF DeleteUnknown, PassVars
  <1>3. routes \ {r} \subseteq routes'
    BY <1>1 DEF UntrackDeleted
  <1>4. rc'.pc = "delete" /\ rc'.todo = rc.todo \ {r}
    BY <1>1, <1>2 DEF TypeOK, PassType
  <1> SUFFICES ASSUME NEW o \in owed, LiveRecord(o[1], o[2]), ~Asking(o[1], o[2])
               PROVE  o[1] \in routes' /\ ~Condemned(o[1])'
    BY <1>2, SameRecords, SameJobs DEF OwedInv, Up
  <1>5. o[1] \in routes /\ ~Condemned(o[1])
    BY <1>2 DEF OwedInv
  <1> QED
    BY <1>2, <1>3, <1>4, <1>5 DEF Condemned

\* Where a resolution goes after a call of AddRoute or of dnsStore.Add.
LEMMA NextRouteFields ==
    ASSUME NEW job \in JobType
    PROVE  /\ NextRoute(job).pend = job.pend
           /\ job.pend # {} => /\ NextRoute(job).domain = job.domain
                               /\ NextRoute(job).ip = job.ip
  BY DEF NextRoute, NoJob, JobType

LEMMA RoutedFields ==
    ASSUME NEW job \in JobType, NEW i
    PROVE  /\ Routed(job, i).pend = job.pend \ {i}
           /\ job.pend \ {i} # {} => /\ Routed(job, i).domain = job.domain
                                     /\ Routed(job, i).ip = job.ip
  <1> DEFINE next == [job EXCEPT !.pend = @ \ {i}, !.iface = "none"]
  <1>1. /\ next \in JobType /\ next.pend = job.pend \ {i}
        /\ next.domain = job.domain /\ next.ip = job.ip
    BY DEF JobType
  <1> HIDE DEF next
  <1>2. Routed(job, i) = NextRoute(next)
    BY DEF Routed, next
  <1> QED
    BY <1>1, <1>2, NextRouteFields

LEMMA StoredFields ==
    ASSUME NEW job \in JobType, NEW ip \in IP
    PROVE  /\ Stored(job, ip).pend = job.ifaces
           /\ job.ifaces # {} => /\ Stored(job, ip).domain = job.domain
                                 /\ Stored(job, ip).ip = ip
  <1> DEFINE next == [job EXCEPT !.ips = @ \ {ip}, !.ip = ip, !.pend = job.ifaces]
  <1>1. /\ next \in JobType /\ next.pend = job.ifaces
        /\ next.domain = job.domain /\ next.ip = ip
    BY DEF JobType
  <1> HIDE DEF next
  <1>2. Stored(job, ip) = NextRoute(next)
    BY DEF Stored, next
  <1> QED
    BY <1>1, <1>2, NextRouteFields

\* A resolution that asks for nothing may change without a request being
\* dropped.
LEMMA AskingOthers ==
    ASSUME TypeOK, NEW j \in Resolver, jobs[j].pend = {}, NEW job,
           jobs' = [jobs EXCEPT ![j] = job], NEW r, NEW d, Asking(r, d)
    PROVE  Asking(r, d)'
  <1>1. PICK k \in Resolver : /\ jobs[k].domain = d /\ jobs[k].ip = r.addr
                              /\ r.iface \in jobs[k].pend
    BY DEF Asking
  <1>2. k # j /\ jobs'[k] = jobs[k]
    BY <1>1 DEF TypeOK
  <1> QED
    BY <1>1, <1>2 DEF Asking

LEMMA OwedLookup ==
    ASSUME TypeOK, OwedInv, NEW j \in Resolver,
           (\E a \in Answer : Resolve(j, a)) \/ LookupName(j)
    PROVE  OwedInv'
  <1>1. jobs[j].pend = {}
    BY DEF Resolve, LookupName, TypeOK, JobOK
  <1>2. PICK job : jobs' = [jobs EXCEPT ![j] = job]
    BY DEF Resolve, LookupName
  <1>3. UNCHANGED <<phase, now, records, routes, rc, owed>>
    BY DEF Resolve, LookupName, JobVars, history
  <1>4. \A r \in Route, d \in Domain : Asking(r, d) => Asking(r, d)'
    BY <1>1, <1>2, AskingOthers
  <1>5. Up' => Up
    BY <1>3 DEF Up
  <1> QED
    BY <1>3, <1>4, <1>5, SameRecords, SamePass, OwedKept

\* A record is renewed before its route is asked for: the resolution now asks
\* for every route its domain is owed at that address.
LEMMA OwedStoreAdd ==
    ASSUME TypeOK, OwedInv, NEW j \in Resolver, StoreAdd(j) PROVE OwedInv'
  <1> DEFINE dom == jobs[j].domain
             new(ip) == [ip |-> ip, domain |-> dom, expires |-> jobs[j].expires]
  <1>1. PICK ip \in jobs[j].ips :
           /\ records' = AddRec(records, new(ip))
           /\ owed' = {o \in owed : ~(/\ o[1].addr = ip
                                      /\ o[2] = dom
                                      /\ o[1].iface \notin jobs[j].ifaces)}
           /\ jobs' = [jobs EXCEPT ![j] = Stored(jobs[j], ip)]
    BY DEF StoreAdd
  <1>2. /\ jobs[j] \in JobType /\ jobs[j].pend = {} /\ ip \in IP /\ Up
    BY DEF TypeOK, StoreAdd, JobOK, JobType
  <1>3. UNCHANGED <<phase, now, routes, rc>>
    BY DEF StoreAdd, JobVars
  <1> SUFFICES ASSUME NEW o \in owed', LiveRecord(o[1], o[2])', ~Asking(o[1], o[2])'
               PROVE  o[1] \in routes' /\ ~Condemned(o[1])'
    BY DEF OwedInv
  <1>4. o \in owed /\ o[1] \in Route /\ o[2] \in Domain
    BY <1>1 DEF TypeOK
  <1>5. ~Asking(o[1], o[2])
    BY <1>1, <1>2, AskingOthers
  <1>6. ~(o[1].addr = ip /\ o[2] = dom)
    <2> SUFFICES ASSUME o[1].addr = ip, o[2] = dom PROVE FALSE
      OBVIOUS
    <2>1. o[1].iface \in jobs[j].ifaces
      BY <1>1
    <2>2. /\ jobs'[j].pend = jobs[j].ifaces /\ jobs'[j].domain = dom
          /\ jobs'[j].ip = ip
      BY <1>1, <1>2, <2>1, StoredFields DEF TypeOK
    <2>3. Asking(o[1], o[2])'
      BY <2>1, <2>2 DEF Asking
    <2> QED
      BY <2>3
  <1>7. LiveRecord(o[1], o[2])
    <2>1. PICK rec \in LookupIP(records', o[1].addr) :
             rec.domain = o[2] /\ ~Expired(rec, now', 0)
      BY DEF LiveRecord
    <2>2. rec \in records' /\ rec.ip = o[1].addr
      BY <2>1 DEF LookupIP
    <2>3. rec # new(ip)
      BY <1>6, <2>1, <2>2
    <2>4. rec \in records
      BY <1>1, <2>2, <2>3 DEF AddRec
    <2> QED
      BY <1>3, <2>1, <2>2, <2>4 DEF LiveRecord, LookupIP
  <1>8. o[1] \in routes /\ ~Condemned(o[1])
    BY <1>2, <1>4, <1>5, <1>7 DEF OwedInv
  <1> QED
    BY <1>3, <1>8, SamePass

\* When AddRoute returns, only its own request is dropped.
LEMMA AskingRouted ==
    ASSUME TypeOK, NEW j \in Resolver, NEW i,
           jobs' = [jobs EXCEPT ![j] = Routed(jobs[j], i)],
           NEW r \in Route, NEW d, Asking(r, d),
           ~(jobs[j].domain = d /\ r = RouteOf(i, jobs[j].ip))
    PROVE  Asking(r, d)'
  <1>1. PICK k \in Resolver : /\ jobs[k].domain = d /\ jobs[k].ip = r.addr
                              /\ r.iface \in jobs[k].pend
    BY DEF Asking
  <1>2. CASE k # j
    <2>1. jobs'[k] = jobs[k]
      BY <1>2 DEF TypeOK
    <2> QED
      BY <1>1, <2>1 DEF Asking
  <1>3. CASE k = j
    <2>1. r = RouteOf(r.iface, r.addr)
      BY DEF Route, RouteOf
    <2>2. r.iface \in jobs[j].pend \ {i}
      BY <1>1, <1>3, <2>1
    <2>3. /\ jobs'[j].pend = jobs[j].pend \ {i}
          /\ jobs'[j].domain = d /\ jobs'[j].ip = r.addr
      BY <1>1, <1>3, <2>2, RoutedFields DEF TypeOK
    <2> QED
      BY <2>2, <2>3 DEF Asking
  <1> QED
    BY <1>2, <1>3

LEMMA FreeNotCondemned ==
    ASSUME LockInv, routesMu # "pass", NEW r PROVE ~Condemned(r)
  BY DEF LockInv, InLoops, Condemned

\* A call of AddRoute that finds the route tracked, or gets it added, makes the
\* route owed and tracked; one that fails makes it owed no more.
LEMMA OwedRouted ==
    ASSUME TypeOK, LockInv, OwedInv, Up, routesMu # "pass",
           NEW j \in Resolver, NEW i,
           jobs' = [jobs EXCEPT ![j] = Routed(jobs[j], i)],
           UNCHANGED <<now, records, rc>>, routes \subseteq routes',
           \/ /\ owed' = owed \cup {<<RouteOf(i, jobs[j].ip), jobs[j].domain>>}
              /\ RouteOf(i, jobs[j].ip) \in routes'
           \/ owed' = owed \ {<<RouteOf(i, jobs[j].ip), jobs[j].domain>>}
    PROVE  OwedInv'
  <1> DEFINE mine == <<RouteOf(i, jobs[j].ip), jobs[j].domain>>
  <1> SUFFICES ASSUME NEW o \in owed', LiveRecord(o[1], o[2])', ~Asking(o[1], o[2])'
               PROVE  o[1] \in routes' /\ ~Condemned(o[1])'
    BY DEF OwedInv
  <1>1. ~Condemned(o[1])'
    BY FreeNotCondemned, SamePass
  <1>2. CASE o = mine
    BY <1>1, <1>2
  <1>3. CASE o # mine
    <2>1. o \in owed
      BY <1>3
    <2>2. o = <<o[1], o[2]>> /\ o[1] \in Route /\ o[2] \in Domain
      BY <2>1 DEF TypeOK
    <2>3. ~(jobs[j].domain = o[2] /\ o[1] = RouteOf(i, jobs[j].ip))
      BY <1>3, <2>2
    <2>4. ~Asking(o[1], o[2])
      BY <2>2, <2>3, AskingRouted
    <2>5. LiveRecord(o[1], o[2])
      BY SameRecords
    <2> QED
      BY <1>1, <2>1, <2>4, <2>5 DEF OwedInv
  <1> QED
    BY <1>2, <1>3

LEMMA OwedAddRoute ==
    ASSUME TypeOK, LockInv, OwedInv, NEW j \in Resolver, AddRoute(j)
    PROVE  OwedInv'
  <1>1. PICK i \in jobs[j].pend :
           LET r == RouteOf(i, jobs[j].ip) IN
           \/ /\ r \in routes
              /\ jobs' = [jobs EXCEPT ![j] = Routed(jobs[j], i)]
              /\ owed' = owed \cup {<<r, jobs[j].domain>>}
           \/ /\ jobs' = [jobs EXCEPT ![j] =
                              [jobs[j] EXCEPT !.pc = "rpc", !.iface = i]]
              /\ UNCHANGED owed
    BY DEF AddRoute
  <1>2. /\ UNCHANGED <<phase, now, records, routes, rc>> /\ Up
        /\ routesMu # "pass"
    BY DEF AddRoute, JobVars, RoutesMuFree
  <1>3. CASE /\ RouteOf(i, jobs[j].ip) \in routes
             /\ jobs' = [jobs EXCEPT ![j] = Routed(jobs[j], i)]
             /\ owed' = owed \cup {<<RouteOf(i, jobs[j].ip), jobs[j].domain>>}
    BY <1>2, <1>3, OwedRouted
  <1>4. CASE /\ jobs' = [jobs EXCEPT ![j] =
                              [jobs[j] EXCEPT !.pc = "rpc", !.iface = i]]
             /\ UNCHANGED owed
    <2>1. \A k \in Resolver : /\ jobs'[k].domain = jobs[k].domain
                              /\ jobs'[k].ip = jobs[k].ip
                              /\ jobs'[k].pend = jobs[k].pend
      BY <1>4 DEF TypeOK, JobType
    <2>2. \A r \in Route, d \in Domain : Asking(r, d) => Asking(r, d)'
      BY <2>1 DEF Asking
    <2> QED
      BY <1>2, <1>4, <2>2, SameRecords, SamePass, OwedKept DEF Up
  <1> QED
    BY <1>1, <1>3, <1>4

LEMMA OwedAddRouteRPC ==
    ASSUME TypeOK, LockInv, OwedInv, NEW j \in Resolver, AddRouteRPC(j)
    PROVE  OwedInv'
  <1> DEFINE i == jobs[j].iface
             r == RouteOf(i, jobs[j].ip)
  <1>1. PICK a : /\ TrackAdded(r, a)
                 /\ owed' = IF a.ok THEN owed \cup {<<r, jobs[j].domain>>}
                                    ELSE owed \ {<<r, jobs[j].domain>>}
    BY DEF AddRouteRPC
  <1>2. /\ UNCHANGED <<phase, now, records, rc>> /\ Up
        /\ jobs' = [jobs EXCEPT ![j] = Routed(jobs[j], i)]
        /\ jobs[j].pc = "rpc"
    BY DEF AddRouteRPC
  <1>3. routesMu # "pass"
    BY <1>2, ResolverAssumption DEF LockInv
  <1>4. \/ /\ owed' = owed \cup {<<r, jobs[j].domain>>}
           /\ r \in routes'
        \/ owed' = owed \ {<<r, jobs[j].domain>>}
    BY <1>1 DEF TrackAdded
  <1>5. routes \subseteq routes'
    BY <1>1 DEF TrackAdded
  <1> HIDE DEF r
  <1> QED
    BY <1>2, <1>3, <1>4, <1>5, OwedRouted DEF r

LEMMA OwedNext ==
    TypeOK /\ LockInv /\ PassInv /\ OwedInv /\ [Next]_vars => OwedInv'
  <1> SUFFICES ASSUME TypeOK, LockInv, PassInv, OwedInv, [Next]_vars
               PROVE  OwedInv'
    OBVIOUS
  <1>1. CASE Exit
    BY <1>1 DEF Exit, OwedInv, Up
  <1>2. CASE Restart
    BY <1>2 DEF Restart, OwedInv, PassInv
  <1> QED
    BY <1>1, <1>2, OwedQuiet, OwedLoadRoutes, OwedKeepDynamic, OwedKeepStatic,
       OwedDeleteUnknown, OwedLookup, OwedStoreAdd, OwedAddRoute, OwedAddRouteRPC
       DEF Next, PassStep, JobStep, Quiet

\* A route a resolution asked for and got, or was told is there, stays in the
\* table for as long as the record lives, for any number of concurrent
\* resolutions, passes and configuration updates, unless it was put in doubt
\* since the table was last listed, or that list did not show it and the
\* record came too late for the loop: then the next list brings it back.
THEOREM RoutesStayWhileLive == Spec => []RoutedWhileLive
  <1>1. Init => LockInv /\ PassInv /\ OwedInv
    BY ResolverAssumption
       DEF Init, LockInv, PassInv, OwedInv, InLoops, IdleWith, NoJob
  <1>2. TrackedInstalled /\ OwedInv => RoutedWhileLive
    BY DEF TrackedInstalled, OwedInv, RoutedWhileLive
  <1> QED
    BY <1>1, <1>2, LockNext, PassNext, OwedNext, TypeCorrect, Tracked, PTL DEF Spec
-----------------------------------------------------------------------------
(* What a pass leaves behind. *)

\* A route that a pass may leave in the table.
Justified(r) == \/ r.iface \in down
                \/ r \in rc.cfg.static
                \/ r \in routes /\ LookupIP(records, r.addr) # {}

\* The listed routes that no loop has kept yet, or that are still to be deleted.
Doomed == IF rc.pc = "delete" THEN rc.todo ELSE rc.unknown

\* Route r of the configuration is there to stay, or was in the way of
\* another that was there when r was to be added.
Placed(r) == \/ r \in table \ rc.unknown
             \/ Occupied((table \cup rc.defined) \ {r}, r)

\* The loops of a pass whose calls all got answers while nobody else changed
\* the table: what each has seen and what it has decided.
Decided ==
    /\ ~rc.over
    /\ rc.pc # "delete" => rc.defined \subseteq table
    /\ rc.pc = "dynamic" => rc.todo \subseteq routes
    /\ rc.pc = "static" => rc.todo \subseteq rc.cfg.static
    /\ rc.pc = "delete" => rc.todo \subseteq rc.unknown
    /\ \A r \in table : Justified(r) \/ r \in Doomed
    /\ \A r \in rc.cfg.static :
          rc.pc = "delete" \/ (rc.pc = "static" /\ r \notin rc.todo) => Placed(r)

DecidedInv == Up /\ clean /\ InLoops => Decided

LEMMA LookupKept ==
    ASSUME NEW ip,
           \/ UNCHANGED records
           \/ \E j \in Resolver : StoreAdd(j)
    PROVE  LookupIP(records, ip) # {} => LookupIP(records', ip) # {}
  <1>1. CASE UNCHANGED records
    BY <1>1
  <1>2. ASSUME NEW j \in Resolver, StoreAdd(j), LookupIP(records, ip) # {}
        PROVE  LookupIP(records', ip) # {}
    <2>1. PICK new : records' = AddRec(records, new)
      BY <1>2 DEF StoreAdd
    <2>2. PICK rec \in records : rec.ip = ip
      BY <1>2 DEF LookupIP
    <2>3. \/ rec \in records'
          \/ new \in records' /\ new.ip = ip
      BY <2>1, <2>2 DEF AddRec, SameKey
    <2> QED
      BY <2>2, <2>3 DEF LookupIP
  <1> QED
    BY <1>1, <1>2

\* A step that leaves the pass, the table and the tracked routes alone.
LEMMA DecidedSame ==
    ASSUME DecidedInv, UNCHANGED <<rc, table, routes, down>>, clean' => clean,
           Up' => Up,
           \A ip : LookupIP(records, ip) # {} => LookupIP(records', ip) # {}
    PROVE  DecidedInv'
  <1> SUFFICES ASSUME Up', clean', InLoops' PROVE Decided'
    BY DEF DecidedInv
  <1>1. Decided
    BY DEF DecidedInv, InLoops
  <1>2. \A r : Justified(r) => Justified(r)'
    BY DEF Justified
  <1>3. Doomed' = Doomed /\ \A r : Placed(r) => Placed(r)'
    BY DEF Doomed, Placed, Occupied
  <1> QED
    BY <1>1, <1>2, <1>3 DEF Decided

\* What a call that came back without a fault has done.
LEMMA CleanReply ==
    ASSUME NEW c, ~rc.over, NEW a \in Replies(c, rc.over), ~a.fault
    PROVE  a.table = Run(table, c) /\ a.ok = Accepts(table, c)
  <1>1. a \in Answers(table, c) \/ a \in Failures(table, c)
    BY DEF Replies
  <1>2. a \notin Failures(table, c)
    BY DEF Failures, Reply
  <1> QED
    BY <1>1, <1>2 DEF Answers, Reply

\* The closure addRoute, in a pass without faults: the route is kept, or
\* added and tracked, or another has its address.
LEMMA CleanAdd ==
    ASSUME TypeOK, PassInv, Decided, rc.defined \subseteq table,
           NEW r \in Route, KeepOrAdd(r), clean'
    PROVE  /\ clean /\ UNCHANGED down
           /\ rc'.pc = rc.pc /\ rc'.cfg = rc.cfg /\ rc'.over = rc.over
           /\ rc'.defined = rc.defined
           /\ rc'.todo = rc.todo \ {r} /\ rc'.unknown = rc.unknown \ {r}
           /\ routes \subseteq routes'
           /\ table' = table \/ (table' = table \cup {r} /\ r \in routes')
           /\ r \in table' \/ Occupied(table' \ {r}, r)
  <1>1. CASE Defined(r)
    BY <1>1 DEF KeepOrAdd, Defined, kernel, TypeOK, PassType
  <1>2. CASE ~Defined(r)
    <2>1. PICK a \in Replies(AddCmd(r), rc.over) :
             /\ Received(a) /\ TrackAdded(r, a)
             /\ clean' = (clean /\ ~a.fault /\ ~rc.over)
      BY <1>2 DEF KeepOrAdd, AddCmd
    <2>2. clean /\ ~a.fault /\ ~rc.over
      BY <2>1
    <2>3. a.table = Run(table, AddCmd(r)) /\ a.ok = Accepts(table, AddCmd(r))
      BY <2>2, CleanReply
    <2>4. /\ a.table = IF Occupied(table, r) THEN table ELSE table \cup {r}
          /\ a.ok <=> ~Occupied(table, r)
      BY <2>3 DEF Run, Accepts, AddCmd, IpRouteAdd
    <2>5. table' = a.table /\ UNCHANGED down
      BY <2>1 DEF Received
    <2>6. rc' = [rc EXCEPT !.todo = @ \ {r}] /\ r \notin rc.unknown
      BY <1>2 DEF KeepOrAdd, Defined, PassInv
    <2>7. CASE Occupied(table, r)
      <3>1. table' = table /\ routes' = routes
        BY <2>1, <2>4, <2>5, <2>7 DEF TrackAdded
      <3>2. r \in table \/ Occupied(table \ {r}, r)
        BY <2>7 DEF Occupied
      <3> QED
        BY <2>2, <2>5, <2>6, <3>1, <3>2 DEF TypeOK, PassType
    <2>8. CASE ~Occupied(table, r)
      <3>1. table' = table \cup {r} /\ routes' = routes \cup {r}
        BY <2>1, <2>4, <2>5, <2>8 DEF TrackAdded
      <3> QED
        BY <2>2, <2>5, <2>6, <3>1 DEF TypeOK, PassType
    <2> QED
      BY <2>7, <2>8
  <1> QED
    BY <1>1, <1>2

\* What the loops have decided stays decided when the closure keeps a route
\* that is justified, or adds one that will be.
LEMMA DecidedAdd ==
    ASSUME TypeOK, PassInv, Decided, rc.pc \in {"dynamic", "static"},
           NEW r \in rc.todo, KeepOrAdd(r), clean', UNCHANGED records,
           \/ rc.pc = "dynamic" /\ LookupIP(records, r.addr) # {}
           \/ rc.pc = "static"
    PROVE  clean /\ Decided'
  <1>1. r \in Route
    BY DEF TypeOK, PassType
  <1>2. rc.defined \subseteq table
    BY DEF Decided
  <1>3. /\ clean /\ UNCHANGED down
        /\ rc'.pc = rc.pc /\ rc'.cfg = rc.cfg /\ rc'.over = rc.over
        /\ rc'.defined = rc.defined
        /\ rc'.todo = rc.todo \ {r} /\ rc'.unknown = rc.unknown \ {r}
        /\ routes \subseteq routes'
        /\ table' = table \/ (table' = table \cup {r} /\ r \in routes')
        /\ r \in table' \/ Occupied(table' \ {r}, r)
    BY <1>1, <1>2, CleanAdd
  <1>4. \A q : Justified(q) => Justified(q)'
    BY <1>3 DEF Justified
  <1>5. Justified(r)'
    BY <1>3 DEF Justified, Decided
  <1>6. \A q \in table' : Justified(q)' \/ q \in Doomed'
    <2> SUFFICES ASSUME NEW q \in table', q # r PROVE Justified(q)' \/ q \in Doomed'
      BY <1>5
    <2>1. q \in table
      BY <1>3
    <2>2. Justified(q) \/ q \in rc.unknown
      BY <2>1 DEF Decided, Doomed
    <2> QED
      BY <1>3, <1>4, <2>2 DEF Doomed
  <1>7. Placed(r)'
    BY <1>3 DEF Placed, Occupied
  <1>8. \A q : Placed(q) => Placed(q)'
    BY <1>3 DEF Placed, Occupied
  <1>9. \A q \in rc'.cfg.static :
           rc'.pc = "delete" \/ (rc'.pc = "static" /\ q \notin rc'.todo) => Placed(q)'
    <2> SUFFICES ASSUME NEW q \in rc.cfg.static, rc.pc = "static",
                        q \notin rc.todo \/ q = r
                 PROVE  Placed(q)'
      BY <1>3
    <2> QED
      BY <1>7, <1>8 DEF Decided
  <1> QED
    BY <1>3, <1>6, <1>9 DEF Decided

LEMMA DecidedKeepDynamic ==
    ASSUME TypeOK, PassInv, DecidedInv, KeepDynamic PROVE DecidedInv'
  <1> SUFFICES ASSUME clean' PROVE Decided'
    BY DEF DecidedInv
  <1>1. PICK r \in rc.todo :
           IF HasLive(r.addr, rc.cfg.timeout) THEN KeepOrAdd(r)
           ELSE /\ rc' = [rc EXCEPT !.todo = @ \ {r}]
                /\ UNCHANGED <<routes, unsure, absent, clean, used, kernel>>
    BY DEF KeepDynamic
  <1>2. Up /\ rc.pc = "dynamic" /\ UNCHANGED records
    BY DEF KeepDynamic
  <1>3. clean
    BY <1>1 DEF KeepOrAdd
  <1>4. Decided
    BY <1>2, <1>3 DEF DecidedInv, InLoops
  <1>5. CASE HasLive(r.addr, rc.cfg.timeout)
    <2>1. LookupIP(records, r.addr) # {}
      BY <1>5 DEF HasLive
    <2> QED
      BY <1>1, <1>2, <1>4, <1>5, <2>1, DecidedAdd
  <1>6. CASE ~HasLive(r.addr, rc.cfg.timeout)
    <2>1. /\ rc' = [rc EXCEPT !.todo = @ \ {r}]
          /\ UNCHANGED <<routes, table, down>>
      BY <1>1, <1>6 DEF kernel
    <2>2. /\ rc'.pc = "dynamic" /\ rc'.cfg = rc.cfg /\ rc'.over = rc.over
          /\ rc'.defined = rc.defined /\ rc'.unknown = rc.unknown
          /\ rc'.todo \subseteq rc.todo
      BY <1>2, <2>1 DEF TypeOK, PassType
    <2>3. \A q : Justified(q)' <=> Justified(q)
      BY <1>2, <2>1, <2>2 DEF Justified
    <2> QED
      BY <1>2, <1>4, <2>1, <2>2, <2>3 DEF Decided, Doomed
  <1> QED
    BY <1>5, <1>6

LEMMA DecidedKeepStatic ==
    ASSUME TypeOK, PassInv, DecidedInv, KeepStatic PROVE DecidedInv'
  <1> SUFFICES ASSUME clean' PROVE Decided'
    BY DEF DecidedInv
  <1>1. PICK r \in rc.todo : KeepOrAdd(r)
    BY DEF KeepStatic
  <1>2. Up /\ rc.pc = "static" /\ UNCHANGED records
    BY DEF KeepStatic
  <1>3. clean
    BY <1>1 DEF KeepOrAdd
  <1>4. Decided
    BY <1>2, <1>3 DEF DecidedInv, InLoops
  <1> QED
    BY <1>1, <1>2, <1>4, DecidedAdd

\* What is deleted was listed, so that it still counts as having been in the
\* way, and no loop has kept it.
LEMMA DecidedDeleteUnknown ==
    ASSUME TypeOK, PassInv, DecidedInv, DeleteUnknown PROVE DecidedInv'
  <1> SUFFICES ASSUME clean' PROVE Decided'
    BY DEF DecidedInv
  <1>1. PICK r \in rc.todo :
           /\ rc' = [rc EXCEPT !.todo = @ \ {r}]
           /\ \E a \in Replies(DelCmd(r), rc.over) :
                 /\ Received(a) /\ UntrackDeleted(r, a)
                 /\ clean' = (clean /\ ~a.fault /\ ~rc.over)
    BY DEF DeleteUnknown, DelCmd
  <1>2. PICK a \in Replies(DelCmd(r), rc.over) :
           /\ Received(a) /\ UntrackDeleted(r, a)
           /\ clean /\ ~a.fault /\ ~rc.over
    BY <1>1
  <1>3. Up /\ rc.pc = "delete" /\ UNCHANGED records
    BY DEF DeleteUnknown
  <1>4. Decided
    BY <1>2, <1>3 DEF DecidedInv, InLoops
  <1>5. a.table = Run(table, DelCmd(r))
    BY <1>2, CleanReply
  <1>6. table' = table \ {r} /\ UNCHANGED down
    BY <1>2, <1>5 DEF Run, DelCmd, IpRouteDel, Received
  <1>7. routes \ {r} \subseteq routes'
    BY <1>2 DEF UntrackDeleted
  <1>8. /\ rc'.pc = "delete" /\ rc'.cfg = rc.cfg /\ rc'.over = rc.over
        /\ rc'.defined = rc.defined /\ rc'.unknown = rc.unknown
        /\ rc'.todo = rc.todo \ {r}
    BY <1>1, <1>3 DEF TypeOK, PassType
  <1>9. r \in rc.unknown /\ r \in rc.defined
    BY <1>3, <1>4 DEF Decided, PassInv
  <1>10. \A q \in table' : Justified(q)' \/ q \in Doomed'
    <2> SUFFICES ASSUME NEW q \in table' PROVE Justified(q)' \/ q \in Doomed'
      OBVIOUS
    <2>1. q \in table /\ q # r
      BY <1>6
    <2>2. Justified(q) \/ q \in rc.todo
      BY <1>3, <1>4, <2>1 DEF Decided, Doomed
    <2>3. Justified(q) => Justified(q)'
      BY <1>3, <1>6, <1>7, <1>8, <2>1 DEF Justified
    <2> QED
      BY <1>8, <2>1, <2>2, <2>3 DEF Doomed
  <1>11. \A q : Placed(q) => Placed(q)'
    BY <1>6, <1>8, <1>9 DEF Placed, Occupied
  <1> QED
    BY <1>3, <1>4, <1>8, <1>10, <1>11 DEF Decided

LEMMA DecidedNextLoop ==
    ASSUME TypeOK, DecidedInv, NextLoop PROVE DecidedInv'
  <1> SUFFICES ASSUME clean' PROVE Decided'
    BY DEF DecidedInv
  <1>1. /\ Up /\ rc.todo = {} /\ clean /\ UNCHANGED <<routes, records, table, down>>
        /\ \/ /\ rc.pc = "dynamic"
              /\ rc' = [rc EXCEPT !.pc = "static", !.todo = rc.cfg.static]
           \/ /\ rc.pc = "static"
              /\ rc' = [rc EXCEPT !.pc = "delete", !.todo = rc.unknown]
    BY DEF NextLoop, kernel, history
  <1>2. Decided
    BY <1>1 DEF DecidedInv, InLoops
  <1>3. /\ rc'.cfg = rc.cfg /\ rc'.over = rc.over
        /\ rc'.defined = rc.defined /\ rc'.unknown = rc.unknown
        /\ \/ rc.pc = "dynamic" /\ rc'.pc = "static" /\ rc'.todo = rc.cfg.static
           \/ rc.pc = "static" /\ rc'.pc = "delete" /\ rc'.todo = rc.unknown
    BY <1>1 DEF TypeOK, PassType
  <1>4. Doomed' = Doomed
    BY <1>3 DEF Doomed
  <1>5. \A q : (Justified(q) => Justified(q)') /\ (Placed(q) => Placed(q)')
    BY <1>1, <1>3 DEF Justified, Placed, Occupied
  <1> QED
    BY <1>1, <1>2, <1>3, <1>4, <1>5 DEF Decided

LEMMA DecidedLoadRoutes ==
    ASSUME TypeOK, LoadRoutes PROVE DecidedInv'
  <1> SUFFICES ASSUME clean' PROVE Decided'
    BY DEF DecidedInv
  <1>1. /\ ~rc.over
        /\ rc' = [rc EXCEPT !.pc = "dynamic", !.defined = Listed(table),
                            !.unknown = Listed(table), !.todo = routes]
        /\ UNCHANGED <<routes, table, down>>
    BY DEF LoadRoutes, CallOK, kernel
  <1>2. /\ rc'.pc = "dynamic" /\ rc'.over = rc.over /\ rc'.cfg = rc.cfg
        /\ rc'.defined = Listed(table)
        /\ rc'.unknown = Listed(table) /\ rc'.todo = routes
    BY <1>1 DEF TypeOK, PassType
  <1>3. Listed(table) \subseteq table
    BY DEF Listed
  <1>4. \A r \in table' : Justified(r)' \/ r \in Doomed'
    BY <1>1, <1>2 DEF Justified, Doomed, Listed
  <1> QED
    BY <1>1, <1>2, <1>3, <1>4 DEF Decided

LEMMA DecidedNext ==
    TypeOK /\ PassInv /\ LockInv /\ DecidedInv /\ [Next]_vars => DecidedInv'
  <1> SUFFICES ASSUME TypeOK, PassInv, LockInv, DecidedInv, [Next]_vars
               PROVE  DecidedInv'
    OBVIOUS
  <1>1. ASSUME NEW who \in Caller, Reconcile(who) PROVE DecidedInv'
    BY <1>1 DEF Reconcile, IdleWith, DecidedInv, InLoops
  <1>2. CASE RemoveExpired \/ HasRule \/ AddRule
    <2>1. ~InLoops'
      BY <1>2 DEF RemoveExpired, HasRule, AddRule, InLoops, TypeOK, PassType
    <2> QED
      BY <2>1 DEF DecidedInv
  <1>3. CASE EndReconcile \/ Exit \/ Restart
    <2>1. rc'.pc = "idle"
      <3>1. CASE EndReconcile \/ Exit
        BY <3>1 DEF EndReconcile, Exit, IdleWith
      <3>2. CASE Restart
        BY <3>2 DEF Restart, IdleWith
      <3> QED
        BY <1>3, <3>1, <3>2
    <2> QED
      BY <2>1 DEF DecidedInv, InLoops
  <1>4. CASE Timeout \/ \E i \in Iface : CarrierLost(i) \/ CarrierBack(i)
    BY <1>4 DEF Timeout, CarrierLost, CarrierBack, DecidedInv
  <1>5. CASE \/ \E i \in Iface : InterfaceDown(i)
             \/ \E r \in ForeignRoute : ForeignAdd(r)
    BY <1>5 DEF InterfaceDown, ForeignAdd, DecidedInv
  <1>6. CASE TickerFires \/ \E c \in Config : UpdateConfig(c)
    BY <1>6, LookupKept, DecidedSame DEF TickerFires, UpdateConfig, kernel, history, Up
  <1>7. ASSUME NEW j \in Resolver,
               (\E a \in Answer : Resolve(j, a)) \/ LookupName(j)
        PROVE  DecidedInv'
    <2>1. UNCHANGED <<rc, table, routes, down, clean, phase, records>>
      BY <1>7 DEF Resolve, LookupName, JobVars, history
    <2> QED
      BY <2>1, LookupKept, DecidedSame DEF Up
  <1>8. ASSUME NEW j \in Resolver, StoreAdd(j) \/ AddRoute(j) PROVE DecidedInv'
    <2>1. /\ UNCHANGED <<rc, table, routes, down, clean, phase>>
          /\ UNCHANGED records \/ StoreAdd(j)
      BY <1>8 DEF StoreAdd, AddRoute, JobVars
    <2> QED
      BY <2>1, LookupKept, DecidedSame DEF Up
  <1>9. ASSUME NEW j \in Resolver, AddRouteRPC(j) PROVE DecidedInv'
    <2>1. routesMu = j /\ UNCHANGED rc
      BY <1>9 DEF AddRouteRPC, LockInv
    <2>2. ~InLoops'
      BY <2>1, ResolverAssumption DEF LockInv, InLoops
    <2> QED
      BY <2>2 DEF DecidedInv
  <1>10. CASE Tick \/ Save \/ RuleLost \/ UNCHANGED vars
    BY <1>10, LookupKept, DecidedSame
       DEF Tick, Save, RuleLost, OutsideVars, controller, kernel, history, vars, Up
  <1>11. ASSUME NEW c \in late, LateCommand(c) PROVE DecidedInv'
    <2>1. ~clean' \/ UNCHANGED <<table, clean>>
      BY <1>11 DEF LateCommand
    <2>2. UNCHANGED <<rc, routes, down, phase, records>>
      BY <1>11 DEF LateCommand, OutsideVars, controller
    <2> QED
      BY <2>1, <2>2, LookupKept, DecidedSame DEF DecidedInv, Up
  <1> QED
    BY <1>1, <1>2, <1>3, <1>4, <1>5, <1>6, <1>7, <1>8, <1>9, <1>10, <1>11,
       DecidedLoadRoutes, DecidedKeepDynamic, DecidedKeepStatic,
       DecidedDeleteUnknown, DecidedNextLoop
       DEF Next, PassStep, JobStep

\* A pass in which every call got an answer, while nobody else changed the
\* table, leaves nothing in it but static routes of its configuration and
\* tracked routes with a record, and every static route in place unless
\* another has its address, whatever resolutions add records meanwhile.
THEOREM PassLeavesClean == Spec => []CleanPass
  <1>1. Init => LockInv /\ PassInv /\ DecidedInv
    BY ResolverAssumption
       DEF Init, LockInv, PassInv, DecidedInv, InLoops, IdleWith, NoJob
  <1>2. DecidedInv => CleanPass
    <2> SUFFICES ASSUME DecidedInv, Up, clean, rc.pc = "delete", rc.todo = {}
                 PROVE  /\ \A r \in table : Justified(r)
                        /\ \A r \in rc.cfg.static : Placed(r)
      BY DEF CleanPass, Justified, Placed
    <2> QED
      BY DEF DecidedInv, InLoops, Decided, Doomed
  <1> QED
    BY <1>1, <1>2, LockNext, PassNext, DecidedNext, TypeCorrect, PTL DEF Spec
=============================================================================
