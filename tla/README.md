# keenetic-dns: a TLA+ model of the DNS server and its route controller

keenetic-dns answers DNS queries of a home network and, for the hosts a
configuration names, sends the traffic to the addresses it resolved through a
chosen network interface. The DNS server runs apart from the router; an agent
on the router executes `ip rule` and `ip route` for it. Paths below are
relative to `src/`; `internal/` without a prefix is `dns-server/internal/`.

## The system

| Part | State | Operations | Runs in |
|---|---|---|---|
| DNS store (`dns_store.go`) | two nested maps of the same records, by domain and by address, one mutex; a dump file | Add, Remove, fill, RemoveExpired, LookupIP, Records, Load, Save | every caller; a timer saves |
| Route controller (`ip_routes.go`) | tracked routes under `routesMu`, `reconcileMu`, the configuration (atomic pointer) | Start, reconcile, AddRoute, UpdateConfig | main, ticker, config watcher, resolutions |
| Network agent (`agent/`) | none; the kernel's rule list and routing table | HasRule, AddRule, ListRoutes, AddRoute, DeleteRoute | RPC handlers on the router |
| Routing service (`service.go`) | two query streams | Resolve: call upstream, walk the CNAME chain, store a record and add a route per address | one goroutine per query |
| Resolver chain (`dns_resolver.go`, `dns_cache.go`) | cache; map of inflight requests | TTL override, cache lookup, join or lead a request | one goroutine per query |
| Event streams (`internal/stream`, `internal/util/ring_buf.go`) | ring buffer, index, listeners | Append, query forward and backward, Listen | log handler, routing service, web |
| HTTP API (`dns_server_http.go`) | a cursor per websocket, a debouncer goroutine each | list pages, websocket streams, DoH | one or two goroutines per connection |
| mDNS client (`mdns_client.go`) | one shared connection under a RWMutex | Resolve | one goroutine per query |
| Configuration watcher, dump timer (`cmd/main.go`) | last modification time | poll, reload; save | own goroutines |
| Watchdog (`deploy/`) | pid file, installed and uploaded binary | start, stop, restart, the watchdog's rounds, restart_watchdogs.sh, upload | one shell process per command or watchdog |

A query enters through UDP or DoH, passes TTL override, cache and the
single-inflight resolver, and reaches the routing service, which asks an
upstream client, stores the records and calls `AddRoute`. The reconcile passes
compare tracked routes, live records, static networks and the kernel's table
and repair the difference. Resolutions and passes meet at `routesMu` and at the
store; the passes meet one another at `reconcileMu`; both meet the agent
through RPCs made while `routesMu` is held. Entries of logs and queries flow
through the event streams to websockets.

What is hard to get right here:

- a pass decides from a snapshot (the listing, the tracked routes, the records
  of that moment) and acts on it later, while resolutions renew records;
- RPCs fail before or after they took effect, or take effect late, and the pass
  has a deadline that also runs while it waits for a mutex;
- after a crash the dump is older than the kernel's table, or empty;
- a failed or cancelled leader of a shared DNS request has waiters;
- a response object is shared by goroutines that change TTLs in it;
- signals to a websocket are dropped whenever nobody happens to receive them;
- cursors are machine words made of a clock and a counter;
- the scripts around the process look at a pid file, the process table and two
  binaries one after the other, without a lock, while each other, the process
  and an upload change them;
- the configuration file is edited while the watcher polls and loads it.

`PROJECT.json` lists these as hazards, each at its line and with the properties
that would catch it.

## Modules

| Module | Models | Notes |
|---|---|---|
| `DNSRecords` | `DNSRecord`, `Expired`, the effect of the store's operations on a set of records | shared vocabulary, no state |
| `RecordStore` | what the store promises | abstract specification |
| `DNSStore` | `dns_store.go` with both MultiMaps | every map write is a step; implements `RecordStore` |
| `RoutingConfig` | `RoutingDynamicConfig`, `LookupHost` | no state; `LookupHost` returns any match, as a Go map is ranged over |
| `NetworkAgent` | the agent and `ip(8)` behind the RPC client | replies as a set: answer, lost request, lost reply, late execution |
| `IPRoutes` | controller, resolutions, agent, kernel, dump, process life | the core; composes the three modules above |
| `DNSResponse` | what `processTypeAResponse` makes of an answer section: the walk along the aliases, addresses, TTL | operators, and `AddressesOf`, what the walk is meant to find |
| `Resolver` | the resolver chain with cache and shared responses | extends `DNSResponse` |
| `Buffered` | ring buffer, cursors, query, list page | operators, and `PageOf`, what a page is meant to be |
| `WebStream` | one stream and its websocket subscriptions | extends `Buffered` |
| `MDNSClient` | the shared mDNS connection and its mutex | |
| `ServerProcess` | the life of a server process: load, start, bind, poll and reload of the configuration, signal, crash | `main.go`, `config.go`, seen from outside |
| `Watchdog` | `service_watchdog.sh` and the scripts around it | composes any number of scripts with the processes of `ServerProcess` |
| `MC...` | instances for TLC | constants only |
| `NatLemmas` | - | induction over naturals, largest and smallest elements, powers of two |
| `DNSStoreProofs`, `IPRoutesProofs`, `IPRoutesSafety`, `ResponseProofs`, `ResolverProofs`, `WebStreamProofs`, `WatchdogProofs` | - | theorems about the module each of them extends, see [Proofs](#proofs) |

Operators named `Mutant: ...` in a comment are faulty variants of the operator
that follows them. No specification uses them; each run's properties have been
seen to fail when the variant takes the operator's place.

### How `IPRoutes` corresponds to the code

`rc` is the pass that holds `reconcileMu`; its `pc` is where the pass is:
`sweep` (RemoveExpired), `rules` and `rule` (reconcileRules), `load`
(`routesMu.Lock` and loadRoutes), then the loops `dynamic`, `static` and
`delete` of reconcileRoutes. `wants` holds the callers of `reconcile` that have
not returned: Start's (`main`), the ticker's, the watcher's. A resolution in
`jobs` walks the chain (`lookup`), stores the record of one address after the
other (`store`), and calls AddRoute per interface (`route`, then `rpc` while it
holds `routesMu`). Each RPC is one step; everything else may happen between two
steps of a pass. `late` holds commands the agent still runs for callers that
gave up. `Exit` and `Restart` are a crash or a stop at any point and the next
process, which loads what the dump holds, possibly an empty, truncated file,
and with a possibly different configuration. `InterfaceDown`, `ForeignAdd` and
`RuleLost` are changes of the kernel's tables by others; `CarrierLost` and
`CarrierBack` change how the routes of an interface are printed: the agent skips
a line of other than five words, so a route marked `linkdown` is not `Listed`.

The responses that `Resolve` takes are in the form the walk leaves them in
(names looked up, addresses, TTL); `MCIPRoutes` derives them from answer sections
with the operators of `DNSResponse`.

Five history variables, which no guard reads, serve the properties. `unsure`
is the set of routes whose presence was put in doubt, since the last list of
the table, by something the controller cannot have seen; a list clears it.
`absent` holds the tracked routes that the last list did not show and that have
not been added since, `renewed` those of them whose address was given a record
after the pass had decided about them. `owed` holds the pairs of a route and a
domain such that the last resolution of the domain asked for the route and was
told that it is there. `clean` says that since the pass listed the table no call
failed and nobody else changed it.

`TrackedInstalled` and `RoutedWhileLive` say with them how long a tracked route
may be missing. After a restart every record of the dump is tracked, and an
interface or a lost reply may take a tracked route from the table; the next list
tells. The pass then puts the route back if its address has a live record; if it
has none, the route stays tracked and missing, and when a query renews the record
before the next pass, `AddRoute` skips the call because the route is tracked
(`ip_routes.go:168`) although the pass has seen that it is missing. The answer is
given without a route until the next pass. This is the one gap (`renewed`) that
`RoutedWhileLive` admits besides doubts that no list has answered yet.

### How the other modules correspond

`DNSStore`: `call` is the operation that holds `mu`; `half` is the record that
is in the first index and not yet in the second. `Resolver`: `reqs` are the
`inflightRequest` objects, `requests` the map; a call holds either a copy from
the cache or the number of the shared object, so that an override in place is
seen by everyone who holds it. `failed` is history. `WebStream`: a subscription
has a handler (`pc`), a debouncer (`deb`, `armed` for its timers) and a
listener; channels are unbuffered, so a hand-over is one joint step and a
listener's signal is dropped unless the debouncer is in its select. `sent`,
`want`, `base` and `unsignalled` are history. `MDNSClient` models Go's
RWMutex: an announced writer keeps new readers out.

`Watchdog`: script `i` is the `i`-th run of the shell script. Its `pc` is the
next look at or change of something shared; `pid` is the shell variable `PID`;
`why` says which caller of stop and start goes on afterwards (the command
`start`, `stop` or `restart`, or the loop of the watchdog after an update or an
unexpected exit). A script that watches is in `sleep` between two rounds. A
process has a place (`st`), its binary, the content of the configuration it
loaded and the modification time it remembers. Contents of the configuration
are told apart by what loading does: it succeeds, it is an error, or it panics,
which is what an address that is none does (`types.go:21`, called by the
decoder). `missed`, `unwatched`, `raced` and `torn` are history.

The scripts have no lock, and nothing in the model gives them one: every look and
every change is a step of its own, whatever the others and a transfer are at.
`raced` says that a script was at a place where it changes something (kills,
removes or writes the pid file, copies the binary) while another was between two
sleeps, or that `restart_watchdogs.sh` killed one between spawn and the write of
the pid, or before its copy. `torn` says that the uploaded binary was written to
while it was copied.

## Runs

| Run | Instance | Shows |
|---|---|---|
| `store` | 2 domains, 2 addresses, expiry zero/past/future, 2 route timeouts | `IndexesAgree`, `NoEmptyInner`, refinement `ImplementsRecordStore` |
| `lifecycle` | 2 resolutions, 1 address, 2 configurations; two queries and a restart, or one query with any two of failed call, outside event (no foreign routes) and restart, or one query with an update | `TrackedInstalled`, `RoutedWhileLive`, `CleanPass`, `ConfigApplied` |
| `settling` | 2 addresses, 2 configurations; any two of query, update, failure, outside event, restart; fair | `Settles`, `ResolutionsEnd` |
| `resolver` | 3 clients, 3 calls, an address question, another one, a message with several; 1 failure, 1 cancellation, fair | `SingleInflight`, `NewestRegistered`, `OwnErrorsOnly`, `OneRequestEach`, `CallsEnd` |
| `cache_ttl` | 3 clients, 4 calls, answer sections with aliases and TTLs 0 to 3, override 1; every section of three records for the walk | `CachedIsRouted` |
| `websocket` | capacity 3, signed 3-bit index, 6 appends, every cursor, pages of 1 and 2 entries, 1 subscription, 1 entry per message, 1 failed write; with a subscription open 5 appends, clock still; fair | `RingHolds`, `PagesCorrect`, `PagesRoundTrip`, `SentInOrder`, `SendsPending`, `CatchesUp`, `Released` |
| `watchdog` | 3 runs of the script (start; start, stop or restart; stop or restart; or `restart_watchdogs.sh` for any of them), 3 pids, a stale pid file or none, 1 crash, 1 upload, a missing binary, 2 edits among 4 contents, up to the first race; fair | `OneInstance`, `NoOrphan`, `NothingMissed`, `Recovers` |

Bounds and why they are enough. A bound is a constant `Max...` that guards the
action that spends it; in `IPRoutes` the set `Budget` says which numbers of
queries, updates, faults, events and restarts may occur together. In
`lifecycle` a resolution meets every two of failure, event and restart (which
also changes the configuration), or an update, or another resolution and a
restart before, between or after the two, at every step of a pass; updates with
failures or events, and foreign routes, are in `settling`; all at once would not
finish, and two resolutions with a failure or an event are left to the theorems.
Two instants after the start let a record live, expire and be renewed
within one pass. Three runs of the script are a watchdog, another one, a command
or restart_watchdogs.sh, and a command; three pids let an old, a dying and a new
process exist. The stream's capacity is smaller than the number of appends, so
the ring wraps; the index is 3 bits wide so that it overflows to negative values
within 6 appends; a message holds fewer entries than may be pending. The
properties of pages depend on the stream alone and are therefore checked while
no subscription is open, over more appends and instants (`OpenAppends`,
`OpenTime`). In `cache_ttl` four calls allow a leader, two late waiters and a
later request for the same question. Symmetry is used in `cache_ttl` and
`lifecycle`, where clients and resolutions are interchangeable and nothing is
liveness. `watchdog` has a state constraint, `BeforeRace`: `OneInstance`,
`NoOrphan` and `Recovers` say nothing of a behaviour once scripts have raced, and
a race is never taken back, so that what lies beyond the first state of a race
(which is still checked) cannot break them. `NothingMissed` and `TypeOK` hold
there too, which the theorems say.

Deadlock is checked for the store and the controller: they never stop (the
ticker always ticks again). In `Resolver`, `WebStream`, `MDNSClient` and
`Watchdog` the bounds end every behaviour, so deadlock is off and liveness properties
take its place.

Five further runs each show a disagreement between the code and what its
comments or messages say:

- `default_route`: a static network `0.0.0.0/0` is listed by the kernel as
  `default`; `ParseIPv4` panics on it where `loadRoutes` expects an error and
  means to log `unexpected route address` and go on. The server panics at the
  second pass, before any query.
- `websocket_empty`: the handler takes `get last cursor from stream`; an empty
  stream has none, the query returns its own argument, the largest cursor, and
  the client is sent nothing until it reconnects.
- `websocket_wrap`: the cursor keeps 32 bits of a millisecond clock, which wrap
  every 49.7 days; a connection open across the wrap is sent nothing for the
  rest of its life (until the next wrap). The instance has a 1-bit clock.
- `watchdog_stop`: a start, then a stop, and a watchdog that wakes up between
  the end of the process and the removal of the pid file. It takes the process
  for one that exited unexpectedly, starts another, and the stop removes the
  pid file of that one; at its next round the watchdog finds no pid file and
  leaves, `assume that program stopped`, while the instance lives.
- `mdns`: `connection()` returns the open connection without `RUnlock`. If two
  queries find no connection at the same time, the second waits in `Lock` for
  ever once a third has used the new one, and later queries wait behind it.

## Fairness

- Goroutines make progress: weak fairness of the steps of a pass, a
  resolution, a call, a handler.
- A waiter for a mutex is served eventually although others keep taking it
  (Go's mutexes hand over to a waiter that has starved for a millisecond):
  strong fairness of `LoadRoutes`, `Reconcile` and `AddRoute`, and of the steps
  of `MDNSClient`.
- The ticker ticks, time passes, the watchdog restarts a process that exited.
- Scripts and processes make progress, and a transfer that has begun ends: weak
  fairness of their steps. Sleeps and polls end. No command, edit, crash or
  upload is fair.
- Upstream calls and RPCs return, by an answer or a timeout of the client: the
  step that ends them is part of the fair steps. Nothing makes a fault happen
  or keeps it from happening within its bound.
- The two goroutines of a websocket make progress: weak fairness of
  `HandlerStep` and of `DebouncerStep` as a whole. Which ready case a select
  takes is left open. `maxTimer`, once set, is not put back by further signals,
  so an armed debouncer cannot be held off for ever.

## Abstractions a reader should know of

- An RPC is one step, with the late execution of its command as another.
- The names of a CNAME chain are looked up in any order, and a configuration
  update may fall between two lookups, as in the code.
- `CleanPass` and `Settles` excuse routes of interfaces without carrier: the
  agent does not list them, so no pass can delete them.
- `OneInstance`, `NoOrphan` and `Recovers` promise nothing after two scripts have
  raced; nothing in the scripts prevents it. What then happens is described
  under [Known weaknesses](#known-weaknesses).
- `cp -f` of the new binary is one step. An upload is two: the file is written
  in place, with the time of the moment, and gets the older time of the build
  when it is complete.
- The shell that `eval` forks to run the program counts as the program; an
  ended process leaves `/proc` at once; a pid that a file or a script still
  remembers is not given to a new process.
- An edit of the configuration is one step with a later modification time. The
  `scp -p` of `make upload-config` writes the file in place and then sets the
  older time of the local file: a poll in between may load a part of it, which
  either does not parse and is tried again, or is in force until an edit with a
  later time. Every edit has a time of its own, and the clocks of
  the two machines agree. An edit between the load at start and the
  first look at the modification time is lost until the next one: `NothingMissed`
  and `Recovers` exclude it by `missed`.
- A configuration whose reload panics or that no process can load leaves the
  service down until it is edited; `Recovers` is about a file that ends up good.
- An answer section has at most one alias per name.
- `CachedIsRouted` needs two numbers: `RouteTimeout` and `MaxDelay`, the time
  between the stamp of a record and the last `Put` of its answer. It holds on
  the instance because the largest TTL plus `MaxDelay` exceeds `RouteTimeout`
  by at most the second that a record lives at least.
- `SingleInflight` is about questions of which no request has failed: after a
  failure all waiters ask again, each for itself, as the code's comment says.
- `CatchesUp` excuses a client behind by a signal that was dropped before the
  debouncer was back in its select, by a failed write or by a full message: the
  code then waits for the next entry. It says that nothing else leaves a client
  behind.
- `SendsPending` excludes subscriptions to an empty stream, which the run
  `websocket_empty` covers, and its clock does not wrap, which
  `websocket_wrap` covers.
- Clocks only advance. A step back has the effect of a wrap on cursors.
- Response codes, message formats and texts are left out.

## Proofs

The theorems hold for every value of the constants: any number of resolutions,
callers, scripts, records, faults and restarts, any capacity and any width of a
word. They rest on the assumptions that the modules name (addresses and times
are naturals, configurations and answers have their types, the bounds are
naturals, no resolution is called `pass` or `free`) and, where a theorem says
so, on one of three hypotheses:

| Hypothesis | Says | Used by |
|---|---|---|
| one alias per name | in `AddressesFound`: an answer section has at most one CNAME record per name | `ResponseProofs` |
| `RouteOutlivesAnswer` | for every answer, `RouteTimeout` covers what is left of its life in the cache when it is put there as late as `MaxDelay` allows; TTLs of 0 count as the code counts them | `CacheIsRouted` |
| `WithinWords` | `MaxTime < 2^TimeBits` and `MaxAppends < 2^IndexBits`: the clock does not wrap and the index does not come round (it may overflow to negative values); `websocket_wrap` shows that `SendsPending` is false without | `RingCorrect`, `InOrderOnce`, `NothingLeftOut`, `PagesRight`, `LinksLeadBack` |

Every hypothesis holds in the run that checks the same property.

**DNS store** (`DNSStoreProofs`). `TypeCorrect`, `IndexesAlwaysAgree`,
`NothingEmpty`, and `Refinement`: `DNSStore!Spec` implements `RecordStore!Spec`,
so that what `IPRoutes` assumes of the store is what the two maps under their
mutex do. Between two steps of an operation the indexes differ by the record in
`half` and nothing else (`HalfOK`, `AgreeElsewhere`); `FillOK` and `SweepOK` say
which records `fill` has yet to add and which `RemoveExpired` found, has visited
and has removed. Add, Remove and `fill` map to the abstract step when they take
`mu`, `RemoveExpired` to a begin and an end; every other write is a stutter.

**Route controller** (`IPRoutesProofs`, `IPRoutesSafety`).

- `TypeCorrect`: `TypeOK` includes `JobOK`, which says which fields of a
  resolution mean something at which point, so that it is inductive.
- `Tracked`: `TrackedInstalled` is inductive together with `TypeOK` and
  `ListInv`, which says that what the last list showed is not counted as absent.
  The heart of it are `AddKeepsTracked` and `DeleteKeepsTracked`, about every
  possible reply of an RPC, and `WithheldKept`: a route without a live record
  does not get one but by `dnsStore.Add`, which makes it `renewed`.
- `ConfigInForce`: `ConfigApplied` needs that the pass under way belongs to a
  caller in `wants` (`CallerInv`) and that a pass of the watcher has the newest
  configuration (`WatcherInv`).
- `RoutesStayWhileLive`: a route may be in the table and yet doomed, because the
  pass under way has found its record expired and will delete it. `OwedInv`
  therefore says that an owed route with a live record is tracked and not
  `Condemned` by the pass, or its resolution is still asking for it. `LockInv`
  ties `routesMu` to the program counters: an `AddRoute` that finds the route
  tracked cannot run between the decision of a pass and its delete. `PassInv`
  bounds what a pass may delete by what it listed.
- `PassLeavesClean`: `CleanPass` speaks of the end of a pass; `Decided` says of
  every step of its loops what has been decided so far. A route in the table is
  justified, or not yet looked at, or still to be deleted; a static route that
  the loop has passed is there to stay, or another was in its way, which is in
  the table or was in the listing. `LockInv` keeps resolutions from changing
  table and tracked routes meanwhile, and records that they store only add
  justifications.

**Answer sections** (`ResponseProofs`). `AddressesFound`: the loop of
`processTypeAResponse` finds the addresses of the name that the aliases lead to,
for sections of any length and with circles. `QueryTTLPositive`: the TTL stored
is at least a second.

**Resolver chain** (`ResolverProofs`). `TypeCorrect`, `OneRequestInFlight`,
`MapHasNewest`, `NoForeignErrors`, `RequestsBounded`, from one invariant. Its
heart is `RequestsOK`, which relates the map to the leaders under way: a request in
the map is the newest of its question and has a leader (`Registered`); where
the map has none, the leader of the newest has left (`Unregistered`); and only
a failure makes two leaders of one question (`LeaderInMap`). `CallMore` says
what a caller has in hand at each point, `CountOK` counts requests against
calls and the callers still waiting.
`CacheIsRouted` adds `RouteInv`: every answer
anywhere in the chain (in a request, a caller's hands or the cache) was stamped
when it arrived, and later stamps and overrides in place only help.

**Event streams** (`WebStreamProofs`). `TypeCorrect` needs no hypothesis.
`RingCorrect` rests on `Kept`: the ring holds the last entries of the log
(`AddHolds`, with the arithmetic modulo the capacity), and cursors increase,
because the index, which only comes round after `2^IndexBits` entries, increases
as an unsigned number and the clock part does not decrease. `SearchFinds` is the
binary search of `lookupPos`; `SelPicks` says what filtering picks; `QueryIs`
puts them together. `InOrderOnce` and `NothingLeftOut` then need, of every
subscription (`SubOK`), that its cursor is that of the last entry it was sent,
or of the newest entry when it was accepted, so that a query from it returns
what is pending. This is inductive across failed writes, dropped signals and
entries that the ring has lost.
`PagesRight` and `LinksLeadBack` hold for every number of entries to a page.
A listing is a sequence of a set's entries in the order of their cursors, up or
down, and there is only one (`ListsSame`). What a query looks at, what filtering
leaves of it and what reversing makes of it are listings (`QueryLists`,
`SelLists`, `ListsReverse`), and a page is the beginning of one, on the side of
the program as in the definition of `PageOf`. A cursor splits the listing of the
whole ring (`SplitsAt`), also a cursor of no entry: the entries beyond it are a
tail (`TailListed`), those before it a head (`HeadListed`). So a page ends where
the next one starts, and the way back ends at the same entry (`BackAgain`).

**Watchdog** (`WatchdogProofs`). `TypeCorrect` and `EditsNotMissed` hold however
the scripts fall together; the latter from `InForce`: a process remembers no time of the future,
and if the file is not newer than what it remembers, its content is in force.
`NeverTwo` and `AlwaysFound` follow from `Supervised`: until scripts have raced,
those at work know by their variable `PID` the instance there is, or that there
is none, and unless one of them is between spawn and the write of the pid, the
pid file names it. Any number of scripts may be looking at the same time; one
that changes something is alone, which is what there being no race yet says. So
a step either makes a race, or the script that takes it knows what it does
(`Known`), and the others know afterwards what they knew before (`MoveKeeps`). No
hypothesis about the schedule is needed: the theorems are about every behaviour
of the scripts.

Recursive definitions are proved about by induction over sets of naturals:
`NatMin` (a set of naturals has a smallest element) and `NatInd` (a set that
contains 0 and successors contains every natural) take sets, not operators, and
stand in for the library's induction theorems, which the provers cannot instantiate. Powers
of two are cardinalities of sets of subsets. For this the recursions of
`Buffered` and `DNSResponse` are recursive functions.

Only model-checked:

- everything temporal: `Settles`, `ResolutionsEnd`, `CallsEnd`, `CatchesUp`,
  `Released`, `Recovers`; liveness under fairness, and with it `ENABLED`, is out
  of the proof system's reach;
- that the answers `MCIPRoutes` derives from answer sections are those the
  controller's `Resolve` is meant to take.

## Known weaknesses

What the model shows of the code besides the five runs above, and the properties
therefore except:

- A tracked route that a pass has seen to be missing is not added when its record
  is renewed (`ip_routes.go:168`), until the next pass.
- Two watchdogs make two instances. The process crashes, and a `start` that comes
  before the watchdog's round starts another and goes on to watch, so two
  watchdogs sleep. A binary is uploaded and both wake up. One stops the instance,
  copies the binary, starts the new one and truncates the pid file; the other
  reads the pid file before the `echo`, takes it for empty, finds no process to
  stop and starts an instance of its own. Or both wait for the old instance to
  end, and each starts one. The second instance usually fails to bind its ports
  and ends, but the pid file may name that one. Two `start` commands at once do
  the same.
- A script killed by `restart_watchdogs.sh` between spawn and the write of the
  pid leaves an instance that no pid file names, and the new script starts
  another.
- A binary that is copied while it is uploaded is a part of one, and newer than
  the whole one, so that it is not replaced before the next upload.
- An edit of the configuration between the load at start and the first look at
  the modification time is lost until the next edit.

## Not modelled

- The text of `ip(8)` output, except that `0.0.0.0/0` is printed as `default` and
  that routes without carrier are printed longer; the format of the dump file.
- The `status` command, and the texts of the scripts' logs.
- DNS message packing, UDP and HTTP servers, upstream clients: I/O.
- The web front end: presentation in the browser, which starts afresh on every
  reconnect and handles one message at a time; logging handlers, metrics,
  profiling; generated RPC code.
- Which names go to mDNS: a test of the name's suffix.

## Plan

An abstract specification of the controller (the table follows the records and
the configuration) that `IPRoutes` implements.
