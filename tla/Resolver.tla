------------------------------ MODULE Resolver ------------------------------
(***************************************************************************)
(* The resolver chain of the DNS server as main.go builds it: the TTL      *)
(* override around the cache around the single-inflight resolver around    *)
(* the routing service, which stamps the record of what it resolved in the *)
(* DNS store.  Servers call the chain from many goroutines.                *)
(*                                                                         *)
(* A waiter of an inflight request is handed the resource records of the   *)
(* leader's response, not a copy: reqs holds these shared objects, and     *)
(* whoever overrides a TTL changes it for everyone who holds the response. *)
(***************************************************************************)
EXTENDS DNSResponse

CONSTANTS
    Client,        \* goroutines that serve DNS queries
    Question,      \* messages, told apart by their question section
    Single,        \* the messages with exactly one question
    TypeA,         \* those of them that ask for an address
    Name,          \* domain names; an address question is named by its own
    Value,         \* addresses
    Reply,         \* the answer sections upstream may send
    TTLOverride,   \* dns_ttl_override
    RouteTimeout,  \* route_timeout: how long a record outlives its TTL
    MaxDelay,      \* from the stamp of a record to the last Put of its answer
    MaxTime, MaxCalls, MaxFaults, MaxCancels

RR == [type : {"A"}, name : Name, data : Value, ttl : Nat]
      \cup [type : {"CNAME"}, name : Name, data : Name, ttl : Nat]

ASSUME QuestionAssumption == /\ TypeA \subseteq Single /\ Single \subseteq Question
                             /\ TypeA \subseteq Name
\* A name has at most one alias (RFC 1034, 3.6.2).
ASSUME ReplyAssumption ==
    /\ Reply \subseteq Seq(RR)
    /\ \A rrs \in Reply, n \in Name : Cardinality(Of(rrs, "CNAME", n)) <= 1
ASSUME BoundsAssumption ==
    /\ MaxTime \in Nat /\ MaxCalls \in Nat /\ MaxFaults \in Nat
    /\ MaxCancels \in Nat /\ MaxDelay \in Nat /\ TTLOverride \in Nat
    /\ RouteTimeout \in Nat

VARIABLES
    now,       \* the wall clock
    calls,     \* the Resolve call each client has under way
    reqs,      \* every inflightRequest made, in order of creation
    requests,  \* singleInflightResolver.requests: the number of one in reqs
    cache,     \* DNSCache.entries
    expiry,    \* DNSStore: when the record of a question and an address expires
    used,      \* how much of each bound has been spent
    failed     \* history: questions of which an upstream request failed

vars == <<now, calls, reqs, requests, cache, expiry, used, failed>>
-----------------------------------------------------------------------------
NoReq == 0

NoTime == -1

NoValue == "none"

NoResp == [rrs |-> <<>>, at |-> NoTime]

NoEntry == [resp |-> NoResp, expires |-> 0]

Idle == [pc |-> "idle", q |-> NoValue, req |-> NoReq, resp |-> NoResp,
         over |-> FALSE, fault |-> FALSE, err |-> FALSE]

Init == /\ now = 0
        /\ calls = [c \in Client |-> Idle]
        /\ reqs = <<>>
        /\ requests = [q \in Single |-> NoReq]
        /\ cache = [q \in TypeA |-> NoEntry]
        /\ expiry = [q \in TypeA |-> [v \in Value |-> 0]]
        /\ used = [calls |-> 0, faults |-> 0, cancels |-> 0]
        /\ failed = {}

TTLs(resp) == {resp.rrs[i].ttl : i \in DOMAIN resp.rrs}

\* The response a call holds: the shared one of its request, or its own copy.
Holds(c) == IF calls[c].req = NoReq THEN calls[c].resp ELSE reqs[calls[c].req].resp

Goto(c, pc) == calls' = [calls EXCEPT ![c].pc = pc]

\* The call returns; err: with an error.
Return(c, err) ==
    calls' = [calls EXCEPT ![c] =
                 [Idle EXCEPT !.err = err, !.over = calls[c].over,
                              !.fault = calls[c].fault]]
-----------------------------------------------------------------------------
(* DNSCache. *)

\* DNSCache.Get finds an entry that has not expired.
Hit(q) == cache[q] # NoEntry /\ now <= cache[q].expires

\* dnsCacheEntry.Result: a copy, every TTL set to what is left, at least 1.
Result(e) ==
    [e.resp EXCEPT !.rrs = [i \in DOMAIN @ |->
        [@[i] EXCEPT !.ttl = Max({1, e.expires - now})]]]

\* Mutant: the answer lives for the largest TTL.
PutLongest(q, resp) ==
    LET ttls == TTLs(resp) \ {0} IN
    cache' = IF ttls = {} THEN cache
             ELSE [cache EXCEPT ![q] = [resp |-> resp,
                                        expires |-> now + Max(ttls)]]

\* DNSCache.Put: nothing for an answer without a positive TTL; otherwise a
\* copy that lives for the smallest of the positive ones.
Put(q, resp) ==
    LET ttls == TTLs(resp) \ {0} IN
    cache' = IF ttls = {} THEN cache
             ELSE [cache EXCEPT ![q] = [resp |-> resp,
                                        expires |-> now + Min(ttls)]]

\* DNSCache.RemoveExpired, run every minute.
RemoveExpired ==
    /\ \E q \in TypeA : cache[q] # NoEntry /\ ~Hit(q)
    /\ cache' = [q \in TypeA |-> IF Hit(q) THEN cache[q] ELSE NoEntry]
    /\ UNCHANGED <<now, calls, reqs, requests, expiry, used, failed>>
-----------------------------------------------------------------------------
(* The chain, from the outside in. *)

CallVars == <<now, used, failed>>

\* A query arrives and the cache is looked up.
Resolve(c, q) ==
    /\ calls[c].pc = "idle"
    /\ used.calls < MaxCalls
    /\ used' = [used EXCEPT !.calls = @ + 1]
    /\ calls' = [calls EXCEPT ![c] =
          IF q \in TypeA /\ Hit(q)
          THEN [Idle EXCEPT !.pc = "override", !.q = q, !.resp = Result(cache[q])]
          ELSE [Idle EXCEPT !.pc = IF q \in Single THEN "join" ELSE "upstream",
                            !.q = q]]
    /\ UNCHANGED <<now, reqs, requests, cache, expiry, failed>>

\* A new inflightRequest takes the question's place in the map.
Register(c) ==
    LET q == calls[c].q IN
    /\ reqs' = Append(reqs, [q |-> q, by |-> c, done |-> FALSE, err |-> FALSE,
                             resp |-> NoResp])
    /\ requests' = [requests EXCEPT ![q] = Len(reqs) + 1]
    /\ calls' = [calls EXCEPT ![c].pc = "upstream", ![c].req = Len(reqs) + 1]

\* Mutant: a request whose leader is about to delete it counts as gone.
InflightOpen(q) == requests[q] # NoReq /\ ~reqs[requests[q]].done

Inflight(q) == requests[q] # NoReq

\* singleInflightResolver.Resolve up to the first Unlock.
Join(c) ==
    /\ calls[c].pc = "join"
    /\ IF Inflight(calls[c].q)
       THEN /\ calls' = [calls EXCEPT ![c].pc = "wait",
                                      ![c].req = requests[calls[c].q]]
            /\ UNCHANGED <<reqs, requests>>
       ELSE Register(c)
    /\ UNCHANGED <<CallVars, cache, expiry>>

\* Mutant: a waiter hands the leader's error on.
FailWithLeader(c) == Return(c, TRUE) /\ UNCHANGED <<reqs, requests>>

\* Mutant: the second attempt goes on with the leader's request.
RetryForLeader(c) == Goto(c, "upstream") /\ UNCHANGED <<reqs, requests>>

\* The leader failed: ask again, whoever else is doing so.
Retry(c) == Register(c)

\* The select of a waiter: the leader's answer, or its own context.
Wait(c) ==
    /\ calls[c].pc = "wait"
    /\ \/ /\ calls[c].over
          /\ Return(c, TRUE)
          /\ UNCHANGED <<reqs, requests>>
       \/ /\ reqs[calls[c].req].done
          /\ IF reqs[calls[c].req].err
             THEN Retry(c)
             ELSE Goto(c, "put") /\ UNCHANGED <<reqs, requests>>
    /\ UNCHANGED <<CallVars, cache, expiry>>

\* processTypeAResponse: a record for each address at the end of the chain.
Stamp(q, rrs) ==
    expiry' = IF q \notin TypeA THEN expiry
              ELSE [expiry EXCEPT ![q] = [v \in Value |->
                       IF v \in Addresses(q, rrs) THEN now + QueryTTL(q, rrs)
                       ELSE @[v]]]

\* The routing service has got an answer and stamped the record; adding the
\* routes takes a while longer.
Answered(c, rrs) ==
    /\ calls[c].pc = "upstream"
    /\ Stamp(calls[c].q, rrs)
    /\ IF calls[c].req = NoReq
       THEN Return(c, FALSE) /\ UNCHANGED reqs
       ELSE /\ reqs' = [reqs EXCEPT ![calls[c].req].resp = [rrs |-> rrs, at |-> now]]
            /\ Goto(c, "close")
    /\ UNCHANGED <<CallVars, requests, cache>>

\* The upstream call fails, by itself or because the context is over.
Failed(c) ==
    /\ calls[c].pc = "upstream"
    /\ \/ calls[c].over /\ UNCHANGED used
       \/ /\ ~calls[c].over /\ used.faults < MaxFaults
          /\ used' = [used EXCEPT !.faults = @ + 1]
    /\ IF calls[c].req = NoReq
       THEN /\ calls' = [calls EXCEPT ![c] =
                  [Idle EXCEPT !.err = TRUE, !.over = calls[c].over, !.fault = TRUE]]
            /\ UNCHANGED <<reqs, failed>>
       ELSE /\ reqs' = [reqs EXCEPT ![calls[c].req].err = TRUE]
            /\ calls' = [calls EXCEPT ![c].pc = "close", ![c].fault = TRUE]
            /\ failed' = failed \cup {calls[c].q}
    /\ UNCHANGED <<now, requests, cache, expiry>>

\* Mutant: only an answer is announced.
DoneIfAnswered(r) == [r EXCEPT !.done = ~r.err]

Done(r) == [r EXCEPT !.done = TRUE]

\* close(req.Done).
Close(c) ==
    /\ calls[c].pc = "close"
    /\ reqs' = [reqs EXCEPT ![calls[c].req] = Done(@)]
    /\ Goto(c, "delete")
    /\ UNCHANGED <<CallVars, requests, cache, expiry>>

\* Mutant: the question's entry is deleted, whoever put it there.
DeleteAny(req) == [requests EXCEPT ![reqs[req].q] = NoReq]

DeleteOwn(req) == IF requests[reqs[req].q] = req
                  THEN [requests EXCEPT ![reqs[req].q] = NoReq]
                  ELSE requests

\* Mutant: a leader whose request failed tries again itself.
LeaderTriesAgain(c) == Goto(c, "join")

LeaderFails(c) == Return(c, TRUE)

\* The leader takes its request out of the map and returns to the cache.
Delete(c) ==
    /\ calls[c].pc = "delete"
    /\ requests' = DeleteOwn(calls[c].req)
    /\ IF reqs[calls[c].req].err THEN LeaderFails(c) ELSE Goto(c, "put")
    /\ UNCHANGED <<CallVars, reqs, cache, expiry>>

\* cachedDNSResolver stores the answer of an address question, the leader's
\* and every waiter's.
CachePut(c) ==
    /\ calls[c].pc = "put"
    /\ IF calls[c].q \in TypeA
       THEN Put(calls[c].q, Holds(c)) /\ Goto(c, "override")
       ELSE Return(c, FALSE) /\ UNCHANGED cache
    /\ UNCHANGED <<CallVars, reqs, requests, expiry>>

\* min(Ttl, ttlOverride) in every A record, in place.
Lowered(rr) == IF rr.type = "A" /\ TTLOverride > 0
               THEN [rr EXCEPT !.ttl = Min({rr.ttl, TTLOverride})] ELSE rr

Overridden(resp) ==
    [resp EXCEPT !.rrs = [i \in DOMAIN resp.rrs |-> Lowered(resp.rrs[i])]]

Override(c) ==
    /\ calls[c].pc = "override"
    /\ reqs' = IF calls[c].req = NoReq THEN reqs
               ELSE [reqs EXCEPT ![calls[c].req].resp = Overridden(@)]
    /\ Return(c, FALSE)
    /\ UNCHANGED <<CallVars, requests, cache, expiry>>

\* The client of an HTTP query goes away, or the server shuts down.
Cancel(c) ==
    /\ calls[c].pc # "idle" /\ ~calls[c].over
    /\ used.cancels < MaxCancels
    /\ used' = [used EXCEPT !.cancels = @ + 1]
    /\ calls' = [calls EXCEPT ![c].over = TRUE]
    /\ UNCHANGED <<now, reqs, requests, cache, expiry, failed>>

\* An answer that has been stamped and is still to be put in the cache.
Fresh(c) == calls[c].pc \in {"close", "wait", "delete", "put"}
            /\ Holds(c) # NoResp

\* Time passes, but no answer is on its way for longer than MaxDelay.
Tick ==
    /\ now < MaxTime
    /\ \A c \in Client : Fresh(c) => now < Holds(c).at + MaxDelay
    /\ now' = now + 1
    /\ UNCHANGED <<calls, reqs, requests, cache, expiry, used, failed>>
-----------------------------------------------------------------------------
Step(c) == \/ Join(c) \/ Wait(c) \/ Close(c) \/ Delete(c)
           \/ CachePut(c) \/ Override(c)
           \/ \E rrs \in Reply : Answered(c, rrs)

Next == \/ \E c \in Client : \/ \E q \in Question : Resolve(c, q)
                             \/ Step(c) \/ Failed(c) \/ Cancel(c)
        \/ RemoveExpired \/ Tick

Spec == Init /\ [][Next]_vars

\* Goroutines make progress, and upstream answers or times out.
FairSpec == Spec /\ \A c \in Client : WF_vars(Step(c))
-----------------------------------------------------------------------------
RespType == [rrs : Seq(RR), at : NoTime .. MaxTime]

\* A call past Join refers to a request of its question; the one that is to
\* close Done made the request, and nobody has closed it before (closing a
\* closed channel would be a panic).
CallOK(c) ==
    LET call == calls[c] IN
    /\ call.pc \in {"wait", "close", "delete"} => call.req # NoReq
    /\ call.req # NoReq => reqs[call.req].q = call.q
    /\ call.pc \in {"upstream", "close", "delete"} /\ call.req # NoReq
          => reqs[call.req].by = c /\ (reqs[call.req].done <=> call.pc = "delete")

TypeOK ==
    /\ now \in 0 .. MaxTime
    /\ calls \in [Client ->
          [pc : {"idle", "join", "wait", "upstream", "close", "delete", "put",
                 "override"},
           q : Question \cup {NoValue}, req : 0 .. Len(reqs), resp : RespType,
           over : BOOLEAN, fault : BOOLEAN, err : BOOLEAN]]
    /\ reqs \in Seq([q : Single, by : Client, done : BOOLEAN, err : BOOLEAN,
                     resp : RespType])
    /\ requests \in [Single -> 0 .. Len(reqs)]
    /\ cache \in [TypeA -> [resp : RespType, expires : Nat]]
    /\ expiry \in [TypeA -> [Value -> Nat]]
    /\ failed \in SUBSET Single
    /\ \A c \in Client : CallOK(c)

\* The calls that have sent a request for q upstream and not yet withdrawn it.
Leaders(q) == {c \in Client : /\ calls[c].pc \in {"upstream", "close", "delete"}
                              /\ calls[c].q = q}

\* Of the questions of which no request has failed there is at most one
\* request on its way, however the callers interleave with the leader's
\* close, delete and return.
SingleInflight == \A q \in Single \ failed : Cardinality(Leaders(q)) <= 1

\* The map has exactly the newest request of a question for as long as its
\* leader has not left: a request that ends late never unregisters a newer
\* one, and none is left behind to answer later queries with old data.
NewestRegistered ==
    \A q \in Single :
        LET mine == {k \in DOMAIN reqs : reqs[k].q = q}
            open == \E c \in Leaders(q) : calls[c].req = Max(mine)
        IN requests[q] = IF mine # {} /\ open THEN Max(mine) ELSE NoReq

\* A query fails only if its own context ended or its own request failed:
\* waiting on a leader that fails or is cancelled costs a second attempt,
\* never an error.
OwnErrorsOnly == \A c \in Client : calls[c].err => calls[c].over \/ calls[c].fault

\* A query sends at most one request upstream, and one that has yet to join or
\* waits has not sent any: when a leader fails, all its waiters ask at once,
\* but the failures of these do not set off another round.
OneRequestEach ==
    LET waiting == {c \in Client : calls[c].pc \in {"join", "wait"}}
    IN  Len(reqs) + Cardinality(waiting) <= used.calls

\* While the cache hands out an address that the question leads to, the record
\* that keeps its route alive has not run out, neither by the shorter life the store gives a
\* record with a zero TTL nor by waiters that put the answer late, provided
\* RouteTimeout covers the largest TTL plus that delay.
CachedIsRouted ==
    \A q \in TypeA :
        LET e == cache[q] IN
        now <= e.expires => \A v \in AddressesOf(q, e.resp.rrs) :
                               now <= expiry[q][v] + RouteTimeout

\* Every query is answered, also those that wait for a leader that fails.
CallsEnd == \A c \in Client : []<>(calls[c].pc = "idle")
=============================================================================
