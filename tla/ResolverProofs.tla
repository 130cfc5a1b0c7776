--------------------------- MODULE ResolverProofs ---------------------------
(***************************************************************************)
(* What holds of the resolver chain for any number of callers, questions   *)
(* and upstream failures, and for all bounds.                              *)
(***************************************************************************)
EXTENDS Resolver, ResponseProofs

-----------------------------------------------------------------------------
(* The inductive invariant. *)

\* What CallOK leaves open: the question and request of a call at each point,
\* and that a leader about to leave with an error has failed itself.
CallMore(c) ==
    LET call == calls[c] IN
    /\ call.pc # "idle" => call.q \in Question
    /\ call.pc = "join" => call.q \in Single /\ call.req = NoReq
    /\ call.pc = "upstream" /\ call.q \in Single => call.req # NoReq
    /\ call.pc = "put" => call.req # NoReq
    /\ call.pc = "upstream" /\ call.req # NoReq => ~ reqs[call.req].err
    /\ call.pc \in {"close", "delete"} /\ reqs[call.req].err => call.fault

UsedOK == used \in [calls : Nat, faults : Nat, cancels : Nat]

Mine(q) == {k \in DOMAIN reqs : reqs[k].q = q}

\* The map has the newest request of a question, and its leader is there.
Registered(q) ==
    requests[q] # NoReq =>
        /\ requests[q] \in Mine(q)
        /\ \A k \in Mine(q) : k <= requests[q]
        /\ \E c \in Leaders(q) : calls[c].req = requests[q]

\* Without one in the map the leader of the newest has left.
Unregistered(q) ==
    requests[q] = NoReq =>
        \A c \in Leaders(q) : \E k \in Mine(q) : k > calls[c].req

\* Only a failure makes callers ask past the request in the map.
LeaderInMap(q) ==
    q \notin failed => \A c \in Leaders(q) : calls[c].req = requests[q]

RequestsOK == /\ \A q \in Single : /\ Registered(q) /\ Unregistered(q)
                                   /\ LeaderInMap(q)
              /\ \A k \in DOMAIN reqs : reqs[k].err => reqs[k].q \in failed

Waiting == {c \in Client : calls[c].pc \in {"join", "wait"}}

\* OneRequestEach, with what Cardinality needs.
CountOK == IsFiniteSet(Waiting) /\ OneRequestEach

IInv == /\ TypeOK /\ UsedOK /\ RequestsOK /\ CountOK
        /\ OwnErrorsOnly
        /\ \A c \in Client : CallMore(c)
-----------------------------------------------------------------------------
(* Answers, their records and the cache. *)

\* The records of an answer's addresses outlive the moment it was stamped.
Stamped(q, resp) ==
    \A v \in AddressesOf(q, resp.rrs) : expiry[q][v] >= resp.at + 1

\* The cache will not keep it longer than a route lasts, if it keeps it.
ShortLived(rrs) ==
    (\E i \in DOMAIN rrs : rrs[i].ttl > 0) =>
        \E i \in DOMAIN rrs : rrs[i].ttl > 0 /\ rrs[i].ttl + MaxDelay <= RouteTimeout + 1

RespOK(resp) == IF resp.at = NoTime THEN DOMAIN resp.rrs = {}
                ELSE resp.at \in 0 .. now /\ ShortLived(resp.rrs)

AnswersOK == \A k \in DOMAIN reqs :
                /\ RespOK(reqs[k].resp)
                /\ reqs[k].q \in TypeA => Stamped(reqs[k].q, reqs[k].resp)

EntryOK(q, e) == /\ e.resp.at \in 0 .. now
                 /\ e.expires <= e.resp.at + RouteTimeout + 1
                 /\ Stamped(q, e.resp)

CacheOK == \A q \in TypeA : cache[q] = NoEntry \/ EntryOK(q, cache[q])

\* An answer on its way to the cache has been under way for MaxDelay at most.
Timely(resp) == resp.at # NoTime => now <= resp.at + MaxDelay

OnTime(c) == calls[c].pc \in {"close", "wait", "delete", "put"}
                => Timely(reqs[calls[c].req].resp)

\* Nobody answers a leader's request for it.
Unanswered(c) == calls[c].pc = "upstream" /\ calls[c].req # NoReq
                    => reqs[calls[c].req].resp.at = NoTime

RouteInv == /\ AnswersOK /\ CacheOK
            /\ \A c \in Client : OnTime(c) /\ Unanswered(c)

\* route_timeout covers what is left of an answer's life in the cache when it
\* is put there late: a record with a TTL of 0 does not count, the cache takes
\* the smallest of the others.
RouteOutlivesAnswer == \A rrs \in Reply : ShortLived(rrs)

-----------------------------------------------------------------------------
(* Every action preserves the invariant. *)

PCs == {"idle", "join", "wait", "upstream", "close", "delete", "put", "override"}

Call == [pc : PCs, q : Question \cup {NoValue}, req : Nat, resp : RespType,
         over : BOOLEAN, fault : BOOLEAN, err : BOOLEAN]

Req == [q : Single, by : Client, done : BOOLEAN, err : BOOLEAN, resp : RespType]

\* What the steps need of TypeOK, a call at a time.
LEMMA TypesUsed ==
    ASSUME IInv
    PROVE  /\ calls \in [Client -> Call] /\ reqs \in Seq(Req)
           /\ requests \in [Single -> Nat] /\ Len(reqs) \in Nat
           /\ \A c \in Client : /\ calls[c] \in Call /\ calls[c].req \in 0 .. Len(reqs)
                                /\ calls[c].req = NoReq \/ calls[c].req \in DOMAIN reqs
                                /\ CallOK(c) /\ CallMore(c)
           /\ \A k \in DOMAIN reqs : k \in Nat /\ k >= 1 /\ k <= Len(reqs)
                                     /\ reqs[k] \in Req
           /\ \A q \in Single : /\ requests[q] \in 0 .. Len(reqs)
                                /\ requests[q] = NoReq \/ requests[q] \in DOMAIN reqs
                                /\ Registered(q) /\ Unregistered(q) /\ LeaderInMap(q)
<1>1. TypeOK /\ RequestsOK /\ \A c \in Client : CallMore(c)
  BY DEF IInv
<1>2. \A k \in 0 .. Len(reqs) : k \in Nat
  OBVIOUS
<1>3. reqs \in Seq(Req) /\ Len(reqs) \in Nat
  BY <1>1 DEF TypeOK, Req
<1>4. calls \in [Client -> Call] /\ \A c \in Client : calls[c].req \in 0 .. Len(reqs)
  BY <1>1, <1>2 DEF TypeOK, Call, PCs
<1>5. requests \in [Single -> Nat] /\ \A q \in Single : requests[q] \in 0 .. Len(reqs)
  BY <1>1, <1>2 DEF TypeOK
<1>6. \A k \in DOMAIN reqs : k \in Nat /\ k >= 1 /\ k <= Len(reqs) /\ reqs[k] \in Req
  BY <1>3
<1>7. \A k \in 0 .. Len(reqs) : k = NoReq \/ k \in DOMAIN reqs
  BY <1>3 DEF NoReq
<1>8. \A q \in Single : Registered(q) /\ Unregistered(q) /\ LeaderInMap(q)
  BY <1>1 DEF RequestsOK
<1>9. \A c \in Client : CallOK(c) /\ calls[c] \in Call
  BY <1>1, <1>4 DEF TypeOK
<1> QED
  BY <1>1, <1>3, <1>4, <1>5, <1>6, <1>7, <1>8, <1>9

\* A request has one leader.
LEMMA OneLeader ==
    ASSUME IInv, NEW q \in Single, NEW c \in Leaders(q), NEW d \in Leaders(q),
           calls[c].req = calls[d].req
    PROVE  c = d
<1>1. calls[c].req # NoReq /\ calls[d].req # NoReq
  BY TypesUsed DEF Leaders, CallOK, CallMore
<1> QED
  BY <1>1, TypesUsed DEF Leaders, CallOK

LEMMA NoRespType == NoResp \in RespType /\ Idle.resp \in RespType
<1>1. NoTime \in NoTime .. MaxTime
  BY BoundsAssumption DEF NoTime
<1> QED
  BY <1>1 DEF NoResp, RespType, Idle

\* OneRequestEach in terms of Waiting.
LEMMA CountIs == OneRequestEach <=> Len(reqs) + Cardinality(Waiting) <= used.calls
  BY DEF OneRequestEach, Waiting

LEMMA InitInv == Init => IInv
<1> SUFFICES ASSUME Init PROVE IInv
  OBVIOUS
<1>1. reqs = <<>> /\ Len(reqs) = 0 /\ DOMAIN reqs = {}
  BY DEF Init
<1>2. \A c \in Client : calls[c] = Idle
  BY DEF Init
<1>3. \A c \in Client : CallOK(c) /\ CallMore(c)
  BY <1>2 DEF CallOK, CallMore, Idle, NoReq
<1>4. TypeOK
  <2>1. calls \in [Client -> [pc : PCs, q : Question \cup {NoValue},
                              req : 0 .. Len(reqs), resp : RespType,
                              over : BOOLEAN, fault : BOOLEAN, err : BOOLEAN]]
    BY <1>1, NoRespType DEF Init, Idle, PCs, NoReq
  <2>2. cache \in [TypeA -> [resp : RespType, expires : Nat]]
    BY NoRespType DEF Init, NoEntry
  <2>3. requests \in [Single -> 0 .. Len(reqs)]
    BY <1>1 DEF Init, NoReq
  <2>4. now \in 0 .. MaxTime /\ expiry \in [TypeA -> [Value -> Nat]]
        /\ failed \in SUBSET Single /\ reqs \in Seq(Req)
    BY BoundsAssumption DEF Init
  <2> QED
    BY <1>3, <2>1, <2>2, <2>3, <2>4 DEF TypeOK, PCs, Req
<1>5. RequestsOK
  BY <1>1, <1>2 DEF RequestsOK, Registered, Unregistered, LeaderInMap, Leaders, Idle,
                    Init
<1>6. Waiting = {}
  BY <1>2 DEF Waiting, Idle
<1>7. CountOK
  BY <1>1, <1>6, CountIs, FS_EmptySet DEF CountOK, Init
<1>8. UsedOK /\ OwnErrorsOnly
  BY <1>2 DEF UsedOK, OwnErrorsOnly, Init, Idle
<1> QED
  BY <1>3, <1>4, <1>5, <1>7, <1>8 DEF IInv

\* A step after which no more callers wait and no request has been made.
LEMMA CountKept ==
    ASSUME IInv, Len(reqs') = Len(reqs), used'.calls = used.calls, Waiting' \subseteq Waiting
    PROVE  CountOK'
<1>1. IsFiniteSet(Waiting) /\ Len(reqs) + Cardinality(Waiting) <= used.calls
  BY CountIs DEF IInv, CountOK
<1>2. IsFiniteSet(Waiting') /\ Cardinality(Waiting') <= Cardinality(Waiting)
  BY <1>1, FS_Subset
<1>3. Cardinality(Waiting) \in Nat /\ Cardinality(Waiting') \in Nat
  BY <1>1, <1>2, FS_CardinalityType
<1>4. Len(reqs) \in Nat /\ used.calls \in Nat
  BY TypesUsed DEF IInv, UsedOK
<1>5. (Len(reqs) + Cardinality(Waiting) <= used.calls)'
  BY <1>1, <1>2, <1>3, <1>4
<1>6. (OneRequestEach <=> Len(reqs) + Cardinality(Waiting) <= used.calls)'
  BY DEF OneRequestEach, Waiting
<1> QED
  BY <1>2, <1>5, <1>6 DEF CountOK

\* The caller that stops waiting makes a request.
LEMMA CountRegister ==
    ASSUME IInv, NEW c \in Waiting, Len(reqs') = Len(reqs) + 1, used' = used,
           Waiting' = Waiting \ {c}
    PROVE  CountOK'
<1>1. IsFiniteSet(Waiting) /\ Len(reqs) + Cardinality(Waiting) <= used.calls
  BY CountIs DEF IInv, CountOK
<1>2. IsFiniteSet(Waiting') /\ Cardinality(Waiting') = Cardinality(Waiting) - 1
  BY <1>1, FS_RemoveElement
<1>3. Cardinality(Waiting) \in Nat /\ Len(reqs) \in Nat /\ used.calls \in Nat
  BY <1>1, FS_CardinalityType, TypesUsed DEF IInv, UsedOK
<1>4. (Len(reqs) + Cardinality(Waiting) <= used.calls)'
  BY <1>1, <1>2, <1>3
<1>5. (OneRequestEach <=> Len(reqs) + Cardinality(Waiting) <= used.calls)'
  BY DEF OneRequestEach, Waiting
<1> QED
  BY <1>2, <1>4, <1>5 DEF CountOK

\* A new request, of a question that has none in the map or of which one has
\* failed.
LEMMA RegisterInv ==
    ASSUME IInv, NEW c \in Client, calls[c].pc \in {"join", "wait"}, Register(c),
           requests[calls[c].q] = NoReq \/ calls[c].q \in failed,
           UNCHANGED <<now, cache, expiry, used, failed>>
    PROVE  IInv'
<1>p. PICK p \in Single : p = calls[c].q
  BY TypesUsed DEF CallOK, CallMore, Req
<1>n. PICK n \in Nat : n = Len(reqs) + 1
  BY TypesUsed
<1>1. /\ calls \in [Client -> Call] /\ reqs \in Seq(Req) /\ n > 0
      /\ requests \in [Single -> Nat]
  BY <1>n, TypesUsed
<1>2. /\ reqs' = Append(reqs, [q |-> p, by |-> c, done |-> FALSE, err |-> FALSE,
                               resp |-> NoResp])
      /\ requests' = [requests EXCEPT ![p] = n]
      /\ calls' = [calls EXCEPT ![c].pc = "upstream", ![c].req = n]
  BY <1>n, <1>p DEF Register
<1>3. /\ reqs' \in Seq(Req) /\ Len(reqs') = n
      /\ \A k \in DOMAIN reqs : reqs'[k] = reqs[k]
      /\ reqs'[n] = [q |-> p, by |-> c, done |-> FALSE, err |-> FALSE, resp |-> NoResp]
      /\ DOMAIN reqs' = DOMAIN reqs \cup {n} /\ n \notin DOMAIN reqs
  <2>1. [q |-> p, by |-> c, done |-> FALSE, err |-> FALSE, resp |-> NoResp] \in Req
    BY <1>1, NoRespType DEF Req
  <2> QED
    BY <1>1, <1>2, <1>n, <2>1
<1>4. /\ \A d \in Client \ {c} : calls'[d] = calls[d]
      /\ calls'[c] = [calls[c] EXCEPT !.pc = "upstream", !.req = n]
      /\ calls' \in [Client -> Call]
      /\ calls'[c].pc = "upstream" /\ calls'[c].req = n /\ calls'[c].q = p
      /\ calls'[c].err = calls[c].err /\ calls'[c].over = calls[c].over
      /\ calls'[c].fault = calls[c].fault
  BY <1>1, <1>2, <1>p DEF Call, PCs
<1>5. ASSUME NEW d \in Client
      PROVE  CallOK(d)' /\ CallMore(d)' /\ calls'[d].req \in 0 .. Len(reqs')
  <2>1. CASE d = c
    <3>1. n \in DOMAIN reqs' /\ n # 0 /\ n \in 0 .. Len(reqs') /\ p \in Question
      BY <1>3, <1>n, QuestionAssumption
    <3> QED
      <4>1. CallMore(c)'
        BY <1>3, <1>4, <3>1 DEF CallMore, NoReq
      <4>2. reqs'[n].done = FALSE /\ reqs'[n].by = c /\ reqs'[n].q = p
        BY <1>3
      <4>3. CallOK(c)'
        BY <1>4, <3>1, <4>2 DEF CallOK, NoReq
      <4> QED
        BY <1>4, <2>1, <3>1, <4>1, <4>3
  <2>2. CASE d # c
    <3>1. calls[d].req = NoReq \/ calls[d].req \in DOMAIN reqs
      BY TypesUsed DEF NoReq
    <3> QED
      BY <1>3, <1>4, <2>2, <1>n, <3>1, TypesUsed DEF CallOK, CallMore, NoReq
  <2> QED
    BY <2>1, <2>2
<1>6. TypeOK'
  <2>1. calls' \in [Client -> [pc : PCs, q : Question \cup {NoValue},
                              req : 0 .. Len(reqs'), resp : RespType,
                              over : BOOLEAN, fault : BOOLEAN, err : BOOLEAN]]
    BY <1>4, <1>5 DEF Call
  <2>2. requests' \in [Single -> 0 .. Len(reqs')]
    BY <1>1, <1>2, <1>3, <1>n, TypesUsed
  <2> QED
    BY <1>3, <1>5, <2>1, <2>2 DEF TypeOK, PCs, Req, IInv
<1>7. RequestsOK'
  <2>1. \A q \in Single : Mine(q)' = IF q = p THEN Mine(q) \cup {n} ELSE Mine(q)
    BY <1>3 DEF Mine
  <2>2. \A q \in Single, d \in Client :
           d \in Leaders(q)' <=> d \in Leaders(q) \/ (d = c /\ q = p)
    BY <1>4 DEF Leaders
  <2>3. \A q \in Single : \A d \in Leaders(q) : d # c /\ calls'[d] = calls[d]
    BY <1>4 DEF Leaders
  <2>4. \A k \in DOMAIN reqs : k \in Nat /\ k <= n
    BY <1>n, TypesUsed
  <2>5. ASSUME NEW q \in Single, q # p
        PROVE  Registered(q)' /\ Unregistered(q)' /\ LeaderInMap(q)'
    <3>1. requests'[q] = requests[q]
      BY <1>1, <1>2, <2>5
    <3>2. Mine(q)' = Mine(q) /\ Leaders(q)' = Leaders(q)
      BY <2>1, <2>2, <2>5 DEF Leaders
    <3>3. \A d \in Leaders(q) : calls'[d].req = calls[d].req
      BY <2>3
    <3>4. Registered(q)'
      BY <3>1, <3>2, <3>3, TypesUsed DEF Registered
    <3>5. Unregistered(q)'
      BY <3>1, <3>2, <3>3, TypesUsed DEF Unregistered
    <3>6. LeaderInMap(q)'
      BY <3>1, <3>2, <3>3, TypesUsed DEF LeaderInMap
    <3> QED
      BY <3>4, <3>5, <3>6
  <2>6. Registered(p)' /\ Unregistered(p)'
    <3>1. requests'[p] = n
      BY <1>1, <1>2
    <3>2. n \in Mine(p)' /\ \A k \in Mine(p)' : k <= n
      BY <1>3, <1>n, <2>4 DEF Mine
    <3>3. c \in Leaders(p)'
      BY <2>2
    <3>4. calls'[c].req = n /\ n # NoReq
      BY <1>1, <1>4 DEF NoReq
    <3>5. Registered(p)'
      BY <3>1, <3>2, <3>3, <3>4 DEF Registered
    <3>6. Unregistered(p)'
      BY <3>1, <3>4 DEF Unregistered
    <3> QED
      BY <3>5, <3>6
  <2>7. LeaderInMap(p)'
    <3> SUFFICES ASSUME p \notin failed, NEW d \in Leaders(p)' PROVE d = c
      BY <1>1, <1>2, <1>4 DEF LeaderInMap, Leaders
    <3> SUFFICES ASSUME d # c PROVE FALSE
      OBVIOUS
    <3>1. d \in Leaders(p) /\ calls[d].req = requests[p] /\ requests[p] = NoReq
      BY <1>p, <2>2, TypesUsed DEF LeaderInMap, Leaders
    <3>2. Unregistered(p)
      BY <1>1, TypesUsed
    <3>3. calls[d].req # NoReq
      BY <1>1, <3>1, TypesUsed DEF Leaders, CallMore, CallOK
    <3> QED
      BY <3>1, <3>3
  <2>8. \A k \in DOMAIN reqs' : reqs'[k].err => reqs'[k].q \in failed'
    BY <1>3 DEF IInv, RequestsOK
  <2> QED
    BY <2>5, <2>6, <2>7, <2>8 DEF RequestsOK
<1>8. CountOK'
  <2>1. c \in Waiting /\ Waiting' = Waiting \ {c}
    BY <1>4 DEF Waiting
  <2> QED
    BY <1>3, <1>n, <2>1, CountRegister
<1>9. UsedOK' /\ OwnErrorsOnly'
  <2>1. \A d \in Client : /\ calls'[d].err = calls[d].err
                          /\ calls'[d].over = calls[d].over
                          /\ calls'[d].fault = calls[d].fault
    BY <1>4
  <2> QED
    BY <2>1 DEF UsedOK, OwnErrorsOnly, IInv
<1> QED
  BY <1>5, <1>6, <1>7, <1>8, <1>9 DEF IInv

Leading == {"upstream", "close", "delete"}

\* A step of one call that makes no request and leaves the map alone: it may
\* change the requests, of which only its own leader sets done and err.
LEMMA StepInv ==
    ASSUME IInv, NEW c \in Client, NEW y \in Call, calls' = [calls EXCEPT ![c] = y],
           reqs' \in Seq(Req), Len(reqs') = Len(reqs),
           \A k \in DOMAIN reqs :
              /\ reqs'[k].q = reqs[k].q /\ reqs'[k].by = reqs[k].by
              /\ reqs'[k].err => reqs'[k].q \in failed'
              /\ \/ /\ reqs'[k].done <=> reqs[k].done
                    /\ reqs'[k].err <=> reqs[k].err
                 \/ calls[c].pc \in Leading /\ k = calls[c].req,
           failed \subseteq failed', failed' \subseteq Single, requests' = requests,
           y.req \in 0 .. Len(reqs), CallOK(c)', CallMore(c)',
           y.pc \in Leading /\ y.q \in Single
              <=> calls[c].pc \in Leading /\ calls[c].q \in Single,
           y.pc \in Leading /\ y.q \in Single => y.req = calls[c].req /\ y.q = calls[c].q,
           y.err => y.over \/ y.fault,
           UsedOK', CountOK', now' \in 0 .. MaxTime,
           cache' \in [TypeA -> [resp : RespType, expires : Nat]],
           expiry' \in [TypeA -> [Value -> Nat]]
    PROVE  IInv'
<1>1. /\ calls' \in [Client -> Call] /\ calls'[c] = y
      /\ \A d \in Client \ {c} : calls'[d] = calls[d]
  BY TypesUsed
<1>2. DOMAIN reqs' = DOMAIN reqs
  BY TypesUsed
<1>3. ASSUME NEW d \in Client
      PROVE  CallOK(d)' /\ CallMore(d)' /\ calls'[d].req \in 0 .. Len(reqs')
  <2>1. CASE d = c
    BY <1>1, <2>1
  <2>2. CASE d # c
    <3>1. calls[d].req = NoReq \/ calls[d].req \in DOMAIN reqs
      BY TypesUsed
    <3>2. CallOK(d) /\ CallMore(d) /\ CallOK(c) /\ CallMore(c) /\ calls'[d] = calls[d]
      BY <1>1, <2>2, TypesUsed
    <3>3. calls[d].pc \in Leading /\ calls[d].req # NoReq
             /\ calls[c].pc \in Leading => calls[c].req # calls[d].req
      BY <2>2, <3>2 DEF CallOK, Leading
    <3>4. CallOK(d)'
      BY <3>1, <3>2, <3>3 DEF CallOK, Leading, NoReq
    <3>5. CallMore(d)'
      BY <3>1, <3>2, <3>3 DEF CallMore, CallOK, Leading, NoReq
    <3> QED
      BY <3>2, <3>4, <3>5, TypesUsed
  <2> QED
    BY <2>1, <2>2
<1>4. TypeOK'
  <2>1. calls' \in [Client -> [pc : PCs, q : Question \cup {NoValue},
                              req : 0 .. Len(reqs'), resp : RespType,
                              over : BOOLEAN, fault : BOOLEAN, err : BOOLEAN]]
    BY <1>1, <1>3 DEF Call
  <2>2. requests' \in [Single -> 0 .. Len(reqs')]
    BY TypesUsed
  <2> QED
    BY <1>3, <2>1, <2>2 DEF TypeOK, PCs, Req
<1>5. RequestsOK'
  <2>1. \A k \in DOMAIN reqs' : reqs'[k].err => reqs'[k].q \in failed'
    BY <1>2
  <2>2. ASSUME NEW q \in Single
        PROVE  Registered(q)' /\ Unregistered(q)' /\ LeaderInMap(q)'
    <3>1. Mine(q)' = Mine(q)
      BY <1>2 DEF Mine
    <3>2. Leaders(q)' = Leaders(q)
      BY <1>1 DEF Leaders, Leading
    <3>3. \A d \in Leaders(q) : calls'[d].req = calls[d].req
      BY <1>1, <3>2 DEF Leaders, Leading
    <3>4. requests'[q] = requests[q]
      OBVIOUS
    <3>5. Registered(q)'
      BY <3>1, <3>2, <3>3, <3>4, TypesUsed DEF Registered
    <3>6. Unregistered(q)'
      BY <3>1, <3>2, <3>3, <3>4, TypesUsed DEF Unregistered
    <3>7. LeaderInMap(q)'
      BY <3>1, <3>2, <3>3, <3>4, TypesUsed DEF LeaderInMap
    <3> QED
      BY <3>5, <3>6, <3>7
  <2> QED
    BY <2>1, <2>2 DEF RequestsOK
<1>6. OwnErrorsOnly'
  BY <1>1 DEF OwnErrorsOnly, IInv
<1> QED
  BY <1>3, <1>4, <1>5, <1>6 DEF IInv

LEMMA ReqsSet ==
    ASSUME NEW s \in Seq(Req), NEW k \in DOMAIN s, NEW r \in Req
    PROVE  /\ [s EXCEPT ![k] = r] \in Seq(Req)
           /\ Len([s EXCEPT ![k] = r]) = Len(s)
           /\ [s EXCEPT ![k] = r][k] = r
           /\ \A j \in DOMAIN s \ {k} : [s EXCEPT ![k] = r][j] = s[j]
  OBVIOUS

LEMMA GotoIs ==
    ASSUME IInv, NEW c \in Client, NEW pc \in PCs, Goto(c, pc)
    PROVE  \E y \in Call :
              /\ calls' = [calls EXCEPT ![c] = y] /\ y.pc = pc
              /\ y.q = calls[c].q /\ y.req = calls[c].req /\ y.resp = calls[c].resp
              /\ y.over = calls[c].over /\ y.fault = calls[c].fault
              /\ y.err = calls[c].err
<1> DEFINE y == [calls[c] EXCEPT !.pc = pc]
<1>1. calls \in [Client -> Call] /\ calls[c] \in Call
  BY TypesUsed
<1>2. y \in Call
  BY <1>1 DEF Call
<1>3. calls' = [calls EXCEPT ![c] = y]
  BY DEF Goto
<1> QED
  BY <1>1, <1>2, <1>3 DEF Call

LEMMA ReturnIs ==
    ASSUME IInv, NEW c \in Client, NEW err \in BOOLEAN, Return(c, err)
    PROVE  \E y \in Call :
              /\ calls' = [calls EXCEPT ![c] = y] /\ y.pc = "idle" /\ y.q = NoValue
              /\ y.req = NoReq /\ y.resp = NoResp /\ y.over = calls[c].over
              /\ y.fault = calls[c].fault /\ y.err = err
<1> DEFINE y == [Idle EXCEPT !.err = err, !.over = calls[c].over,
                             !.fault = calls[c].fault]
<1>1. calls[c] \in Call /\ calls' = [calls EXCEPT ![c] = y]
  BY TypesUsed DEF Return
<1>2. Idle \in Call
  BY NoRespType DEF Call, PCs, NoReq, Idle
<1>3. /\ y \in Call /\ y.pc = Idle.pc /\ y.q = Idle.q /\ y.req = Idle.req
      /\ y.resp = Idle.resp /\ y.over = calls[c].over
      /\ y.fault = calls[c].fault /\ y.err = err
  BY <1>1, <1>2 DEF Call
<1>4. Idle.pc = "idle" /\ Idle.q = NoValue /\ Idle.req = NoReq /\ Idle.resp = NoResp
  BY DEF Idle
<1> QED
  BY <1>1, <1>3, <1>4

\* The types of what most steps leave alone.
LEMMA TypesLeft ==
    ASSUME IInv
    PROVE  /\ now \in 0 .. MaxTime /\ failed \subseteq Single /\ UsedOK
           /\ cache \in [TypeA -> [resp : RespType, expires : Nat]]
           /\ expiry \in [TypeA -> [Value -> Nat]]
  BY DEF IInv, TypeOK

\* Requests that stay as they are.
LEMMA ReqsLeft ==
    ASSUME IInv, NEW c \in Client, UNCHANGED <<reqs, failed>>
    PROVE  /\ reqs' \in Seq(Req) /\ Len(reqs') = Len(reqs)
           /\ \A k \in DOMAIN reqs :
              /\ reqs'[k].q = reqs[k].q /\ reqs'[k].by = reqs[k].by
              /\ reqs'[k].err => reqs'[k].q \in failed'
              /\ \/ /\ reqs'[k].done <=> reqs[k].done
                    /\ reqs'[k].err <=> reqs[k].err
                 \/ calls[c].pc \in Leading /\ k = calls[c].req
  BY TypesUsed DEF IInv, RequestsOK

\* A call that changes nothing else.
LEMMA CallStep ==
    ASSUME IInv, NEW c \in Client, NEW y \in Call, calls' = [calls EXCEPT ![c] = y],
           UNCHANGED <<reqs, requests, failed>>,
           y.req \in 0 .. Len(reqs), CallOK(c)', CallMore(c)',
           y.pc \in Leading /\ y.q \in Single
              <=> calls[c].pc \in Leading /\ calls[c].q \in Single,
           y.pc \in Leading /\ y.q \in Single => y.req = calls[c].req /\ y.q = calls[c].q,
           y.err => y.over \/ y.fault,
           y.pc \in {"join", "wait"} => calls[c].pc \in {"join", "wait"},
           now' \in 0 .. MaxTime, UsedOK', used'.calls = used.calls,
           cache' \in [TypeA -> [resp : RespType, expires : Nat]],
           expiry' \in [TypeA -> [Value -> Nat]]
    PROVE  IInv'
<1>1. Waiting' \subseteq Waiting
  BY TypesUsed DEF Waiting
<1>2. CountOK'
  BY <1>1, CountKept
<1> QED
  BY <1>2, ReqsLeft, TypesLeft, StepInv

LEMMA JoinInv == ASSUME IInv, NEW c \in Client, Join(c) PROVE IInv'
<1>1. CASE Inflight(calls[c].q)
  <2>1. PICK q \in Single : q = calls[c].q
    BY TypesUsed DEF Join, CallMore
  <2>2. PICK k \in DOMAIN reqs : k = requests[q]
    BY <1>1, <2>1, TypesUsed DEF Inflight
  <2> DEFINE y == [calls[c] EXCEPT !.pc = "wait", !.req = k]
  <2>3. calls' = [calls EXCEPT ![c] = y]
    BY <1>1, <2>1, <2>2 DEF Join
  <2>4. /\ y \in Call /\ y.pc = "wait" /\ y.req = k /\ y.q = q /\ y.err = calls[c].err
        /\ y.over = calls[c].over /\ y.fault = calls[c].fault
    BY <2>1, TypesUsed DEF Call, PCs
  <2> HIDE DEF y
  <2>5. reqs[k].q = q /\ k # NoReq /\ k \in 0 .. Len(reqs)
    BY <2>1, <2>2, TypesUsed DEF Registered, Mine, NoReq
  <2>6. calls'[c] = y /\ reqs' = reqs
    BY <1>1, <2>3, TypesUsed DEF Join
  <2>7. CallOK(c)' /\ CallMore(c)'
    BY <2>1, <2>4, <2>5, <2>6, QuestionAssumption DEF CallOK, CallMore
  <2>8. calls[c].pc = "join" /\ UNCHANGED <<requests, failed, now, used, cache, expiry>>
    BY <1>1 DEF Join, CallVars
  <2>9. y.err => y.over \/ y.fault
    BY <2>4 DEF IInv, OwnErrorsOnly
  <2>10. y.pc \notin Leading /\ calls[c].pc \notin Leading
    BY <2>4, <2>8 DEF Leading
  <2>11. UsedOK'
    BY <2>8, TypesLeft DEF UsedOK
  <2> QED
    BY <2>3, <2>4, <2>5, <2>6, <2>7, <2>8, <2>9, <2>10, <2>11, TypesLeft, CallStep
<1>2. CASE ~ Inflight(calls[c].q)
  <2>1. Register(c) /\ calls[c].pc = "join" /\ requests[calls[c].q] = NoReq
        /\ UNCHANGED <<now, cache, expiry, used, failed>>
    BY <1>2 DEF Join, CallVars, Inflight
  <2> QED
    BY <2>1, RegisterInv
<1> QED
  BY <1>1, <1>2

\* Requests of which only answers change.
OnlyAnswers ==
    /\ reqs' \in Seq(Req) /\ Len(reqs') = Len(reqs)
    /\ \A k \in DOMAIN reqs :
          /\ reqs'[k].q = reqs[k].q /\ reqs'[k].by = reqs[k].by
          /\ reqs'[k].done <=> reqs[k].done
          /\ reqs'[k].err <=> reqs[k].err

\* A call that returns, and is not the leader of a request.
LEMMA ReturnInv ==
    ASSUME IInv, NEW c \in Client, NEW err \in BOOLEAN, Return(c, err), OnlyAnswers,
           ~ (calls[c].pc \in Leading /\ calls[c].q \in Single),
           err => calls[c].over \/ calls[c].fault,
           UNCHANGED <<now, requests, used, failed>>,
           cache' \in [TypeA -> [resp : RespType, expires : Nat]],
           expiry' \in [TypeA -> [Value -> Nat]]
    PROVE  IInv'
<1>1. PICK y \in Call :
              /\ calls' = [calls EXCEPT ![c] = y] /\ y.pc = "idle" /\ y.q = NoValue
              /\ y.req = NoReq /\ y.resp = NoResp /\ y.over = calls[c].over
              /\ y.fault = calls[c].fault /\ y.err = err
  BY ReturnIs
<1>2. calls'[c] = y
  BY <1>1, TypesUsed
<1>3. CallOK(c)' /\ CallMore(c)'
  BY <1>1, <1>2 DEF CallOK, CallMore
<1>4. Waiting' \subseteq Waiting
  BY <1>1, <1>2, TypesUsed DEF Waiting
<1>5. UsedOK' /\ now' \in 0 .. MaxTime /\ failed' \subseteq Single /\ failed \subseteq failed'
  BY TypesLeft DEF UsedOK
<1>6. CountOK'
  BY <1>4, CountKept DEF OnlyAnswers
<1>7. y.pc \notin Leading /\ y.req \in 0 .. Len(reqs)
  BY <1>1, TypesUsed DEF Leading, NoReq
<1>8. \A k \in DOMAIN reqs : reqs'[k].err => reqs'[k].q \in failed'
  BY DEF OnlyAnswers, IInv, RequestsOK
<1>9. y.err => y.over \/ y.fault
  BY <1>1
<1> QED
  BY <1>1, <1>3, <1>5, <1>6, <1>7, <1>8, <1>9, StepInv DEF OnlyAnswers

\* A call that goes on, and is not the leader of a request.
LEMMA GotoInv ==
    ASSUME IInv, NEW c \in Client, NEW pc \in PCs, Goto(c, pc), OnlyAnswers,
           calls[c].pc \in Leading <=> pc \in Leading, CallOK(c)', CallMore(c)',
           pc \notin {"join", "wait"},
           UNCHANGED <<now, requests, used, failed>>,
           cache' \in [TypeA -> [resp : RespType, expires : Nat]],
           expiry' \in [TypeA -> [Value -> Nat]]
    PROVE  IInv'
<1>1. PICK y \in Call :
              /\ calls' = [calls EXCEPT ![c] = y] /\ y.pc = pc
              /\ y.q = calls[c].q /\ y.req = calls[c].req /\ y.resp = calls[c].resp
              /\ y.over = calls[c].over /\ y.fault = calls[c].fault
              /\ y.err = calls[c].err
  BY GotoIs
<1>2. calls'[c] = y
  BY <1>1, TypesUsed
<1>3. Waiting' \subseteq Waiting
  BY <1>1, <1>2, TypesUsed DEF Waiting
<1>4. UsedOK' /\ now' \in 0 .. MaxTime /\ failed' \subseteq Single /\ failed \subseteq failed'
  BY TypesLeft DEF UsedOK
<1>5. CountOK'
  BY <1>3, CountKept DEF OnlyAnswers
<1>6. \A k \in DOMAIN reqs : reqs'[k].err => reqs'[k].q \in failed'
  BY DEF OnlyAnswers, IInv, RequestsOK
<1>7. y.err => y.over \/ y.fault
  BY <1>1 DEF IInv, OwnErrorsOnly
<1>8. y.req \in 0 .. Len(reqs)
  BY <1>1, TypesUsed
<1> QED
  BY <1>1, <1>4, <1>5, <1>6, <1>7, <1>8, StepInv DEF OnlyAnswers

LEMMA SameReqs == ASSUME IInv, UNCHANGED reqs PROVE OnlyAnswers
  BY TypesUsed DEF OnlyAnswers

LEMMA WaitInv == ASSUME IInv, NEW c \in Client, Wait(c) PROVE IInv'
<1>1. /\ calls[c].pc = "wait" /\ calls[c].pc \notin Leading
      /\ UNCHANGED <<now, used, failed, cache, expiry>>
  BY DEF Wait, CallVars, Leading
<1>2. CASE calls[c].over /\ Return(c, TRUE) /\ UNCHANGED <<reqs, requests>>
  BY <1>1, <1>2, SameReqs, TypesLeft, ReturnInv
<1>3. CASE reqs[calls[c].req].err /\ Retry(c)
  <2>1. calls[c].q \in failed
    BY <1>1, <1>3, TypesUsed DEF IInv, RequestsOK, CallOK
  <2> QED
    BY <1>1, <1>3, <2>1, RegisterInv DEF Retry
<1>4. CASE Goto(c, "put") /\ UNCHANGED <<reqs, requests>>
  <2>1. PICK y \in Call : /\ calls' = [calls EXCEPT ![c] = y] /\ y.pc = "put"
                          /\ y.q = calls[c].q /\ y.req = calls[c].req
    BY <1>4, GotoIs DEF PCs
  <2>2. calls'[c] = y
    BY <2>1, TypesUsed
  <2>3. CallOK(c)' /\ CallMore(c)'
    BY <1>1, <1>4, <2>1, <2>2, TypesUsed DEF CallOK, CallMore
  <2> QED
    BY <1>1, <1>4, <2>3, SameReqs, TypesLeft, GotoInv DEF PCs, Leading
<1> QED
  BY <1>2, <1>3, <1>4 DEF Wait

LEMMA CloseInv == ASSUME IInv, NEW c \in Client, Close(c) PROVE IInv'
<1>0. /\ calls[c].pc = "close" /\ reqs' = [reqs EXCEPT ![calls[c].req] = Done(@)]
      /\ Goto(c, "delete") /\ UNCHANGED <<CallVars, requests, cache, expiry>>
  BY DEF Close
<1>1. PICK y \in Call :
              /\ calls' = [calls EXCEPT ![c] = y] /\ y.pc = "delete"
              /\ y.q = calls[c].q /\ y.req = calls[c].req /\ y.resp = calls[c].resp
              /\ y.over = calls[c].over /\ y.fault = calls[c].fault
              /\ y.err = calls[c].err
  BY <1>0, GotoIs DEF PCs
<1>2. PICK k \in DOMAIN reqs : k = calls[c].req
  BY <1>0, TypesUsed DEF CallOK
<1>3. calls'[c] = y /\ CallOK(c) /\ CallMore(c)
  BY <1>1, TypesUsed
<1> DEFINE r == Done(reqs[k])
<1>4. /\ r \in Req /\ r.q = reqs[k].q /\ r.by = reqs[k].by /\ r.err = reqs[k].err
      /\ r.done = TRUE
  BY <1>2, TypesUsed DEF Done, Req
<1> HIDE DEF r
<1>5. reqs' = [reqs EXCEPT ![k] = r]
  BY <1>0, <1>2 DEF r
<1>6. /\ reqs' \in Seq(Req) /\ Len(reqs') = Len(reqs) /\ reqs'[k] = r
      /\ \A j \in DOMAIN reqs \ {k} : reqs'[j] = reqs[j]
  <2>1. reqs \in Seq(Req)
    BY TypesUsed
  <2> QED
    BY <1>4, <1>5, <2>1
<1>7. CallOK(c)'
  BY <1>0, <1>1, <1>2, <1>3, <1>4, <1>6 DEF CallOK
<1>8. CallMore(c)'
  BY <1>0, <1>1, <1>2, <1>3, <1>4, <1>6 DEF CallMore
<1>9. \A j \in DOMAIN reqs :
         /\ reqs'[j].q = reqs[j].q /\ reqs'[j].by = reqs[j].by
         /\ reqs'[j].err => reqs'[j].q \in failed'
         /\ \/ /\ reqs'[j].done <=> reqs[j].done
               /\ reqs'[j].err <=> reqs[j].err
            \/ calls[c].pc \in Leading /\ j = calls[c].req
  BY <1>0, <1>2, <1>4, <1>6 DEF CallVars, Leading, IInv, RequestsOK
<1>10. Waiting' \subseteq Waiting
  BY <1>0, <1>1, <1>3, TypesUsed DEF Waiting
<1>11. CountOK'
  BY <1>0, <1>6, <1>10, CountKept DEF CallVars
<1>12. /\ UsedOK' /\ now' \in 0 .. MaxTime /\ failed' \subseteq Single
       /\ failed \subseteq failed' /\ requests' = requests
       /\ cache' \in [TypeA -> [resp : RespType, expires : Nat]]
       /\ expiry' \in [TypeA -> [Value -> Nat]]
  BY <1>0, TypesLeft DEF UsedOK, CallVars
<1>13. y.err => y.over \/ y.fault
  BY <1>1 DEF IInv, OwnErrorsOnly
<1>14. /\ y.pc \in Leading /\ calls[c].pc \in Leading
       /\ y.req \in 0 .. Len(reqs)
  BY <1>0, <1>1, TypesUsed DEF Leading
<1> QED
  BY <1>1, <1>6, <1>7, <1>8, <1>9, <1>11, <1>12, <1>13, <1>14, StepInv

\* A record with another TTL is otherwise the same.
LEMMA TTLSet ==
    ASSUME NEW rr \in RR, NEW n \in Nat
    PROVE  /\ [rr EXCEPT !.ttl = n] \in RR /\ [rr EXCEPT !.ttl = n].ttl = n
           /\ [rr EXCEPT !.ttl = n].type = rr.type
           /\ [rr EXCEPT !.ttl = n].name = rr.name
           /\ [rr EXCEPT !.ttl = n].data = rr.data
  BY DEF RR

LEMMA RecordOf ==
    ASSUME NEW resp \in RespType, NEW i \in DOMAIN resp.rrs
    PROVE  resp.rrs[i] \in RR /\ resp.rrs[i].ttl \in Nat
<1>1. resp.rrs[i] \in RR
  BY DEF RespType
<1> QED
  BY <1>1 DEF RR

\* Answers that differ in their TTLs only.
SameRecords(s, t) ==
    /\ DOMAIN s = DOMAIN t
    /\ \A i \in DOMAIN t : /\ s[i].type = t[i].type /\ s[i].name = t[i].name
                           /\ s[i].data = t[i].data

\* Overriding TTLs makes none longer, and none zero.
LEMMA OverriddenIs ==
    ASSUME NEW resp \in RespType
    PROVE  LET o == Overridden(resp) IN
           /\ o \in RespType /\ o.at = resp.at /\ SameRecords(o.rrs, resp.rrs)
           /\ \A i \in DOMAIN resp.rrs :
                 /\ o.rrs[i].ttl \in Nat /\ o.rrs[i].ttl <= resp.rrs[i].ttl
                 /\ o.rrs[i].ttl > 0 <=> resp.rrs[i].ttl > 0
<1> DEFINE t == resp.rrs
           s == [i \in DOMAIN t |-> Lowered(t[i])]
<1>1. resp \in [rrs : Seq(RR), at : NoTime .. MaxTime]
  BY DEF RespType
<1>2. Overridden(resp) = [resp EXCEPT !.rrs = s]
  BY DEF Overridden
<1>3. ASSUME NEW rr \in RR
      PROVE  /\ Lowered(rr) \in RR /\ Lowered(rr).ttl \in Nat
             /\ Lowered(rr).ttl <= rr.ttl
             /\ Lowered(rr).ttl > 0 <=> rr.ttl > 0
             /\ Lowered(rr).type = rr.type /\ Lowered(rr).name = rr.name
             /\ Lowered(rr).data = rr.data
  <2>1. rr.ttl \in Nat
    BY DEF RR
  <2>2. CASE rr.type = "A" /\ TTLOverride > 0
    <3> DEFINE m == Min({rr.ttl, TTLOverride})
    <3>1. TTLOverride \in Nat
      BY BoundsAssumption
    <3>2. m \in {rr.ttl, TTLOverride} /\ m <= rr.ttl
      BY <2>1, <3>1, MinPair
    <3>3. m \in Nat /\ (m > 0 <=> rr.ttl > 0)
      BY <2>1, <2>2, <3>1, <3>2
    <3>4. Lowered(rr) = [rr EXCEPT !.ttl = m]
      BY <2>2 DEF Lowered
    <3> HIDE DEF m
    <3> QED
      BY <2>1, <3>2, <3>3, <3>4, TTLSet
  <2>3. CASE ~ (rr.type = "A" /\ TTLOverride > 0)
    BY <2>1, <2>3 DEF Lowered
  <2> QED
    BY <2>2, <2>3
<1>4. s \in Seq(RR) /\ DOMAIN s = DOMAIN t
  BY <1>1, <1>3
<1>5. Overridden(resp).rrs = s /\ Overridden(resp).at = resp.at
      /\ Overridden(resp) \in RespType
  BY <1>1, <1>2, <1>4 DEF RespType
<1>6. \A i \in DOMAIN t : t[i] \in RR
  BY <1>1
<1> QED
  BY <1>3, <1>4, <1>5, <1>6 DEF SameRecords

\* The copy that the cache hands out.
LEMMA ResultType ==
    ASSUME NEW e \in [resp : RespType, expires : Nat], now \in Nat
    PROVE  Result(e) \in RespType
<1> DEFINE t == e.resp.rrs
           m == Max({1, e.expires - now})
           s == [i \in DOMAIN t |-> [t[i] EXCEPT !.ttl = m]]
<1>1. e.resp \in [rrs : Seq(RR), at : NoTime .. MaxTime] /\ e.resp \in RespType
  BY DEF RespType
<1>2. m \in Nat
  <2>1. CASE e.expires - now \in Nat
    BY <2>1, MaxPair
  <2>2. CASE e.expires - now < 1
    <3>1. 1 \in {1, e.expires - now} /\ \A x \in {1, e.expires - now} : 1 >= x
      BY <2>2
    <3>2. m \in {1, e.expires - now} /\ \A x \in {1, e.expires - now} : m >= x
      BY <3>1 DEF Max
    <3>3. m = 1
      BY <2>2, <3>2
    <3> QED
      BY <3>3
  <2> QED
    BY <2>1, <2>2
<1> HIDE DEF m
<1>3. \A i \in DOMAIN t : [t[i] EXCEPT !.ttl = m] \in RR
  BY <1>1, <1>2, RecordOf, TTLSet
<1>4. s \in Seq(RR)
  BY <1>1, <1>3
<1>5. Result(e) = [e.resp EXCEPT !.rrs = s]
  BY DEF Result, m
<1> QED
  BY <1>1, <1>4, <1>5 DEF RespType

LEMMA TTLsNat ==
    ASSUME NEW resp \in RespType
    PROVE  TTLs(resp) \subseteq Nat
  BY RecordOf DEF TTLs

LEMMA PutType ==
    ASSUME IInv, NEW q \in TypeA, NEW resp \in RespType, Put(q, resp)
    PROVE  cache' \in [TypeA -> [resp : RespType, expires : Nat]]
<1> DEFINE ttls == TTLs(resp) \ {0}
<1>1. ttls \subseteq Nat
  BY TTLsNat
<1>2. cache' = IF ttls = {} THEN cache
               ELSE [cache EXCEPT ![q] = [resp |-> resp, expires |-> now + Min(ttls)]]
  BY DEF Put
<1> HIDE DEF ttls
<1>3. ttls # {} => Min(ttls) \in Nat
  BY <1>1, MinOf
<1>4. now \in Nat /\ cache \in [TypeA -> [resp : RespType, expires : Nat]]
  BY TypesLeft
<1>5. ttls # {} => now + Min(ttls) \in Nat
  BY <1>3, <1>4
<1> QED
  BY <1>2, <1>4, <1>5

\* The response a call holds.
LEMMA HoldsType ==
    ASSUME IInv, NEW c \in Client
    PROVE  Holds(c) \in RespType
  BY TypesUsed DEF Holds, Call, Req

LEMMA CachePutInv == ASSUME IInv, NEW c \in Client, CachePut(c) PROVE IInv'
<1>1. calls[c].pc = "put" /\ calls[c].pc \notin Leading /\ OnlyAnswers
      /\ UNCHANGED <<now, used, failed, reqs, requests, expiry>>
  BY SameReqs DEF CachePut, CallVars, Leading
<1>2. CASE calls[c].q \in TypeA
  <2>1. Put(calls[c].q, Holds(c)) /\ Goto(c, "override")
    BY <1>2 DEF CachePut
  <2>2. cache' \in [TypeA -> [resp : RespType, expires : Nat]]
    BY <1>2, <2>1, PutType, HoldsType
  <2>3. PICK y \in Call : /\ calls' = [calls EXCEPT ![c] = y] /\ y.pc = "override"
                          /\ y.q = calls[c].q /\ y.req = calls[c].req
    BY <2>1, GotoIs DEF PCs
  <2>4. calls'[c] = y
    BY <2>3, TypesUsed
  <2>5. CallOK(c)' /\ CallMore(c)'
    BY <1>1, <2>3, <2>4, TypesUsed DEF CallOK, CallMore
  <2> QED
    BY <1>1, <2>1, <2>2, <2>5, TypesLeft, GotoInv DEF PCs, Leading
<1>3. CASE calls[c].q \notin TypeA
  <2>1. Return(c, FALSE) /\ UNCHANGED cache
    BY <1>3 DEF CachePut
  <2> QED
    BY <1>1, <2>1, TypesLeft, ReturnInv
<1> QED
  BY <1>2, <1>3

LEMMA OverrideInv == ASSUME IInv, NEW c \in Client, Override(c) PROVE IInv'
<1>1. calls[c].pc = "override" /\ calls[c].pc \notin Leading /\ Return(c, FALSE)
      /\ UNCHANGED <<now, used, failed, requests, cache, expiry>>
  BY DEF Override, CallVars, Leading
<1>2. OnlyAnswers
  <2>1. CASE calls[c].req = NoReq
    BY <2>1, SameReqs DEF Override
  <2>2. CASE calls[c].req # NoReq
    <3>1. PICK k \in DOMAIN reqs : k = calls[c].req
      BY <2>2, TypesUsed
    <3> DEFINE r == [reqs[k] EXCEPT !.resp = Overridden(reqs[k].resp)]
    <3>2. reqs[k].resp \in RespType /\ reqs[k] \in Req
      BY TypesUsed DEF Req
    <3>3. Overridden(reqs[k].resp) \in RespType
      BY <3>2, OverriddenIs
    <3>4. /\ r \in Req /\ r.q = reqs[k].q /\ r.by = reqs[k].by
          /\ r.err = reqs[k].err /\ r.done = reqs[k].done
      BY <3>2, <3>3 DEF Req
    <3>5. reqs' = [reqs EXCEPT ![k] = r]
      BY <2>2, <3>1 DEF Override
    <3> HIDE DEF r
    <3>6. reqs \in Seq(Req)
      BY TypesUsed
    <3> QED
      BY <3>4, <3>5, <3>6 DEF OnlyAnswers
  <2> QED
    BY <2>1, <2>2
<1> QED
  BY <1>1, <1>2, TypesLeft, ReturnInv

\* The answers upstream may send, and what the routing service makes of them.
LEMMA ReplyIs ==
    ASSUME NEW rrs \in Reply, NEW q
    PROVE  /\ rrs \in Seq(RR) /\ Addresses(q, rrs) = AddressesOf(q, rrs)
           /\ Addresses(q, rrs) # {} => QueryTTL(q, rrs) \in Nat /\ QueryTTL(q, rrs) >= 1
<1>1. rrs \in Seq(RR)
  BY ReplyAssumption
<1>2. Names(rrs) \subseteq Name
  BY <1>1 DEF Names, RR
<1>3. \A n \in Names(rrs) : Cardinality(Of(rrs, "CNAME", n)) <= 1
  BY <1>2, ReplyAssumption
<1>4. \A i \in DOMAIN rrs : rrs[i].ttl \in Nat
  BY <1>1 DEF RR
<1> QED
  BY <1>1, <1>3, <1>4, AddressesFound, QueryTTLPositive

LEMMA StampIs ==
    ASSUME IInv, NEW p, NEW rrs \in Reply, Stamp(p, rrs)
    PROVE  /\ expiry' \in [TypeA -> [Value -> Nat]]
           /\ \A q \in TypeA, v \in Value :
                 IF q = p /\ v \in AddressesOf(q, rrs) THEN expiry'[q][v] >= now + 1
                 ELSE expiry'[q][v] = expiry[q][v]
<1>1. expiry \in [TypeA -> [Value -> Nat]] /\ now \in Nat
  BY TypesLeft
<1>2. CASE p \notin TypeA
  BY <1>1, <1>2 DEF Stamp
<1>3. CASE p \in TypeA
  <2> DEFINE f == [v \in Value |-> IF v \in Addresses(p, rrs)
                                   THEN now + QueryTTL(p, rrs) ELSE expiry[p][v]]
  <2>1. expiry' = [expiry EXCEPT ![p] = f]
    BY <1>3 DEF Stamp
  <2>2. ASSUME NEW v \in Value
        PROVE  /\ f[v] \in Nat
               /\ IF v \in AddressesOf(p, rrs) THEN f[v] >= now + 1
                  ELSE f[v] = expiry[p][v]
    <3>1. Addresses(p, rrs) = AddressesOf(p, rrs)
      BY ReplyIs
    <3>2. v \in Addresses(p, rrs) =>
             now + QueryTTL(p, rrs) \in Nat /\ now + QueryTTL(p, rrs) >= now + 1
      <4>1. v \in Addresses(p, rrs) => QueryTTL(p, rrs) \in Nat /\ QueryTTL(p, rrs) >= 1
        BY ReplyIs
      <4> QED
        BY <1>1, <4>1
    <3> QED
      BY <1>1, <1>3, <3>1, <3>2
  <2>3. f \in [Value -> Nat]
    BY <2>2
  <2> HIDE DEF f
  <2> QED
    BY <1>1, <1>3, <2>1, <2>2, <2>3
<1> QED
  BY <1>2, <1>3

\* The request a leader has made, and what it is told.
LEMMA LeaderReq ==
    ASSUME IInv, NEW c \in Client, calls[c].pc = "upstream", calls[c].req # NoReq
    PROVE  /\ calls[c].req \in DOMAIN reqs /\ calls[c].q \in Single
           /\ reqs[calls[c].req] \in Req /\ reqs[calls[c].req].q = calls[c].q
           /\ reqs[calls[c].req].by = c /\ ~ reqs[calls[c].req].done
           /\ ~ reqs[calls[c].req].err
  BY TypesUsed DEF CallOK, CallMore, Req

LEMMA AnsweredInv ==
    ASSUME IInv, NEW c \in Client, NEW rrs \in Reply, Answered(c, rrs) PROVE IInv'
<1>1. /\ calls[c].pc = "upstream" /\ Stamp(calls[c].q, rrs)
      /\ UNCHANGED <<now, used, failed, requests, cache>>
  BY DEF Answered, CallVars
<1>2. expiry' \in [TypeA -> [Value -> Nat]]
  BY <1>1, StampIs
<1>3. CASE calls[c].req = NoReq
  <2>1. Return(c, FALSE) /\ OnlyAnswers /\ calls[c].q \notin Single
    BY <1>1, <1>3, SameReqs, TypesUsed DEF Answered, CallMore
  <2> QED
    BY <1>1, <1>2, <2>1, TypesLeft, ReturnInv
<1>4. CASE calls[c].req # NoReq
  <2>1. PICK k \in DOMAIN reqs : k = calls[c].req
    BY <1>4, TypesUsed
  <2> DEFINE r == [reqs[k] EXCEPT !.resp = [rrs |-> rrs, at |-> now]]
  <2>2. [rrs |-> rrs, at |-> now] \in RespType
    <3>1. rrs \in Seq(RR)
      BY ReplyIs
    <3>2. now \in NoTime .. MaxTime
      BY TypesLeft, BoundsAssumption DEF NoTime
    <3> QED
      BY <3>1, <3>2 DEF RespType
  <2>3. /\ r \in Req /\ r.q = reqs[k].q /\ r.by = reqs[k].by
        /\ r.err = reqs[k].err /\ r.done = reqs[k].done
    BY <2>2, TypesUsed DEF Req
  <2>4. reqs' = [reqs EXCEPT ![k] = r] /\ Goto(c, "close")
    BY <1>4, <2>1 DEF Answered
  <2> HIDE DEF r
  <2>5. reqs \in Seq(Req)
    BY TypesUsed
  <2>6. OnlyAnswers /\ reqs'[k] = r
    BY <2>3, <2>4, <2>5 DEF OnlyAnswers
  <2>7. PICK y \in Call : /\ calls' = [calls EXCEPT ![c] = y] /\ y.pc = "close"
                          /\ y.q = calls[c].q /\ y.req = calls[c].req
    BY <2>4, GotoIs DEF PCs
  <2>8. calls'[c] = y
    BY <2>7, TypesUsed
  <2>9. CallOK(c)' /\ CallMore(c)'
    <3>1. /\ reqs'[k].q = calls[c].q /\ reqs'[k].by = c /\ ~ reqs'[k].done
          /\ ~ reqs'[k].err
      BY <1>1, <1>4, <2>1, <2>3, <2>6, LeaderReq
    <3>2. calls[c].q \in Question
      BY <1>1, TypesUsed DEF CallMore
    <3> QED
      BY <1>4, <2>1, <2>7, <2>8, <3>1, <3>2 DEF CallOK, CallMore
  <2> QED
    BY <1>1, <1>2, <2>4, <2>6, <2>9, TypesLeft, GotoInv DEF PCs, Leading
<1> QED
  BY <1>3, <1>4

LEMMA FailedInv == ASSUME IInv, NEW c \in Client, Failed(c) PROVE IInv'
<1>1. calls[c].pc = "upstream" /\ calls \in [Client -> Call] /\ calls[c] \in Call
      /\ UNCHANGED <<now, requests, cache, expiry>>
  BY TypesUsed DEF Failed
<1>2. UsedOK' /\ used'.calls = used.calls
  <2>1. used \in [calls : Nat, faults : Nat, cancels : Nat]
    BY TypesLeft DEF UsedOK
  <2> QED
    BY <2>1 DEF Failed, UsedOK
<1>3. CASE calls[c].req = NoReq
  <2> DEFINE y == [Idle EXCEPT !.err = TRUE, !.over = calls[c].over, !.fault = TRUE]
  <2>1. calls' = [calls EXCEPT ![c] = y] /\ UNCHANGED <<reqs, failed>>
    BY <1>3 DEF Failed
  <2>2. Idle \in Call
    BY NoRespType DEF Call, PCs, NoReq, Idle
  <2>3. y \in Call /\ y.pc = Idle.pc /\ y.req = Idle.req /\ y.fault = TRUE
    BY <1>1, <2>2 DEF Call
  <2>4. y.pc = "idle" /\ y.req = NoReq
    BY <2>3 DEF Idle
  <2> HIDE DEF y
  <2>5. calls'[c] = y /\ calls[c].q \notin Single
    BY <1>1, <1>3, <2>1, TypesUsed DEF CallMore
  <2>6. CallOK(c)' /\ CallMore(c)'
    BY <2>4, <2>5 DEF CallOK, CallMore
  <2>7. y.req \in 0 .. Len(reqs) /\ y.pc \notin Leading
    BY <2>4, TypesUsed DEF NoReq, Leading
  <2>8. /\ now' \in 0 .. MaxTime
        /\ cache' \in [TypeA -> [resp : RespType, expires : Nat]]
        /\ expiry' \in [TypeA -> [Value -> Nat]]
    BY <1>1, TypesLeft
  <2> QED
    BY <1>1, <1>2, <2>1, <2>3, <2>4, <2>5, <2>6, <2>7, <2>8, CallStep
<1>4. CASE calls[c].req # NoReq
  <2>1. PICK k \in DOMAIN reqs : k = calls[c].req
    BY <1>4, TypesUsed
  <2> DEFINE r == [reqs[k] EXCEPT !.err = TRUE]
             y == [calls[c] EXCEPT !.pc = "close", !.fault = TRUE]
  <2>2. /\ r \in Req /\ r.q = reqs[k].q /\ r.by = reqs[k].by
        /\ r.err = TRUE /\ r.done = reqs[k].done
    BY TypesUsed DEF Req
  <2>3. /\ y \in Call /\ y.pc = "close" /\ y.fault = TRUE /\ y.q = calls[c].q
        /\ y.req = k
    BY <1>1, <2>1 DEF Call, PCs
  <2>4. /\ reqs' = [reqs EXCEPT ![k] = r] /\ calls' = [calls EXCEPT ![c] = y]
        /\ failed' = failed \cup {calls[c].q}
    BY <1>4, <2>1 DEF Failed
  <2> HIDE DEF r, y
  <2>5. reqs \in Seq(Req)
    BY TypesUsed
  <2>6. /\ reqs' \in Seq(Req) /\ Len(reqs') = Len(reqs) /\ reqs'[k] = r
        /\ \A j \in DOMAIN reqs \ {k} : reqs'[j] = reqs[j]
    BY <2>2, <2>4, <2>5
  <2>7. calls'[c] = y
    BY <1>1, <2>4
  <2>8. reqs[k].q = calls[c].q /\ reqs[k].by = c /\ ~ reqs[k].done
        /\ calls[c].q \in Single
    BY <1>1, <1>4, <2>1, LeaderReq
  <2>9. CallOK(c)' /\ CallMore(c)'
    <3>1. calls[c].q \in Question /\ k # NoReq
      BY <1>1, <1>4, <2>1, TypesUsed DEF CallMore
    <3> QED
      BY <2>2, <2>3, <2>6, <2>7, <2>8, <3>1 DEF CallOK, CallMore
  <2>10. \A j \in DOMAIN reqs :
           /\ reqs'[j].q = reqs[j].q /\ reqs'[j].by = reqs[j].by
           /\ reqs'[j].err => reqs'[j].q \in failed'
           /\ \/ /\ reqs'[j].done <=> reqs[j].done
                 /\ reqs'[j].err <=> reqs[j].err
              \/ calls[c].pc \in Leading /\ j = calls[c].req
    BY <1>1, <2>1, <2>2, <2>4, <2>6, <2>8 DEF Leading, IInv, RequestsOK
  <2>11. Waiting' \subseteq Waiting
    BY <1>1, <2>3, <2>4 DEF Waiting
  <2>12. CountOK'
    BY <1>2, <2>6, <2>11, CountKept
  <2>13. failed \subseteq failed' /\ failed' \subseteq Single
         /\ now' \in 0 .. MaxTime
         /\ cache' \in [TypeA -> [resp : RespType, expires : Nat]]
         /\ expiry' \in [TypeA -> [Value -> Nat]]
    BY <1>1, <2>4, <2>8, TypesLeft
  <2>14. y.pc \in Leading /\ calls[c].pc \in Leading /\ y.req \in 0 .. Len(reqs)
         /\ y.req = calls[c].req /\ requests' = requests
    BY <1>1, <2>1, <2>3, TypesUsed DEF Leading
  <2>15. y.err => y.over \/ y.fault
    BY <2>3
  <2> QED
    BY <1>2, <2>3, <2>4, <2>6, <2>9, <2>10, <2>12, <2>13, <2>14, <2>15, StepInv
<1> QED
  BY <1>3, <1>4

LEMMA CancelInv == ASSUME IInv, NEW c \in Client, Cancel(c) PROVE IInv'
<1> DEFINE y == [calls[c] EXCEPT !.over = TRUE]
<1>1. calls \in [Client -> Call] /\ calls[c] \in Call
  BY TypesUsed
<1>2. /\ y \in Call /\ y.pc = calls[c].pc /\ y.over = TRUE /\ y.q = calls[c].q
      /\ y.req = calls[c].req /\ y.fault = calls[c].fault
  BY <1>1 DEF Call
<1>3. calls' = [calls EXCEPT ![c] = y]
      /\ UNCHANGED <<now, reqs, requests, cache, expiry, failed>>
  BY DEF Cancel
<1> HIDE DEF y
<1>4. calls'[c] = y
  BY <1>1, <1>3
<1>5. CallOK(c)' /\ CallMore(c)'
  BY <1>2, <1>3, <1>4, TypesUsed DEF CallOK, CallMore
<1>6. UsedOK' /\ used'.calls = used.calls
  <2>1. used \in [calls : Nat, faults : Nat, cancels : Nat]
    BY TypesLeft DEF UsedOK
  <2> QED
    BY <2>1 DEF Cancel, UsedOK
<1>7. /\ now' \in 0 .. MaxTime /\ y.req \in 0 .. Len(reqs)
      /\ cache' \in [TypeA -> [resp : RespType, expires : Nat]]
      /\ expiry' \in [TypeA -> [Value -> Nat]]
  BY <1>2, <1>3, TypesLeft, TypesUsed
<1> QED
  BY <1>2, <1>3, <1>5, <1>6, <1>7, CallStep

LEMMA ResolveIs ==
    ASSUME IInv, NEW c \in Client, NEW q \in Question, Resolve(c, q)
    PROVE  \E y \in Call :
              /\ calls' = [calls EXCEPT ![c] = y] /\ y.q = q /\ y.req = NoReq /\ ~ y.err
              /\ y.pc \in {"join", "override", "upstream"}
              /\ y.pc = "join" => q \in Single
              /\ y.pc = "upstream" => q \notin Single
<1> DEFINE hit == q \in TypeA /\ Hit(q)
           y == IF hit
                THEN [Idle EXCEPT !.pc = "override", !.q = q, !.resp = Result(cache[q])]
                ELSE [Idle EXCEPT !.pc = IF q \in Single THEN "join" ELSE "upstream",
                                  !.q = q]
<1>1. calls \in [Client -> Call] /\ calls[c].pc = "idle"
      /\ calls' = [calls EXCEPT ![c] = y]
      /\ UNCHANGED <<now, reqs, requests, cache, expiry, failed>>
  BY TypesUsed DEF Resolve
<1>2. Idle \in Call /\ Idle.req = NoReq /\ ~ Idle.err
  BY NoRespType DEF Call, PCs, NoReq, Idle
<1>3. /\ y \in Call /\ y.q = q /\ y.req = NoReq /\ ~ y.err
      /\ y.pc \in {"join", "override", "upstream"}
      /\ y.pc = "join" => q \in Single
      /\ y.pc = "upstream" => q \notin Single
  <2>1. CASE hit
    <3>1. Result(cache[q]) \in RespType
      BY <2>1, TypesLeft, ResultType
    <3>2. y = [Idle EXCEPT !.pc = "override", !.q = q, !.resp = Result(cache[q])]
      BY <2>1
    <3> HIDE DEF y
    <3> QED
      BY <1>2, <3>1, <3>2 DEF Call, PCs
  <2>2. CASE ~ hit
    <3>1. PICK pc \in PCs : pc = IF q \in Single THEN "join" ELSE "upstream"
      BY DEF PCs
    <3>2. y = [Idle EXCEPT !.pc = pc, !.q = q]
      BY <2>2, <3>1
    <3> HIDE DEF y
    <3> QED
      BY <1>2, <3>1, <3>2 DEF Call
  <2> QED
    BY <2>1, <2>2
<1> QED
  BY <1>1, <1>3

LEMMA ResolveInv ==
    ASSUME IInv, NEW c \in Client, NEW q \in Question, Resolve(c, q) PROVE IInv'
<1>1. calls \in [Client -> Call] /\ calls[c].pc = "idle"
      /\ UNCHANGED <<now, reqs, requests, cache, expiry, failed>>
  BY TypesUsed DEF Resolve
<1>3. PICK y \in Call :
              /\ calls' = [calls EXCEPT ![c] = y] /\ y.q = q /\ y.req = NoReq /\ ~ y.err
              /\ y.pc \in {"join", "override", "upstream"}
              /\ y.pc = "join" => q \in Single
              /\ y.pc = "upstream" => q \notin Single
  BY ResolveIs
<1>4. calls'[c] = y /\ \A d \in Client \ {c} : calls'[d] = calls[d]
  BY <1>1, <1>3
<1>5. CallOK(c)' /\ CallMore(c)'
  BY <1>3, <1>4, QuestionAssumption DEF CallOK, CallMore
<1>6. UsedOK' /\ used'.calls = used.calls + 1 /\ used.calls \in Nat
  <2>1. used \in [calls : Nat, faults : Nat, cancels : Nat]
    BY TypesLeft DEF UsedOK
  <2> QED
    BY <2>1 DEF Resolve, UsedOK
<1>7. CountOK'
  <2>1. IsFiniteSet(Waiting) /\ Len(reqs) + Cardinality(Waiting) <= used.calls
    BY CountIs DEF IInv, CountOK
  <2>2. IsFiniteSet(Waiting \cup {c}) /\ Cardinality(Waiting) \in Nat
        /\ Cardinality(Waiting \cup {c}) \in Nat
        /\ Cardinality(Waiting \cup {c}) <= Cardinality(Waiting) + 1
    <3>1. Cardinality(Waiting) \in Nat
      BY <2>1, FS_CardinalityType
    <3>2. /\ IsFiniteSet(Waiting \cup {c})
          /\ \/ Cardinality(Waiting \cup {c}) = Cardinality(Waiting)
             \/ Cardinality(Waiting \cup {c}) = Cardinality(Waiting) + 1
      BY <2>1, FS_AddElement
    <3> QED
      BY <3>1, <3>2
  <2>3. Waiting' \in SUBSET (Waiting \cup {c})
    BY <1>4 DEF Waiting
  <2>4. IsFiniteSet(Waiting') /\ Cardinality(Waiting') <= Cardinality(Waiting \cup {c})
    BY <2>2, <2>3, FS_Subset
  <2>5. Cardinality(Waiting') \in Nat /\ Len(reqs) \in Nat /\ Len(reqs') = Len(reqs)
    BY <1>1, <2>4, FS_CardinalityType, TypesUsed
  <2>6. (Len(reqs) + Cardinality(Waiting) <= used.calls)'
    BY <1>6, <2>1, <2>2, <2>4, <2>5
  <2>7. (OneRequestEach <=> Len(reqs) + Cardinality(Waiting) <= used.calls)'
    BY DEF OneRequestEach, Waiting
  <2> QED
    BY <2>4, <2>6, <2>7 DEF CountOK
<1>8. /\ now' \in 0 .. MaxTime /\ y.req \in 0 .. Len(reqs) /\ failed \subseteq failed'
      /\ failed' \subseteq Single
      /\ cache' \in [TypeA -> [resp : RespType, expires : Nat]]
      /\ expiry' \in [TypeA -> [Value -> Nat]]
  BY <1>1, <1>3, TypesLeft, TypesUsed DEF NoReq
<1>9. ~ (y.pc \in Leading /\ y.q \in Single) /\ calls[c].pc \notin Leading
  BY <1>1, <1>3 DEF Leading
<1> QED
  BY <1>1, <1>3, <1>5, <1>6, <1>7, <1>8, <1>9, ReqsLeft, StepInv

\* The leader leaves: if its request was in the map, those who lead others of
\* its question lead older ones.
LEMMA DeleteInv == ASSUME IInv, NEW c \in Client, Delete(c) PROVE IInv'
<1>1. calls[c].pc = "delete" /\ calls[c].req # NoReq /\ calls[c].q \in Question
      /\ UNCHANGED <<now, used, failed, reqs, cache, expiry>>
  BY TypesUsed DEF Delete, CallVars, CallOK, CallMore
<1>k. PICK k \in DOMAIN reqs : k = calls[c].req
  BY <1>1, TypesUsed
<1>p. PICK p \in Single : p = reqs[k].q
  BY TypesUsed DEF Req
<1>2. calls[c].q = p /\ calls[c].req = k /\ k # NoReq /\ (reqs[k].err => calls[c].fault)
  BY <1>1, <1>k, <1>p, TypesUsed DEF CallOK, CallMore
<1>3. requests' = IF requests[p] = k THEN [requests EXCEPT ![p] = NoReq] ELSE requests
  BY <1>k, <1>p DEF Delete, DeleteOwn
<1>4. PICK y \in Call : /\ calls' = [calls EXCEPT ![c] = y]
                        /\ y.pc \in {"idle", "put"} /\ y.req \in {NoReq, k}
                        /\ y.pc = "put" => y.req = k /\ y.q = p
                        /\ y.pc = "idle" => y.req = NoReq
                        /\ y.err => y.over \/ y.fault
  <2>1. CASE reqs[k].err
    <3>1. Return(c, TRUE)
      BY <1>k, <2>1 DEF Delete, LeaderFails
    <3>2. calls[c].fault
      BY <1>2, <2>1
    <3>3. PICK y \in Call :
              /\ calls' = [calls EXCEPT ![c] = y] /\ y.pc = "idle" /\ y.q = NoValue
              /\ y.req = NoReq /\ y.fault = calls[c].fault
      BY <3>1, ReturnIs
    <3> QED
      BY <3>2, <3>3
  <2>2. CASE ~ reqs[k].err
    <3>1. Goto(c, "put")
      BY <1>k, <2>2 DEF Delete
    <3>2. PICK y \in Call :
              /\ calls' = [calls EXCEPT ![c] = y] /\ y.pc = "put"
              /\ y.q = calls[c].q /\ y.req = calls[c].req
              /\ y.over = calls[c].over /\ y.fault = calls[c].fault
              /\ y.err = calls[c].err
      BY <3>1, GotoIs DEF PCs
    <3>3. y.err => y.over \/ y.fault
      BY <3>2 DEF IInv, OwnErrorsOnly
    <3> QED
      BY <1>2, <3>2, <3>3
  <2> QED
    BY <2>1, <2>2
<1>5. /\ calls' \in [Client -> Call] /\ calls'[c] = y
      /\ \A d \in Client \ {c} : calls'[d] = calls[d]
  BY <1>4, TypesUsed
<1>6. ASSUME NEW d \in Client
      PROVE  CallOK(d)' /\ CallMore(d)' /\ calls'[d].req \in 0 .. Len(reqs')
  <2>1. CASE d = c
    <3>1. y.req \in 0 .. Len(reqs)
      BY <1>4, TypesUsed DEF NoReq
    <3>2. p \in Question
      BY QuestionAssumption
    <3> QED
      BY <1>1, <1>2, <1>4, <1>5, <1>p, <2>1, <3>1, <3>2 DEF CallOK, CallMore
  <2>2. CASE d # c
    <3>1. calls'[d] = calls[d] /\ CallOK(d) /\ CallMore(d) /\ reqs' = reqs
      BY <1>1, <1>5, <2>2, TypesUsed
    <3> QED
      BY <3>1, TypesUsed DEF CallOK, CallMore
  <2> QED
    BY <2>1, <2>2
<1>7. requests' \in [Single -> 0 .. Len(reqs')]
      /\ \A q \in Single \ {p} : requests'[q] = requests[q]
  BY <1>1, <1>3, TypesUsed DEF NoReq
<1>8. TypeOK'
  <2>1. calls' \in [Client -> [pc : PCs, q : Question \cup {NoValue},
                              req : 0 .. Len(reqs'), resp : RespType,
                              over : BOOLEAN, fault : BOOLEAN, err : BOOLEAN]]
    BY <1>5, <1>6 DEF Call
  <2> QED
    BY <1>1, <1>6, <1>7, <2>1 DEF TypeOK, PCs, IInv
<1>9. RequestsOK'
  <2>1. \A q \in Single : Mine(q)' = Mine(q)
    BY <1>1 DEF Mine
  <2>2. \A q \in Single, d \in Client :
           d \in Leaders(q)' <=> d \in Leaders(q) /\ d # c
    <3>1. calls'[c].pc \notin {"upstream", "close", "delete"}
      BY <1>4, <1>5
    <3> QED
      BY <1>5, <3>1 DEF Leaders
  <2>3. \A d \in Client \ {c} : calls'[d].req = calls[d].req
    BY <1>5
  <2>4. c \in Leaders(p) /\ \A q \in Single : c \in Leaders(q) => q = p
    BY <1>1, <1>2 DEF Leaders
  <2>5. \A k2 \in DOMAIN reqs' : reqs'[k2].err => reqs'[k2].q \in failed'
    BY <1>1 DEF IInv, RequestsOK
  <2>6. ASSUME NEW q \in Single, requests'[q] = requests[q],
               requests[q] = NoReq \/ q # p \/ requests[q] # k
        PROVE  Registered(q)' /\ Unregistered(q)' /\ LeaderInMap(q)'
    <3>1. Registered(q) /\ Unregistered(q) /\ LeaderInMap(q)
      BY TypesUsed
    <3>2. Leaders(q)' = Leaders(q) \ {c}
      BY <2>2 DEF Leaders
    <3>3. Registered(q)'
      <4> SUFFICES ASSUME requests[q] # NoReq PROVE Registered(q)'
        BY <2>6 DEF Registered
      <4>1. PICK d \in Leaders(q) : calls[d].req = requests[q]
        BY <3>1 DEF Registered
      <4>2. d # c
        BY <1>2, <2>4, <2>6, <4>1
      <4>3. d \in Leaders(q)' /\ calls'[d].req = requests'[q]
        BY <2>3, <2>6, <3>2, <4>1, <4>2 DEF Leaders
      <4> QED
        BY <2>1, <2>6, <3>1, <4>3 DEF Registered
    <3>4. Unregistered(q)'
      BY <2>1, <2>3, <2>6, <3>1, <3>2 DEF Unregistered, Leaders
    <3>5. LeaderInMap(q)'
      BY <1>1, <2>3, <2>6, <3>1, <3>2 DEF LeaderInMap, Leaders
    <3> QED
      BY <3>3, <3>4, <3>5
  <2>7. ASSUME requests[p] = k
        PROVE  Registered(p)' /\ Unregistered(p)' /\ LeaderInMap(p)'
    <3>1. requests'[p] = NoReq
      BY <1>3, <2>7, TypesUsed
    <3>2. k \in Mine(p) /\ \A j \in Mine(p) : j <= k
      BY <1>2, <2>7, TypesUsed DEF Registered
    <3>3. ASSUME NEW d \in Leaders(p)'
          PROVE  /\ d \in Leaders(p) /\ d # c /\ calls'[d].req = calls[d].req
                 /\ calls[d].req < k
      <4>1. d \in Leaders(p) /\ d # c /\ d \in Client
        BY <2>2 DEF Leaders
      <4>2. calls[d].req # k
        BY <1>2, <2>4, <4>1, OneLeader
      <4>3. calls[d].req \in Mine(p)
        BY <4>1, TypesUsed DEF Leaders, Mine, CallOK, CallMore
      <4>4. calls[d].req <= k /\ calls[d].req \in Nat /\ k \in Nat
        BY <3>2, <4>3, TypesUsed DEF Mine
      <4> QED
        BY <2>3, <4>1, <4>2, <4>4
    <3>4. Unregistered(p)'
      BY <2>1, <3>2, <3>3, TypesUsed DEF Unregistered
    <3>5. LeaderInMap(p)'
      <4> SUFFICES ASSUME p \notin failed', NEW d \in Leaders(p)' PROVE FALSE
        BY DEF LeaderInMap
      <4>1. calls[d].req = requests[p] /\ calls[d].req < k /\ k \in Nat
        BY <1>1, <3>3, TypesUsed DEF LeaderInMap
      <4> QED
        BY <2>7, <4>1
    <3>6. Registered(p)'
      BY <3>1 DEF Registered
    <3> QED
      BY <3>4, <3>5, <3>6
  <2>8. \A q \in Single : Registered(q)' /\ Unregistered(q)' /\ LeaderInMap(q)'
    BY <1>3, <1>7, <2>6, <2>7
  <2> QED
    BY <2>5, <2>8 DEF RequestsOK
<1>10. CountOK'
  <2>1. Waiting' \subseteq Waiting
    BY <1>4, <1>5 DEF Waiting
  <2> QED
    BY <1>1, <2>1, CountKept
<1>11. UsedOK' /\ OwnErrorsOnly'
  BY <1>1, <1>4, <1>5 DEF IInv, UsedOK, OwnErrorsOnly
<1> QED
  BY <1>6, <1>8, <1>9, <1>10, <1>11 DEF IInv

\* Steps that no call takes.
LEMMA QuietInv ==
    ASSUME IInv, UNCHANGED <<calls, reqs, requests, used, failed>>,
           now' \in 0 .. MaxTime,
           cache' \in [TypeA -> [resp : RespType, expires : Nat]],
           expiry' \in [TypeA -> [Value -> Nat]]
    PROVE  IInv'
<1>1. \A c \in Client : CallOK(c)' /\ CallMore(c)'
  BY TypesUsed DEF CallOK, CallMore
<1>2. TypeOK'
  BY <1>1 DEF TypeOK, IInv
<1>3. RequestsOK'
  <2>1. \A q \in Single : Mine(q)' = Mine(q) /\ Leaders(q)' = Leaders(q)
    BY DEF Mine, Leaders
  <2>2. \A q \in Single : Registered(q)' /\ Unregistered(q)' /\ LeaderInMap(q)'
    BY <2>1, TypesUsed DEF Registered, Unregistered, LeaderInMap
  <2> QED
    BY <2>2 DEF RequestsOK, IInv
<1>4. CountOK'
  <2>1. Waiting' = Waiting
    BY DEF Waiting
  <2> QED
    BY <2>1, CountKept
<1>5. UsedOK' /\ OwnErrorsOnly'
  BY DEF IInv, UsedOK, OwnErrorsOnly
<1> QED
  BY <1>1, <1>2, <1>3, <1>4, <1>5 DEF IInv

LEMMA NextInv == IInv /\ [Next]_vars => IInv'
<1> SUFFICES ASSUME IInv, [Next]_vars PROVE IInv'
  OBVIOUS
<1>1. ASSUME NEW c \in Client, NEW q \in Question, Resolve(c, q) PROVE IInv'
  BY <1>1, ResolveInv
<1>2. ASSUME NEW c \in Client, Step(c) PROVE IInv'
  BY <1>2, JoinInv, WaitInv, CloseInv, DeleteInv, CachePutInv, OverrideInv, AnsweredInv
     DEF Step
<1>3. ASSUME NEW c \in Client, Failed(c) \/ Cancel(c) PROVE IInv'
  BY <1>3, FailedInv, CancelInv
<1>4. CASE RemoveExpired
  <2>1. NoEntry \in [resp : RespType, expires : Nat]
    BY NoRespType DEF NoEntry
  <2>2. cache' \in [TypeA -> [resp : RespType, expires : Nat]]
    BY <1>4, <2>1, TypesLeft DEF RemoveExpired
  <2> QED
    BY <1>4, <2>2, QuietInv, TypesLeft DEF RemoveExpired
<1>5. CASE Tick
  <2>1. now' \in 0 .. MaxTime
    BY <1>5, TypesLeft, BoundsAssumption DEF Tick
  <2> QED
    BY <1>5, <2>1, QuietInv, TypesLeft DEF Tick
<1>6. CASE UNCHANGED vars
  BY <1>6, QuietInv, TypesLeft DEF vars
<1> QED
  BY <1>1, <1>2, <1>3, <1>4, <1>5, <1>6 DEF Next

THEOREM Invariance == Spec => []IInv
<1> QED
  BY InitInv, NextInv, PTL DEF Spec

\* dns_resolver.go: the calls, the inflight requests, the map of them, the
\* cache and the store have their types; a leader closes Done of the request it
\* has made itself and which nobody has closed before.
THEOREM TypeCorrect == Spec => []TypeOK
<1>1. IInv => TypeOK
  BY DEF IInv
<1> QED
  BY <1>1, Invariance, PTL

\* singleInflightResolver.Resolve, dns_resolver.go: callers of one question
\* share one request to upstream, whoever of them leads it and whenever it
\* leaves, until a request of that question has failed.
THEOREM OneRequestInFlight == Spec => []SingleInflight
<1>1. ASSUME IInv PROVE SingleInflight
  <2> SUFFICES ASSUME NEW q \in Single \ failed PROVE Cardinality(Leaders(q)) <= 1
    BY DEF SingleInflight
  <2>1. \A c, d \in Leaders(q) : c = d
    <3> SUFFICES ASSUME NEW c \in Leaders(q), NEW d \in Leaders(q) PROVE c = d
      OBVIOUS
    <3>1. calls[c].req = requests[q] /\ calls[d].req = requests[q]
      BY <1>1, TypesUsed DEF LeaderInMap
    <3> QED
      BY <1>1, <3>1, OneLeader
  <2>2. CASE Leaders(q) = {}
    <3>1. Cardinality(Leaders(q)) = 0
      BY <2>2, FS_EmptySet
    <3> QED
      BY <3>1
  <2>3. CASE Leaders(q) # {}
    <3>1. PICK c : Leaders(q) = {c}
      BY <2>1, <2>3
    <3>2. Cardinality(Leaders(q)) = 1
      BY <3>1, FS_Singleton
    <3> QED
      BY <3>2
  <2> QED
    BY <2>2, <2>3
<1> QED
  BY <1>1, Invariance, PTL

\* singleInflightResolver.Resolve, dns_resolver.go: the comparison before the
\* delete is what it takes for the map to have the newest request of a
\* question exactly as long as that one's leader is there.
THEOREM MapHasNewest == Spec => []NewestRegistered
<1>1. ASSUME IInv PROVE NewestRegistered
  <2> SUFFICES ASSUME NEW q \in Single
               PROVE  requests[q] = IF /\ Mine(q) # {}
                                       /\ \E c \in Leaders(q) : calls[c].req = Max(Mine(q))
                                    THEN Max(Mine(q)) ELSE NoReq
    BY DEF NewestRegistered, Mine
  <2>1. /\ Registered(q) /\ Unregistered(q) /\ Len(reqs) \in Nat
        /\ Mine(q) \subseteq Nat /\ \A k \in Mine(q) : k <= Len(reqs)
    BY <1>1, TypesUsed DEF Mine
  <2>2. Mine(q) # {} => Max(Mine(q)) \in Mine(q) /\ \A k \in Mine(q) : k <= Max(Mine(q))
    BY <2>1, MaxOf
  <2>3. CASE requests[q] = NoReq
    <3> SUFFICES ASSUME Mine(q) # {}, NEW c \in Leaders(q), calls[c].req = Max(Mine(q))
                 PROVE  FALSE
      BY <2>3
    <3>1. PICK k \in Mine(q) : k > Max(Mine(q))
      BY <2>1, <2>3 DEF Unregistered
    <3>2. k \in Nat /\ Max(Mine(q)) \in Nat /\ k <= Max(Mine(q))
      BY <2>1, <2>2
    <3> QED
      BY <3>1, <3>2
  <2>4. CASE requests[q] # NoReq
    <3>1. /\ requests[q] \in Mine(q) /\ \A k \in Mine(q) : k <= requests[q]
          /\ \E c \in Leaders(q) : calls[c].req = requests[q]
      BY <2>1, <2>4 DEF Registered
    <3>2. requests[q] <= Max(Mine(q)) /\ Max(Mine(q)) <= requests[q]
          /\ requests[q] \in Nat /\ Max(Mine(q)) \in Nat
      BY <2>1, <2>2, <3>1
    <3>3. Max(Mine(q)) = requests[q]
      BY <3>2
    <3> QED
      BY <3>1, <3>3
  <2> QED
    BY <2>3, <2>4
<1> QED
  BY <1>1, Invariance, PTL

\* singleInflightResolver.Resolve, dns_resolver.go: a caller that waited never
\* returns the leader's error, whether the leader failed or was cancelled.
THEOREM NoForeignErrors == Spec => []OwnErrorsOnly
<1>1. IInv => OwnErrorsOnly
  BY DEF IInv
<1> QED
  BY <1>1, Invariance, PTL

\* singleInflightResolver.Resolve, dns_resolver.go: however often leaders fail
\* and all their waiters ask again, upstream is never asked more often than
\* the chain has been called.
THEOREM RequestsBounded == Spec => []OneRequestEach
<1>1. IInv => OneRequestEach
  BY DEF IInv, CountOK
<1> QED
  BY <1>1, Invariance, PTL

-----------------------------------------------------------------------------
(* Answers, their records and the cache. *)

\* The addresses of an answer do not depend on its TTLs.
LEMMA AddressesSame ==
    ASSUME NEW q, NEW s, NEW t, SameRecords(s, t)
    PROVE  AddressesOf(q, s) = AddressesOf(q, t)
<1>1. Names(s) = Names(t)
  BY DEF Names, SameRecords
<1>2. \A n : Of(s, "CNAME", n) = Of(t, "CNAME", n)
  BY DEF Of, SameRecords
<1>3. Reachable(q, s) = Reachable(q, t)
  BY <1>1 DEF Reachable, SameRecords
<1>4. {k \in DOMAIN s : /\ s[k].type = "A" /\ s[k].name \in Reachable(q, s)
                        /\ Of(s, "CNAME", s[k].name) = {}}
        = {k \in DOMAIN t : /\ t[k].type = "A" /\ t[k].name \in Reachable(q, t)
                            /\ Of(t, "CNAME", t[k].name) = {}}
  BY <1>2, <1>3 DEF SameRecords
<1> QED
  BY <1>4 DEF AddressesOf, SameRecords

LEMMA AddressesValue ==
    ASSUME NEW resp \in RespType, NEW q
    PROVE  AddressesOf(q, resp.rrs) \subseteq Value
<1>1. \A i \in DOMAIN resp.rrs : resp.rrs[i].type = "A" => resp.rrs[i].data \in Value
  BY RecordOf DEF RR
<1> QED
  BY <1>1 DEF AddressesOf

LEMMA NoRespOK ==
    ASSUME NEW q
    PROVE  RespOK(NoResp) /\ RespOK(NoResp)' /\ Stamped(q, NoResp) /\ Stamped(q, NoResp)'
<1>1. DOMAIN NoResp.rrs = {} /\ NoResp.at = NoTime
  BY DEF NoResp
<1>2. AddressesOf(q, NoResp.rrs) = {}
  BY <1>1 DEF AddressesOf
<1> QED
  BY <1>1, <1>2 DEF RespOK, Stamped

\* What a later answer stamps lives longer.
LaterStamps ==
    /\ expiry' \in [TypeA -> [Value -> Nat]]
    /\ \A q \in TypeA, v \in Value :
          expiry'[q][v] = expiry[q][v] \/ expiry'[q][v] >= now + 1

LEMMA StampedKept ==
    ASSUME IInv, LaterStamps, NEW q \in TypeA, NEW resp \in RespType,
           resp.at <= now, Stamped(q, resp)
    PROVE  Stamped(q, resp)'
<1>1. now \in Nat /\ resp.at \in Int
  BY TypesLeft DEF RespType, NoTime
<1>2. ASSUME NEW v \in AddressesOf(q, resp.rrs) PROVE expiry'[q][v] >= resp.at + 1
  <2>1. v \in Value /\ expiry[q][v] >= resp.at + 1
    BY AddressesValue DEF Stamped
  <2>2. CASE expiry'[q][v] = expiry[q][v]
    BY <2>1, <2>2
  <2>3. CASE expiry'[q][v] >= now + 1
    <3>1. expiry' \in [TypeA -> [Value -> Nat]]
      BY DEF LaterStamps
    <3>2. expiry'[q][v] \in Nat
      BY <2>1, <3>1
    <3> QED
      BY <1>1, <2>3, <3>2
  <2>4. expiry'[q][v] = expiry[q][v] \/ expiry'[q][v] >= now + 1
    BY <2>1 DEF LaterStamps
  <2> QED
    BY <2>2, <2>3, <2>4
<1> QED
  BY <1>2 DEF Stamped

\* Entries of the cache while time does not pass.
LEMMA EntriesKept ==
    ASSUME IInv, CacheOK, LaterStamps, now' = now, cache' = cache
    PROVE  CacheOK'
<1> SUFFICES ASSUME NEW q \in TypeA, cache[q] # NoEntry PROVE EntryOK(q, cache[q])'
  BY DEF CacheOK
<1>1. EntryOK(q, cache[q]) /\ cache[q].resp \in RespType
  BY TypesLeft DEF CacheOK
<1>2. cache[q].resp.at <= now
  BY <1>1 DEF EntryOK
<1>3. PICK e : e = cache[q]
  OBVIOUS
<1>4. Stamped(q, e.resp)'
  BY <1>1, <1>2, <1>3, StampedKept DEF EntryOK
<1>5. EntryOK(q, e)'
  BY <1>1, <1>3, <1>4 DEF EntryOK
<1> QED
  BY <1>3, <1>5

\* A step of one call that brings no answer.
LEMMA CalmStep ==
    ASSUME IInv, RouteInv, NEW c \in Client, UNCHANGED <<now, expiry>>,
           \A d \in Client \ {c} : calls'[d] = calls[d],
           DOMAIN reqs \subseteq DOMAIN reqs',
           \A k \in DOMAIN reqs : /\ reqs'[k].q = reqs[k].q
                                  /\ reqs'[k].resp = reqs[k].resp,
           \A k \in DOMAIN reqs' \ DOMAIN reqs : reqs'[k].resp = NoResp,
           OnTime(c)', Unanswered(c)', CacheOK'
    PROVE  RouteInv'
<1>1. AnswersOK'
  <2> SUFFICES ASSUME NEW k \in DOMAIN reqs'
               PROVE  /\ RespOK(reqs[k].resp)'
                      /\ (reqs[k].q \in TypeA => Stamped(reqs[k].q, reqs[k].resp))'
    BY DEF AnswersOK
  <2>1. CASE k \in DOMAIN reqs
    <3>1. PICK resp, q : resp = reqs[k].resp /\ q = reqs[k].q
      OBVIOUS
    <3>2. RespOK(resp) /\ (q \in TypeA => Stamped(q, resp))
      BY <2>1, <3>1 DEF RouteInv, AnswersOK
    <3>3. RespOK(resp)' /\ (q \in TypeA => Stamped(q, resp)')
      BY <3>2 DEF RespOK, Stamped
    <3>4. reqs'[k].resp = resp /\ reqs'[k].q = q
      BY <2>1, <3>1
    <3> QED
      BY <3>3, <3>4 DEF RespOK, Stamped
  <2>2. CASE k \notin DOMAIN reqs
    <3>1. reqs'[k].resp = NoResp
      BY <2>2
    <3> QED
      BY <3>1, NoRespOK DEF RespOK, Stamped
  <2> QED
    BY <2>1, <2>2
<1>2. ASSUME NEW d \in Client, d # c PROVE OnTime(d)' /\ Unanswered(d)'
  <2>1. calls'[d] = calls[d] /\ OnTime(d) /\ Unanswered(d)
    BY <1>2 DEF RouteInv
  <2>2. calls[d].pc \in {"close", "wait", "delete", "put"} => calls[d].req \in DOMAIN reqs
    BY TypesUsed DEF CallOK, CallMore
  <2>3. calls[d].req # NoReq => calls[d].req \in DOMAIN reqs
    BY TypesUsed
  <2> QED
    BY <2>1, <2>2, <2>3 DEF OnTime, Unanswered, Timely
<1> QED
  BY <1>1, <1>2 DEF RouteInv

\* Answers that no step touches.
LEMMA SameAnswers ==
    ASSUME IInv, UNCHANGED <<now, reqs, cache, expiry>>, CacheOK
    PROVE  /\ DOMAIN reqs \subseteq DOMAIN reqs' /\ CacheOK' /\ LaterStamps
           /\ \A k \in DOMAIN reqs : /\ reqs'[k].q = reqs[k].q
                                     /\ reqs'[k].resp = reqs[k].resp
           /\ \A k \in DOMAIN reqs' \ DOMAIN reqs : reqs'[k].resp = NoResp
<1>1. LaterStamps
  BY TypesLeft DEF LaterStamps
<1> QED
  BY <1>1, EntriesKept

LEMMA ReturnRoute ==
    ASSUME IInv, RouteInv, NEW c \in Client, NEW err \in BOOLEAN, Return(c, err),
           UNCHANGED <<now, reqs, expiry>>, CacheOK'
    PROVE  RouteInv'
<1>1. calls'[c].pc = "idle" /\ \A d \in Client \ {c} : calls'[d] = calls[d]
  BY ReturnIs, TypesUsed
<1>2. OnTime(c)' /\ Unanswered(c)'
  BY <1>1 DEF OnTime, Unanswered
<1> QED
  BY <1>1, <1>2, CalmStep

LEMMA GotoRoute ==
    ASSUME IInv, RouteInv, NEW c \in Client, NEW pc \in PCs, Goto(c, pc),
           calls[c].pc \in {"close", "wait", "delete", "put"}, pc # "upstream",
           UNCHANGED <<now, expiry>>, DOMAIN reqs' = DOMAIN reqs,
           \A k \in DOMAIN reqs : /\ reqs'[k].q = reqs[k].q
                                  /\ reqs'[k].resp = reqs[k].resp,
           CacheOK'
    PROVE  RouteInv'
<1>1. calls'[c].pc = pc /\ calls'[c].req = calls[c].req
      /\ \A d \in Client \ {c} : calls'[d] = calls[d]
  BY GotoIs, TypesUsed
<1>2. calls[c].req \in DOMAIN reqs /\ OnTime(c)
  BY TypesUsed DEF CallOK, CallMore, RouteInv
<1>3. OnTime(c)' /\ Unanswered(c)'
  BY <1>1, <1>2 DEF OnTime, Unanswered, Timely
<1> QED
  BY <1>1, <1>3, CalmStep

LEMMA RegisterRoute ==
    ASSUME IInv, RouteInv, NEW c \in Client, Register(c), calls[c].q \in Single,
           UNCHANGED <<now, cache, expiry>>
    PROVE  RouteInv'
<1>p. PICK p \in Single : p = calls[c].q
  OBVIOUS
<1>n. PICK n \in Nat : n = Len(reqs) + 1
  BY TypesUsed
<1>1. calls \in [Client -> Call] /\ reqs \in Seq(Req)
  BY TypesUsed
<1>2. /\ reqs' = Append(reqs, [q |-> p, by |-> c, done |-> FALSE, err |-> FALSE,
                               resp |-> NoResp])
      /\ calls' = [calls EXCEPT ![c].pc = "upstream", ![c].req = n]
  BY <1>n, <1>p DEF Register
<1>3. /\ calls'[c].pc = "upstream" /\ calls'[c].req = n
      /\ \A d \in Client \ {c} : calls'[d] = calls[d]
  BY <1>1, <1>2 DEF Call
<1>4. [q |-> p, by |-> c, done |-> FALSE, err |-> FALSE, resp |-> NoResp] \in Req
  BY NoRespType DEF Req
<1>5. /\ DOMAIN reqs \subseteq DOMAIN reqs'
      /\ \A k \in DOMAIN reqs : reqs'[k] = reqs[k]
      /\ \A k \in DOMAIN reqs' \ DOMAIN reqs : k = n
      /\ reqs'[n].resp = NoResp
  BY <1>1, <1>2, <1>4, <1>n
<1>6. OnTime(c)' /\ Unanswered(c)'
  BY <1>3, <1>5 DEF OnTime, Unanswered, NoResp
<1>7. LaterStamps
  BY TypesLeft DEF LaterStamps
<1>8. CacheOK'
  BY <1>7, EntriesKept DEF RouteInv
<1> QED
  BY <1>3, <1>5, <1>6, <1>8, CalmStep

LEMMA ResolveRoute ==
    ASSUME IInv, RouteInv, NEW c \in Client, NEW q \in Question, Resolve(c, q)
    PROVE  RouteInv'
<1>1. PICK y \in Call : /\ calls' = [calls EXCEPT ![c] = y] /\ y.req = NoReq
                        /\ y.pc \in {"join", "override", "upstream"}
  BY ResolveIs
<1>2. calls'[c] = y /\ \A d \in Client \ {c} : calls'[d] = calls[d]
  BY <1>1, TypesUsed
<1>3. OnTime(c)' /\ Unanswered(c)'
  BY <1>1, <1>2 DEF OnTime, Unanswered
<1>4. UNCHANGED <<now, reqs, cache, expiry>>
  BY DEF Resolve
<1> QED
  BY <1>2, <1>3, <1>4, SameAnswers, CalmStep DEF RouteInv

\* Who joins a request gets an answer that is as old as for its leader.
LEMMA JoinRoute ==
    ASSUME IInv, RouteInv, NEW c \in Client, Join(c) PROVE RouteInv'
<1>0. calls[c].pc = "join" /\ calls[c].q \in Single /\ UNCHANGED <<now, cache, expiry>>
  BY TypesUsed DEF Join, CallVars, CallMore
<1>1. CASE Inflight(calls[c].q)
  <2>1. PICK q \in Single : q = calls[c].q
    BY <1>0
  <2>2. PICK k \in DOMAIN reqs : k = requests[q]
    BY <1>1, <2>1, TypesUsed DEF Inflight
  <2>3. calls' = [calls EXCEPT ![c].pc = "wait", ![c].req = k] /\ reqs' = reqs
    BY <1>1, <2>1, <2>2 DEF Join
  <2>4. /\ calls'[c].pc = "wait" /\ calls'[c].req = k
        /\ \A d \in Client \ {c} : calls'[d] = calls[d]
    BY <2>3, TypesUsed DEF Call
  <2>5. PICK d \in Leaders(q) : calls[d].req = k
    BY <1>1, <2>1, <2>2, TypesUsed DEF Registered, Inflight
  <2>6. d \in Client /\ OnTime(d) /\ Unanswered(d)
        /\ calls[d].pc \in {"upstream", "close", "delete"}
    BY <2>5 DEF Leaders, RouteInv
  <2>7. Timely(reqs[k].resp)
    <3>1. k # NoReq
      BY <2>2, TypesUsed DEF NoReq
    <3> QED
      BY <2>5, <2>6, <3>1 DEF OnTime, Unanswered, Timely
  <2>8. OnTime(c)' /\ Unanswered(c)'
    BY <1>0, <2>3, <2>4, <2>7 DEF OnTime, Unanswered, Timely
  <2> QED
    BY <1>0, <2>3, <2>4, <2>8, SameAnswers, CalmStep DEF RouteInv
<1>2. CASE ~ Inflight(calls[c].q)
  <2>1. Register(c)
    BY <1>2 DEF Join
  <2> QED
    BY <1>0, <2>1, RegisterRoute
<1> QED
  BY <1>1, <1>2

LEMMA WaitRoute ==
    ASSUME IInv, RouteInv, NEW c \in Client, Wait(c) PROVE RouteInv'
<1>1. calls[c].pc = "wait" /\ UNCHANGED <<now, cache, expiry>>
  BY DEF Wait, CallVars
<1>2. CASE Return(c, TRUE) /\ UNCHANGED <<reqs, requests>>
  BY <1>1, <1>2, SameAnswers, ReturnRoute DEF RouteInv
<1>3. CASE Retry(c)
  <2>1. calls[c].q \in Single
    BY <1>1, TypesUsed DEF CallOK, Req
  <2> QED
    BY <1>1, <1>3, <2>1, RegisterRoute DEF Retry
<1>4. CASE Goto(c, "put") /\ UNCHANGED <<reqs, requests>>
  BY <1>1, <1>4, SameAnswers, GotoRoute DEF RouteInv, PCs
<1> QED
  BY <1>2, <1>3, <1>4 DEF Wait

LEMMA DeleteRoute ==
    ASSUME IInv, RouteInv, NEW c \in Client, Delete(c) PROVE RouteInv'
<1>1. calls[c].pc = "delete" /\ UNCHANGED <<now, reqs, cache, expiry>>
  BY DEF Delete, CallVars
<1>2. CASE Return(c, TRUE)
  BY <1>1, <1>2, SameAnswers, ReturnRoute DEF RouteInv
<1>3. CASE Goto(c, "put")
  BY <1>1, <1>3, SameAnswers, GotoRoute DEF RouteInv, PCs
<1> QED
  BY <1>2, <1>3 DEF Delete, LeaderFails

LEMMA CloseRoute ==
    ASSUME IInv, RouteInv, NEW c \in Client, Close(c) PROVE RouteInv'
<1>1. calls[c].pc = "close" /\ UNCHANGED <<now, cache, expiry>> /\ Goto(c, "delete")
  BY DEF Close, CallVars
<1>2. LaterStamps
  BY <1>1, TypesLeft DEF LaterStamps
<1>3. CacheOK'
  BY <1>1, <1>2, EntriesKept DEF RouteInv
<1>4. /\ DOMAIN reqs' = DOMAIN reqs
      /\ \A k \in DOMAIN reqs : /\ reqs'[k].q = reqs[k].q
                                /\ reqs'[k].resp = reqs[k].resp
  BY TypesUsed DEF Close, Done, Req
<1> QED
  BY <1>1, <1>3, <1>4, GotoRoute DEF PCs

LEMMA CancelRoute ==
    ASSUME IInv, RouteInv, NEW c \in Client, Cancel(c) PROVE RouteInv'
<1>1. UNCHANGED <<now, reqs, cache, expiry>> /\ calls' = [calls EXCEPT ![c].over = TRUE]
  BY DEF Cancel
<1>2. /\ calls'[c].pc = calls[c].pc /\ calls'[c].req = calls[c].req
      /\ \A d \in Client \ {c} : calls'[d] = calls[d]
  BY <1>1, TypesUsed DEF Call
<1>3. OnTime(c)' /\ Unanswered(c)'
  BY <1>1, <1>2 DEF RouteInv, OnTime, Unanswered, Timely
<1> QED
  BY <1>1, <1>2, <1>3, SameAnswers, CalmStep DEF RouteInv

LEMMA FailedRoute ==
    ASSUME IInv, RouteInv, NEW c \in Client, Failed(c) PROVE RouteInv'
<1>1. calls[c].pc = "upstream" /\ UNCHANGED <<now, cache, expiry>>
  BY DEF Failed
<1>2. LaterStamps
  BY <1>1, TypesLeft DEF LaterStamps
<1>3. CacheOK'
  BY <1>1, <1>2, EntriesKept DEF RouteInv
<1>4. CASE calls[c].req = NoReq
  <2> DEFINE y == [Idle EXCEPT !.err = TRUE, !.over = calls[c].over, !.fault = TRUE]
  <2>1. calls' = [calls EXCEPT ![c] = y] /\ reqs' = reqs
    BY <1>4 DEF Failed
  <2>2. y.pc = "idle"
    BY DEF Idle
  <2> HIDE DEF y
  <2>3. calls'[c] = y /\ \A d \in Client \ {c} : calls'[d] = calls[d]
    BY <2>1, TypesUsed
  <2>4. OnTime(c)' /\ Unanswered(c)'
    BY <2>2, <2>3 DEF OnTime, Unanswered
  <2> QED
    BY <1>1, <1>3, <2>1, <2>3, <2>4, CalmStep
<1>5. CASE calls[c].req # NoReq
  <2>1. PICK k \in DOMAIN reqs : k = calls[c].req
    BY <1>5, TypesUsed
  <2>2. /\ reqs' = [reqs EXCEPT ![k].err = TRUE]
        /\ calls' = [calls EXCEPT ![c].pc = "close", ![c].fault = TRUE]
    BY <1>5, <2>1 DEF Failed
  <2>3. /\ calls'[c].pc = "close" /\ calls'[c].req = k
        /\ \A d \in Client \ {c} : calls'[d] = calls[d]
    BY <2>1, <2>2, TypesUsed DEF Call
  <2>4. /\ DOMAIN reqs' = DOMAIN reqs
        /\ \A j \in DOMAIN reqs : /\ reqs'[j].q = reqs[j].q
                                  /\ reqs'[j].resp = reqs[j].resp
    BY <2>2, TypesUsed DEF Req
  <2>5. reqs[k].resp.at = NoTime
    BY <1>1, <1>5, <2>1 DEF RouteInv, Unanswered
  <2>6. OnTime(c)' /\ Unanswered(c)'
    BY <2>3, <2>4, <2>5 DEF OnTime, Unanswered, Timely
  <2> QED
    BY <1>1, <1>3, <2>3, <2>4, <2>6, CalmStep
<1> QED
  BY <1>4, <1>5

\* Answers that are as they were, or still as good.
LEMMA AnswerStep ==
    ASSUME IInv, RouteInv, now' = now, LaterStamps, DOMAIN reqs' = DOMAIN reqs,
           \A k \in DOMAIN reqs :
              /\ reqs'[k].q = reqs[k].q
              /\ RespOK(reqs[k].resp)'
              /\ (reqs[k].q \in TypeA => Stamped(reqs[k].q, reqs[k].resp))',
           \A c \in Client : OnTime(c)' /\ Unanswered(c)',
           cache' = cache
    PROVE  RouteInv'
<1>1. AnswersOK'
  BY DEF AnswersOK
<1>2. CacheOK'
  BY EntriesKept DEF RouteInv
<1> QED
  BY <1>1, <1>2 DEF RouteInv

\* An answer arrives and its addresses are stamped.
LEMMA AnsweredRoute ==
    ASSUME RouteOutlivesAnswer, IInv, RouteInv,
           NEW c \in Client, NEW rrs \in Reply, Answered(c, rrs)
    PROVE  RouteInv'
<1>1. /\ calls[c].pc = "upstream" /\ Stamp(calls[c].q, rrs)
      /\ UNCHANGED <<now, cache>>
  BY DEF Answered, CallVars
<1>2. LaterStamps
  BY <1>1, StampIs DEF LaterStamps
<1>3. ASSUME NEW k \in DOMAIN reqs, reqs'[k].q = reqs[k].q, reqs'[k].resp = reqs[k].resp
      PROVE  /\ RespOK(reqs[k].resp)'
             /\ (reqs[k].q \in TypeA => Stamped(reqs[k].q, reqs[k].resp))'
  <2>1. PICK resp \in RespType, q \in Single : resp = reqs[k].resp /\ q = reqs[k].q
    BY TypesUsed DEF Req
  <2>2. RespOK(resp) /\ (q \in TypeA => Stamped(q, resp))
    BY <2>1 DEF RouteInv, AnswersOK
  <2>3. RespOK(resp)'
    BY <1>1, <2>2 DEF RespOK
  <2>4. q \in TypeA => Stamped(q, resp)'
    <3>1. CASE resp.at = NoTime
      <4>1. DOMAIN resp.rrs = {}
        BY <2>2, <3>1 DEF RespOK
      <4>2. AddressesOf(q, resp.rrs) = {}
        BY <4>1 DEF AddressesOf
      <4> QED
        BY <4>2 DEF Stamped
    <3>2. CASE resp.at # NoTime
      <4>1. resp.at <= now
        BY <2>2, <3>2 DEF RespOK
      <4> QED
        BY <1>2, <2>2, <4>1, StampedKept
    <3> QED
      BY <3>1, <3>2
  <2> QED
    BY <1>3, <2>1, <2>3, <2>4 DEF RespOK, Stamped
<1>4. CASE calls[c].req = NoReq
  <2>1. Return(c, FALSE) /\ reqs' = reqs
    BY <1>4 DEF Answered
  <2>2. calls'[c].pc = "idle" /\ \A d \in Client \ {c} : calls'[d] = calls[d]
    BY <2>1, ReturnIs, TypesUsed
  <2>3. ASSUME NEW d \in Client PROVE OnTime(d)' /\ Unanswered(d)'
    BY <1>1, <2>1, <2>2 DEF OnTime, Unanswered, Timely, RouteInv
  <2> QED
    BY <1>1, <1>2, <1>3, <2>1, <2>3, AnswerStep
<1>5. CASE calls[c].req # NoReq
  <2>1. PICK k \in DOMAIN reqs : k = calls[c].req
    BY <1>5, TypesUsed
  <2> DEFINE resp == [rrs |-> rrs, at |-> now]
  <2>2. reqs' = [reqs EXCEPT ![k].resp = resp] /\ Goto(c, "close")
    BY <1>5, <2>1 DEF Answered
  <2>3. /\ DOMAIN reqs' = DOMAIN reqs /\ reqs'[k].resp = resp
        /\ \A j \in DOMAIN reqs : reqs'[j].q = reqs[j].q
        /\ \A j \in DOMAIN reqs \ {k} : reqs'[j].resp = reqs[j].resp
    BY <2>2, TypesUsed DEF Req
  <2>4. /\ calls'[c].pc = "close" /\ calls'[c].req = k
        /\ \A d \in Client \ {c} : calls'[d] = calls[d]
    BY <2>1, <2>2, GotoIs, TypesUsed DEF PCs
  <2>5. reqs[k].q = calls[c].q /\ reqs[k].by = c
    BY <1>1, <1>5, <2>1, LeaderReq
  <2>6. now \in Nat /\ MaxDelay \in Nat
    BY TypesLeft, BoundsAssumption
  <2>7. RespOK(reqs[k].resp)'
    <3>1. resp.at \in 0 .. now /\ resp.at # NoTime
      BY <2>6 DEF NoTime
    <3>2. ShortLived(resp.rrs)
      BY DEF RouteOutlivesAnswer
    <3> QED
      BY <1>1, <2>3, <3>1, <3>2 DEF RespOK
  <2>8. (reqs[k].q \in TypeA => Stamped(reqs[k].q, reqs[k].resp))'
    <3> SUFFICES ASSUME reqs[k].q \in TypeA, NEW v \in AddressesOf(reqs[k].q, rrs)
                 PROVE  expiry'[reqs[k].q][v] >= now + 1
      BY <2>3 DEF Stamped
    <3>1. v \in Value
      <4>1. [rrs |-> rrs, at |-> NoTime].rrs = rrs
        OBVIOUS
      <4>2. [rrs |-> rrs, at |-> NoTime] \in RespType
        <5>1. rrs \in Seq(RR)
          BY ReplyIs
        <5>2. NoTime \in NoTime .. MaxTime
          BY BoundsAssumption DEF NoTime
        <5> QED
          BY <5>1, <5>2 DEF RespType
      <4> QED
        BY <4>1, <4>2, AddressesValue
    <3> QED
      BY <1>1, <2>5, <3>1, StampIs
  <2>9. ASSUME NEW d \in Client PROVE OnTime(d)' /\ Unanswered(d)'
    <3>1. Timely(reqs[k].resp)'
      BY <1>1, <2>3, <2>6 DEF Timely
    <3>2. CASE d = c
      BY <2>4, <3>1, <3>2 DEF OnTime, Unanswered
    <3>3. CASE d # c
      <4>1. calls'[d] = calls[d] /\ OnTime(d) /\ Unanswered(d)
        BY <2>4, <3>3 DEF RouteInv
      <4>2. calls[d].pc \in {"close", "wait", "delete", "put"}
               => calls[d].req \in DOMAIN reqs
        BY TypesUsed DEF CallOK, CallMore
      <4>3. OnTime(d)'
        BY <1>1, <2>3, <3>1, <4>1, <4>2 DEF OnTime, Timely
      <4>4. calls[d].pc = "upstream" /\ calls[d].req # NoReq
               => calls[d].req \in DOMAIN reqs \ {k}
        BY <2>5, <3>3, LeaderReq
      <4>5. Unanswered(d)'
        BY <2>3, <4>1, <4>4 DEF Unanswered
      <4> QED
        BY <4>3, <4>5
    <3> QED
      BY <3>2, <3>3
  <2>10. ASSUME NEW j \in DOMAIN reqs
         PROVE  /\ reqs'[j].q = reqs[j].q
                /\ RespOK(reqs[j].resp)'
                /\ (reqs[j].q \in TypeA => Stamped(reqs[j].q, reqs[j].resp))'
    BY <1>3, <2>3, <2>7, <2>8
  <2> QED
    BY <1>1, <1>2, <2>3, <2>9, <2>10, AnswerStep
<1> QED
  BY <1>4, <1>5

\* An answer that is overridden in place.
LEMMA OverriddenOK ==
    ASSUME IInv, NEW resp \in RespType, RespOK(resp)
    PROVE  /\ RespOK(Overridden(resp))
           /\ \A q : Stamped(q, resp) => Stamped(q, Overridden(resp))
<1> DEFINE o == Overridden(resp)
<1>1. /\ o \in RespType /\ o.at = resp.at /\ SameRecords(o.rrs, resp.rrs)
      /\ \A i \in DOMAIN resp.rrs :
            /\ o.rrs[i].ttl \in Nat /\ o.rrs[i].ttl <= resp.rrs[i].ttl
            /\ o.rrs[i].ttl > 0 <=> resp.rrs[i].ttl > 0
  BY OverriddenIs
<1> HIDE DEF o
<1>2. DOMAIN o.rrs = DOMAIN resp.rrs
  BY <1>1 DEF SameRecords
<1>3. ShortLived(resp.rrs) => ShortLived(o.rrs)
  <2> SUFFICES ASSUME NEW j \in DOMAIN o.rrs, o.rrs[j].ttl > 0, ShortLived(resp.rrs)
               PROVE  \E i \in DOMAIN o.rrs : /\ o.rrs[i].ttl > 0
                                              /\ o.rrs[i].ttl + MaxDelay <= RouteTimeout + 1
    BY DEF ShortLived
  <2>1. PICK i \in DOMAIN resp.rrs : /\ resp.rrs[i].ttl > 0
                                     /\ resp.rrs[i].ttl + MaxDelay <= RouteTimeout + 1
    BY <1>1, <1>2 DEF ShortLived
  <2>2. resp.rrs[i].ttl \in Nat /\ o.rrs[i].ttl \in Nat /\ MaxDelay \in Nat
        /\ RouteTimeout \in Nat
    BY <1>1, RecordOf, BoundsAssumption
  <2>3. o.rrs[i].ttl + MaxDelay <= RouteTimeout + 1 /\ o.rrs[i].ttl > 0
    BY <1>1, <2>1, <2>2
  <2> QED
    BY <1>2, <2>3
<1>4. RespOK(o)
  BY <1>1, <1>2, <1>3 DEF RespOK
<1>5. \A q : AddressesOf(q, o.rrs) = AddressesOf(q, resp.rrs)
  BY <1>1, AddressesSame
<1>6. \A q : Stamped(q, resp) => Stamped(q, o)
  BY <1>1, <1>5 DEF Stamped
<1> QED
  BY <1>4, <1>6 DEF o

LEMMA OverrideRoute ==
    ASSUME IInv, RouteInv, NEW c \in Client, Override(c) PROVE RouteInv'
<1>1. Return(c, FALSE) /\ UNCHANGED <<now, cache, expiry>>
  BY DEF Override, CallVars
<1>2. calls'[c].pc = "idle" /\ \A d \in Client \ {c} : calls'[d] = calls[d]
  BY <1>1, ReturnIs, TypesUsed
<1>3. CASE calls[c].req = NoReq
  BY <1>1, <1>3, SameAnswers, ReturnRoute DEF Override, RouteInv
<1>4. CASE calls[c].req # NoReq
  <2>1. PICK k \in DOMAIN reqs : k = calls[c].req
    BY <1>4, TypesUsed
  <2>2. reqs' = [reqs EXCEPT ![k].resp = Overridden(reqs[k].resp)]
    BY <1>4, <2>1 DEF Override
  <2>3. /\ DOMAIN reqs' = DOMAIN reqs
        /\ reqs'[k].resp = Overridden(reqs[k].resp)
        /\ \A j \in DOMAIN reqs : reqs'[j].q = reqs[j].q
        /\ \A j \in DOMAIN reqs \ {k} : reqs'[j].resp = reqs[j].resp
    BY <2>2, TypesUsed DEF Req
  <2>4. \A j \in DOMAIN reqs : /\ RespOK(reqs[j].resp) /\ reqs[j].resp \in RespType
                               /\ reqs[j].q \in TypeA => Stamped(reqs[j].q, reqs[j].resp)
    BY TypesUsed DEF RouteInv, AnswersOK, Req
  <2>5. reqs'[k].resp.at = reqs[k].resp.at
    BY <2>3, <2>4, OverriddenIs
  <2>6. ASSUME NEW j \in DOMAIN reqs
        PROVE  /\ RespOK(reqs[j].resp)'
               /\ (reqs[j].q \in TypeA => Stamped(reqs[j].q, reqs[j].resp))'
    <3>1. PICK old \in RespType, new \in {reqs'[j].resp}, q \in {reqs[j].q} :
             old = reqs[j].resp
      BY <2>4
    <3>2. RespOK(old) /\ (q \in TypeA => Stamped(q, old))
      BY <2>4, <3>1
    <3>3. new = old \/ new = Overridden(old)
      BY <2>3, <3>1
    <3>4. RespOK(new) /\ (q \in TypeA => Stamped(q, new))
      BY <3>2, <3>3, OverriddenOK
    <3> QED
      BY <1>1, <2>3, <3>1, <3>4 DEF RespOK, Stamped
  <2>7. ASSUME NEW d \in Client PROVE OnTime(d)' /\ Unanswered(d)'
    <3>1. CASE d = c
      BY <1>2, <3>1 DEF OnTime, Unanswered
    <3>2. CASE d # c
      <4>1. calls'[d] = calls[d] /\ OnTime(d) /\ Unanswered(d)
        BY <1>2, <3>2 DEF RouteInv
      <4>2. calls[d].pc \in {"close", "wait", "delete", "put"}
               => calls[d].req \in DOMAIN reqs
        BY TypesUsed DEF CallOK, CallMore
      <4>3. calls[d].req # NoReq => calls[d].req \in DOMAIN reqs
        BY TypesUsed
      <4>4. \A j \in DOMAIN reqs : reqs'[j].resp.at = reqs[j].resp.at
        BY <2>3, <2>5
      <4> QED
        BY <1>1, <4>1, <4>2, <4>3, <4>4 DEF OnTime, Unanswered, Timely
    <3> QED
      BY <3>1, <3>2
  <2>8. LaterStamps
    BY <1>1, TypesLeft DEF LaterStamps
  <2> QED
    BY <1>1, <2>3, <2>6, <2>7, <2>8, AnswerStep
<1> QED
  BY <1>3, <1>4

\* The cache keeps an answer that comes late no longer than its routes last.
LEMMA PutRoute ==
    ASSUME IInv, CacheOK, NEW q \in TypeA, NEW resp \in RespType, Put(q, resp),
           RespOK(resp), Stamped(q, resp), Timely(resp), UNCHANGED <<now, expiry>>
    PROVE  CacheOK'
<1> DEFINE ttls == TTLs(resp) \ {0}
<1>1. ttls \subseteq Nat
  BY TTLsNat
<1>2. cache' = IF ttls = {} THEN cache
               ELSE [cache EXCEPT ![q] = [resp |-> resp, expires |-> now + Min(ttls)]]
  BY DEF Put
<1>3. LaterStamps
  BY TypesLeft DEF LaterStamps
<1>4. CASE ttls = {}
  BY <1>2, <1>3, <1>4, EntriesKept
<1>5. CASE ttls # {}
  <2> DEFINE e == [resp |-> resp, expires |-> now + Min(ttls)]
  <2>1. PICK i \in DOMAIN resp.rrs : resp.rrs[i].ttl > 0
    <3>1. PICK i \in DOMAIN resp.rrs : resp.rrs[i].ttl # 0
      BY <1>5 DEF TTLs
    <3>2. resp.rrs[i].ttl \in Nat
      BY RecordOf
    <3> QED
      BY <3>1, <3>2
  <2>2. resp.at \in 0 .. now /\ ShortLived(resp.rrs) /\ resp.at # NoTime
    BY <2>1 DEF RespOK
  <2>3. PICK j \in DOMAIN resp.rrs : /\ resp.rrs[j].ttl > 0
                                     /\ resp.rrs[j].ttl + MaxDelay <= RouteTimeout + 1
    BY <2>1, <2>2 DEF ShortLived
  <2>4. resp.rrs[j].ttl \in ttls
    BY <2>3 DEF TTLs
  <2> HIDE DEF ttls
  <2>5. Min(ttls) \in Nat /\ Min(ttls) <= resp.rrs[j].ttl
    BY <1>1, <2>4, MinOf
  <2>6. now <= resp.at + MaxDelay
    BY <2>2 DEF Timely
  <2>7. e.expires <= resp.at + RouteTimeout + 1
    <3>1. now \in Nat /\ MaxDelay \in Nat /\ RouteTimeout \in Nat /\ resp.at \in Nat
          /\ resp.rrs[j].ttl \in Nat
      BY <2>2, TypesLeft, BoundsAssumption, RecordOf
    <3> QED
      BY <2>3, <2>5, <2>6, <3>1
  <2>8. EntryOK(q, e)
    BY <2>2, <2>7 DEF EntryOK
  <2>9. cache' = [cache EXCEPT ![q] = e]
    BY <1>2, <1>5
  <2> HIDE DEF e
  <2>10. ASSUME NEW p \in TypeA, NEW f, EntryOK(p, f) PROVE EntryOK(p, f)'
    BY <2>10 DEF EntryOK, Stamped
  <2>11. ASSUME NEW p \in TypeA PROVE (cache[p] = NoEntry \/ EntryOK(p, cache[p]))'
    <3>1. PICK f : f = cache'[p]
      OBVIOUS
    <3>2. f = NoEntry \/ EntryOK(p, f)
      BY <2>8, <2>9, <3>1, TypesLeft DEF CacheOK
    <3>3. f = NoEntry \/ EntryOK(p, f)'
      BY <2>10, <3>2
    <3> QED
      BY <3>1, <3>3 DEF EntryOK, Stamped
  <2> QED
    BY <2>11 DEF CacheOK
<1> QED
  BY <1>4, <1>5

LEMMA CachePutRoute ==
    ASSUME IInv, RouteInv, NEW c \in Client, CachePut(c) PROVE RouteInv'
<1>1. calls[c].pc = "put" /\ UNCHANGED <<now, reqs, expiry>>
  BY DEF CachePut, CallVars
<1>2. CASE calls[c].q \in TypeA
  <2>1. PICK k \in DOMAIN reqs : k = calls[c].req
    BY <1>1, TypesUsed DEF CallMore
  <2>2. k # NoReq
    BY TypesUsed DEF NoReq
  <2>3. Holds(c) = reqs[k].resp /\ reqs[k].q = calls[c].q
    BY <2>1, <2>2, TypesUsed DEF Holds, CallOK
  <2>4. Put(calls[c].q, reqs[k].resp) /\ Goto(c, "override")
    BY <1>2, <2>3 DEF CachePut
  <2>5. /\ RespOK(reqs[k].resp) /\ Stamped(calls[c].q, reqs[k].resp)
        /\ Timely(reqs[k].resp) /\ reqs[k].resp \in RespType
    BY <1>1, <1>2, <2>1, <2>3, TypesUsed DEF RouteInv, AnswersOK, OnTime, Req
  <2>6. CacheOK'
    BY <1>1, <1>2, <2>4, <2>5, PutRoute DEF RouteInv
  <2> QED
    BY <1>1, <2>4, <2>6, GotoRoute DEF PCs
<1>3. CASE calls[c].q \notin TypeA
  <2>1. Return(c, FALSE) /\ cache' = cache
    BY <1>3 DEF CachePut
  <2> QED
    BY <1>1, <2>1, SameAnswers, ReturnRoute DEF RouteInv
<1> QED
  BY <1>2, <1>3

LEMMA RemoveExpiredRoute == ASSUME IInv, RouteInv, RemoveExpired PROVE RouteInv'
<1>1. UNCHANGED <<now, calls, reqs, expiry>>
  BY DEF RemoveExpired
<1>2. \A q \in TypeA : cache'[q] = cache[q] \/ cache'[q] = NoEntry
  BY DEF RemoveExpired
<1>3. CacheOK'
  BY <1>1, <1>2 DEF RouteInv, CacheOK, EntryOK, Stamped
<1>4. AnswersOK'
  BY <1>1 DEF RouteInv, AnswersOK, RespOK, Stamped
<1>5. \A c \in Client : OnTime(c)' /\ Unanswered(c)'
  BY <1>1 DEF RouteInv, OnTime, Unanswered, Timely
<1> QED
  BY <1>3, <1>4, <1>5 DEF RouteInv

\* No answer is so late that it could not be put in the cache a second later.
LEMMA TickRoute == ASSUME IInv, RouteInv, Tick PROVE RouteInv'
<1>1. /\ UNCHANGED <<calls, reqs, cache, expiry>> /\ now' = now + 1 /\ now \in Nat
      /\ \A c \in Client : Fresh(c) => now < Holds(c).at + MaxDelay
  BY TypesLeft DEF Tick
<1>2. AnswersOK'
  <2>1. ASSUME NEW resp, RespOK(resp) PROVE RespOK(resp)'
    BY <1>1, <2>1 DEF RespOK
  <2>2. ASSUME NEW k \in DOMAIN reqs
        PROVE  /\ RespOK(reqs[k].resp)'
               /\ (reqs[k].q \in TypeA => Stamped(reqs[k].q, reqs[k].resp))'
    <3>1. PICK resp : resp = reqs[k].resp
      OBVIOUS
    <3>2. RespOK(resp) /\ (reqs[k].q \in TypeA => Stamped(reqs[k].q, resp))
      BY <3>1 DEF RouteInv, AnswersOK
    <3> QED
      BY <1>1, <2>1, <3>1, <3>2 DEF RespOK, Stamped
  <2> QED
    BY <1>1, <2>2 DEF AnswersOK
<1>3. CacheOK'
  <2>1. ASSUME NEW q \in TypeA, cache[q] = NoEntry \/ EntryOK(q, cache[q])
        PROVE  (cache[q] = NoEntry \/ EntryOK(q, cache[q]))'
    BY <1>1, <2>1 DEF EntryOK, Stamped
  <2> QED
    BY <2>1 DEF RouteInv, CacheOK
<1>4. ASSUME NEW c \in Client PROVE OnTime(c)' /\ Unanswered(c)'
  <2>1. Unanswered(c)'
    BY <1>1 DEF RouteInv, Unanswered
  <2>2. OnTime(c)'
    <3> SUFFICES ASSUME calls[c].pc \in {"close", "wait", "delete", "put"},
                        reqs[calls[c].req].resp.at # NoTime
                 PROVE  now + 1 <= reqs[calls[c].req].resp.at + MaxDelay
      BY <1>1 DEF OnTime, Timely
    <3>1. calls[c].req # NoReq /\ calls[c].req \in DOMAIN reqs
      BY TypesUsed DEF CallOK, CallMore
    <3>2. Holds(c) = reqs[calls[c].req].resp
      BY <3>1 DEF Holds
    <3>3. Fresh(c)
      BY <3>2 DEF Fresh, NoResp
    <3>4. now < reqs[calls[c].req].resp.at + MaxDelay
      BY <1>1, <3>2, <3>3
    <3>5. reqs[calls[c].req].resp.at \in Int /\ MaxDelay \in Nat
      <4>1. reqs[calls[c].req].resp \in RespType
        BY <3>1, TypesUsed DEF Req
      <4> QED
        BY <4>1, BoundsAssumption DEF RespType, NoTime
    <3> QED
      BY <1>1, <3>4, <3>5
  <2> QED
    BY <2>1, <2>2
<1> QED
  BY <1>2, <1>3, <1>4 DEF RouteInv

LEMMA NextRoute ==
    ASSUME RouteOutlivesAnswer, IInv, RouteInv, [Next]_vars PROVE RouteInv'
<1>1. ASSUME NEW c \in Client, NEW q \in Question, Resolve(c, q) PROVE RouteInv'
  BY <1>1, ResolveRoute
<1>2. ASSUME NEW c \in Client, Step(c) PROVE RouteInv'
  BY <1>2, JoinRoute, WaitRoute, CloseRoute, DeleteRoute, CachePutRoute, OverrideRoute,
     AnsweredRoute DEF Step
<1>3. ASSUME NEW c \in Client, Failed(c) \/ Cancel(c) PROVE RouteInv'
  BY <1>3, FailedRoute, CancelRoute
<1>4. CASE UNCHANGED vars
  BY <1>4 DEF vars, RouteInv, AnswersOK, RespOK, Stamped, CacheOK, EntryOK, OnTime,
              Unanswered, Timely
<1> QED
  BY <1>1, <1>2, <1>3, <1>4, RemoveExpiredRoute, TickRoute DEF Next

\* The cache and the store do not know of each other: an answer of the cache is
\* not stamped again (dns_cache.go, service.go).  Nevertheless the records of
\* all addresses the cache hands out are kept in the store (Expired,
\* ip_routes.go), whichever queries follow and however late their answers are
\* put, overridden in place or not.
THEOREM CacheIsRouted == ASSUME RouteOutlivesAnswer PROVE Spec => []CachedIsRouted
<1>1. ASSUME Init PROVE RouteInv
  BY <1>1 DEF Init, RouteInv, AnswersOK, CacheOK, OnTime, Unanswered, Idle
<1>2. ASSUME IInv, RouteInv PROVE CachedIsRouted
  <2> SUFFICES ASSUME NEW q \in TypeA, now <= cache[q].expires,
                      NEW v \in AddressesOf(q, cache[q].resp.rrs)
               PROVE  now <= expiry[q][v] + RouteTimeout
    BY DEF CachedIsRouted
  <2>1. cache[q] # NoEntry
    <3> SUFFICES ASSUME cache[q] = NoEntry PROVE FALSE
      OBVIOUS
    <3>1. DOMAIN cache[q].resp.rrs = {}
      BY DEF NoEntry, NoResp
    <3> QED
      BY <3>1 DEF AddressesOf
  <2>2. EntryOK(q, cache[q])
    BY <1>2, <2>1 DEF RouteInv, CacheOK
  <2>3. /\ now <= cache[q].resp.at + RouteTimeout + 1
        /\ expiry[q][v] >= cache[q].resp.at + 1
    <3>1. cache[q] \in [resp : RespType, expires : Nat] /\ now \in Nat
      BY <1>2, TypesLeft
    <3>2. cache[q].expires \in Nat /\ cache[q].resp.at \in Nat /\ RouteTimeout \in Nat
      BY <2>2, <3>1, BoundsAssumption DEF EntryOK
    <3> QED
      BY <2>2, <3>1, <3>2 DEF EntryOK, Stamped
  <2>4. expiry[q][v] \in Nat /\ cache[q].resp.at \in Nat /\ now \in Nat
        /\ RouteTimeout \in Nat
    <3>1. v \in Value
      BY <1>2, TypesLeft, AddressesValue
    <3> QED
      BY <1>2, <2>2, <3>1, TypesLeft, BoundsAssumption DEF EntryOK
  <2> QED
    BY <2>3, <2>4
<1>3. RouteInv /\ IInv /\ [Next]_vars => RouteInv'
  BY NextRoute
<1> QED
  BY <1>1, <1>2, <1>3, Invariance, PTL DEF Spec
=============================================================================
