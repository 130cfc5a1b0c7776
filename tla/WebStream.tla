----------------------------- MODULE WebStream ------------------------------
(***************************************************************************)
(* An event stream and the websockets that follow it (createStreamHandler  *)
(* and debounceUpdateChannel of dns_server_http.go).  A subscription is    *)
(* two goroutines, the handler and the debouncer, and the listener that    *)
(* Append calls: the listener offers a signal to the debouncer, which      *)
(* offers one to the handler when its timer fires, and the handler then    *)
(* queries the stream from its cursor.  Neither channel is buffered.       *)
(***************************************************************************)
EXTENDS Buffered

CONSTANTS Sub,         \* websocket subscriptions
          Limit,       \* entries per message: 1000
          MaxTime, MaxAppends,   \* bounds while no websocket has been opened
          OpenTime, OpenAppends, \* bounds once one has
          MaxFaults,
          Counts       \* entries to a page that are asked for, at least 1 each

ASSUME BoundsAssumption ==
    /\ Limit \in Nat \ {0} /\ MaxFaults \in Nat
    /\ MaxTime \in Nat /\ MaxAppends \in Nat
    /\ OpenTime \in 0 .. MaxTime /\ OpenAppends \in 0 .. MaxAppends
    /\ Counts \subseteq Nat \ {0}

VARIABLES
    ms,      \* the wall clock
    index,   \* Buffered.index
    ring,    \* Buffered.buf
    subs,    \* the subscriptions
    faults,  \* failed writes so far
    log      \* history: every entry appended

vars == <<ms, index, ring, subs, faults, log>>
-----------------------------------------------------------------------------
\* An entry is known by its number.
NoItem == [n |-> 0, cursor |-> 0, match |-> FALSE]

NoSub == [pc |-> "closed", filtered |-> FALSE, over |-> FALSE, listening |-> FALSE,
          deb |-> "none", armed |-> FALSE, cursor |-> 0, items |-> <<>>,
          last |-> 0,
          \* history: entries sent, entries that were to be sent, entries that
          \* existed when it was opened, and whether the stream may hold
          \* entries that no signal will come for
          sent |-> <<>>, want |-> <<>>, base |-> 0, unsignalled |-> FALSE]

Init == /\ ms = 0 /\ index = 0 /\ faults = 0
        /\ ring = EmptyRing(NoItem)
        /\ subs = [s \in Sub |-> NoSub]
        /\ log = <<>>

Set(s, sub) == subs' = [subs EXCEPT ![s] = sub]

StreamVars == <<ms, index, ring, log>>

Opened == \E s \in Sub : subs[s].pc # "closed"

InBounds(t, n, open) == IF open THEN t <= OpenTime /\ n <= OpenAppends
                                ELSE t <= MaxTime /\ n <= MaxAppends
-----------------------------------------------------------------------------
(* Append. *)

\* What a listener does about an entry.  A dropped signal does no harm while
\* an update is on offer or the handler is about to query.
Signalled(sub) ==
    IF sub.listening
    THEN (IF sub.deb = "select" THEN {[sub EXCEPT !.armed = TRUE]} ELSE {})
         \cup (IF sub.deb # "select" \/ sub.over
               THEN {[sub EXCEPT !.unsignalled =
                         @ \/ ~(sub.deb = "send" \/ sub.pc = "query")]}
               ELSE {})
    ELSE {[sub EXCEPT !.unsignalled = @ \/ sub.pc = "listen"]}

\* Buffered.Append, listeners included, all under the mutex.
Append_(match) ==
    /\ InBounds(ms, Len(log) + 1, Opened)
    /\ LET e == [n |-> Len(log) + 1, cursor |-> CursorOf(ms, index), match |-> match]
       IN  ring' = Add(ring, e) /\ log' = Append(log, e)
    /\ index' = NextIndex(index)
    /\ subs' \in {f \in [Sub -> UNION {Signalled(subs[s]) : s \in Sub}] :
                     \A s \in Sub : f[s] \in Signalled(subs[s])}
    /\ UNCHANGED <<ms, faults>>

Tick == /\ InBounds(ms + 1, Len(log), Opened)
        /\ ms' = ms + 1
        /\ UNCHANGED <<index, ring, subs, faults, log>>
-----------------------------------------------------------------------------
(* The handler. *)

\* Accept the connection, take the last cursor of the stream and start the
\* debouncer.
Accept(s, filtered) ==
    /\ subs[s].pc = "closed" /\ InBounds(ms, Len(log), TRUE)
    /\ Set(s, [NoSub EXCEPT
              !.pc = "listen", !.filtered = filtered, !.deb = "start",
              !.cursor = Query(ring, FALSE, MaxCursor, 1, FALSE).first,
              !.base = Len(log)])
    /\ UNCHANGED <<StreamVars, faults>>

Listen(s) ==
    /\ subs[s].pc = "listen"
    /\ Set(s, [subs[s] EXCEPT !.pc = "loop", !.listening = TRUE])
    /\ UNCHANGED <<StreamVars, faults>>

\* The debouncer hands an update to the handler.
Update(s) ==
    /\ subs[s].pc = "loop" /\ subs[s].deb = "send"
    /\ Set(s, [subs[s] EXCEPT !.pc = "query", !.deb = "back"])
    /\ UNCHANGED <<StreamVars, faults>>

\* The entries of the stream that this subscription has yet to be sent.
Pending(sub) ==
    LET Wanted(e) == /\ Filter(sub.filtered, e)
                     /\ e.n > sub.base
                     /\ \A i \in DOMAIN sub.sent : e.n > sub.sent[i].n
    IN  Select(Values(ring), Wanted)

Fetch(s) ==
    /\ subs[s].pc = "query"
    /\ \E res \in {Query(ring, TRUE, subs[s].cursor, Limit, subs[s].filtered)},
          want \in {FirstOf(Pending(subs[s]), Limit)} :
           Set(s, [subs[s] EXCEPT !.pc = "write", !.items = res.items,
                                  !.last = res.last, !.want = want,
                                  !.unsignalled = res.more])
    /\ UNCHANGED <<StreamVars, faults>>

\* Mutant: the cursor moves to the newest entry of the stream.
CursorNewest(sub) == Get(ring, ring.size - 1).cursor

CursorAfter(sub) == sub.last

Wrote(sub) == [sub EXCEPT !.pc = "loop", !.cursor = CursorAfter(sub),
                          !.sent = @ \o sub.items, !.items = <<>>, !.want = <<>>]

NotWrote(sub) == [sub EXCEPT !.pc = "loop", !.items = <<>>, !.want = <<>>]

\* wsjson.Write, if there is anything to write; the cursor stays when it fails.
Write(s) ==
    LET sub == subs[s] IN
    /\ sub.pc = "write"
    /\ \/ /\ sub.items = <<>>
          /\ Set(s, NotWrote(sub)) /\ UNCHANGED faults
       \/ /\ sub.items # <<>>
          /\ Set(s, Wrote(sub)) /\ UNCHANGED faults
       \/ /\ sub.items # <<>> /\ (sub.over \/ faults < MaxFaults)
          /\ Set(s, [NotWrote(sub) EXCEPT !.unsignalled = TRUE])
          /\ faults' = IF sub.over THEN faults ELSE faults + 1
    /\ UNCHANGED StreamVars

\* ctx.Done in the handler's loop: stopListen, and the connection is closed.
\* What the handler knew goes with it; the debouncer may still be about.
Leave(s) ==
    /\ subs[s].pc = "loop" /\ subs[s].over
    /\ Set(s, [NoSub EXCEPT !.pc = "done", !.over = TRUE,
                            !.deb = subs[s].deb, !.armed = subs[s].armed])
    /\ UNCHANGED <<StreamVars, faults>>

\* The client goes away, or the server shuts down.
Disconnect(s) ==
    /\ subs[s].pc \notin {"closed", "done"} /\ ~subs[s].over
    /\ Set(s, [subs[s] EXCEPT !.over = TRUE])
    /\ UNCHANGED <<StreamVars, faults>>
-----------------------------------------------------------------------------
(* The debouncer. *)

\* It comes to its select, and leaves it for good when the context is over.
Debounce(s) ==
    /\ \/ /\ subs[s].deb \in {"start", "back"}
          /\ Set(s, [subs[s] EXCEPT !.deb = "select"])
       \/ /\ subs[s].deb = "select" /\ subs[s].over
          /\ Set(s, [subs[s] EXCEPT !.deb = "gone"])
    /\ UNCHANGED <<StreamVars, faults>>

\* minTimer, put back by every signal, or maxTimer, which is not.
TimerFires(s) ==
    /\ subs[s].deb = "select" /\ subs[s].armed
    /\ Set(s, [subs[s] EXCEPT !.deb = "send", !.armed = FALSE])
    /\ UNCHANGED <<StreamVars, faults>>

\* Mutant: an update is dropped while the handler is busy writing.
GivesUpIfBusy(sub) == sub.over \/ sub.pc # "loop"

\* Mutant: the debouncer waits for the handler, come what may.
NeverGivesUp(sub) == FALSE

GivesUp(sub) == sub.over

\* sendUpdate without the handler taking the update.
DropUpdate(s) ==
    /\ subs[s].deb = "send" /\ GivesUp(subs[s])
    /\ Set(s, [subs[s] EXCEPT !.deb = "back"])
    /\ UNCHANGED <<StreamVars, faults>>
-----------------------------------------------------------------------------
HandlerStep(s) == Listen(s) \/ Update(s) \/ Fetch(s) \/ Write(s) \/ Leave(s)

DebouncerStep(s) == Debounce(s) \/ TimerFires(s) \/ DropUpdate(s)

Next == \/ \E match \in BOOLEAN : Append_(match)
        \/ Tick
        \/ \E s \in Sub : \/ \E filtered \in BOOLEAN : Accept(s, filtered)
                          \/ HandlerStep(s) \/ Disconnect(s) \/ DebouncerStep(s)

Spec == Init /\ [][Next]_vars

\* Both goroutines make progress; whichever case of a select is ready.
FairSpec ==
    Spec /\ \A s \in Sub : WF_vars(HandlerStep(s)) /\ WF_vars(DebouncerStep(s))
-----------------------------------------------------------------------------
Item == [n : 0 .. MaxAppends, cursor : 0 .. MaxCursor, match : BOOLEAN]

Subscription ==
    [pc : {"closed", "listen", "loop", "query", "write", "done"},
     deb : {"none", "start", "select", "send", "back", "gone"},
     filtered : BOOLEAN, over : BOOLEAN, listening : BOOLEAN,
     armed : BOOLEAN, unsignalled : BOOLEAN, cursor : 0 .. MaxCursor,
     last : 0 .. MaxCursor, base : 0 .. MaxAppends, items : Seq(Item),
     sent : Seq(Item), want : Seq(Item)]

TypeOK ==
    /\ ms \in 0 .. MaxTime
    /\ index \in -(2 ^ (IndexBits - 1)) .. 2 ^ (IndexBits - 1) - 1
    /\ ring \in [start : 0 .. Capacity - 1, end : -1 .. Capacity - 1,
                 size : 0 .. Capacity, buf : [0 .. Capacity - 1 -> Item]]
    /\ log \in Seq(Item)
    /\ faults \in 0 .. MaxFaults
    /\ subs \in [Sub -> Subscription]

\* The ring buffer holds the most recent entries in order of arrival, before
\* and after it has filled up, and their cursors increase, also when the
\* signed index overflows, as long as the clock's part of them does not.
RingHolds ==
    LET old == Len(log) - ring.size IN
    /\ ring.size = IF Len(log) < Capacity THEN Len(log) ELSE Capacity
    /\ Values(ring) = SubSeq(log, old + 1, Len(log))
    /\ \A i \in 1 .. ring.size - 1 : Values(ring)[i].cursor < Values(ring)[i + 1].cursor

\* Every page the list endpoint may be asked for, in both directions, before
\* and after any cursor (one of an entry, of one that is gone, or none at
\* all), filtered or not, has the entries it is defined to have.  (Websockets
\* leave the stream alone: it is looked at as long as there is none.)
PagesCorrect ==
    ~Opened =>
        \A cursor \in 0 .. MaxCursor, count \in Counts :
        \A backward, after, filtered \in BOOLEAN :
            ListPage(ring, backward, after, cursor, count, filtered).items
                = PageOf(SubSeq(log, Len(log) - ring.size + 1, Len(log)),
                         backward, after, cursor, count, filtered)

\* Following the link to the next page and, from a page that has entries,
\* the link to the previous one leads back to the page one came from.
PagesRoundTrip ==
    ~Opened =>
        \A cursor \in 0 .. MaxCursor, count \in Counts :
        \A backward, filtered \in BOOLEAN :
            LET Page(after, c) == ListPage(ring, backward, after, c, count, filtered)
                page == Page(TRUE, cursor)
                next == Page(TRUE, page.last)
                prev == Page(FALSE, next.first)
            IN  next.items # <<>> =>
                    /\ prev.items = page.items
                    /\ prev.first = page.first /\ prev.last = page.last

\* A client is sent every entry at most once and in order of arrival.
SentInOrder ==
    \A s \in Sub : LET sent == subs[s].sent IN
        \A i, j \in DOMAIN sent : i < j => sent[i].n < sent[j].n

\* Of the entries between the first and the last that a client was sent
\* none is left out that was in the buffer when the client's turn came:
\* entries are lost only if the buffer overruns.  Not so for a subscription
\* to a stream that was empty.
SendsPending ==
    \A s \in Sub : subs[s].pc = "write" /\ subs[s].base > 0 =>
        subs[s].items = subs[s].want

\* The same for every subscription: "signal about update" means that the
\* client is sent what was appended since "the last cursor from stream".
SendsPendingAlways == \A s \in Sub : subs[s].pc = "write" => subs[s].items = subs[s].want

CaughtUp(sub) == \/ sub.over \/ sub.pc = "closed" \/ sub.base = 0
                 \/ sub.unsignalled \/ Pending(sub) = <<>>

\* A connected client is sent everything in the end, although signals are
\* dropped while an update is under way.  It stays behind only if a signal
\* was dropped before the debouncer was back at its select, a write failed or
\* a message was full, and then until the next entry.
CatchesUp == <>[](\A s \in Sub : CaughtUp(subs[s]))

\* When a connection is gone, so are its listener and both its goroutines,
\* whatever they were waiting for.
Released == \A s \in Sub : subs[s].over ~> /\ subs[s].pc = "done"
                                           /\ subs[s].deb = "gone"
                                           /\ ~subs[s].listening
=============================================================================
