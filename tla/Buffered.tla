------------------------------ MODULE Buffered ------------------------------
(***************************************************************************)
(* The in-memory event stream (internal/stream/buffered.go) over its ring  *)
(* buffer (internal/util/ring_buf.go): the operations on their state, and  *)
(* what a query of the stream is meant to return.                          *)
(*                                                                         *)
(* A cursor is an unsigned word: the clock's milliseconds shifted left by  *)
(* the width of the index, which drops the high bits of the clock, or-ed   *)
(* with the sign-extended signed index.  The code's widths are 32 and 32.  *)
(***************************************************************************)
EXTENDS Integers, SequencesExt

CONSTANTS Capacity,   \* of the ring buffer
          TimeBits,   \* bits of the clock that fit in a cursor
          IndexBits   \* bits of Buffered.index

ASSUME CapacityAssumption == Capacity \in Nat \ {0}
ASSUME WidthAssumption == TimeBits \in Nat \ {0} /\ IndexBits \in Nat \ {0}

MaxCursor == 2 ^ (TimeBits + IndexBits) - 1   \* math.MaxUint64
-----------------------------------------------------------------------------
\* An index that has gone negative sets every bit of the clock part.
CursorOf(ms, index) ==
    LET low  == index % 2 ^ IndexBits
        high == IF index < 0 THEN 2 ^ TimeBits - 1 ELSE ms % 2 ^ TimeBits
    IN  high * 2 ^ IndexBits + low

\* index++ in a signed word.
NextIndex(index) ==
    IF index = 2 ^ (IndexBits - 1) - 1 THEN -(2 ^ (IndexBits - 1)) ELSE index + 1

EmptyRing(zero) == [start |-> 0, end |-> -1, size |-> 0,
                    buf |-> [i \in 0 .. Capacity - 1 |-> zero]]

\* Mutant: the oldest entry is overwritten, but start stays where it is.
AddKeepStart(ring, item) ==
    [ring EXCEPT !.size = IF @ = Capacity THEN @ ELSE @ + 1,
                 !.end = (@ + 1) % Capacity,
                 !.buf = [@ EXCEPT ![(ring.end + 1) % Capacity] = item]]

\* Mutant: end is not taken modulo the capacity.
AddNoWrap(ring, item) ==
    [ring EXCEPT !.start = IF ring.size = Capacity THEN (@ + 1) % Capacity ELSE @,
                 !.size = IF @ = Capacity THEN @ ELSE @ + 1,
                 !.end = @ + 1,
                 !.buf = [@ EXCEPT ![(ring.end + 1) % Capacity] = item]]

\* RingBuf.Add
Add(ring, item) ==
    [ring EXCEPT !.start = IF ring.size = Capacity THEN (@ + 1) % Capacity ELSE @,
                 !.size = IF @ = Capacity THEN @ ELSE @ + 1,
                 !.end = (@ + 1) % Capacity,
                 !.buf = [@ EXCEPT ![(ring.end + 1) % Capacity] = item]]

\* RingBuf.Get
Get(ring, i) == ring.buf[(ring.start + i) % Capacity]

\* RingBuf.Values
Values(ring) == [i \in 1 .. ring.size |-> Get(ring, i - 1)]

\* sort.Find over the ring: the binary search ends at the first position
\* whose cursor is not smaller, if the cursors are in order.
SearchFrom(ring, cursor) ==
    LET search[p \in (0 .. ring.size) \X (0 .. ring.size)] ==
            LET h == (p[1] + p[2]) \div 2
            IN  IF p[1] >= p[2] THEN p[1]
                ELSE IF cursor > Get(ring, h).cursor THEN search[<<h + 1, p[2]>>]
                ELSE search[<<p[1], h>>]
    IN  search[<<0, ring.size>>]

Found(ring, pos, cursor) == pos < ring.size /\ Get(ring, pos).cursor = cursor

\* Mutant: a forward query starts at the cursor, not after it.
StartAtCursor(ring, forward, cursor) ==
    LET pos == SearchFrom(ring, cursor) IN IF forward THEN pos ELSE pos - 1

\* Where query starts: after the cursor, or before it.
StartPos(ring, forward, cursor) ==
    LET start == [pos \in 0 .. ring.size |->
                     IF ~forward THEN pos - 1
                     ELSE IF Found(ring, pos, cursor) THEN pos + 1 ELSE pos]
    IN  start[SearchFrom(ring, cursor)]

\* RingBuf.Iterator, by +1 or by -1: what it yields from each position.
Iterator(ring, forward) ==
    [pos \in -1 .. ring.size |->
        IF forward THEN [i \in 1 .. ring.size - pos |-> Get(ring, pos + i - 1)]
        ELSE [i \in 1 .. pos + 1 |-> Get(ring, pos - i + 1)]]

\* The filters of the requests are one predicate, which is either set or not;
\* the entry's match tells whether it lets the entry pass.
Filter(filtered, e) == filtered => e.match

\* SelectSeq, as a function of which more can be proved.
Select(s, Test(_)) ==
    LET sel[n \in 0 .. Len(s)] ==
            IF n = 0 THEN <<>>
            ELSE IF Test(s[n]) THEN Append(sel[n - 1], s[n])
            ELSE sel[n - 1]
    IN  sel[Len(s)]

\* The first count elements.
FirstOf(s, count) == SubSeq(s, 1, Min({Len(s), count}))

\* Buffered.query: up to count matching entries and the cursors of the first
\* and last of them; both are the argument if there is none.
Query(ring, forward, cursor, count, filtered) ==
    LET run   == Iterator(ring, forward)[StartPos(ring, forward, cursor)]
        Matches(e) == Filter(filtered, e)
        all   == Select(run, Matches)
        items == FirstOf(all, count)
    IN  [items |-> items,
         first |-> IF items = <<>> THEN cursor ELSE items[1].cursor,
         last  |-> IF items = <<>> THEN cursor ELSE items[Len(items)].cursor,
         more  |-> Len(all) > count]

\* Mutant: the items are reversed, the cursors are not swapped.
ReverseItems(res) == [res EXCEPT !.items = Reverse(@)]

\* QueryResult.Reverse
ReverseResult(res) ==
    [res EXCEPT !.items = Reverse(@), !.first = res.last, !.last = res.first]

\* Mutant: the table of createListHandler with its second row inverted.
BackwardIfBefore(backward, after) == ~after

\* The table of createListHandler: which way the stream is queried.
QueriesBackward(backward, after) == backward = after

\* One page of createListHandler; its previous page asks for what lies
\* before first, its next page for what lies after last.
ListPage(ring, backward, after, cursor, count, filtered) ==
    LET res == Query(ring, ~QueriesBackward(backward, after), cursor, count, filtered)
    IN  IF after THEN res ELSE ReverseResult(res)
-----------------------------------------------------------------------------
(* What these are meant to compute, of the entries in order of arrival.     *)

\* The entries of a page: listing entries in order of arrival, or backward
\* in the opposite order, those directly after (before) the cursor.
PageOf(entries, backward, after, cursor, count, filtered) ==
    LET listing == IF backward THEN Reverse(entries) ELSE entries
        Beyond(e) == IF backward = after THEN e.cursor < cursor ELSE e.cursor > cursor
        Asked(e) == Filter(filtered, e) /\ Beyond(e)
        side == Select(listing, Asked)
        n == IF Len(side) < count THEN Len(side) ELSE count
    IN  IF after THEN FirstOf(side, count)
        ELSE SubSeq(side, Len(side) - n + 1, Len(side))
=============================================================================
