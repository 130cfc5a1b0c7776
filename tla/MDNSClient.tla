----------------------------- MODULE MDNSClient -----------------------------
(***************************************************************************)
(* The client for names of the local network (mdns_client.go): queries     *)
(* share one connection, opened by the first that needs it and guarded by  *)
(* a sync.RWMutex.  The mutex is modelled as Go implements it: a Lock that *)
(* is waiting for readers keeps new readers out.                           *)
(***************************************************************************)
EXTENDS Integers

CONSTANTS Client,      \* goroutines that resolve local names
          MaxQueries,  \* queries made
          MaxFailures  \* attempts to open the connection that fail

VARIABLES pc,       \* where each query is
          conn,     \* the connection is open
          readers,  \* read locks held
          writer,   \* who holds, or waits for, the write lock
          queries,  \* queries made so far
          failures  \* failed attempts so far

vars == <<pc, conn, readers, writer, queries, failures>>

Init == /\ pc = [c \in Client |-> "idle"]
        /\ conn = FALSE
        /\ readers = 0
        /\ writer = "none"
        /\ queries = 0 /\ failures = 0

Goto(c, from, to) == pc[c] = from /\ pc' = [pc EXCEPT ![c] = to]

Resolve(c) == /\ Goto(c, "idle", "rlock")
              /\ queries < MaxQueries
              /\ queries' = queries + 1
              /\ UNCHANGED <<conn, readers, writer, failures>>

RLock(c) == /\ Goto(c, "rlock", "check")
            /\ writer = "none"
            /\ readers' = readers + 1
            /\ UNCHANGED <<conn, writer, queries, failures>>

\* An open connection is returned at once, and the read lock with it.
Check(c) ==
    /\ IF conn THEN Goto(c, "check", "query") /\ UNCHANGED readers
               ELSE Goto(c, "check", "lock") /\ readers' = readers - 1
    /\ UNCHANGED <<conn, writer, queries, failures>>

\* Lock announces the writer, which then waits for the readers to leave.
Lock(c) == /\ Goto(c, "lock", "drain")
           /\ writer = "none"
           /\ writer' = c
           /\ UNCHANGED <<conn, readers, queries, failures>>

\* The second look at the connection, opening it, and the deferred Unlock.
Connect(c) ==
    /\ readers = 0
    /\ writer' = "none"
    /\ \/ /\ Goto(c, "drain", "query")
          /\ conn' = TRUE
          /\ UNCHANGED failures
       \/ /\ Goto(c, "drain", "idle")
          /\ ~conn /\ failures < MaxFailures
          /\ failures' = failures + 1
          /\ UNCHANGED conn
    /\ UNCHANGED <<readers, queries>>

\* The query is answered or runs into query_timeout.
Query(c) == /\ Goto(c, "query", "idle")
            /\ UNCHANGED <<conn, readers, writer, queries, failures>>

Step(c) == RLock(c) \/ Check(c) \/ Lock(c) \/ Connect(c) \/ Query(c)

Next == \E c \in Client : Resolve(c) \/ Step(c)

\* A mutex that is free again and again is not denied to a waiter for ever.
Spec == Init /\ [][Next]_vars /\ \A c \in Client : SF_vars(Step(c))

\* A query for a local name ends: the connection is there or is opened, and
\* then "query_timeout" bounds the wait for an answer.
QueriesEnd == \A c \in Client : []<>(pc[c] = "idle")
=============================================================================
