------------------------------- MODULE PgPool -------------------------------
(* The PostgreSQL connection pool (backend/pg-connection-pool): a queue of   *)
(* connections guarded by a mutex and a condition variable, borrowed through *)
(* PGPool::Lease by the worker threads that run the route handlers.          *)
(*                                                                           *)
(* A critical section of m_mutex is one step.  The steps between critical    *)
(* sections (the is_open test, the reconnect, notify_one, which runs after   *)
(* the unlock) are separate, so they interleave with every other thread.     *)
(* Connections are numbered in the order they are made, 0 stands for none.   *)
EXTENDS Naturals, Sequences, FiniteSets, Functions

CONSTANTS Threads,      \* the worker threads
          PoolSize,     \* POOL_SIZE
          MaxCalls,     \* bound: how often each thread borrows a connection
          MaxDeaths     \* bound: how often a connection dies

ASSUME PgPoolAssumption == /\ IsFiniteSet(Threads)
                           /\ PoolSize \in Nat \ {0}
                           /\ MaxCalls \in Nat
                           /\ MaxDeaths \in Nat

VARIABLES m_pool,       \* the queue of free connections
          pc,           \* pc[t]: where thread t is
          conn,         \* conn[t]: the connection thread t has in conn_, or 0
          made,         \* how many connections have been made so far
          open,         \* the connections whose is_open() is true
          calls,        \* calls[t]: how often t will still borrow
          deaths        \* how many connections have died

vars == <<m_pool, pc, conn, made, open, calls, deaths>>

\* idle    between two leases
\* lock    in connection(), about to lock m_mutex and test m_pool.empty()
\* wait    blocked in m_condition.wait
\* got     popped a connection, about to test is_open()
\* leased  the Lease is alive, the caller runs its query
\* abort   the reconnect threw, about to give the dead connection back
\* notify  pushed a connection and unlocked, about to call notify_one
Holding == {"got", "leased", "abort"}
Places  == {"idle", "lock", "wait", "notify"} \cup Holding

Conn == Nat \ {0}
At(place) == {t \in Threads : pc[t] = place}
Goto(t, place) == pc' = [pc EXCEPT ![t] = place]

-----------------------------------------------------------------------------
\* PGPool::createPool: POOL_SIZE fresh connections.
createPool == /\ m_pool = [i \in 1..PoolSize |-> i]
              /\ made = PoolSize
              /\ open = 1..PoolSize

Init == /\ createPool
        /\ pc = [t \in Threads |-> "idle"]
        /\ conn = [t \in Threads |-> 0]
        /\ calls = [t \in Threads |-> MaxCalls]
        /\ deaths = 0

\* A handler constructs a Lease, which calls connection().
Call(t) == /\ pc[t] = "idle"
           /\ calls[t] > 0
           /\ calls' = [calls EXCEPT ![t] = @ - 1]
           /\ Goto(t, "lock")
           /\ UNCHANGED <<m_pool, conn, made, open, deaths>>

\* The pool is empty: release the mutex and join the waiting threads.
Wait(t) == /\ pc[t] = "lock"
           /\ m_pool = <<>>
           /\ Goto(t, "wait")
           /\ UNCHANGED <<m_pool, conn, made, open, calls, deaths>>

\* Mutated form of Pop: the front connection is taken but not popped.
PopKeepsFront(t) == /\ pc[t] = "lock"
                    /\ m_pool # <<>>
                    /\ conn' = [conn EXCEPT ![t] = Head(m_pool)]
                    /\ Goto(t, "got")
                    /\ UNCHANGED <<m_pool, made, open, calls, deaths>>

\* Take the front connection, pop it and unlock.
Pop(t) == /\ pc[t] = "lock"
          /\ m_pool # <<>>
          /\ conn' = [conn EXCEPT ![t] = Head(m_pool)]
          /\ m_pool' = Tail(m_pool)
          /\ Goto(t, "got")
          /\ UNCHANGED <<made, open, calls, deaths>>

\* The connection is open: connection() returns it.
IsOpen(t) == /\ pc[t] = "got"
             /\ conn[t] \in open
             /\ Goto(t, "leased")
             /\ UNCHANGED <<m_pool, conn, made, open, calls, deaths>>

\* Mutated form of Reconnect: the dead connection also goes back to the queue.
ReconnectKeepsDead(t) == /\ pc[t] = "got"
                         /\ conn[t] \notin open
                         /\ made' = made + 1
                         /\ m_pool' = Append(m_pool, conn[t])
                         /\ conn' = [conn EXCEPT ![t] = made + 1]
                         /\ open' = open \cup {made + 1}
                         /\ Goto(t, "leased")
                         /\ UNCHANGED <<calls, deaths>>

\* The connection is dead and is replaced by a fresh one.
Reconnect(t) == /\ pc[t] = "got"
                /\ conn[t] \notin open
                /\ made' = made + 1
                /\ conn' = [conn EXCEPT ![t] = made + 1]
                /\ open' = open \cup {made + 1}
                /\ Goto(t, "leased")
                /\ UNCHANGED <<m_pool, calls, deaths>>

\* Mutated form of ReconnectFails: rethrow without giving the connection back.
ReconnectFailsDropsConn(t) == /\ pc[t] = "got"
                              /\ conn[t] \notin open
                              /\ conn' = [conn EXCEPT ![t] = 0]
                              /\ Goto(t, "idle")
                              /\ UNCHANGED <<m_pool, made, open, calls, deaths>>

\* The connection is dead and PostgreSQL refuses a new one.
ReconnectFails(t) == /\ pc[t] = "got"
                     /\ conn[t] \notin open
                     /\ Goto(t, "abort")
                     /\ UNCHANGED <<m_pool, conn, made, open, calls, deaths>>

\* Mutated form of freeConnection: conn_ was already moved from when pushed.
freeConnectionMoved(t) == /\ pc[t] \in {"leased", "abort"}
                          /\ m_pool' = Append(m_pool, 0)
                          /\ conn' = [conn EXCEPT ![t] = 0]
                          /\ Goto(t, "notify")
                          /\ UNCHANGED <<made, open, calls, deaths>>

\* Mutated form of freeConnection: notify only when the queue was empty.
freeConnectionNotifiesIfEmpty(t) ==
  /\ pc[t] \in {"leased", "abort"}
  /\ m_pool' = Append(m_pool, conn[t])
  /\ conn' = [conn EXCEPT ![t] = 0]
  /\ Goto(t, IF m_pool = <<>> THEN "notify" ELSE "idle")
  /\ UNCHANGED <<made, open, calls, deaths>>

\* freeConnection, from ~Lease (after the query, whether it threw or not) or
\* from the catch clause of connection(): push under the mutex, then unlock.
freeConnection(t) == /\ pc[t] \in {"leased", "abort"}
                     /\ m_pool' = Append(m_pool, conn[t])
                     /\ conn' = [conn EXCEPT ![t] = 0]
                     /\ Goto(t, "notify")
                     /\ UNCHANGED <<made, open, calls, deaths>>

\* Mutated form of NotifyOne: the notification is forgotten.
NotifyNobody(t) == /\ pc[t] = "notify"
                   /\ Goto(t, "idle")
                   /\ UNCHANGED <<m_pool, conn, made, open, calls, deaths>>

\* m_condition.notify_one: wakes one waiting thread, if there is one, which
\* then locks the mutex and tests the queue again.
NotifyOne(t) == /\ pc[t] = "notify"
                /\ \/ /\ At("wait") = {}
                      /\ Goto(t, "idle")
                   \/ \E w \in At("wait") :
                         pc' = [pc EXCEPT ![t] = "idle", ![w] = "lock"]
                /\ UNCHANGED <<m_pool, conn, made, open, calls, deaths>>

\* A condition variable may wake a thread for no reason.
SpuriousWakeup(t) == /\ pc[t] = "wait"
                     /\ Goto(t, "lock")
                     /\ UNCHANGED <<m_pool, conn, made, open, calls, deaths>>

\* A connection dies: PostgreSQL restarted or the network broke.
Die(c) == /\ c \in open
          /\ deaths < MaxDeaths
          /\ deaths' = deaths + 1
          /\ open' = open \ {c}
          /\ UNCHANGED <<m_pool, pc, conn, made, calls>>

\* Every thread has made all its calls: nothing is left to do.
Finished == /\ \A t \in Threads : pc[t] = "idle" /\ calls[t] = 0
            /\ UNCHANGED vars

ThreadStep(t) == \/ Wait(t) \/ Pop(t) \/ IsOpen(t) \/ Reconnect(t)
                 \/ ReconnectFails(t) \/ freeConnection(t) \/ NotifyOne(t)

Next == \/ \E t \in Threads : Call(t) \/ ThreadStep(t) \/ SpuriousWakeup(t)
        \/ \E c \in open : Die(c)
        \/ Finished

Spec == Init /\ [][Next]_vars

\* The scheduler runs every runnable thread, the mutex is released after each
\* critical section, and queries end or throw: a thread that can step does.
\* Nothing obliges a connection to die or a wake-up to be spurious.
FairSpec == Spec /\ \A t \in Threads : WF_vars(Call(t)) /\ WF_vars(ThreadStep(t))

-----------------------------------------------------------------------------
TypeOK == /\ m_pool \in Seq(Conn)
          /\ pc \in [Threads -> Places]
          /\ conn \in [Threads -> Nat]
          /\ made \in Nat
          /\ open \in SUBSET Conn
          /\ calls \in [Threads -> 0..MaxCalls]
          /\ deaths \in 0..MaxDeaths

\* No connection is used by two threads at once, or used while it is also in
\* the queue, or queued twice (pqxx connections are not thread-safe): the
\* point of handing connections out through connection() and ~Lease.
NoSharing == /\ \A i, j \in DOMAIN m_pool : m_pool[i] = m_pool[j] => i = j
             /\ \A t, u \in Threads : conn[t] = conn[u] /\ conn[t] # 0 => t = u
             /\ \A t \in Threads : \A i \in DOMAIN m_pool : conn[t] # m_pool[i]

\* "keep the pool size constant" (pgPool.cpp:50): queued and borrowed
\* connections together are always POOL_SIZE, also when a reconnect throws.
SizeConstant == Len(m_pool) + Cardinality({t \in Threads : conn[t] # 0}) = PoolSize

\* No lost wake-up, although notify_one runs after the unlock and other
\* threads may overtake the woken one: while a thread waits, every connection
\* in the queue has a thread on its way to it or a notify_one still to come.
NoLostWakeup == At("wait") # {} =>
                   Len(m_pool) <= Cardinality(At("lock") \cup At("notify"))

\* Every call of connection() ends, with a lease or an exception: with
\* finitely many calls all threads come to rest.
AllServed == <>(\A t \in Threads : pc[t] = "idle" /\ calls[t] = 0)

\* The pool implements the abstract lease pool.
Abstract == INSTANCE LeasePool WITH free <- Range(m_pool), holder <- conn
ImplementsLeasePool == Abstract!Spec

=============================================================================
