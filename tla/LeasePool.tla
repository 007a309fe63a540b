------------------------------ MODULE LeasePool ------------------------------
(* What a connection pool promises to the threads of the server: a fixed     *)
(* number of connections, each of them either free or in the hands of one    *)
(* thread.  A connection that died may be exchanged for a new one while it   *)
(* is held.  PgPool implements this specification.                           *)
EXTENDS Naturals

CONSTANTS Threads,     \* the worker threads that borrow connections
          PoolSize     \* how many connections the pool is created with

\* Connections are numbered from 1; 0 stands for "no connection".
Conn == Nat \ {0}

VARIABLES free,        \* the connections nobody holds
          holder       \* holder[t]: the connection thread t holds, or 0

vars == <<free, holder>>

Init == /\ free = 1..PoolSize
        /\ holder = [t \in Threads |-> 0]

\* A thread without a connection gets a free one, to itself.
Take(t) == /\ holder[t] = 0
           /\ \E c \in free : /\ free' = free \ {c}
                              /\ holder' = [holder EXCEPT ![t] = c]

\* The connection a thread holds is replaced by one that nobody had.
Swap(t) == /\ holder[t] # 0
           /\ holder'[t] \in Conn \ free
           /\ \A u \in Threads : holder[u] # holder'[t]
           /\ holder' = [holder EXCEPT ![t] = holder'[t]]
           /\ UNCHANGED free

\* The connection goes back to the pool.
Give(t) == /\ holder[t] # 0
           /\ free' = free \cup {holder[t]}
           /\ holder' = [holder EXCEPT ![t] = 0]

Next == \E t \in Threads : Take(t) \/ Swap(t) \/ Give(t)

Spec == Init /\ [][Next]_vars
=============================================================================
