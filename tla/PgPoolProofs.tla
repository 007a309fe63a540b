---------------------------- MODULE PgPoolProofs ----------------------------
(* Proofs about PgPool, for every finite set of threads, every pool size and *)
(* every number of calls and deaths.                                         *)
EXTENDS PgPool, FiniteSetTheorems, TLAPS

\* A thread holds a connection exactly while it is between pop and push.
HeldWhere == \A t \in Threads : conn[t] # 0 <=> pc[t] \in Holding

\* Connections are numbered as they are made, so a new one is really new.
Numbered == /\ \A i \in DOMAIN m_pool : m_pool[i] <= made
            /\ \A t \in Threads : conn[t] <= made

Inv == TypeOK /\ HeldWhere /\ Numbered /\ NoSharing

\* The threads that hold a connection, and those that will look at the queue
\* or wake a thread that does.
Holders == {t \in Threads : conn[t] # 0}
Coming == At("lock") \cup At("notify")

-----------------------------------------------------------------------------
(* Sequences and cardinalities                                               *)

\* What pop does to the queue.
LEMMA TailFacts ==
  ASSUME NEW S, NEW s \in Seq(S), s # <<>>
  PROVE  /\ Head(s) \in S
         /\ Head(s) = s[1]
         /\ 1 \in DOMAIN s
         /\ Tail(s) \in Seq(S)
         /\ Len(Tail(s)) = Len(s) - 1
         /\ DOMAIN Tail(s) = 1..(Len(s) - 1)
         /\ \A i \in DOMAIN Tail(s) : i + 1 \in DOMAIN s /\ Tail(s)[i] = s[i + 1]
  OBVIOUS

\* What push does to the queue.
LEMMA AppendFacts ==
  ASSUME NEW S, NEW s \in Seq(S), NEW e \in S
  PROVE  /\ Append(s, e) \in Seq(S)
         /\ Len(Append(s, e)) = Len(s) + 1
         /\ DOMAIN Append(s, e) = 1..(Len(s) + 1)
         /\ \A i \in DOMAIN s : i \in DOMAIN Append(s, e) /\ Append(s, e)[i] = s[i]
         /\ Append(s, e)[Len(s) + 1] = e
         /\ DOMAIN s = 1..Len(s)
         /\ Len(s) \in Nat
  OBVIOUS

-----------------------------------------------------------------------------
(* Types, places and exclusiveness                                           *)

\* The pool starts with POOL_SIZE distinct connections and nobody holds one.
LEMMA InitInv == Init => Inv
<1> SUFFICES ASSUME Init PROVE Inv
  OBVIOUS
<1> USE PgPoolAssumption
<1>1. TypeOK
  BY DEF Init, createPool, TypeOK, Conn, Places, Holding
<1>2. HeldWhere
  BY DEF Init, HeldWhere, Holding
<1>3. Numbered
  BY DEF Init, createPool, Numbered
<1>4. NoSharing
  BY DEF Init, createPool, NoSharing
<1> QED
  BY <1>1, <1>2, <1>3, <1>4 DEF Inv

\* Every step of a thread or of the environment keeps the exclusive invariant.
LEMMA NextInv == Inv /\ [Next]_vars => Inv'
<1> SUFFICES ASSUME Inv, [Next]_vars PROVE Inv'
  OBVIOUS
<1> USE PgPoolAssumption
<1>1. ASSUME NEW t \in Threads, Call(t) PROVE Inv'
  BY <1>1 DEF Inv, TypeOK, HeldWhere, Numbered, NoSharing, Call, Goto, Places, Holding
<1>2. ASSUME NEW t \in Threads, Wait(t) PROVE Inv'
  BY <1>2 DEF Inv, TypeOK, HeldWhere, Numbered, NoSharing, Wait, Goto, Places, Holding
<1>3. ASSUME NEW t \in Threads, Pop(t) PROVE Inv'
  <2>1. /\ Head(m_pool) \in Conn
        /\ Head(m_pool) = m_pool[1]
        /\ 1 \in DOMAIN m_pool
        /\ Tail(m_pool) \in Seq(Conn)
        /\ DOMAIN Tail(m_pool) = 1..(Len(m_pool) - 1)
        /\ \A i \in DOMAIN Tail(m_pool) :
              i + 1 \in DOMAIN m_pool /\ Tail(m_pool)[i] = m_pool[i + 1]
    BY <1>3, TailFacts DEF Inv, TypeOK, Pop
  <2>2. TypeOK'
    BY <1>3, <2>1 DEF Inv, TypeOK, Pop, Goto, Places, Holding, Conn
  <2>3. HeldWhere'
    BY <1>3, <2>1 DEF Inv, TypeOK, HeldWhere, Pop, Goto, Holding, Conn
  <2>4. Numbered'
    BY <1>3, <2>1 DEF Inv, TypeOK, Numbered, Pop
  <2>5. NoSharing'
    <3>1. \A i, j \in DOMAIN m_pool' : m_pool'[i] = m_pool'[j] => i = j
      BY <1>3, <2>1 DEF Inv, TypeOK, NoSharing, Pop
    <3>2. \A u \in Threads : \A i \in DOMAIN m_pool' : conn'[u] # m_pool'[i]
      BY <1>3, <2>1 DEF Inv, TypeOK, NoSharing, Pop
    <3>3. \A u, v \in Threads : conn'[u] = conn'[v] /\ conn'[u] # 0 => u = v
      BY <1>3, <2>1 DEF Inv, TypeOK, NoSharing, Pop
    <3> QED
      BY <3>1, <3>2, <3>3 DEF NoSharing
  <2> QED
    BY <2>2, <2>3, <2>4, <2>5 DEF Inv
<1>4. ASSUME NEW t \in Threads, IsOpen(t) PROVE Inv'
  BY <1>4 DEF Inv, TypeOK, HeldWhere, Numbered, NoSharing, IsOpen, Goto, Places, Holding
<1>5. ASSUME NEW t \in Threads, Reconnect(t) PROVE Inv'
  <2>1. TypeOK'
    BY <1>5 DEF Inv, TypeOK, Reconnect, Goto, Places, Holding, Conn
  <2>2. HeldWhere'
    BY <1>5 DEF Inv, TypeOK, HeldWhere, Reconnect, Goto, Holding
  <2>3. Numbered'
    BY <1>5 DEF Inv, TypeOK, Numbered, Reconnect, Conn
  <2>4. NoSharing'
    BY <1>5 DEF Inv, TypeOK, Numbered, NoSharing, Reconnect, Conn
  <2> QED
    BY <2>1, <2>2, <2>3, <2>4 DEF Inv
<1>6. ASSUME NEW t \in Threads, ReconnectFails(t) PROVE Inv'
  BY <1>6 DEF Inv, TypeOK, HeldWhere, Numbered, NoSharing, ReconnectFails, Goto, Places, Holding
<1>7. ASSUME NEW t \in Threads, freeConnection(t) PROVE Inv'
  <2>1. conn[t] \in Conn
    BY <1>7 DEF Inv, TypeOK, HeldWhere, freeConnection, Holding, Conn
  <2>2. /\ m_pool' \in Seq(Conn)
        /\ DOMAIN m_pool' = 1..(Len(m_pool) + 1)
        /\ \A i \in DOMAIN m_pool : m_pool'[i] = m_pool[i]
        /\ m_pool'[Len(m_pool) + 1] = conn[t]
        /\ DOMAIN m_pool = 1..Len(m_pool)
        /\ Len(m_pool) \in Nat
    BY <1>7, <2>1, AppendFacts DEF Inv, TypeOK, freeConnection
  <2>3. TypeOK'
    BY <1>7, <2>2 DEF Inv, TypeOK, freeConnection, Goto, Places, Holding
  <2>4. HeldWhere'
    BY <1>7 DEF Inv, TypeOK, HeldWhere, freeConnection, Goto, Holding
  <2>5. Numbered'
    BY <1>7, <2>2 DEF Inv, TypeOK, Numbered, freeConnection
  <2>6. NoSharing'
    <3>1. \A i, j \in DOMAIN m_pool' : m_pool'[i] = m_pool'[j] => i = j
      BY <1>7, <2>2 DEF Inv, TypeOK, NoSharing, freeConnection
    <3>2. \A u \in Threads : \A i \in DOMAIN m_pool' : conn'[u] # m_pool'[i]
      BY <1>7, <2>1, <2>2 DEF Inv, TypeOK, NoSharing, freeConnection, Conn
    <3>3. \A u, v \in Threads : conn'[u] = conn'[v] /\ conn'[u] # 0 => u = v
      BY <1>7 DEF Inv, TypeOK, NoSharing, freeConnection
    <3> QED
      BY <3>1, <3>2, <3>3 DEF NoSharing
  <2> QED
    BY <2>3, <2>4, <2>5, <2>6 DEF Inv
<1>8. ASSUME NEW t \in Threads, NotifyOne(t) PROVE Inv'
  <2>1. TypeOK'
    BY <1>8 DEF Inv, TypeOK, NotifyOne, Goto, Places, At
  <2>2. HeldWhere'
    BY <1>8 DEF Inv, TypeOK, HeldWhere, NotifyOne, Goto, Holding, At
  <2> QED
    BY <1>8, <2>1, <2>2 DEF Inv, Numbered, NoSharing, NotifyOne
<1>9. ASSUME NEW t \in Threads, SpuriousWakeup(t) PROVE Inv'
  BY <1>9 DEF Inv, TypeOK, HeldWhere, Numbered, NoSharing, SpuriousWakeup, Goto, Places, Holding
<1>10. ASSUME NEW c \in open, Die(c) PROVE Inv'
  BY <1>10 DEF Inv, TypeOK, HeldWhere, Numbered, NoSharing, Die
<1>11. CASE UNCHANGED vars
  BY <1>11 DEF Inv, TypeOK, HeldWhere, Numbered, NoSharing, vars
<1> QED
  BY <1>1, <1>2, <1>3, <1>4, <1>5, <1>6, <1>7, <1>8, <1>9, <1>10, <1>11
     DEF Next, ThreadStep, Finished

\* The invariant holds in every reachable state.
THEOREM InvHolds == Spec => []Inv
BY InitInv, NextInv, PTL DEF Spec

\* The queue, the leases and the waiting threads keep their types.
THEOREM TypeOKHolds == Spec => []TypeOK
<1>1. Inv => TypeOK
  BY DEF Inv
<1> QED
  BY <1>1, InvHolds, PTL

\* PGPool never hands one connection to two threads, and never queues one that
\* is borrowed: NoSharing is an invariant for any number of threads.
THEOREM NoSharingHolds == Spec => [](TypeOK /\ NoSharing)
<1>1. Inv => TypeOK /\ NoSharing
  BY DEF Inv
<1> QED
  BY <1>1, InvHolds, PTL

-----------------------------------------------------------------------------
(* The size of the pool                                                      *)

\* Adding and removing one thread changes a cardinality by one.
LEMMA CountThreads ==
  ASSUME NEW S \in SUBSET Threads, NEW t \in Threads
  PROVE  /\ Cardinality(S) \in Nat
         /\ t \notin S => Cardinality(S \cup {t}) = Cardinality(S) + 1
         /\ t \in S => Cardinality(S \ {t}) = Cardinality(S) - 1
<1>1. IsFiniteSet(S)
  BY FS_Subset, PgPoolAssumption
<1> QED
  BY <1>1, FS_CardinalityType, FS_AddElement, FS_RemoveElement

\* At the start the whole pool is in the queue.
LEMMA InitSize == Init => SizeConstant
<1> SUFFICES ASSUME Init PROVE SizeConstant
  OBVIOUS
<1>1. {t \in Threads : conn[t] # 0} = {}
  BY DEF Init
<1>2. Len(m_pool) = PoolSize
  BY PgPoolAssumption DEF Init, createPool
<1> QED
  BY <1>1, <1>2, FS_EmptySet, PgPoolAssumption DEF SizeConstant

\* A pop moves one connection from the queue to a thread, a push moves it
\* back, a reconnect exchanges it; nothing else touches either side.
LEMMA NextSize == Inv /\ SizeConstant /\ [Next]_vars => SizeConstant'
<1> SUFFICES ASSUME Inv, SizeConstant, [Next]_vars PROVE SizeConstant'
  OBVIOUS
<1> USE PgPoolAssumption
<1>0. Len(m_pool) + Cardinality(Holders) = PoolSize
  BY DEF SizeConstant, Holders
<1>1. ASSUME NEW t \in Threads, Pop(t) PROVE SizeConstant'
  <2>1. Len(m_pool') = Len(m_pool) - 1 /\ Head(m_pool) # 0
    BY <1>1, TailFacts DEF Inv, TypeOK, Pop, Conn
  <2>2. t \notin Holders
    BY <1>1 DEF Holders, Inv, HeldWhere, Holding, Pop
  <2>3. Holders' = Holders \cup {t}
    BY <1>1, <2>1 DEF Holders, Inv, TypeOK, Pop
  <2>4. Cardinality(Holders') = Cardinality(Holders) + 1 /\ Cardinality(Holders) \in Nat
    BY <2>2, <2>3, CountThreads DEF Holders
  <2>5. Len(m_pool) \in Nat
    BY DEF Inv, TypeOK
  <2> QED
    BY <1>0, <2>1, <2>4, <2>5 DEF SizeConstant, Holders
<1>2. ASSUME NEW t \in Threads, freeConnection(t) PROVE SizeConstant'
  <2>1. t \in Holders
    BY <1>2 DEF Holders, Inv, HeldWhere, Holding, freeConnection
  <2>2. Holders' = Holders \ {t}
    BY <1>2 DEF Holders, Inv, TypeOK, freeConnection
  <2>3. Len(m_pool') = Len(m_pool) + 1 /\ Len(m_pool) \in Nat
    BY <1>2 DEF Inv, TypeOK, freeConnection
  <2>4. Cardinality(Holders') = Cardinality(Holders) - 1 /\ Cardinality(Holders) \in Nat
    BY <2>1, <2>2, CountThreads DEF Holders
  <2> QED
    BY <1>0, <2>3, <2>4 DEF SizeConstant, Holders
<1>3. ASSUME NEW t \in Threads, Reconnect(t) PROVE SizeConstant'
  <2>1. t \in Holders
    BY <1>3 DEF Holders, Inv, HeldWhere, Holding, Reconnect
  <2>2. Holders' = Holders
    BY <1>3, <2>1 DEF Holders, Inv, TypeOK, Reconnect
  <2> QED
    BY <1>0, <1>3, <2>2 DEF SizeConstant, Holders, Reconnect
<1>4. CASE UNCHANGED <<m_pool, conn>>
  BY <1>4 DEF SizeConstant
<1>5. ASSUME NEW t \in Threads,
             Call(t) \/ Wait(t) \/ IsOpen(t) \/ ReconnectFails(t) \/ NotifyOne(t) \/ SpuriousWakeup(t)
      PROVE  UNCHANGED <<m_pool, conn>>
  BY <1>5 DEF Call, Wait, IsOpen, ReconnectFails, NotifyOne, SpuriousWakeup
<1>6. ASSUME NEW c \in open, Die(c) PROVE UNCHANGED <<m_pool, conn>>
  BY <1>6 DEF Die
<1>7. UNCHANGED vars => UNCHANGED <<m_pool, conn>>
  BY DEF vars
<1> QED
  BY <1>1, <1>2, <1>3, <1>4, <1>5, <1>6, <1>7 DEF Next, ThreadStep, Finished

\* The pool never loses or gains a connection, whatever dies and whether or not
\* a reconnect throws: the claim of the comment in connection()'s catch clause.
THEOREM SizeConstantHolds == Spec => []SizeConstant
BY InvHolds, InitSize, NextSize, PTL DEF Spec

-----------------------------------------------------------------------------
(* No lost wake-up                                                           *)

\* Nobody waits at the start.
LEMMA InitWakeup == Init => NoLostWakeup
BY DEF Init, NoLostWakeup, At

\* A push brings its own notify_one, a notification turns into a woken thread,
\* a woken thread leaves only with a connection or when the queue is empty.
LEMMA NextWakeup == Inv /\ NoLostWakeup /\ [Next]_vars => NoLostWakeup'
<1> SUFFICES ASSUME Inv, NoLostWakeup, [Next]_vars, At("wait")' # {}
             PROVE  Len(m_pool') <= Cardinality(Coming')
  BY DEF NoLostWakeup, Coming
<1> USE PgPoolAssumption
<1>0. /\ At("wait") # {} => Len(m_pool) <= Cardinality(Coming)
      /\ Len(m_pool) \in Nat
      /\ Coming \in SUBSET Threads
      /\ Coming' \in SUBSET Threads
  BY DEF NoLostWakeup, Inv, TypeOK, Coming, At
<1>00. Cardinality(Coming) \in Nat /\ Cardinality(Coming') \in Nat
  BY <1>0, FS_Subset, FS_CardinalityType
<1>1. ASSUME NEW t \in Threads, Call(t) PROVE Len(m_pool') <= Cardinality(Coming')
  <2>1. t \notin Coming /\ Coming' = Coming \cup {t} /\ At("wait")' = At("wait")
    BY <1>1 DEF Call, Goto, Coming, At, Inv, TypeOK
  <2> QED
    BY <1>0, <1>00, <1>1, <2>1, CountThreads DEF Call
<1>2. ASSUME NEW t \in Threads, Wait(t) PROVE Len(m_pool') <= Cardinality(Coming')
  BY <1>2, <1>00 DEF Wait
<1>3. ASSUME NEW t \in Threads, Pop(t) PROVE Len(m_pool') <= Cardinality(Coming')
  <2>1. t \in Coming /\ Coming' = Coming \ {t} /\ At("wait")' = At("wait")
    BY <1>3 DEF Pop, Goto, Coming, At, Inv, TypeOK
  <2>2. Len(m_pool') = Len(m_pool) - 1
    BY <1>3, TailFacts DEF Pop, Inv, TypeOK
  <2> QED
    BY <1>0, <1>00, <2>1, <2>2, CountThreads
<1>4. ASSUME NEW t \in Threads, freeConnection(t) PROVE Len(m_pool') <= Cardinality(Coming')
  <2>1. t \notin Coming /\ Coming' = Coming \cup {t} /\ At("wait")' = At("wait")
    BY <1>4 DEF freeConnection, Goto, Coming, At, Inv, TypeOK
  <2>2. Len(m_pool') = Len(m_pool) + 1
    BY <1>4 DEF freeConnection, Inv, TypeOK
  <2> QED
    BY <1>0, <1>00, <2>1, <2>2, CountThreads
<1>5. ASSUME NEW t \in Threads, NotifyOne(t) PROVE Len(m_pool') <= Cardinality(Coming')
  <2>1. CASE At("wait") = {} /\ Goto(t, "idle")
    <3>1. At("wait")' = {}
      BY <2>1 DEF Goto, At, Inv, TypeOK
    <3> QED
      BY <3>1
  <2>2. ASSUME NEW w \in At("wait"), pc' = [pc EXCEPT ![t] = "idle", ![w] = "lock"]
        PROVE  Len(m_pool') <= Cardinality(Coming')
    <3>1. t \in Coming /\ w \notin Coming /\ w \in Threads /\ w # t
      BY <1>5, <2>2 DEF NotifyOne, Coming, At
    <3>2. Coming' = (Coming \ {t}) \cup {w}
      BY <1>5, <2>2, <3>1 DEF NotifyOne, Coming, At, Inv, TypeOK
    <3>3. Cardinality(Coming \ {t}) = Cardinality(Coming) - 1
      BY <1>0, <3>1, CountThreads
    <3>4. Cardinality(Coming') = Cardinality(Coming \ {t}) + 1
      BY <1>0, <3>1, <3>2, CountThreads
    <3>5. At("wait") # {} /\ m_pool' = m_pool
      BY <1>5, <2>2 DEF NotifyOne
    <3> QED
      BY <1>0, <1>00, <3>3, <3>4, <3>5
  <2> QED
    BY <1>5, <2>1, <2>2 DEF NotifyOne
<1>6. ASSUME NEW t \in Threads, SpuriousWakeup(t) PROVE Len(m_pool') <= Cardinality(Coming')
  <2>1. t \in At("wait") /\ t \notin Coming /\ Coming' = Coming \cup {t}
    BY <1>6 DEF SpuriousWakeup, Goto, Coming, At, Inv, TypeOK
  <2> QED
    BY <1>0, <1>00, <1>6, <2>1, CountThreads DEF SpuriousWakeup
<1>7. ASSUME NEW t \in Threads, IsOpen(t) \/ Reconnect(t) \/ ReconnectFails(t)
      PROVE  Len(m_pool') <= Cardinality(Coming')
  <2>1. Coming' = Coming /\ At("wait")' = At("wait") /\ m_pool' = m_pool
    BY <1>7 DEF IsOpen, Reconnect, ReconnectFails, Goto, Coming, At, Inv, TypeOK
  <2> QED
    BY <1>0, <2>1
<1>8. CASE UNCHANGED <<m_pool, pc>>
  BY <1>0, <1>8 DEF Coming, At
<1>9. ASSUME NEW c \in open, Die(c) PROVE UNCHANGED <<m_pool, pc>>
  BY <1>9 DEF Die
<1>10. UNCHANGED vars => UNCHANGED <<m_pool, pc>>
  BY DEF vars
<1> QED
  BY <1>1, <1>2, <1>3, <1>4, <1>5, <1>6, <1>7, <1>8, <1>9, <1>10 DEF Next, ThreadStep, Finished

\* notify_one after the unlock is enough: no thread sleeps in connection()
\* beside a connection that nobody is on the way to.
THEOREM NoLostWakeupHolds == Spec => []NoLostWakeup
BY InvHolds, InitWakeup, NextWakeup, PTL DEF Spec

\* The safety half of AllServed: while a thread is blocked in m_condition.wait some
\* thread holds a connection, is about to look at the queue or is about to notify.
SomebodyRuns == At("wait") # {} => \E t \in Threads : pc[t] \in Holding \cup {"lock", "notify"}

\* The threads never all wait for one another.  Were everybody else idle, the pool
\* would be full (SizeConstant), and a full pool beside a waiting thread has a
\* thread on its way to it (NoLostWakeup).
THEOREM SomebodyRunsHolds == Spec => []SomebodyRuns
<1>1. ASSUME Inv, SizeConstant, NoLostWakeup, At("wait") # {},
             \A t \in Threads : pc[t] \notin Holding \cup {"lock", "notify"}
      PROVE  FALSE
  <2>1. {t \in Threads : conn[t] # 0} = {}
    BY <1>1 DEF Inv, HeldWhere
  <2>2. At("lock") \cup At("notify") = {}
    BY <1>1 DEF At
  <2>3. Cardinality({}) = 0
    BY FS_EmptySet
  <2>4. Len(m_pool) + 0 = PoolSize /\ Len(m_pool) <= 0
    BY <1>1, <2>1, <2>2, <2>3 DEF SizeConstant, NoLostWakeup
  <2>5. Len(m_pool) \in Nat /\ PoolSize \in Nat \ {0}
    BY <1>1, PgPoolAssumption DEF Inv, TypeOK
  <2> QED
    BY <2>4, <2>5
<1>2. Inv /\ SizeConstant /\ NoLostWakeup => SomebodyRuns
  BY <1>1 DEF SomebodyRuns
<1> QED
  BY <1>2, InvHolds, SizeConstantHolds, NoLostWakeupHolds, PTL

-----------------------------------------------------------------------------
(* PgPool implements LeasePool                                               *)

\* The queue as a set, before and after a step.
LEMMA RangeFacts ==
  ASSUME NEW s
  PROVE  \A x : x \in Range(s) <=> \E i \in DOMAIN s : x = s[i]
BY DEF Range

\* The initial pool is the set 1..POOL_SIZE of free connections.
LEMMA InitImplements == Init => Abstract!Init
<1> SUFFICES ASSUME Init PROVE Abstract!Init
  OBVIOUS
<1>1. Range(m_pool) = 1..PoolSize
  BY PgPoolAssumption DEF Init, createPool, Range
<1> QED
  BY <1>1 DEF Init, Abstract!Init

\* pop is Take, push is Give, a reconnect is Swap; the rest is stuttering.
LEMMA NextImplements == Inv /\ [Next]_vars => [Abstract!Next]_(Abstract!vars)
<1> SUFFICES ASSUME Inv, [Next]_vars PROVE [Abstract!Next]_(Abstract!vars)
  OBVIOUS
<1>1. ASSUME NEW t \in Threads, Pop(t) PROVE Abstract!Take(t)
  <2>1. /\ Head(m_pool) \in Range(m_pool)
        /\ Range(Tail(m_pool)) = Range(m_pool) \ {Head(m_pool)}
    <3>1. /\ Head(m_pool) = m_pool[1]
          /\ DOMAIN m_pool = 1..Len(m_pool) /\ Len(m_pool) \in Nat \ {0}
          /\ DOMAIN Tail(m_pool) = 1..(Len(m_pool) - 1)
          /\ \A i \in DOMAIN Tail(m_pool) : Tail(m_pool)[i] = m_pool[i + 1]
      BY <1>1, TailFacts DEF Inv, TypeOK, Pop
    <3>2. \A i, j \in DOMAIN m_pool : m_pool[i] = m_pool[j] => i = j
      BY DEF Inv, NoSharing
    <3>3. ASSUME NEW x \in Range(m_pool), x # Head(m_pool) PROVE x \in Range(Tail(m_pool))
      <4>1. PICK i \in 1..Len(m_pool) : x = m_pool[i]
        BY <3>1, <3>3, RangeFacts
      <4>2. i - 1 \in DOMAIN Tail(m_pool) /\ Tail(m_pool)[i - 1] = x
        BY <3>1, <3>3, <4>1
      <4> QED
        BY <4>2, RangeFacts
    <3>4. ASSUME NEW x \in Range(Tail(m_pool)) PROVE x \in Range(m_pool) /\ x # Head(m_pool)
      <4>1. PICK i \in DOMAIN Tail(m_pool) : x = Tail(m_pool)[i]
        BY <3>4, RangeFacts
      <4>2. /\ x = m_pool[i + 1]
            /\ i + 1 \in DOMAIN m_pool /\ 1 \in DOMAIN m_pool /\ i + 1 # 1
        BY <3>1, <4>1
      <4> QED
        BY <3>1, <3>2, <4>1, <4>2, RangeFacts
    <3> QED
      BY <3>1, <3>3, <3>4, RangeFacts
  <2>2. conn[t] = 0
    BY <1>1 DEF Inv, HeldWhere, Holding, Pop
  <2> QED
    BY <1>1, <2>1, <2>2 DEF Pop, Abstract!Take
<1>2. ASSUME NEW t \in Threads, freeConnection(t) PROVE Abstract!Give(t)
  <2>1. conn[t] \in Conn
    BY <1>2 DEF Inv, TypeOK, HeldWhere, freeConnection, Holding, Conn
  <2>2. /\ DOMAIN m_pool' = 1..(Len(m_pool) + 1)
        /\ \A i \in DOMAIN m_pool : m_pool'[i] = m_pool[i]
        /\ m_pool'[Len(m_pool) + 1] = conn[t]
        /\ DOMAIN m_pool = 1..Len(m_pool)
        /\ Len(m_pool) \in Nat
    BY <1>2, <2>1, AppendFacts DEF Inv, TypeOK, freeConnection
  <2>3. Range(m_pool') = Range(m_pool) \cup {conn[t]}
    BY <2>2, RangeFacts DEF Range
  <2> QED
    BY <1>2, <2>1, <2>3 DEF freeConnection, Abstract!Give, Conn
<1>3. ASSUME NEW t \in Threads, Reconnect(t) PROVE Abstract!Swap(t)
  <2>1. conn[t] # 0
    BY <1>3 DEF Inv, HeldWhere, Holding, Reconnect
  <2>2. conn'[t] = made + 1 /\ made \in Nat /\ conn' = [conn EXCEPT ![t] = conn'[t]]
    BY <1>3 DEF Inv, TypeOK, Reconnect
  <2>3. \A u \in Threads : conn[u] # made + 1
    BY <2>2 DEF Inv, TypeOK, Numbered
  <2>4. made + 1 \notin Range(m_pool)
    BY <2>2, RangeFacts DEF Inv, TypeOK, Numbered, Conn
  <2>5. Range(m_pool)' = Range(m_pool)
    BY <1>3 DEF Reconnect
  <2> QED
    BY <2>1, <2>2, <2>3, <2>4, <2>5 DEF Abstract!Swap, Abstract!Conn
<1>4. ASSUME NEW t \in Threads,
             Call(t) \/ Wait(t) \/ IsOpen(t) \/ ReconnectFails(t) \/ NotifyOne(t) \/ SpuriousWakeup(t)
      PROVE  UNCHANGED <<m_pool, conn>>
  BY <1>4 DEF Call, Wait, IsOpen, ReconnectFails, NotifyOne, SpuriousWakeup
<1>5. ASSUME NEW c \in open, Die(c) PROVE UNCHANGED <<m_pool, conn>>
  BY <1>5 DEF Die
<1>6. UNCHANGED vars => UNCHANGED <<m_pool, conn>>
  BY DEF vars
<1>7. UNCHANGED <<m_pool, conn>> => UNCHANGED Abstract!vars
  BY DEF Abstract!vars
<1> QED
  BY <1>1, <1>2, <1>3, <1>4, <1>5, <1>6, <1>7 DEF Next, ThreadStep, Finished, Abstract!Next

\* PGPool implements the abstract lease pool: a fixed stock of connections,
\* each free or in the hands of one thread, for every size and thread count.
THEOREM Implements == Spec => ImplementsLeasePool
BY InvHolds, InitImplements, NextImplements, PTL DEF Spec, Abstract!Spec, ImplementsLeasePool
=============================================================================
