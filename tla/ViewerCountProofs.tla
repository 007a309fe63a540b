-------------------------- MODULE ViewerCountProofs --------------------------
(* Proofs about ViewerCount, for any number of viewers, nodes and endings.   *)
EXTENDS ViewerCount, FiniteSetTheorems, TLAPS

\* Where a connection is registered, if no stream of the channel has ended yet,
\* and where it is between its INCR and its first DECR.
RegisteredAt == {"added", "counted", "greeting", "ready"}
CountedAt == {"counted", "greeting", "ready", "remove", "decr"}

Resetting == {v \in Viewers : pc[v] = "reset"}
Counted == {v \in Viewers \ repeated : pc[v] \in CountedAt}
NoEndYet == \A e \in Endings : epc[e] = "live"

\* Only a callback that has ended can run again, so whoever's did is never back
\* among the viewers that are there.
RepeatedLate == \A v \in repeated : pc[v] \in Leaving \cup {"gone"}

\* Before the first ending the key never exceeds the viewers between INCR and
\* first DECR, and a connection is registered from Add to Remove; as long as no
\* callback has run again the key is exact and no callback repairs it.
CountedBeforeEnd ==
  NoEndYet => /\ redis <= Cardinality(Counted)
              /\ repeated = {} => redis = Cardinality(Counted) /\ Resetting = {}
              /\ \A v \in Viewers : pc[v] \in RegisteredAt => v \in viewers_[NodeOf[v]]

Inv == TypeOK /\ LeftStaysOut /\ RepeatedLate

-----------------------------------------------------------------------------
\* Adding and removing one viewer changes a cardinality by one.
LEMMA CountViewers ==
  ASSUME NEW S \in SUBSET Viewers
  PROVE  /\ Cardinality(S) \in Nat
         /\ \A v \in Viewers \ S : Cardinality(S \cup {v}) = Cardinality(S) + 1
         /\ \A v \in S : Cardinality(S \ {v}) = Cardinality(S) - 1
<1>1. IsFiniteSet(S)
  BY FS_Subset, ViewerCountAssumption
<1> QED
  BY <1>1, FS_CardinalityType, FS_AddElement, FS_RemoveElement

-----------------------------------------------------------------------------
(* Types and membership of the registry                                      *)

\* Nobody is registered at the start.
LEMMA InitInv == Init => Inv
BY ViewerCountAssumption
   DEF Init, Inv, TypeOK, LeftStaysOut, RepeatedLate, historyVars, Joining, Leaving, Resting, EndPlaces

\* The steps of a viewer keep types and registry membership.
LEMMA ViewerInv ==
  ASSUME Inv, NEW v \in Viewers,
         \/ Upgrade(v) \/ Reject(v) \/ Add(v) \/ Incr(v) \/ Snapshot(v) \/ Tell(v)
         \/ Told(v) \/ OnClose(v) \/ Vanish(v) \/ Remove(v) \/ Decr(v) \/ Reset(v)
  PROVE  Inv'
<1> USE ViewerCountAssumption
    DEF Inv, TypeOK, LeftStaysOut, RepeatedLate, Goto, unchangedEndings, historyVars,
        Joining, Leaving, Resting
<1>1. CASE Upgrade(v)
  BY <1>1 DEF Upgrade
<1>2. CASE Reject(v)
  BY <1>2 DEF Reject
<1>3. CASE Add(v)
  BY <1>3 DEF Add
<1>4. CASE Incr(v)
  BY <1>4 DEF Incr
<1>5. CASE Snapshot(v)
  BY <1>5 DEF Snapshot
<1>6. CASE Tell(v)
  BY <1>6 DEF Tell
<1>7. CASE Told(v)
  BY <1>7 DEF Told
<1>8. CASE OnClose(v)
  BY <1>8 DEF OnClose
<1>9. CASE Vanish(v)
  BY <1>9 DEF Vanish
<1>10. CASE Remove(v)
  BY <1>10 DEF Remove
<1>11. CASE Decr(v)
  BY <1>11 DEF Decr
<1>12. CASE Reset(v)
  BY <1>12 DEF Reset
<1> QED
  BY <1>1, <1>2, <1>3, <1>4, <1>5, <1>6, <1>7, <1>8, <1>9, <1>10, <1>11, <1>12

\* So do the steps of CleanupStream, which only take registrations away.
LEMMA EndingInv ==
  ASSUME Inv, NEW e \in Endings,
         CloseAll(e) \/ CloseOne(e) \/ AllClosed(e) \/ Zero(e)
  PROVE  Inv'
<1> USE ViewerCountAssumption DEF Inv, TypeOK, LeftStaysOut, RepeatedLate, historyVars, EndPlaces
<1>1. CASE CloseAll(e)
  <2>1. Registered \in SUBSET Viewers
    BY DEF Registered
  <2> QED
    BY <1>1, <2>1 DEF CloseAll
<1>2. CASE CloseOne(e)
  BY <1>2 DEF CloseOne
<1>3. CASE AllClosed(e)
  BY <1>3 DEF AllClosed
<1>4. CASE Zero(e)
  BY <1>4 DEF Zero
<1> QED
  BY <1>1, <1>2, <1>3, <1>4

\* Every step keeps types and registry membership.
LEMMA NextInv == Inv /\ [Next]_vars => Inv'
<1> SUFFICES ASSUME Inv, [Next]_vars PROVE Inv'
  OBVIOUS
<1>1. CASE UNCHANGED vars
  BY <1>1 DEF Inv, TypeOK, LeftStaysOut, RepeatedLate, vars, historyVars
<1> QED
  BY <1>1, ViewerInv, EndingInv DEF Next, Idle

\* Registries, count and viewers keep their types.
THEOREM TypeOKHolds == Spec => []TypeOK
<1>1. Inv => TypeOK
  BY DEF Inv
<1> QED
  BY <1>1, InitInv, NextInv, PTL DEF Spec

\* Whatever the order of threads, a viewer that left is never registered again.
THEOREM LeftStaysOutHolds == Spec => [](TypeOK /\ LeftStaysOut)
<1>1. Inv => TypeOK /\ LeftStaysOut
  BY DEF Inv
<1> QED
  BY <1>1, InitInv, NextInv, PTL DEF Spec

-----------------------------------------------------------------------------
(* A negative count is always about to be repaired                           *)

\* At the start the key is 0 and no callback is resetting it.
LEMMA InitDebt == Init => DebtCovered
<1> SUFFICES ASSUME Init PROVE DebtCovered
  OBVIOUS
<1>1. {v \in Viewers : pc[v] = "reset"} = {}
  BY DEF Init
<1>2. redis = 0 /\ Cardinality({v \in Viewers : pc[v] = "reset"}) = 0
  BY <1>1, FS_EmptySet DEF Init
<1> QED
  BY <1>2 DEF DebtCovered

\* DECR below zero adds a callback that resets; a reset or CleanupStream makes
\* the key 0; INCR only raises it.
LEMMA NextDebt == Inv /\ DebtCovered /\ [Next]_vars => DebtCovered'
<1> SUFFICES ASSUME Inv, DebtCovered, [Next]_vars
             PROVE  redis' + Cardinality(Resetting') >= 0
  BY DEF DebtCovered, Resetting
<1>0. /\ redis + Cardinality(Resetting) >= 0 /\ redis \in Int
      /\ Resetting \in SUBSET Viewers /\ Resetting' \in SUBSET Viewers
  BY DEF DebtCovered, Resetting, Inv, TypeOK
<1>00. Cardinality(Resetting) \in Nat /\ Cardinality(Resetting') \in Nat
  BY <1>0, CountViewers
<1>1. CASE redis' \in Int /\ redis' >= 0
  BY <1>00, <1>1
<1>2. CASE redis' = redis /\ Resetting' = Resetting
  BY <1>0, <1>2
<1>3. ASSUME NEW v \in Viewers,
             \/ Upgrade(v) \/ Reject(v) \/ Add(v) \/ Snapshot(v) \/ Tell(v)
             \/ Told(v) \/ OnClose(v) \/ Vanish(v) \/ Remove(v)
      PROVE  redis' = redis /\ Resetting' = Resetting
  BY <1>3 DEF Upgrade, Reject, Add, Snapshot, Tell, Told, OnClose, Vanish, Remove,
              Goto, Resetting, Inv, TypeOK
<1>4. ASSUME NEW v \in Viewers, Incr(v) PROVE redis' + Cardinality(Resetting') >= 0
  <2>1. Resetting' = Resetting /\ redis' = redis + 1
    BY <1>4 DEF Incr, Goto, Resetting, Inv, TypeOK
  <2> QED
    BY <1>0, <1>00, <2>1
<1>5. ASSUME NEW v \in Viewers, Decr(v) PROVE redis' + Cardinality(Resetting') >= 0
  <2>1. CASE redis - 1 >= 0
    BY <1>0, <1>1, <1>5, <2>1 DEF Decr
  <2>2. CASE redis - 1 < 0
    <3>1. v \notin Resetting /\ Resetting' = Resetting \cup {v} /\ redis' = redis - 1
      BY <1>5, <2>2 DEF Decr, Goto, Resetting, Inv, TypeOK
    <3>2. Cardinality(Resetting') = Cardinality(Resetting) + 1
      BY <1>0, <3>1, CountViewers
    <3> QED
      BY <1>0, <1>00, <3>1, <3>2
  <2> QED
    BY <1>0, <2>1, <2>2
<1>6. ASSUME NEW v \in Viewers, Reset(v) PROVE redis' \in Int /\ redis' >= 0
  BY <1>6 DEF Reset
<1>7. ASSUME NEW e \in Endings, CloseAll(e) \/ CloseOne(e) \/ AllClosed(e)
      PROVE  redis' = redis /\ Resetting' = Resetting
  BY <1>7 DEF CloseAll, CloseOne, AllClosed, Resetting
<1>8. ASSUME NEW e \in Endings, Zero(e) PROVE redis' \in Int /\ redis' >= 0
  BY <1>8 DEF Zero
<1>9. UNCHANGED vars => redis' = redis /\ Resetting' = Resetting
  BY DEF vars, Resetting
<1> QED
  BY <1>1, <1>2, <1>3, <1>4, <1>5, <1>6, <1>7, <1>8, <1>9 DEF Next, Idle

\* The viewer count in Redis never stays below zero, however many viewers
\* leave at once and whenever streams of the channel end.
THEOREM DebtCoveredHolds == Spec => []DebtCovered
<1>1. Spec => []Inv
  BY InitInv, NextInv, PTL DEF Spec
<1> QED
  BY <1>1, InitDebt, NextDebt, PTL DEF Spec

-----------------------------------------------------------------------------
(* Before the first ending the count never exceeds the registries            *)

\* At the start nobody is counted or registered.
LEMMA InitCounted == Init => CountedBeforeEnd
<1> SUFFICES ASSUME Init PROVE CountedBeforeEnd
  OBVIOUS
<1>1. Counted = {} /\ Resetting = {}
  BY DEF Init, Counted, CountedAt, Resetting
<1>2. redis = 0 /\ Cardinality(Counted) = 0
  BY <1>1, FS_EmptySet DEF Init
<1> QED
  BY <1>1, <1>2 DEF Init, CountedBeforeEnd, RegisteredAt

\* The registrations keep up with the handlers' places.
LEMMA NextRegistered ==
  ASSUME Inv, NEW v \in Viewers,
         \A w \in Viewers : pc[w] \in RegisteredAt => w \in viewers_[NodeOf[w]],
         \/ Upgrade(v) \/ Reject(v) \/ Add(v) \/ Incr(v) \/ Snapshot(v) \/ Tell(v)
         \/ Told(v) \/ OnClose(v) \/ Vanish(v) \/ Remove(v) \/ Decr(v) \/ Reset(v)
  PROVE  \A w \in Viewers : pc'[w] \in RegisteredAt => w \in viewers_'[NodeOf[w]]
<1> USE ViewerCountAssumption DEF Goto, RegisteredAt, Inv, TypeOK
<1>1. CASE Add(v)
  BY <1>1 DEF Add
<1>2. CASE Remove(v)
  BY <1>2 DEF Remove
<1>3. CASE \/ Upgrade(v) \/ Reject(v) \/ Incr(v) \/ Snapshot(v) \/ Tell(v) \/ Told(v)
           \/ OnClose(v) \/ Vanish(v) \/ Decr(v) \/ Reset(v)
  BY <1>3 DEF Upgrade, Reject, Incr, Snapshot, Tell, Told, OnClose, Vanish, Decr, Reset
<1> QED
  BY <1>1, <1>2, <1>3

\* INCR and the first DECR move a viewer into and out of the counted ones, a
\* further DECR and SET 0 only lower the key.  While no callback has run again
\* a counted viewer keeps the key positive, so DECR asks for no reset.
LEMMA NextCounted == Inv /\ CountedBeforeEnd /\ [Next]_vars => CountedBeforeEnd'
<1> SUFFICES ASSUME Inv, CountedBeforeEnd, [Next]_vars, NoEndYet'
             PROVE  /\ redis' <= Cardinality(Counted')
                    /\ repeated' = {} => redis' = Cardinality(Counted') /\ Resetting' = {}
                    /\ \A w \in Viewers : pc'[w] \in RegisteredAt => w \in viewers_'[NodeOf[w]]
  BY DEF CountedBeforeEnd
<1>1. ASSUME NEW e \in Endings, CloseAll(e) \/ CloseOne(e) \/ AllClosed(e) \/ Zero(e)
      PROVE  FALSE
  BY <1>1 DEF NoEndYet, Inv, TypeOK, CloseAll, CloseOne, AllClosed, Zero
<1>2. CASE UNCHANGED vars
  BY <1>2 DEF CountedBeforeEnd, vars, historyVars, NoEndYet, Counted, Resetting
<1>3. ASSUME NEW v \in Viewers,
             \/ Upgrade(v) \/ Reject(v) \/ Add(v) \/ Incr(v) \/ Snapshot(v) \/ Tell(v)
             \/ Told(v) \/ OnClose(v) \/ Vanish(v) \/ Remove(v) \/ Decr(v) \/ Reset(v)
      PROVE  /\ redis' <= Cardinality(Counted')
             /\ repeated' = {} => redis' = Cardinality(Counted') /\ Resetting' = {}
             /\ \A w \in Viewers : pc'[w] \in RegisteredAt => w \in viewers_'[NodeOf[w]]
  <2>0. epc' = epc
    BY <1>3 DEF Upgrade, Reject, Add, Incr, Snapshot, Tell, Told, OnClose, Vanish,
                Remove, Decr, Reset, unchangedEndings
  <2>1. /\ redis <= Cardinality(Counted)
        /\ repeated = {} => redis = Cardinality(Counted) /\ Resetting = {}
        /\ \A w \in Viewers : pc[w] \in RegisteredAt => w \in viewers_[NodeOf[w]]
    BY <2>0 DEF CountedBeforeEnd, NoEndYet
  <2>2. /\ redis \in Int /\ Counted \in SUBSET Viewers /\ Counted' \in SUBSET Viewers
        /\ pc[v] \notin Leaving \cup {"gone"} => v \notin repeated
    BY DEF Inv, TypeOK, RepeatedLate, Counted
  <2>3. Cardinality(Counted) \in Nat /\ Cardinality(Counted') \in Nat
    BY <2>2, CountViewers
  <2>4. \A w \in Viewers : pc'[w] \in RegisteredAt => w \in viewers_'[NodeOf[w]]
    BY <1>3, <2>1, NextRegistered
  <2>5. CASE \/ Upgrade(v) \/ Reject(v) \/ Add(v) \/ Snapshot(v) \/ Tell(v)
             \/ Told(v) \/ Vanish(v) \/ Remove(v)
    <3>1. /\ redis' = redis /\ repeated' = repeated
          /\ Counted' = Counted /\ Resetting' = Resetting
      BY <2>5 DEF Upgrade, Reject, Add, Snapshot, Tell, Told, Vanish, Remove, historyVars,
                  Goto, Counted, CountedAt, Resetting, Inv, TypeOK
    <3> QED
      BY <2>1, <2>4, <3>1
  <2>6. CASE OnClose(v)
    <3>1. redis' = redis /\ Resetting' = Resetting
      BY <2>6 DEF OnClose, Goto, Resetting, Inv, TypeOK
    <3>2. Counted' = Counted
      BY <2>2, <2>6 DEF OnClose, Goto, Counted, CountedAt, Leaving, Inv, TypeOK
    <3>3. repeated' = {} => repeated = {}
      BY <2>6 DEF OnClose
    <3> QED
      BY <2>1, <2>4, <3>1, <3>2, <3>3
  <2>7. CASE Incr(v)
    <3>1. redis' = redis + 1 /\ repeated' = repeated /\ Resetting' = Resetting
      BY <2>7 DEF Incr, Goto, Resetting, historyVars, Inv, TypeOK
    <3>2. v \notin Counted /\ Counted' = Counted \cup {v}
      BY <2>2, <2>7 DEF Incr, Goto, historyVars, Counted, CountedAt, Leaving, Inv, TypeOK
    <3>3. Cardinality(Counted') = Cardinality(Counted) + 1
      BY <2>2, <3>2, CountViewers
    <3> QED
      BY <2>1, <2>2, <2>3, <2>4, <3>1, <3>3
  <2>8. CASE Decr(v) /\ v \in repeated
    <3>1. redis' = redis - 1 /\ repeated' # {}
      BY <2>8 DEF Decr, historyVars
    <3>2. Counted' = Counted
      BY <2>8 DEF Decr, Goto, historyVars, Counted, CountedAt, Inv, TypeOK
    <3> QED
      BY <2>1, <2>2, <2>3, <2>4, <3>1, <3>2
  <2>9. CASE Decr(v) /\ v \notin repeated
    <3>1. redis' = redis - 1 /\ repeated' = repeated /\ v \in Counted
      BY <2>9 DEF Decr, Counted, CountedAt, historyVars
    <3>2. Counted' = Counted \ {v}
      BY <2>9 DEF Decr, Goto, historyVars, Counted, CountedAt, Inv, TypeOK
    <3>3. Cardinality(Counted') = Cardinality(Counted) - 1
      BY <2>2, <3>1, <3>2, CountViewers
    <3>4. ~(redis - 1 < 0) => Resetting' = Resetting
      BY <2>9 DEF Decr, Goto, Resetting, Inv, TypeOK
    <3>5. repeated = {} => ~(redis - 1 < 0)
      BY <2>1, <2>2, <2>3, <3>3
    <3> QED
      BY <2>1, <2>2, <2>3, <2>4, <3>1, <3>3, <3>4, <3>5
  <2>10. CASE Reset(v)
    <3>1. redis' = 0 /\ repeated' = repeated /\ v \in Resetting
      BY <2>10 DEF Reset, Resetting, historyVars
    <3> QED
      BY <2>1, <2>3, <2>4, <3>1
  <2> QED
    BY <1>3, <2>5, <2>6, <2>7, <2>8, <2>9, <2>10
<1> QED
  BY <1>1, <1>2, <1>3 DEF Next, Idle

\* As long as no stream of the channel has ended the Redis count is, at rest,
\* at most the number of registered viewers of all nodes, and exact unless a
\* close callback has run again.
THEOREM CountMatchesRegistryHolds == Spec => []CountMatchesRegistry
<1>1. Inv /\ CountedBeforeEnd => CountMatchesRegistry
  <2> SUFFICES ASSUME Inv, CountedBeforeEnd, AtRest, NoEndYet
               PROVE  /\ redis <= Cardinality(Registered)
                      /\ repeated = {} => redis = Cardinality(Registered)
    BY DEF CountMatchesRegistry, NoEndYet
  <2>1. Registered = Counted
    <3>1. ASSUME NEW v \in Registered PROVE v \in Counted
      BY <3>1 DEF Registered, Counted, CountedAt, Inv, TypeOK, LeftStaysOut, RepeatedLate,
                  AtRest, Resting, Leaving
    <3>2. ASSUME NEW v \in Counted PROVE v \in Registered
      <4>1. v \in viewers_[NodeOf[v]] /\ NodeOf[v] \in Nodes
        BY <3>2, ViewerCountAssumption
           DEF Counted, CountedAt, RegisteredAt, CountedBeforeEnd, AtRest, Resting
      <4> QED
        BY <4>1 DEF Registered
    <3> QED
      BY <3>1, <3>2
  <2> QED
    BY <2>1 DEF CountedBeforeEnd
<1>2. Spec => []Inv
  BY InitInv, NextInv, PTL DEF Spec
<1> QED
  BY <1>1, <1>2, InitCounted, NextCounted, PTL DEF Spec

-----------------------------------------------------------------------------
(* CleanupStream closes every viewer of its own node                         *)

\* While CloseAll runs, a viewer that was registered when it began is closed or
\* still in its snapshot; and no connection opens twice.
ClosedOrKicked == \A e \in Endings : \A v \in before[e] :
                     /\ pc[v] # "out"
                     /\ epc[e] # "live"
                     /\ state[v] = "OPEN" => epc[e] = "closing" /\ v \in kicked[e]

\* No ending has begun at the start.
LEMMA InitClosed == Init => ClosedOrKicked
BY DEF Init, ClosedOrKicked

\* Only Upgrade opens a connection, and only from "out".
LEMMA NextClosed == Inv /\ ClosedOrKicked /\ [Next]_vars => ClosedOrKicked'
<1> SUFFICES ASSUME Inv, ClosedOrKicked, [Next]_vars PROVE ClosedOrKicked'
  OBVIOUS
<1> USE ViewerCountAssumption
<1>1. ASSUME NEW v \in Viewers,
             \/ Upgrade(v) \/ Reject(v) \/ Add(v) \/ Incr(v) \/ Snapshot(v) \/ Tell(v)
             \/ Told(v) \/ OnClose(v) \/ Vanish(v) \/ Remove(v) \/ Decr(v) \/ Reset(v)
      PROVE  ClosedOrKicked'
  <2>1. \A w \in Viewers : /\ pc[w] # "out" => pc'[w] # "out"
                           /\ pc[w] # "out" /\ state'[w] = "OPEN" => state[w] = "OPEN"
    BY <1>1 DEF Inv, TypeOK, Goto, Upgrade, Reject, Add, Incr, Snapshot, Tell, Told,
                OnClose, Vanish, Remove, Decr, Reset
  <2>2. UNCHANGED <<epc, kicked, before>>
    BY <1>1 DEF unchangedEndings, Upgrade, Reject, Add, Incr, Snapshot, Tell, Told,
                OnClose, Vanish, Remove, Decr, Reset
  <2> QED
    BY <2>1, <2>2 DEF ClosedOrKicked, Inv, TypeOK
<1>2. ASSUME NEW e \in Endings, CloseAll(e) PROVE ClosedOrKicked'
  <2>1. \A w \in viewers_[EndsAt[e]] : w \in Viewers /\ pc[w] # "out"
    BY DEF Inv, TypeOK, LeftStaysOut
  <2>2. before'[e] = viewers_[EndsAt[e]] /\ kicked'[e] = viewers_[EndsAt[e]] /\ epc'[e] = "closing"
    BY <1>2 DEF CloseAll, Inv, TypeOK
  <2>3. \A f \in Endings \ {e} : before'[f] = before[f] /\ kicked'[f] = kicked[f] /\ epc'[f] = epc[f]
    BY <1>2 DEF CloseAll, Inv, TypeOK
  <2> QED
    BY <1>2, <2>1, <2>2, <2>3 DEF CloseAll, ClosedOrKicked
<1>3. ASSUME NEW e \in Endings, CloseOne(e) PROVE ClosedOrKicked'
  BY <1>3 DEF CloseOne, ClosedOrKicked, Inv, TypeOK
<1>4. ASSUME NEW e \in Endings, AllClosed(e) PROVE ClosedOrKicked'
  BY <1>4 DEF AllClosed, ClosedOrKicked, Inv, TypeOK
<1>5. ASSUME NEW e \in Endings, Zero(e) PROVE ClosedOrKicked'
  BY <1>5 DEF Zero, ClosedOrKicked, Inv, TypeOK
<1>6. CASE UNCHANGED vars
  BY <1>6 DEF ClosedOrKicked, vars
<1> QED
  BY <1>1, <1>2, <1>3, <1>4, <1>5, <1>6 DEF Next, Idle

\* CleanupStream leaves no viewer open that was registered on its node when it
\* began, whoever joins, leaves or vanishes meanwhile.
THEOREM EndClosesViewersHolds == Spec => []EndClosesViewers
<1>1. ClosedOrKicked => EndClosesViewers
  BY DEF ClosedOrKicked, EndClosesViewers
<1>2. Spec => []Inv
  BY InitInv, NextInv, PTL DEF Spec
<1> QED
  BY <1>1, <1>2, InitClosed, NextClosed, PTL DEF Spec
==============================================================================
