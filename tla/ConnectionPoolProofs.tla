------------------------- MODULE ConnectionPoolProofs -------------------------
(***************************************************************************)
(* The pool is correct for every number of callers, connections and every  *)
(* max_size.  IndInv is inductive; each theorem below follows from it.     *)
(***************************************************************************)
EXTENDS ConnectionPool, FiniteSetTheorems, TLAPS

\* Only the owner of _create_lock connects.
OnlyOwnerConnects == \A c \in Callers : phase[c] = "connecting" => Owns(c)

IndInv ==
    /\ TypeOK
    /\ Holding
    /\ Exclusive
    /\ OnlyOwnerConnects
    /\ Accounted
    /\ NeverParks

-----------------------------------------------------------------------------
(* Counting *)

\* The callers that count are finitely many, at most all callers.
LEMMA CountedFinite ==
    /\ IsFiniteSet(Counted)
    /\ Cardinality(Counted) \in Nat
    /\ Cardinality(Counted) <= Cardinality(Callers)
    /\ Cardinality(Callers) \in Nat
<1>1. Counted \subseteq Callers
  BY DEF Counted
<1> QED
  BY <1>1, PoolAssumption, FS_Subset, FS_CardinalityType

\* A caller that enters the counted phases adds one to their number.
LEMMA CountedGains ==
    ASSUME NEW c \in Callers, c \notin Counted, Counted' = Counted \cup {c}
    PROVE  Cardinality(Counted') = Cardinality(Counted) + 1
BY CountedFinite, FS_AddElement

\* One that leaves them takes one off.
LEMMA CountedLoses ==
    ASSUME NEW c \in Callers, c \in Counted, Counted' = Counted \ {c}
    PROVE  /\ Cardinality(Counted') = Cardinality(Counted) - 1
           /\ Cardinality(Counted) > 0
<1>1. Cardinality(Counted') = Cardinality(Counted) - 1
  BY CountedFinite, FS_RemoveElement
<1>2. Cardinality(Counted) # 0
  BY CountedFinite, FS_EmptySet
<1> QED
  BY <1>1, <1>2, CountedFinite

\* With no more callers than connections, a caller that is not counted finds
\* the pool below capacity or a connection idle.
LEMMA RoomForOneMore ==
    ASSUME NEW c \in Callers, c \notin Counted,
           TypeOK, Accounted, idle = <<>>, Cardinality(Callers) <= MaxSize
    PROVE  created < MaxSize
<1>1. Counted \subseteq Callers \ {c}
  BY DEF Counted
<1>2. /\ IsFiniteSet(Callers \ {c})
      /\ Cardinality(Callers \ {c}) = Cardinality(Callers) - 1
  BY PoolAssumption, FS_RemoveElement
<1>3. Cardinality(Counted) <= Cardinality(Callers \ {c})
  BY <1>1, <1>2, FS_Subset
<1>4. created = Cardinality(Counted)
  BY CountedFinite DEF Accounted
<1> QED
  BY <1>2, <1>3, <1>4, CountedFinite, PoolAssumption

\* A caller that is counted finds created above zero.
LEMMA CountedPositive ==
    ASSUME NEW c \in Callers, c \in Counted, TypeOK, Accounted
    PROVE  created - 1 \in 0 .. MaxSize
<1>1. Cardinality(Counted) # 0
  BY CountedFinite, FS_EmptySet
<1>2. Len(idle) \in Nat
  BY DEF TypeOK
<1> QED
  BY <1>1, <1>2, CountedFinite, PoolAssumption DEF Accounted, TypeOK

-----------------------------------------------------------------------------
(* The steps of Next *)

\* The actions a step is one of, for the case splits below.
LEMMA StepCases ==
    ASSUME [Next]_poolVars
    PROVE  \/ UNCHANGED poolVars
           \/ \E k \in Conn : PeerCloses(k) \/ PeerResets(k)
           \/ \E c \in Callers :
                 \/ AcquireIdle(c) \/ AcquireWaitLock(c)
                 \/ AcquireCreate(c) \/ AcquirePark(c)
                 \/ LockedCreate(c) \/ LockedTake(c) \/ LockedPark(c)
                 \/ ConnectOK(c) \/ ConnectFail(c) \/ TakeReturned(c)
                 \/ \E h \in BOOLEAN : ReleaseToIdle(c, h) \/ ReleaseClose(c, h)
                 \/ ClosedUncount(c) \/ ClosedWaitLock(c) \/ Uncount(c)
BY DEF Next, Acquire, Release, Progress, Locked, Closed

\* The lock passes from owner to oldest waiter, newcomers go to the end.
LEMMA OwnerStep ==
    ASSUME TypeOK, OnlyOwnerConnects, [Next]_poolVars
    PROVE  OnlyOwnerConnects'
<1>1. CASE UNCHANGED poolVars
  BY <1>1 DEF TypeOK, OnlyOwnerConnects, Owns, poolVars
<1>2. ASSUME NEW k \in Conn, PeerCloses(k) \/ PeerResets(k)
     PROVE  OnlyOwnerConnects'
  BY <1>2 DEF TypeOK, OnlyOwnerConnects, Owns, PeerCloses, PeerResets
<1>3. ASSUME NEW c \in Callers, AcquireIdle(c)
     PROVE  OnlyOwnerConnects'
  BY <1>3 DEF TypeOK, OnlyOwnerConnects, Owns, AcquireIdle
<1>4. ASSUME NEW c \in Callers, AcquireWaitLock(c)
     PROVE  OnlyOwnerConnects'
  BY <1>4 DEF TypeOK, OnlyOwnerConnects, Owns, AcquireWaitLock
<1>5. ASSUME NEW c \in Callers, AcquireCreate(c)
     PROVE  OnlyOwnerConnects'
  BY <1>5 DEF TypeOK, OnlyOwnerConnects, Owns, AcquireCreate
<1>6. ASSUME NEW c \in Callers, AcquirePark(c)
     PROVE  OnlyOwnerConnects'
  BY <1>6 DEF TypeOK, OnlyOwnerConnects, Owns, AcquirePark
<1>7. ASSUME NEW c \in Callers, LockedCreate(c)
     PROVE  OnlyOwnerConnects'
  BY <1>7 DEF TypeOK, OnlyOwnerConnects, Owns, LockedCreate
<1>8. ASSUME NEW c \in Callers, LockedTake(c)
     PROVE  OnlyOwnerConnects'
  BY <1>8 DEF TypeOK, OnlyOwnerConnects, Owns, LockedTake
<1>9. ASSUME NEW c \in Callers, LockedPark(c)
     PROVE  OnlyOwnerConnects'
  BY <1>9 DEF TypeOK, OnlyOwnerConnects, Owns, LockedPark
<1>10. ASSUME NEW c \in Callers, ConnectOK(c)
     PROVE  OnlyOwnerConnects'
  BY <1>10 DEF TypeOK, OnlyOwnerConnects, Owns, ConnectOK
<1>11. ASSUME NEW c \in Callers, ConnectFail(c)
     PROVE  OnlyOwnerConnects'
  BY <1>11 DEF TypeOK, OnlyOwnerConnects, Owns, ConnectFail
<1>12. ASSUME NEW c \in Callers, TakeReturned(c)
     PROVE  OnlyOwnerConnects'
  BY <1>12 DEF TypeOK, OnlyOwnerConnects, Owns, TakeReturned
<1>13. ASSUME NEW c \in Callers, ClosedUncount(c)
     PROVE  OnlyOwnerConnects'
  BY <1>13 DEF TypeOK, OnlyOwnerConnects, Owns, ClosedUncount
<1>14. ASSUME NEW c \in Callers, ClosedWaitLock(c)
     PROVE  OnlyOwnerConnects'
  BY <1>14 DEF TypeOK, OnlyOwnerConnects, Owns, ClosedWaitLock
<1>15. ASSUME NEW c \in Callers, Uncount(c)
     PROVE  OnlyOwnerConnects'
  BY <1>15 DEF TypeOK, OnlyOwnerConnects, Owns, Uncount
<1>16. ASSUME NEW c \in Callers, NEW h \in BOOLEAN, ReleaseToIdle(c, h)
     PROVE  OnlyOwnerConnects'
  BY <1>16 DEF TypeOK, OnlyOwnerConnects, Owns, ReleaseToIdle
<1>17. ASSUME NEW c \in Callers, NEW h \in BOOLEAN, ReleaseClose(c, h)
     PROVE  OnlyOwnerConnects'
  BY <1>17 DEF TypeOK, OnlyOwnerConnects, Owns, ReleaseClose
<1> QED
  BY <1>1, <1>2, <1>3, <1>4, <1>5, <1>6, <1>7, <1>8, <1>9, <1>10, <1>11, <1>12, <1>13,
     <1>14, <1>15, <1>16, <1>17, StepCases

\* Types, with created kept above zero by the callers it counts.
LEMMA TypeStep ==
    ASSUME TypeOK, Holding, OnlyOwnerConnects, Accounted, [Next]_poolVars
    PROVE  TypeOK'
<1>1. CASE UNCHANGED poolVars
  BY <1>1 DEF TypeOK, Phases, ConnStates, Holding, OnlyOwnerConnects, Owns, poolVars
<1>2. ASSUME NEW k \in Conn, PeerCloses(k) \/ PeerResets(k)
     PROVE  TypeOK'
  BY <1>2, PoolAssumption DEF TypeOK, Phases, ConnStates, Holding, OnlyOwnerConnects,
     Owns, PeerCloses, PeerResets
<1>3. ASSUME NEW c \in Callers, AcquireIdle(c)
     PROVE  TypeOK'
  BY <1>3, PoolAssumption DEF TypeOK, Phases, ConnStates, Holding, OnlyOwnerConnects,
     Owns, AcquireIdle
<1>4. ASSUME NEW c \in Callers, AcquireWaitLock(c)
     PROVE  TypeOK'
  BY <1>4, PoolAssumption DEF TypeOK, Phases, ConnStates, Holding, OnlyOwnerConnects,
     Owns, AcquireWaitLock
<1>5. ASSUME NEW c \in Callers, AcquireCreate(c)
     PROVE  TypeOK'
  BY <1>5, PoolAssumption DEF TypeOK, Phases, ConnStates, Holding, OnlyOwnerConnects,
     Owns, AcquireCreate
<1>6. ASSUME NEW c \in Callers, AcquirePark(c)
     PROVE  TypeOK'
  BY <1>6, PoolAssumption DEF TypeOK, Phases, ConnStates, Holding, OnlyOwnerConnects,
     Owns, AcquirePark
<1>7. ASSUME NEW c \in Callers, LockedCreate(c)
     PROVE  TypeOK'
  BY <1>7, PoolAssumption DEF TypeOK, Phases, ConnStates, Holding, OnlyOwnerConnects,
     Owns, LockedCreate
<1>8. ASSUME NEW c \in Callers, LockedTake(c)
     PROVE  TypeOK'
  BY <1>8, PoolAssumption DEF TypeOK, Phases, ConnStates, Holding, OnlyOwnerConnects,
     Owns, LockedTake
<1>9. ASSUME NEW c \in Callers, LockedPark(c)
     PROVE  TypeOK'
  BY <1>9, PoolAssumption DEF TypeOK, Phases, ConnStates, Holding, OnlyOwnerConnects,
     Owns, LockedPark
<1>10. ASSUME NEW c \in Callers, ConnectOK(c)
     PROVE  TypeOK'
  BY <1>10, PoolAssumption DEF TypeOK, Phases, ConnStates, Holding, OnlyOwnerConnects,
     Owns, ConnectOK
<1>11. ASSUME NEW c \in Callers, ConnectFail(c)
     PROVE  TypeOK'
  <2>1. c \in Counted
    BY <1>11 DEF ConnectFail, Counted
  <2>2. created - 1 \in 0 .. MaxSize
    BY <2>1, CountedPositive
  <2> QED
    BY <1>11, <2>2 DEF TypeOK, Phases, ConnStates, Holding, OnlyOwnerConnects, Owns, ConnectFail
<1>12. ASSUME NEW c \in Callers, TakeReturned(c)
     PROVE  TypeOK'
  BY <1>12, PoolAssumption DEF TypeOK, Phases, ConnStates, Holding, OnlyOwnerConnects,
     Owns, TakeReturned
<1>13. ASSUME NEW c \in Callers, ClosedUncount(c)
     PROVE  TypeOK'
  <2>1. c \in Counted
    BY <1>13 DEF ClosedUncount, Counted
  <2>2. created - 1 \in 0 .. MaxSize
    BY <2>1, CountedPositive
  <2> QED
    BY <1>13, <2>2 DEF TypeOK, Phases, ConnStates, Holding, OnlyOwnerConnects, Owns, ClosedUncount
<1>14. ASSUME NEW c \in Callers, ClosedWaitLock(c)
     PROVE  TypeOK'
  BY <1>14, PoolAssumption DEF TypeOK, Phases, ConnStates, Holding, OnlyOwnerConnects,
     Owns, ClosedWaitLock
<1>15. ASSUME NEW c \in Callers, Uncount(c)
     PROVE  TypeOK'
  <2>1. c \in Counted
    BY <1>15 DEF Uncount, Counted
  <2>2. created - 1 \in 0 .. MaxSize
    BY <2>1, CountedPositive
  <2> QED
    BY <1>15, <2>2 DEF TypeOK, Phases, ConnStates, Holding, OnlyOwnerConnects, Owns, Uncount
<1>16. ASSUME NEW c \in Callers, NEW h \in BOOLEAN, ReleaseToIdle(c, h)
     PROVE  TypeOK'
  BY <1>16, PoolAssumption DEF TypeOK, Phases, ConnStates, Holding, OnlyOwnerConnects,
     Owns, ReleaseToIdle
<1>17. ASSUME NEW c \in Callers, NEW h \in BOOLEAN, ReleaseClose(c, h)
     PROVE  TypeOK'
  BY <1>17, PoolAssumption DEF TypeOK, Phases, ConnStates, Holding, OnlyOwnerConnects,
     Owns, ReleaseClose
<1> QED
  BY <1>1, <1>2, <1>3, <1>4, <1>5, <1>6, <1>7, <1>8, <1>9, <1>10, <1>11, <1>12, <1>13,
     <1>14, <1>15, <1>16, <1>17, StepCases

\* A connection is handed on from _idle to a caller, or back, and never copied.
LEMMA HoldStep ==
    ASSUME TypeOK, Holding, Exclusive, [Next]_poolVars
    PROVE  Holding'
<1>1. CASE UNCHANGED poolVars
  BY <1>1 DEF TypeOK, Holding, poolVars
<1>2. ASSUME NEW k \in Conn, PeerCloses(k) \/ PeerResets(k)
     PROVE  Holding'
  BY <1>2, PoolAssumption DEF TypeOK, Holding, PeerCloses, PeerResets
<1>3. ASSUME NEW c \in Callers, AcquireIdle(c)
     PROVE  Holding'
  BY <1>3, PoolAssumption DEF TypeOK, Holding, AcquireIdle
<1>4. ASSUME NEW c \in Callers, AcquireWaitLock(c)
     PROVE  Holding'
  BY <1>4, PoolAssumption DEF TypeOK, Holding, AcquireWaitLock
<1>5. ASSUME NEW c \in Callers, AcquireCreate(c)
     PROVE  Holding'
  BY <1>5, PoolAssumption DEF TypeOK, Holding, AcquireCreate
<1>6. ASSUME NEW c \in Callers, AcquirePark(c)
     PROVE  Holding'
  BY <1>6, PoolAssumption DEF TypeOK, Holding, AcquirePark
<1>7. ASSUME NEW c \in Callers, LockedCreate(c)
     PROVE  Holding'
  BY <1>7, PoolAssumption DEF TypeOK, Holding, LockedCreate, Owns
<1>8. ASSUME NEW c \in Callers, LockedTake(c)
     PROVE  Holding'
  BY <1>8, PoolAssumption DEF TypeOK, Holding, LockedTake, Owns
<1>9. ASSUME NEW c \in Callers, LockedPark(c)
     PROVE  Holding'
  BY <1>9, PoolAssumption DEF TypeOK, Holding, LockedPark, Owns
<1>10. ASSUME NEW c \in Callers, ConnectOK(c)
     PROVE  Holding'
  BY <1>10, PoolAssumption DEF TypeOK, Holding, ConnectOK
<1>11. ASSUME NEW c \in Callers, ConnectFail(c)
     PROVE  Holding'
  BY <1>11, PoolAssumption DEF TypeOK, Holding, ConnectFail
<1>12. ASSUME NEW c \in Callers, TakeReturned(c)
     PROVE  Holding'
  BY <1>12, PoolAssumption DEF TypeOK, Holding, TakeReturned
<1>13. ASSUME NEW c \in Callers, ClosedUncount(c)
     PROVE  Holding'
  BY <1>13 DEF TypeOK, Holding, Exclusive, ClosedUncount
<1>14. ASSUME NEW c \in Callers, ClosedWaitLock(c)
     PROVE  Holding'
  BY <1>14 DEF TypeOK, Holding, Exclusive, ClosedWaitLock
<1>15. ASSUME NEW c \in Callers, Uncount(c)
     PROVE  Holding'
  BY <1>15, PoolAssumption DEF TypeOK, Holding, Uncount, Owns
<1>16. ASSUME NEW c \in Callers, NEW h \in BOOLEAN, ReleaseToIdle(c, h)
     PROVE  Holding'
  BY <1>16, PoolAssumption DEF TypeOK, Holding, ReleaseToIdle
<1>17. ASSUME NEW c \in Callers, NEW h \in BOOLEAN, ReleaseClose(c, h)
     PROVE  Holding'
  BY <1>17, PoolAssumption DEF TypeOK, Holding, ReleaseClose
<1> QED
  BY <1>1, <1>2, <1>3, <1>4, <1>5, <1>6, <1>7, <1>8, <1>9, <1>10, <1>11, <1>12, <1>13,
     <1>14, <1>15, <1>16, <1>17, StepCases

\* ... so no two places share one.
LEMMA ExclusiveStep ==
    ASSUME TypeOK, Holding, Exclusive, [Next]_poolVars
    PROVE  Exclusive'
<1>1. CASE UNCHANGED poolVars
  BY <1>1 DEF TypeOK, Holding, Exclusive, poolVars
<1>2. ASSUME NEW k \in Conn, PeerCloses(k) \/ PeerResets(k)
     PROVE  Exclusive'
  BY <1>2, PoolAssumption DEF TypeOK, Holding, Exclusive, PeerCloses, PeerResets
<1>3. ASSUME NEW c \in Callers, AcquireIdle(c)
     PROVE  Exclusive'
  BY <1>3, PoolAssumption DEF TypeOK, Holding, Exclusive, AcquireIdle
<1>4. ASSUME NEW c \in Callers, AcquireWaitLock(c)
     PROVE  Exclusive'
  BY <1>4, PoolAssumption DEF TypeOK, Holding, Exclusive, AcquireWaitLock
<1>5. ASSUME NEW c \in Callers, AcquireCreate(c)
     PROVE  Exclusive'
  BY <1>5, PoolAssumption DEF TypeOK, Holding, Exclusive, AcquireCreate
<1>6. ASSUME NEW c \in Callers, AcquirePark(c)
     PROVE  Exclusive'
  BY <1>6, PoolAssumption DEF TypeOK, Holding, Exclusive, AcquirePark
<1>7. ASSUME NEW c \in Callers, LockedCreate(c)
     PROVE  Exclusive'
  BY <1>7, PoolAssumption DEF TypeOK, Holding, Exclusive, LockedCreate, Owns
<1>8. ASSUME NEW c \in Callers, LockedTake(c)
     PROVE  Exclusive'
  BY <1>8, PoolAssumption DEF TypeOK, Holding, Exclusive, LockedTake, Owns
<1>9. ASSUME NEW c \in Callers, LockedPark(c)
     PROVE  Exclusive'
  BY <1>9, PoolAssumption DEF TypeOK, Holding, Exclusive, LockedPark, Owns
<1>10. ASSUME NEW c \in Callers, ConnectOK(c)
     PROVE  Exclusive'
  BY <1>10, PoolAssumption DEF TypeOK, Holding, Exclusive, ConnectOK
<1>11. ASSUME NEW c \in Callers, ConnectFail(c)
     PROVE  Exclusive'
  BY <1>11, PoolAssumption DEF TypeOK, Holding, Exclusive, ConnectFail
<1>12. ASSUME NEW c \in Callers, TakeReturned(c)
     PROVE  Exclusive'
  BY <1>12, PoolAssumption DEF TypeOK, Holding, Exclusive, TakeReturned
<1>13. ASSUME NEW c \in Callers, ClosedUncount(c)
     PROVE  Exclusive'
  BY <1>13, PoolAssumption DEF TypeOK, Holding, Exclusive, ClosedUncount
<1>14. ASSUME NEW c \in Callers, ClosedWaitLock(c)
     PROVE  Exclusive'
  BY <1>14, PoolAssumption DEF TypeOK, Holding, Exclusive, ClosedWaitLock
<1>15. ASSUME NEW c \in Callers, Uncount(c)
     PROVE  Exclusive'
  BY <1>15, PoolAssumption DEF TypeOK, Holding, Exclusive, Uncount, Owns
<1>16. ASSUME NEW c \in Callers, NEW h \in BOOLEAN, ReleaseToIdle(c, h)
     PROVE  Exclusive'
  BY <1>16, PoolAssumption DEF TypeOK, Holding, Exclusive, ReleaseToIdle
<1>17. ASSUME NEW c \in Callers, NEW h \in BOOLEAN, ReleaseClose(c, h)
     PROVE  Exclusive'
  BY <1>17, PoolAssumption DEF TypeOK, Holding, Exclusive, ReleaseClose
<1> QED
  BY <1>1, <1>2, <1>3, <1>4, <1>5, <1>6, <1>7, <1>8, <1>9, <1>10, <1>11, <1>12, <1>13,
     <1>14, <1>15, <1>16, <1>17, StepCases

\* created follows each caller in and out of the counted phases, and each
\* connection between a caller and _idle.
LEMMA CountStep ==
    ASSUME TypeOK, Accounted, [Next]_poolVars
    PROVE  Accounted'
<1>1. CASE UNCHANGED poolVars
  BY <1>1 DEF Accounted, Counted, poolVars
<1>2. ASSUME NEW k \in Conn, PeerCloses(k) \/ PeerResets(k)
     PROVE  Accounted'
  BY <1>2 DEF Accounted, Counted, PeerCloses, PeerResets
<1>3. ASSUME NEW c \in Callers, AcquireIdle(c)
     PROVE  Accounted'
  <2>1. c \notin Counted /\ Counted' = Counted \cup {c}
    BY <1>3 DEF AcquireIdle, Counted, TypeOK
  <2>2. Cardinality(Counted') = Cardinality(Counted) + 1
    BY <2>1, CountedGains
  <2> QED
    BY <1>3, <2>2, CountedFinite DEF Accounted, TypeOK, AcquireIdle
<1>4. ASSUME NEW c \in Callers, AcquireWaitLock(c)
     PROVE  Accounted'
  <2>1. Counted' = Counted
    BY <1>4 DEF AcquireWaitLock, Counted, TypeOK
  <2> QED
    BY <1>4, <2>1, CountedFinite DEF Accounted, TypeOK, AcquireWaitLock
<1>5. ASSUME NEW c \in Callers, AcquireCreate(c)
     PROVE  Accounted'
  <2>1. c \notin Counted /\ Counted' = Counted \cup {c}
    BY <1>5 DEF AcquireCreate, Counted, TypeOK
  <2>2. Cardinality(Counted') = Cardinality(Counted) + 1
    BY <2>1, CountedGains
  <2> QED
    BY <1>5, <2>2, CountedFinite DEF Accounted, TypeOK, AcquireCreate
<1>6. ASSUME NEW c \in Callers, AcquirePark(c)
     PROVE  Accounted'
  <2>1. Counted' = Counted
    BY <1>6 DEF AcquirePark, Counted, TypeOK
  <2> QED
    BY <1>6, <2>1, CountedFinite DEF Accounted, TypeOK, AcquirePark
<1>7. ASSUME NEW c \in Callers, LockedCreate(c)
     PROVE  Accounted'
  <2>1. c \notin Counted /\ Counted' = Counted \cup {c}
    BY <1>7 DEF LockedCreate, Counted, TypeOK
  <2>2. Cardinality(Counted') = Cardinality(Counted) + 1
    BY <2>1, CountedGains
  <2> QED
    BY <1>7, <2>2, CountedFinite DEF Accounted, TypeOK, LockedCreate
<1>8. ASSUME NEW c \in Callers, LockedTake(c)
     PROVE  Accounted'
  <2>1. c \notin Counted /\ Counted' = Counted \cup {c}
    BY <1>8 DEF LockedTake, Counted, TypeOK
  <2>2. Cardinality(Counted') = Cardinality(Counted) + 1
    BY <2>1, CountedGains
  <2> QED
    BY <1>8, <2>2, CountedFinite DEF Accounted, TypeOK, LockedTake
<1>9. ASSUME NEW c \in Callers, LockedPark(c)
     PROVE  Accounted'
  <2>1. Counted' = Counted
    BY <1>9 DEF LockedPark, Counted, TypeOK
  <2> QED
    BY <1>9, <2>1, CountedFinite DEF Accounted, TypeOK, LockedPark
<1>10. ASSUME NEW c \in Callers, ConnectOK(c)
     PROVE  Accounted'
  <2>1. Counted' = Counted
    BY <1>10 DEF ConnectOK, Counted, TypeOK
  <2> QED
    BY <1>10, <2>1, CountedFinite DEF Accounted, TypeOK, ConnectOK
<1>11. ASSUME NEW c \in Callers, ConnectFail(c)
     PROVE  Accounted'
  <2>1. c \in Counted /\ Counted' = Counted \ {c}
    BY <1>11 DEF ConnectFail, Counted, TypeOK
  <2>2. Cardinality(Counted') = Cardinality(Counted) - 1
    BY <2>1, CountedLoses
  <2> QED
    BY <1>11, <2>2, CountedFinite DEF Accounted, TypeOK, ConnectFail
<1>12. ASSUME NEW c \in Callers, TakeReturned(c)
     PROVE  Accounted'
  <2>1. c \notin Counted /\ Counted' = Counted \cup {c}
    BY <1>12 DEF TakeReturned, Counted, TypeOK
  <2>2. Cardinality(Counted') = Cardinality(Counted) + 1
    BY <2>1, CountedGains
  <2> QED
    BY <1>12, <2>2, CountedFinite DEF Accounted, TypeOK, TakeReturned
<1>13. ASSUME NEW c \in Callers, ClosedUncount(c)
     PROVE  Accounted'
  <2>1. c \in Counted /\ Counted' = Counted \ {c}
    BY <1>13 DEF ClosedUncount, Counted, TypeOK
  <2>2. Cardinality(Counted') = Cardinality(Counted) - 1
    BY <2>1, CountedLoses
  <2> QED
    BY <1>13, <2>2, CountedFinite DEF Accounted, TypeOK, ClosedUncount
<1>14. ASSUME NEW c \in Callers, ClosedWaitLock(c)
     PROVE  Accounted'
  <2>1. Counted' = Counted
    BY <1>14 DEF ClosedWaitLock, Counted, TypeOK
  <2> QED
    BY <1>14, <2>1, CountedFinite DEF Accounted, TypeOK, ClosedWaitLock
<1>15. ASSUME NEW c \in Callers, Uncount(c)
     PROVE  Accounted'
  <2>1. c \in Counted /\ Counted' = Counted \ {c}
    BY <1>15 DEF Uncount, Counted, TypeOK
  <2>2. Cardinality(Counted') = Cardinality(Counted) - 1
    BY <2>1, CountedLoses
  <2> QED
    BY <1>15, <2>2, CountedFinite DEF Accounted, TypeOK, Uncount
<1>16. ASSUME NEW c \in Callers, NEW h \in BOOLEAN, ReleaseToIdle(c, h)
     PROVE  Accounted'
  <2>1. c \in Counted /\ Counted' = Counted \ {c}
    BY <1>16 DEF ReleaseToIdle, Counted, TypeOK
  <2>2. Cardinality(Counted') = Cardinality(Counted) - 1
    BY <2>1, CountedLoses
  <2> QED
    BY <1>16, <2>2, CountedFinite DEF Accounted, TypeOK, ReleaseToIdle
<1>17. ASSUME NEW c \in Callers, NEW h \in BOOLEAN, ReleaseClose(c, h)
     PROVE  Accounted'
  <2>1. Counted' = Counted
    BY <1>17 DEF ReleaseClose, Counted, TypeOK
  <2> QED
    BY <1>17, <2>1, CountedFinite DEF Accounted, TypeOK, ReleaseClose
<1> QED
  BY <1>1, <1>2, <1>3, <1>4, <1>5, <1>6, <1>7, <1>8, <1>9, <1>10, <1>11, <1>12, <1>13,
     <1>14, <1>15, <1>16, <1>17, StepCases

\* A caller parks only when the others hold the whole pool.
LEMMA ParkStep ==
    ASSUME TypeOK, Accounted, NeverParks, [Next]_poolVars
    PROVE  NeverParks'
<1>1. CASE UNCHANGED poolVars
  BY <1>1 DEF TypeOK, NeverParks, poolVars
<1>2. ASSUME NEW k \in Conn, PeerCloses(k) \/ PeerResets(k)
     PROVE  NeverParks'
  BY <1>2 DEF TypeOK, NeverParks, PeerCloses, PeerResets
<1>3. ASSUME NEW c \in Callers, AcquireIdle(c)
     PROVE  NeverParks'
  BY <1>3 DEF TypeOK, NeverParks, AcquireIdle
<1>4. ASSUME NEW c \in Callers, AcquireWaitLock(c)
     PROVE  NeverParks'
  BY <1>4 DEF TypeOK, NeverParks, AcquireWaitLock
<1>5. ASSUME NEW c \in Callers, AcquireCreate(c)
     PROVE  NeverParks'
  BY <1>5 DEF TypeOK, NeverParks, AcquireCreate
<1>6. ASSUME NEW c \in Callers, AcquirePark(c)
     PROVE  NeverParks'
  <2>1. c \notin Counted
    BY <1>6 DEF AcquirePark, Counted
  <2>2. Cardinality(Callers) > MaxSize
    BY <1>6, <2>1, RoomForOneMore, CountedFinite, PoolAssumption DEF AcquirePark
  <2> QED
    BY <2>2, CountedFinite, PoolAssumption DEF NeverParks
<1>7. ASSUME NEW c \in Callers, LockedCreate(c)
     PROVE  NeverParks'
  BY <1>7 DEF TypeOK, NeverParks, LockedCreate, Owns
<1>8. ASSUME NEW c \in Callers, LockedTake(c)
     PROVE  NeverParks'
  BY <1>8 DEF TypeOK, NeverParks, LockedTake, Owns
<1>9. ASSUME NEW c \in Callers, LockedPark(c)
     PROVE  NeverParks'
  <2>1. c \notin Counted
    BY <1>9 DEF LockedPark, Counted
  <2>2. Cardinality(Callers) > MaxSize
    BY <1>9, <2>1, RoomForOneMore, CountedFinite, PoolAssumption DEF LockedPark
  <2> QED
    BY <2>2, CountedFinite, PoolAssumption DEF NeverParks
<1>10. ASSUME NEW c \in Callers, ConnectOK(c)
     PROVE  NeverParks'
  BY <1>10 DEF TypeOK, NeverParks, ConnectOK
<1>11. ASSUME NEW c \in Callers, ConnectFail(c)
     PROVE  NeverParks'
  BY <1>11 DEF TypeOK, NeverParks, ConnectFail
<1>12. ASSUME NEW c \in Callers, TakeReturned(c)
     PROVE  NeverParks'
  BY <1>12 DEF TypeOK, NeverParks, TakeReturned
<1>13. ASSUME NEW c \in Callers, ClosedUncount(c)
     PROVE  NeverParks'
  BY <1>13 DEF TypeOK, NeverParks, ClosedUncount
<1>14. ASSUME NEW c \in Callers, ClosedWaitLock(c)
     PROVE  NeverParks'
  BY <1>14 DEF TypeOK, NeverParks, ClosedWaitLock
<1>15. ASSUME NEW c \in Callers, Uncount(c)
     PROVE  NeverParks'
  BY <1>15 DEF TypeOK, NeverParks, Uncount, Owns
<1>16. ASSUME NEW c \in Callers, NEW h \in BOOLEAN, ReleaseToIdle(c, h)
     PROVE  NeverParks'
  BY <1>16 DEF TypeOK, NeverParks, ReleaseToIdle
<1>17. ASSUME NEW c \in Callers, NEW h \in BOOLEAN, ReleaseClose(c, h)
     PROVE  NeverParks'
  BY <1>17 DEF TypeOK, NeverParks, ReleaseClose
<1> QED
  BY <1>1, <1>2, <1>3, <1>4, <1>5, <1>6, <1>7, <1>8, <1>9, <1>10, <1>11, <1>12, <1>13,
     <1>14, <1>15, <1>16, <1>17, StepCases

-----------------------------------------------------------------------------
(* The invariant and what follows from it *)

\* An empty pool satisfies the invariant.
LEMMA InitInv == Init => IndInv
<1> SUFFICES ASSUME Init PROVE IndInv
  OBVIOUS
<1>1. TypeOK /\ Holding /\ Exclusive /\ OnlyOwnerConnects /\ NeverParks
  BY PoolAssumption
     DEF Init, TypeOK, Phases, ConnStates, Holding, Exclusive, OnlyOwnerConnects, NeverParks
<1>2. Accounted
  <2>1. Counted = {}
    BY DEF Init, Counted
  <2> QED
    BY <2>1, FS_EmptySet DEF Init, Accounted
<1> QED
  BY <1>1, <1>2 DEF IndInv

\* Every step of a caller or a peer preserves it; the conjuncts are above.
LEMMA StepInv == IndInv /\ [Next]_poolVars => IndInv'
<1> SUFFICES ASSUME IndInv, [Next]_poolVars PROVE IndInv'
  OBVIOUS
<1>1. TypeOK'
  BY TypeStep DEF IndInv
<1>2. Holding' /\ Exclusive'
  BY HoldStep, ExclusiveStep DEF IndInv
<1>3. OnlyOwnerConnects'
  BY OwnerStep DEF IndInv
<1>4. Accounted' /\ NeverParks'
  BY CountStep, ParkStep DEF IndInv
<1> QED
  BY <1>1, <1>2, <1>3, <1>4 DEF IndInv

\* The inductive invariant: what each caller holds, what is idle and what
\* _created says agree in every state of the pool.
THEOREM Inductive == Spec => []IndInv
BY InitInv, StepInv, PTL DEF Spec

\* The variables keep their types; created stays within 0 .. MaxSize.
THEOREM TypeCorrect == Spec => []TypeOK
<1>1. IndInv => TypeOK
  BY DEF IndInv
<1> QED
  BY <1>1, Inductive, PTL

\* pool.py's _created is exact on every path through acquire and release,
\* the failing ones included: the pool neither shrinks nor exceeds max_size.
THEOREM CountIsExact == Spec => []Accounted
<1>1. IndInv => Accounted
  BY DEF IndInv
<1> QED
  BY <1>1, Inductive, PTL

\* pool.py:13-15: no connection is ever in two places.
THEOREM OneRequestAtATime == Spec => []Exclusive
<1>1. IndInv => Exclusive
  BY DEF IndInv
<1> QED
  BY <1>1, Inductive, PTL

\* gateway/app.py:201-204, merchant_simulator/app.py:91-93: where the callers
\* are no more than max_size, acquire never waits for a release.
THEOREM NobodyParks == Spec => []NeverParks
<1>1. IndInv => NeverParks
  BY DEF IndInv
<1> QED
  BY <1>1, Inductive, PTL

-----------------------------------------------------------------------------
(* The pool keeps BoundedPool's promise *)

Spare == {idle[i] : i \in 1 .. Len(idle)}
Lent == [c \in Callers |-> IF phase[c] = "using" THEN held[c] ELSE NoConn]
Retiring == {held[c] : c \in {d \in Callers : phase[d] = "closing"}}

\* The connections of the pool, by the callers that hold them.
Holders == {c \in Callers : phase[c] \in {"using", "closing"}}
HeldConns == {held[c] : c \in Holders}

\* They are no more than the idle ones and the holders together.
LEMMA ExistingBound ==
    ASSUME TypeOK
    PROVE  /\ IsFiniteSet(Spare \cup HeldConns)
           /\ Cardinality(Spare \cup HeldConns) <= Len(idle) + Cardinality(Holders)
           /\ Cardinality(Spare \cup HeldConns) \in Nat
           /\ Cardinality(Holders) \in Nat
<1>1. IsFiniteSet(Holders)
  BY PoolAssumption, FS_Subset, Holders \subseteq Callers DEF Holders
<1>2. IsFiniteSet(HeldConns) /\ Cardinality(HeldConns) <= Cardinality(Holders)
  <2> DEFINE f == [c \in Holders |-> held[c]]
  <2>1. f \in Surjection(Holders, HeldConns)
    BY DEF Surjection, HeldConns
  <2> QED
    BY <2>1, <1>1, FS_Surjection
<1>3. /\ IsFiniteSet(1 .. Len(idle))
      /\ Cardinality(1 .. Len(idle)) = Len(idle)
      /\ Len(idle) \in Nat
  <2>1. Len(idle) \in Nat
    BY DEF TypeOK
  <2>2. Cardinality(1 .. Len(idle)) = IF 1 > Len(idle) THEN 0 ELSE Len(idle) - 1 + 1
    BY <2>1, FS_Interval
  <2>3. IsFiniteSet(1 .. Len(idle))
    BY <2>1, FS_Interval
  <2> QED
    BY <2>1, <2>2, <2>3
<1>4. IsFiniteSet(Spare) /\ Cardinality(Spare) <= Len(idle)
  <2> DEFINE f == [i \in 1 .. Len(idle) |-> idle[i]]
  <2>1. f \in Surjection(1 .. Len(idle), Spare)
    BY DEF Surjection, Spare
  <2> QED
    BY <2>1, <1>3, FS_Surjection
<1>5. /\ IsFiniteSet(Spare \cap HeldConns)
      /\ IsFiniteSet(Spare \cup HeldConns)
      /\ Cardinality(Spare \cup HeldConns)
            = Cardinality(Spare) + Cardinality(HeldConns) - Cardinality(Spare \cap HeldConns)
  BY <1>2, <1>4, FS_Union, FS_Intersection
<1> QED
  BY <1>1, <1>2, <1>3, <1>4, <1>5, FS_CardinalityType

\* A caller that connects is counted and holds none yet: the host has fewer
\* than MaxSize connections.
LEMMA RoomAtHost ==
    ASSUME NEW c \in Callers, phase[c] = "connecting", TypeOK, Accounted
    PROVE  Cardinality(Spare \cup HeldConns) < MaxSize
<1>1. Holders \subseteq Counted \ {c} /\ c \in Counted
  BY DEF Holders, Counted
<1>2. /\ IsFiniteSet(Counted \ {c})
      /\ Cardinality(Counted \ {c}) = Cardinality(Counted) - 1
  BY <1>1, CountedFinite, FS_RemoveElement
<1>3. Cardinality(Holders) <= Cardinality(Counted) - 1
  BY <1>1, <1>2, FS_Subset
<1>4. Len(idle) + Cardinality(Counted) <= MaxSize /\ Len(idle) \in Nat
  BY PoolAssumption DEF TypeOK, Accounted
<1> QED
  BY <1>3, <1>4, ExistingBound, CountedFinite, PoolAssumption

\* BoundedPool counts with the same Cardinality.
LEMMA SameCardinality ==
    ASSUME NEW S
    PROVE  Promise!Cardinality(S) = Cardinality(S)
BY DEF Promise!Cardinality, Cardinality

\* What BoundedPool calls Existing is the idle and the held connections.
LEMMA ExistingIs ==
    ASSUME TypeOK, Holding
    PROVE  Promise!Existing = Spare \cup HeldConns
BY DEF Promise!Existing, Promise!Lent, Spare, HeldConns, Holders, TypeOK, Holding

\* Taking the oldest idle connection, and putting one back.
LEMMA SpareTail ==
    ASSUME TypeOK, Exclusive, idle # <<>>, idle' = Tail(idle)
    PROVE  /\ Head(idle) \in Spare
           /\ Spare' = Spare \ {Head(idle)}
<1>1. /\ Len(idle) \in Nat /\ Len(idle) > 0
      /\ Head(idle) = idle[1]
      /\ Len(idle') = Len(idle) - 1
      /\ \A i \in 1 .. Len(idle') : idle'[i] = idle[i + 1]
  BY DEF TypeOK
<1>2. ASSUME NEW k, k \in Spare, k # idle[1] PROVE k \in Spare'
  <2>1. PICK i \in 1 .. Len(idle) : k = idle[i]
    BY <1>2 DEF Spare
  <2>2. i - 1 \in 1 .. Len(idle') /\ idle'[i - 1] = k
    BY <1>1, <1>2, <2>1
  <2> QED
    BY <2>2 DEF Spare
<1>3. ASSUME NEW k, k \in Spare' PROVE k \in Spare /\ k # idle[1]
  <2>1. PICK i \in 1 .. Len(idle') : k = idle'[i]
    BY <1>3 DEF Spare
  <2>2. i + 1 \in 1 .. Len(idle) /\ k = idle[i + 1] /\ 1 \in 1 .. Len(idle)
    BY <1>1, <2>1
  <2> QED
    BY <1>1, <2>2 DEF Spare, Exclusive
<1>4. 1 \in 1 .. Len(idle)
  BY <1>1
<1>5. idle[1] \in Spare
  BY <1>4 DEF Spare
<1>6. \A k : k \in Spare' <=> k \in Spare /\ k # idle[1]
  BY <1>2, <1>3
<1>7. Spare' = Spare \ {idle[1]}
  BY <1>6
<1> QED
  BY <1>1, <1>5, <1>7

\* A connection put back into _idle is one more that is spare.
LEMMA SpareAppend ==
    ASSUME TypeOK, NEW k \in Conn, idle' = Append(idle, k)
    PROVE  Spare' = Spare \cup {k}
<1>1. /\ Len(idle) \in Nat
      /\ Len(idle') = Len(idle) + 1
      /\ \A i \in 1 .. Len(idle) : idle'[i] = idle[i]
      /\ idle'[Len(idle) + 1] = k
  BY DEF TypeOK
<1> QED
  BY <1>1 DEF Spare

\* Whatever the pool does is a step BoundedPool allows, or none to it.
LEMMA StepKeepsPromise ==
    ASSUME IndInv, [Next]_poolVars
    PROVE  [Promise!Next]_(Promise!vars)
<1> USE DEF IndInv
<1>0. NoConn \notin Conn
  BY PoolAssumption
<1>1. ASSUME NEW c \in Callers, phase[c] \in {"out", "locking", "parked"},
             idle # <<>>, idle' = Tail(idle),
             held' = [held EXCEPT ![c] = Head(idle)],
             phase' = [phase EXCEPT ![c] = "using"]
      PROVE  Promise!Next
  <2>1. Head(idle) \in Spare /\ Spare' = Spare \ {Head(idle)} /\ Head(idle) \in Conn
    BY <1>1, SpareTail DEF TypeOK
  <2>2. Lent[c] = NoConn /\ Lent' = [Lent EXCEPT ![c] = Head(idle)]
    BY <1>1 DEF Lent, TypeOK
  <2>3. Retiring' = Retiring
    BY <1>1 DEF Retiring, TypeOK
  <2>4. PICK k \in Conn : k = Head(idle)
    BY <2>1
  <2>5. Promise!Lend(c, k)
    BY <2>1, <2>2, <2>3, <2>4 DEF Promise!Lend, Spare, Lent, Retiring
  <2> QED
    BY <2>5 DEF Promise!Next
<1>2. ASSUME NEW c \in Callers, ConnectOK(c)
      PROVE  Promise!Next
  <2>1. PICK k \in Conn : conn[k] = "none" /\ held' = [held EXCEPT ![c] = k]
    BY <1>2 DEF ConnectOK
  <2>2. k \notin Spare \cup HeldConns
    BY <2>1 DEF Spare, HeldConns, Holders, Holding, TypeOK
  <2>3. Promise!Cardinality(Promise!Existing) < MaxSize
    BY <1>2, RoomAtHost, ExistingIs, SameCardinality DEF ConnectOK
  <2>4. Lent[c] = NoConn /\ Lent' = [Lent EXCEPT ![c] = k]
    BY <1>2, <2>1 DEF ConnectOK, Lent, TypeOK
  <2>5. Spare' = Spare /\ Retiring' = Retiring
    BY <1>2, <2>1 DEF ConnectOK, Spare, Retiring, TypeOK
  <2>6. k \in Conn \ Promise!Existing
    BY <2>2, ExistingIs
  <2>7. Promise!Open(c, k)
    BY <2>3, <2>4, <2>5, <2>6 DEF Promise!Open, Spare, Lent, Retiring
  <2> QED
    BY <2>7 DEF Promise!Next
<1>3. ASSUME NEW c \in Callers, NEW h \in BOOLEAN, ReleaseToIdle(c, h)
      PROVE  Promise!Next
  <2>1. held[c] \in Conn /\ Lent[c] = held[c]
    BY <1>3, <1>0 DEF ReleaseToIdle, Lent, TypeOK, Holding
  <2>2. Spare' = Spare \cup {held[c]}
    BY <1>3, <2>1, SpareAppend DEF ReleaseToIdle
  <2>3. Lent' = [Lent EXCEPT ![c] = NoConn] /\ Retiring' = Retiring
    BY <1>3 DEF ReleaseToIdle, Lent, Retiring, TypeOK
  <2>4. Promise!Return(c)
    BY <1>0, <2>1, <2>2, <2>3 DEF Promise!Return, Spare, Lent, Retiring
  <2> QED
    BY <2>4 DEF Promise!Next
<1>4. ASSUME NEW c \in Callers, NEW h \in BOOLEAN, ReleaseClose(c, h)
      PROVE  Promise!Next
  <2>1. held[c] \in Conn /\ Lent[c] = held[c]
    BY <1>4, <1>0 DEF ReleaseClose, Lent, TypeOK, Holding
  <2>2. Retiring' = Retiring \cup {held[c]}
    BY <1>4 DEF ReleaseClose, Retiring, TypeOK
  <2>3. Lent' = [Lent EXCEPT ![c] = NoConn] /\ Spare' = Spare
    BY <1>4 DEF ReleaseClose, Lent, Spare, TypeOK
  <2>4. Promise!Retire(c)
    BY <1>0, <2>1, <2>2, <2>3 DEF Promise!Retire, Spare, Lent, Retiring
  <2> QED
    BY <2>4 DEF Promise!Next
<1>5. ASSUME NEW c \in Callers, ClosedUncount(c) \/ ClosedWaitLock(c)
      PROVE  Promise!Next
  <2>1. held[c] \in Conn /\ held[c] \in Retiring
    BY <1>5, <1>0 DEF ClosedUncount, ClosedWaitLock, Retiring, TypeOK, Holding
  <2>2. Retiring' = Retiring \ {held[c]}
    BY <1>5, <2>1, <1>0 DEF ClosedUncount, ClosedWaitLock, Retiring, TypeOK, Holding, Exclusive
  <2>3. Lent' = Lent /\ Spare' = Spare
    BY <1>5 DEF ClosedUncount, ClosedWaitLock, Lent, Spare, TypeOK
  <2>4. PICK k \in Conn : k = held[c]
    BY <2>1
  <2>5. Promise!Close(k)
    BY <2>1, <2>2, <2>3, <2>4 DEF Promise!Close, Spare, Lent, Retiring
  <2> QED
    BY <2>5 DEF Promise!Next
<1>6. ASSUME NEW c \in Callers,
             \/ AcquireWaitLock(c) \/ AcquireCreate(c) \/ AcquirePark(c)
             \/ LockedCreate(c) \/ LockedPark(c) \/ ConnectFail(c) \/ Uncount(c)
      PROVE  UNCHANGED <<Spare, Lent, Retiring>>
  BY <1>6 DEF AcquireWaitLock, AcquireCreate, AcquirePark, LockedCreate, LockedPark,
     ConnectFail, Uncount, Spare, Lent, Retiring, TypeOK
<1>7. ASSUME UNCHANGED poolVars \/ \E k \in Conn : PeerCloses(k) \/ PeerResets(k)
      PROVE  UNCHANGED <<Spare, Lent, Retiring>>
  BY <1>7 DEF poolVars, PeerCloses, PeerResets, Spare, Lent, Retiring
<1>8. UNCHANGED <<Spare, Lent, Retiring>> => UNCHANGED Promise!vars
  BY DEF Promise!vars, Spare, Lent, Retiring
<1>9. ASSUME NEW c \in Callers, AcquireIdle(c) \/ LockedTake(c) \/ TakeReturned(c)
      PROVE  Promise!Next
  BY <1>1, <1>9 DEF AcquireIdle, LockedTake, TakeReturned
<1> QED
  BY <1>2, <1>3, <1>4, <1>5, <1>6, <1>7, <1>8, <1>9, StepCases

\* The pool starts as BoundedPool does, with nothing lent or spare.
LEMMA InitKeepsPromise == Init => Promise!Init
BY DEF Init, Promise!Init

\* The pool implements BoundedPool: one borrower per connection, and never
\* more than max_size connections at the downstream host, counting those
\* whose close is under way.
THEOREM PoolKeepsPromise == Spec => KeepsPromise
BY InitKeepsPromise, StepKeepsPromise, Inductive, PTL
   DEF KeepsPromise, Spec, Promise!Spec

-----------------------------------------------------------------------------
(* The line of _create_lock *)

Line == {lockQ[i] : i \in 1 .. Len(lockQ)}

NoDuplicates == \A i, j \in 1 .. Len(lockQ) : lockQ[i] = lockQ[j] => i = j

\* The owner leaves and its oldest waiter owns the lock.
LEMMA LineTail ==
    ASSUME TypeOK, NoDuplicates, lockQ # <<>>, lockQ' = Tail(lockQ)
    PROVE  NoDuplicates' /\ Line' = Line \ {Head(lockQ)}
<1>1. /\ Len(lockQ) \in Nat /\ Len(lockQ) > 0
      /\ Head(lockQ) = lockQ[1]
      /\ Len(lockQ') = Len(lockQ) - 1
      /\ \A i \in 1 .. Len(lockQ') : lockQ'[i] = lockQ[i + 1]
  BY DEF TypeOK
<1>2. NoDuplicates'
  BY <1>1 DEF NoDuplicates
<1>3. ASSUME NEW c, c \in Line, c # lockQ[1] PROVE c \in Line'
  <2>1. PICK i \in 1 .. Len(lockQ) : c = lockQ[i]
    BY <1>3 DEF Line
  <2>2. i - 1 \in 1 .. Len(lockQ') /\ lockQ'[i - 1] = c
    BY <1>1, <1>3, <2>1
  <2> QED
    BY <2>2 DEF Line
<1>4. ASSUME NEW c, c \in Line' PROVE c \in Line /\ c # lockQ[1]
  <2>1. PICK i \in 1 .. Len(lockQ') : c = lockQ'[i]
    BY <1>4 DEF Line
  <2>2. i + 1 \in 1 .. Len(lockQ) /\ c = lockQ[i + 1] /\ 1 \in 1 .. Len(lockQ)
    BY <1>1, <2>1
  <2> QED
    BY <1>1, <2>2 DEF Line, NoDuplicates
<1>5. Line' = Line \ {lockQ[1]}
  BY <1>3, <1>4
<1> QED
  BY <1>1, <1>2, <1>5

\* A newcomer waits behind everybody.
LEMMA LineAppend ==
    ASSUME TypeOK, NoDuplicates, NEW c \in Callers, c \notin Line, lockQ' = Append(lockQ, c)
    PROVE  NoDuplicates' /\ Line' = Line \cup {c}
<1>1. /\ Len(lockQ) \in Nat
      /\ Len(lockQ') = Len(lockQ) + 1
      /\ \A i \in 1 .. Len(lockQ) : lockQ'[i] = lockQ[i]
      /\ lockQ'[Len(lockQ) + 1] = c
  BY DEF TypeOK
<1>2. NoDuplicates'
  BY <1>1 DEF NoDuplicates, Line
<1>3. Line' = Line \cup {c}
  BY <1>1 DEF Line
<1> QED
  BY <1>2, <1>3

\* The line stays the callers that wait for the lock or own it.
LEMMA LineStep ==
    ASSUME TypeOK, LockLine, [Next]_poolVars
    PROVE  LockLine'
<1> DEFINE LineIs == NoDuplicates /\ Line = Waiting
<1>0. LineIs /\ OnlyOwnerConnects
  BY DEF LockLine, NoDuplicates, Line, OnlyOwnerConnects
<1>1. ASSUME UNCHANGED lockQ, Waiting' = Waiting PROVE LineIs'
  BY <1>0, <1>1 DEF NoDuplicates, Line
<1>2. ASSUME NEW c \in Callers, lockQ' = Tail(lockQ), Owns(c), Waiting' = Waiting \ {c}
      PROVE  LineIs'
  BY <1>0, <1>2, LineTail DEF Owns
<1>3. ASSUME NEW c \in Callers, c \notin Waiting, lockQ' = Append(lockQ, c),
             Waiting' = Waiting \cup {c}
      PROVE  LineIs'
  BY <1>0, <1>3, LineAppend
<1>4. ASSUME UNCHANGED poolVars PROVE LineIs'
  BY <1>1, <1>4 DEF poolVars, Waiting
<1>5. ASSUME NEW k \in Conn, PeerCloses(k) \/ PeerResets(k) PROVE LineIs'
  BY <1>1, <1>5 DEF PeerCloses, PeerResets, Waiting
<1>6. ASSUME NEW c \in Callers, AcquireIdle(c) \/ AcquirePark(c) \/ TakeReturned(c)
      PROVE  LineIs'
  BY <1>1, <1>6 DEF AcquireIdle, AcquirePark, TakeReturned, TypeOK, Waiting
<1>7. ASSUME NEW c \in Callers, NEW h \in BOOLEAN, ReleaseToIdle(c, h) \/ ReleaseClose(c, h)
      PROVE  LineIs'
  BY <1>1, <1>7 DEF ReleaseToIdle, ReleaseClose, TypeOK, Waiting
<1>8. ASSUME NEW c \in Callers, LockedCreate(c) \/ ClosedUncount(c) PROVE LineIs'
  BY <1>1, <1>8 DEF LockedCreate, ClosedUncount, TypeOK, Waiting
<1>9. ASSUME NEW c \in Callers, AcquireWaitLock(c) PROVE LineIs'
  BY <1>3, <1>9 DEF AcquireWaitLock, TypeOK, Waiting
<1>10. ASSUME NEW c \in Callers, ClosedWaitLock(c) PROVE LineIs'
  BY <1>3, <1>10 DEF ClosedWaitLock, TypeOK, Waiting
<1>11. ASSUME NEW c \in Callers, AcquireCreate(c) PROVE LineIs'
  <2>1. Waiting' = Waiting \cup {c}
    BY <1>11 DEF AcquireCreate, TypeOK, Waiting
  <2>2. c \notin Waiting /\ lockQ' = Append(lockQ, c)
    BY <1>11 DEF AcquireCreate, TypeOK, Waiting
  <2> QED
    BY <1>3, <2>1, <2>2
<1>12. ASSUME NEW c \in Callers, LockedTake(c) \/ LockedPark(c) \/ Uncount(c)
       PROVE  LineIs'
  BY <1>2, <1>12 DEF LockedTake, LockedPark, Uncount, TypeOK, Waiting
<1>13. ASSUME NEW c \in Callers, ConnectOK(c) \/ ConnectFail(c) PROVE LineIs'
  BY <1>0, <1>2, <1>13 DEF ConnectOK, ConnectFail, OnlyOwnerConnects, TypeOK, Waiting
<1>14. LineIs'
  BY <1>4, <1>5, <1>6, <1>7, <1>8, <1>9, <1>10, <1>11, <1>12, <1>13, StepCases
<1>15. OnlyOwnerConnects'
  BY <1>0, OwnerStep
<1> QED
  BY <1>14, <1>15 DEF LockLine, NoDuplicates, Line, OnlyOwnerConnects

\* The line of _create_lock is exactly who waits for it or owns it, and only
\* its owner connects: nobody is forgotten in it, for every number of callers.
THEOREM LineIsExact == Spec => []LockLine
<1>1. Init => LockLine
  BY DEF Init, LockLine, Waiting, Owns
<1>2. TypeOK /\ LockLine /\ [Next]_poolVars => LockLine'
  BY LineStep
<1> QED
  BY <1>1, <1>2, TypeCorrect, PTL DEF Spec

\* Who is between the end of acquire and the end of release holds a
\* connection, nobody else does, and none that this side has closed.
THEOREM HeldIsOpen == Spec => []Holding
<1>1. IndInv => Holding
  BY DEF IndInv
<1> QED
  BY <1>1, Inductive, PTL
=============================================================================
