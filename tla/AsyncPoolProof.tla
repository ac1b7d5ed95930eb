---------------------------- MODULE AsyncPoolProof ----------------------------
(***************************************************************************)
(* Proofs about AsyncPool for every set of leases and sessions and every   *)
(* configuration: the type invariant, the conservation of permits, the     *)
(* capacity bound, that a connection has one owner, that what a checkout   *)
(* can be given is fit for it, and that the books of the pool (permits,    *)
(* total, sessions that are up) balance.                                   *)
(***************************************************************************)
EXTENDS AsyncPool, FiniteSetTheorems, SequenceTheorems, TLAPS

\* A lease between pop (or connect) and store (or close) has a connection
Owning == {"vet", "probe", "held", "finish", "rollback", "store", "retire", "check", "await"}
ConnKnown == \A l \in Leases : pc[l] \in Owning => conn[l] \in Sessions

\* What is on the stack is below its top
LEMMA BelowTopFacts ==
  ASSUME NEW S, NEW s \in Seq(S), s # <<>>
  PROVE  /\ BelowTop(s) \in Seq(S)
         /\ Len(BelowTop(s)) = Len(s) - 1
         /\ \A i \in DOMAIN BelowTop(s) : i \in DOMAIN s /\ i # Len(s) /\ BelowTop(s)[i] = s[i]
         /\ Len(s) \in DOMAIN s
         /\ s[Len(s)] \in S
<1>1. Len(s) \in Nat \ {0} /\ DOMAIN s = 1..Len(s)
  BY EmptySeq, LenProperties
<1>2. \A i \in 1..Len(s) : s[i] \in S
  BY ElementOfSeq
<1>3. \A i \in 1..(Len(s) - 1) : s[i] \in S
  BY <1>1, <1>2
<1>4. /\ BelowTop(s) \in Seq(S)
      /\ Len(BelowTop(s)) = Len(s) - 1
      /\ \A i \in 1..(Len(s) - 1) : BelowTop(s)[i] = s[i]
  BY <1>1, <1>3, SubSeqProperties DEF BelowTop
<1>5. DOMAIN BelowTop(s) = 1..(Len(s) - 1)
  BY <1>4, LenProperties
<1> QED
  BY <1>1, <1>2, <1>4, <1>5

-----------------------------------------------------------------------------
(* The type invariant *)

\* Each helper that several actions share keeps the types of what it sets
LEMMA FreeSlotTypes ==
  ASSUME TypeOK, ConnKnown, NEW l \in Leases, FreeSlot(l)
  PROVE  /\ permits' \in Nat
         /\ pc' = [pc EXCEPT ![l] = "none"]
         /\ role' \in [Leases -> {"checkout", "orphan", "return"}]
         /\ conn' \in [Leases -> Sessions \cup {None}]
         /\ registered' \in [Leases -> BOOLEAN]
         /\ ConnKnown'
  BY DEF TypeOK, ConnKnown, Owning, FreeSlot, Go

\* Dropping a Reservation gives up the slot and keeps total a natural number.
LEMMA UnreserveTypes ==
  ASSUME TypeOK, ConnKnown, NEW l \in Leases, Unreserve(l)
  PROVE  /\ FreeSlot(l)
         /\ total' \in Nat
  BY DEF TypeOK, Unreserve, SaturatingSub

\* Every step of the pool keeps the types and the knowledge of who holds a connection.
LEMMA StepTypes ==
  ASSUME PoolAssumption, TypeOK, ConnKnown, [Next]_vars
  PROVE  TypeOK' /\ ConnKnown'
<1> USE PoolAssumption
<1>1. CASE UNCHANGED vars
  BY <1>1 DEF TypeOK, ConnKnown, vars, poolVars, leaseVars, sessVars
<1>2. ASSUME NEW l \in Leases, Checkout(l) PROVE TypeOK' /\ ConnKnown'
  <2>1. CASE AcquirePermit(l)
    BY <2>1 DEF TypeOK, ConnKnown, Owning, AcquirePermit, PermitAvailable, Go, sessVars
  <2>2. CASE AcquireClosed(l)
    BY <2>2 DEF TypeOK, ConnKnown, Owning, AcquireClosed, Go, poolVars, sessVars
  <2>3. CASE PopClosed(l)
    BY <2>3, FreeSlotTypes, UnreserveTypes DEF TypeOK, PopClosed, sessVars
  <2>4. CASE PopIdle(l)
    BY <2>4, BelowTopFacts DEF TypeOK, ConnKnown, PopIdle, Go, sessVars
  <2>5. CASE PopNone(l)
    BY <2>5 DEF TypeOK, ConnKnown, Owning, PopNone, Go, poolVars, sessVars
  <2>6. CASE Vet(l)
    BY <2>6 DEF TypeOK, ConnKnown, Owning, Vet, Go, poolVars, sessVars
  <2>7. CASE ProbeHealthy(l)
    BY <2>7 DEF TypeOK, ConnKnown, Owning, ProbeHealthy, Go, poolVars
  <2>8. CASE ProbeFails(l)
    BY <2>8 DEF TypeOK, ConnKnown, Owning, ProbeFails, Go, poolVars, Life
  <2>9. CASE Register(l)
    BY <2>9 DEF TypeOK, ConnKnown, Owning, Register, Go, sessVars
  <2>10. ASSUME NEW s \in Sessions, ConnectOk(l, s) PROVE TypeOK' /\ ConnKnown'
    <3>1. CASE closed
      <4>1. Unreserve(l)
        BY <2>10, <3>1 DEF ConnectOk
      <4>2. FreeSlot(l) /\ total' \in Nat
        BY <4>1, UnreserveTypes
      <4> QED
        BY <2>10, <3>1, <4>2, FreeSlotTypes DEF TypeOK, ConnectOk, Life
    <3>2. CASE ~closed
      <4>1. /\ uses' \in [Sessions -> Nat]
            /\ dirty' \in [Sessions -> BOOLEAN]
            /\ sess' \in [Sessions -> Life]
        BY <2>10, <3>2 DEF TypeOK, ConnectOk, Life
      <4>2. /\ conn' = [conn EXCEPT ![l] = s]
            /\ pc' = [pc EXCEPT ![l] = "held"]
            /\ UNCHANGED <<permits, total, role, registered, open, alive, idle, closed, ending>>
        BY <2>10, <3>2 DEF ConnectOk, Go
      <4> QED
        BY <4>1, <4>2 DEF TypeOK, ConnKnown, Owning
    <3> QED BY <3>1, <3>2
  <2>11. CASE ConnectFails(l)
    BY <2>11, FreeSlotTypes, UnreserveTypes DEF TypeOK, ConnectFails, sessVars
  <2> QED
    BY <1>2, <2>1, <2>2, <2>3, <2>4, <2>5, <2>6, <2>7, <2>8, <2>9, <2>10, <2>11 DEF Checkout
<1>3. ASSUME NEW l \in Leases, Cleanup(l) PROVE TypeOK' /\ ConnKnown'
  <2>1. CASE Finish(l)
    BY <2>1 DEF TypeOK, ConnKnown, Owning, Finish, Go, poolVars, sessVars
  <2>2. CASE RollbackOk(l)
    BY <2>2 DEF TypeOK, ConnKnown, Owning, RollbackOk, Go, poolVars
  <2>3. CASE RollbackFails(l)
    BY <2>3 DEF TypeOK, ConnKnown, Owning, RollbackFails, AfterFailedRollback, Go, poolVars, Life
  <2>4. CASE Store(l)
    <3>1. conn[l] \in Sessions
      BY <2>4 DEF ConnKnown, Owning, Store
    <3>2. CASE Storable
      <4>1. /\ idle' = Append(idle, conn[l])
            /\ conn' = [conn EXCEPT ![l] = None]
            /\ registered' = [registered EXCEPT ![l] = FALSE]
            /\ pc' = [pc EXCEPT ![l] = "stored"]
            /\ UNCHANGED <<permits, open, alive, total, closed, ending, role, uses, dirty, sess>>
        BY <2>4, <3>2 DEF Store, Go, sessVars
      <4>2. idle' \in Seq(Sessions)
        BY <3>1, <4>1, AppendProperties DEF TypeOK
      <4> QED
        BY <4>1, <4>2 DEF TypeOK, ConnKnown, Owning
    <3>3. CASE ~Storable
      BY <2>4, <3>3 DEF TypeOK, ConnKnown, Owning, Store, Go, sessVars
    <3> QED BY <3>2, <3>3
  <2>5. CASE StoreDone(l)
    BY <2>5, FreeSlotTypes, UnreserveTypes DEF TypeOK, StoreDone, sessVars
  <2>6. CASE CloseCall(l)
    BY <2>6 DEF TypeOK, ConnKnown, Owning, CloseCall, CloseFlag, Stopped, Go, poolVars, Life
  <2>7. ASSUME CloseDone(l), UNCHANGED <<open, alive, idle, closed, ending, sessVars>>
        PROVE  TypeOK' /\ ConnKnown'
    <3>1. CASE role[l] = "checkout"
      <4>1. /\ total' \in Nat
            /\ conn' = [conn EXCEPT ![l] = None]
            /\ pc' = [pc EXCEPT ![l] = "pop"]
            /\ UNCHANGED <<permits, role, registered>>
        BY <2>7, <3>1 DEF TypeOK, CloseDone, Go, SaturatingSub
      <4> QED
        BY <2>7, <4>1 DEF TypeOK, ConnKnown, Owning, sessVars
    <3>2. CASE role[l] = "orphan"
      <4>1. FreeSlot(l) /\ total' \in Nat
        BY <2>7, <3>2 DEF TypeOK, CloseDone, SaturatingSub
      <4> QED
        BY <2>7, <4>1, FreeSlotTypes DEF TypeOK, sessVars
    <3>3. CASE role[l] = "return"
      <4>1. FreeSlot(l) /\ total' \in Nat
        BY <2>7, <3>3, UnreserveTypes DEF CloseDone
      <4> QED
        BY <2>7, <4>1, FreeSlotTypes DEF TypeOK, sessVars
    <3> QED BY <3>1, <3>2, <3>3 DEF TypeOK
  <2>8. CASE CloseCheck(l)
    <3>1. CASE IsClosed(conn[l])
      BY <2>7, <2>8, <3>1 DEF CloseCheck
    <3>2. CASE ~IsClosed(conn[l])
      BY <2>8, <3>2 DEF TypeOK, ConnKnown, Owning, CloseCheck, Go, sessVars
    <3> QED BY <3>1, <3>2
  <2>9. CASE CloseFinished(l)
    BY <2>7, <2>9 DEF CloseFinished
  <2> QED
    BY <1>3, <2>1, <2>2, <2>3, <2>4, <2>5, <2>6, <2>8, <2>9 DEF Cleanup
<1>4. ASSUME NEW l \in Leases, Holder(l) PROVE TypeOK' /\ ConnKnown'
  <2>1. CASE Get(l)
    BY <2>1 DEF TypeOK, ConnKnown, Owning, Get, Go, poolVars, sessVars
  <2>2. CASE Use(l)
    BY <2>2 DEF TypeOK, ConnKnown, Use, Life, poolVars, leaseVars
  <2>3. CASE Release(l)
    BY <2>3 DEF TypeOK, ConnKnown, Owning, Release, Go, poolVars, sessVars
  <2>4. CASE DropWithoutRuntime(l)
    BY <2>4, FreeSlotTypes, UnreserveTypes DEF TypeOK, DropWithoutRuntime, Stopped, Life
  <2>5. CASE AbandonWait(l)
    BY <2>5 DEF TypeOK, ConnKnown, Owning, AbandonWait, Go, poolVars, sessVars
  <2>6. CASE AbandonProbe(l)
    BY <2>6, FreeSlotTypes, UnreserveTypes DEF TypeOK, AbandonProbe, Stopped, Life
  <2>7. CASE AbandonConnect(l)
    BY <2>7, FreeSlotTypes, UnreserveTypes DEF TypeOK, AbandonConnect, ConnectFails, sessVars
  <2>8. CASE AbandonRetire(l)
    BY <2>8 DEF TypeOK, ConnKnown, AbandonRetire, poolVars, sessVars
  <2> QED
    BY <1>4, <2>1, <2>2, <2>3, <2>4, <2>5, <2>6, <2>7, <2>8 DEF Holder
<1>5. CASE EndPermits
  BY <1>5 DEF TypeOK, ConnKnown, EndPermits, leaseVars, sessVars
<1>6. CASE EndTake
  BY <1>6 DEF TypeOK, ConnKnown, EndTake, SaturatingSub, leaseVars, sessVars
<1>7. CASE EndStop
  BY <1>7 DEF TypeOK, ConnKnown, EndStop, Life, poolVars, leaseVars
<1>8. CASE EndNext
  BY <1>8 DEF TypeOK, ConnKnown, EndNext, leaseVars, sessVars
<1>9. CASE AbandonEnd
  BY <1>9 DEF TypeOK, ConnKnown, AbandonEnd, Stopped, Life, leaseVars
<1>10. CASE DropPool
  <2>1. sess' \in [Sessions -> Life]
    BY <1>10 DEF TypeOK, DropPool, Stopped, Life
  <2>2. total' \in Nat
    BY <1>10 DEF TypeOK, DropPool, SaturatingSub
  <2> QED
    BY <1>10, <2>1, <2>2 DEF TypeOK, ConnKnown, DropPool, leaseVars
<1>11. ASSUME NEW s \in Sessions, SessionDrains(s) \/ SessionGone(s) PROVE TypeOK' /\ ConnKnown'
  BY <1>11 DEF TypeOK, ConnKnown, SessionDrains, SessionGone, Life, poolVars, leaseVars
<1> QED
  BY <1>1, <1>2, <1>3, <1>4, <1>5, <1>6, <1>7, <1>8, <1>9, <1>10, <1>11 DEF Next, Ending

\* A new pool has the types.
LEMMA InitTypes ==
  ASSUME Init PROVE TypeOK /\ ConnKnown
<1>1. permits \in Nat /\ total \in Nat
  BY PoolAssumption DEF PoolAssumption, Init
<1>2. open \in BOOLEAN /\ alive \in BOOLEAN /\ closed \in BOOLEAN
  BY DEF Init
<1>3. idle \in Seq(Sessions) /\ ending \in Seq(Sessions)
  BY EmptySeq DEF Init
<1>4. ConnKnown
  BY DEF Init, ConnKnown, Owning
<1>5. /\ uses \in [Sessions -> Nat]
      /\ dirty \in [Sessions -> BOOLEAN]
      /\ sess \in [Sessions -> Life]
  BY DEF Init, Life
<1>6. /\ role \in [Leases -> {"checkout", "orphan", "return"}]
      /\ conn \in [Leases -> Sessions \cup {None}]
      /\ registered \in [Leases -> BOOLEAN]
  BY DEF Init
<1> QED
  BY <1>1, <1>2, <1>3, <1>4, <1>5, <1>6 DEF TypeOK, Init

\* The type invariant of the pool: every count is a natural number and every
\* idle connection is a session.
THEOREM PoolTypes == Spec => []TypeOK
<1>1. Init => TypeOK /\ ConnKnown
  BY InitTypes
<1>2. TypeOK /\ ConnKnown /\ [Next]_vars => (TypeOK /\ ConnKnown)'
  BY PoolAssumption, StepTypes
<1> QED
  BY <1>1, <1>2, PTL DEF Spec

-----------------------------------------------------------------------------
(* Permits and capacity *)

\* How a move of one lease changes the two counts
LEMMA Counts ==
  ASSUME PoolAssumption, TypeOK, NEW l \in Leases, NEW w, Go(l, w)
  PROVE  /\ Cardinality(Permitted)' =
              IF w \in {"none", "permit"}
              THEN Cardinality(Permitted) - (IF l \in Permitted THEN 1 ELSE 0)
              ELSE Cardinality(Permitted) + (IF l \in Permitted THEN 0 ELSE 1)
         /\ Cardinality(Slots)' =
              IF w \in {"none", "permit", "pop", "stored"}
              THEN Cardinality(Slots) - (IF l \in Slots THEN 1 ELSE 0)
              ELSE Cardinality(Slots) + (IF l \in Slots THEN 0 ELSE 1)
<1>1. IsFiniteSet(Permitted) /\ IsFiniteSet(Slots)
  BY PoolAssumption, FS_Subset DEF PoolAssumption, Permitted, Slots
<1>2. Cardinality(Permitted) \in Nat /\ Cardinality(Slots) \in Nat
  BY <1>1, FS_CardinalityType
<1>3. Permitted' = IF w \in {"none", "permit"} THEN Permitted \ {l} ELSE Permitted \cup {l}
  BY DEF Permitted, Go, TypeOK
<1>4. Slots' = IF w \in {"none", "permit", "pop", "stored"} THEN Slots \ {l} ELSE Slots \cup {l}
  BY DEF Slots, Go, TypeOK
<1>5. /\ Cardinality(Permitted \ {l}) =
           IF l \in Permitted THEN Cardinality(Permitted) - 1 ELSE Cardinality(Permitted)
      /\ Cardinality(Permitted \cup {l}) =
           IF l \in Permitted THEN Cardinality(Permitted) ELSE Cardinality(Permitted) + 1
  BY <1>1, FS_AddElement, FS_RemoveElement
<1>6. /\ Cardinality(Slots \ {l}) =
           IF l \in Slots THEN Cardinality(Slots) - 1 ELSE Cardinality(Slots)
      /\ Cardinality(Slots \cup {l}) =
           IF l \in Slots THEN Cardinality(Slots) ELSE Cardinality(Slots) + 1
  BY <1>1, FS_AddElement, FS_RemoveElement
<1> QED
  BY <1>2, <1>3, <1>4, <1>5, <1>6

\* A lease that accounts for a connection has a permit
LEMMA SlotsPermitted ==
  ASSUME PoolAssumption
  PROVE  /\ Cardinality(Permitted) \in Nat
         /\ Cardinality(Slots) \in Nat
         /\ Cardinality(Slots) <= Cardinality(Permitted)
<1>1. IsFiniteSet(Permitted) /\ IsFiniteSet(Slots) /\ Slots \subseteq Permitted
  BY PoolAssumption, FS_Subset DEF PoolAssumption, Permitted, Slots
<1> QED
  BY <1>1, FS_CardinalityType, FS_Subset

\* One lease moves: its permit and its slot go with it
Permit(where) == IF where \in {"none", "permit"} THEN 0 ELSE 1
Slot(where) == IF where \in {"none", "permit", "pop", "stored"} THEN 0 ELSE 1

CapacityInv == PermitsConserved /\ CapacityBound

\* A lease that moves between program points keeps the capacity invariant if
\* permits follow what the points hold and the idle stack does not outgrow them.
LEMMA MoveKeepsCapacity ==
  ASSUME PoolAssumption, TypeOK, TypeOK', CapacityInv,
         NEW l \in Leases, NEW w, Go(l, w),
         permits' = permits + Permit(pc[l]) - Permit(w),
         Len(idle') + Slot(w) <= Len(idle) + Slot(pc[l]) \/ idle' = <<>>
  PROVE  CapacityInv'
<1>1. /\ Cardinality(Permitted)' = Cardinality(Permitted) + Permit(w) - Permit(pc[l])
      /\ Cardinality(Slots)' = Cardinality(Slots) + Slot(w) - Slot(pc[l])
  <2>1. (l \in Permitted <=> Permit(pc[l]) = 1) /\ (l \in Slots <=> Slot(pc[l]) = 1)
    BY DEF Permitted, Slots, Permit, Slot
  <2>2. Cardinality(Permitted) \in Nat /\ Cardinality(Slots) \in Nat
    BY SlotsPermitted
  <2> QED
    BY <2>1, <2>2, Counts DEF Permit, Slot
<1>2. /\ Cardinality(Permitted) \in Nat /\ Cardinality(Slots) \in Nat
      /\ permits \in Nat /\ permits' \in Nat
      /\ Len(idle) \in Nat /\ Len(idle') \in Nat
  BY SlotsPermitted, LenProperties DEF TypeOK
<1>3. Permit(w) \in {0, 1} /\ Permit(pc[l]) \in {0, 1} /\ Slot(w) \in {0, 1} /\ Slot(pc[l]) \in {0, 1}
  BY DEF Permit, Slot
<1>4. Max \in Nat
  BY DEF PoolAssumption
<1>5. PermitsConserved'
  BY <1>1, <1>2, <1>3, <1>4 DEF CapacityInv, PermitsConserved
<1>6. CASE idle' = <<>>
  <2>1. Cardinality(Slots)' <= Cardinality(Permitted)' /\ Cardinality(Slots)' \in Nat
    <3>1. IsFiniteSet(Permitted') /\ IsFiniteSet(Slots') /\ Slots' \subseteq Permitted'
      BY PoolAssumption, FS_Subset DEF PoolAssumption, Permitted, Slots
    <3> QED
      BY <3>1, FS_CardinalityType, FS_Subset
  <2> QED
    BY <1>1, <1>2, <1>3, <1>4, <1>5, <1>6, <2>1, EmptySeq DEF CapacityInv, PermitsConserved, CapacityBound
<1>7. CASE Len(idle') + Slot(w) <= Len(idle) + Slot(pc[l])
  BY <1>1, <1>2, <1>3, <1>4, <1>5, <1>7 DEF CapacityInv, CapacityBound
<1> QED
  BY <1>6, <1>7

\* A step that moves no lease keeps it if the idle stack stays or is emptied.
LEMMA StayKeepsCapacity ==
  ASSUME TypeOK, TypeOK', CapacityInv, PoolAssumption, UNCHANGED <<pc, permits>>,
         idle' = idle \/ idle' = <<>>
  PROVE  CapacityInv'
<1>1. Permitted' = Permitted /\ Slots' = Slots
  BY DEF Permitted, Slots
<1>2. Len(idle') \in Nat /\ Len(idle) \in Nat /\ Len(idle') <= Len(idle)
  BY LenProperties, EmptySeq DEF TypeOK
<1> QED
  BY <1>1, <1>2, SlotsPermitted DEF CapacityInv, PermitsConserved, CapacityBound, PoolAssumption

\* Every step of the pool keeps the capacity invariant.
LEMMA StepCapacity ==
  ASSUME PoolAssumption, TypeOK, TypeOK', ConnKnown, CapacityInv, [Next]_vars
  PROVE  CapacityInv'
<1> USE PoolAssumption DEF Permit, Slot
<1>0. Len(idle) \in Nat /\ permits \in Nat
  BY LenProperties DEF TypeOK
<1>1. CASE UNCHANGED vars
  BY <1>1, StayKeepsCapacity DEF vars, poolVars, leaseVars
<1>2. ASSUME NEW l \in Leases, Unreserve(l) \/ FreeSlot(l), UNCHANGED idle,
             pc[l] \notin {"none", "permit"}
      PROVE  CapacityInv'
  <2>1. Go(l, "none") /\ permits' = permits + 1
    BY <1>2 DEF Unreserve, FreeSlot
  <2> QED
    BY <1>0, <1>2, <2>1, MoveKeepsCapacity
<1>3. ASSUME NEW l \in Leases, NEW w, Go(l, w), UNCHANGED <<permits, idle>>,
             Permit(pc[l]) = Permit(w), Slot(w) <= Slot(pc[l])
      PROVE  CapacityInv'
  BY <1>0, <1>3, MoveKeepsCapacity
<1>4. ASSUME NEW l \in Leases, Checkout(l) PROVE CapacityInv'
  <2>1. CASE AcquirePermit(l)
    BY <1>0, <2>1, MoveKeepsCapacity DEF AcquirePermit
  <2>2. CASE AcquireClosed(l)
    BY <1>3, <2>2 DEF AcquireClosed, poolVars
  <2>3. CASE PopClosed(l)
    BY <1>2, <2>3 DEF PopClosed
  <2>4. CASE PopIdle(l)
    <3>1. Len(idle') = Len(idle) - 1
      BY <2>4, BelowTopFacts DEF PopIdle, TypeOK
    <3> QED
      BY <1>0, <2>4, <3>1, MoveKeepsCapacity DEF PopIdle
  <2>5. CASE PopNone(l)
    BY <1>0, <2>5, MoveKeepsCapacity DEF PopNone, NothingIdle, poolVars
  <2>6. CASE Vet(l)
    BY <1>3, <2>6 DEF Vet, poolVars
  <2>7. CASE ProbeHealthy(l)
    BY <1>3, <2>7 DEF ProbeHealthy, poolVars
  <2>8. CASE ProbeFails(l)
    BY <1>3, <2>8 DEF ProbeFails, poolVars
  <2>9. CASE Register(l)
    BY <1>3, <2>9 DEF Register
  <2>10. ASSUME NEW s \in Sessions, ConnectOk(l, s) PROVE CapacityInv'
    <3>1. CASE closed
      BY <1>2, <2>10, <3>1 DEF ConnectOk
    <3>2. CASE ~closed
      BY <1>3, <2>10, <3>2 DEF ConnectOk
    <3> QED BY <3>1, <3>2
  <2>11. CASE ConnectFails(l)
    BY <1>2, <2>11 DEF ConnectFails
  <2> QED
    BY <1>4, <2>1, <2>2, <2>3, <2>4, <2>5, <2>6, <2>7, <2>8, <2>9, <2>10, <2>11 DEF Checkout
<1>5. ASSUME NEW l \in Leases, Cleanup(l) PROVE CapacityInv'
  <2>1. CASE Finish(l)
    BY <1>3, <2>1 DEF Finish, poolVars
  <2>2. CASE RollbackOk(l)
    BY <1>3, <2>2 DEF RollbackOk, poolVars
  <2>3. CASE RollbackFails(l)
    BY <1>3, <2>3 DEF RollbackFails, AfterFailedRollback, poolVars
  <2>4. CASE Store(l)
    <3>1. CASE Storable
      <4>1. conn[l] \in Sessions
        BY <2>4 DEF ConnKnown, Owning, Store
      <4>2. Len(idle') = Len(idle) + 1
        BY <2>4, <3>1, <4>1, AppendProperties DEF Store, TypeOK
      <4> QED
        BY <1>0, <2>4, <3>1, <4>2, MoveKeepsCapacity DEF Store
    <3>2. CASE ~Storable
      BY <1>3, <2>4, <3>2 DEF Store
    <3> QED BY <3>1, <3>2
  <2>5. CASE StoreDone(l)
    BY <1>2, <2>5 DEF StoreDone
  <2>6. CASE CloseCall(l)
    BY <1>3, <2>6 DEF CloseCall, poolVars
  <2>7. ASSUME CloseDone(l), UNCHANGED idle, pc[l] \in {"check", "await"} PROVE CapacityInv'
    <3>1. CASE role[l] = "checkout"
      BY <1>3, <2>7, <3>1 DEF CloseDone
    <3>2. CASE role[l] # "checkout"
      BY <1>2, <2>7, <3>2 DEF CloseDone
    <3> QED BY <3>1, <3>2
  <2>8. CASE CloseCheck(l)
    <3>1. CASE IsClosed(conn[l])
      BY <2>7, <2>8, <3>1 DEF CloseCheck
    <3>2. CASE ~IsClosed(conn[l])
      BY <1>3, <2>8, <3>2 DEF CloseCheck
    <3> QED BY <3>1, <3>2
  <2>9. CASE CloseFinished(l)
    BY <2>7, <2>9 DEF CloseFinished
  <2> QED
    BY <1>5, <2>1, <2>2, <2>3, <2>4, <2>5, <2>6, <2>8, <2>9 DEF Cleanup
<1>6. ASSUME NEW l \in Leases, Holder(l) PROVE CapacityInv'
  <2>1. CASE Get(l)
    BY <1>3, <2>1 DEF Get, poolVars
  <2>2. CASE Use(l)
    BY <2>2, StayKeepsCapacity DEF Use, poolVars, leaseVars
  <2>3. CASE Release(l)
    BY <1>3, <2>3 DEF Release, poolVars
  <2>4. CASE DropWithoutRuntime(l)
    BY <1>2, <2>4 DEF DropWithoutRuntime
  <2>5. CASE AbandonWait(l)
    BY <1>3, <2>5 DEF AbandonWait, poolVars
  <2>6. CASE AbandonProbe(l)
    BY <1>2, <2>6 DEF AbandonProbe
  <2>7. CASE AbandonConnect(l)
    BY <1>2, <2>7 DEF AbandonConnect, ConnectFails
  <2>8. CASE AbandonRetire(l)
    BY <2>8, StayKeepsCapacity DEF AbandonRetire, poolVars
  <2> QED
    BY <1>6, <2>1, <2>2, <2>3, <2>4, <2>5, <2>6, <2>7, <2>8 DEF Holder
<1>7. CASE EndPermits \/ Ending \/ AbandonEnd \/ DropPool
  BY <1>7, StayKeepsCapacity
     DEF EndPermits, Ending, EndTake, EndStop, EndNext, AbandonEnd, DropPool, poolVars, leaseVars
<1>8. ASSUME NEW s \in Sessions, SessionDrains(s) \/ SessionGone(s) PROVE CapacityInv'
  BY <1>8, StayKeepsCapacity DEF SessionDrains, SessionGone, poolVars, leaseVars
<1> QED
  BY <1>1, <1>4, <1>5, <1>6, <1>7, <1>8 DEF Next

\* No step of a checkout, a return, a retirement or a shutdown, in any order
\* and for any number of callers, loses or forges a permit of the semaphore,
\* and idle connections plus leases that account for one never exceed max.
THEOREM PoolCapacity == Spec => [](PermitsConserved /\ CapacityBound)
<1>1. Init => TypeOK /\ ConnKnown /\ CapacityInv
  <2> SUFFICES ASSUME Init PROVE TypeOK /\ ConnKnown /\ CapacityInv
    OBVIOUS
  <2>1. TypeOK /\ ConnKnown
    BY InitTypes
  <2>2. Permitted = {} /\ Slots = {}
    BY DEF Init, Permitted, Slots
  <2>3. CapacityInv
    BY <2>2, PoolAssumption, FS_EmptySet, EmptySeq
       DEF PoolAssumption, Init, CapacityInv, PermitsConserved, CapacityBound
  <2> QED
    BY <2>1, <2>3
<1>2. TypeOK /\ ConnKnown /\ CapacityInv /\ [Next]_vars => (TypeOK /\ ConnKnown /\ CapacityInv)'
  BY PoolAssumption, StepTypes, StepCapacity
<1> QED
  BY <1>1, <1>2, PTL DEF Spec, CapacityInv

-----------------------------------------------------------------------------
(* Ownership *)

\* A lease that lets go of its connection leaves at most one owner.
LEMMA ClearKeepsOwner ==
  ASSUME TypeOK, OneOwner, NEW l \in Leases,
         conn' = [conn EXCEPT ![l] = None], UNCHANGED idle
  PROVE  OneOwner'
  BY DEF TypeOK, OneOwner

\* Popping the idle stack moves a connection from it to one lease.
LEMMA PopKeepsOwner ==
  ASSUME TypeOK, OneOwner, NEW l \in Leases, PopIdle(l)
  PROVE  OneOwner'
<1>1. /\ idle # <<>>
      /\ conn' = [conn EXCEPT ![l] = idle[Len(idle)]]
      /\ idle' = BelowTop(idle)
  BY DEF PopIdle
<1>2. /\ \A i \in DOMAIN idle' : i \in DOMAIN idle /\ i # Len(idle) /\ idle'[i] = idle[i]
      /\ Len(idle) \in DOMAIN idle
  BY <1>1, BelowTopFacts DEF TypeOK
<1>3. /\ \A i, j \in DOMAIN idle : idle[i] = idle[j] => i = j
      /\ \A k \in Leases : conn[k] # None => idle[Len(idle)] # conn[k]
  BY <1>2 DEF OneOwner
<1>4. \A i, j \in DOMAIN idle' : idle'[i] = idle'[j] => i = j
  BY <1>2, <1>3
<1>5. ASSUME NEW k \in Leases, conn'[k] # None
      PROVE  \A i \in DOMAIN idle' : idle'[i] # conn'[k]
  <2>1. CASE k = l
    <3>1. conn'[k] = idle[Len(idle)]
      BY <1>1, <2>1 DEF TypeOK
    <3>2. \A i \in DOMAIN idle' : idle'[i] = idle[i] /\ idle[i] # idle[Len(idle)]
      BY <1>2, <1>3
    <3>3. QED BY <3>1, <3>2
  <2>2. CASE k # l
    <3>1. conn'[k] = conn[k]
      BY <1>1, <2>2 DEF TypeOK
    <3>2. \A i \in DOMAIN idle : idle[i] # conn[k]
      BY <1>5, <3>1 DEF OneOwner
    <3>3. QED BY <1>2, <3>1, <3>2
  <2>3. QED BY <2>1, <2>2
<1>6. ASSUME NEW k \in Leases, NEW m \in Leases, conn'[k] # None, conn'[m] = conn'[k]
      PROVE  m = k
  BY <1>1, <1>3, <1>6 DEF TypeOK, OneOwner
<1> QED
  BY <1>4, <1>5, <1>6 DEF OneOwner

\* Storing a connection on return moves it from its lease to the idle stack.
LEMMA StoreKeepsOwner ==
  ASSUME TypeOK, ConnKnown, OneOwner, PoolAssumption, NEW l \in Leases, Store(l)
  PROVE  OneOwner'
<1>1. CASE ~Storable
  BY <1>1 DEF Store, OneOwner
<1>2. CASE Storable
  <2>1. /\ conn[l] \in Sessions /\ conn[l] # None
        /\ idle' = Append(idle, conn[l])
        /\ conn' = [conn EXCEPT ![l] = None]
    BY <1>2 DEF Store, ConnKnown, Owning, PoolAssumption
  <2>2. /\ DOMAIN idle = 1..Len(idle) /\ Len(idle) \in Nat
        /\ DOMAIN idle' = 1..(Len(idle) + 1)
        /\ \A i \in DOMAIN idle : idle'[i] = idle[i]
        /\ idle'[Len(idle) + 1] = conn[l]
    BY <2>1, AppendProperties, LenProperties DEF TypeOK
  <2>3. \A i \in DOMAIN idle' : i \in DOMAIN idle \/ i = Len(idle) + 1
    BY <2>2
  <2>4. /\ \A i, j \in DOMAIN idle : idle[i] = idle[j] => i = j
        /\ \A i \in DOMAIN idle : idle[i] # conn[l]
        /\ \A k \in Leases : conn[k] = conn[l] => k = l
    BY <2>1 DEF OneOwner
  <2>5. \A i, j \in DOMAIN idle' : idle'[i] = idle'[j] => i = j
    BY <2>2, <2>3, <2>4
  <2>6. ASSUME NEW k \in Leases, conn'[k] # None
        PROVE  k # l /\ conn'[k] = conn[k]
    BY <2>1, <2>6 DEF TypeOK
  <2>7. ASSUME NEW k \in Leases, conn'[k] # None
        PROVE  \A i \in DOMAIN idle' : idle'[i] # conn'[k]
    <3>1. k # l /\ conn'[k] = conn[k]
      BY <2>6, <2>7
    <3> QED
      BY <2>2, <2>3, <2>4, <2>7, <3>1 DEF OneOwner
  <2>8. ASSUME NEW k \in Leases, NEW m \in Leases, conn'[k] # None, conn'[m] = conn'[k]
        PROVE  m = k
    BY <2>6, <2>8 DEF OneOwner
  <2> QED
    BY <2>5, <2>7, <2>8 DEF OneOwner
<1> QED
  BY <1>1, <1>2

\* Every step of the pool leaves each connection with at most one owner.
LEMMA StepOwner ==
  ASSUME PoolAssumption, TypeOK, ConnKnown, OneOwner, [Next]_vars
  PROVE  OneOwner'
<1>1. ASSUME UNCHANGED <<idle, conn>> PROVE OneOwner'
  BY <1>1 DEF OneOwner
<1>2. ASSUME idle' = <<>>, UNCHANGED conn PROVE OneOwner'
  BY <1>2 DEF OneOwner
<1>3. ASSUME NEW l \in Leases, Unreserve(l) \/ FreeSlot(l), UNCHANGED idle PROVE OneOwner'
  BY <1>3, ClearKeepsOwner DEF Unreserve, FreeSlot
<1>4. CASE UNCHANGED vars
  BY <1>1, <1>4 DEF vars, poolVars, leaseVars
<1>5. ASSUME NEW l \in Leases, Checkout(l) PROVE OneOwner'
  <2>1. CASE AcquirePermit(l) \/ AcquireClosed(l) \/ PopNone(l) \/ Vet(l)
    BY <1>1, <2>1 DEF AcquirePermit, AcquireClosed, PopNone, Vet, poolVars
  <2>2. CASE ProbeHealthy(l) \/ ProbeFails(l) \/ Register(l)
    BY <1>1, <2>2 DEF ProbeHealthy, ProbeFails, Register, poolVars
  <2>3. CASE PopClosed(l) \/ ConnectFails(l)
    BY <1>3, <2>3 DEF PopClosed, ConnectFails
  <2>4. CASE PopIdle(l)
    BY <2>4, PopKeepsOwner
  <2>5. ASSUME NEW s \in Sessions, ConnectOk(l, s) PROVE OneOwner'
    <3>1. CASE closed
      BY <1>3, <2>5, <3>1 DEF ConnectOk
    <3>2. CASE ~closed
      <4>1. conn' = [conn EXCEPT ![l] = s] /\ idle' = idle
        BY <2>5, <3>2 DEF ConnectOk
      <4>2. (\A k \in Leases : conn[k] # s) /\ (\A i \in DOMAIN idle : idle[i] # s)
        BY <2>5 DEF ConnectOk, Unused
      <4> QED
        BY <4>1, <4>2 DEF TypeOK, OneOwner
    <3> QED BY <3>1, <3>2
  <2> QED
    BY <1>5, <2>1, <2>2, <2>3, <2>4, <2>5 DEF Checkout
<1>6. ASSUME NEW l \in Leases, Cleanup(l) PROVE OneOwner'
  <2>1. CASE Finish(l) \/ RollbackOk(l) \/ RollbackFails(l) \/ CloseCall(l)
    BY <1>1, <2>1 DEF Finish, RollbackOk, RollbackFails, CloseCall, poolVars
  <2>2. CASE Store(l)
    BY <2>2, StoreKeepsOwner
  <2>3. CASE StoreDone(l)
    BY <1>3, <2>3 DEF StoreDone
  <2>4. ASSUME CloseDone(l), UNCHANGED idle PROVE OneOwner'
    BY <1>3, <2>4, ClearKeepsOwner DEF CloseDone
  <2>5. CASE CloseCheck(l)
    BY <1>1, <2>4, <2>5 DEF CloseCheck
  <2>6. CASE CloseFinished(l)
    BY <2>4, <2>6 DEF CloseFinished
  <2> QED
    BY <1>6, <2>1, <2>2, <2>3, <2>5, <2>6 DEF Cleanup
<1>7. ASSUME NEW l \in Leases, Holder(l) PROVE OneOwner'
  <2>1. CASE Get(l) \/ Use(l) \/ Release(l) \/ AbandonWait(l) \/ AbandonRetire(l)
    BY <1>1, <2>1 DEF Get, Use, Release, AbandonWait, AbandonRetire, poolVars, leaseVars
  <2>2. CASE DropWithoutRuntime(l) \/ AbandonProbe(l) \/ AbandonConnect(l)
    BY <1>3, <2>2 DEF DropWithoutRuntime, AbandonProbe, AbandonConnect, ConnectFails
  <2> QED
    BY <1>7, <2>1, <2>2 DEF Holder
<1>8. CASE EndPermits \/ Ending \/ AbandonEnd \/ DropPool
  BY <1>1, <1>2, <1>8
     DEF EndPermits, Ending, EndTake, EndStop, EndNext, AbandonEnd, DropPool, poolVars, leaseVars
<1>9. ASSUME NEW s \in Sessions, SessionDrains(s) \/ SessionGone(s) PROVE OneOwner'
  BY <1>1, <1>9 DEF SessionDrains, SessionGone, poolVars, leaseVars
<1> QED
  BY <1>4, <1>5, <1>6, <1>7, <1>8, <1>9 DEF Next

\* A connection is never handed to two leases, and never on the stack while a
\* lease has it or twice, whatever is abandoned, retired or returned late.
THEOREM PoolOwnership == Spec => []OneOwner
<1>1. Init => TypeOK /\ ConnKnown /\ OneOwner
  <2> SUFFICES ASSUME Init PROVE TypeOK /\ ConnKnown /\ OneOwner
    OBVIOUS
  <2>1. OneOwner
    BY DEF Init, OneOwner
  <2> QED
    BY <2>1, InitTypes
<1>2. TypeOK /\ ConnKnown /\ OneOwner /\ [Next]_vars => (TypeOK /\ ConnKnown /\ OneOwner)'
  BY PoolAssumption, StepTypes, StepOwner
<1> QED
  BY <1>1, <1>2, PTL DEF Spec

-----------------------------------------------------------------------------
(* What is idle is fit to be handed out *)

\* A rollback precedes the store, and the probe follows the check of uses
RolledBack == RollbackOnRelease => \A l \in Leases : pc[l] = "store" => ~dirty[conn[l]]
UsesLeft == \A l \in Leases : pc[l] = "probe" => uses[conn[l]] < MaxUses

FitInv == IdleIsFit /\ RolledBack /\ UsesLeft

\* A lease that goes where nothing is promised about its session, while no
\* session changes, keeps the rest fit.
LEMMA MoveKeepsFit ==
  ASSUME TypeOK, FitInv, NEW l \in Leases, NEW w, Go(l, w), w \notin {"probe", "held", "store"},
         \A k \in Leases \ {l} : conn'[k] = conn[k],
         UNCHANGED <<uses, dirty, closed, idle>>
  PROVE  FitInv'
<1>1. \A k \in Leases : pc'[k] \in {"probe", "held", "store"} => pc'[k] = pc[k] /\ conn'[k] = conn[k]
  BY DEF TypeOK, Go
<1>2. IdleIsFit'
  BY <1>1 DEF FitInv, IdleIsFit, IdleIsClean, UsesBounded, ClosedKeepsNothing
<1>3. RolledBack' /\ UsesLeft'
  BY <1>1 DEF FitInv, RolledBack, UsesLeft
<1> QED
  BY <1>2, <1>3 DEF FitInv

\* A step that moves no lease keeps everything fit if the stack stays or is emptied.
LEMMA StayKeepsFit ==
  ASSUME FitInv, UNCHANGED <<pc, conn, uses, dirty>>,
         (idle' = idle /\ closed' = closed) \/ idle' = <<>>
  PROVE  FitInv'
<1>1. IdleIsFit'
  BY DEF FitInv, IdleIsFit, IdleIsClean, UsesBounded, ClosedKeepsNothing
<1>2. RolledBack' /\ UsesLeft'
  BY DEF FitInv, RolledBack, UsesLeft
<1> QED
  BY <1>1, <1>2 DEF FitInv

\* No other lease has the connection of a lease, and it is not on the stack
LEMMA Mine ==
  ASSUME PoolAssumption, ConnKnown, OneOwner, NEW l \in Leases, pc[l] \in Owning
  PROVE  /\ conn[l] \in Sessions
         /\ \A i \in DOMAIN idle : idle[i] # conn[l]
         /\ \A k \in Leases \ {l} : conn[k] # conn[l]
<1>1. conn[l] \in Sessions /\ conn[l] # None
  BY DEF ConnKnown, PoolAssumption
<1> QED
  BY <1>1 DEF OneOwner

\* The checks of a checkout: what it is given has uses left and is clean.
LEMMA CheckoutKeepsFit ==
  ASSUME PoolAssumption, TypeOK, ConnKnown, OneOwner, FitInv, NEW l \in Leases, Checkout(l)
  PROVE  FitInv'
<1>1. CASE AcquirePermit(l) \/ AcquireClosed(l) \/ PopNone(l)
  BY <1>1, MoveKeepsFit DEF AcquirePermit, AcquireClosed, PopNone, poolVars, sessVars
<1>2. CASE PopClosed(l) \/ ConnectFails(l)
  <2>1. Go(l, "none") /\ conn' = [conn EXCEPT ![l] = None] /\ UNCHANGED <<uses, dirty, closed, idle>>
    BY <1>2 DEF PopClosed, ConnectFails, Unreserve, FreeSlot, sessVars
  <2> QED
    BY <2>1, MoveKeepsFit DEF TypeOK
<1>3. CASE PopIdle(l)
  <2>1. /\ pc' = [pc EXCEPT ![l] = "vet"]
        /\ ~closed
        /\ conn' = [conn EXCEPT ![l] = idle[Len(idle)]]
        /\ UNCHANGED <<uses, dirty, closed>>
    BY <1>3 DEF PopIdle, Go, sessVars
  <2>2. \A i \in DOMAIN idle' : i \in DOMAIN idle /\ idle'[i] = idle[i]
    BY <1>3, BelowTopFacts DEF PopIdle, TypeOK
  <2>3. \A k \in Leases : pc'[k] \in {"probe", "held", "store"} => pc'[k] = pc[k] /\ conn'[k] = conn[k]
    BY <2>1 DEF TypeOK
  <2>4. IdleIsFit'
    BY <2>1, <2>2, <2>3 DEF FitInv, IdleIsFit, IdleIsClean, UsesBounded, ClosedKeepsNothing
  <2>5. RolledBack' /\ UsesLeft'
    BY <2>1, <2>3 DEF FitInv, RolledBack, UsesLeft
  <2> QED
    BY <2>4, <2>5 DEF FitInv
<1>4. CASE Vet(l)
  <2>1. /\ \/ pc' = [pc EXCEPT ![l] = "retire"]
           \/ pc' = [pc EXCEPT ![l] = "probe"] /\ uses[conn[l]] < MaxUses
        /\ UNCHANGED <<uses, dirty, closed, idle, conn>>
    <3>1. uses[conn[l]] \in Nat /\ MaxUses \in Nat
      BY <1>4 DEF Vet, TypeOK, ConnKnown, Owning, PoolAssumption
    <3>2. ~WornOut(uses[conn[l]]) => uses[conn[l]] < MaxUses
      BY <3>1 DEF WornOut
    <3>3. \E w \in {"probe", "retire"} : Go(l, w) /\ (w = "probe" => ~WornOut(uses[conn[l]]))
      BY <1>4 DEF Vet
    <3>4. UNCHANGED <<uses, dirty, closed, idle, conn>>
      BY <1>4 DEF Vet, poolVars, sessVars
    <3> QED
      BY <3>2, <3>3, <3>4 DEF Go
  <2>2. \A k \in Leases : k # l => pc'[k] = pc[k]
    BY <2>1 DEF TypeOK
  <2>3. pc'[l] = "retire" \/ (pc'[l] = "probe" /\ uses[conn[l]] < MaxUses)
    BY <2>1 DEF TypeOK
  <2>4. IdleIsFit'
    BY <2>1, <2>2, <2>3 DEF FitInv, IdleIsFit, IdleIsClean, UsesBounded, ClosedKeepsNothing
  <2>5. RolledBack' /\ UsesLeft'
    BY <2>1, <2>2, <2>3 DEF FitInv, RolledBack, UsesLeft
  <2> QED
    BY <2>4, <2>5 DEF FitInv
<1>5. CASE ProbeHealthy(l)
  <2>1. /\ pc[l] = "probe"
        /\ pc' = [pc EXCEPT ![l] = "held"]
        /\ uses' = [uses EXCEPT ![conn[l]] = @ + 1]
        /\ UNCHANGED <<dirty, closed, idle, conn>>
    BY <1>5 DEF ProbeHealthy, Go, poolVars
  <2>2. /\ conn[l] \in Sessions
        /\ \A k \in Leases \ {l} : conn[k] # conn[l]
    BY <2>1, Mine DEF Owning
  <2>3. uses'[conn[l]] <= MaxUses
    <3>1. uses[conn[l]] < MaxUses /\ uses[conn[l]] \in Nat /\ MaxUses \in Nat
      BY <2>1, <2>2 DEF FitInv, UsesLeft, TypeOK, PoolAssumption
    <3>2. uses'[conn[l]] = uses[conn[l]] + 1
      BY <2>1, <2>2 DEF TypeOK
    <3> QED
      BY <3>1, <3>2
  <2>4. \A k \in Leases \ {l} : pc'[k] = pc[k] /\ (pc[k] \in Owning => uses'[conn[k]] = uses[conn[k]])
    <3> SUFFICES ASSUME NEW k \in Leases \ {l}
                 PROVE  pc'[k] = pc[k] /\ (pc[k] \in Owning => uses'[conn[k]] = uses[conn[k]])
      OBVIOUS
    <3>1. conn[k] # conn[l] /\ (pc[k] \in Owning => conn[k] \in Sessions)
      BY <2>2 DEF ConnKnown
    <3> QED
      BY <2>1, <3>1 DEF TypeOK
  <2>5. pc'[l] = "held" /\ conn'[l] = conn[l]
    BY <2>1 DEF TypeOK
  <2>6. IdleIsFit'
    BY <2>1, <2>3, <2>4, <2>5 DEF FitInv, IdleIsFit, IdleIsClean, UsesBounded, ClosedKeepsNothing, Owning
  <2>7. RolledBack' /\ UsesLeft'
    BY <2>1, <2>4, <2>5 DEF FitInv, RolledBack, UsesLeft, Owning
  <2> QED
    BY <2>6, <2>7 DEF FitInv
<1>6. CASE ProbeFails(l) \/ Register(l)
  BY <1>6, MoveKeepsFit DEF ProbeFails, Register, poolVars, sessVars
<1>7. ASSUME NEW s \in Sessions, ConnectOk(l, s) PROVE FitInv'
  <2>1. /\ pc[l] = "connect"
        /\ uses' = [uses EXCEPT ![s] = 1]
        /\ dirty' = [dirty EXCEPT ![s] = FALSE]
        /\ UNCHANGED <<idle, closed>>
        /\ \A k \in Leases : conn[k] # s
    BY <1>7 DEF ConnectOk, Unused
  <2>2. \/ pc' = [pc EXCEPT ![l] = "none"]
        \/ pc' = [pc EXCEPT ![l] = "held"] /\ conn' = [conn EXCEPT ![l] = s]
    BY <1>7 DEF ConnectOk, Unreserve, FreeSlot, Go
  <2>3. \A k \in Leases \ {l} : conn'[k] = conn[k]
    BY <1>7 DEF ConnectOk, Unreserve, FreeSlot, TypeOK
  <2>4. \A k \in Leases \ {l} : pc'[k] = pc[k]
    BY <2>2 DEF TypeOK
  <2>5. pc'[l] = "none" \/ (pc'[l] = "held" /\ conn'[l] = s)
    BY <2>2 DEF TypeOK
  <2>6. uses'[s] = 1 /\ 1 <= MaxUses
    BY <2>1 DEF TypeOK, PoolAssumption
  <2>7. \A k \in Leases \ {l} :
          pc[k] \in Owning => uses'[conn[k]] = uses[conn[k]] /\ dirty'[conn[k]] = dirty[conn[k]]
    <3> SUFFICES ASSUME NEW k \in Leases \ {l}, pc[k] \in Owning
                 PROVE  uses'[conn[k]] = uses[conn[k]] /\ dirty'[conn[k]] = dirty[conn[k]]
      OBVIOUS
    <3>1. conn[k] # s /\ conn[k] \in Sessions
      BY <2>1 DEF ConnKnown
    <3>2. uses'[conn[k]] = uses[conn[k]]
      BY <2>1, <3>1 DEF TypeOK
    <3>3. dirty'[conn[k]] = dirty[conn[k]]
      BY <2>1, <3>1, Zenon DEF TypeOK
    <3> QED
      BY <3>2, <3>3
  <2>8. \A t \in Sessions : ~dirty[t] => ~dirty'[t]
    BY <2>1 DEF TypeOK
  <2>9. \A i \in DOMAIN idle : idle[i] \in Sessions
    BY ElementOfSeq, LenProperties DEF TypeOK
  <2>10. IdleIsFit'
    <3>1. IdleIsClean'
      BY <2>1, <2>8, <2>9 DEF FitInv, IdleIsFit, IdleIsClean
    <3>2. UsesBounded'
      BY <2>3, <2>4, <2>5, <2>6, <2>7 DEF FitInv, IdleIsFit, UsesBounded, Owning
    <3>3. ClosedKeepsNothing'
      BY <2>1 DEF FitInv, IdleIsFit, ClosedKeepsNothing
    <3> QED
      BY <3>1, <3>2, <3>3 DEF IdleIsFit
  <2>11. RolledBack' /\ UsesLeft'
    BY <2>3, <2>4, <2>5, <2>7 DEF FitInv, RolledBack, UsesLeft, Owning
  <2> QED
    BY <2>10, <2>11 DEF FitInv
<1> QED
  BY <1>1, <1>2, <1>3, <1>4, <1>5, <1>6, <1>7 DEF Checkout

\* A return rolls back before it stores; a retirement promises nothing.
LEMMA CleanupKeepsFit ==
  ASSUME PoolAssumption, TypeOK, ConnKnown, OneOwner, FitInv, NEW l \in Leases, Cleanup(l)
  PROVE  FitInv'
<1>1. CASE Finish(l)
  <2>1. /\ \E w \in {"retire", "rollback", "store"} : Go(l, w) /\ (w = "store" => ~RollbackOnRelease)
        /\ UNCHANGED <<uses, dirty, closed, idle, conn>>
    BY <1>1 DEF Finish, poolVars, sessVars
  <2>2. PICK w \in {"retire", "rollback", "store"} : Go(l, w) /\ (w = "store" => ~RollbackOnRelease)
    BY <2>1
  <2>3. (\A k \in Leases \ {l} : pc'[k] = pc[k]) /\ pc'[l] = w
    BY <2>2 DEF Go, TypeOK
  <2>4. IdleIsFit'
    BY <2>1, <2>3 DEF FitInv, IdleIsFit, IdleIsClean, UsesBounded, ClosedKeepsNothing
  <2>5. UsesLeft'
    BY <2>1, <2>3 DEF FitInv, UsesLeft
  <2>6. RolledBack'
    BY <2>1, <2>2, <2>3 DEF FitInv, RolledBack
  <2> QED
    BY <2>4, <2>5, <2>6 DEF FitInv
<1>2. CASE RollbackOk(l)
  <2>1. /\ pc[l] = "rollback"
        /\ pc' = [pc EXCEPT ![l] = "store"]
        /\ dirty' = [dirty EXCEPT ![conn[l]] = FALSE]
        /\ UNCHANGED <<uses, closed, idle, conn>>
    BY <1>2 DEF RollbackOk, Go, poolVars
  <2>2. (\A k \in Leases \ {l} : pc'[k] = pc[k]) /\ pc'[l] = "store"
    BY <2>1 DEF TypeOK
  <2>3. conn[l] \in Sessions
    BY <2>1, Mine DEF Owning
  <2>4. (\A s \in Sessions : ~dirty[s] => ~dirty'[s]) /\ ~dirty'[conn[l]]
    BY <2>1, <2>3 DEF TypeOK
  <2>5. \A i \in DOMAIN idle : idle[i] \in Sessions
    BY ElementOfSeq, LenProperties DEF TypeOK
  <2>6. \A k \in Leases : pc[k] = "store" => conn[k] \in Sessions
    BY DEF ConnKnown, Owning
  <2>7. IdleIsFit'
    BY <2>1, <2>2, <2>4, <2>5 DEF FitInv, IdleIsFit, IdleIsClean, UsesBounded, ClosedKeepsNothing
  <2>8. RolledBack' /\ UsesLeft'
    BY <2>1, <2>2, <2>4, <2>6 DEF FitInv, RolledBack, UsesLeft
  <2> QED
    BY <2>7, <2>8 DEF FitInv
<1>3. CASE RollbackFails(l) \/ CloseCall(l)
  BY <1>3, MoveKeepsFit DEF RollbackFails, AfterFailedRollback, CloseCall, poolVars
<1>4. CASE Store(l)
  <2>1. CASE ~Storable
    BY <1>4, <2>1, MoveKeepsFit DEF Store, sessVars
  <2>2. CASE Storable
    <3>1. /\ pc[l] = "store" /\ ~closed
          /\ idle' = Append(idle, conn[l])
          /\ pc' = [pc EXCEPT ![l] = "stored"]
          /\ conn' = [conn EXCEPT ![l] = None]
          /\ UNCHANGED <<uses, dirty, closed>>
      BY <1>4, <2>2 DEF Store, Storable, Go, sessVars
    <3>2. conn[l] \in Sessions /\ (RollbackOnRelease => ~dirty[conn[l]])
      BY <3>1, Mine DEF Owning, FitInv, RolledBack
    <3>3. \A i \in DOMAIN idle' : (i \in DOMAIN idle /\ idle'[i] = idle[i]) \/ idle'[i] = conn[l]
      BY <3>1, <3>2, AppendProperties, LenProperties DEF TypeOK
    <3>4. \A k \in Leases : pc'[k] \in {"probe", "held", "store"} => pc'[k] = pc[k] /\ conn'[k] = conn[k]
      BY <3>1 DEF TypeOK
    <3>5. IdleIsFit'
      BY <3>1, <3>2, <3>3, <3>4 DEF FitInv, IdleIsFit, IdleIsClean, UsesBounded, ClosedKeepsNothing
    <3>6. RolledBack' /\ UsesLeft'
      BY <3>1, <3>4 DEF FitInv, RolledBack, UsesLeft
    <3> QED
      BY <3>5, <3>6 DEF FitInv
  <2> QED BY <2>1, <2>2
<1>5. CASE StoreDone(l)
  <2>1. Go(l, "none") /\ conn' = [conn EXCEPT ![l] = None] /\ UNCHANGED <<uses, dirty, closed, idle>>
    BY <1>5 DEF StoreDone, Unreserve, FreeSlot, sessVars
  <2> QED
    BY <2>1, MoveKeepsFit DEF TypeOK
<1>6. ASSUME CloseDone(l), UNCHANGED <<idle, closed, uses, dirty>> PROVE FitInv'
  <2>1. (Go(l, "none") \/ Go(l, "pop")) /\ conn' = [conn EXCEPT ![l] = None]
    BY <1>6 DEF CloseDone, Unreserve, FreeSlot
  <2> QED
    BY <1>6, <2>1, MoveKeepsFit DEF TypeOK
<1>7. CASE CloseCheck(l)
  <2>1. CASE IsClosed(conn[l])
    BY <1>6, <1>7, <2>1 DEF CloseCheck, sessVars
  <2>2. CASE ~IsClosed(conn[l])
    BY <1>7, <2>2, MoveKeepsFit DEF CloseCheck, sessVars
  <2> QED BY <2>1, <2>2
<1>8. CASE CloseFinished(l)
  BY <1>6, <1>8 DEF CloseFinished, sessVars
<1> QED
  BY <1>1, <1>2, <1>3, <1>4, <1>5, <1>7, <1>8 DEF Cleanup

\* A holder dirties only the session it holds.
LEMMA HolderKeepsFit ==
  ASSUME PoolAssumption, TypeOK, ConnKnown, OneOwner, FitInv, NEW l \in Leases, Holder(l)
  PROVE  FitInv'
<1>1. CASE Get(l) \/ Release(l) \/ AbandonWait(l)
  BY <1>1, MoveKeepsFit DEF Get, Release, AbandonWait, poolVars, sessVars
<1>2. CASE DropWithoutRuntime(l) \/ AbandonProbe(l) \/ AbandonConnect(l)
  <2>1. Go(l, "none") /\ conn' = [conn EXCEPT ![l] = None] /\ UNCHANGED <<uses, dirty, closed, idle>>
    BY <1>2 DEF DropWithoutRuntime, AbandonProbe, AbandonConnect, ConnectFails, Unreserve, FreeSlot, sessVars
  <2> QED
    BY <2>1, MoveKeepsFit DEF TypeOK
<1>3. CASE AbandonRetire(l)
  BY <1>3, StayKeepsFit DEF AbandonRetire, poolVars, sessVars
<1>4. CASE Use(l)
  <2>1. /\ pc[l] = "held"
        /\ dirty' = [dirty EXCEPT ![conn[l]] = TRUE]
        /\ UNCHANGED <<idle, closed, pc, conn, uses>>
    BY <1>4 DEF Use, poolVars, leaseVars
  <2>2. /\ \A i \in DOMAIN idle : idle[i] # conn[l]
        /\ \A k \in Leases \ {l} : conn[k] # conn[l]
    BY <2>1, Mine DEF Owning
  <2>3. \A s \in Sessions : s # conn[l] => (dirty'[s] <=> dirty[s])
    BY <2>1 DEF TypeOK
  <2>4. \A i \in DOMAIN idle : idle[i] \in Sessions
    BY ElementOfSeq, LenProperties DEF TypeOK
  <2>5. \A k \in Leases : pc[k] = "store" => conn[k] \in Sessions /\ k # l
    BY <2>1 DEF ConnKnown, Owning
  <2>6. IdleIsFit'
    BY <2>1, <2>2, <2>3, <2>4 DEF FitInv, IdleIsFit, IdleIsClean, UsesBounded, ClosedKeepsNothing
  <2>7. RolledBack' /\ UsesLeft'
    BY <2>1, <2>2, <2>3, <2>5 DEF FitInv, RolledBack, UsesLeft
  <2> QED
    BY <2>6, <2>7 DEF FitInv
<1> QED
  BY <1>1, <1>2, <1>3, <1>4 DEF Holder

\* Every step of the pool keeps what is idle fit.
LEMMA StepFit ==
  ASSUME PoolAssumption, TypeOK, ConnKnown, OneOwner, FitInv, [Next]_vars
  PROVE  FitInv'
<1>1. CASE UNCHANGED vars
  BY <1>1, StayKeepsFit DEF vars, poolVars, leaseVars, sessVars
<1>2. CASE EndPermits \/ Ending \/ AbandonEnd \/ DropPool
  BY <1>2, StayKeepsFit
     DEF EndPermits, Ending, EndTake, EndStop, EndNext, AbandonEnd, DropPool, poolVars, leaseVars, sessVars
<1>3. ASSUME NEW s \in Sessions, SessionDrains(s) \/ SessionGone(s) PROVE FitInv'
  BY <1>3, StayKeepsFit DEF SessionDrains, SessionGone, poolVars, leaseVars
<1> QED
  BY <1>1, <1>2, <1>3, CheckoutKeepsFit, CleanupKeepsFit, HolderKeepsFit DEF Next

\* What a checkout can be given is fit for it: with rollback_on_release no
\* idle connection is inside a transaction of an earlier holder, a connection
\* is never handed out more than max_uses times, and a closed pool keeps
\* nothing, whatever returns, retirements and shutdowns are under way.
THEOREM PoolFit == Spec => []IdleIsFit
<1>1. Init => TypeOK /\ ConnKnown /\ OneOwner /\ FitInv
  <2> SUFFICES ASSUME Init PROVE TypeOK /\ ConnKnown /\ OneOwner /\ FitInv
    OBVIOUS
  <2>1. OneOwner
    BY DEF Init, OneOwner
  <2>2. idle = <<>> /\ DOMAIN idle = {}
    BY EmptySeq, LenProperties DEF Init
  <2>3. FitInv
    BY <2>2 DEF Init, FitInv, IdleIsFit, IdleIsClean, UsesBounded, ClosedKeepsNothing, RolledBack, UsesLeft
  <2> QED
    BY <2>1, <2>3, InitTypes
<1>2. TypeOK /\ ConnKnown /\ OneOwner /\ FitInv /\ [Next]_vars
        => (TypeOK /\ ConnKnown /\ OneOwner /\ FitInv)'
  BY PoolAssumption, StepTypes, StepOwner, StepFit
<1>3. FitInv => IdleIsFit
  BY DEF FitInv
<1> QED
  BY <1>1, <1>2, <1>3, PTL DEF Spec

-----------------------------------------------------------------------------
(* What a lease owns and answers for, at every program point *)

Closing == {"retire", "check", "await"}

\* A reservation is registered from connect or hand-out to store or close, a
\* retirement inside a checkout has none; only a retirement can be orphaned.
LeaseBook(l) ==
  /\ registered[l] <=> \/ pc[l] \in {"connect", "held", "finish", "rollback", "store"}
                       \/ pc[l] \in Closing /\ role[l] = "return"
  /\ pc[l] \notin Owning => conn[l] = None
  /\ pc[l] \notin Closing \cup {"finish", "rollback", "store", "stored"} => role[l] = "checkout"
  /\ pc[l] \in {"finish", "rollback", "store"} => role[l] = "return"

LeaseBooks == \A l \in Leases : LeaseBook(l)

\* Only the book of the lease that moves has to be looked at.
LEMMA OneBook ==
  ASSUME LeaseBooks, NEW l \in Leases,
         \A k \in Leases \ {l} : /\ pc'[k] = pc[k] /\ role'[k] = role[k]
                                 /\ conn'[k] = conn[k] /\ registered'[k] = registered[k],
         LeaseBook(l)'
  PROVE  LeaseBooks'
<1> SUFFICES ASSUME NEW k \in Leases, k # l PROVE LeaseBook(k)'
  BY DEF LeaseBooks
<1>1. LeaseBook(k)
  BY DEF LeaseBooks
<1> QED
  BY <1>1 DEF LeaseBook

\* A lease that is over has given everything back.
LEMMA FreeKeepsBooks ==
  ASSUME TypeOK, LeaseBooks, NEW l \in Leases, FreeSlot(l)
  PROVE  LeaseBooks'
<1>1. /\ pc'[l] = "none" /\ role'[l] = "checkout" /\ conn'[l] = None /\ registered'[l] = FALSE
  BY DEF TypeOK, FreeSlot, Go
<1>2. \A k \in Leases \ {l} : /\ pc'[k] = pc[k] /\ role'[k] = role[k]
                              /\ conn'[k] = conn[k] /\ registered'[k] = registered[k]
  BY DEF TypeOK, FreeSlot, Go
<1>3. LeaseBook(l)'
  BY <1>1 DEF LeaseBook, Owning, Closing
<1> QED
  BY <1>2, <1>3, OneBook

\* A lease that only changes its program point keeps its book if both points
\* ask the same of it.
LEMMA GoKeepsBooks ==
  ASSUME TypeOK, LeaseBooks, NEW l \in Leases, NEW w, Go(l, w),
         UNCHANGED <<role, conn, registered>>,
         \/ pc[l] \in {"none", "permit", "pop", "register"} /\ w \in {"none", "permit", "pop", "register"}
         \/ pc[l] \in {"vet", "probe"} \cup Closing /\ w \in Closing
         \/ pc[l] \in {"vet", "probe"} /\ w \in {"vet", "probe"}
         \/ pc[l] \in {"finish", "rollback", "store"} /\ w \in {"finish", "rollback", "store"} \cup Closing
  PROVE  LeaseBooks'
<1>1. pc'[l] = w /\ role'[l] = role[l] /\ conn'[l] = conn[l] /\ registered'[l] = registered[l]
  BY DEF TypeOK, Go
<1>2. \A k \in Leases \ {l} : /\ pc'[k] = pc[k] /\ role'[k] = role[k]
                              /\ conn'[k] = conn[k] /\ registered'[k] = registered[k]
  BY DEF TypeOK, Go
<1>3. LeaseBook(l)
  BY DEF LeaseBooks
<1>4. LeaseBook(l)'
  BY <1>1, <1>3 DEF LeaseBook, Owning, Closing
<1> QED
  BY <1>2, <1>4, OneBook

\* Every step of the pool keeps the books of all leases.
LEMMA StepBooks ==
  ASSUME PoolAssumption, TypeOK, LeaseBooks, [Next]_vars
  PROVE  LeaseBooks'
<1>1. ASSUME UNCHANGED leaseVars PROVE LeaseBooks'
  BY <1>1 DEF LeaseBooks, LeaseBook, leaseVars
<1>2. CASE UNCHANGED vars
  BY <1>1, <1>2 DEF vars
<1>3. CASE EndPermits \/ Ending \/ AbandonEnd \/ DropPool
  BY <1>1, <1>3 DEF EndPermits, Ending, EndTake, EndStop, EndNext, AbandonEnd, DropPool
<1>4. ASSUME NEW s \in Sessions, SessionDrains(s) \/ SessionGone(s) PROVE LeaseBooks'
  BY <1>1, <1>4 DEF SessionDrains, SessionGone
<1>5. ASSUME NEW l \in Leases, Unreserve(l) PROVE LeaseBooks'
  BY <1>5, FreeKeepsBooks DEF Unreserve
<1>6. ASSUME NEW l \in Leases PROVE LeaseBook(l)
  BY DEF LeaseBooks
<1>7. ASSUME NEW l \in Leases, Checkout(l) PROVE LeaseBooks'
  <2>1. CASE AcquirePermit(l) \/ AcquireClosed(l) \/ PopNone(l)
    BY <2>1, GoKeepsBooks DEF AcquirePermit, AcquireClosed, PopNone
  <2>2. CASE PopClosed(l) \/ ConnectFails(l)
    BY <2>2, <1>5 DEF PopClosed, ConnectFails
  <2>3. CASE Vet(l) \/ ProbeFails(l)
    BY <2>3, GoKeepsBooks DEF Vet, ProbeFails, Closing
  <2>4. CASE PopIdle(l)
    <3>1. /\ pc[l] = "pop"
          /\ pc' = [pc EXCEPT ![l] = "vet"]
          /\ conn' = [conn EXCEPT ![l] = idle[Len(idle)]]
          /\ UNCHANGED <<role, registered>>
      BY <2>4 DEF PopIdle, Go
    <3>2. pc'[l] = "vet" /\ role'[l] = role[l] /\ registered'[l] = registered[l]
      BY <3>1 DEF TypeOK
    <3>3. LeaseBook(l)'
      BY <1>6, <3>1, <3>2 DEF LeaseBook, Owning, Closing
    <3> QED
      BY <3>1, <3>3, OneBook DEF TypeOK
  <2>5. CASE ProbeHealthy(l)
    <3>1. /\ pc[l] = "probe"
          /\ pc' = [pc EXCEPT ![l] = "held"]
          /\ registered' = [registered EXCEPT ![l] = TRUE]
          /\ UNCHANGED <<role, conn>>
      BY <2>5 DEF ProbeHealthy, Go
    <3>2. pc'[l] = "held" /\ role'[l] = role[l] /\ registered'[l]
      BY <3>1 DEF TypeOK
    <3>3. LeaseBook(l)'
      BY <1>6, <3>1, <3>2 DEF LeaseBook, Owning, Closing
    <3> QED
      BY <3>1, <3>3, OneBook DEF TypeOK
  <2>6. CASE Register(l)
    <3>1. /\ pc[l] = "register"
          /\ pc' = [pc EXCEPT ![l] = "connect"]
          /\ registered' = [registered EXCEPT ![l] = TRUE]
          /\ UNCHANGED <<role, conn>>
      BY <2>6 DEF Register, Go
    <3>2. pc'[l] = "connect" /\ role'[l] = role[l] /\ conn'[l] = conn[l] /\ registered'[l]
      BY <3>1 DEF TypeOK
    <3>3. LeaseBook(l)'
      BY <1>6, <3>1, <3>2 DEF LeaseBook, Owning, Closing
    <3> QED
      BY <3>1, <3>3, OneBook DEF TypeOK
  <2>7. ASSUME NEW s \in Sessions, ConnectOk(l, s) PROVE LeaseBooks'
    <3>1. CASE closed
      BY <1>5, <2>7, <3>1 DEF ConnectOk
    <3>2. CASE ~closed
      <4>1. /\ pc[l] = "connect"
            /\ pc' = [pc EXCEPT ![l] = "held"]
            /\ conn' = [conn EXCEPT ![l] = s]
            /\ UNCHANGED <<role, registered>>
        BY <2>7, <3>2 DEF ConnectOk, Go
      <4>2. pc'[l] = "held" /\ role'[l] = role[l] /\ registered'[l] = registered[l]
        BY <4>1 DEF TypeOK
      <4>3. LeaseBook(l)'
        BY <1>6, <4>1, <4>2 DEF LeaseBook, Owning, Closing
      <4> QED
        BY <4>1, <4>3, OneBook DEF TypeOK
    <3> QED BY <3>1, <3>2
  <2> QED
    BY <1>7, <2>1, <2>2, <2>3, <2>4, <2>5, <2>6, <2>7 DEF Checkout
<1>8. ASSUME NEW l \in Leases, Cleanup(l) PROVE LeaseBooks'
  <2>1. CASE Finish(l) \/ RollbackOk(l) \/ RollbackFails(l) \/ CloseCall(l)
    BY <2>1, GoKeepsBooks DEF Finish, RollbackOk, RollbackFails, AfterFailedRollback, CloseCall, Closing
  <2>2. CASE Store(l)
    <3>1. CASE Storable
      <4>1. /\ pc' = [pc EXCEPT ![l] = "stored"]
            /\ conn' = [conn EXCEPT ![l] = None]
            /\ registered' = [registered EXCEPT ![l] = FALSE]
            /\ role' = role
        BY <2>2, <3>1 DEF Store, Go
      <4>2. pc'[l] = "stored" /\ conn'[l] = None /\ ~registered'[l]
        BY <4>1 DEF TypeOK
      <4>3. LeaseBook(l)'
        BY <4>1, <4>2 DEF LeaseBook, Owning, Closing
      <4> QED
        BY <4>1, <4>3, OneBook DEF TypeOK
    <3>2. CASE ~Storable
      BY <2>2, <3>2, GoKeepsBooks DEF Store, Closing
    <3> QED BY <3>1, <3>2
  <2>3. CASE StoreDone(l)
    BY <1>5, <2>3 DEF StoreDone
  <2>4. ASSUME CloseDone(l), pc[l] \in Closing PROVE LeaseBooks'
    <3>1. CASE role[l] = "checkout"
      <4>1. /\ pc' = [pc EXCEPT ![l] = "pop"]
            /\ conn' = [conn EXCEPT ![l] = None]
            /\ UNCHANGED <<role, registered>>
        BY <2>4, <3>1 DEF CloseDone, Go
      <4>2. pc'[l] = "pop" /\ conn'[l] = None /\ role'[l] = role[l] /\ registered'[l] = registered[l]
        BY <4>1 DEF TypeOK
      <4>3. LeaseBook(l)'
        BY <1>6, <2>4, <3>1, <4>2 DEF LeaseBook, Owning, Closing
      <4> QED
        BY <4>1, <4>3, OneBook DEF TypeOK
    <3>2. CASE role[l] # "checkout"
      BY <1>5, <2>4, <3>2, FreeKeepsBooks DEF CloseDone
    <3> QED BY <3>1, <3>2
  <2>5. CASE CloseCheck(l)
    <3>1. CASE IsClosed(conn[l])
      BY <2>4, <2>5, <3>1 DEF CloseCheck, Closing
    <3>2. CASE ~IsClosed(conn[l])
      BY <2>5, <3>2, GoKeepsBooks DEF CloseCheck, Closing
    <3> QED BY <3>1, <3>2
  <2>6. CASE CloseFinished(l)
    BY <2>4, <2>6 DEF CloseFinished, Closing
  <2> QED
    BY <1>8, <2>1, <2>2, <2>3, <2>5, <2>6 DEF Cleanup
<1>9. ASSUME NEW l \in Leases, Holder(l) PROVE LeaseBooks'
  <2>1. CASE Get(l) \/ AbandonWait(l)
    BY <2>1, GoKeepsBooks DEF Get, AbandonWait
  <2>2. CASE Use(l)
    BY <1>1, <2>2 DEF Use
  <2>3. CASE DropWithoutRuntime(l) \/ AbandonProbe(l) \/ AbandonConnect(l)
    BY <1>5, <2>3 DEF DropWithoutRuntime, AbandonProbe, AbandonConnect, ConnectFails
  <2>4. CASE Release(l)
    <3>1. /\ pc[l] = "held"
          /\ pc' = [pc EXCEPT ![l] = "finish"]
          /\ role' = [role EXCEPT ![l] = "return"]
          /\ UNCHANGED <<conn, registered>>
      BY <2>4 DEF Release, Go
    <3>2. pc'[l] = "finish" /\ role'[l] = "return" /\ registered'[l] = registered[l]
      BY <3>1 DEF TypeOK
    <3>3. LeaseBook(l)'
      BY <1>6, <3>1, <3>2 DEF LeaseBook, Owning, Closing
    <3> QED
      BY <3>1, <3>3, OneBook DEF TypeOK
  <2>5. CASE AbandonRetire(l)
    <3>1. /\ pc[l] \in Closing /\ role[l] = "checkout"
          /\ role' = [role EXCEPT ![l] = "orphan"]
          /\ UNCHANGED <<pc, conn, registered>>
      BY <2>5 DEF AbandonRetire, Closing
    <3>2. role'[l] = "orphan"
      BY <3>1 DEF TypeOK
    <3>3. LeaseBook(l)'
      BY <1>6, <3>1, <3>2 DEF LeaseBook, Owning, Closing
    <3> QED
      BY <3>1, <3>3, OneBook DEF TypeOK
  <2> QED
    BY <1>9, <2>1, <2>2, <2>3, <2>4, <2>5 DEF Holder
<1> QED
  BY <1>2, <1>3, <1>4, <1>7, <1>8, <1>9 DEF Next

-----------------------------------------------------------------------------
(* The total counts every connection *)

\* Leases whose connection total has to count, and how a point is counted
Covered == {l \in Leases : pc[l] \notin {"none", "permit", "pop", "register", "stored"}}
Cover(where) == IF where \in {"none", "permit", "pop", "register", "stored"} THEN 0 ELSE 1

CoverInv == total >= Len(idle) + Cardinality(Covered)

\* Covered is finite, so it can be counted.
LEMMA CoveredFinite ==
  ASSUME PoolAssumption
  PROVE  IsFiniteSet(Covered) /\ Cardinality(Covered) \in Nat
<1>1. IsFiniteSet(Covered)
  BY FS_Subset DEF PoolAssumption, Covered
<1> QED
  BY <1>1, FS_CardinalityType

\* A lease that moves keeps total sufficient if total and the stack make up
\* for what the two program points count.
LEMMA MoveKeepsCover ==
  ASSUME PoolAssumption, TypeOK, TypeOK', CoverInv, NEW l \in Leases, NEW w, Go(l, w),
         total' + Cover(pc[l]) + Len(idle) >= total + Cover(w) + Len(idle')
  PROVE  CoverInv'
<1>1. Covered' = IF Cover(w) = 0 THEN Covered \ {l} ELSE Covered \cup {l}
  BY DEF Covered, Cover, Go, TypeOK
<1>2. l \in Covered <=> Cover(pc[l]) = 1
  BY DEF Covered, Cover
<1>3. /\ Cardinality(Covered \ {l}) =
           IF l \in Covered THEN Cardinality(Covered) - 1 ELSE Cardinality(Covered)
      /\ Cardinality(Covered \cup {l}) =
           IF l \in Covered THEN Cardinality(Covered) ELSE Cardinality(Covered) + 1
  BY CoveredFinite, FS_AddElement, FS_RemoveElement
<1>4. Cover(w) \in {0, 1} /\ Cover(pc[l]) \in {0, 1}
  BY DEF Cover
<1>5. Cardinality(Covered)' = Cardinality(Covered) + Cover(w) - Cover(pc[l])
  BY <1>1, <1>2, <1>3, <1>4, CoveredFinite
<1>6. /\ total \in Nat /\ total' \in Nat
      /\ Len(idle) \in Nat /\ Len(idle') \in Nat
  BY LenProperties DEF TypeOK
<1> QED
  BY <1>4, <1>5, <1>6, CoveredFinite DEF CoverInv

\* A step that moves no lease keeps total sufficient if it stays, or if the
\* emptied stack is subtracted from it.
LEMMA StayKeepsCover ==
  ASSUME PoolAssumption, TypeOK, CoverInv, UNCHANGED pc,
         \/ UNCHANGED <<total, idle>>
         \/ idle' = <<>> /\ total' = SaturatingSub(total, Len(idle))
  PROVE  CoverInv'
<1>1. Covered' = Covered
  BY DEF Covered
<1>2. total \in Nat /\ Len(idle) \in Nat /\ Len(<<>>) = 0
  BY LenProperties, EmptySeq DEF TypeOK
<1>3. CASE UNCHANGED <<total, idle>>
  BY <1>1, <1>3 DEF CoverInv
<1>4. CASE idle' = <<>> /\ total' = SaturatingSub(total, Len(idle))
  BY <1>1, <1>2, <1>4, CoveredFinite DEF CoverInv, SaturatingSub
<1> QED
  BY <1>3, <1>4

\* A lease that is counted is in the total
LEMMA CoveredCounted ==
  ASSUME PoolAssumption, TypeOK, CoverInv, NEW l \in Leases, Cover(pc[l]) = 1
  PROVE  total >= 1
<1>1. l \in Covered
  BY DEF Cover, Covered
<1>2. Cardinality(Covered) >= 1
  BY <1>1, CoveredFinite, FS_EmptySet
<1> QED
  BY <1>2, CoveredFinite, LenProperties DEF CoverInv, TypeOK

\* Every step of the pool keeps total at or above what it has to count.
LEMMA StepCover ==
  ASSUME PoolAssumption, TypeOK, TypeOK', ConnKnown, LeaseBooks, CoverInv, [Next]_vars
  PROVE  CoverInv'
<1> USE PoolAssumption DEF Cover
<1>0. Len(idle) \in Nat /\ total \in Nat
  BY LenProperties DEF TypeOK
<1>1. CASE UNCHANGED vars
  BY <1>1, StayKeepsCover DEF vars, poolVars, leaseVars
<1>2. ASSUME NEW l \in Leases, NEW w, Go(l, w), UNCHANGED <<total, idle>>, Cover(w) <= Cover(pc[l])
      PROVE  CoverInv'
  BY <1>0, <1>2, MoveKeepsCover
<1>3. ASSUME NEW l \in Leases, Unreserve(l), UNCHANGED idle PROVE CoverInv'
  <2>1. registered[l] => Cover(pc[l]) = 1
    BY DEF LeaseBooks, LeaseBook, Closing
  <2>2. total' >= total - Cover(pc[l])
    BY <1>0, <1>3, <2>1 DEF Unreserve, SaturatingSub
  <2>3. Go(l, "none")
    BY <1>3 DEF Unreserve, FreeSlot
  <2>4. total' \in Nat
    BY DEF TypeOK
  <2> QED
    BY <1>0, <1>3, <2>2, <2>3, <2>4, MoveKeepsCover
<1>4. ASSUME NEW l \in Leases, Checkout(l) PROVE CoverInv'
  <2>1. CASE AcquirePermit(l) \/ AcquireClosed(l) \/ PopNone(l)
    BY <1>2, <2>1 DEF AcquirePermit, AcquireClosed, PopNone, poolVars
  <2>2. CASE PopClosed(l) \/ ConnectFails(l)
    BY <1>3, <2>2 DEF PopClosed, ConnectFails
  <2>3. CASE PopIdle(l)
    <3>1. Len(idle') = Len(idle) - 1
      BY <2>3, BelowTopFacts DEF PopIdle, TypeOK
    <3>2. Go(l, "vet") /\ total' = total /\ pc[l] = "pop"
      BY <2>3 DEF PopIdle
    <3> QED
      BY <1>0, <3>1, <3>2, MoveKeepsCover
  <2>4. CASE Vet(l) \/ ProbeHealthy(l) \/ ProbeFails(l)
    BY <1>2, <2>4 DEF Vet, ProbeHealthy, ProbeFails, poolVars
  <2>5. CASE Register(l)
    BY <1>0, <2>5, MoveKeepsCover DEF Register
  <2>6. ASSUME NEW s \in Sessions, ConnectOk(l, s) PROVE CoverInv'
    <3>1. CASE closed
      BY <1>3, <2>6, <3>1 DEF ConnectOk
    <3>2. CASE ~closed
      BY <1>2, <2>6, <3>2 DEF ConnectOk
    <3> QED BY <3>1, <3>2
  <2> QED
    BY <1>4, <2>1, <2>2, <2>3, <2>4, <2>5, <2>6 DEF Checkout
<1>5. ASSUME NEW l \in Leases, Cleanup(l) PROVE CoverInv'
  <2>1. CASE Finish(l) \/ RollbackOk(l) \/ RollbackFails(l) \/ CloseCall(l)
    BY <1>2, <2>1 DEF Finish, RollbackOk, RollbackFails, AfterFailedRollback, CloseCall, poolVars
  <2>2. CASE Store(l)
    <3>1. CASE Storable
      <4>1. conn[l] \in Sessions
        BY <2>2 DEF ConnKnown, Owning, Store
      <4>2. Len(idle') = Len(idle) + 1
        BY <2>2, <3>1, <4>1, AppendProperties DEF Store, TypeOK
      <4>3. Go(l, "stored") /\ total' = total /\ pc[l] = "store"
        BY <2>2, <3>1 DEF Store
      <4> QED
        BY <1>0, <4>2, <4>3, MoveKeepsCover
    <3>2. CASE ~Storable
      BY <1>2, <2>2, <3>2 DEF Store
    <3> QED BY <3>1, <3>2
  <2>3. CASE StoreDone(l)
    BY <1>3, <2>3 DEF StoreDone
  <2>4. ASSUME CloseDone(l), UNCHANGED idle, pc[l] \in Closing PROVE CoverInv'
    <3>1. CASE role[l] = "return"
      BY <1>3, <2>4, <3>1 DEF CloseDone
    <3>2. CASE role[l] # "return"
      <4>1. total' = SaturatingSub(total, 1) /\ (Go(l, "pop") \/ Go(l, "none"))
        BY <2>4, <3>2 DEF CloseDone, FreeSlot
      <4>2. Cover(pc[l]) = 1
        BY <2>4 DEF Closing
      <4>3. total' = total - 1
        BY <1>0, <4>1, <4>2, CoveredCounted DEF SaturatingSub
      <4> QED
        BY <1>0, <2>4, <4>1, <4>2, <4>3, MoveKeepsCover
    <3> QED BY <3>1, <3>2
  <2>5. CASE CloseCheck(l)
    <3>1. CASE IsClosed(conn[l])
      BY <2>4, <2>5, <3>1 DEF CloseCheck, Closing
    <3>2. CASE ~IsClosed(conn[l])
      BY <1>2, <2>5, <3>2 DEF CloseCheck
    <3> QED BY <3>1, <3>2
  <2>6. CASE CloseFinished(l)
    BY <2>4, <2>6 DEF CloseFinished, Closing
  <2> QED
    BY <1>5, <2>1, <2>2, <2>3, <2>5, <2>6 DEF Cleanup
<1>6. ASSUME NEW l \in Leases, Holder(l) PROVE CoverInv'
  <2>1. CASE Get(l) \/ Release(l) \/ AbandonWait(l)
    BY <1>2, <2>1 DEF Get, Release, AbandonWait, poolVars
  <2>2. CASE Use(l) \/ AbandonRetire(l)
    BY <2>2, StayKeepsCover DEF Use, AbandonRetire, poolVars, leaseVars
  <2>3. CASE DropWithoutRuntime(l) \/ AbandonProbe(l) \/ AbandonConnect(l)
    BY <1>3, <2>3 DEF DropWithoutRuntime, AbandonProbe, AbandonConnect, ConnectFails
  <2> QED
    BY <1>6, <2>1, <2>2, <2>3 DEF Holder
<1>7. CASE EndPermits \/ Ending \/ AbandonEnd \/ DropPool
  BY <1>7, StayKeepsCover
     DEF EndPermits, Ending, EndTake, EndStop, EndNext, AbandonEnd, DropPool, poolVars, leaseVars
<1>8. ASSUME NEW s \in Sessions, SessionDrains(s) \/ SessionGone(s) PROVE CoverInv'
  BY <1>8, StayKeepsCover DEF SessionDrains, SessionGone, poolVars, leaseVars
<1> QED
  BY <1>1, <1>4, <1>5, <1>6, <1>7, <1>8 DEF Next

\* What total covers is what TotalCoversAll lists: vetted and registered
\* leases are disjoint and together all that are covered.
LEMMA CoverIsEnough ==
  ASSUME PoolAssumption, TypeOK, ConnKnown, LeaseBooks, CoverInv
  PROVE  TotalCoversAll
<1> DEFINE Reg == {l \in Leases : registered[l]}
<1>1. Vetted \cup Reg = Covered
  <2>1. ASSUME NEW l \in Leases PROVE (conn[l] # None \/ registered[l]) <=> l \in Covered
    <3>1. LeaseBook(l) /\ (pc[l] \in Owning => conn[l] # None)
      BY DEF LeaseBooks, ConnKnown, PoolAssumption
    <3>2. l \in Covered <=> pc[l] \in Owning \cup {"connect"}
      BY DEF TypeOK, Covered, Owning
    <3> QED
      BY <3>1, <3>2 DEF LeaseBook, Owning, Closing
  <2> QED
    BY <2>1 DEF Vetted, Covered
<1>2. Vetted \cap Reg = {}
  BY DEF Vetted
<1>3. IsFiniteSet(Vetted) /\ IsFiniteSet(Reg)
  BY FS_Subset DEF PoolAssumption, Vetted
<1>4. /\ Cardinality(Vetted) \in Nat /\ Cardinality(Reg) \in Nat
      /\ Cardinality(Covered) = Cardinality(Vetted) + Cardinality(Reg) - 0
  BY <1>1, <1>2, <1>3, FS_Union, FS_CardinalityType, FS_EmptySet
<1>5. Len(idle) \in Nat /\ total \in Nat
  BY LenProperties DEF TypeOK
<1> QED
  BY <1>4, <1>5 DEF CoverInv, TotalCoversAll

-----------------------------------------------------------------------------
(* Connections that are up are within max, a shutdown under way included *)

\* A closed pool only gives slots up: neither an idle connection nor a new one
\* is taken any more.
LEMMA ClosedShrinks ==
  ASSUME TypeOK, closed, [Next]_vars
  PROVE  closed' /\ Slots' \subseteq Slots
<1>1. ASSUME UNCHANGED pc PROVE Slots' \subseteq Slots
  BY <1>1 DEF Slots
<1>2. ASSUME NEW l \in Leases, NEW w, Go(l, w), Slot(w) <= Slot(pc[l]) PROVE Slots' \subseteq Slots
  BY <1>2 DEF TypeOK, Go, Slot, Slots
<1>3. ASSUME NEW l \in Leases, Unreserve(l) \/ FreeSlot(l) PROVE Slots' \subseteq Slots
  <2>1. Go(l, "none") /\ Slot("none") <= Slot(pc[l])
    BY <1>3 DEF Unreserve, FreeSlot, Slot
  <2> QED
    BY <1>2, <2>1
<1>4. CASE UNCHANGED vars
  BY <1>1, <1>4 DEF vars, poolVars, leaseVars
<1>5. ASSUME NEW l \in Leases, Checkout(l) PROVE closed' /\ Slots' \subseteq Slots
  <2>1. CASE AcquirePermit(l) \/ AcquireClosed(l) \/ Vet(l) \/ ProbeHealthy(l) \/ ProbeFails(l)
    <3>1. closed'
      BY <2>1 DEF AcquirePermit, AcquireClosed, Vet, ProbeHealthy, ProbeFails, poolVars
    <3>2. Vet(l) => \E w \in {"probe", "retire"} : pc[l] = "vet" /\ Go(l, w)
      BY DEF Vet
    <3>3. \E w \in {"pop", "none"} : AcquirePermit(l) \/ AcquireClosed(l) => pc[l] = "permit" /\ Go(l, w)
      BY DEF AcquirePermit, AcquireClosed
    <3>4. \E w \in {"held", "retire"} : ProbeHealthy(l) \/ ProbeFails(l) => pc[l] = "probe" /\ Go(l, w)
      BY DEF ProbeHealthy, ProbeFails
    <3>5. \E w : Go(l, w) /\ Slot(w) <= Slot(pc[l])
      BY <2>1, <3>2, <3>3, <3>4 DEF Slot
    <3> QED
      BY <1>2, <3>1, <3>5
  <2>2. CASE PopClosed(l) \/ ConnectFails(l) \/ \E s \in Sessions : ConnectOk(l, s)
    BY <1>3, <2>2 DEF PopClosed, ConnectFails, ConnectOk
  <2>3. CASE PopIdle(l) \/ PopNone(l) \/ Register(l)
    BY <2>3 DEF PopIdle, PopNone, Register
  <2> QED
    BY <1>5, <2>1, <2>2, <2>3 DEF Checkout
<1>6. ASSUME NEW l \in Leases, Cleanup(l) PROVE closed' /\ Slots' \subseteq Slots
  <2>1. CASE Finish(l) \/ RollbackOk(l) \/ RollbackFails(l) \/ CloseCall(l)
    <3>1. closed'
      BY <2>1 DEF Finish, RollbackOk, RollbackFails, AfterFailedRollback, CloseCall, poolVars
    <3>2. \E w : Go(l, w) /\ Slot(w) <= Slot(pc[l])
      BY <2>1 DEF Finish, RollbackOk, RollbackFails, AfterFailedRollback, CloseCall, Slot
    <3> QED
      BY <1>2, <3>1, <3>2
  <2>2. CASE Store(l)
    BY <1>2, <2>2 DEF Store, Storable, Slot
  <2>3. CASE StoreDone(l)
    BY <1>3, <2>3 DEF StoreDone
  <2>4. ASSUME CloseDone(l), pc[l] \in Closing PROVE Slots' \subseteq Slots
    BY <1>2, <1>3, <2>4 DEF CloseDone, Closing, Slot
  <2>5. CASE CloseCheck(l)
    BY <1>2, <2>4, <2>5 DEF CloseCheck, Closing, Slot
  <2>6. CASE CloseFinished(l)
    BY <2>4, <2>6 DEF CloseFinished, Closing
  <2> QED
    BY <1>6, <2>1, <2>2, <2>3, <2>5, <2>6 DEF Cleanup
<1>7. ASSUME NEW l \in Leases, Holder(l) PROVE closed' /\ Slots' \subseteq Slots
  <2>1. CASE Get(l) \/ Release(l) \/ AbandonWait(l)
    <3>1. closed'
      BY <2>1 DEF Get, Release, AbandonWait, poolVars
    <3>2. \E w : Go(l, w) /\ Slot(w) <= Slot(pc[l])
      BY <2>1 DEF Get, Release, AbandonWait, Slot
    <3> QED
      BY <1>2, <3>1, <3>2
  <2>2. CASE Use(l) \/ AbandonRetire(l)
    BY <1>1, <2>2 DEF Use, AbandonRetire, poolVars, leaseVars
  <2>3. CASE DropWithoutRuntime(l) \/ AbandonProbe(l) \/ AbandonConnect(l)
    BY <1>3, <2>3 DEF DropWithoutRuntime, AbandonProbe, AbandonConnect, ConnectFails
  <2> QED
    BY <1>7, <2>1, <2>2, <2>3 DEF Holder
<1>8. CASE EndPermits \/ Ending \/ AbandonEnd \/ DropPool
  BY <1>1, <1>8
     DEF EndPermits, Ending, EndTake, EndStop, EndNext, AbandonEnd, DropPool, poolVars, leaseVars
<1>9. ASSUME NEW s \in Sessions, SessionDrains(s) \/ SessionGone(s) PROVE closed' /\ Slots' \subseteq Slots
  BY <1>1, <1>9 DEF SessionDrains, SessionGone, poolVars, leaseVars
<1> QED
  BY <1>4, <1>5, <1>6, <1>7, <1>8, <1>9 DEF Next, vars, poolVars

\* end() takes the idle connections of a pool it closes, and then only
\* shortens its list.
EndingInv ==
  /\ ending # <<>> => closed
  /\ Len(ending) + Cardinality(Slots) <= Max

\* The list of end() changes in four ways.
LEMMA EndingMoves ==
  ASSUME [Next]_vars
  PROVE  \/ ending' = ending
         \/ ending' = <<>>
         \/ ending # <<>> /\ ending' = Tail(ending)
         \/ ending' = idle /\ closed' /\ UNCHANGED pc
<1>1. CASE UNCHANGED vars
  BY <1>1 DEF vars, poolVars
<1>2. ASSUME NEW l \in Leases, Checkout(l) PROVE ending' = ending
  BY <1>2 DEF Checkout, AcquirePermit, AcquireClosed, PopClosed, PopIdle, PopNone, Vet, ProbeHealthy,
              ProbeFails, Register, ConnectOk, ConnectFails, poolVars
<1>3. ASSUME NEW l \in Leases, Cleanup(l) PROVE ending' = ending
  BY <1>3 DEF Cleanup, Finish, RollbackOk, RollbackFails, Store, StoreDone, CloseCall, CloseCheck,
              CloseFinished, poolVars
<1>4. ASSUME NEW l \in Leases, Holder(l) PROVE ending' = ending
  BY <1>4 DEF Holder, Get, Use, Release, DropWithoutRuntime, AbandonWait, AbandonProbe, AbandonConnect,
              ConnectFails, AbandonRetire, poolVars
<1>5. CASE EndPermits \/ Ending \/ AbandonEnd \/ DropPool
  BY <1>5 DEF EndPermits, Ending, EndTake, EndStop, EndNext, AbandonEnd, DropPool, poolVars, leaseVars
<1>6. ASSUME NEW s \in Sessions, SessionDrains(s) \/ SessionGone(s) PROVE ending' = ending
  BY <1>6 DEF SessionDrains, SessionGone, poolVars
<1> QED
  BY <1>1, <1>2, <1>3, <1>4, <1>5, <1>6 DEF Next

\* Every step keeps what end() still has to close within the bound.
LEMMA StepEnding ==
  ASSUME PoolAssumption, TypeOK, TypeOK', CapacityInv, CapacityInv', EndingInv, [Next]_vars
  PROVE  EndingInv'
<1>1. /\ Len(idle) \in Nat /\ Len(idle') \in Nat /\ Len(ending) \in Nat /\ Len(ending') \in Nat
      /\ Len(<<>>) = 0 /\ Max \in Nat
  BY LenProperties, EmptySeq DEF TypeOK, PoolAssumption
<1>2. /\ IsFiniteSet(Slots) /\ Cardinality(Slots) \in Nat
      /\ Cardinality(Slots)' \in Nat
  BY FS_Subset, FS_CardinalityType DEF PoolAssumption, Slots
<1>3. CASE ending' = <<>>
  BY <1>1, <1>2, <1>3 DEF EndingInv, CapacityInv, CapacityBound
<1>4. CASE ending' = idle /\ closed' /\ UNCHANGED pc
  <2>1. Slots' = Slots
    BY <1>4 DEF Slots
  <2> QED
    BY <1>1, <1>2, <1>4, <2>1 DEF EndingInv, CapacityInv, CapacityBound
<1>5. CASE ending # <<>> /\ (ending' = ending \/ ending' = Tail(ending))
  <2>1. closed' /\ Slots' \subseteq Slots
    BY <1>5, ClosedShrinks DEF EndingInv
  <2>2. Cardinality(Slots') <= Cardinality(Slots)
    BY <1>2, <2>1, FS_Subset
  <2>3. Len(ending') <= Len(ending)
    BY <1>1, <1>5, HeadTailProperties DEF TypeOK
  <2> QED
    BY <1>1, <1>2, <2>1, <2>2, <2>3 DEF EndingInv
<1> QED
  BY <1>3, <1>4, <1>5, EndingMoves

\* A session that was not told to stop is idle, with end(), or with a lease
Placed(s) ==
  \/ \E i \in DOMAIN idle : idle[i] = s
  \/ \E i \in DOMAIN ending : ending[i] = s
  \/ \E l \in Leases : conn[l] = s

UpPlaced == \A s \in Sessions : sess[s] = "up" => Placed(s)

\* A step that starts no session keeps it if whoever lets go of one has
\* stopped it.
LEMMA LetGoKeepsPlaced ==
  ASSUME TypeOK, UpPlaced, NEW l \in Leases,
         conn' = [conn EXCEPT ![l] = None],
         conn[l] = None \/ sess'[conn[l]] # "up",
         \A s \in Sessions : sess'[s] = "up" => sess[s] = "up",
         UNCHANGED <<idle, ending>>
  PROVE  UpPlaced'
<1> SUFFICES ASSUME NEW s \in Sessions, sess'[s] = "up" PROVE Placed(s)'
  BY DEF UpPlaced
<1>1. Placed(s)
  BY DEF UpPlaced
<1>2. ASSUME NEW k \in Leases, conn[k] = s, s # None PROVE conn'[k] = s
  BY <1>2 DEF TypeOK
<1>3. CASE s = None
  BY <1>3 DEF Placed, TypeOK
<1>4. CASE s # None
  BY <1>1, <1>2, <1>4 DEF Placed
<1> QED
  BY <1>3, <1>4

\* A step that starts no session and moves none keeps it.
LEMMA StayKeepsPlaced ==
  ASSUME UpPlaced, \A s \in Sessions : sess'[s] = "up" => sess[s] = "up",
         UNCHANGED <<idle, ending, conn>>
  PROVE  UpPlaced'
  BY DEF UpPlaced, Placed

\* Every step of the pool knows where a session that is up can be found.
LEMMA StepPlaced ==
  ASSUME PoolAssumption, TypeOK, ConnKnown, LeaseBooks, EndingInv, UpPlaced, [Next]_vars
  PROVE  UpPlaced'
<1>1. ASSUME UNCHANGED <<idle, ending, conn, sess>> PROVE UpPlaced'
  BY <1>1, StayKeepsPlaced
<1>2. CASE UNCHANGED vars
  BY <1>1, <1>2 DEF vars, poolVars, leaseVars, sessVars
<1>3. ASSUME NEW l \in Leases, Unreserve(l) \/ FreeSlot(l), pc[l] \notin Owning,
             UNCHANGED <<idle, ending, sess>>
      PROVE  UpPlaced'
  <2>1. conn[l] = None
    BY <1>3 DEF LeaseBooks, LeaseBook
  <2> QED
    BY <1>3, <2>1, LetGoKeepsPlaced DEF Unreserve, FreeSlot
<1>4. ASSUME NEW l \in Leases, Unreserve(l), pc[l] \in Owning,
             sess' = [sess EXCEPT ![conn[l]] = Stopped(conn[l])], UNCHANGED <<idle, ending>>
      PROVE  UpPlaced'
  <2>1. conn[l] \in Sessions
    BY <1>4 DEF ConnKnown
  <2>2. sess'[conn[l]] # "up" /\ \A s \in Sessions : sess'[s] = "up" => sess[s] = "up"
    BY <1>4, <2>1 DEF TypeOK, Stopped
  <2> QED
    BY <1>4, <2>2, LetGoKeepsPlaced DEF Unreserve, FreeSlot
<1>5. ASSUME NEW l \in Leases, Checkout(l) PROVE UpPlaced'
  <2>1. CASE AcquirePermit(l) \/ AcquireClosed(l) \/ PopNone(l) \/ Vet(l)
    BY <1>1, <2>1 DEF AcquirePermit, AcquireClosed, PopNone, Vet, poolVars, sessVars
  <2>2. CASE ProbeHealthy(l) \/ Register(l)
    BY <1>1, <2>2 DEF ProbeHealthy, Register, poolVars, sessVars
  <2>3. CASE PopClosed(l) \/ ConnectFails(l)
    BY <1>3, <2>3 DEF PopClosed, ConnectFails, Owning, sessVars
  <2>4. CASE PopIdle(l)
    <3>1. /\ idle # <<>> /\ pc[l] = "pop"
          /\ conn' = [conn EXCEPT ![l] = idle[Len(idle)]]
          /\ idle' = BelowTop(idle)
          /\ UNCHANGED <<ending, sess>>
      BY <2>4 DEF PopIdle, sessVars
    <3>2. conn[l] = None
      BY <3>1 DEF LeaseBooks, LeaseBook, Owning
    <3>3. \A i \in DOMAIN idle : i = Len(idle) \/ (i \in DOMAIN idle' /\ idle'[i] = idle[i])
      <4>1. /\ DOMAIN idle = 1..Len(idle) /\ Len(idle) \in Nat
            /\ BelowTop(idle) \in Seq(Sessions) /\ Len(BelowTop(idle)) = Len(idle) - 1
        BY <3>1, BelowTopFacts, LenProperties DEF TypeOK
      <4>2. DOMAIN BelowTop(idle) = 1..(Len(idle) - 1)
        BY <4>1, LenProperties
      <4>3. \A i \in 1..(Len(idle) - 1) : BelowTop(idle)[i] = idle[i]
        BY <3>1, <4>2, BelowTopFacts DEF TypeOK
      <4> QED
        BY <3>1, <4>1, <4>2, <4>3
    <3>4. conn'[l] = idle[Len(idle)] /\ \A k \in Leases : conn[k] # None => conn'[k] = conn[k]
      BY <3>1, <3>2 DEF TypeOK
    <3>5. ASSUME NEW s \in Sessions, Placed(s) PROVE Placed(s)'
      <4>1. s # None
        BY DEF PoolAssumption
      <4> QED
        BY <3>1, <3>3, <3>4, <3>5, <4>1 DEF Placed
    <3> QED
      BY <3>1, <3>5 DEF UpPlaced
  <2>5. CASE ProbeFails(l)
    <3>1. \A s \in Sessions : sess'[s] = "up" => sess[s] = "up"
      BY <2>5 DEF ProbeFails, TypeOK
    <3> QED
      BY <2>5, <3>1, StayKeepsPlaced DEF ProbeFails, poolVars
  <2>6. ASSUME NEW s \in Sessions, ConnectOk(l, s) PROVE UpPlaced'
    <3>1. pc[l] = "connect" /\ UNCHANGED <<idle, ending>>
      BY <2>6 DEF ConnectOk
    <3>2. conn[l] = None
      BY <3>1 DEF LeaseBooks, LeaseBook, Owning
    <3>3. CASE closed
      <4>1. sess' = [sess EXCEPT ![s] = "stopping"] /\ conn' = [conn EXCEPT ![l] = None]
        BY <2>6, <3>3 DEF ConnectOk, Unreserve, FreeSlot
      <4>2. \A t \in Sessions : sess'[t] = "up" => sess[t] = "up"
        BY <4>1 DEF TypeOK
      <4> QED
        BY <3>1, <3>2, <4>1, <4>2, LetGoKeepsPlaced
    <3>4. CASE ~closed
      <4>1. sess' = [sess EXCEPT ![s] = "up"] /\ conn' = [conn EXCEPT ![l] = s]
        BY <2>6, <3>4 DEF ConnectOk
      <4>2. \A t \in Sessions : t # s => sess'[t] = sess[t]
        BY <4>1 DEF TypeOK
      <4>3. conn'[l] = s /\ \A k \in Leases : conn[k] # None => conn'[k] = conn[k]
        BY <3>2, <4>1 DEF TypeOK
      <4>4. ASSUME NEW t \in Sessions, sess'[t] = "up" PROVE Placed(t)'
        <5>1. CASE t = s
          BY <4>3, <5>1 DEF Placed
        <5>2. CASE t # s
          <6>1. Placed(t) /\ t # None
            BY <4>2, <4>4, <5>2 DEF UpPlaced, PoolAssumption
          <6> QED
            BY <3>1, <4>3, <6>1 DEF Placed
        <5> QED BY <5>1, <5>2
      <4> QED
        BY <4>4 DEF UpPlaced
    <3> QED BY <3>3, <3>4
  <2> QED
    BY <1>5, <2>1, <2>2, <2>3, <2>4, <2>5, <2>6 DEF Checkout
<1>6. ASSUME NEW l \in Leases, Cleanup(l) PROVE UpPlaced'
  <2>1. CASE Finish(l) \/ RollbackOk(l)
    BY <1>1, <2>1 DEF Finish, RollbackOk, poolVars, sessVars
  <2>2. CASE RollbackFails(l) \/ CloseCall(l)
    <3>1. \A s \in Sessions : sess'[s] = "up" => sess[s] = "up"
      BY <2>2 DEF RollbackFails, CloseCall, CloseFlag, Stopped, TypeOK
    <3> QED
      BY <2>2, <3>1, StayKeepsPlaced DEF RollbackFails, CloseCall, poolVars
  <2>3. CASE Store(l)
    <3>1. CASE ~Storable
      BY <1>1, <2>3, <3>1 DEF Store, sessVars
    <3>2. CASE Storable
      <4>1. /\ pc[l] = "store"
            /\ idle' = Append(idle, conn[l])
            /\ conn' = [conn EXCEPT ![l] = None]
            /\ UNCHANGED <<ending, sess>>
        BY <2>3, <3>2 DEF Store, sessVars
      <4>2. conn[l] \in Sessions
        BY <4>1 DEF ConnKnown, Owning
      <4>3. /\ \A i \in DOMAIN idle : i \in DOMAIN idle' /\ idle'[i] = idle[i]
            /\ Len(idle) + 1 \in DOMAIN idle' /\ idle'[Len(idle) + 1] = conn[l]
        BY <4>1, <4>2, AppendProperties, LenProperties DEF TypeOK
      <4>4. \A k \in Leases : k # l => conn'[k] = conn[k]
        BY <4>1 DEF TypeOK
      <4>5. ASSUME NEW s \in Sessions, Placed(s) PROVE Placed(s)'
        BY <4>1, <4>3, <4>4, <4>5 DEF Placed
      <4> QED
        BY <4>1, <4>5 DEF UpPlaced
    <3> QED BY <3>1, <3>2
  <2>4. CASE StoreDone(l)
    BY <1>3, <2>4 DEF StoreDone, Owning, sessVars
  <2>5. ASSUME CloseDone(l), sess[conn[l]] # "up", UNCHANGED <<idle, ending, sess>> PROVE UpPlaced'
    <3>1. conn' = [conn EXCEPT ![l] = None]
      BY <2>5 DEF CloseDone, Unreserve, FreeSlot
    <3> QED
      BY <2>5, <3>1, LetGoKeepsPlaced
  <2>6. CASE CloseCheck(l)
    <3>1. CASE IsClosed(conn[l])
      BY <2>5, <2>6, <3>1 DEF CloseCheck, IsClosed, sessVars
    <3>2. CASE ~IsClosed(conn[l])
      BY <1>1, <2>6, <3>2 DEF CloseCheck, sessVars
    <3> QED BY <3>1, <3>2
  <2>7. CASE CloseFinished(l)
    BY <2>5, <2>7 DEF CloseFinished, sessVars
  <2> QED
    BY <1>6, <2>1, <2>2, <2>3, <2>4, <2>6, <2>7 DEF Cleanup
<1>7. ASSUME NEW l \in Leases, Holder(l) PROVE UpPlaced'
  <2>1. CASE Get(l) \/ Release(l) \/ AbandonWait(l) \/ AbandonRetire(l)
    BY <1>1, <2>1 DEF Get, Release, AbandonWait, AbandonRetire, poolVars, sessVars
  <2>2. CASE Use(l)
    <3>1. \A s \in Sessions : sess'[s] = "up" => sess[s] = "up"
      BY <2>2 DEF Use, TypeOK
    <3> QED
      BY <2>2, <3>1, StayKeepsPlaced DEF Use, poolVars, leaseVars
  <2>3. CASE DropWithoutRuntime(l) \/ AbandonProbe(l)
    BY <1>4, <2>3 DEF DropWithoutRuntime, AbandonProbe, Owning
  <2>4. CASE AbandonConnect(l)
    BY <1>3, <2>4 DEF AbandonConnect, ConnectFails, Owning, sessVars
  <2> QED
    BY <1>7, <2>1, <2>2, <2>3, <2>4 DEF Holder
<1>8. CASE EndPermits
  BY <1>1, <1>8 DEF EndPermits, leaseVars, sessVars
<1>9. ASSUME NEW s \in Sessions, SessionDrains(s) \/ SessionGone(s) PROVE UpPlaced'
  <2>1. \A t \in Sessions : sess'[t] = "up" => sess[t] = "up"
    BY <1>9 DEF SessionDrains, SessionGone, TypeOK
  <2> QED
    BY <1>9, <2>1, StayKeepsPlaced DEF SessionDrains, SessionGone, poolVars, leaseVars
<1>10. CASE EndStop
  <2>1. \A t \in Sessions : sess'[t] = "up" => sess[t] = "up"
    BY <1>10 DEF EndStop, TypeOK
  <2> QED
    BY <1>10, <2>1, StayKeepsPlaced DEF EndStop, poolVars, leaseVars
<1>11. CASE EndTake
  <2>1. ending' = idle /\ ending = <<>> /\ UNCHANGED <<conn, sess>>
    BY <1>11 DEF EndTake, leaseVars, sessVars, EndingInv
  <2>2. DOMAIN ending = {}
    BY <2>1
  <2> QED
    BY <2>1, <2>2 DEF UpPlaced, Placed
<1>12. CASE EndNext
  <2>1. /\ ending # <<>> /\ ending' = Tail(ending)
        /\ sess[Head(ending)] # "up"
        /\ UNCHANGED <<idle, conn, sess>>
    BY <1>12 DEF EndNext, IsClosed, leaseVars, sessVars
  <2>2. /\ Len(ending) \in Nat \ {0} /\ DOMAIN ending = 1..Len(ending)
        /\ Head(ending) = ending[1]
        /\ DOMAIN Tail(ending) = 1..(Len(ending) - 1)
        /\ \A i \in 1..(Len(ending) - 1) : Tail(ending)[i] = ending[i + 1]
    BY <2>1, HeadTailProperties, EmptySeq, LenProperties DEF TypeOK
  <2>3. \A i \in DOMAIN ending : i = 1 \/ (i - 1 \in DOMAIN ending' /\ ending'[i - 1] = ending[i])
    BY <2>1, <2>2
  <2>4. ASSUME NEW s \in Sessions, sess[s] = "up", Placed(s) PROVE Placed(s)'
    BY <2>1, <2>2, <2>3, <2>4 DEF Placed
  <2> QED
    BY <2>1, <2>4 DEF UpPlaced
<1>13. CASE AbandonEnd
  <2>1. /\ sess' = [s \in Sessions |-> IF \E i \in DOMAIN ending : ending[i] = s THEN Stopped(s) ELSE sess[s]]
        /\ UNCHANGED <<idle, conn>>
    BY <1>13 DEF AbandonEnd, leaseVars
  <2>2. ASSUME NEW s \in Sessions, sess'[s] = "up"
        PROVE  sess[s] = "up" /\ ~\E i \in DOMAIN ending : ending[i] = s
    BY <2>1, <2>2 DEF Stopped
  <2> QED
    BY <2>1, <2>2 DEF UpPlaced, Placed
<1>14. CASE DropPool
  <2>1. /\ sess' = [s \in Sessions |-> IF \E i \in DOMAIN idle : idle[i] = s THEN Stopped(s) ELSE sess[s]]
        /\ UNCHANGED <<ending, conn>>
    BY <1>14 DEF DropPool, leaseVars
  <2>2. ASSUME NEW s \in Sessions, sess'[s] = "up"
        PROVE  sess[s] = "up" /\ ~\E i \in DOMAIN idle : idle[i] = s
    BY <2>1, <2>2 DEF Stopped
  <2> QED
    BY <2>1, <2>2 DEF UpPlaced, Placed
<1> QED
  BY <1>2, <1>5, <1>6, <1>7, <1>8, <1>9, <1>10, <1>11, <1>12, <1>13, <1>14 DEF Next, Ending

Elements(q) == {q[i] : i \in DOMAIN q}

\* A sequence has no more elements than places.
LEMMA ElementsOfSeq ==
  ASSUME NEW S, NEW q \in Seq(S)
  PROVE  /\ IsFiniteSet(Elements(q))
         /\ Cardinality(Elements(q)) \in Nat
         /\ Cardinality(Elements(q)) <= Len(q)
<1> DEFINE R == {q[i] : i \in DOMAIN q}
<1>1. DOMAIN q = 1..Len(q) /\ Len(q) \in Nat
  BY LenProperties
<1>2. IsFiniteSet(1..Len(q)) /\ Cardinality(1..Len(q)) = Len(q)
  BY <1>1, FS_Interval
<1>3. q \in [1..Len(q) -> R]
  BY <1>1, LenProperties
<1>4. q \in Surjection(1..Len(q), R)
  BY <1>1, <1>3 DEF Surjection
<1>5. IsFiniteSet(R) /\ Cardinality(R) <= Cardinality(1..Len(q))
  BY <1>2, <1>4, FS_Surjection
<1> QED
  BY <1>2, <1>5, FS_CardinalityType DEF Elements

\* Every session that is up has a place of its own among the bounded ones.
LEMMA PlacedWithinMax ==
  ASSUME PoolAssumption, TypeOK, LeaseBooks, CapacityInv, EndingInv, UpPlaced, ClosedKeepsNothing
  PROVE  UpWithinMax
<1> DEFINE Up == {s \in Sessions : sess[s] = "up"}
           Stack == Elements(idle)
           List == Elements(ending)
           Lent == {conn[l] : l \in Slots}
<1>1. /\ IsFiniteSet(Stack) /\ Cardinality(Stack) \in Nat /\ Cardinality(Stack) <= Len(idle)
      /\ IsFiniteSet(List) /\ Cardinality(List) \in Nat /\ Cardinality(List) <= Len(ending)
  BY ElementsOfSeq DEF TypeOK
<1>2. IsFiniteSet(Slots) /\ Cardinality(Slots) \in Nat
  BY FS_Subset, FS_CardinalityType DEF PoolAssumption, Slots
<1>3. IsFiniteSet(Lent) /\ Cardinality(Lent) \in Nat /\ Cardinality(Lent) <= Cardinality(Slots)
  <2> DEFINE f == [l \in Slots |-> conn[l]]
  <2>1. f \in Surjection(Slots, Lent)
    BY DEF Surjection
  <2> HIDE DEF f
  <2> QED
    BY <1>2, <2>1, FS_Surjection, FS_CardinalityType
<1>4. Up \subseteq (Stack \cup List) \cup Lent
  <2> SUFFICES ASSUME NEW s \in Sessions, sess[s] = "up" PROVE s \in (Stack \cup List) \cup Lent
    OBVIOUS
  <2>1. Placed(s)
    BY DEF UpPlaced
  <2>2. ASSUME NEW l \in Leases, conn[l] = s PROVE l \in Slots
    <3>1. conn[l] # None
      BY <2>2 DEF PoolAssumption
    <3> QED
      BY <3>1 DEF LeaseBooks, LeaseBook, Owning, Slots
  <2> QED
    BY <2>1, <2>2 DEF Placed, Elements
<1>5. /\ IsFiniteSet((Stack \cup List) \cup Lent)
      /\ Cardinality((Stack \cup List) \cup Lent) <= Cardinality(Stack) + Cardinality(List) + Cardinality(Lent)
  <2> HIDE DEF Stack, List, Lent
  <2>1. /\ IsFiniteSet(Stack \cup List) /\ Cardinality(Stack \cup List) \in Nat
        /\ Cardinality(Stack \cup List) <= Cardinality(Stack) + Cardinality(List)
    <3>1. IsFiniteSet(Stack \cap List) /\ Cardinality(Stack \cap List) \in Nat
      BY <1>1, FS_Subset, FS_CardinalityType
    <3>2. /\ IsFiniteSet(Stack \cup List)
          /\ Cardinality(Stack \cup List) = Cardinality(Stack) + Cardinality(List) - Cardinality(Stack \cap List)
      BY <1>1, FS_Union
    <3> QED
      BY <1>1, <3>1, <3>2, FS_CardinalityType
  <2>2. IsFiniteSet((Stack \cup List) \cap Lent) /\ Cardinality((Stack \cup List) \cap Lent) \in Nat
    BY <2>1, FS_Subset, FS_CardinalityType
  <2>3. /\ IsFiniteSet((Stack \cup List) \cup Lent)
        /\ Cardinality((Stack \cup List) \cup Lent)
             = Cardinality(Stack \cup List) + Cardinality(Lent) - Cardinality((Stack \cup List) \cap Lent)
    BY <1>3, <2>1, FS_Union
  <2> QED
    BY <1>1, <1>3, <2>1, <2>2, <2>3
<1>6. /\ Cardinality(Up) \in Nat
      /\ Cardinality(Up) <= Cardinality(Stack) + Cardinality(List) + Cardinality(Lent)
  <2>1. IsFiniteSet(Up) /\ Cardinality(Up) <= Cardinality((Stack \cup List) \cup Lent)
    BY <1>4, <1>5, FS_Subset
  <2>2. Cardinality(Up) \in Nat /\ Cardinality((Stack \cup List) \cup Lent) \in Nat
    BY <1>5, <2>1, FS_CardinalityType
  <2> QED
    BY <1>1, <1>3, <1>5, <2>1, <2>2
<1>7. Len(idle) \in Nat /\ Len(ending) \in Nat /\ Max \in Nat
  BY LenProperties DEF TypeOK, PoolAssumption
<1>8. Len(idle) + Len(ending) + Cardinality(Slots) <= Max
  <2>1. CASE ending = <<>>
    BY <1>2, <1>7, <2>1, EmptySeq DEF CapacityInv, CapacityBound
  <2>2. CASE ending # <<>>
    <3>1. idle = <<>>
      BY <2>2 DEF EndingInv, ClosedKeepsNothing
    <3> QED
      BY <1>2, <1>7, <3>1, EmptySeq DEF EndingInv
  <2> QED BY <2>1, <2>2
<1> HIDE DEF Up, Stack, List, Lent
<1>9. Cardinality(Up) <= Max
  BY <1>1, <1>2, <1>3, <1>6, <1>7, <1>8
<1> QED
  BY <1>9 DEF UpWithinMax, Up

\* The inductive invariant of the accounts
AccountsInv ==
  /\ TypeOK /\ ConnKnown /\ OneOwner /\ FitInv
  /\ CapacityInv /\ LeaseBooks /\ CoverInv /\ EndingInv /\ UpPlaced

\* The books of the pool balance, for every mix of timeouts, abandoned
\* checkouts, failed connects, retirements and shutdowns: every permit is
\* available or with a checkout, total never forgets a connection, and the
\* connections not told to stop never exceed max, those that end() still has
\* to close included.
THEOREM PoolBooks == Spec => []PoolAccounts
<1>1. Init => AccountsInv
  <2> SUFFICES ASSUME Init PROVE AccountsInv
    OBVIOUS
  <2>1. TypeOK /\ ConnKnown
    BY InitTypes
  <2>2. /\ idle = <<>> /\ DOMAIN idle = {} /\ Len(idle) = 0
        /\ ending = <<>> /\ Len(ending) = 0
    BY EmptySeq, LenProperties DEF Init
  <2>3. OneOwner
    BY <2>2 DEF Init, OneOwner
  <2>4. FitInv
    BY <2>2 DEF Init, FitInv, IdleIsFit, IdleIsClean, UsesBounded, ClosedKeepsNothing, RolledBack, UsesLeft
  <2>5. Permitted = {} /\ Slots = {} /\ Covered = {}
    BY DEF Init, Permitted, Slots, Covered
  <2>6. CapacityInv /\ CoverInv /\ EndingInv
    BY <2>2, <2>5, PoolAssumption, FS_EmptySet
       DEF PoolAssumption, Init, CapacityInv, PermitsConserved, CapacityBound, CoverInv, EndingInv
  <2>7. LeaseBooks
    BY DEF Init, LeaseBooks, LeaseBook, Owning, Closing
  <2>8. UpPlaced
    BY DEF Init, UpPlaced
  <2> QED
    BY <2>1, <2>3, <2>4, <2>6, <2>7, <2>8 DEF AccountsInv
<1>2. AccountsInv /\ [Next]_vars => AccountsInv'
  <2> SUFFICES ASSUME AccountsInv, [Next]_vars PROVE AccountsInv'
    OBVIOUS
  <2>1. TypeOK' /\ ConnKnown'
    BY PoolAssumption, StepTypes DEF AccountsInv
  <2>2. OneOwner' /\ FitInv'
    BY PoolAssumption, StepOwner, StepFit DEF AccountsInv
  <2>3. CapacityInv'
    BY <2>1, PoolAssumption, StepCapacity DEF AccountsInv
  <2>4. LeaseBooks'
    BY PoolAssumption, StepBooks DEF AccountsInv
  <2>5. CoverInv'
    BY <2>1, PoolAssumption, StepCover DEF AccountsInv
  <2>6. EndingInv'
    BY <2>1, <2>3, PoolAssumption, StepEnding DEF AccountsInv
  <2>7. UpPlaced'
    BY PoolAssumption, StepPlaced DEF AccountsInv
  <2> QED
    BY <2>1, <2>2, <2>3, <2>4, <2>5, <2>6, <2>7 DEF AccountsInv
<1>3. AccountsInv => PoolAccounts
  <2> SUFFICES ASSUME AccountsInv PROVE PoolAccounts
    OBVIOUS
  <2>1. PermitsConserved
    BY DEF AccountsInv, CapacityInv
  <2>2. TotalCoversAll
    BY PoolAssumption, CoverIsEnough DEF AccountsInv
  <2>3. UpWithinMax
    BY PoolAssumption, PlacedWithinMax DEF AccountsInv, FitInv, IdleIsFit
  <2> QED
    BY <2>1, <2>2, <2>3 DEF PoolAccounts
<1> QED
  BY <1>1, <1>2, <1>3, PTL DEF Spec
================================================================================
