----------------------------- MODULE CallersProof -----------------------------
(***************************************************************************)
(* The ways an application shares a legacy connection or blocks on a       *)
(* native one, proved for any number of threads, jobs and handles and      *)
(* every configuration: the synchronous pool keeps its count and strands   *)
(* no waiter, the async wrapper closes for good and cancels only what      *)
(* runs, and the blocking client settles what it drops.                    *)
(***************************************************************************)
EXTENDS MCCallers, FiniteSetTheorems, SequenceTheorems, TLAPS

-----------------------------------------------------------------------------
(* The blocking client *)

\* The thread has the lease exactly while a statement of it runs
ThreadLeases == at \in {"run", "passed"} <=> lease = "thread"

\* A transaction on a session that goes on has its guard or its rollback
TxAttended == session = "up" /\ tx => lease = "rollback" \/ (lease = "guard" /\ guard = "tx")

\* What the thread has borrowed it keeps to itself
Borrowed == /\ guard # "none" => at = "idle" /\ lease \in {"guard", "free"}
            /\ guard = "tx" => lease = "guard"

BlockingInv == Blocking!TypeOK /\ ThreadLeases /\ TxAttended /\ Borrowed

\* Every step of the blocking client, and of its session, keeps a transaction
\* attended.
LEMMA BlockingStep ==
  ASSUME BlockingInv, Blocking!Next PROVE BlockingInv'
<1> USE DEF BlockingInv, Blocking!TypeOK, ThreadLeases, TxAttended, Borrowed
<1>1. CASE Blocking!Call
  BY <1>1 DEF Blocking!Call, Blocking!Begins
<1>2. CASE Blocking!OpenIter
  BY <1>2 DEF Blocking!OpenIter, Blocking!Begins
<1>3. CASE Blocking!Transaction
  BY <1>3 DEF Blocking!Transaction, Blocking!Begins
<1>4. CASE Blocking!IterExhausted
  BY <1>4 DEF Blocking!IterExhausted
<1>5. CASE Blocking!EndTransaction
  <2>0. at = "idle" /\ at' = at /\ session' = session /\ guard' = "none" /\ steps' = steps + 1
    BY <1>5 DEF Blocking!EndTransaction, Blocking!Begins
  <2>1. CASE session = "up" /\ tx' = FALSE /\ lease' = "free"
    <3>1. tx' \in BOOLEAN
      BY <2>1
    <3>2. ~tx' /\ lease' = "free"
      BY <2>1
    <3> QED
      BY <2>0, <3>1, <3>2
  <2>2. CASE tx' = tx /\ lease' = "rollback"
    BY <2>0, <2>2
  <2> QED
    BY <1>5, <2>1, <2>2 DEF Blocking!EndTransaction
<1>6. CASE Blocking!DropGuard
  BY <1>6 DEF Blocking!DropGuard, Blocking!LeaseAfterDrop, Blocking!Begins
<1>7. CASE Blocking!Close
  BY <1>7 DEF Blocking!Close, Blocking!Stop
<1>8. CASE Blocking!Acquire \/ Blocking!CallRefused \/ Blocking!CallReturns
  BY <1>8 DEF Blocking!Acquire, Blocking!CallRefused, Blocking!CallReturns
<1>9. CASE Blocking!BarrierAcquires \/ Blocking!BarrierReturns \/ Blocking!Closed
  BY <1>9 DEF Blocking!BarrierAcquires, Blocking!BarrierReturns, Blocking!Closed, Blocking!Stop
<1>10. CASE Blocking!BarrierFails
  BY <1>10 DEF Blocking!BarrierFails, Blocking!Stop
<1>11. CASE Blocking!RollbackEnds
  BY <1>11 DEF Blocking!RollbackEnds, Blocking!Stop
<1>12. CASE Blocking!DrainEnds \/ Blocking!GoesDown
  BY <1>12 DEF Blocking!DrainEnds, Blocking!GoesDown
<1> QED
  BY <1>1, <1>2, <1>3, <1>4, <1>5, <1>6, <1>7, <1>8, <1>9, <1>10, <1>11, <1>12
  DEF Blocking!Next, Blocking!Waits

\* A wait for a cleanup ends with the cleanup over, or with the session stopped.
LEMMA BlockingSettles ==
  ASSUME BlockingInv, Blocking!Next, at' = "idle", at \in {"barrier", "passed"}
  PROVE  Blocking!Settled'
<1> USE DEF BlockingInv, Blocking!TypeOK, ThreadLeases, TxAttended, Borrowed
<1>1. Blocking!BarrierReturns \/ Blocking!BarrierFails
  BY DEF Blocking!Next, Blocking!Waits, Blocking!Call, Blocking!OpenIter, Blocking!Transaction,
         Blocking!IterExhausted, Blocking!EndTransaction, Blocking!DropGuard, Blocking!Close,
         Blocking!Acquire, Blocking!CallRefused, Blocking!CallReturns, Blocking!BarrierAcquires,
         Blocking!Closed, Blocking!RollbackEnds, Blocking!DrainEnds, Blocking!GoesDown,
         Blocking!Begins
<1>2. CASE Blocking!BarrierReturns
  BY <1>2 DEF Blocking!BarrierReturns, Blocking!Stop, Blocking!Settled
<1>3. CASE Blocking!BarrierFails
  BY <1>3 DEF Blocking!BarrierFails, Blocking!Stop, Blocking!Settled
<1> QED
  BY <1>1, <1>2, <1>3

\* The blocking client, for any number of calls: when the drop of an iterator or
\* of a transaction has waited for its cleanup, that is over or the session is
\* told to stop; and no statement runs inside a transaction that was given up.
THEOREM BlockingDrops == CallersSpec => DropSettles
<1>1. CallersInit => BlockingInv
  <2> SUFFICES ASSUME Blocking!Init PROVE BlockingInv
    BY DEF CallersInit
  <2> QED
    BY DEF Blocking!Init, BlockingInv, Blocking!TypeOK, ThreadLeases, TxAttended, Borrowed
<1>2. BlockingInv /\ [CallersNext]_callersVars => BlockingInv'
  <2> SUFFICES ASSUME BlockingInv, [CallersNext]_callersVars PROVE BlockingInv'
    OBVIOUS
  <2>1. Blocking!Next \/ UNCHANGED blockingVars
    BY DEF CallersNext, callersVars
  <2>2. CASE UNCHANGED blockingVars
    BY <2>2 DEF blockingVars, BlockingInv, Blocking!TypeOK, ThreadLeases, TxAttended, Borrowed
  <2> QED
    BY <2>1, <2>2, BlockingStep
<1>3. BlockingInv => Blocking!TypeOK /\ Blocking!RunsOutside
  BY DEF BlockingInv, Blocking!RunsOutside, ThreadLeases, TxAttended
<1>4. BlockingInv /\ [CallersNext]_callersVars
        => [at' = "idle" /\ at \in {"barrier", "passed"} => Blocking!Settled']_(Blocking!vars)
  <2> SUFFICES ASSUME BlockingInv, [CallersNext]_callersVars,
                      at' = "idle", at \in {"barrier", "passed"}, ~UNCHANGED Blocking!vars
               PROVE  Blocking!Settled'
    OBVIOUS
  <2>1. Blocking!Next
    BY DEF CallersNext, callersVars, blockingVars, Blocking!vars
  <2> QED
    BY <2>1, BlockingSettles
<1> QED
  BY <1>1, <1>2, <1>3, <1>4, PTL DEF CallersSpec, DropSettles, Blocking!DropSettles

-----------------------------------------------------------------------------
(* The async wrapper *)

\* A job past the lock of the connection
Inside(j) == job[j] \in {"locked", "checked", "active", "sent", "done", "release"}

\* The lock of the connection has one owner, the job that is inside
InnerOwned == \A j \in Jobs : Inside(j) <=> inner = j

\* The active operation is that of the job inside, and the latest
ActiveRuns ==
  active # None => /\ inner \in Jobs /\ job[inner] \in {"active", "sent", "done"}
                   /\ gen[inner] = active /\ active = nextGen

\* A cancel that is under way holds the lock of the active operation
CancelLocks ==
  /\ user = "called" => controlLock = "user" /\ active # None
  /\ closer = "cancel" => controlLock = "closer" /\ active # None

WrapperLocks == Wrapper!CloseIsFinal /\ InnerOwned /\ ActiveRuns /\ CancelLocks
WrapperInv == Wrapper!TypeOK /\ WrapperLocks

\* A step of the wrapper is one of these.
LEMMA WrapperSteps ==
  ASSUME Wrapper!Next
  PROVE  \/ \E j \in Jobs : \/ Wrapper!Call(j) \/ Wrapper!LockInner(j) \/ Wrapper!Refused(j)
                            \/ Wrapper!BeginChecks(j) \/ Wrapper!BeginRegisters(j)
                            \/ Wrapper!SendStatement(j) \/ Wrapper!Answer(j) \/ Wrapper!Fails(j)
                            \/ Wrapper!Finish(j) \/ Wrapper!Release(j)
         \/ Wrapper!UserCancel \/ Wrapper!UserSends
         \/ Wrapper!CloseFlag \/ Wrapper!CloseCancels \/ Wrapper!CloseSends \/ Wrapper!CloseTakes
         \/ \E h \in Handles : Wrapper!DropHandle(h)
         \/ Wrapper!Complete \/ Wrapper!CancelArrives
BY DEF Wrapper!Next, Wrapper!Works, Wrapper!Closes

\* The wrapper keeps its types.
LEMMA WrapperTypes ==
  ASSUME WrapperInv, Wrapper!Next PROVE Wrapper!TypeOK'
<1> USE CallersAssumption DEF WrapperInv, WrapperLocks, Wrapper!TypeOK, CancelLocks
<1>1. ASSUME NEW j \in Jobs, Wrapper!Call(j) PROVE Wrapper!TypeOK'
  BY <1>1 DEF Wrapper!Call, Wrapper!Moves, Wrapper!controlVars, Wrapper!callerVars
<1>2. ASSUME NEW j \in Jobs, Wrapper!LockInner(j) PROVE Wrapper!TypeOK'
  BY <1>2 DEF Wrapper!LockInner, Wrapper!Moves, Wrapper!controlVars, Wrapper!callerVars
<1>3. ASSUME NEW j \in Jobs, Wrapper!Refused(j) PROVE Wrapper!TypeOK'
  BY <1>3 DEF Wrapper!Refused, Wrapper!Moves, Wrapper!controlVars, Wrapper!callerVars
<1>4. ASSUME NEW j \in Jobs, Wrapper!BeginChecks(j) PROVE Wrapper!TypeOK'
  BY <1>4 DEF Wrapper!BeginChecks, Wrapper!Moves, Wrapper!controlVars, Wrapper!callerVars
<1>5. ASSUME NEW j \in Jobs, Wrapper!BeginRegisters(j) PROVE Wrapper!TypeOK'
  BY <1>5 DEF Wrapper!BeginRegisters, Wrapper!Moves, Wrapper!controlVars, Wrapper!callerVars
<1>6. ASSUME NEW j \in Jobs, Wrapper!SendStatement(j) PROVE Wrapper!TypeOK'
  BY <1>6 DEF Wrapper!SendStatement, Wrapper!Moves, Wrapper!controlVars, Wrapper!callerVars
<1>7. ASSUME NEW j \in Jobs, Wrapper!Answer(j) PROVE Wrapper!TypeOK'
  BY <1>7 DEF Wrapper!Answer, Wrapper!Moves, Wrapper!controlVars, Wrapper!callerVars
<1>8. ASSUME NEW j \in Jobs, Wrapper!Finish(j) PROVE Wrapper!TypeOK'
  BY <1>8 DEF Wrapper!Finish, Wrapper!Moves, Wrapper!controlVars, Wrapper!callerVars
<1>9. ASSUME NEW j \in Jobs, Wrapper!Release(j) PROVE Wrapper!TypeOK'
  BY <1>9 DEF Wrapper!Release, Wrapper!Moves, Wrapper!Alive, Wrapper!controlVars, Wrapper!callerVars
<1>10. ASSUME NEW j \in Jobs, Wrapper!Fails(j) PROVE Wrapper!TypeOK'
  BY <1>10 DEF Wrapper!Fails, Wrapper!controlVars, Wrapper!callerVars
<1>11. CASE Wrapper!UserCancel
  BY <1>11 DEF Wrapper!UserCancel, Wrapper!TakeControl, Wrapper!controlVars, Wrapper!callerVars
<1>12. CASE Wrapper!UserSends
  BY <1>12 DEF Wrapper!UserSends, Wrapper!SendPacket, Wrapper!controlVars, Wrapper!callerVars
<1>13. CASE Wrapper!CloseFlag
  BY <1>13 DEF Wrapper!CloseFlag, Wrapper!controlVars, Wrapper!callerVars
<1>14. CASE Wrapper!CloseCancels
  BY <1>14 DEF Wrapper!CloseCancels, Wrapper!TakeControl, Wrapper!controlVars, Wrapper!callerVars
<1>15. CASE Wrapper!CloseSends
  BY <1>15 DEF Wrapper!CloseSends, Wrapper!SendPacket, Wrapper!controlVars, Wrapper!callerVars
<1>16. CASE Wrapper!CloseTakes
  BY <1>16 DEF Wrapper!CloseTakes, Wrapper!LockOrPoisoned, Wrapper!controlVars, Wrapper!callerVars
<1>17. ASSUME NEW h \in Handles, Wrapper!DropHandle(h) PROVE Wrapper!TypeOK'
  BY <1>17 DEF Wrapper!DropHandle, Wrapper!Alive, Wrapper!controlVars, Wrapper!callerVars
<1>18. CASE Wrapper!Complete
  BY <1>18 DEF Wrapper!Complete, Wrapper!controlVars, Wrapper!callerVars
<1>19. CASE Wrapper!CancelArrives
  BY <1>19 DEF Wrapper!CancelArrives, Wrapper!controlVars, Wrapper!callerVars
<1> QED
  BY <1>1, <1>2, <1>3, <1>4, <1>5, <1>6, <1>7, <1>8, <1>9, <1>10, <1>11, <1>12, <1>13, <1>14,
     <1>15, <1>16, <1>17, <1>18, <1>19, WrapperSteps

\* The locks have one owner each, and nobody is inside once the wrapper is closed.
LEMMA WrapperStep ==
  ASSUME WrapperInv, Wrapper!Next PROVE WrapperLocks'
<1> USE CallersAssumption DEF WrapperInv, WrapperLocks, Wrapper!TypeOK, Wrapper!CloseIsFinal,
           InnerOwned, Inside, ActiveRuns, CancelLocks
<1>1. ASSUME NEW j \in Jobs, Wrapper!Call(j) PROVE WrapperLocks'
  BY <1>1 DEF Wrapper!Call, Wrapper!Moves, Wrapper!controlVars, Wrapper!callerVars
<1>2. ASSUME NEW j \in Jobs, Wrapper!LockInner(j) PROVE WrapperLocks'
  BY <1>2 DEF Wrapper!LockInner, Wrapper!Moves, Wrapper!controlVars, Wrapper!callerVars
<1>3. ASSUME NEW j \in Jobs, Wrapper!Refused(j) PROVE WrapperLocks'
  BY <1>3 DEF Wrapper!Refused, Wrapper!Moves, Wrapper!controlVars, Wrapper!callerVars
<1>4. ASSUME NEW j \in Jobs, Wrapper!BeginChecks(j) PROVE WrapperLocks'
  BY <1>4 DEF Wrapper!BeginChecks, Wrapper!Moves, Wrapper!controlVars, Wrapper!callerVars
<1>5. ASSUME NEW j \in Jobs, Wrapper!BeginRegisters(j) PROVE WrapperLocks'
  BY <1>5 DEF Wrapper!BeginRegisters, Wrapper!Moves, Wrapper!controlVars, Wrapper!callerVars
<1>6. ASSUME NEW j \in Jobs, Wrapper!SendStatement(j) PROVE WrapperLocks'
  BY <1>6 DEF Wrapper!SendStatement, Wrapper!Moves, Wrapper!controlVars, Wrapper!callerVars
<1>7. ASSUME NEW j \in Jobs, Wrapper!Answer(j) PROVE WrapperLocks'
  BY <1>7 DEF Wrapper!Answer, Wrapper!Moves, Wrapper!controlVars, Wrapper!callerVars
<1>8. ASSUME NEW j \in Jobs, Wrapper!Finish(j) PROVE WrapperLocks'
  BY <1>8 DEF Wrapper!Finish, Wrapper!Moves, Wrapper!controlVars, Wrapper!callerVars
<1>9. ASSUME NEW j \in Jobs, Wrapper!Release(j) PROVE WrapperLocks'
  BY <1>9 DEF Wrapper!Release, Wrapper!Moves, Wrapper!Alive, Wrapper!controlVars, Wrapper!callerVars
<1>10. ASSUME NEW j \in Jobs, Wrapper!Fails(j) PROVE WrapperLocks'
  <2>1. poisoned => poisoned'
    BY <1>10 DEF Wrapper!Fails
  <2>2. /\ job[j] \in {"active", "sent"} /\ job' = [job EXCEPT ![j] = "done"]
        /\ UNCHANGED <<gen, inner, link, closing, over, active, nextGen, controlLock, user, closer>>
    BY <1>10 DEF Wrapper!Fails, Wrapper!controlVars, Wrapper!callerVars
  <2> QED
    BY <2>1, <2>2
<1>11. CASE Wrapper!UserCancel
  BY <1>11 DEF Wrapper!UserCancel, Wrapper!TakeControl, Wrapper!controlVars, Wrapper!callerVars
<1>12. CASE Wrapper!UserSends
  BY <1>12 DEF Wrapper!UserSends, Wrapper!SendPacket, Wrapper!controlVars, Wrapper!callerVars
<1>13. CASE Wrapper!CloseFlag
  BY <1>13 DEF Wrapper!CloseFlag, Wrapper!controlVars, Wrapper!callerVars
<1>14. CASE Wrapper!CloseCancels
  BY <1>14 DEF Wrapper!CloseCancels, Wrapper!TakeControl, Wrapper!controlVars, Wrapper!callerVars
<1>15. CASE Wrapper!CloseSends
  BY <1>15 DEF Wrapper!CloseSends, Wrapper!SendPacket, Wrapper!controlVars, Wrapper!callerVars
<1>16. CASE Wrapper!CloseTakes
  BY <1>16 DEF Wrapper!CloseTakes, Wrapper!LockOrPoisoned, Wrapper!controlVars, Wrapper!callerVars
<1>17. ASSUME NEW h \in Handles, Wrapper!DropHandle(h) PROVE WrapperLocks'
  BY <1>17 DEF Wrapper!DropHandle, Wrapper!Alive, Wrapper!controlVars, Wrapper!callerVars
<1>18. CASE Wrapper!Complete
  BY <1>18 DEF Wrapper!Complete, Wrapper!controlVars, Wrapper!callerVars
<1>19. CASE Wrapper!CancelArrives
  BY <1>19 DEF Wrapper!CancelArrives, Wrapper!controlVars, Wrapper!callerVars
<1> QED
  BY <1>1, <1>2, <1>3, <1>4, <1>5, <1>6, <1>7, <1>8, <1>9, <1>10, <1>11, <1>12, <1>13, <1>14,
     <1>15, <1>16, <1>17, <1>18, <1>19, WrapperSteps

\* A packet that leaves is for the operation of the job that is inside.
LEMMA WrapperPackets ==
  ASSUME WrapperInv, Wrapper!Next
  PROVE  \/ packets' \subseteq packets
         \/ \E j \in Jobs : /\ job[j] \in {"active", "sent", "done"} /\ gen[j] = nextGen
                            /\ packets' = packets \cup {gen[j]}
<1> USE DEF WrapperInv, WrapperLocks, ActiveRuns, CancelLocks
<1>1. CASE Wrapper!UserSends \/ Wrapper!CloseSends
  BY <1>1 DEF Wrapper!UserSends, Wrapper!CloseSends, Wrapper!SendPacket
<1>2. CASE Wrapper!CancelArrives
  BY <1>2 DEF Wrapper!CancelArrives
<1>3. CASE ~(Wrapper!UserSends \/ Wrapper!CloseSends \/ Wrapper!CancelArrives)
  <2>1. packets' = packets
    BY <1>3, WrapperSteps
    DEF Wrapper!Call, Wrapper!LockInner, Wrapper!Refused, Wrapper!BeginChecks,
        Wrapper!BeginRegisters, Wrapper!SendStatement, Wrapper!Answer, Wrapper!Fails,
        Wrapper!Finish, Wrapper!Release, Wrapper!UserCancel, Wrapper!CloseFlag,
        Wrapper!CloseCancels, Wrapper!CloseTakes, Wrapper!DropHandle, Wrapper!Complete
  <2> QED
    BY <2>1
<1> QED
  BY <1>1, <1>2, <1>3

\* The invariant of the wrapper holds from the start.
LEMMA WrapperInduction == CallersSpec => []WrapperInv
<1>1. CallersInit => WrapperInv
  <2> SUFFICES ASSUME Wrapper!Init PROVE WrapperInv
    BY DEF CallersInit
  <2>1. Wrapper!TypeOK
    BY DEF Wrapper!Init, Wrapper!TypeOK
  <2>2. WrapperLocks
    BY CallersAssumption
    DEF Wrapper!Init, WrapperLocks, Wrapper!CloseIsFinal, InnerOwned, Inside, ActiveRuns, CancelLocks
  <2> QED
    BY <2>1, <2>2 DEF WrapperInv
<1>2. WrapperInv /\ [CallersNext]_callersVars => WrapperInv'
  <2> SUFFICES ASSUME WrapperInv, [CallersNext]_callersVars PROVE WrapperInv'
    OBVIOUS
  <2>1. Wrapper!Next \/ UNCHANGED wrapperVars
    BY DEF CallersNext, callersVars
  <2>2. CASE UNCHANGED wrapperVars
    BY <2>2 DEF wrapperVars, WrapperInv, WrapperLocks, Wrapper!TypeOK, Wrapper!CloseIsFinal,
                InnerOwned, Inside, ActiveRuns, CancelLocks
  <2>3. CASE Wrapper!Next
    BY <2>3, WrapperTypes, WrapperStep DEF WrapperInv
  <2> QED
    BY <2>1, <2>2, <2>3
<1> QED
  BY <1>1, <1>2, PTL DEF CallersSpec

\* The async wrapper, for any number of jobs and handles: when close() has
\* returned, and no job panicked with the lock, the connection is gone and no job
\* is past the lock or will get past it.
THEOREM WrapperCloses == CallersSpec => []CloseIsFinal
<1>1. WrapperInv => CloseIsFinal
  BY DEF WrapperInv, WrapperLocks, CloseIsFinal
<1> QED
  BY <1>1, WrapperInduction, PTL

\* The async wrapper, for any number of jobs and calls of cancel(): a cancel
\* packet leaves only while the operation it is for is registered and the latest.
THEOREM WrapperCancelsWhatRuns == CallersSpec => SentWhileActive
<1>1. WrapperInv /\ [CallersNext]_callersVars
        => [\/ packets' \subseteq packets
            \/ \E j \in Jobs : /\ job[j] \in {"active", "sent", "done"}
                               /\ gen[j] = nextGen
                               /\ packets' = packets \cup {gen[j]}]_(Wrapper!vars)
  <2> SUFFICES ASSUME WrapperInv, [CallersNext]_callersVars, ~UNCHANGED Wrapper!vars
               PROVE  \/ packets' \subseteq packets
                      \/ \E j \in Jobs : /\ job[j] \in {"active", "sent", "done"}
                                         /\ gen[j] = nextGen
                                         /\ packets' = packets \cup {gen[j]}
    OBVIOUS
  <2>1. Wrapper!Next
    BY DEF CallersNext, callersVars, wrapperVars, Wrapper!vars, Wrapper!controlVars, Wrapper!callerVars
  <2> QED
    BY <2>1, WrapperPackets
<1> QED
  BY <1>1, WrapperInduction, PTL DEF CallersSpec, SentWhileActive, Wrapper!SentWhileActive

-----------------------------------------------------------------------------
(* The synchronous pool *)

\* A thread that holds a connection has one, without a transaction when it is
\* about to become idle
Holds ==
  \A t \in Threads :
    /\ thread[t] \in {"held", "give", "discard"} => lent[t] \in Sync!Connection
    /\ thread[t] = "give" /\ SyncRollback => ~lent[t].dirty

\* Threads that hold a slot, will tell of one or have been told
Outside == {"none", "get", "wait"}
Engaged == {t \in Threads : thread[t] \notin Outside}

\* While a thread waits, max threads are engaged
AllEngaged == Sync!Waiting # {} => SyncMax <= Cardinality(Engaged)

\* The states in which a thread counts for a slot
Slotted == {"connect", "held", "give", "discard"}

PoolStates == Sync!TypeOK /\ Sync!ClosedReleasesAll /\ Sync!LentClean /\ Holds
ThreadsInv == PoolStates /\ Sync!SlotsAccounted /\ AllEngaged

\* A step of the pool is one of these.
LEMMA SyncSteps ==
  ASSUME Sync!Next
  PROVE  \/ \E t \in Threads : \/ Sync!Get(t) \/ Sync!GetClosed(t) \/ Sync!GetIdle(t)
                               \/ Sync!GetNew(t) \/ Sync!GetFull(t) \/ Sync!ConnectOk(t)
                               \/ Sync!ConnectFailed(t) \/ Sync!WaitTimedOut(t)
                               \/ Sync!SpuriousWakeup(t) \/ Sync!Use(t) \/ Sync!Release(t)
                               \/ Sync!GiveBack(t) \/ Sync!Discard(t) \/ Sync!RefillNeeded(t)
                               \/ Sync!RefillNotNeeded(t) \/ Sync!Join(t) \/ Sync!ReleaseNotifies(t)
         \/ Sync!Close
BY DEF Sync!Next, Sync!Proceed

\* notify_one moves the thread that calls it, and at most one that waited.
LEMMA Notified ==
  ASSUME Sync!TypeOK, NEW t \in Threads, NEW w, w \in {"none", "notify"},
         thread[t] # "wait", Sync!NotifyOne(t, w)
  PROVE  /\ thread' \in [Threads -> {"none", "get", "wait", "woken", "connect", "held",
                                     "give", "discard", "refill", "join", "notify"}]
         /\ thread'[t] = w
         /\ \A u \in Threads \ {t} : thread'[u] = thread[u] \/ (thread[u] = "wait" /\ thread'[u] = "woken")
         /\ Sync!Waiting # {} => \E u \in Threads \ {t} : thread[u] = "wait" /\ thread'[u] = "woken"
<1>1. CASE Sync!Waiting = {} /\ thread' = [thread EXCEPT ![t] = w]
  BY <1>1 DEF Sync!TypeOK
<1>2. CASE \E v \in Sync!Waiting : thread' = [thread EXCEPT ![t] = w, ![v] = "woken"]
  <2> PICK v \in Sync!Waiting : thread' = [thread EXCEPT ![t] = w, ![v] = "woken"]
    BY <1>2
  <2>1. v \in Threads /\ thread[v] = "wait" /\ v # t
    BY DEF Sync!Waiting
  <2> QED
    BY <2>1 DEF Sync!TypeOK
<1> QED
  BY <1>1, <1>2 DEF Sync!NotifyOne

\* What is left of a queue from its m-th element on.
LEMMA QueueRest ==
  ASSUME NEW S, NEW s \in Seq(S), NEW m \in Nat \ {0}, m <= Len(s) + 1
  PROVE  /\ SubSeq(s, m, Len(s)) \in Seq(S)
         /\ Len(SubSeq(s, m, Len(s))) = Len(s) - m + 1
         /\ \A i \in DOMAIN SubSeq(s, m, Len(s)) :
              i + m - 1 \in DOMAIN s /\ SubSeq(s, m, Len(s))[i] = s[i + m - 1]
<1>1. Len(s) \in Nat /\ DOMAIN s = 1..Len(s)
  BY LenProperties
<1>2. \A i \in 1..Len(s) : s[i] \in S
  BY ElementOfSeq
<1>3. m \in Int /\ Len(s) \in Int /\ \A i \in m..Len(s) : s[i] \in S
  BY <1>1, <1>2
<1> DEFINE rest == SubSeq(s, m, Len(s))
<1>4. /\ rest \in Seq(S)
      /\ Len(rest) = IF m <= Len(s) THEN Len(s) - m + 1 ELSE 0
      /\ \A i \in 1..(Len(s) - m + 1) : rest[i] = s[m + i - 1]
  BY <1>3, SubSeqProperties
<1> HIDE DEF rest
<1>5. ASSUME NEW n \in Nat, m <= n + 1 PROVE (IF m <= n THEN n - m + 1 ELSE 0) = n - m + 1
  BY <1>5
<1>6. Len(rest) = Len(s) - m + 1
  BY <1>1, <1>4, <1>5
<1>7. DOMAIN rest = 1..(Len(s) - m + 1)
  BY <1>4, <1>6, LenProperties
<1>8. ASSUME NEW i \in DOMAIN rest PROVE i + m - 1 \in DOMAIN s /\ rest[i] = s[i + m - 1]
  <2>1. i \in 1..(Len(s) - m + 1) /\ m + i - 1 = i + m - 1 /\ i + m - 1 \in 1..Len(s)
    BY <1>1, <1>7
  <2> QED
    BY <1>1, <1>4, <2>1
<1> QED
  BY <1>4, <1>6, <1>8 DEF rest

\* One more use of a connection.
LEMMA UsedOnceMore ==
  ASSUME NEW c \in Sync!Connection
  PROVE  /\ [c EXCEPT !.uses = @ + 1] \in Sync!Connection
         /\ [c EXCEPT !.uses = @ + 1].uses = c.uses + 1 /\ c.uses \in Nat
BY DEF Sync!Connection

\* Two sets that differ at most in x differ by at most x in number.
LEMMA CountMoves ==
  ASSUME NEW S, NEW T, NEW x, IsFiniteSet(S), S \ {x} = T \ {x}
  PROVE  /\ IsFiniteSet(T) /\ Cardinality(S) \in Nat /\ Cardinality(T) \in Nat
         /\ (x \in S <=> x \in T) => Cardinality(T) = Cardinality(S)
         /\ x \in T /\ x \notin S => Cardinality(T) = Cardinality(S) + 1
         /\ x \in S /\ x \notin T => Cardinality(T) = Cardinality(S) - 1
<1>1. CASE x \in T /\ x \notin S
  <2>1. T = S \cup {x}
    BY <1>1
  <2> QED
    BY <1>1, <2>1, FS_AddElement, FS_CardinalityType
<1>2. CASE x \in S /\ x \notin T
  <2>1. T = S \ {x}
    BY <1>2
  <2> QED
    BY <1>2, <2>1, FS_RemoveElement, FS_CardinalityType
<1>3. CASE x \in S <=> x \in T
  <2>1. T = S
    BY <1>3
  <2> QED
    BY <1>3, <2>1, FS_CardinalityType
<1> QED
  BY <1>1, <1>2, <1>3

\* The connection that is lent has uses left, and what stays idle is clean.
LEMMA IdleStates ==
  ASSUME PoolStates, NEW t \in Threads, Sync!GetIdle(t) PROVE PoolStates'
<1>1. Sync!TypeOK /\ Sync!LentClean /\ Holds
  BY DEF PoolStates
<1>2. PICK k \in 0..Len(queue) - 1 :
        /\ queue[k + 1].uses < SyncUses
        /\ counted' = Sync!SaturatingSub(counted, k)
        /\ lent' = [lent EXCEPT ![t] = [queue[k + 1] EXCEPT !.uses = @ + 1]]
        /\ queue' = SubSeq(queue, k + 2, Len(queue))
  BY DEF Sync!GetIdle, Sync!Fresh
<1>3. thread' = [thread EXCEPT ![t] = "held"] /\ ended' = ended /\ ~ended
  BY DEF Sync!GetIdle, Sync!Go
<1>4. queue \in Seq(Sync!Connection) /\ Len(queue) \in Nat /\ DOMAIN queue = 1..Len(queue)
  BY <1>1, LenProperties DEF Sync!TypeOK
<1>5. k + 2 \in Nat \ {0} /\ k + 2 <= Len(queue) + 1 /\ k + 1 \in 1..Len(queue)
  BY <1>4
<1>6. /\ queue' \in Seq(Sync!Connection)
      /\ \A i \in DOMAIN queue' : \E j \in DOMAIN queue : queue'[i] = queue[j]
  BY <1>2, <1>4, <1>5, QueueRest
<1>7. queue[k + 1] \in Sync!Connection
  BY <1>4, <1>5, ElementOfSeq
<1> DEFINE c == [queue[k + 1] EXCEPT !.uses = @ + 1]
<1>8. c \in Sync!Connection /\ c.uses <= SyncUses
  <2>1. c \in Sync!Connection /\ c.uses = queue[k + 1].uses + 1 /\ queue[k + 1].uses \in Nat
    BY <1>7, UsedOnceMore
  <2> HIDE DEF c
  <2> QED
    BY <1>2, <2>1, CallersAssumption DEF CallersAssumption
<1>9. lent' = [lent EXCEPT ![t] = c]
  BY <1>2
<1> HIDE DEF c
<1>10. counted' \in Nat
  BY <1>1, <1>2 DEF Sync!TypeOK, Sync!SaturatingSub
<1>11. lent'[t] = c /\ \A u \in Threads \ {t} : lent'[u] = lent[u]
  BY <1>1, <1>9 DEF Sync!TypeOK
<1>12. thread'[t] = "held" /\ \A u \in Threads \ {t} : thread'[u] = thread[u]
  BY <1>1, <1>3 DEF Sync!TypeOK
<1>13. Sync!TypeOK'
  BY <1>1, <1>3, <1>6, <1>8, <1>9, <1>10 DEF Sync!TypeOK
<1>14. Holds'
  BY <1>1, <1>8, <1>11, <1>12 DEF Holds
<1>15. Sync!LentClean'
  BY <1>1, <1>6, <1>8, <1>11, <1>12 DEF Sync!LentClean
<1> QED
  BY <1>3, <1>13, <1>14, <1>15 DEF PoolStates, Sync!ClosedReleasesAll

\* The states of threads and connections: whoever holds a connection has one, it
\* is rolled back before it becomes idle and lent with uses left.
LEMMA SyncStates ==
  ASSUME ThreadsInv, Sync!Next PROVE PoolStates'
<1> USE CallersAssumption
        DEF ThreadsInv, PoolStates, Sync!TypeOK, Sync!ClosedReleasesAll, Sync!LentClean, Holds,
            Sync!Waiting, Sync!Connection
<1>1. ASSUME NEW t \in Threads, Sync!Get(t) PROVE PoolStates'
  BY <1>1 DEF Sync!Get, Sync!Go, Sync!InLoop
<1>2. ASSUME NEW t \in Threads, Sync!GetClosed(t) PROVE PoolStates'
  BY <1>2 DEF Sync!GetClosed, Sync!Go, Sync!InLoop
<1>3. ASSUME NEW t \in Threads, Sync!GetIdle(t) PROVE PoolStates'
  BY <1>3, IdleStates
<1>4. ASSUME NEW t \in Threads, Sync!GetNew(t) PROVE PoolStates'
  BY <1>4 DEF Sync!GetNew, Sync!Go, Sync!InLoop, Sync!SaturatingSub
<1>5. ASSUME NEW t \in Threads, Sync!GetFull(t) PROVE PoolStates'
  BY <1>5 DEF Sync!GetFull, Sync!Go, Sync!InLoop, Sync!SaturatingSub
<1>6. ASSUME NEW t \in Threads, Sync!ConnectOk(t) PROVE PoolStates'
  BY <1>6 DEF Sync!ConnectOk, Sync!Go, Sync!InLoop
<1>7. ASSUME NEW t \in Threads, Sync!ConnectFailed(t) PROVE PoolStates'
  <2>1. thread[t] = "connect" /\ Sync!NotifyOne(t, "none") /\ UNCHANGED <<queue, ended, lent>>
    BY <1>7 DEF Sync!ConnectFailed
  <2>2. counted' \in Nat
    BY <1>7 DEF Sync!ConnectFailed, Sync!SaturatingSub
  <2> QED
    BY <2>1, <2>2, Notified
<1>8. ASSUME NEW t \in Threads, Sync!WaitTimedOut(t) PROVE PoolStates'
  BY <1>8 DEF Sync!WaitTimedOut, Sync!Go, Sync!InLoop
<1>9. ASSUME NEW t \in Threads, Sync!SpuriousWakeup(t) PROVE PoolStates'
  BY <1>9 DEF Sync!SpuriousWakeup, Sync!Go, Sync!InLoop
<1>10. ASSUME NEW t \in Threads, Sync!Use(t) PROVE PoolStates'
  BY <1>10 DEF Sync!Use, Sync!Go, Sync!InLoop
<1>11. ASSUME NEW t \in Threads, Sync!Release(t) PROVE PoolStates'
  BY <1>11 DEF Sync!Release, Sync!Go, Sync!InLoop
<1>12. ASSUME NEW t \in Threads, Sync!GiveBack(t) PROVE PoolStates'
  BY <1>12 DEF Sync!GiveBack, Sync!Go, Sync!InLoop
<1>13. ASSUME NEW t \in Threads, Sync!Discard(t) PROVE PoolStates'
  BY <1>13 DEF Sync!Discard, Sync!Go, Sync!InLoop, Sync!SaturatingSub
<1>14. ASSUME NEW t \in Threads, Sync!RefillNeeded(t) PROVE PoolStates'
  BY <1>14 DEF Sync!RefillNeeded, Sync!Go, Sync!InLoop
<1>15. ASSUME NEW t \in Threads, Sync!RefillNotNeeded(t) PROVE PoolStates'
  BY <1>15 DEF Sync!RefillNotNeeded, Sync!Go, Sync!InLoop
<1>16. ASSUME NEW t \in Threads, Sync!Join(t) PROVE PoolStates'
  <2>1. CASE ~Sync!MayJoin
    BY <1>16, <2>1 DEF Sync!Join, Sync!Go
  <2>2. CASE Sync!MayJoin
    <3>1. /\ thread[t] = "join" /\ Sync!NotifyOne(t, "notify") /\ UNCHANGED <<ended, lent>>
          /\ queue' = Append(queue, [uses |-> 0, dirty |-> FALSE]) /\ counted' = counted + 1 /\ ~ended
      BY <1>16, <2>2 DEF Sync!Join, Sync!MayJoin
    <3>2. /\ queue' \in Seq(Sync!Connection)
          /\ \A i \in DOMAIN queue' : queue'[i].dirty => i \in DOMAIN queue /\ queue[i].dirty
      BY <3>1
    <3> QED
      BY <3>1, <3>2, Notified
  <2> QED
    BY <2>1, <2>2
<1>17. ASSUME NEW t \in Threads, Sync!ReleaseNotifies(t) PROVE PoolStates'
  BY <1>17 DEF Sync!ReleaseNotifies, Sync!NotifyOne
<1>18. CASE Sync!Close
  BY <1>18 DEF Sync!Close, Sync!SaturatingSub
<1> QED
  BY <1>1, <1>2, <1>3, <1>4, <1>5, <1>6, <1>7, <1>8, <1>9, <1>10, <1>11, <1>12, <1>13, <1>14,
     <1>15, <1>16, <1>17, <1>18, SyncSteps

\* The pool counts with the library's Cardinality.
LEMMA SameCount == ASSUME NEW S PROVE Sync!Cardinality(S) = Cardinality(S)
BY DEF Sync!Cardinality, Cardinality

\* The number of slots held follows the one thread that takes or leaves one.
LEMMA SlotsMove ==
  ASSUME NEW t \in Threads,
         \A u \in Threads \ {t} : thread'[u] \in Slotted <=> thread[u] \in Slotted
  PROVE  /\ Cardinality(Sync!Holding) \in Nat /\ Cardinality(Sync!Holding)' \in Nat
         /\ (thread'[t] \in Slotted <=> thread[t] \in Slotted)
              => Cardinality(Sync!Holding)' = Cardinality(Sync!Holding)
         /\ thread'[t] \in Slotted /\ thread[t] \notin Slotted
              => Cardinality(Sync!Holding)' = Cardinality(Sync!Holding) + 1
         /\ thread[t] \in Slotted /\ thread'[t] \notin Slotted
              => Cardinality(Sync!Holding)' = Cardinality(Sync!Holding) - 1
<1> DEFINE S == {u \in Threads : thread[u] \in Slotted}
           T == {u \in Threads : thread'[u] \in Slotted}
<1>1. Sync!Holding = S /\ Cardinality(Sync!Holding)' = Cardinality(T)
  BY DEF Sync!Holding, Slotted
<1>2. IsFiniteSet(S)
  BY CallersAssumption, FS_Subset DEF CallersAssumption
<1>3. S \ {t} = T \ {t}
  OBVIOUS
<1>4. (t \in S <=> thread[t] \in Slotted) /\ (t \in T <=> thread'[t] \in Slotted)
  OBVIOUS
<1> HIDE DEF S, T
<1> QED
  BY <1>1, <1>2, <1>3, <1>4, CountMoves

\* No path counts a connection twice or forgets one, and the saturating
\* subtractions never saturate below the truth.
LEMMA SyncAccounts ==
  ASSUME ThreadsInv, Sync!Next PROVE Sync!SlotsAccounted'
<1>0. /\ counted \in Nat /\ Len(queue) \in Nat /\ SyncMax \in Nat
      /\ counted = Len(queue) + Cardinality(Sync!Holding) /\ counted <= SyncMax
  BY CallersAssumption, LenProperties, SameCount
  DEF CallersAssumption, ThreadsInv, PoolStates, Sync!TypeOK, Sync!SlotsAccounted
<1>typed. Sync!TypeOK
  BY DEF ThreadsInv, PoolStates
<1>1. ASSUME NEW t \in Threads, Sync!Get(t) PROVE Sync!SlotsAccounted'
  <2>1. /\ \A u \in Threads \ {t} : thread'[u] = thread[u]
        /\ (thread'[t] \in Slotted <=> thread[t] \in Slotted)
    BY <1>1, <1>typed DEF Sync!Get, Sync!Go, Sync!InLoop, Sync!TypeOK, Slotted
  <2>2. UNCHANGED <<queue, counted>>
    BY <1>1, <1>typed DEF Sync!Get, Sync!Go, Sync!InLoop, Sync!TypeOK
  <2>3. Cardinality(Sync!Holding)' = Cardinality(Sync!Holding) /\ Cardinality(Sync!Holding) \in Nat
    BY <2>1, SlotsMove
  <2> QED
    BY <1>0, <2>2, <2>3, SameCount DEF Sync!SlotsAccounted, Sync!SaturatingSub
<1>2. ASSUME NEW t \in Threads, Sync!GetClosed(t) PROVE Sync!SlotsAccounted'
  <2>1. /\ \A u \in Threads \ {t} : thread'[u] = thread[u]
        /\ (thread'[t] \in Slotted <=> thread[t] \in Slotted)
    BY <1>2, <1>typed DEF Sync!GetClosed, Sync!Go, Sync!InLoop, Sync!TypeOK, Slotted
  <2>2. UNCHANGED <<queue, counted>>
    BY <1>2, <1>typed DEF Sync!GetClosed, Sync!Go, Sync!InLoop, Sync!TypeOK
  <2>3. Cardinality(Sync!Holding)' = Cardinality(Sync!Holding) /\ Cardinality(Sync!Holding) \in Nat
    BY <2>1, SlotsMove
  <2> QED
    BY <1>0, <2>2, <2>3, SameCount DEF Sync!SlotsAccounted, Sync!SaturatingSub
<1>3. ASSUME NEW t \in Threads, Sync!GetIdle(t) PROVE Sync!SlotsAccounted'
  <2>0. PICK k \in 0..Len(queue) - 1 : /\ counted' = Sync!SaturatingSub(counted, k)
                                      /\ queue' = SubSeq(queue, k + 2, Len(queue))
    BY <1>3, <1>typed DEF Sync!GetIdle
  <2>1. /\ \A u \in Threads \ {t} : thread'[u] = thread[u]
        /\ thread'[t] \in Slotted /\ thread[t] \notin Slotted
    BY <1>3, <1>typed DEF Sync!GetIdle, Sync!Go, Sync!InLoop, Sync!TypeOK, Slotted
  <2>2. Len(queue') = Len(queue) - (k + 1) /\ k \in Nat /\ k < Len(queue)
    <3>1. queue \in Seq(Sync!Connection)
      BY <1>typed DEF Sync!TypeOK
    <3>2. k + 2 \in Nat \ {0} /\ k + 2 <= Len(queue) + 1
      BY <1>0
    <3>3. Len(queue') = Len(queue) - (k + 2) + 1
      BY <2>0, <3>1, <3>2, QueueRest
    <3> QED
      BY <1>0, <3>3
  <2>3. Cardinality(Sync!Holding)' = Cardinality(Sync!Holding) + 1 /\ Cardinality(Sync!Holding) \in Nat
    BY <2>1, SlotsMove
  <2>4. counted' = counted - k
    BY <1>0, <2>0, <2>2, <2>3 DEF Sync!SaturatingSub
  <2> QED
    BY <1>0, <2>2, <2>3, <2>4, SameCount DEF Sync!SlotsAccounted
<1>4. ASSUME NEW t \in Threads, Sync!GetNew(t) PROVE Sync!SlotsAccounted'
  <2>1. /\ \A u \in Threads \ {t} : thread'[u] = thread[u]
        /\ thread'[t] \in Slotted /\ thread[t] \notin Slotted
    BY <1>4, <1>typed DEF Sync!GetNew, Sync!Go, Sync!InLoop, Sync!TypeOK, Slotted
  <2>2. /\ Sync!SaturatingSub(counted, Len(queue)) < SyncMax
        /\ counted' = Sync!SaturatingSub(counted, Len(queue)) + 1 /\ queue' = <<>>
    BY <1>4, <1>typed DEF Sync!GetNew, Sync!Room
  <2>3. Len(queue) \in Nat /\ Len(queue') = 0
    BY <1>0, <2>2
  <2>4. Cardinality(Sync!Holding)' = Cardinality(Sync!Holding) + 1 /\ Cardinality(Sync!Holding) \in Nat
    BY <2>1, SlotsMove
  <2> QED
    BY <1>0, <2>2, <2>3, <2>4, SameCount DEF Sync!SlotsAccounted, Sync!SaturatingSub
<1>5. ASSUME NEW t \in Threads, Sync!GetFull(t) PROVE Sync!SlotsAccounted'
  <2>1. /\ \A u \in Threads \ {t} : thread'[u] = thread[u]
        /\ thread'[t] \notin Slotted /\ thread[t] \notin Slotted
    BY <1>5, <1>typed DEF Sync!GetFull, Sync!Go, Sync!InLoop, Sync!TypeOK, Slotted
  <2>2. counted' = Sync!SaturatingSub(counted, Len(queue)) /\ queue' = <<>>
    BY <1>5, <1>typed DEF Sync!GetFull
  <2>3. Len(queue) \in Nat /\ Len(queue') = 0
    BY <1>0, <2>2
  <2>4. Cardinality(Sync!Holding)' = Cardinality(Sync!Holding) /\ Cardinality(Sync!Holding) \in Nat
    BY <2>1, SlotsMove
  <2> QED
    BY <1>0, <2>2, <2>3, <2>4, SameCount DEF Sync!SlotsAccounted, Sync!SaturatingSub
<1>6. ASSUME NEW t \in Threads, Sync!ConnectOk(t) PROVE Sync!SlotsAccounted'
  <2>1. /\ \A u \in Threads \ {t} : thread'[u] = thread[u]
        /\ (thread'[t] \in Slotted <=> thread[t] \in Slotted)
    BY <1>6, <1>typed DEF Sync!ConnectOk, Sync!Go, Sync!InLoop, Sync!TypeOK, Slotted
  <2>2. UNCHANGED <<queue, counted>>
    BY <1>6, <1>typed DEF Sync!ConnectOk, Sync!Go, Sync!InLoop, Sync!TypeOK
  <2>3. Cardinality(Sync!Holding)' = Cardinality(Sync!Holding) /\ Cardinality(Sync!Holding) \in Nat
    BY <2>1, SlotsMove
  <2> QED
    BY <1>0, <2>2, <2>3, SameCount DEF Sync!SlotsAccounted, Sync!SaturatingSub
<1>7. ASSUME NEW t \in Threads, Sync!ConnectFailed(t) PROVE Sync!SlotsAccounted'
  <2>0. thread[t] # "wait" /\ Sync!NotifyOne(t, "none")
    BY <1>7, <1>typed DEF Sync!ConnectFailed
  <2>1. /\ \A u \in Threads \ {t} : thread'[u] \in Slotted <=> thread[u] \in Slotted
        /\ thread[t] \in Slotted /\ thread'[t] \notin Slotted
    BY <1>7, <1>typed, <2>0, Notified DEF Sync!ConnectFailed, Sync!TypeOK, Slotted
  <2>2. counted' = Sync!SaturatingSub(counted, 1) /\ queue' = queue
    BY <1>7, <1>typed DEF Sync!ConnectFailed
  <2>3. /\ Cardinality(Sync!Holding)' = Cardinality(Sync!Holding) - 1
        /\ Cardinality(Sync!Holding) \in Nat /\ Cardinality(Sync!Holding)' \in Nat
    BY <2>1, SlotsMove
  <2> QED
    BY <1>0, <2>2, <2>3, SameCount DEF Sync!SlotsAccounted, Sync!SaturatingSub
<1>8. ASSUME NEW t \in Threads, Sync!WaitTimedOut(t) PROVE Sync!SlotsAccounted'
  <2>1. /\ \A u \in Threads \ {t} : thread'[u] = thread[u]
        /\ (thread'[t] \in Slotted <=> thread[t] \in Slotted)
    BY <1>8, <1>typed DEF Sync!WaitTimedOut, Sync!Go, Sync!InLoop, Sync!TypeOK, Slotted
  <2>2. UNCHANGED <<queue, counted>>
    BY <1>8, <1>typed DEF Sync!WaitTimedOut, Sync!Go, Sync!InLoop, Sync!TypeOK
  <2>3. Cardinality(Sync!Holding)' = Cardinality(Sync!Holding) /\ Cardinality(Sync!Holding) \in Nat
    BY <2>1, SlotsMove
  <2> QED
    BY <1>0, <2>2, <2>3, SameCount DEF Sync!SlotsAccounted, Sync!SaturatingSub
<1>9. ASSUME NEW t \in Threads, Sync!SpuriousWakeup(t) PROVE Sync!SlotsAccounted'
  <2>1. /\ \A u \in Threads \ {t} : thread'[u] = thread[u]
        /\ (thread'[t] \in Slotted <=> thread[t] \in Slotted)
    BY <1>9, <1>typed DEF Sync!SpuriousWakeup, Sync!Go, Sync!InLoop, Sync!TypeOK, Slotted
  <2>2. UNCHANGED <<queue, counted>>
    BY <1>9, <1>typed DEF Sync!SpuriousWakeup, Sync!Go, Sync!InLoop, Sync!TypeOK
  <2>3. Cardinality(Sync!Holding)' = Cardinality(Sync!Holding) /\ Cardinality(Sync!Holding) \in Nat
    BY <2>1, SlotsMove
  <2> QED
    BY <1>0, <2>2, <2>3, SameCount DEF Sync!SlotsAccounted, Sync!SaturatingSub
<1>10. ASSUME NEW t \in Threads, Sync!Use(t) PROVE Sync!SlotsAccounted'
  BY <1>10, <1>typed DEF Sync!Use, Sync!Holding, Sync!SlotsAccounted, ThreadsInv
<1>11. ASSUME NEW t \in Threads, Sync!Release(t) PROVE Sync!SlotsAccounted'
  <2>1. /\ \A u \in Threads \ {t} : thread'[u] = thread[u]
        /\ (thread'[t] \in Slotted <=> thread[t] \in Slotted)
    BY <1>11, <1>typed DEF Sync!Release, Sync!Go, Sync!InLoop, Sync!TypeOK, Slotted
  <2>2. UNCHANGED <<queue, counted>>
    BY <1>11, <1>typed DEF Sync!Release, Sync!Go, Sync!InLoop, Sync!TypeOK
  <2>3. Cardinality(Sync!Holding)' = Cardinality(Sync!Holding) /\ Cardinality(Sync!Holding) \in Nat
    BY <2>1, SlotsMove
  <2> QED
    BY <1>0, <2>2, <2>3, SameCount DEF Sync!SlotsAccounted, Sync!SaturatingSub
<1>12. ASSUME NEW t \in Threads, Sync!GiveBack(t) PROVE Sync!SlotsAccounted'
  <2>1. /\ \A u \in Threads \ {t} : thread'[u] = thread[u]
        /\ thread[t] \in Slotted /\ thread'[t] \notin Slotted
    BY <1>12, <1>typed DEF Sync!GiveBack, Sync!Go, Sync!InLoop, Sync!TypeOK, Slotted
  <2>2. counted' = counted /\ Len(queue') = Len(queue) + 1
    BY <1>12, <1>typed DEF Sync!GiveBack, Sync!Go, Sync!InLoop, Sync!TypeOK
  <2>3. /\ Cardinality(Sync!Holding)' = Cardinality(Sync!Holding) - 1
        /\ Cardinality(Sync!Holding) \in Nat /\ Cardinality(Sync!Holding)' \in Nat
    BY <2>1, SlotsMove
  <2> QED
    BY <1>0, <2>2, <2>3, SameCount DEF Sync!SlotsAccounted, Sync!SaturatingSub
<1>13. ASSUME NEW t \in Threads, Sync!Discard(t) PROVE Sync!SlotsAccounted'
  <2>1. /\ \A u \in Threads \ {t} : thread'[u] = thread[u]
        /\ thread[t] \in Slotted /\ thread'[t] \notin Slotted
    BY <1>13, <1>typed DEF Sync!Discard, Sync!Go, Sync!InLoop, Sync!TypeOK, Slotted
  <2>2. counted' = Sync!SaturatingSub(counted, 1) /\ queue' = queue
    BY <1>13, <1>typed DEF Sync!Discard, Sync!Go, Sync!InLoop, Sync!TypeOK
  <2>3. /\ Cardinality(Sync!Holding)' = Cardinality(Sync!Holding) - 1
        /\ Cardinality(Sync!Holding) \in Nat /\ Cardinality(Sync!Holding)' \in Nat
    BY <2>1, SlotsMove
  <2> QED
    BY <1>0, <2>2, <2>3, SameCount DEF Sync!SlotsAccounted, Sync!SaturatingSub
<1>14. ASSUME NEW t \in Threads, Sync!RefillNeeded(t) PROVE Sync!SlotsAccounted'
  <2>1. /\ \A u \in Threads \ {t} : thread'[u] = thread[u]
        /\ (thread'[t] \in Slotted <=> thread[t] \in Slotted)
    BY <1>14, <1>typed DEF Sync!RefillNeeded, Sync!Go, Sync!InLoop, Sync!TypeOK, Slotted
  <2>2. UNCHANGED <<queue, counted>>
    BY <1>14, <1>typed DEF Sync!RefillNeeded, Sync!Go, Sync!InLoop, Sync!TypeOK
  <2>3. Cardinality(Sync!Holding)' = Cardinality(Sync!Holding) /\ Cardinality(Sync!Holding) \in Nat
    BY <2>1, SlotsMove
  <2> QED
    BY <1>0, <2>2, <2>3, SameCount DEF Sync!SlotsAccounted, Sync!SaturatingSub
<1>15. ASSUME NEW t \in Threads, Sync!RefillNotNeeded(t) PROVE Sync!SlotsAccounted'
  <2>1. /\ \A u \in Threads \ {t} : thread'[u] = thread[u]
        /\ (thread'[t] \in Slotted <=> thread[t] \in Slotted)
    BY <1>15, <1>typed DEF Sync!RefillNotNeeded, Sync!Go, Sync!InLoop, Sync!TypeOK, Slotted
  <2>2. UNCHANGED <<queue, counted>>
    BY <1>15, <1>typed DEF Sync!RefillNotNeeded, Sync!Go, Sync!InLoop, Sync!TypeOK
  <2>3. Cardinality(Sync!Holding)' = Cardinality(Sync!Holding) /\ Cardinality(Sync!Holding) \in Nat
    BY <2>1, SlotsMove
  <2> QED
    BY <1>0, <2>2, <2>3, SameCount DEF Sync!SlotsAccounted, Sync!SaturatingSub
<1>16. ASSUME NEW t \in Threads, Sync!Join(t) PROVE Sync!SlotsAccounted'
  <2>1. CASE ~Sync!MayJoin
    <3>1. /\ \A u \in Threads \ {t} : thread'[u] = thread[u]
          /\ thread[t] \notin Slotted /\ thread'[t] \notin Slotted
      BY <1>16, <1>typed, <2>1 DEF Sync!Join, Sync!Go, Sync!TypeOK, Slotted
    <3>2. UNCHANGED <<queue, counted>>
      BY <1>16, <1>typed, <2>1 DEF Sync!Join
    <3>3. Cardinality(Sync!Holding)' = Cardinality(Sync!Holding) /\ Cardinality(Sync!Holding) \in Nat
      BY <3>1, SlotsMove
    <3> QED
      BY <1>0, <3>2, <3>3, SameCount DEF Sync!SlotsAccounted
  <2>2. CASE Sync!MayJoin
    <3>0. thread[t] = "join" /\ Sync!NotifyOne(t, "notify")
      BY <1>16, <2>2 DEF Sync!Join
    <3>1. /\ \A u \in Threads \ {t} : thread'[u] \in Slotted <=> thread[u] \in Slotted
          /\ thread[t] \notin Slotted /\ thread'[t] \notin Slotted
      BY <1>typed, <3>0, Notified DEF Slotted
    <3>2. counted' = counted + 1 /\ Len(queue') = Len(queue) + 1 /\ counted < SyncMax
      BY <1>16, <2>2 DEF Sync!Join, Sync!MayJoin, Sync!TypeOK
    <3>3. Cardinality(Sync!Holding)' = Cardinality(Sync!Holding) /\ Cardinality(Sync!Holding) \in Nat
      BY <3>1, SlotsMove
    <3> QED
      BY <1>0, <3>2, <3>3, SameCount DEF Sync!SlotsAccounted
  <2> QED
    BY <2>1, <2>2
<1>17. ASSUME NEW t \in Threads, Sync!ReleaseNotifies(t) PROVE Sync!SlotsAccounted'
  <2>0. thread[t] # "wait" /\ Sync!NotifyOne(t, "none")
    BY <1>17, <1>typed DEF Sync!ReleaseNotifies
  <2>1. /\ \A u \in Threads \ {t} : thread'[u] \in Slotted <=> thread[u] \in Slotted
        /\ (thread'[t] \in Slotted <=> thread[t] \in Slotted)
    BY <1>17, <1>typed, <2>0, Notified DEF Sync!ReleaseNotifies, Sync!TypeOK, Slotted
  <2>2. UNCHANGED <<queue, counted>>
    BY <1>17, <1>typed DEF Sync!ReleaseNotifies
  <2>3. Cardinality(Sync!Holding)' = Cardinality(Sync!Holding) /\ Cardinality(Sync!Holding) \in Nat
    BY <2>1, SlotsMove
  <2> QED
    BY <1>0, <2>2, <2>3, SameCount DEF Sync!SlotsAccounted, Sync!SaturatingSub
<1>18. CASE Sync!Close
  <2>1. Sync!Holding' = Sync!Holding
    BY <1>18, <1>typed DEF Sync!Close, Sync!Holding
  <2>2. counted' = Sync!SaturatingSub(counted, Len(queue)) /\ queue' = <<>>
    BY <1>18, <1>typed DEF Sync!Close
  <2>3. Len(queue) \in Nat /\ Len(queue') = 0 /\ Cardinality(Sync!Holding) \in Nat
    BY <1>0, <2>2, CallersAssumption, FS_Subset, FS_CardinalityType DEF CallersAssumption, Sync!Holding
  <2> QED
    BY <1>0, <2>1, <2>2, <2>3, SameCount DEF Sync!SlotsAccounted, Sync!SaturatingSub
<1> QED
  BY <1>1, <1>2, <1>3, <1>4, <1>5, <1>6, <1>7, <1>8, <1>9, <1>10, <1>11, <1>12, <1>13, <1>14,
     <1>15, <1>16, <1>17, <1>18, SyncSteps

\* The threads that are engaged can be counted.
LEMMA EngagedFinite ==
  ASSUME NEW f, NEW E, E = {u \in Threads : f[u] \notin Outside}
  PROVE  IsFiniteSet(E) /\ Cardinality(E) \in Nat
<1>1. IsFiniteSet(Threads) /\ E \subseteq Threads
  BY CallersAssumption DEF CallersAssumption
<1> QED
  BY <1>1, FS_Subset, FS_CardinalityType

\* When nobody starts to wait and nobody stops being engaged, all is as before.
LEMMA StillEngaged ==
  ASSUME AllEngaged, NEW t \in Threads, thread'[t] # "wait",
         thread[t] \notin Outside => thread'[t] \notin Outside,
         \A u \in Threads \ {t} : \/ thread'[u] = thread[u]
                                  \/ thread[u] = "wait" /\ thread'[u] = "woken"
  PROVE  AllEngaged'
<1>1. Engaged \subseteq Engaged' /\ Sync!Waiting' \subseteq Sync!Waiting
  BY DEF Engaged, Outside, Sync!Waiting
<1>2. Cardinality(Engaged) \in Nat /\ IsFiniteSet(Engaged') /\ Cardinality(Engaged') \in Nat
  BY EngagedFinite DEF Engaged
<1>3. Cardinality(Engaged) <= Cardinality(Engaged')
  BY <1>1, <1>2, FS_Subset
<1>4. SyncMax \in Nat
  BY CallersAssumption DEF CallersAssumption
<1> QED
  BY <1>1, <1>2, <1>3, <1>4 DEF AllEngaged

\* A thread that leaves with a notify_one is replaced by the one it wakes.
LEMMA HandedOn ==
  ASSUME Sync!TypeOK, AllEngaged, NEW t \in Threads, thread[t] # "wait", Sync!NotifyOne(t, "none")
  PROVE  AllEngaged'
<1>1. /\ thread'[t] = "none"
      /\ \A u \in Threads \ {t} : thread'[u] = thread[u] \/ (thread[u] = "wait" /\ thread'[u] = "woken")
      /\ Sync!Waiting # {} => \E u \in Threads \ {t} : thread[u] = "wait" /\ thread'[u] = "woken"
  BY Notified
<1>2. CASE Sync!Waiting = {}
  BY <1>1, <1>2 DEF AllEngaged, Sync!Waiting
<1>3. CASE Sync!Waiting # {}
  <2> PICK w \in Threads \ {t} : thread[w] = "wait" /\ thread'[w] = "woken"
    BY <1>1, <1>3
  <2> DEFINE E == Engaged \ {t}
  <2>1. w \notin E /\ E \cup {w} \subseteq Engaged'
    BY <1>1 DEF Engaged, Outside
  <2>2. /\ IsFiniteSet(Engaged) /\ Cardinality(Engaged) \in Nat
        /\ IsFiniteSet(Engaged') /\ Cardinality(Engaged') \in Nat
    BY EngagedFinite DEF Engaged
  <2>3. IsFiniteSet(E) /\ Cardinality(E) \in Nat /\ Cardinality(E) + 1 >= Cardinality(Engaged)
    <3>1. /\ IsFiniteSet(Engaged \ {t})
          /\ Cardinality(Engaged \ {t}) = IF t \in Engaged THEN Cardinality(Engaged) - 1 ELSE Cardinality(Engaged)
      BY <2>2, FS_RemoveElement
    <3>2. Cardinality(Engaged \ {t}) \in Nat
      BY <3>1, FS_CardinalityType
    <3> QED
      BY <2>2, <3>1, <3>2
  <2> HIDE DEF E
  <2>4. Cardinality(E \cup {w}) = Cardinality(E) + 1 /\ Cardinality(E \cup {w}) <= Cardinality(Engaged')
    BY <2>1, <2>2, <2>3, FS_AddElement, FS_Subset
  <2>5. SyncMax \in Nat
    BY CallersAssumption DEF CallersAssumption
  <2> QED
    BY <1>3, <2>2, <2>3, <2>4, <2>5 DEF AllEngaged
<1> QED
  BY <1>2, <1>3

\* While a thread waits, all slots are held or on their way to somebody: a thread
\* begins to wait when all are held, and none is let go without a notify_one.
LEMMA SyncEngaged ==
  ASSUME ThreadsInv, Sync!Next, PoolStates', Sync!SlotsAccounted' PROVE AllEngaged'
<1>typed. Sync!TypeOK /\ AllEngaged /\ Sync!ClosedReleasesAll
  BY DEF ThreadsInv, PoolStates
<1>1. ASSUME NEW t \in Threads, Sync!Get(t) PROVE AllEngaged'
  <2>1. /\ \A u \in Threads \ {t} : thread'[u] = thread[u]
        /\ thread'[t] # "wait" /\ (thread[t] \notin Outside => thread'[t] \notin Outside)
    BY <1>1, <1>typed DEF Sync!Get, Sync!Go, Sync!InLoop, Sync!TypeOK, Outside
  <2> QED
    BY <1>typed, <2>1, StillEngaged
<1>2. ASSUME NEW t \in Threads, Sync!GetClosed(t) PROVE AllEngaged'
  BY <1>2, <1>typed DEF Sync!GetClosed, Sync!Go, Sync!InLoop, Sync!TypeOK, Sync!ClosedReleasesAll,
                 Sync!Waiting, AllEngaged
<1>3. ASSUME NEW t \in Threads, Sync!GetIdle(t) PROVE AllEngaged'
  <2>1. /\ \A u \in Threads \ {t} : thread'[u] = thread[u]
        /\ thread'[t] # "wait" /\ (thread[t] \notin Outside => thread'[t] \notin Outside)
    BY <1>3, <1>typed DEF Sync!GetIdle, Sync!Go, Sync!InLoop, Sync!TypeOK, Outside
  <2> QED
    BY <1>typed, <2>1, StillEngaged
<1>4. ASSUME NEW t \in Threads, Sync!GetNew(t) PROVE AllEngaged'
  <2>1. /\ \A u \in Threads \ {t} : thread'[u] = thread[u]
        /\ thread'[t] # "wait" /\ (thread[t] \notin Outside => thread'[t] \notin Outside)
    BY <1>4, <1>typed DEF Sync!GetNew, Sync!Go, Sync!InLoop, Sync!TypeOK, Outside
  <2> QED
    BY <1>typed, <2>1, StillEngaged
<1>5. ASSUME NEW t \in Threads, Sync!GetFull(t) PROVE AllEngaged'
  <2>1. queue' = <<>> /\ ~(counted' < SyncMax)
    BY <1>5 DEF Sync!GetFull, Sync!Room
  <2>2. counted' = Len(queue') + Cardinality(Sync!Holding') /\ counted' \in Nat /\ SyncMax \in Nat
    BY SameCount, CallersAssumption
    DEF Sync!SlotsAccounted, PoolStates, Sync!TypeOK, CallersAssumption
  <2>3. IsFiniteSet(Engaged') /\ Cardinality(Engaged') \in Nat
    BY EngagedFinite DEF Engaged
  <2>4. Sync!Holding' \subseteq Engaged'
    BY DEF Sync!Holding, Engaged, Outside
  <2>5. Cardinality(Sync!Holding') \in Nat /\ Cardinality(Sync!Holding') <= Cardinality(Engaged')
    BY <2>3, <2>4, FS_Subset, FS_CardinalityType
  <2>6. Len(queue') = 0
    BY <2>1
  <2> QED
    BY <2>1, <2>2, <2>3, <2>5, <2>6 DEF AllEngaged
<1>6. ASSUME NEW t \in Threads, Sync!ConnectOk(t) PROVE AllEngaged'
  <2>1. /\ \A u \in Threads \ {t} : thread'[u] = thread[u]
        /\ thread'[t] # "wait" /\ (thread[t] \notin Outside => thread'[t] \notin Outside)
    BY <1>6, <1>typed DEF Sync!ConnectOk, Sync!Go, Sync!InLoop, Sync!TypeOK, Outside
  <2> QED
    BY <1>typed, <2>1, StillEngaged
<1>7. ASSUME NEW t \in Threads, Sync!ConnectFailed(t) PROVE AllEngaged'
  BY <1>7, <1>typed, HandedOn DEF Sync!ConnectFailed
<1>8. ASSUME NEW t \in Threads, Sync!WaitTimedOut(t) PROVE AllEngaged'
  <2>1. /\ \A u \in Threads \ {t} : thread'[u] = thread[u]
        /\ thread'[t] # "wait" /\ (thread[t] \notin Outside => thread'[t] \notin Outside)
    BY <1>8, <1>typed DEF Sync!WaitTimedOut, Sync!Go, Sync!InLoop, Sync!TypeOK, Outside
  <2> QED
    BY <1>typed, <2>1, StillEngaged
<1>9. ASSUME NEW t \in Threads, Sync!SpuriousWakeup(t) PROVE AllEngaged'
  <2>1. /\ \A u \in Threads \ {t} : thread'[u] = thread[u]
        /\ thread'[t] # "wait" /\ (thread[t] \notin Outside => thread'[t] \notin Outside)
    BY <1>9, <1>typed DEF Sync!SpuriousWakeup, Sync!Go, Sync!InLoop, Sync!TypeOK, Outside
  <2> QED
    BY <1>typed, <2>1, StillEngaged
<1>10. ASSUME NEW t \in Threads, Sync!Use(t) PROVE AllEngaged'
  BY <1>10, <1>typed DEF Sync!Use, AllEngaged, Engaged, Sync!Waiting
<1>11. ASSUME NEW t \in Threads, Sync!Release(t) PROVE AllEngaged'
  <2>1. /\ \A u \in Threads \ {t} : thread'[u] = thread[u]
        /\ thread'[t] # "wait" /\ (thread[t] \notin Outside => thread'[t] \notin Outside)
    BY <1>11, <1>typed DEF Sync!Release, Sync!Go, Sync!InLoop, Sync!TypeOK, Outside
  <2> QED
    BY <1>typed, <2>1, StillEngaged
<1>12. ASSUME NEW t \in Threads, Sync!GiveBack(t) PROVE AllEngaged'
  <2>1. /\ \A u \in Threads \ {t} : thread'[u] = thread[u]
        /\ thread'[t] # "wait" /\ (thread[t] \notin Outside => thread'[t] \notin Outside)
    BY <1>12, <1>typed DEF Sync!GiveBack, Sync!Go, Sync!InLoop, Sync!TypeOK, Outside
  <2> QED
    BY <1>typed, <2>1, StillEngaged
<1>13. ASSUME NEW t \in Threads, Sync!Discard(t) PROVE AllEngaged'
  <2>1. /\ \A u \in Threads \ {t} : thread'[u] = thread[u]
        /\ thread'[t] # "wait" /\ (thread[t] \notin Outside => thread'[t] \notin Outside)
    BY <1>13, <1>typed DEF Sync!Discard, Sync!Go, Sync!InLoop, Sync!TypeOK, Outside
  <2> QED
    BY <1>typed, <2>1, StillEngaged
<1>14. ASSUME NEW t \in Threads, Sync!RefillNeeded(t) PROVE AllEngaged'
  <2>1. /\ \A u \in Threads \ {t} : thread'[u] = thread[u]
        /\ thread'[t] # "wait" /\ (thread[t] \notin Outside => thread'[t] \notin Outside)
    BY <1>14, <1>typed DEF Sync!RefillNeeded, Sync!Go, Sync!InLoop, Sync!TypeOK, Outside
  <2> QED
    BY <1>typed, <2>1, StillEngaged
<1>15. ASSUME NEW t \in Threads, Sync!RefillNotNeeded(t) PROVE AllEngaged'
  <2>1. /\ \A u \in Threads \ {t} : thread'[u] = thread[u]
        /\ thread'[t] # "wait" /\ (thread[t] \notin Outside => thread'[t] \notin Outside)
    BY <1>15, <1>typed DEF Sync!RefillNotNeeded, Sync!Go, Sync!InLoop, Sync!TypeOK, Outside
  <2> QED
    BY <1>typed, <2>1, StillEngaged
<1>16. ASSUME NEW t \in Threads, Sync!Join(t) PROVE AllEngaged'
  <2>1. CASE ~Sync!MayJoin
    <3>1. /\ \A u \in Threads \ {t} : thread'[u] = thread[u]
          /\ thread'[t] # "wait" /\ thread'[t] \notin Outside
      BY <1>16, <1>typed, <2>1 DEF Sync!Join, Sync!Go, Sync!TypeOK, Outside
    <3> QED
      BY <1>typed, <3>1, StillEngaged
  <2>2. CASE Sync!MayJoin
    <3>1. thread[t] = "join" /\ Sync!NotifyOne(t, "notify")
      BY <1>16, <2>2 DEF Sync!Join
    <3>2. /\ thread'[t] = "notify"
          /\ \A u \in Threads \ {t} : thread'[u] = thread[u] \/ (thread[u] = "wait" /\ thread'[u] = "woken")
      BY <1>typed, <3>1, Notified
    <3>3. thread'[t] # "wait" /\ thread'[t] \notin Outside
      BY <3>2 DEF Outside
    <3> QED
      BY <1>typed, <3>2, <3>3, StillEngaged
  <2> QED
    BY <2>1, <2>2
<1>17. ASSUME NEW t \in Threads, Sync!ReleaseNotifies(t) PROVE AllEngaged'
  BY <1>17, <1>typed, HandedOn DEF Sync!ReleaseNotifies
<1>18. CASE Sync!Close
  BY <1>18, <1>typed DEF Sync!Close, Sync!Waiting, AllEngaged
<1> QED
  BY <1>1, <1>2, <1>3, <1>4, <1>5, <1>6, <1>7, <1>8, <1>9, <1>10, <1>11, <1>12, <1>13, <1>14,
     <1>15, <1>16, <1>17, <1>18, SyncSteps

\* The synchronous pool, for any number of threads, any max and min and any
\* limit of uses: its count is exact and within max, a lent connection has uses
\* left and no open transaction, a closed pool holds nothing and keeps nobody
\* waiting, and notify_one strands no waiter.
THEOREM ThreadsKeepAccounts == CallersSpec => []ThreadsAccounted
<1>1. CallersInit => ThreadsInv
  <2> SUFFICES ASSUME Sync!Init PROVE ThreadsInv
    BY DEF CallersInit
  <2> PICK n \in 0..SyncMin : queue = [i \in 1..n |-> [uses |-> 0, dirty |-> FALSE]] /\ counted = n
    BY DEF Sync!Init
  <2>0. n \in Nat /\ n <= SyncMax /\ SyncMax \in Nat
    BY CallersAssumption DEF CallersAssumption
  <2>1. ended = FALSE /\ thread = [t \in Threads |-> "none"] /\ lent = [t \in Threads |-> None]
    BY DEF Sync!Init
  <2>2. queue \in Seq(Sync!Connection) /\ Len(queue) = n /\ \A i \in DOMAIN queue : ~queue[i].dirty
    BY <2>0 DEF Sync!Connection
  <2>3. Sync!Holding = {} /\ Sync!Waiting = {}
    BY <2>1 DEF Sync!Holding, Sync!Waiting
  <2>4. Sync!SlotsAccounted
    BY <2>0, <2>2, <2>3, SameCount, FS_EmptySet DEF Sync!SlotsAccounted
  <2>5. PoolStates
    BY <2>0, <2>1, <2>2, <2>3
    DEF PoolStates, Sync!TypeOK, Sync!ClosedReleasesAll, Sync!LentClean, Holds
  <2> QED
    BY <2>3, <2>4, <2>5 DEF ThreadsInv, AllEngaged
<1>2. ThreadsInv /\ [CallersNext]_callersVars => ThreadsInv'
  <2> SUFFICES ASSUME ThreadsInv, [CallersNext]_callersVars PROVE ThreadsInv'
    OBVIOUS
  <2>1. Sync!Next \/ UNCHANGED threadsVars
    BY DEF CallersNext, callersVars
  <2>2. CASE UNCHANGED threadsVars
    BY <2>2 DEF threadsVars, ThreadsInv, PoolStates, Sync!TypeOK, Sync!ClosedReleasesAll,
                Sync!LentClean, Holds, Sync!SlotsAccounted, Sync!Holding, AllEngaged, Engaged,
                Sync!Waiting
  <2>3. CASE Sync!Next
    BY <2>3, SyncStates, SyncAccounts, SyncEngaged DEF ThreadsInv
  <2> QED
    BY <2>1, <2>2, <2>3
<1>3. ThreadsInv => ThreadsAccounted
  <2> SUFFICES ASSUME ThreadsInv, Sync!Waiting # {}
               PROVE  Sync!Available <= Sync!Cardinality(Sync!Telling)
    BY DEF ThreadsInv, PoolStates, ThreadsAccounted, Sync!NoStrandedWaiter
  <2>1. Engaged = Sync!Holding \cup Sync!Telling
    BY DEF ThreadsInv, PoolStates, Sync!TypeOK, Engaged, Outside, Sync!Holding, Sync!Telling
  <2>2. IsFiniteSet(Sync!Holding) /\ IsFiniteSet(Sync!Telling)
    BY CallersAssumption, FS_Subset DEF CallersAssumption, Sync!Holding, Sync!Telling
  <2>3. /\ Cardinality(Sync!Holding) \in Nat /\ Cardinality(Sync!Telling) \in Nat
        /\ Cardinality(Engaged) \in Nat
        /\ Cardinality(Engaged) <= Cardinality(Sync!Holding) + Cardinality(Sync!Telling)
    <3>1. Cardinality(Sync!Holding \cup Sync!Telling)
            = Cardinality(Sync!Holding) + Cardinality(Sync!Telling) - Cardinality(Sync!Holding \cap Sync!Telling)
      BY <2>2, FS_Union
    <3>2. IsFiniteSet(Sync!Holding \cap Sync!Telling)
      BY <2>2, FS_Intersection
    <3>3. /\ Cardinality(Sync!Holding) \in Nat /\ Cardinality(Sync!Telling) \in Nat
          /\ Cardinality(Sync!Holding \cap Sync!Telling) \in Nat
      BY <2>2, <3>2, FS_CardinalityType
    <3>4. Cardinality(Engaged) \in Nat
      BY EngagedFinite DEF Engaged
    <3> HIDE DEF Sync!Holding, Sync!Telling
    <3> QED
      BY <2>1, <3>1, <3>3, <3>4
  <2>4. /\ counted \in Nat /\ SyncMax \in Nat /\ Len(queue) \in Nat
        /\ counted = Len(queue) + Cardinality(Sync!Holding)
    BY SameCount, CallersAssumption, LenProperties
    DEF ThreadsInv, PoolStates, Sync!TypeOK, Sync!SlotsAccounted, CallersAssumption
  <2>5. SyncMax <= Cardinality(Engaged)
    BY DEF ThreadsInv, AllEngaged
  <2> QED
    BY <2>3, <2>4, <2>5, SameCount DEF Sync!Available
<1> QED
  BY <1>1, <1>2, <1>3, PTL DEF CallersSpec
===============================================================================
