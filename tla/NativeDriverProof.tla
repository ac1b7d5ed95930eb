--------------------------- MODULE NativeDriverProof ---------------------------
(***************************************************************************)
(* Proofs about NativeDriver for every set of tasks and every bound, in    *)
(* three parts.  Types and generations: the type invariant, and what       *)
(* generations guarantee about cancellation.  The session: its mutex has   *)
(* one owner, a response is read by the request it answers, and            *)
(* in_transaction() tells the truth between requests.  Transactions: a     *)
(* statement of a Transaction runs in the transaction its BEGIN opened,    *)
(* and what intrudes on one is bound to be rolled back.                    *)
(***************************************************************************)
EXTENDS NativeDriver, FiniteSetTheorems, SequenceTheorems, TLAPS

\* A call in progress has a statement, and the driver has a request from the
\* moment it takes one until it has answered it.
SqlKnown ==
  \A t \in Tasks : pc[t] \in {"lock", "check", "send", "reserved", "wait"} => sql[t] \in Sql
CurKnown ==
  dpc \in {"probe", "run", "cancel", "cleanup", "reply", "release"} => cur \in Request

TypeInv == TypeOK /\ SqlKnown /\ CurKnown

-----------------------------------------------------------------------------
(* Helpers *)

\* The initial state has its types.
LEMMA InitTypes ==
  ASSUME Init PROVE TypeInv
<1>1. /\ active \in Nat /\ next \in Nat /\ cancelled \in Nat /\ loads \subseteq Nat
      /\ srvGen \in Nat /\ rows \in Nat /\ packets \subseteq Nat
  BY DEF Init
<1>2. queue \in Seq(Request) /\ wire \in Seq(Frame)
  BY EmptySeq DEF Init
<1>3. /\ closing \in BOOLEAN /\ closed \in BOOLEAN /\ transaction \in BOOLEAN
      /\ session \in BOOLEAN /\ rxOpen \in BOOLEAN /\ handles \in BOOLEAN
      /\ sent \in BOOLEAN /\ reusable \in BOOLEAN /\ undecodable \in BOOLEAN
      /\ sessTx \in BOOLEAN /\ alive \in BOOLEAN
  BY DEF Init
<1>4. /\ pc \in [Tasks -> {"idle", "lock", "check", "send", "reserved", "wait", "closing"}]
      /\ sql \in [Tasks -> Sql \cup {"none"}]
      /\ txn \in [Tasks -> {"none", "opening", "held", "ending", "dropping"}]
      /\ reply \in [Tasks -> Result \cup {"none"}]
  BY DEF Init
<1>5. srvTx \in [task: Tasks \cup {"none"}, guarded: BOOLEAN]
  BY DEF Init, NoTx
<1>6. SqlKnown /\ CurKnown
  BY DEF Init, SqlKnown, CurKnown
<1> QED
  BY <1>1, <1>2, <1>3, <1>4, <1>5, <1>6 DEF TypeInv, TypeOK, Init

\* A request loses its caller
LEMMA ForgetTypes ==
  ASSUME TypeInv, NEW t \in Tasks, Forget(t), UNCHANGED dpc
  PROVE  /\ queue' \in Seq(Request)
         /\ cur' \in Request \cup {NoRequest}
         /\ CurKnown'
         /\ reply' \in [Tasks -> Result \cup {"none"}]
<1>1. \A i \in DOMAIN queue : queue[i] \in Request
  BY ElementOfSeq, LenProperties DEF TypeInv, TypeOK
<1>2. \A r \in Request : [r EXCEPT !.open = FALSE] \in Request
  BY DEF Request
<1>3. DOMAIN queue = 1..Len(queue) /\ Len(queue) \in Nat
  BY LenProperties DEF TypeInv, TypeOK
<1>4. queue' \in [1..Len(queue) -> Request]
  BY <1>1, <1>2, <1>3 DEF Forget
<1>5. queue' \in Seq(Request)
  BY <1>3, <1>4, IsASeq
<1>6. cur' \in Request \cup {NoRequest} /\ CurKnown'
  <2>1. CASE cur \in Request
    BY <1>2, <2>1 DEF Forget, TypeInv, CurKnown
  <2>2. CASE cur = NoRequest
    <3>1. NoRequest.task # t
      BY DriverAssumption DEF DriverAssumption, NoRequest
    <3> QED
      BY <2>2, <3>1 DEF Forget, TypeInv, CurKnown
  <2> QED
    BY <2>1, <2>2 DEF TypeInv, TypeOK
<1>7. reply' \in [Tasks -> Result \cup {"none"}]
  BY DEF Forget, TypeInv, TypeOK
<1> QED
  BY <1>5, <1>6, <1>7

\* What Settle, StopAndRelease and the other ends of a call change
TaskTypes ==
  /\ pc \in [Tasks -> {"idle", "lock", "check", "send", "reserved", "wait", "closing"}]
  /\ sql \in [Tasks -> Sql \cup {"none"}]
  /\ txn \in [Tasks -> {"none", "opening", "held", "ending", "dropping"}]
  /\ session \in BOOLEAN /\ closing \in BOOLEAN
  /\ SqlKnown

\* Client::stop and the end of the guard keep the types.
LEMMA StopTypes ==
  ASSUME TypeInv, NEW t \in Tasks, StopAndRelease(t)
  PROVE  TaskTypes'
  BY DEF TypeInv, TypeOK, SqlKnown, TaskTypes, StopAndRelease, Return

\* However a call ends for its caller, the types are kept.
LEMMA SettleTypes ==
  ASSUME TypeInv, NEW t \in Tasks, NEW ok, Settle(t, ok)
  PROVE  TaskTypes'
<1>1. CASE Return(t) /\ txn' = txn /\ UNCHANGED <<session, closing>>
  BY <1>1 DEF TypeInv, TypeOK, SqlKnown, TaskTypes, Return
<1>2. CASE Return(t) /\ txn' = [txn EXCEPT ![t] = "held"] /\ UNCHANGED <<session, closing>>
  BY <1>2 DEF TypeInv, TypeOK, SqlKnown, TaskTypes, Return
<1>3. CASE /\ Return(t) /\ txn' = [txn EXCEPT ![t] = "none"]
           /\ session' = FALSE /\ UNCHANGED closing
  BY <1>3 DEF TypeInv, TypeOK, SqlKnown, TaskTypes, Return
<1>4. CASE BecomeRollback(t) /\ UNCHANGED <<session, closing>>
  BY <1>4 DEF TypeInv, TypeOK, SqlKnown, TaskTypes, BecomeRollback, Sql
<1>5. CASE StopAndRelease(t)
  BY <1>5, StopTypes
<1> QED
  BY <1>1, <1>2, <1>3, <1>4, <1>5 DEF Settle

-----------------------------------------------------------------------------
(* The type invariant *)

\* The steps of a call in progress keep the types.
LEMMA TaskStepTypes ==
  ASSUME TypeInv, NEW t \in Tasks, TaskStep(t) PROVE TypeInv'
<1> USE DEF TypeInv
<1>1. CASE AcquireSession(t)
  BY <1>1 DEF TypeOK, SqlKnown, CurKnown, AcquireSession, controlVars, opVars, srvVars
<1>2. CASE AcquireFails(t)
  BY <1>2 DEF TypeOK, SqlKnown, CurKnown, AcquireFails, Return, controlVars, chanVars, opVars, srvVars
<1>3. CASE CheckNested(t)
  <2>1. CASE RefusesNested
    <3>1. /\ session' = FALSE /\ Return(t) /\ txn' = [txn EXCEPT ![t] = "none"]
          /\ UNCHANGED <<controlVars, queue, rxOpen, handles, reply, dpc, opVars, sessTx, srvVars>>
      BY <1>3, <2>1 DEF CheckNested
    <3> QED
      <4>1. TaskTypes'
        BY <3>1 DEF TypeOK, SqlKnown, TaskTypes, Return, controlVars
      <4>2. UNCHANGED <<active, next, cancelled, closed, transaction, loads, queue, rxOpen,
                        handles, reply, dpc, opVars, sessTx, srvVars>>
        BY <3>1 DEF controlVars
      <4> QED
        BY <4>1, <4>2 DEF TypeOK, TaskTypes, CurKnown, opVars, srvVars
  <2>2. CASE ~RefusesNested
    BY <1>3, <2>2 DEF TypeOK, SqlKnown, CurKnown, CheckNested, controlVars, opVars, srvVars
  <2> QED BY <2>1, <2>2
<1>4. CASE Reserve(t)
  BY <1>4 DEF TypeOK, SqlKnown, CurKnown, Reserve, controlVars, chanVars, opVars, srvVars
<1>5. CASE Push(t)
  <2>1. sql[t] \in Sql
    BY <1>5 DEF SqlKnown, Push
  <2>2. [task |-> t, sql |-> sql[t], lease |-> ~Exclusive(t), open |-> TRUE] \in Request
    BY <2>1 DEF Request
  <2>3. queue' \in Seq(Request)
    BY <1>5, <2>2, AppendProperties DEF TypeOK, Push
  <2> QED
    BY <1>5, <2>3 DEF TypeOK, SqlKnown, CurKnown, Push, controlVars, opVars, srvVars
<1>6. CASE SendFails(t)
  <2>1. TaskTypes'
    <3>1. CASE Exclusive(t)
      BY <1>6, <3>1, SettleTypes DEF SendFails
    <3>2. CASE ~Exclusive(t)
      BY <1>6, <3>2 DEF TypeOK, SqlKnown, TaskTypes, SendFails, Return
    <3> QED BY <3>1, <3>2
  <2> QED
    BY <1>6, <2>1 DEF TypeOK, TaskTypes, CurKnown, SendFails, opVars, srvVars
<1>7. CASE ReceiveReply(t)
  <2>1. TaskTypes'
    BY <1>7, SettleTypes DEF ReceiveReply
  <2> QED
    <3>1. /\ reply' = [reply EXCEPT ![t] = "none"]
          /\ UNCHANGED <<active, next, cancelled, closed, transaction, loads, queue,
                         rxOpen, handles, dpc, opVars, sessTx, srvVars>>
      BY <1>7 DEF ReceiveReply
    <3> QED
      BY <2>1, <3>1 DEF TypeOK, TaskTypes, CurKnown, opVars, srvVars
<1>8. CASE CloseReturns(t)
  BY <1>8 DEF TypeOK, SqlKnown, CurKnown, CloseReturns, Return, controlVars, chanVars, opVars, srvVars
<1> QED
  BY <1>1, <1>2, <1>3, <1>4, <1>5, <1>6, <1>7, <1>8 DEF TaskStep

\* What callers start, drop or time out keeps the types.
LEMMA CallerTypes ==
  ASSUME TypeInv, NEW t \in Tasks, Caller(t) \/ RollbackTimeout(t) PROVE TypeInv'
<1> USE DEF TypeInv
<1>1. ASSUME NEW s \in PlainSql, StartPlain(t, s) PROVE TypeInv'
  BY <1>1, DriverAssumption
     DEF DriverAssumption, TypeOK, SqlKnown, CurKnown, StartPlain, controlVars, chanVars, opVars, srvVars
<1>2. CASE StartTransaction(t)
  BY <1>2 DEF TypeOK, SqlKnown, CurKnown, StartTransaction, Sql, controlVars, chanVars, opVars, srvVars
<1>3. CASE StartInTransaction(t)
  BY <1>3 DEF TypeOK, SqlKnown, CurKnown, StartInTransaction, Sql, controlVars, chanVars, opVars, srvVars
<1>4. ASSUME NEW s \in {"commit", "rollback"}, EndTransaction(t, s) PROVE TypeInv'
  BY <1>4 DEF TypeOK, SqlKnown, CurKnown, EndTransaction, Sql, controlVars, chanVars, opVars, srvVars
<1>5. CASE DropTransaction(t)
  BY <1>5 DEF TypeOK, SqlKnown, CurKnown, DropTransaction, BecomeRollback, Sql, controlVars,
              chanVars, opVars, srvVars
<1>6. CASE DropWithoutRuntime(t)
  BY <1>6, StopTypes DEF TypeOK, TaskTypes, CurKnown, DropWithoutRuntime, opVars, srvVars
<1>7. CASE Abandon(t)
  <2>0. UNCHANGED <<active, next, cancelled, closed, transaction, loads, rxOpen,
                    handles, dpc, sent, outcome, reusable, undecodable, sessTx, srvVars>>
    BY <1>7 DEF Abandon
  <2>1. CASE pc[t] = "wait" /\ Forget(t) /\ Settle(t, FALSE)
    <3>1. /\ queue' \in Seq(Request)
          /\ cur' \in Request \cup {NoRequest}
          /\ CurKnown'
          /\ reply' \in [Tasks -> Result \cup {"none"}]
      BY <2>0, <2>1, ForgetTypes
    <3>2. TaskTypes'
      BY <2>1, SettleTypes
    <3> QED
      BY <2>0, <3>1, <3>2 DEF TypeOK, TaskTypes, srvVars
  <2>2. CASE Settle(t, FALSE) /\ UNCHANGED <<reply, queue, cur>>
    <3>1. TaskTypes'
      BY <2>2, SettleTypes
    <3> QED
      BY <2>0, <2>2, <3>1 DEF TypeOK, TaskTypes, CurKnown, srvVars
  <2>3. CASE Return(t) /\ txn' = [txn EXCEPT ![t] = "none"]
             /\ UNCHANGED <<reply, session, queue, cur, closing>>
    BY <2>0, <2>3 DEF TypeOK, SqlKnown, CurKnown, Return, srvVars
  <2>4. CASE Return(t) /\ session' = FALSE /\ UNCHANGED <<txn, reply, queue, cur, closing>>
    <3>1. TaskTypes'
      BY <2>4 DEF TypeOK, SqlKnown, TaskTypes, Return
    <3>2. UNCHANGED <<reply, queue, cur>>
      BY <2>4
    <3> QED
      BY <2>0, <3>1, <3>2 DEF TypeOK, TaskTypes, CurKnown, srvVars
  <2> QED
    BY <1>7, <2>1, <2>2, <2>3, <2>4 DEF Abandon
<1>8. CASE Close(t)
  BY <1>8 DEF TypeOK, SqlKnown, CurKnown, Close, chanVars, opVars, srvVars
<1>9. CASE RollbackTimeout(t)
  <2>1. /\ queue' \in Seq(Request)
        /\ cur' \in Request \cup {NoRequest}
        /\ CurKnown'
        /\ reply' \in [Tasks -> Result \cup {"none"}]
    BY <1>9, ForgetTypes DEF RollbackTimeout
  <2>2. TaskTypes'
    BY <1>9, StopTypes DEF RollbackTimeout
  <2> QED
    BY <1>9, <2>1, <2>2 DEF TypeOK, TaskTypes, RollbackTimeout, srvVars
<1> QED
  BY <1>1, <1>2, <1>3, <1>4, <1>5, <1>6, <1>7, <1>8, <1>9 DEF Caller

\* cancel() and the last clone going keep the types.
LEMMA ControlTypes ==
  ASSUME TypeInv, DropClients \/ CancelLoad \/ \E g \in loads : CancelRaise(g) PROVE TypeInv'
<1> USE DEF TypeInv
<1>1. CASE DropClients
  <2>1. handles' \in BOOLEAN
    BY <1>1 DEF DropClients
  <2>2. UNCHANGED <<controlVars, session, queue, rxOpen, taskVars, dpc, opVars, sessTx, srvVars>>
    BY <1>1 DEF DropClients
  <2> QED
    BY <2>1, <2>2 DEF TypeOK, SqlKnown, CurKnown, controlVars, taskVars, opVars, srvVars
<1>2. CASE CancelLoad
  BY <1>2 DEF TypeOK, SqlKnown, CurKnown, CancelLoad, chanVars, taskVars, opVars, srvVars
<1>3. ASSUME NEW g \in loads, CancelRaise(g) PROVE TypeInv'
  BY <1>3 DEF TypeOK, SqlKnown, CurKnown, CancelRaise, Higher, chanVars, taskVars, opVars, srvVars
<1> QED
  BY <1>1, <1>2, <1>3

\* The head of a non-empty queue and what is left of it have their types.
LEMMA QueueHead ==
  ASSUME TypeOK, queue # <<>>
  PROVE  Head(queue) \in Request /\ Tail(queue) \in Seq(Request)
  BY HeadTailProperties DEF TypeOK

\* The same of the wire.
LEMMA WireHead ==
  ASSUME TypeOK, wire # <<>>
  PROVE  Head(wire) \in Frame /\ Tail(wire) \in Seq(Frame)
  BY HeadTailProperties DEF TypeOK

\* A frame put on the wire is a frame.
LEMMA SendsFrame ==
  ASSUME TypeOK, NEW k \in {"row", "bad", "torn", "ok", "db", "eof", "stray"}
  PROVE  Append(wire, [gen |-> srvGen, kind |-> k]) \in Seq(Frame)
<1>1. [gen |-> srvGen, kind |-> k] \in Frame
  BY DEF TypeOK, Frame
<1> QED
  BY <1>1, AppendProperties DEF TypeOK

\* Answering a request, or finding its caller gone, leaves results in place.
LEMMA AnswerTypes ==
  ASSUME TypeOK, NEW r \in Request, NEW result \in Result \cup {"none"}, Answer(r, result)
  PROVE  reply' \in [Tasks -> Result \cup {"none"}]
  BY DEF TypeOK, Answer, Request

\* The loop of run_connection, up to the request it takes
LEMMA LoopTypes ==
  ASSUME TypeInv, DrvPoll \/ DrvRecv \/ DrvSkip \/ DrvRecvNone \/ DrvPark \/ DrvProbe
  PROVE  TypeInv'
<1> USE DEF TypeInv
<1>1. CASE DrvPoll
  <2>1. rxOpen' \in BOOLEAN /\ dpc' \in {"drain", "recv"}
    BY <1>1 DEF DrvPoll, TypeOK
  <2>2. UNCHANGED <<controlVars, session, queue, handles, taskVars, opVars, sessTx, srvVars>>
    BY <1>1 DEF DrvPoll
  <2> QED
    BY <2>1, <2>2 DEF TypeOK, SqlKnown, CurKnown, controlVars, taskVars, opVars, srvVars
<1>2. CASE DrvRecv
  BY <1>2, QueueHead DEF TypeOK, SqlKnown, CurKnown, DrvRecv, taskVars, srvVars
<1>3. CASE DrvSkip
  <2>1. queue' \in Seq(Request) /\ next' \in Nat /\ dpc' = "select"
    BY <1>3, QueueHead DEF TypeOK, DrvSkip
  <2>2. session' \in BOOLEAN
    BY <1>3 DEF TypeOK, DrvSkip, ReleaseLease
  <2>3. UNCHANGED <<active, cancelled, closing, closed, transaction, loads, rxOpen,
                    handles, taskVars, opVars, sessTx, srvVars>>
    BY <1>3 DEF DrvSkip
  <2> QED
    BY <2>1, <2>2, <2>3 DEF TypeOK, SqlKnown, CurKnown, taskVars, opVars, srvVars
<1>4. CASE DrvRecvNone
  <2>1. rxOpen' \in BOOLEAN /\ dpc' = "drain"
    BY <1>4 DEF DrvRecvNone
  <2>2. UNCHANGED <<controlVars, session, queue, handles, taskVars, opVars, sessTx, srvVars>>
    BY <1>4 DEF DrvRecvNone
  <2> QED
    BY <2>1, <2>2 DEF TypeOK, SqlKnown, CurKnown, controlVars, taskVars, opVars, srvVars
<1>5. CASE DrvPark
  BY <1>5 DEF TypeOK, SqlKnown, CurKnown, DrvPark, controlVars, chanVars, taskVars, opVars, srvVars
<1>6. CASE DrvProbe
  <2>1. reusable' \in BOOLEAN /\ outcome' \in Result /\ dpc' = "reply" /\ cur \in Request
    BY <1>6 DEF DrvProbe, Healthy, Result, TypeOK, CurKnown
  <2>2. UNCHANGED <<controlVars, chanVars, taskVars, cur, sent, undecodable, sessTx, srvVars>>
    BY <1>6 DEF DrvProbe
  <2> QED
    BY <2>1, <2>2 DEF TypeOK, SqlKnown, CurKnown, controlVars, chanVars, taskVars, srvVars
<1> QED
  BY <1>1, <1>2, <1>3, <1>4, <1>5, <1>6

\* drive_operation and the response future
LEMMA DriveTypes ==
  ASSUME TypeInv,
         \/ DrvDeadline \/ DrvInterrupted \/ DrvAbandoned \/ DrvSendCancel \/ DrvCleanupTimeout
         \/ DrvWrite \/ DrvWriteFails \/ DrvRead
  PROVE  TypeInv'
<1> USE DEF TypeInv
<1>1. ASSUME dpc = "run", NEW result \in Result, Interrupt(result) PROVE TypeInv'
  BY <1>1 DEF TypeOK, SqlKnown, CurKnown, Interrupt, Higher, chanVars, taskVars, srvVars
<1>2. CASE DrvDeadline \/ DrvInterrupted \/ DrvAbandoned
  BY <1>1, <1>2 DEF DrvDeadline, DrvInterrupted, DrvAbandoned, Result
<1>3. CASE DrvSendCancel
  <2>1. packets' \subseteq Nat
    BY <1>3 DEF DrvSendCancel, TypeOK
  <2> QED
    BY <1>3, <2>1 DEF TypeOK, SqlKnown, CurKnown, DrvSendCancel, controlVars, chanVars, taskVars, opVars
<1>4. CASE DrvCleanupTimeout
  <2>1. reusable' \in BOOLEAN /\ dpc' = "reply" /\ cur \in Request
    BY <1>4 DEF DrvCleanupTimeout, UnderCleanupTimeout, CleanupExpires, CurKnown
  <2>2. UNCHANGED <<controlVars, chanVars, taskVars, cur, sent, outcome, undecodable, sessTx, srvVars>>
    BY <1>4 DEF DrvCleanupTimeout
  <2> QED
    BY <2>1, <2>2 DEF TypeOK, SqlKnown, CurKnown, controlVars, chanVars, taskVars, srvVars
<1>5. CASE DrvWrite
  <2>1. cur \in Request /\ [cur EXCEPT !.open = TRUE] \in Request
    BY <1>5 DEF DrvWrite, Driving, CurKnown, Request
  <2>2. sent' \in BOOLEAN /\ srvGen' = active /\ srvReq' \in Request /\ rows' = 0
    BY <1>5, <2>1 DEF DrvWrite
  <2>3. UNCHANGED <<controlVars, chanVars, taskVars, dpc, cur, outcome, reusable,
                    undecodable, sessTx, alive, srvTx, wire, packets>>
    BY <1>5 DEF DrvWrite
  <2> QED
    BY <2>2, <2>3 DEF TypeOK, SqlKnown, CurKnown, controlVars, chanVars, taskVars
<1>6. ASSUME Driving, NEW result \in Result, FutureDone(result)
      PROVE  /\ reusable' \in BOOLEAN /\ outcome' \in Result \cup {"none"}
             /\ dpc' = "reply" /\ cur \in Request
  BY <1>6 DEF TypeOK, CurKnown, Driving, FutureDone, KeepsSession
<1>7. CASE DrvWriteFails
  <2>1. /\ reusable' \in BOOLEAN /\ outcome' \in Result \cup {"none"}
        /\ dpc' = "reply" /\ cur \in Request
    BY <1>6, <1>7 DEF DrvWriteFails, Result
  <2>2. UNCHANGED <<controlVars, chanVars, taskVars, cur, sent, undecodable, sessTx, srvVars>>
    BY <1>7 DEF DrvWriteFails
  <2> QED
    BY <2>1, <2>2 DEF TypeOK, SqlKnown, CurKnown, controlVars, chanVars, taskVars, srvVars
<1>8. CASE DrvRead
  <2>1. Driving /\ cur \in Request /\ wire' \in Seq(Frame)
    BY <1>8, WireHead DEF DrvRead, Driving, CurKnown
  <2>2. UNCHANGED <<controlVars, chanVars, taskVars, cur, sent, alive, srvGen, srvReq,
                    srvTx, rows, packets>>
    BY <1>8 DEF DrvRead
  <2>3. /\ reusable' \in BOOLEAN /\ outcome' \in Result \cup {"none"}
        /\ undecodable' \in BOOLEAN /\ sessTx' \in BOOLEAN
        /\ dpc' \in {"run", "cleanup", "reply"}
    <3>1. CASE UNCHANGED <<dpc, outcome, reusable, undecodable, sessTx>>
      BY <2>1, <3>1 DEF TypeOK, Driving
    <3>2. CASE undecodable' = TRUE /\ UNCHANGED <<dpc, outcome, reusable, sessTx>>
      BY <2>1, <3>2 DEF TypeOK, Driving
    <3>3. CASE /\ sessTx' = TagEffect(cur.sql, sessTx)
               /\ FutureDone(IF undecodable THEN "decode" ELSE "ok")
               /\ UNCHANGED undecodable
      <4>1. sessTx' \in BOOLEAN
        BY <3>3 DEF TypeOK, TagEffect
      <4> QED
        BY <1>6, <2>1, <3>3, <4>1 DEF TypeOK, Result
    <3>4. CASE (FutureDone("db") \/ FutureDone("fatal")) /\ UNCHANGED <<undecodable, sessTx>>
      BY <1>6, <2>1, <3>4 DEF TypeOK, Result
    <3> QED
      BY <1>8, <3>1, <3>2, <3>3, <3>4 DEF DrvRead
  <2> QED
    BY <2>1, <2>2, <2>3 DEF TypeOK, SqlKnown, CurKnown, controlVars, chanVars, taskVars
<1> QED
  BY <1>2, <1>3, <1>4, <1>5, <1>7, <1>8

\* The answer, the next turn of the loop, and the end of the task
LEMMA EndTypes ==
  ASSUME TypeInv,
         \/ DrvReply \/ DrvRelease \/ DrvDrainOne \/ DrvDrained \/ DrvClose \/ DropConnection
  PROVE  TypeInv'
<1> USE DEF TypeInv
<1>1. CASE DrvReply
  <2>1. cur \in Request /\ cur' \in Request
    BY <1>1 DEF DrvReply, CurKnown, Request
  <2>2. reply' \in [Tasks -> Result \cup {"none"}]
    BY <1>1, <2>1, AnswerTypes DEF DrvReply, TypeOK
  <2>3. transaction' \in BOOLEAN /\ dpc' = "release"
    BY <1>1 DEF DrvReply, TypeOK
  <2>4. UNCHANGED <<active, next, cancelled, closing, closed, loads, chanVars, pc, sql,
                    txn, sent, outcome, reusable, undecodable, sessTx, srvVars>>
    BY <1>1 DEF DrvReply
  <2> QED
    BY <2>1, <2>2, <2>3, <2>4 DEF TypeOK, SqlKnown, CurKnown, chanVars, srvVars
<1>2. CASE DrvRelease
  <2>1. session' \in BOOLEAN /\ rxOpen' \in BOOLEAN
    BY <1>2 DEF DrvRelease, ReleaseLease, TypeOK
  <2>2. sent' \in BOOLEAN /\ undecodable' \in BOOLEAN
    BY <1>2 DEF DrvRelease
  <2>3. /\ cur' = NoRequest /\ outcome' = "none" /\ active' = 0
        /\ dpc' \in {"select", "drain"}
        /\ UNCHANGED <<next, cancelled, closing, closed, transaction, loads, queue, handles,
                       taskVars, reusable, sessTx, srvVars>>
    BY <1>2 DEF DrvRelease
  <2> QED
    BY <2>1, <2>2, <2>3 DEF TypeOK, SqlKnown, CurKnown, taskVars, srvVars
<1>3. CASE DrvDrainOne
  <2>1. Head(queue) \in Request /\ queue' \in Seq(Request)
    BY <1>3, QueueHead DEF DrvDrainOne
  <2>2. reply' \in [Tasks -> Result \cup {"none"}]
    BY <1>3, <2>1, AnswerTypes DEF DrvDrainOne, Result
  <2>3. session' \in BOOLEAN
    BY <1>3 DEF DrvDrainOne, ReleaseLease, TypeOK
  <2>4. UNCHANGED <<controlVars, rxOpen, handles, pc, sql, txn, dpc, opVars, sessTx, srvVars>>
    BY <1>3 DEF DrvDrainOne
  <2> QED
    BY <2>1, <2>2, <2>3, <2>4 DEF TypeOK, SqlKnown, CurKnown, controlVars, opVars, srvVars
<1>4. CASE DrvDrained
  BY <1>4 DEF TypeOK, SqlKnown, CurKnown, DrvDrained, controlVars, chanVars, taskVars, opVars, srvVars
<1>5. ASSUME Disconnect
      PROVE  /\ alive' \in BOOLEAN /\ srvGen' \in Nat /\ rows' \in Nat
             /\ srvReq' \in Request \cup {NoRequest}
             /\ srvTx' \in [task: Tasks \cup {"none"}, guarded: BOOLEAN]
             /\ wire' \in Seq(Frame)
  <2>1. alive' \in BOOLEAN
    BY <1>5 DEF Disconnect
  <2>2. srvTx' \in [task: Tasks \cup {"none"}, guarded: BOOLEAN]
    BY <1>5 DEF Disconnect, NoTx
  <2> QED
    BY <1>5, <2>1, <2>2, EmptySeq DEF Disconnect
<1>6. ASSUME GuardDrop PROVE active' \in Nat /\ closed' \in BOOLEAN
  BY <1>6 DEF GuardDrop
<1>7. CASE DrvClose
  <2>1. Disconnect /\ GuardDrop /\ dpc' = "done"
    BY <1>7 DEF DrvClose
  <2>2. UNCHANGED <<next, cancelled, closing, transaction, loads, chanVars, taskVars,
                    opVars, sessTx, packets>>
    BY <1>7 DEF DrvClose
  <2> QED
    BY <1>5, <1>6, <2>1, <2>2 DEF TypeOK, SqlKnown, CurKnown, chanVars, taskVars, opVars
<1>8. CASE DropConnection
  <2>1. Disconnect /\ GuardDrop /\ dpc' = "done"
    BY <1>8 DEF DropConnection
  <2>2. rxOpen' \in BOOLEAN /\ session' \in BOOLEAN
    BY <1>8 DEF DropConnection, TypeOK
  <2>3. sent' \in BOOLEAN /\ undecodable' \in BOOLEAN
    BY <1>8 DEF DropConnection
  <2>4. queue' \in Seq(Request) /\ cur' = NoRequest /\ outcome' = "none"
    BY <1>8, EmptySeq DEF DropConnection
  <2>5. reply' \in [Tasks -> Result \cup {"none"}]
    BY <1>8 DEF DropConnection, TypeOK, Result
  <2>6. UNCHANGED <<next, cancelled, closing, transaction, loads, handles, pc, sql, txn,
                    reusable, sessTx, packets>>
    BY <1>8 DEF DropConnection
  <2> QED
    BY <1>5, <1>6, <2>1, <2>2, <2>3, <2>4, <2>5, <2>6 DEF TypeOK, SqlKnown, CurKnown
<1> QED
  BY <1>1, <1>2, <1>3, <1>4, <1>7, <1>8

\* The backend
LEMMA BackendTypes ==
  ASSUME TypeInv, Backend PROVE TypeInv'
<1> USE DEF TypeInv
<1> DEFINE Frozen == UNCHANGED <<controlVars, chanVars, taskVars, dpc, opVars, sessTx>>
<1>1. ASSUME Frozen,
             alive' \in BOOLEAN, srvGen' \in Nat, rows' \in Nat,
             srvReq' \in Request \cup {NoRequest},
             srvTx' \in [task: Tasks \cup {"none"}, guarded: BOOLEAN],
             wire' \in Seq(Frame), packets' \subseteq Nat
      PROVE  TypeInv'
  BY <1>1 DEF TypeOK, SqlKnown, CurKnown, controlVars, chanVars, taskVars, opVars
<1>2. ASSUME NEW k \in {"ok", "db"}, SrvFinish(k)
      PROVE  /\ srvGen' \in Nat /\ rows' \in Nat /\ srvReq' \in Request \cup {NoRequest}
             /\ wire' \in Seq(Frame)
  BY <1>2, SendsFrame DEF SrvFinish
<1>3. CASE SrvRow
  <2>1. wire' \in Seq(Frame)
    BY <1>3, SendsFrame DEF SrvRow
  <2>2. Frozen /\ UNCHANGED <<alive, srvGen, srvReq, srvTx, packets>> /\ rows' \in Nat
    BY <1>3 DEF SrvRow, TypeOK
  <2> QED
    BY <1>1, <2>1, <2>2 DEF TypeOK
<1>4. CASE SrvOk
  <2>1. srvTx' \in [task: Tasks \cup {"none"}, guarded: BOOLEAN]
    <3>1. CASE srvReq.sql = "begin"
      <4>1. srvReq \in Request
        BY <3>1 DEF TypeOK, NoRequest
      <4>2. srvTx' = [task |-> srvReq.task, guarded |-> ~srvReq.lease]
        BY <1>4, <3>1 DEF SrvOk, SrvTxAfter
      <4> QED
        BY <4>1, <4>2 DEF Request
    <3>2. CASE srvReq.sql # "begin"
      <4>1. srvTx' = NoTx \/ srvTx' = srvTx
        BY <1>4, <3>2 DEF SrvOk, SrvTxAfter
      <4>2. NoTx \in [task: Tasks \cup {"none"}, guarded: BOOLEAN]
        BY DEF NoTx
      <4>3. srvTx \in [task: Tasks \cup {"none"}, guarded: BOOLEAN]
        BY DEF TypeOK
      <4> QED
        BY <4>1, <4>2, <4>3
    <3> QED BY <3>1, <3>2
  <2>2. Frozen /\ UNCHANGED <<alive, packets>> /\ SrvFinish("ok")
    BY <1>4 DEF SrvOk
  <2> QED
    BY <1>1, <1>2, <2>1, <2>2 DEF TypeOK
<1>5. CASE SrvError
  <2>1. Frozen /\ UNCHANGED <<alive, srvTx, packets>> /\ SrvFinish("db")
    BY <1>5 DEF SrvError
  <2> QED
    BY <1>1, <1>2, <2>1 DEF TypeOK
<1>6. ASSUME NEW p \in packets, SrvCancel(p) PROVE TypeInv'
  <2>1. Frozen /\ UNCHANGED <<alive, srvTx>> /\ packets' \subseteq Nat
    BY <1>6 DEF SrvCancel, TypeOK
  <2>2. SrvFinish("db") \/ UNCHANGED <<srvGen, srvReq, rows, wire>>
    BY <1>6 DEF SrvCancel
  <2> QED
    BY <1>1, <1>2, <2>1, <2>2 DEF TypeOK
<1>7. CASE SrvDie
  <2>1. alive' \in BOOLEAN
    BY <1>7 DEF SrvDie
  <2>2. wire' \in Seq(Frame)
    BY <1>7, SendsFrame DEF SrvDie
  <2>3. srvTx' \in [task: Tasks \cup {"none"}, guarded: BOOLEAN]
    BY <1>7 DEF SrvDie, NoTx
  <2>4. /\ Frozen /\ UNCHANGED packets
        /\ srvGen' \in Nat /\ rows' \in Nat /\ srvReq' = NoRequest
    BY <1>7 DEF SrvDie
  <2> QED
    BY <1>1, <2>1, <2>2, <2>3, <2>4 DEF TypeOK
<1>8. CASE SrvStray
  <2>1. [gen |-> 0, kind |-> "stray"] \in Frame
    BY DEF Frame
  <2>2. wire' \in Seq(Frame)
    BY <1>8, <2>1 DEF SrvStray
  <2>3. Frozen /\ UNCHANGED <<alive, srvGen, srvReq, srvTx, rows, packets>>
    BY <1>8 DEF SrvStray
  <2> QED
    BY <1>1, <2>2, <2>3 DEF TypeOK
<1> QED
  BY <1>3, <1>4, <1>5, <1>6, <1>7, <1>8 DEF Backend

\* Every step, the stuttering one included, keeps the types
LEMMA StepTypes ==
  ASSUME TypeInv, [Next]_vars PROVE TypeInv'
<1>1. CASE Next
  <2>1. CASE Driver \/ DropConnection
    BY <2>1, LoopTypes, DriveTypes, EndTypes DEF Driver
  <2> QED
    BY <1>1, <2>1, TaskStepTypes, CallerTypes, ControlTypes, BackendTypes DEF Next
<1>2. CASE UNCHANGED vars
  BY <1>2 DEF TypeInv, TypeOK, SqlKnown, CurKnown, vars, controlVars, chanVars, taskVars,
              opVars, srvVars
<1> QED
  BY <1>1, <1>2

\* The state of the clients, the driver and the backend has its type in every
\* behaviour, for any number of tasks and any bounds: in particular `active`
\* and `next` stay natural numbers and the driver never answers a request it
\* does not have.
THEOREM DriverTypes == Spec => []TypeOK
<1>1. Init => TypeInv
  BY InitTypes
<1>2. TypeInv /\ [Next]_vars => TypeInv'
  BY StepTypes
<1>3. TypeInv => TypeOK
  BY DEF TypeInv
<1> QED
  BY <1>1, <1>2, <1>3, PTL DEF Spec

-----------------------------------------------------------------------------
(* Generations and cancellation *)

\* The newest generation is the active one whenever there is one; between
\* requests there is none, so a skipped request may take a generation.  No
\* cancellation, raised or loaded, is ahead of the newest generation.
BetweenRequests == dpc \in {"select", "recv", "parked"}
CancelInv ==
  /\ active \in {0, next}
  /\ BetweenRequests => active = 0
  /\ cancelled <= next
  /\ \A g \in loads : g <= next

\* A step that hands out no generation, raises no cancellation and does not
\* end a request
Quiet ==
  /\ UNCHANGED <<active, next, cancelled, loads>>
  /\ BetweenRequests' => BetweenRequests

\* Nothing a caller does to its own call touches the generations.
LEMMA TaskQuiet ==
  ASSUME NEW t \in Tasks, TaskStep(t) \/ Caller(t) \/ RollbackTimeout(t) PROVE Quiet
<1> USE DEF Quiet, BetweenRequests
<1>1. CASE TaskStep(t)
  BY <1>1 DEF TaskStep, AcquireSession, AcquireFails, CheckNested, Reserve, Push, SendFails,
              ReceiveReply, CloseReturns, controlVars
<1>2. CASE Caller(t)
  BY <1>2 DEF Caller, StartPlain, StartTransaction, StartInTransaction, EndTransaction,
              DropTransaction, DropWithoutRuntime, Abandon, Close, controlVars
<1>3. CASE RollbackTimeout(t)
  BY <1>3 DEF RollbackTimeout
<1> QED
  BY <1>1, <1>2, <1>3

\* Nor does the backend.
LEMMA BackendQuiet ==
  ASSUME Backend PROVE Quiet
  BY DEF Quiet, BetweenRequests, Backend, SrvRow, SrvOk, SrvError, SrvCancel, SrvDie, SrvStray,
         controlVars

\* Nor the steps of the driver between taking a request and dropping it.
LEMMA DriverQuiet ==
  ASSUME \/ DrvPoll \/ DrvRecvNone \/ DrvPark \/ DrvProbe \/ DrvSendCancel
         \/ DrvCleanupTimeout \/ DrvWrite \/ DrvWriteFails \/ DrvRead \/ DrvReply
         \/ DrvDrainOne \/ DrvDrained
  PROVE  Quiet
<1> USE DEF Quiet, BetweenRequests
<1>1. CASE DrvPoll \/ DrvRecvNone \/ DrvPark \/ DrvProbe
  BY <1>1 DEF DrvPoll, DrvRecvNone, DrvPark, DrvProbe, controlVars
<1>2. CASE DrvSendCancel \/ DrvCleanupTimeout \/ DrvWrite
  BY <1>2 DEF DrvSendCancel, DrvCleanupTimeout, DrvWrite, controlVars
<1>3. CASE DrvWriteFails
  BY <1>3 DEF DrvWriteFails, FutureDone, controlVars
<1>4. CASE DrvRead
  <2>1. UNCHANGED controlVars
    BY <1>4 DEF DrvRead
  <2>2. dpc' = dpc \/ dpc' = "reply"
    BY <1>4 DEF DrvRead, FutureDone
  <2> QED
    BY <2>1, <2>2 DEF controlVars
<1>5. CASE DrvReply \/ DrvDrainOne \/ DrvDrained
  BY <1>5 DEF DrvReply, DrvDrainOne, DrvDrained, controlVars
<1> QED
  BY <1>1, <1>2, <1>3, <1>4, <1>5

\* The steps that are not quiet, by what they do to the generations
LEMMA Loud ==
  ASSUME TypeInv, CancelInv, [Next]_vars
  PROVE  \/ Quiet
         \/ /\ next' = next + 1 /\ active' = next + 1
            /\ UNCHANGED <<cancelled, loads>>
            /\ ~BetweenRequests'
         \/ /\ next' = next + 1 /\ active = 0
            /\ UNCHANGED <<active, cancelled, loads>>
         \/ /\ active' = 0
            /\ UNCHANGED <<next, cancelled, loads>>
         \/ /\ active # 0
            /\ loads' = loads \cup {active}
            /\ UNCHANGED <<active, next, cancelled, dpc>>
         \/ /\ \E g \in loads \cup {active} : cancelled' = Higher(cancelled, g)
            /\ loads' \subseteq loads
            /\ UNCHANGED <<active, next>>
            /\ BetweenRequests' => BetweenRequests
<1>1. CASE DrvRecv
  BY <1>1 DEF DrvRecv, BetweenRequests
<1>2. CASE DrvSkip
  BY <1>2 DEF DrvSkip, CancelInv, BetweenRequests
<1>3. CASE DrvRelease \/ DrvClose \/ DropConnection
  BY <1>3 DEF DrvRelease, DrvClose, DropConnection, GuardDrop
<1>4. CASE CancelLoad
  BY <1>4 DEF CancelLoad
<1>5. ASSUME NEW g \in loads, CancelRaise(g)
      PROVE  /\ cancelled' = Higher(cancelled, g)
             /\ loads' \subseteq loads
             /\ UNCHANGED <<active, next, dpc>>
  BY <1>5 DEF CancelRaise
<1>6. CASE DrvDeadline \/ DrvInterrupted \/ DrvAbandoned
  BY <1>6 DEF DrvDeadline, DrvInterrupted, DrvAbandoned, Interrupt, BetweenRequests
<1>7. CASE DropClients
  BY <1>7 DEF DropClients, Quiet, BetweenRequests, controlVars
<1>8. CASE UNCHANGED vars
  BY <1>8 DEF Quiet, BetweenRequests, vars, controlVars
<1>9. CASE Driver
  BY <1>1, <1>2, <1>3, <1>6, <1>9, DriverQuiet DEF Driver
<1>10. CASE \E g \in loads : CancelRaise(g)
  BY <1>5, <1>10 DEF BetweenRequests
<1> QED
  BY <1>3, <1>4, <1>7, <1>8, <1>9, <1>10, TaskQuiet, BackendQuiet DEF Next

\* The generation invariant is inductive.
LEMMA StepCancel ==
  ASSUME TypeInv, CancelInv, [Next]_vars PROVE CancelInv'
<1>1. /\ active \in Nat /\ next \in Nat /\ cancelled \in Nat /\ loads \subseteq Nat
  BY DEF TypeInv, TypeOK
<1>2. CASE Quiet
  BY <1>2 DEF Quiet, CancelInv
<1>3. CASE \E g \in loads \cup {active} : cancelled' = Higher(cancelled, g)
           /\ loads' \subseteq loads
           /\ UNCHANGED <<active, next>>
           /\ (BetweenRequests' => BetweenRequests)
  BY <1>1, <1>3 DEF CancelInv, Higher
<1>4. CASE /\ next' = next + 1 /\ active' = next + 1
           /\ UNCHANGED <<cancelled, loads>>
           /\ ~BetweenRequests'
  BY <1>1, <1>4 DEF CancelInv
<1>5. CASE /\ next' = next + 1 /\ active = 0
           /\ UNCHANGED <<active, cancelled, loads>>
  BY <1>1, <1>5 DEF CancelInv
<1>6. CASE /\ active' = 0
           /\ UNCHANGED <<next, cancelled, loads>>
  BY <1>1, <1>6 DEF CancelInv
<1>7. CASE /\ active # 0
           /\ loads' = loads \cup {active}
           /\ UNCHANGED <<active, next, cancelled, dpc>>
  BY <1>1, <1>7 DEF CancelInv, BetweenRequests
<1> QED
  BY <1>2, <1>3, <1>4, <1>5, <1>6, <1>7, Loud

\* Both invariants hold in every behaviour.
LEMMA CancelInvariant == Spec => [](TypeInv /\ CancelInv)
<1>1. Init => TypeInv /\ CancelInv
  <2>1. Init => TypeInv
    BY InitTypes
  <2>2. Init => active = 0 /\ next = 0 /\ cancelled = 0 /\ loads = {}
    BY DEF Init
  <2> QED
    BY <2>1, <2>2 DEF CancelInv
<1>2. TypeInv /\ CancelInv /\ [Next]_vars => TypeInv' /\ CancelInv'
  BY StepTypes, StepCancel
<1> QED
  BY <1>1, <1>2, PTL DEF Spec

\* run_connection never takes a request whose generation is already cancelled,
\* for any number of callers, cancel() calls and requests: a cancel() that
\* loaded an earlier generation, however late it runs, cannot hit it.
THEOREM CancelNeverEarly == Spec => StartsUncancelled
<1>1. ASSUME TypeInv, CancelInv, [Next]_vars
      PROVE  active' # active /\ active' # 0 => cancelled' < active'
  <2>1. next \in Nat /\ cancelled \in Nat
    BY <1>1 DEF TypeInv, TypeOK
  <2> QED
    BY <1>1, <2>1, Loud DEF CancelInv, Quiet
<1>2. TypeInv /\ CancelInv /\ [Next]_vars
        => [active' # active /\ active' # 0 => cancelled' < active']_vars
  BY <1>1
<1> QED
  BY <1>2, CancelInvariant, PTL DEF Spec, StartsUncancelled

\* A cancellation raised for the running statement stays raised until the
\* driver is done with it: fetch_max by a slower cancel() cannot take it back.
THEOREM CancelNeverLost == Spec => CancelSticks
<1>1. ASSUME TypeInv, CancelInv, [Next]_vars
      PROVE  active' = active /\ active # 0 /\ cancelled = active => cancelled' = cancelled
  <2>1. next \in Nat /\ cancelled \in Nat /\ active \in Nat /\ loads \subseteq Nat
    BY <1>1 DEF TypeInv, TypeOK
  <2> QED
    BY <1>1, <2>1, Loud DEF CancelInv, Quiet, Higher
<1>2. TypeInv /\ CancelInv /\ [Next]_vars
        => [active' = active /\ active # 0 /\ cancelled = active => cancelled' = cancelled]_vars
  BY <1>1
<1> QED
  BY <1>2, CancelInvariant, PTL DEF Spec, CancelSticks

-----------------------------------------------------------------------------
(* What the steps of a task leave alone *)

\* The request in hand stays what it is, but its caller may leave
SameRequest ==
  /\ cur'.task = cur.task /\ cur'.sql = cur.sql /\ cur'.lease = cur.lease
  /\ cur'.open => cur.open
SameQueue ==
  /\ DOMAIN queue' = DOMAIN queue
  /\ \A i \in DOMAIN queue : /\ queue'[i].task = queue[i].task
                             /\ queue'[i].sql = queue[i].sql
                             /\ queue'[i].lease = queue[i].lease
                             /\ queue'[i].open => queue[i].open

\* A request that loses its caller stays the same request.
LEMMA ForgetSame ==
  ASSUME TypeOK, NEW t \in Tasks, Forget(t)
  PROVE  /\ SameRequest /\ SameQueue
         /\ \A i \in DOMAIN queue : IF queue[i].task = t THEN ~queue'[i].open
                                                        ELSE queue'[i] = queue[i]
         /\ IF cur.task = t THEN ~cur'.open ELSE cur' = cur
<1>1. \A i \in DOMAIN queue : queue[i] \in Request
  BY ElementOfSeq, LenProperties DEF TypeOK
<1>2. \A r \in Request : LET s == [r EXCEPT !.open = FALSE]
                         IN s.task = r.task /\ s.sql = r.sql /\ s.lease = r.lease /\ ~s.open
  BY DEF Request
<1>3. DOMAIN queue' = DOMAIN queue
  BY DEF Forget
<1>4. \A i \in DOMAIN queue :
        queue'[i] = IF queue[i].task = t THEN [queue[i] EXCEPT !.open = FALSE] ELSE queue[i]
  BY DEF Forget
<1>5. SameQueue /\ \A i \in DOMAIN queue : IF queue[i].task = t THEN ~queue'[i].open
                                                             ELSE queue'[i] = queue[i]
  BY <1>1, <1>2, <1>3, <1>4 DEF SameQueue
<1>6. CASE cur.task = t
  <2>1. cur \in Request
    BY <1>6, DriverAssumption DEF TypeOK, DriverAssumption, NoRequest
  <2>2. cur' = [cur EXCEPT !.open = FALSE]
    BY <1>6 DEF Forget
  <2> QED
    BY <1>2, <1>5, <1>6, <2>1, <2>2 DEF SameRequest
<1>7. CASE cur.task # t
  BY <1>5, <1>7 DEF Forget, SameRequest
<1> QED
  BY <1>6, <1>7

\* No step of a task touches the driver, the backend or the flag.
LEMMA TaskKeeps ==
  ASSUME TypeOK, NEW t \in Tasks, TaskStep(t) \/ Caller(t) \/ RollbackTimeout(t)
  PROVE  /\ UNCHANGED <<active, transaction, rxOpen, dpc, sent, outcome, reusable, undecodable, sessTx>>
         /\ UNCHANGED <<alive, srvGen, srvReq, srvTx, rows, wire, packets>>
         /\ SameRequest
<1>1. CASE TaskStep(t)
  BY <1>1 DEF TaskStep, AcquireSession, AcquireFails, CheckNested, Reserve, Push, SendFails,
              ReceiveReply, CloseReturns, controlVars, chanVars, opVars, srvVars, SameRequest
<1>2. CASE Abandon(t) \/ RollbackTimeout(t)
  <2>1. /\ UNCHANGED <<active, transaction, rxOpen, dpc, sent, outcome, reusable, undecodable, sessTx>>
        /\ UNCHANGED <<alive, srvGen, srvReq, srvTx, rows, wire, packets>>
    BY <1>2 DEF Abandon, RollbackTimeout, srvVars
  <2>2. cur' = cur \/ Forget(t)
    BY <1>2 DEF Abandon, RollbackTimeout
  <2>3. SameRequest
    BY <2>2, ForgetSame DEF SameRequest
  <2> QED
    BY <2>1, <2>3
<1>3. CASE Caller(t) /\ ~Abandon(t)
  BY <1>3 DEF Caller, StartPlain, StartTransaction, StartInTransaction, EndTransaction,
              DropTransaction, DropWithoutRuntime, Close, controlVars, chanVars, opVars, srvVars,
              SameRequest
<1> QED
  BY <1>1, <1>2, <1>3 DEF Caller

-----------------------------------------------------------------------------
(* Responses and the requests they answer *)

Resting == dpc \in {"select", "recv", "parked", "probe"}
Busy == dpc \in {"run", "cancel", "cleanup"}
Finished == dpc \in {"reply", "release"}

\* The backend is idle and nothing of a response is left to be read
Drained == srvGen = 0 /\ \A i \in DOMAIN wire : wire[i].gen = 0

\* The end of a response is the last of it
EndIsLast ==
  \A i \in DOMAIN wire :
    wire[i].kind \in {"ok", "db"} =>
      /\ wire[i].gen # 0 /\ srvGen = 0
      /\ \A j \in DOMAIN wire : j > i => wire[j].gen = 0

WireInv ==
  /\ Resting => ~sent /\ Drained
  /\ Busy => /\ ~sent => Drained
             /\ srvGen \in {0, active}
             /\ \A i \in DOMAIN wire : wire[i].gen \in {0, active}
  /\ Finished /\ reusable => Drained
  /\ EndIsLast

\* A frame added to the wire is the last, and the others stay.
LEMMA WireGrows ==
  ASSUME TypeOK, NEW f \in Frame, wire' = Append(wire, f)
  PROVE  /\ Len(wire) \in Nat /\ DOMAIN wire = 1..Len(wire)
         /\ DOMAIN wire' = 1..(Len(wire) + 1)
         /\ \A i \in DOMAIN wire : i \in DOMAIN wire' /\ wire'[i] = wire[i]
         /\ wire'[Len(wire) + 1] = f
         /\ \A i \in DOMAIN wire' : i \in DOMAIN wire \/ i = Len(wire) + 1
<1>1. wire \in Seq(Frame)
  BY DEF TypeOK
<1>2. /\ wire' \in Seq(Frame) /\ Len(wire') = Len(wire) + 1
      /\ \A i \in 1..Len(wire) : wire'[i] = wire[i]
      /\ wire'[Len(wire) + 1] = f
  BY <1>1, AppendProperties
<1> QED
  BY <1>1, <1>2, LenProperties

\* A frame that is read was the first, and the others move up.
LEMMA WireShrinks ==
  ASSUME TypeOK, wire # <<>>, wire' = Tail(wire)
  PROVE  /\ Head(wire) = wire[1] /\ 1 \in DOMAIN wire /\ Head(wire) \in Frame
         /\ DOMAIN wire \subseteq Nat \ {0} /\ DOMAIN wire' \subseteq Nat \ {0}
         /\ \A i \in DOMAIN wire' : i + 1 \in DOMAIN wire /\ wire'[i] = wire[i + 1]
<1>1. wire \in Seq(Frame)
  BY DEF TypeOK
<1>2. /\ Len(wire) \in Nat \ {0} /\ DOMAIN wire = 1..Len(wire) /\ Head(wire) = wire[1]
      /\ Head(wire) \in Frame
      /\ Tail(wire) \in Seq(Frame) /\ Len(Tail(wire)) = Len(wire) - 1
      /\ \A i \in 1..Len(Tail(wire)) : Tail(wire)[i] = wire[i + 1]
  BY <1>1, HeadTailProperties, EmptySeq, LenProperties
<1>3. DOMAIN wire' = 1..(Len(wire) - 1)
  BY <1>2, LenProperties
<1> QED
  BY <1>2, <1>3

\* The loop of the driver keeps responses with their requests.
LEMMA DriverWire ==
  ASSUME TypeInv, WireInv, Driver \/ DropConnection PROVE WireInv'
<1> USE DEF WireInv, Resting, Busy, Finished
<1>0. ASSUME UNCHANGED <<srvGen, wire>> PROVE (Drained' <=> Drained) /\ (EndIsLast' <=> EndIsLast)
  BY <1>0 DEF Drained, EndIsLast
<1>1. CASE DrvPoll \/ DrvSkip \/ DrvRecvNone \/ DrvPark \/ DrvRecv
  <2>1. /\ dpc \in {"select", "parked", "recv"}
        /\ dpc' \in {"select", "recv", "parked", "probe", "run", "drain"}
        /\ UNCHANGED <<sent, reusable, srvGen, wire>>
    BY <1>1 DEF DrvPoll, DrvSkip, DrvRecvNone, DrvPark, DrvRecv, opVars, srvVars
  <2> QED
    BY <1>0, <2>1 DEF Drained
<1>2. CASE DrvProbe
  <2>1. dpc = "probe" /\ dpc' = "reply" /\ UNCHANGED <<srvGen, wire>>
    BY <1>2 DEF DrvProbe, srvVars
  <2> QED
    BY <1>0, <2>1
<1>3. CASE DrvDeadline \/ DrvInterrupted \/ DrvAbandoned \/ DrvSendCancel
  <2>1. dpc \in {"run", "cancel"} /\ dpc' \in {"cancel", "cleanup"}
        /\ UNCHANGED <<active, sent, srvGen, wire>>
    BY <1>3 DEF DrvDeadline, DrvInterrupted, DrvAbandoned, Interrupt, DrvSendCancel, controlVars,
                opVars, srvVars
  <2> QED
    BY <1>0, <2>1
<1>4. CASE DrvCleanupTimeout \/ DrvWriteFails
  <2>1. dpc' = "reply" /\ ~reusable' /\ UNCHANGED <<srvGen, wire>>
    <3>1. CASE DrvCleanupTimeout
      BY <3>1 DEF DrvCleanupTimeout, CleanupExpires, srvVars
    <3>2. CASE DrvWriteFails
      <4>1. ~KeepsSession("fatal")
        BY DEF KeepsSession
      <4> QED
        BY <3>2, <4>1 DEF DrvWriteFails, FutureDone, srvVars
    <3> QED BY <1>4, <3>1, <3>2
  <2> QED
    BY <1>0, <2>1
<1>5. CASE DrvWrite
  <2>1. /\ Busy /\ ~sent /\ sent' /\ srvGen' = active /\ UNCHANGED <<active, dpc, wire>>
    BY <1>5 DEF DrvWrite, Driving, controlVars
  <2>2. Drained
    BY <2>1
  <2>3. \A i \in DOMAIN wire : wire[i].kind \notin {"ok", "db"}
    BY <2>2 DEF Drained, EndIsLast
  <2>4. EndIsLast'
    BY <2>1, <2>3 DEF EndIsLast
  <2> QED
    BY <2>1, <2>2, <2>4 DEF Drained
<1>6. CASE DrvRead
  <2>1. /\ Busy /\ sent /\ wire # <<>> /\ wire' = Tail(wire) /\ UNCHANGED <<active, sent, srvGen>>
        /\ dpc' \in {dpc, "reply"}
    BY <1>6 DEF DrvRead, Driving, FutureDone, controlVars
  <2>2. /\ Head(wire) = wire[1] /\ 1 \in DOMAIN wire
        /\ DOMAIN wire \subseteq Nat \ {0} /\ DOMAIN wire' \subseteq Nat \ {0}
        /\ \A i \in DOMAIN wire' : i + 1 \in DOMAIN wire /\ wire'[i] = wire[i + 1]
    BY <2>1, WireShrinks DEF TypeInv
  <2>3. EndIsLast'
    <3> SUFFICES ASSUME NEW i \in DOMAIN wire', wire'[i].kind \in {"ok", "db"}
                 PROVE  /\ wire'[i].gen # 0 /\ srvGen' = 0
                        /\ \A j \in DOMAIN wire' : j > i => wire'[j].gen = 0
      BY DEF EndIsLast
    <3>1. i + 1 \in DOMAIN wire /\ wire'[i] = wire[i + 1]
      BY <2>2
    <3>2. wire[i + 1].gen # 0 /\ srvGen = 0 /\ \A j \in DOMAIN wire : j > i + 1 => wire[j].gen = 0
      BY <3>1 DEF EndIsLast
    <3>3. ASSUME NEW j \in DOMAIN wire', j > i PROVE wire'[j].gen = 0
      <4>1. j + 1 \in DOMAIN wire /\ wire'[j] = wire[j + 1] /\ j + 1 > i + 1
        BY <2>2, <3>3
      <4> QED
        BY <3>2, <4>1
    <3> QED
      BY <2>1, <3>1, <3>2, <3>3
  <2>4. CASE dpc' # "reply"
    <3>1. Busy' /\ sent'
      BY <2>1, <2>4
    <3> QED
      BY <2>1, <2>2, <2>3, <3>1
  <2>5. CASE dpc' = "reply"
    <3>1. reusable' => Head(wire).kind \in {"ok", "db"}
      BY <1>6, <2>1, <2>5 DEF DrvRead, FutureDone, KeepsSession
    <3>2. ASSUME reusable' PROVE Drained'
      <4>1. srvGen = 0 /\ \A j \in DOMAIN wire : j > 1 => wire[j].gen = 0
        BY <2>2, <3>1, <3>2 DEF EndIsLast
      <4>2. \A i \in DOMAIN wire' : i + 1 > 1
        BY <2>2
      <4> QED
        BY <2>1, <2>2, <4>1, <4>2 DEF Drained
    <3> QED
      BY <2>3, <2>5, <3>2
  <2> QED BY <2>4, <2>5
<1>7. CASE DrvReply
  <2>1. dpc = "reply" /\ dpc' = "release" /\ UNCHANGED <<reusable, srvGen, wire>>
    BY <1>7 DEF DrvReply, srvVars
  <2> QED
    BY <1>0, <2>1
<1>8. CASE DrvRelease
  <2>1. /\ dpc = "release" /\ (dpc' = "drain" \/ (dpc' = "select" /\ reusable))
        /\ ~sent' /\ UNCHANGED <<srvGen, wire>>
    BY <1>8 DEF DrvRelease, srvVars
  <2> QED
    BY <1>0, <2>1
<1>9. CASE DrvDrainOne \/ DrvDrained
  <2>1. dpc' \in {"drain", "close"} /\ UNCHANGED <<srvGen, wire>>
    BY <1>9 DEF DrvDrainOne, DrvDrained, srvVars
  <2> QED
    BY <1>0, <2>1
<1>10. CASE DrvClose \/ DropConnection
  <2>1. dpc' = "done" /\ wire' = <<>>
    BY <1>10 DEF DrvClose, DropConnection, Disconnect
  <2>2. DOMAIN wire' = {}
    BY <2>1
  <2> QED
    BY <2>1, <2>2 DEF EndIsLast
<1> QED
  BY <1>1, <1>2, <1>3, <1>4, <1>5, <1>6, <1>7, <1>8, <1>9, <1>10 DEF Driver

\* Whatever the backend sends is of the statement it executes, or stray.
LEMMA BackendWire ==
  ASSUME TypeInv, WireInv, Backend PROVE WireInv'
<1>0. UNCHANGED <<dpc, sent, active, reusable>> /\ srvGen' \in {srvGen, 0}
  BY DEF Backend, SrvRow, SrvOk, SrvError, SrvCancel, SrvFinish, SrvDie, SrvStray, opVars, controlVars
<1>1. CASE UNCHANGED <<srvGen, wire>>
  BY <1>0, <1>1 DEF WireInv, Resting, Busy, Finished, Drained, EndIsLast
<1>2. ASSUME NEW f \in Frame, wire' = Append(wire, f), f.gen = srvGen,
             f.kind \in {"ok", "db"} => srvGen # 0 /\ srvGen' = 0
      PROVE  WireInv'
  <2>1. /\ Len(wire) \in Nat /\ DOMAIN wire = 1..Len(wire)
        /\ DOMAIN wire' = 1..(Len(wire) + 1)
        /\ \A i \in DOMAIN wire : i \in DOMAIN wire' /\ wire'[i] = wire[i]
        /\ wire'[Len(wire) + 1] = f
        /\ \A i \in DOMAIN wire' : i \in DOMAIN wire \/ i = Len(wire) + 1
    BY <1>2, WireGrows DEF TypeInv
  <2>2. Drained => Drained'
    BY <1>0, <1>2, <2>1 DEF Drained
  <2>3. EndIsLast'
    <3>1. CASE srvGen = 0
      BY <1>0, <1>2, <2>1, <3>1 DEF WireInv, EndIsLast
    <3>2. CASE srvGen # 0
      <4>1. \A i \in DOMAIN wire : wire[i].kind \notin {"ok", "db"}
        BY <3>2 DEF WireInv, EndIsLast
      <4> QED
        BY <1>2, <2>1, <4>1 DEF EndIsLast
    <3> QED BY <3>1, <3>2
  <2>4. Busy => \A i \in DOMAIN wire' : wire'[i].gen \in {0, active}
    BY <1>2, <2>1 DEF WireInv
  <2> QED
    BY <1>0, <2>2, <2>3, <2>4 DEF WireInv, Resting, Busy, Finished
<1>3. ASSUME NEW k \in {"row", "bad", "torn", "ok", "db", "eof", "stray"},
             wire' = Append(wire, [gen |-> srvGen, kind |-> k]),
             k \in {"ok", "db"} => srvGen # 0 /\ srvGen' = 0
      PROVE  WireInv'
  <2>1. [gen |-> srvGen, kind |-> k] \in Frame
    BY DEF Frame, TypeInv, TypeOK
  <2> QED
    BY <1>2, <1>3, <2>1
<1>4. CASE SrvRow
  <2>1. \E k \in {"row", "bad", "torn"} : wire' = Append(wire, [gen |-> srvGen, kind |-> k])
    BY <1>4 DEF SrvRow
  <2> QED
    BY <1>3, <2>1
<1>5. CASE SrvOk \/ SrvError \/ (\E p \in packets : SrvCancel(p))
  <2>1. \/ \E k \in {"ok", "db"} : SrvFinish(k) /\ srvGen # 0
        \/ UNCHANGED <<srvGen, wire>>
    BY <1>5 DEF SrvOk, SrvError, SrvCancel
  <2> QED
    BY <1>1, <1>3, <2>1 DEF SrvFinish
<1>6. CASE SrvDie
  BY <1>3, <1>6 DEF SrvDie
<1>7. CASE SrvStray
  <2>1. srvGen = 0 /\ wire' = Append(wire, [gen |-> srvGen, kind |-> "stray"])
    BY <1>7 DEF SrvStray
  <2> QED
    BY <1>3, <2>1
<1> QED
  BY <1>4, <1>5, <1>6, <1>7 DEF Backend

\* No step mixes the responses of two requests.
LEMMA StepWire ==
  ASSUME TypeInv, WireInv, [Next]_vars PROVE WireInv'
<1>1. ASSUME UNCHANGED <<active, dpc, sent, reusable, srvGen, wire>> PROVE WireInv'
  BY <1>1 DEF WireInv, Resting, Busy, Finished, Drained, EndIsLast
<1>2. CASE UNCHANGED vars
  BY <1>1, <1>2 DEF vars, controlVars, opVars, srvVars
<1>3. CASE DropClients \/ CancelLoad \/ \E g \in loads : CancelRaise(g)
  BY <1>1, <1>3 DEF DropClients, CancelLoad, CancelRaise, controlVars, opVars, srvVars
<1>4. ASSUME NEW t \in Tasks, TaskStep(t) \/ Caller(t) \/ RollbackTimeout(t) PROVE WireInv'
  BY <1>1, <1>4, TaskKeeps DEF TypeInv
<1> QED
  BY <1>2, <1>3, <1>4, DriverWire, BackendWire DEF Next

\* A new session has nothing on the wire.
LEMMA InitWire ==
  ASSUME Init PROVE WireInv
<1>1. DOMAIN wire = {}
  BY DEF Init
<1> QED
  BY <1>1 DEF Init, WireInv, Resting, Busy, Finished, Drained, EndIsLast

\* A request reads its own response and nothing of an earlier one, for any
\* number of callers and requests, and whatever was cancelled, timed out,
\* abandoned, undecodable or refused before: this is what `reusable` means.
THEOREM DriverResponses == Spec => []ResponseBelongsToRequest
<1>1. Init => TypeInv /\ WireInv
  BY InitTypes, InitWire
<1>2. (TypeInv /\ WireInv) /\ [Next]_vars => (TypeInv /\ WireInv)'
  BY StepTypes, StepWire
<1>3. TypeInv /\ WireInv => ResponseBelongsToRequest
  BY DEF WireInv, Resting, Busy, Drained, ResponseBelongsToRequest, Driving
<1> QED
  BY <1>1, <1>2, <1>3, PTL DEF Spec

-----------------------------------------------------------------------------
(* The transaction flag *)

\* The session's own flag agrees with a backend that is alive
Truth == alive => (sessTx <=> srvTx # NoTx)

\* What the backend executes is the request in hand
Executes ==
  srvGen # 0 =>
    /\ srvReq \in Request
    /\ Busy => srvReq.task = cur.task /\ srvReq.sql = cur.sql /\ srvReq.lease = cur.lease

\* A probe has no response, and only a probe skips the copy into Control
FlagCopied ==
  /\ dpc = "probe" => cur.sql = "probe"
  /\ Busy => cur.sql # "probe"
  /\ Resting \/ dpc = "release" \/ (dpc = "reply" /\ cur.sql = "probe") => transaction = sessTx

\* An end on the wire says how the flag will have to change
FramesTell ==
  Busy => \A i \in DOMAIN wire :
            /\ wire[i].kind = "db" => Truth
            /\ wire[i].kind = "ok" /\ alive => (TagEffect(cur.sql, sessTx) <=> srvTx # NoTx)

FlagInv ==
  /\ Executes /\ FlagCopied /\ FramesTell
  /\ Resting \/ (Busy /\ (~sent \/ srvGen # 0)) \/ (Finished /\ reusable) => Truth

\* A statement that succeeds changes the backend as its tag says.
LEMMA OkTells ==
  ASSUME srvReq \in Request, srvReq.sql = "begin" => srvTx = NoTx, sessTx \in BOOLEAN,
         sessTx <=> srvTx # NoTx
  PROVE  TagEffect(srvReq.sql, sessTx) <=> SrvTxAfter # NoTx
<1>1. CASE srvReq.sql = "begin"
  <2>1. SrvTxAfter = [task |-> srvReq.task, guarded |-> ~srvReq.lease]
    BY <1>1 DEF SrvTxAfter
  <2>2. srvReq.task # "none"
    BY DriverAssumption DEF DriverAssumption, Request
  <2>3. SrvTxAfter # NoTx
    BY <2>1, <2>2 DEF NoTx
  <2> QED
    BY <1>1, <2>3 DEF TagEffect
<1>2. CASE srvReq.sql \in {"commit", "rollback"}
  BY <1>2 DEF TagEffect, SrvTxAfter
<1>3. CASE srvReq.sql \notin {"begin", "commit", "rollback"}
  BY <1>3 DEF TagEffect, SrvTxAfter
<1> QED
  BY <1>1, <1>2, <1>3

\* Taking a request, up to the packet
LEMMA LoopFlag ==
  ASSUME TypeInv, WireInv, FlagInv,
         \/ DrvPoll \/ DrvSkip \/ DrvRecvNone \/ DrvPark \/ DrvRecv \/ DrvProbe
         \/ DrvDeadline \/ DrvInterrupted \/ DrvAbandoned \/ DrvSendCancel \/ DrvWrite
  PROVE  FlagInv'
<1> USE DEF Resting, Busy, Finished
<1>1. UNCHANGED <<alive, srvTx, wire, sessTx, transaction>>
  BY DEF DrvPoll, DrvSkip, DrvRecvNone, DrvPark, DrvRecv, DrvProbe, DrvDeadline, DrvInterrupted,
         DrvAbandoned, Interrupt, DrvSendCancel, DrvWrite, srvVars, controlVars
<1>2. Truth' <=> Truth
  BY <1>1 DEF Truth
<1>3. CASE DrvPoll \/ DrvSkip \/ DrvRecvNone \/ DrvPark
  <2>1. /\ dpc \in {"select", "recv", "parked"} /\ dpc' \in {"select", "recv", "parked", "drain"}
        /\ UNCHANGED <<srvGen, srvReq>>
    BY <1>3 DEF DrvPoll, DrvSkip, DrvRecvNone, DrvPark, srvVars
  <2> QED
    BY <1>1, <1>2, <2>1 DEF FlagInv, Executes, FlagCopied, FramesTell
<1>4. CASE DrvRecv
  <2>1. /\ dpc = "recv" /\ cur' = Head(queue) /\ UNCHANGED <<sent, srvGen, srvReq>>
        /\ dpc' = IF Head(queue).sql = "probe" THEN "probe" ELSE "run"
    BY <1>4 DEF DrvRecv, srvVars
  <2>2. ~sent /\ srvGen = 0 /\ \A i \in DOMAIN wire : wire[i].kind \notin {"ok", "db"}
    BY <2>1 DEF WireInv, Drained, EndIsLast
  <2> QED
    BY <1>1, <1>2, <2>1, <2>2 DEF FlagInv, Executes, FlagCopied, FramesTell
<1>5. CASE DrvProbe
  <2>1. dpc = "probe" /\ dpc' = "reply" /\ UNCHANGED <<cur, srvGen, srvReq>>
    BY <1>5 DEF DrvProbe, srvVars
  <2> QED
    BY <1>1, <1>2, <2>1 DEF FlagInv, Executes, FlagCopied, FramesTell
<1>6. CASE DrvDeadline \/ DrvInterrupted \/ DrvAbandoned \/ DrvSendCancel
  <2>1. /\ dpc \in {"run", "cancel"} /\ dpc' \in {"cancel", "cleanup"}
        /\ UNCHANGED <<cur, sent, srvGen, srvReq>>
    BY <1>6 DEF DrvDeadline, DrvInterrupted, DrvAbandoned, Interrupt, DrvSendCancel, opVars, srvVars
  <2> QED
    BY <1>1, <1>2, <2>1 DEF FlagInv, Executes, FlagCopied, FramesTell
<1>7. CASE DrvWrite
  <2>1. Busy /\ ~sent /\ sent' /\ srvReq' = [cur EXCEPT !.open = TRUE] /\ UNCHANGED <<cur, dpc>>
    BY <1>7 DEF DrvWrite, Driving
  <2>2. cur \in Request
    BY <2>1 DEF TypeInv, CurKnown
  <2>3. srvReq' \in Request /\ srvReq'.task = cur.task /\ srvReq'.sql = cur.sql /\ srvReq'.lease = cur.lease
    BY <2>1, <2>2 DEF Request
  <2>4. Truth
    BY <2>1 DEF FlagInv
  <2>5. \A i \in DOMAIN wire : wire[i].kind \notin {"ok", "db"}
    BY <2>1 DEF WireInv, Drained, EndIsLast
  <2> QED
    BY <1>1, <1>2, <2>1, <2>3, <2>4, <2>5 DEF FlagInv, Executes, FlagCopied, FramesTell
<1> QED
  BY <1>3, <1>4, <1>5, <1>6, <1>7

\* Reading the response, answering it, and going on or shutting down
LEMMA ReplyFlag ==
  ASSUME TypeInv, WireInv, FlagInv,
         \/ DrvCleanupTimeout \/ DrvWriteFails \/ DrvRead \/ DrvReply \/ DrvRelease
         \/ DrvDrainOne \/ DrvDrained \/ DrvClose \/ DropConnection
  PROVE  FlagInv'
<1> USE DEF Resting, Busy, Finished
<1>1. CASE DrvCleanupTimeout \/ DrvWriteFails
  <2>1. /\ dpc \in {"run", "cancel", "cleanup"} /\ dpc' = "reply" /\ ~reusable'
        /\ UNCHANGED <<cur, srvGen, srvReq>>
    <3>1. CASE DrvCleanupTimeout
      BY <3>1 DEF DrvCleanupTimeout, UnderCleanupTimeout, CleanupExpires, srvVars
    <3>2. CASE DrvWriteFails
      <4>1. ~KeepsSession("fatal")
        BY DEF KeepsSession
      <4> QED
        BY <3>2, <4>1 DEF DrvWriteFails, Driving, FutureDone, srvVars
    <3> QED BY <1>1, <3>1, <3>2
  <2> QED
    BY <2>1 DEF FlagInv, Executes, FlagCopied, FramesTell
<1>2. CASE DrvRead
  <2>1. /\ Busy /\ sent /\ wire # <<>> /\ wire' = Tail(wire)
        /\ UNCHANGED <<sent, cur, alive, srvGen, srvReq, srvTx>>
        /\ dpc' \in {dpc, "reply"}
    BY <1>2 DEF DrvRead, Driving, FutureDone
  <2>2. /\ Head(wire) = wire[1] /\ 1 \in DOMAIN wire
        /\ \A i \in DOMAIN wire' : i + 1 \in DOMAIN wire /\ wire'[i] = wire[i + 1]
    BY <2>1, WireShrinks DEF TypeInv
  <2>3. Executes'
    BY <2>1 DEF FlagInv, Executes
  <2>4. CASE dpc' # "reply"
    <3>1. sessTx' = sessTx /\ dpc' = dpc
      BY <1>2, <2>1, <2>4 DEF DrvRead, FutureDone
    <3>2. Truth' <=> Truth
      BY <2>1, <3>1 DEF Truth
    <3>3. FramesTell'
      BY <2>1, <2>2, <3>1, <3>2 DEF FlagInv, FramesTell
    <3> QED
      BY <2>1, <2>3, <3>1, <3>2, <3>3 DEF FlagInv, FlagCopied
  <2>5. CASE dpc' = "reply"
    <3>1. FlagCopied' /\ FramesTell'
      BY <2>1, <2>5 DEF FlagInv, FlagCopied, FramesTell
    <3>2. ASSUME reusable' PROVE Truth'
      <4>1. \/ Head(wire).kind = "ok" /\ sessTx' = TagEffect(cur.sql, sessTx)
            \/ Head(wire).kind = "db" /\ sessTx' = sessTx
        BY <1>2, <2>1, <2>5, <3>2 DEF DrvRead, FutureDone, KeepsSession
      <4>2. CASE Head(wire).kind = "ok" /\ sessTx' = TagEffect(cur.sql, sessTx)
        BY <2>1, <2>2, <4>2 DEF FlagInv, FramesTell, Truth
      <4>3. CASE Head(wire).kind = "db" /\ sessTx' = sessTx
        BY <2>1, <2>2, <4>3 DEF FlagInv, FramesTell, Truth
      <4> QED BY <4>1, <4>2, <4>3
    <3> QED
      BY <2>3, <2>5, <3>1, <3>2 DEF FlagInv
  <2> QED BY <2>4, <2>5
<1>3. CASE DrvReply
  <2>1. /\ dpc = "reply" /\ dpc' = "release" /\ UNCHANGED <<reusable, sessTx, alive, srvGen, srvReq, srvTx>>
        /\ transaction' = IF cur.sql = "probe" THEN transaction ELSE sessTx
    BY <1>3 DEF DrvReply, srvVars
  <2> QED
    BY <2>1 DEF FlagInv, Executes, FlagCopied, FramesTell, Truth
<1>4. CASE DrvRelease
  <2>1. /\ dpc = "release" /\ (dpc' = "drain" \/ (dpc' = "select" /\ reusable))
        /\ UNCHANGED <<transaction, sessTx, alive, srvGen, srvReq, srvTx>>
    BY <1>4 DEF DrvRelease, srvVars
  <2> QED
    BY <2>1 DEF FlagInv, Executes, FlagCopied, FramesTell, Truth
<1>5. CASE DrvDrainOne \/ DrvDrained
  <2>1. dpc \in {"drain"} /\ dpc' \in {"drain", "close"} /\ UNCHANGED <<srvGen, srvReq>>
    BY <1>5 DEF DrvDrainOne, DrvDrained, srvVars
  <2> QED
    BY <2>1 DEF FlagInv, Executes, FlagCopied, FramesTell
<1>6. CASE DrvClose \/ DropConnection
  <2>1. dpc' = "done" /\ srvGen' = 0
    BY <1>6 DEF DrvClose, DropConnection, Disconnect
  <2> QED
    BY <2>1 DEF FlagInv, Executes, FlagCopied, FramesTell
<1> QED
  BY <1>1, <1>2, <1>3, <1>4, <1>5, <1>6

\* The backend
LEMMA BackendFlag ==
  ASSUME TypeInv, WireInv, FlagInv, Backend
  PROVE  FlagInv'
<1> USE DEF Resting, Busy, Finished
<1>0. UNCHANGED <<dpc, cur, sent, reusable, sessTx, transaction>>
  BY DEF Backend, SrvRow, SrvOk, SrvError, SrvCancel, SrvDie, SrvStray, opVars, controlVars
<1>1. FlagCopied'
  BY <1>0 DEF FlagInv, FlagCopied
<1>2. ASSUME NEW f \in Frame, wire' = Append(wire, f)
      PROVE  \A i \in DOMAIN wire' : (i \in DOMAIN wire /\ wire'[i] = wire[i]) \/ wire'[i] = f
  BY <1>2, WireGrows DEF TypeInv
<1>3. \A k \in {"row", "bad", "torn", "ok", "db", "eof", "stray"} : [gen |-> srvGen, kind |-> k] \in Frame
  BY DEF Frame, TypeInv, TypeOK
<1>4. CASE SrvRow
  <2>1. PICK k \in {"row", "bad", "torn"} : wire' = Append(wire, [gen |-> srvGen, kind |-> k])
    BY <1>4 DEF SrvRow
  <2>2. srvGen # 0 /\ UNCHANGED <<alive, srvGen, srvReq, srvTx>>
    BY <1>4 DEF SrvRow
  <2>3. \A i \in DOMAIN wire' : (i \in DOMAIN wire /\ wire'[i] = wire[i]) \/ wire'[i].kind = k
    BY <1>2, <1>3, <2>1
  <2>4. Truth' <=> Truth
    BY <1>0, <2>2 DEF Truth
  <2> QED
    BY <1>0, <1>1, <2>2, <2>3, <2>4 DEF FlagInv, Executes, FramesTell
<1>5. CASE SrvOk
  <2>1. /\ srvGen # 0 /\ (srvReq.sql = "begin" => srvTx = NoTx) /\ srvTx' = SrvTxAfter
        /\ srvGen' = 0 /\ wire' = Append(wire, [gen |-> srvGen, kind |-> "ok"]) /\ alive' = alive
    BY <1>5 DEF SrvOk, SrvFinish
  <2>2. ~Resting /\ ~(Finished /\ reusable) /\ (Busy => sent)
    BY <2>1 DEF WireInv, Drained
  <2>3. \A i \in DOMAIN wire' : (i \in DOMAIN wire /\ wire'[i] = wire[i]) \/ wire'[i].kind = "ok"
    BY <1>2, <1>3, <2>1
  <2>4. \A i \in DOMAIN wire : wire[i].kind \notin {"ok", "db"}
    BY <2>1 DEF WireInv, EndIsLast
  <2>5. ASSUME Busy, alive PROVE TagEffect(cur.sql, sessTx) <=> srvTx' # NoTx
    <3>1. srvReq \in Request /\ srvReq.sql = cur.sql /\ (sessTx <=> srvTx # NoTx)
      BY <2>1, <2>5 DEF FlagInv, Executes, Truth
    <3>2. sessTx \in BOOLEAN
      BY DEF TypeInv, TypeOK
    <3> QED
      BY <2>1, <3>1, <3>2, OkTells
  <2>6. FramesTell'
    BY <1>0, <2>1, <2>3, <2>4, <2>5 DEF FramesTell
  <2> QED
    BY <1>0, <1>1, <2>1, <2>2, <2>6 DEF FlagInv, Executes
<1>6. CASE SrvError \/ (\E p \in packets : SrvCancel(p))
  <2>1. CASE UNCHANGED <<srvGen, srvReq, wire>>
    <3>1. UNCHANGED <<alive, srvTx>>
      BY <1>6 DEF SrvError, SrvCancel
    <3> QED
      BY <1>0, <1>1, <2>1, <3>1 DEF FlagInv, Executes, FramesTell, Truth
  <2>2. CASE ~UNCHANGED <<srvGen, srvReq, wire>>
    <3>1. /\ srvGen # 0 /\ srvGen' = 0 /\ wire' = Append(wire, [gen |-> srvGen, kind |-> "db"])
          /\ UNCHANGED <<alive, srvTx>>
      BY <1>6, <2>2 DEF SrvError, SrvCancel, SrvFinish
    <3>2. \A i \in DOMAIN wire' : (i \in DOMAIN wire /\ wire'[i] = wire[i]) \/ wire'[i].kind = "db"
      BY <1>2, <1>3, <3>1
    <3>3. Truth' <=> Truth
      BY <1>0, <3>1 DEF Truth
    <3>4. Busy => Truth
      BY <3>1 DEF FlagInv
    <3>5. FramesTell'
      BY <1>0, <3>1, <3>2, <3>3, <3>4 DEF FlagInv, FramesTell
    <3>6. Executes'
      BY <3>1 DEF Executes
    <3> QED
      BY <1>0, <1>1, <3>1, <3>3, <3>4, <3>5, <3>6 DEF FlagInv
  <2> QED BY <2>1, <2>2
<1>7. CASE SrvDie
  <2>1. ~alive' /\ srvGen' = 0
    BY <1>7 DEF SrvDie
  <2> QED
    BY <1>1, <2>1 DEF FlagInv, Executes, FramesTell, Truth
<1>8. CASE SrvStray
  <2>1. wire' = <<[gen |-> 0, kind |-> "stray"]>> /\ UNCHANGED <<alive, srvGen, srvReq, srvTx>>
    BY <1>8 DEF SrvStray
  <2>2. \A i \in DOMAIN wire' : wire'[i].kind = "stray"
    BY <2>1
  <2> QED
    BY <1>0, <1>1, <2>1, <2>2 DEF FlagInv, Executes, FramesTell, Truth
<1> QED
  BY <1>4, <1>5, <1>6, <1>7, <1>8 DEF Backend

\* Every step keeps the flag and the backend in agreement.
LEMMA StepFlag ==
  ASSUME TypeInv, WireInv, FlagInv, [Next]_vars PROVE FlagInv'
<1>1. ASSUME UNCHANGED <<transaction, dpc, sent, reusable, sessTx, alive, srvGen, srvReq, srvTx, wire>>,
             cur'.task = cur.task /\ cur'.sql = cur.sql /\ cur'.lease = cur.lease
      PROVE  FlagInv'
  BY <1>1 DEF FlagInv, Executes, FlagCopied, FramesTell, Truth, Resting, Busy, Finished
<1>2. CASE UNCHANGED vars
  BY <1>1, <1>2 DEF vars, controlVars, opVars, srvVars
<1>3. CASE DropClients \/ CancelLoad \/ \E g \in loads : CancelRaise(g)
  BY <1>1, <1>3 DEF DropClients, CancelLoad, CancelRaise, controlVars, opVars, srvVars
<1>4. ASSUME NEW t \in Tasks, TaskStep(t) \/ Caller(t) \/ RollbackTimeout(t) PROVE FlagInv'
  BY <1>1, <1>4, TaskKeeps DEF TypeInv, SameRequest
<1> QED
  BY <1>2, <1>3, <1>4, LoopFlag, ReplyFlag, BackendFlag DEF Next, Driver

\* A new session has no transaction.
LEMMA InitFlag ==
  ASSUME Init PROVE FlagInv
  BY DEF Init, FlagInv, Executes, FlagCopied, FramesTell, Truth, Resting, Busy, Finished

\* Between requests, Client::in_transaction() agrees with a backend that is
\* alive, for any number of callers and requests: also after statements whose
\* caller left or was told Cancelled, Timeout or a decode error.
THEOREM DriverFlag == Spec => []FlagTellsTruth
<1> DEFINE I == TypeInv /\ WireInv /\ FlagInv
<1>1. Init => I
  BY InitTypes, InitWire, InitFlag
<1>2. I /\ [Next]_vars => I'
  BY StepTypes, StepWire, StepFlag
<1>3. I => FlagTellsTruth
  BY DEF FlagInv, FlagCopied, Truth, Resting, FlagTellsTruth
<1> QED
  BY <1>1, <1>2, <1>3, PTL DEF Spec

-----------------------------------------------------------------------------
(* The session mutex *)

IsCaller(t) == txn[t] = "none" /\ pc[t] \in {"send", "reserved"}
IsGuard(t) == txn[t] # "none" /\ pc[t] # "lock"

\* x owns the session in this role, and nobody else owns it in any
Owner(role, x) ==
  /\ \A t \in Tasks : /\ IsCaller(t) <=> role = "caller" /\ t = x
                      /\ IsGuard(t) <=> role = "guard" /\ t = x
  /\ \A i \in DOMAIN queue : queue[i].lease <=> role = "request" /\ i = x
  /\ cur.lease <=> role = "driver"

\* The lease of a request in hand would be lost if another was taken
LeaseInv ==
  /\ ~session => Owner("nobody", 0)
  /\ session => \/ Owner("driver", 0)
                \/ \E t \in Tasks : Owner("caller", t) \/ Owner("guard", t)
                \/ \E i \in DOMAIN queue : Owner("request", i)
  /\ \A t \in Tasks : pc[t] = "check" => txn[t] = "opening"
  /\ dpc \in {"select", "recv", "parked", "drain", "close", "done"} => cur = NoRequest

\* The part of a step that concerns task t only
Others(t) == \A u \in Tasks : u # t => pc'[u] = pc[u] /\ txn'[u] = txn[u]
SameLeases ==
  /\ DOMAIN queue' = DOMAIN queue
  /\ \A i \in DOMAIN queue : queue'[i].lease = queue[i].lease
  /\ cur'.lease = cur.lease

\* A step in which task t neither gets nor loses the session
LEMMA LeaseStays ==
  ASSUME LeaseInv, NEW t \in Tasks, Others(t), SameLeases, session' = session,
         IsCaller(t)' <=> IsCaller(t), IsGuard(t)' <=> IsGuard(t),
         pc'[t] = "check" => txn'[t] = "opening",
         dpc' = dpc, cur = NoRequest => cur' = NoRequest
  PROVE  LeaseInv'
<1>1. \A u \in Tasks : (IsCaller(u)' <=> IsCaller(u)) /\ (IsGuard(u)' <=> IsGuard(u))
  BY DEF Others, IsCaller, IsGuard
<1>2. \A role, x : Owner(role, x) => Owner(role, x)'
  BY <1>1 DEF Owner, SameLeases
<1>3. \A u \in Tasks : pc'[u] = "check" => txn'[u] = "opening"
  BY DEF LeaseInv, Others
<1> QED
  BY <1>2, <1>3 DEF LeaseInv, SameLeases

\* An owner is the only one, in the only role.
LEMMA OneOwner ==
  ASSUME LeaseInv, NEW t \in Tasks, IsCaller(t) \/ IsGuard(t)
  PROVE  /\ session
         /\ IsCaller(t) => Owner("caller", t)
         /\ IsGuard(t) => Owner("guard", t)
<1>1. ~Owner("nobody", 0) /\ ~Owner("driver", 0) /\ \A i : ~Owner("request", i)
  BY DEF Owner
<1>2. \A u \in Tasks : (Owner("caller", u) => u = t) /\ (Owner("guard", u) => u = t)
  BY DEF Owner
<1>3. ~(IsCaller(t) /\ IsGuard(t))
  BY DEF IsCaller, IsGuard
<1>4. (IsCaller(t) => ~Owner("guard", t)) /\ (IsGuard(t) => ~Owner("caller", t))
  BY DEF Owner
<1> QED
  BY <1>1, <1>2, <1>3, <1>4 DEF LeaseInv

\* An owner that ends its call, or its Transaction, frees the session.
LEMMA LeaseFreed ==
  ASSUME LeaseInv, NEW t \in Tasks, IsCaller(t) \/ IsGuard(t), Others(t), SameLeases,
         session' = FALSE, txn'[t] = "none", pc'[t] = "idle",
         dpc' = dpc, cur = NoRequest => cur' = NoRequest
  PROVE  LeaseInv'
<1>1. Owner("caller", t) \/ Owner("guard", t)
  BY OneOwner
<1>2. \A u \in Tasks : ~IsCaller(u)' /\ ~IsGuard(u)'
  BY <1>1 DEF Owner, Others, IsCaller, IsGuard
<1>3. Owner("nobody", 0)'
  BY <1>1, <1>2 DEF Owner, SameLeases
<1>4. \A u \in Tasks : pc'[u] = "check" => txn'[u] = "opening"
  BY DEF LeaseInv, Others
<1> QED
  BY <1>3, <1>4 DEF LeaseInv

\* However the call of a guard ends, its guard is kept or the session freed.
LEMMA SettleLease ==
  ASSUME TypeInv, LeaseInv, NEW t \in Tasks, NEW ok, Settle(t, ok), SameLeases,
         pc[t] \in {"send", "wait"}, pc[t] = "send" => txn[t] # "none",
         dpc' = dpc, cur = NoRequest => cur' = NoRequest
  PROVE  LeaseInv'
<1>0. t \in DOMAIN pc /\ t \in DOMAIN txn
  BY DEF TypeInv, TypeOK
<1>1. CASE txn[t] \in {"none", "held"} /\ Return(t) /\ UNCHANGED <<txn, session>>
  BY <1>0, <1>1, LeaseStays DEF Return, Others, IsCaller, IsGuard
<1>2. CASE txn[t] = "opening" /\ Return(t) /\ txn' = [txn EXCEPT ![t] = "held"] /\ session' = session
  BY <1>0, <1>2, LeaseStays DEF Return, Others, IsCaller, IsGuard
<1>3. CASE txn[t] # "none" /\ Return(t) /\ txn' = [txn EXCEPT ![t] = "none"] /\ session' = FALSE
  <2>1. Others(t) /\ txn'[t] = "none" /\ pc'[t] = "idle"
    BY <1>0, <1>3 DEF Return, Others
  <2> QED
    BY <1>3, <2>1, LeaseFreed DEF IsGuard
<1>4. CASE txn[t] # "none" /\ BecomeRollback(t) /\ session' = session
  BY <1>0, <1>4, LeaseStays DEF BecomeRollback, Others, IsCaller, IsGuard
<1> QED
  BY <1>1, <1>2, <1>3, <1>4 DEF Settle, StopAndRelease

\* A queue that keeps its requests keeps their leases.
LEMMA ForgetLeases ==
  ASSUME TypeOK, NEW t \in Tasks, Forget(t)
  PROVE  SameLeases /\ (cur = NoRequest => cur' = NoRequest)
<1>1. SameLeases
  BY ForgetSame DEF SameRequest, SameQueue, SameLeases
<1>2. NoRequest.task # t
  BY DriverAssumption DEF DriverAssumption, NoRequest
<1> QED
  BY <1>1, <1>2 DEF Forget

\* Steps of a call in progress
LEMMA TaskLease ==
  ASSUME TypeInv, LeaseInv, NEW t \in Tasks, TaskStep(t)
  PROVE  LeaseInv'
<1>0. t \in DOMAIN pc /\ t \in DOMAIN txn /\ session \in BOOLEAN
  BY DEF TypeInv, TypeOK
<1>1. ASSUME UNCHANGED <<queue, cur>> PROVE SameLeases
  BY <1>1 DEF SameLeases
<1>2. CASE AcquireSession(t)
  <2>1. /\ pc[t] = "lock" /\ ~session /\ session' /\ UNCHANGED <<queue, cur, txn, dpc>>
        /\ pc' = [pc EXCEPT ![t] = IF txn[t] = "opening" THEN "check" ELSE "send"]
    BY <1>2 DEF AcquireSession, opVars
  <2>2. Owner("nobody", 0)
    BY <2>1 DEF LeaseInv
  <2>3. \A u \in Tasks : u # t => pc'[u] = pc[u]
    BY <2>1
  <2>4. pc'[t] = IF txn[t] = "opening" THEN "check" ELSE "send"
    BY <1>0, <2>1
  <2>5. CASE txn[t] = "none"
    <3>1. Owner("caller", t)'
      BY <2>1, <2>2, <2>3, <2>4, <2>5 DEF Owner, IsCaller, IsGuard
    <3> QED
      BY <2>1, <2>3, <2>4, <3>1 DEF LeaseInv
  <2>6. CASE txn[t] # "none"
    <3>1. Owner("guard", t)'
      BY <2>1, <2>2, <2>3, <2>4, <2>6 DEF Owner, IsCaller, IsGuard
    <3> QED
      BY <2>1, <2>3, <2>4, <3>1 DEF LeaseInv
  <2> QED BY <2>5, <2>6
<1>3. CASE AcquireFails(t)
  BY <1>0, <1>1, <1>3, LeaseStays
     DEF AcquireFails, Return, Others, IsCaller, IsGuard, chanVars, opVars
<1>4. CASE CheckNested(t)
  <2>1. pc[t] = "check" /\ txn[t] = "opening" /\ UNCHANGED <<queue, cur, dpc>>
    BY <1>4 DEF CheckNested, LeaseInv, opVars
  <2>2. CASE RefusesNested
    <3>1. session' = FALSE /\ Return(t) /\ txn' = [txn EXCEPT ![t] = "none"]
      BY <1>4, <2>2 DEF CheckNested
    <3>2. Others(t) /\ txn'[t] = "none" /\ pc'[t] = "idle"
      BY <1>0, <3>1 DEF Return, Others
    <3> QED
      BY <1>1, <2>1, <3>1, <3>2, LeaseFreed DEF IsGuard
  <2>3. CASE ~RefusesNested
    <3>1. pc' = [pc EXCEPT ![t] = "send"] /\ UNCHANGED <<session, txn>>
      BY <1>4, <2>3 DEF CheckNested
    <3> QED
      BY <1>0, <1>1, <2>1, <3>1, LeaseStays DEF Others, IsCaller, IsGuard
  <2> QED BY <2>2, <2>3
<1>5. CASE Reserve(t)
  BY <1>0, <1>1, <1>5, LeaseStays DEF Reserve, Others, IsCaller, IsGuard, chanVars, opVars
<1>6. CASE Push(t)
  <2>1. /\ pc[t] = "reserved" /\ pc' = [pc EXCEPT ![t] = "wait"]
        /\ queue' = Append(queue, [task |-> t, sql |-> sql[t], lease |-> ~Exclusive(t), open |-> TRUE])
        /\ UNCHANGED <<session, cur, txn, dpc>>
    BY <1>6 DEF Push, opVars
  <2>0. PICK n : n = Len(queue) + 1
    OBVIOUS
  <2>2. /\ n \in DOMAIN queue' /\ n \notin DOMAIN queue /\ DOMAIN queue' = DOMAIN queue \cup {n}
        /\ \A i \in DOMAIN queue : queue'[i] = queue[i]
        /\ queue'[n].lease <=> txn[t] = "none"
    <3>1. queue \in Seq(Request) /\ sql[t] \in Sql
      BY <2>1 DEF TypeInv, TypeOK, SqlKnown
    <3>2. [task |-> t, sql |-> sql[t], lease |-> ~Exclusive(t), open |-> TRUE] \in Request
      BY <3>1 DEF Request
    <3>3. /\ queue' \in Seq(Request) /\ Len(queue') = Len(queue) + 1
          /\ \A i \in 1..Len(queue) : queue'[i] = queue[i]
          /\ queue'[Len(queue) + 1] = [task |-> t, sql |-> sql[t], lease |-> ~Exclusive(t), open |-> TRUE]
      BY <2>1, <3>1, <3>2, AppendProperties
    <3>4. queue'[n].lease = ~Exclusive(t)
      BY <2>0, <3>3
    <3>5. Len(queue) \in Nat /\ DOMAIN queue = 1..Len(queue) /\ DOMAIN queue' = 1..(Len(queue) + 1)
      BY <3>1, <3>3, LenProperties
    <3>6. queue'[n].lease <=> txn[t] = "none"
      BY <3>4, Zenon DEF Exclusive
    <3> QED
      BY <2>0, <3>3, <3>5, <3>6
  <2>3. pc'[t] = "wait" /\ \A u \in Tasks : u # t => pc'[u] = pc[u]
    BY <1>0, <2>1
  <2>4. \A u \in Tasks : pc'[u] = "check" => txn'[u] = "opening"
    BY <2>1, <2>3 DEF LeaseInv
  <2>5. CASE txn[t] = "none"
    <3>1. session /\ Owner("caller", t)
      BY <2>1, <2>5, OneOwner DEF IsCaller
    <3>2. Owner("request", n)'
      BY <2>1, <2>2, <2>3, <2>5, <3>1 DEF Owner, IsCaller, IsGuard
    <3> QED
      BY <2>1, <2>2, <2>4, <3>1, <3>2 DEF LeaseInv
  <2>6. CASE txn[t] # "none"
    <3>1. session /\ Owner("guard", t)
      BY <2>1, <2>6, OneOwner DEF IsGuard
    <3>2. Owner("guard", t)'
      BY <2>1, <2>2, <2>3, <2>6, <3>1 DEF Owner, IsCaller, IsGuard
    <3> QED
      BY <2>1, <2>4, <3>1, <3>2 DEF LeaseInv
  <2> QED BY <2>5, <2>6
<1>7. CASE SendFails(t)
  <2>1. pc[t] = "send" /\ UNCHANGED <<queue, cur, dpc>>
    BY <1>7 DEF SendFails, opVars
  <2>2. CASE Exclusive(t)
    BY <1>1, <1>7, <2>1, <2>2, SettleLease DEF SendFails, Exclusive
  <2>3. CASE ~Exclusive(t)
    <3>1. Return(t) /\ session' = FALSE /\ txn' = txn /\ txn[t] = "none"
      BY <1>7, <2>3 DEF SendFails, Exclusive
    <3>2. Others(t) /\ txn'[t] = "none" /\ pc'[t] = "idle"
      BY <1>0, <3>1 DEF Return, Others
    <3> QED
      BY <1>1, <2>1, <3>1, <3>2, LeaseFreed DEF IsCaller
  <2> QED BY <2>2, <2>3
<1>8. CASE ReceiveReply(t)
  <2>1. pc[t] = "wait" /\ Settle(t, CallOk(reply[t])) /\ UNCHANGED <<queue, cur, dpc>>
    BY <1>8 DEF ReceiveReply, opVars
  <2> QED
    BY <1>1, <2>1, SettleLease
<1>9. CASE CloseReturns(t)
  BY <1>0, <1>1, <1>9, LeaseStays
     DEF CloseReturns, Return, Others, IsCaller, IsGuard, chanVars, opVars
<1> QED
  BY <1>2, <1>3, <1>4, <1>5, <1>6, <1>7, <1>8, <1>9 DEF TaskStep

\* What callers start, drop or time out
LEMMA CallerLease ==
  ASSUME TypeInv, LeaseInv, NEW t \in Tasks, Caller(t) \/ RollbackTimeout(t)
  PROVE  LeaseInv'
<1>0. t \in DOMAIN pc /\ t \in DOMAIN txn
  BY DEF TypeInv, TypeOK
<1>1. ASSUME UNCHANGED <<queue, cur>> PROVE SameLeases
  BY <1>1 DEF SameLeases
<1>2. CASE \/ \E s \in PlainSql : StartPlain(t, s)
           \/ StartTransaction(t)
           \/ Close(t)
  <2>1. /\ pc[t] = "idle" /\ txn[t] = "none" /\ UNCHANGED <<queue, cur, dpc, session>>
        /\ \/ pc' = [pc EXCEPT ![t] = "lock"] /\ (txn' = txn \/ txn' = [txn EXCEPT ![t] = "opening"])
           \/ pc' = [pc EXCEPT ![t] = "closing"] /\ txn' = txn
    BY <1>2 DEF StartPlain, StartTransaction, Close, chanVars, opVars
  <2>2. \A u \in Tasks : u # t => pc'[u] = pc[u] /\ txn'[u] = txn[u]
    BY <1>0, <2>1 DEF TypeInv, TypeOK
  <2>5. pc'[t] = "lock" \/ (pc'[t] = "closing" /\ txn'[t] = "none")
    BY <1>0, <2>1
  <2>3. ~IsCaller(t) /\ ~IsGuard(t)
    BY <2>1 DEF IsCaller, IsGuard
  <2>4. ~IsCaller(t)' /\ ~IsGuard(t)'
    BY <2>5 DEF IsCaller, IsGuard
  <2> QED
    BY <1>1, <2>1, <2>2, <2>3, <2>4, <2>5, LeaseStays DEF Others
<1>3. CASE \/ StartInTransaction(t) \/ DropTransaction(t)
           \/ \E s \in {"commit", "rollback"} : EndTransaction(t, s)
  <2>1. PICK x \in {"held", "ending", "dropping"} :
          /\ pc[t] = "idle" /\ txn[t] = "held" /\ UNCHANGED <<queue, cur, dpc, session>>
          /\ pc' = [pc EXCEPT ![t] = "send"]
          /\ txn' = [txn EXCEPT ![t] = x]
    BY <1>0, <1>3 DEF StartInTransaction, DropTransaction, EndTransaction, BecomeRollback, chanVars,
                      opVars, TypeInv, TypeOK
  <2>2. Others(t) /\ pc'[t] = "send" /\ txn'[t] = x
    BY <1>0, <2>1 DEF Others
  <2>3. ~IsCaller(t) /\ IsGuard(t)
    BY <2>1 DEF IsCaller, IsGuard
  <2>4. ~IsCaller(t)' /\ IsGuard(t)'
    BY <2>2 DEF IsCaller, IsGuard
  <2> QED
    BY <1>1, <2>1, <2>2, <2>3, <2>4, LeaseStays
<1>4. ASSUME StopAndRelease(t), IsGuard(t), SameLeases, dpc' = dpc, cur = NoRequest => cur' = NoRequest
      PROVE  LeaseInv'
  <2>1. Others(t) /\ txn'[t] = "none" /\ pc'[t] = "idle" /\ session' = FALSE
    BY <1>0, <1>4 DEF StopAndRelease, Return, Others
  <2> QED
    BY <1>4, <2>1, LeaseFreed
<1>5. CASE DropWithoutRuntime(t)
  BY <1>1, <1>4, <1>5 DEF DropWithoutRuntime, IsGuard, opVars
<1>6. CASE Abandon(t)
  <2>1. dpc' = dpc
    BY <1>6 DEF Abandon
  <2>2. CASE pc[t] = "lock" /\ Return(t) /\ txn' = [txn EXCEPT ![t] = "none"] /\ UNCHANGED <<session, queue, cur>>
    BY <1>0, <1>1, <2>1, <2>2, LeaseStays DEF Return, Others, IsCaller, IsGuard
  <2>3. CASE pc[t] = "send" /\ ~Exclusive(t) /\ Return(t) /\ session' = FALSE /\ UNCHANGED <<txn, queue, cur>>
    <3>1. Others(t) /\ txn'[t] = "none" /\ pc'[t] = "idle" /\ IsCaller(t)
      BY <1>0, <2>3 DEF Return, Others, Exclusive, IsCaller
    <3> QED
      BY <1>1, <2>1, <2>3, <3>1, LeaseFreed
  <2>4. CASE pc[t] = "send" /\ Exclusive(t) /\ Settle(t, FALSE) /\ UNCHANGED <<queue, cur>>
    BY <1>1, <2>1, <2>4, SettleLease DEF Exclusive
  <2>5. CASE pc[t] = "wait" /\ Forget(t) /\ Settle(t, FALSE)
    BY <2>1, <2>5, ForgetLeases, SettleLease DEF TypeInv
  <2> QED
    BY <1>6, <2>2, <2>3, <2>4, <2>5 DEF Abandon
<1>7. CASE RollbackTimeout(t)
  <2>1. /\ txn[t] = "dropping" /\ pc[t] \in {"send", "wait"} /\ Forget(t) /\ StopAndRelease(t) /\ dpc' = dpc
    BY <1>7 DEF RollbackTimeout, RollbackPending
  <2> QED
    BY <1>4, <2>1, ForgetLeases DEF IsGuard, TypeInv
<1> QED
  BY <1>2, <1>3, <1>5, <1>6, <1>7 DEF Caller

\* A request that is dropped gives its lease back, or never had it.
LEMMA LeaseDropped ==
  ASSUME TypeInv, LeaseInv, UNCHANGED <<pc, txn, cur>>, queue # <<>>, queue' = Tail(queue),
         ReleaseLease(Head(queue)),
         dpc' \in {"select", "recv", "parked", "drain", "close", "done"} => cur = NoRequest
  PROVE  LeaseInv'
<1>1. queue \in Seq(Request) /\ session \in BOOLEAN
  BY DEF TypeInv, TypeOK
<1>2. /\ Len(queue) \in Nat \ {0} /\ DOMAIN queue = 1..Len(queue) /\ Head(queue) = queue[1]
      /\ Tail(queue) \in Seq(Request) /\ Len(Tail(queue)) = Len(queue) - 1
      /\ \A i \in 1..Len(Tail(queue)) : Tail(queue)[i] = queue[i + 1]
  BY <1>1, HeadTailProperties, EmptySeq, LenProperties
<1>3. /\ DOMAIN queue' = 1..(Len(queue) - 1) /\ 1 \in DOMAIN queue
      /\ \A i \in DOMAIN queue' : i + 1 \in DOMAIN queue /\ queue'[i] = queue[i + 1] /\ i + 1 # 1
  BY <1>2, LenProperties
<1>4. \A u \in Tasks : (IsCaller(u)' <=> IsCaller(u)) /\ (IsGuard(u)' <=> IsGuard(u))
  BY DEF IsCaller, IsGuard
<1>5. CASE queue[1].lease
  <2>1. Owner("request", 1)
    <3>1. ~Owner("nobody", 0) /\ ~Owner("driver", 0)
          /\ \A x : ~Owner("caller", x) /\ ~Owner("guard", x)
      BY <1>3, <1>5 DEF Owner
    <3>2. \A i : Owner("request", i) => i = 1
      BY <1>3, <1>5 DEF Owner
    <3> QED
      BY <3>1, <3>2 DEF LeaseInv
  <2>2. Owner("nobody", 0)'
    BY <1>3, <1>4, <2>1 DEF Owner
  <2>3. session' = FALSE
    BY <1>2, <1>5 DEF ReleaseLease
  <2> QED
    BY <2>2, <2>3 DEF LeaseInv
<1>6. CASE ~queue[1].lease
  <2>1. session' = session
    BY <1>2, <1>6 DEF ReleaseLease
  <2>2. \A role, x : role # "request" /\ Owner(role, x) => Owner(role, x)'
    BY <1>3, <1>4 DEF Owner
  <2>3. ASSUME NEW k \in DOMAIN queue, Owner("request", k)
        PROVE  \E i \in DOMAIN queue' : Owner("request", i)'
    <3>1. k # 1 /\ k \in Nat
      BY <1>2, <1>3, <1>6, <2>3 DEF Owner
    <3>2. PICK n : n = k - 1
      OBVIOUS
    <3>3. n \in DOMAIN queue' /\ \A i \in DOMAIN queue' : i = n <=> i + 1 = k
      BY <1>2, <1>3, <3>1, <3>2
    <3>4. Owner("request", n)'
      BY <1>3, <1>4, <2>3, <3>3 DEF Owner
    <3> QED
      BY <3>3, <3>4
  <2>4. session => \/ Owner("driver", 0)'
                   \/ \E t \in Tasks : Owner("caller", t)' \/ Owner("guard", t)'
                   \/ \E i \in DOMAIN queue' : Owner("request", i)'
    BY <2>2, <2>3 DEF LeaseInv
  <2>5. ~session => Owner("nobody", 0)'
    BY <2>2 DEF LeaseInv
  <2> QED
    BY <2>1, <2>4, <2>5 DEF LeaseInv
<1> QED BY <1>5, <1>6

\* The driver
LEMMA DriverLease ==
  ASSUME TypeInv, LeaseInv, Driver \/ DropConnection
  PROVE  LeaseInv'
<1>0. queue \in Seq(Request) /\ session \in BOOLEAN
  BY DEF TypeInv, TypeOK
<1>1. ASSUME UNCHANGED <<pc, txn, queue, session>>, cur'.lease = cur.lease,
             dpc' \in {"select", "recv", "parked", "drain", "close", "done"} => cur' = NoRequest
      PROVE  LeaseInv'
  <2>1. \A role, x : Owner(role, x) => Owner(role, x)'
    BY <1>1 DEF Owner, IsCaller, IsGuard
  <2> QED
    BY <1>1, <2>1 DEF LeaseInv
<1>2. CASE \/ DrvPoll \/ DrvRecvNone \/ DrvPark \/ DrvProbe \/ DrvDeadline \/ DrvInterrupted
           \/ DrvAbandoned \/ DrvSendCancel \/ DrvCleanupTimeout \/ DrvWrite \/ DrvWriteFails
           \/ DrvDrained \/ DrvClose
  <2>1. UNCHANGED <<pc, txn, queue, session, cur>>
    BY <1>2 DEF DrvPoll, DrvRecvNone, DrvPark, DrvProbe, DrvDeadline, DrvInterrupted,
           DrvAbandoned, Interrupt, DrvSendCancel, DrvCleanupTimeout, DrvWrite, DrvWriteFails,
           DrvDrained, DrvClose, taskVars, chanVars, opVars
  <2>2. \/ dpc \in {"select", "recv", "parked", "drain", "close"}
        \/ dpc' \in {"reply", "cancel", "cleanup", "run"}
    BY <1>2 DEF DrvPoll, DrvRecvNone, DrvPark, DrvProbe, DrvDeadline, DrvInterrupted,
           DrvAbandoned, Interrupt, DrvSendCancel, DrvCleanupTimeout, DrvWrite, DrvWriteFails,
           DrvDrained, DrvClose, FutureDone, Driving
  <2> QED
    BY <1>1, <2>1, <2>2 DEF LeaseInv
<1>3. CASE DrvRead
  <2>1. UNCHANGED <<pc, txn, queue, session, cur>>
    BY <1>3 DEF DrvRead, taskVars, chanVars
  <2>2. dpc' \in {"run", "cleanup", "reply"}
    BY <1>3 DEF DrvRead, Driving, FutureDone
  <2> QED
    BY <1>1, <2>1, <2>2
<1>4. CASE DrvReply
  <2>1. UNCHANGED <<pc, txn, queue, session>> /\ dpc' = "release" /\ dpc = "reply"
        /\ cur' = [cur EXCEPT !.open = FALSE]
    BY <1>4 DEF DrvReply, chanVars
  <2>2. cur'.lease = cur.lease
    BY <2>1 DEF TypeInv, CurKnown, Request
  <2> QED
    BY <1>1, <2>1, <2>2
<1>5. CASE DrvSkip
  <2>1. /\ dpc = "recv" /\ queue # <<>> /\ queue' = Tail(queue) /\ ReleaseLease(Head(queue))
        /\ UNCHANGED <<pc, txn, cur>>
    BY <1>5 DEF DrvSkip, taskVars, opVars
  <2> QED
    BY <2>1, LeaseDropped DEF LeaseInv
<1>6. CASE DrvDrainOne
  <2>1. /\ dpc = "drain" /\ queue # <<>> /\ queue' = Tail(queue) /\ ReleaseLease(Head(queue))
        /\ UNCHANGED <<pc, txn, cur>>
    BY <1>6 DEF DrvDrainOne, opVars
  <2> QED
    BY <2>1, LeaseDropped DEF LeaseInv
<1>7. CASE DrvRecv
  <2>1. /\ dpc = "recv" /\ queue # <<>> /\ queue' = Tail(queue) /\ cur' = Head(queue)
        /\ dpc' \in {"probe", "run"} /\ UNCHANGED <<pc, txn, session>>
    BY <1>7 DEF DrvRecv, taskVars
  <2>2. cur = NoRequest /\ ~cur.lease
    BY <2>1 DEF LeaseInv, NoRequest
  <2>3. /\ Len(queue) \in Nat \ {0} /\ DOMAIN queue = 1..Len(queue) /\ Head(queue) = queue[1]
        /\ Tail(queue) \in Seq(Request) /\ Len(Tail(queue)) = Len(queue) - 1
        /\ \A i \in 1..Len(Tail(queue)) : Tail(queue)[i] = queue[i + 1]
    BY <1>0, <2>1, HeadTailProperties, EmptySeq, LenProperties
  <2>4. /\ DOMAIN queue' = 1..(Len(queue) - 1) /\ 1 \in DOMAIN queue
        /\ \A i \in DOMAIN queue' : i + 1 \in DOMAIN queue /\ queue'[i] = queue[i + 1] /\ i + 1 # 1
    BY <2>1, <2>3, LenProperties
  <2>5. \A u \in Tasks : (IsCaller(u)' <=> IsCaller(u)) /\ (IsGuard(u)' <=> IsGuard(u))
    BY <2>1 DEF IsCaller, IsGuard
  <2>6. CASE queue[1].lease
    <3>1. ~Owner("nobody", 0) /\ ~Owner("driver", 0)
          /\ \A x : ~Owner("caller", x) /\ ~Owner("guard", x)
      BY <2>4, <2>6 DEF Owner
    <3>2. \A i : Owner("request", i) => i = 1
      BY <2>4, <2>6 DEF Owner
    <3>3. session /\ Owner("request", 1)
      BY <3>1, <3>2 DEF LeaseInv
    <3>4. Owner("driver", 0)'
      BY <2>1, <2>3, <2>4, <2>5, <2>6, <3>3 DEF Owner
    <3> QED
      BY <2>1, <3>3, <3>4 DEF LeaseInv
  <2>7. CASE ~queue[1].lease
    <3>1. ~cur'.lease
      BY <2>1, <2>3, <2>7
    <3>2. \A role, x : role \notin {"request", "driver"} /\ Owner(role, x) => Owner(role, x)'
      BY <2>2, <2>4, <2>5, <3>1 DEF Owner
    <3>3. ASSUME NEW k \in DOMAIN queue, Owner("request", k)
          PROVE  \E i \in DOMAIN queue' : Owner("request", i)'
      <4>1. k # 1 /\ k \in Nat
        BY <2>3, <2>4, <2>7, <3>3 DEF Owner
      <4>2. PICK n : n = k - 1
        OBVIOUS
      <4>3. n \in DOMAIN queue' /\ \A i \in DOMAIN queue' : i = n <=> i + 1 = k
        BY <2>3, <2>4, <4>1, <4>2
      <4>4. Owner("request", n)'
        BY <2>4, <2>5, <3>1, <3>3, <4>3 DEF Owner
      <4> QED
        BY <4>3, <4>4
    <3>4. ~Owner("driver", 0)
      BY <2>2 DEF Owner
    <3>5. session => \/ Owner("driver", 0)'
                     \/ \E t \in Tasks : Owner("caller", t)' \/ Owner("guard", t)'
                     \/ \E i \in DOMAIN queue' : Owner("request", i)'
      BY <3>2, <3>3, <3>4 DEF LeaseInv
    <3>6. ~session => Owner("nobody", 0)'
      BY <3>2 DEF LeaseInv
    <3> QED
      BY <2>1, <3>5, <3>6 DEF LeaseInv
  <2> QED BY <2>6, <2>7
<1>8. CASE DrvRelease
  <2>1. ReleaseLease(cur) /\ cur' = NoRequest /\ UNCHANGED <<pc, txn, queue>>
    BY <1>8 DEF DrvRelease, taskVars
  <2>2. ~cur'.lease
    BY <2>1 DEF NoRequest
  <2>3. CASE cur.lease
    <3>1. Owner("driver", 0)
      BY <2>3 DEF LeaseInv, Owner
    <3>2. Owner("nobody", 0)'
      BY <2>1, <2>2, <3>1 DEF Owner, IsCaller, IsGuard
    <3> QED
      BY <2>1, <2>3, <3>2 DEF LeaseInv, ReleaseLease
  <2>4. CASE ~cur.lease
    BY <1>1, <2>1, <2>2, <2>4 DEF ReleaseLease, TypeInv, TypeOK, Request, NoRequest
  <2> QED BY <2>3, <2>4
<1>9. CASE DropConnection
  <2>1. /\ cur' = NoRequest /\ queue' = <<>> /\ UNCHANGED <<pc, txn>>
        /\ session' = IF cur.lease \/ \E i \in DOMAIN queue : queue[i].lease THEN FALSE ELSE session
    BY <1>9 DEF DropConnection
  <2>2. ~cur'.lease /\ DOMAIN queue' = {}
    BY <2>1 DEF NoRequest
  <2>3. \A u \in Tasks : (IsCaller(u)' <=> IsCaller(u)) /\ (IsGuard(u)' <=> IsGuard(u))
    BY <2>1 DEF IsCaller, IsGuard
  <2>4. CASE cur.lease \/ \E i \in DOMAIN queue : queue[i].lease
    <3>1. Owner("driver", 0) \/ \E i \in DOMAIN queue : Owner("request", i)
      BY <2>4 DEF LeaseInv, Owner
    <3>2. Owner("nobody", 0)'
      BY <2>2, <2>3, <3>1 DEF Owner
    <3> QED
      BY <2>1, <2>4, <3>2 DEF LeaseInv
  <2>5. CASE ~(cur.lease \/ \E i \in DOMAIN queue : queue[i].lease)
    <3>1. \A role, x : role \notin {"request", "driver"} /\ Owner(role, x) => Owner(role, x)'
      BY <2>2, <2>3 DEF Owner
    <3>2. ~Owner("driver", 0) /\ \A i \in DOMAIN queue : ~Owner("request", i)
      BY <2>5 DEF Owner
    <3>3. session' = session
      BY <2>1, <2>5
    <3>4. ~session => Owner("nobody", 0)'
      BY <3>1 DEF LeaseInv
    <3>5. ASSUME session PROVE \E u \in Tasks : Owner("caller", u)' \/ Owner("guard", u)'
      <4>1. PICK u \in Tasks : Owner("caller", u) \/ Owner("guard", u)
        BY <3>2, <3>5 DEF LeaseInv
      <4> QED
        BY <3>1, <4>1
    <3>6. \A u \in Tasks : pc'[u] = "check" => txn'[u] = "opening"
      BY <2>1 DEF LeaseInv
    <3>7. ~session' => Owner("nobody", 0)'
      BY <3>3, <3>4
    <3>8. session' => \E u \in Tasks : Owner("caller", u)' \/ Owner("guard", u)'
      BY <3>3, <3>5
    <3> QED
      BY <2>1, <3>6, <3>7, <3>8 DEF LeaseInv
  <2> QED BY <2>4, <2>5
<1> QED
  BY <1>2, <1>3, <1>4, <1>5, <1>6, <1>7, <1>8, <1>9 DEF Driver

\* Every step keeps one owner of the session, or none.
LEMMA StepLease ==
  ASSUME TypeInv, LeaseInv, [Next]_vars PROVE LeaseInv'
<1>1. ASSUME UNCHANGED <<pc, txn, queue, cur, session, dpc>> PROVE LeaseInv'
  BY <1>1 DEF LeaseInv, Owner, IsCaller, IsGuard
<1>2. CASE UNCHANGED vars
  BY <1>1, <1>2 DEF vars, chanVars, taskVars, opVars
<1>3. CASE DropClients \/ CancelLoad \/ \E g \in loads : CancelRaise(g)
  BY <1>1, <1>3 DEF DropClients, CancelLoad, CancelRaise, chanVars, taskVars, opVars
<1>4. CASE Backend
  <2>1. UNCHANGED <<chanVars, taskVars, dpc, opVars>>
    BY <1>4 DEF Backend, SrvRow, SrvOk, SrvError, SrvCancel, SrvDie, SrvStray
  <2> QED
    BY <1>1, <2>1 DEF chanVars, taskVars, opVars
<1> QED
  BY <1>2, <1>3, <1>4, TaskLease, CallerLease, DriverLease DEF Next

\* At first nobody owns the session.
LEMMA InitLease ==
  ASSUME Init PROVE LeaseInv
<1>1. DOMAIN queue = {} /\ ~cur.lease /\ ~session
  BY DEF Init, NoRequest
<1>2. \A t \in Tasks : pc[t] = "idle" /\ txn[t] = "none"
  BY DEF Init
<1>3. Owner("nobody", 0)
  BY <1>1, <1>2 DEF Owner, IsCaller, IsGuard
<1> QED
  BY <1>1, <1>2, <1>3 DEF LeaseInv, Init

\* One owner in one role is what the count of owners says.
LEMMA OwnerCounts ==
  ASSUME TypeInv, LeaseInv PROVE LeaseExclusive
<1> DEFINE callers == {t \in Tasks : IsCaller(t)}
           guards == {t \in Tasks : IsGuard(t)}
           requests == {i \in DOMAIN queue : queue[i].lease}
<1>1. /\ Cardinality({}) = 0
      /\ \A x : Cardinality({x}) = 1
  BY FS_EmptySet, FS_Singleton
<1>2. LeaseExclusive <=> Cardinality(callers) + Cardinality(guards) + Cardinality(requests)
                           + (IF cur.lease THEN 1 ELSE 0) = IF session THEN 1 ELSE 0
  BY DEF LeaseExclusive, IsCaller, IsGuard
<1>3. CASE Owner("nobody", 0) /\ ~session
  <2>1. callers = {} /\ guards = {} /\ requests = {} /\ ~cur.lease
    BY <1>3 DEF Owner
  <2>2. Cardinality(callers) = 0 /\ Cardinality(guards) = 0 /\ Cardinality(requests) = 0
    BY <1>1, <2>1
  <2> HIDE DEF callers, guards, requests
  <2> QED
    BY <1>2, <1>3, <2>1, <2>2
<1>4. CASE Owner("driver", 0) /\ session
  <2>1. callers = {} /\ guards = {} /\ requests = {} /\ cur.lease
    BY <1>4 DEF Owner
  <2>2. Cardinality(callers) = 0 /\ Cardinality(guards) = 0 /\ Cardinality(requests) = 0
    BY <1>1, <2>1
  <2> HIDE DEF callers, guards, requests
  <2> QED
    BY <1>2, <1>4, <2>1, <2>2
<1>5. ASSUME NEW t \in Tasks, Owner("caller", t), session PROVE LeaseExclusive
  <2>1. callers = {t} /\ guards = {} /\ requests = {} /\ ~cur.lease
    BY <1>5 DEF Owner
  <2>2. Cardinality(callers) = 1 /\ Cardinality(guards) = 0 /\ Cardinality(requests) = 0
    BY <1>1, <2>1
  <2> HIDE DEF callers, guards, requests
  <2> QED
    BY <1>2, <1>5, <2>1, <2>2
<1>6. ASSUME NEW t \in Tasks, Owner("guard", t), session PROVE LeaseExclusive
  <2>1. callers = {} /\ guards = {t} /\ requests = {} /\ ~cur.lease
    BY <1>6 DEF Owner
  <2>2. Cardinality(callers) = 0 /\ Cardinality(guards) = 1 /\ Cardinality(requests) = 0
    BY <1>1, <2>1
  <2> HIDE DEF callers, guards, requests
  <2> QED
    BY <1>2, <1>6, <2>1, <2>2
<1>7. ASSUME NEW i \in DOMAIN queue, Owner("request", i), session PROVE LeaseExclusive
  <2>1. callers = {} /\ guards = {} /\ requests = {i} /\ ~cur.lease
    BY <1>7 DEF Owner
  <2>2. Cardinality(callers) = 0 /\ Cardinality(guards) = 0 /\ Cardinality(requests) = 1
    BY <1>1, <2>1
  <2> HIDE DEF callers, guards, requests
  <2> QED
    BY <1>2, <1>7, <2>1, <2>2
<1> QED
  BY <1>3, <1>4, <1>5, <1>6, <1>7 DEF LeaseInv

\* The session mutex is held by exactly one caller, Transaction guard or
\* request while it is locked and by none otherwise, for any number of clones:
\* no error path, dropped future or shutdown leaks or doubles the lease.
THEOREM DriverLeases == Spec => []LeaseExclusive
<1>1. Init => TypeInv /\ LeaseInv
  BY InitTypes, InitLease
<1>2. (TypeInv /\ LeaseInv) /\ [Next]_vars => (TypeInv /\ LeaseInv)'
  BY StepTypes, StepLease
<1>3. TypeInv /\ LeaseInv => LeaseExclusive
  BY OwnerCounts
<1> QED
  BY <1>1, <1>2, <1>3, PTL DEF Spec

-----------------------------------------------------------------------------
(* The life of a Transaction value *)

\* Where the call of a task can stand, given its Transaction
TxnShape(t) ==
  /\ txn[t] = "opening" =>
       pc[t] \in {"lock", "check", "send", "reserved", "wait"} /\ sql[t] = "begin"
  /\ txn[t] = "held" =>
       pc[t] \in {"idle", "send", "reserved", "wait"} /\ (pc[t] # "idle" => sql[t] = "stmt")
  /\ txn[t] = "ending" =>
       pc[t] \in {"send", "reserved", "wait"} /\ sql[t] \in {"commit", "rollback"}
  /\ txn[t] = "dropping" => pc[t] \in {"send", "reserved", "wait"} /\ sql[t] = "rollback"

ShapeInv == \A t \in Tasks : TxnShape(t)

\* The Transaction of t exists: BEGIN was given to it to send
Holds(t) == t \in Tasks /\ txn[t] # "none" /\ pc[t] \notin {"lock", "check"}

\* What one step of task t can do to its Transaction
Ends(t) ==
  /\ txn'[t] = "none"
  /\ Holds(t) => closing' \/ (reply[t] = "ok" /\ txn[t] \in {"ending", "dropping"})
Opens(t) ==
  /\ pc[t] = "idle" /\ txn[t] = "none"
  /\ pc'[t] = "lock" /\ txn'[t] = "opening" /\ sql'[t] = "begin"
Locks(t) ==
  /\ pc[t] = "lock" /\ txn[t] = "opening"
  /\ pc'[t] = "check" /\ txn'[t] = "opening" /\ sql'[t] = sql[t]
Begins(t) ==
  /\ pc[t] = "check" /\ txn[t] = "opening" /\ ~transaction
  /\ pc'[t] = "send" /\ txn'[t] = "opening" /\ sql'[t] = sql[t]
Sends(t) ==
  /\ txn[t] # "none" /\ txn'[t] = txn[t] /\ sql'[t] = sql[t]
  /\ (pc[t] = "send" /\ pc'[t] = "reserved") \/ (pc[t] = "reserved" /\ pc'[t] = "wait")
Keeps(t) ==
  /\ txn[t] = "held" /\ txn'[t] = "held"
  /\ pc'[t] = "idle" \/ (pc[t] = "idle" /\ pc'[t] = "send" /\ sql'[t] = "stmt")
Opened(t) ==
  /\ pc[t] = "wait" /\ txn[t] = "opening" /\ reply[t] = "ok"
  /\ pc'[t] = "idle" /\ txn'[t] = "held"
Finishes(t) ==
  /\ pc[t] = "idle" /\ txn[t] = "held"
  /\ pc'[t] = "send" /\ txn'[t] = "ending" /\ sql'[t] \in {"commit", "rollback"}
Drops(t) ==
  /\ Holds(t) /\ txn[t] # "dropping"
  /\ pc'[t] = "send" /\ txn'[t] = "dropping" /\ sql'[t] = "rollback"

Move(t) ==
  \/ Ends(t) \/ Opens(t) \/ Locks(t) \/ Begins(t) \/ Sends(t) \/ Keeps(t) \/ Opened(t)
  \/ Finishes(t) \/ Drops(t)

\* The client is stopped only by a task that then has no Transaction
Stops(t) == closing' = closing \/ (closing' = TRUE /\ txn'[t] = "none")

\* The end of a call is one of the moves.
LEMMA SettleMoves ==
  ASSUME TypeInv, ShapeInv, NEW t \in Tasks, NEW ok, Settle(t, ok),
         pc[t] \in {"send", "wait"}, ok => pc[t] = "wait" /\ reply[t] = "ok"
  PROVE  Move(t) /\ Stops(t)
<1> USE DEF Move, Stops
<1>0. t \in DOMAIN pc /\ t \in DOMAIN txn /\ t \in DOMAIN sql
  BY DEF TypeInv, TypeOK
<1>1. CASE txn[t] \in {"none", "held"} /\ Return(t) /\ UNCHANGED <<txn, session, closing>>
  BY <1>0, <1>1 DEF Return, Ends, Holds, Keeps
<1>2. CASE txn[t] = "opening" /\ ok /\ Return(t) /\ txn' = [txn EXCEPT ![t] = "held"] /\ closing' = closing
  BY <1>0, <1>2 DEF Return, Opened
<1>3. CASE txn[t] \in {"ending", "dropping"} /\ ok /\ txn' = [txn EXCEPT ![t] = "none"] /\ closing' = closing
  BY <1>0, <1>3 DEF Ends
<1>4. CASE txn[t] \in {"opening", "ending"} /\ ~ok /\ BecomeRollback(t) /\ closing' = closing
  BY <1>0, <1>4 DEF BecomeRollback, Drops, Holds
<1>5. CASE StopAndRelease(t)
  BY <1>0, <1>5 DEF StopAndRelease, Ends
<1> QED
  BY <1>1, <1>2, <1>3, <1>4, <1>5 DEF Settle

\* Every step of a task is one of the moves.
LEMMA TaskMoves ==
  ASSUME TypeInv, ShapeInv, NEW t \in Tasks, TaskStep(t) \/ Caller(t) \/ RollbackTimeout(t)
  PROVE  Move(t) /\ Stops(t)
<1> USE DEF Move, Stops
<1>0. t \in DOMAIN pc /\ t \in DOMAIN txn /\ t \in DOMAIN sql
  BY DEF TypeInv, TypeOK
<1>1. txn[t] \in {"none", "opening", "held", "ending", "dropping"} /\ TxnShape(t)
  BY DEF TypeInv, TypeOK, ShapeInv
<1>2. CASE AcquireSession(t)
  <2>1. /\ pc[t] = "lock" /\ UNCHANGED <<txn, sql, closing>>
        /\ pc'[t] = IF txn[t] = "opening" THEN "check" ELSE "send"
    BY <1>0, <1>2 DEF AcquireSession, controlVars
  <2> QED
    BY <1>1, <2>1 DEF TxnShape, Locks, Ends, Holds
<1>3. CASE AcquireFails(t) \/ CloseReturns(t)
  <2>1. /\ closing' = closing
        /\ (pc[t] = "lock" /\ txn'[t] = "none") \/ (pc[t] = "closing" /\ txn' = txn)
    BY <1>0, <1>3 DEF AcquireFails, CloseReturns, controlVars
  <2> QED
    BY <1>1, <2>1 DEF TxnShape, Ends, Holds
<1>4. CASE CheckNested(t)
  <2>1. pc[t] = "check" /\ closing' = closing
    BY <1>4 DEF CheckNested, controlVars
  <2>2. \/ txn'[t] = "none"
        \/ ~transaction /\ pc'[t] = "send" /\ UNCHANGED <<txn, sql>>
    BY <1>0, <1>4 DEF CheckNested, RefusesNested
  <2> QED
    BY <1>1, <2>1, <2>2 DEF TxnShape, Begins, Ends, Holds
<1>5. CASE Reserve(t) \/ Push(t)
  <2>1. /\ (pc[t] = "send" /\ pc'[t] = "reserved") \/ (pc[t] = "reserved" /\ pc'[t] = "wait")
        /\ UNCHANGED <<txn, sql, closing>>
    BY <1>0, <1>5 DEF Reserve, Push, controlVars
  <2> QED
    BY <2>1 DEF Sends, Ends, Holds
<1>6. CASE SendFails(t)
  <2>1. CASE Exclusive(t)
    BY <1>6, <2>1, SettleMoves DEF SendFails
  <2>2. CASE ~Exclusive(t)
    BY <1>6, <2>2 DEF SendFails, Exclusive, Ends, Holds
  <2> QED BY <2>1, <2>2
<1>7. CASE ReceiveReply(t)
  BY <1>7, SettleMoves DEF ReceiveReply, CallOk
<1>8. CASE (\E s \in PlainSql : StartPlain(t, s)) \/ StartTransaction(t) \/ Close(t)
  <2>1. /\ pc[t] = "idle" /\ txn[t] = "none"
        /\ \/ closing' \in {closing, TRUE} /\ txn' = txn
           \/ closing' = closing /\ pc'[t] = "lock" /\ txn'[t] = "opening" /\ sql'[t] = "begin"
    BY <1>0, <1>8 DEF StartPlain, StartTransaction, Close, controlVars
  <2> QED
    BY <2>1 DEF Opens, Ends, Holds
<1>9. CASE StartInTransaction(t)
  BY <1>0, <1>9 DEF StartInTransaction, Keeps, controlVars
<1>10. CASE \E s \in {"commit", "rollback"} : EndTransaction(t, s)
  BY <1>0, <1>10 DEF EndTransaction, Finishes, controlVars
<1>11. CASE DropTransaction(t)
  BY <1>0, <1>11 DEF DropTransaction, BecomeRollback, Drops, Holds, controlVars
<1>12. CASE DropWithoutRuntime(t) \/ RollbackTimeout(t)
  BY <1>0, <1>12 DEF DropWithoutRuntime, RollbackTimeout, StopAndRelease, Ends
<1>13. CASE Abandon(t)
  <2>1. CASE pc[t] = "lock" /\ txn' = [txn EXCEPT ![t] = "none"] /\ closing' = closing
    BY <1>0, <2>1 DEF Ends, Holds
  <2>2. CASE pc[t] = "send" /\ ~Exclusive(t) /\ txn' = txn /\ closing' = closing
    BY <2>2 DEF Exclusive, Ends, Holds
  <2>3. CASE pc[t] \in {"send", "wait"} /\ Settle(t, FALSE)
    BY <2>3, SettleMoves
  <2> QED
    BY <1>13, <2>1, <2>2, <2>3 DEF Abandon
<1> QED
  BY <1>2, <1>3, <1>4, <1>5, <1>6, <1>7, <1>8, <1>9, <1>10, <1>11, <1>12, <1>13 DEF TaskStep, Caller

\* The calls of the other tasks are left alone.
LEMMA TaskAlone ==
  ASSUME TypeInv, NEW t \in Tasks, TaskStep(t) \/ Caller(t) \/ RollbackTimeout(t)
  PROVE  \A u \in Tasks \ {t} : /\ pc'[u] = pc[u] /\ sql'[u] = sql[u]
                                /\ txn'[u] = txn[u] /\ reply'[u] = reply[u]
<1> SUFFICES ASSUME NEW u \in Tasks \ {t}
             PROVE  pc'[u] = pc[u] /\ sql'[u] = sql[u] /\ txn'[u] = txn[u] /\ reply'[u] = reply[u]
  OBVIOUS
<1>0. u \in DOMAIN pc /\ u \in DOMAIN sql /\ u \in DOMAIN txn /\ u \in DOMAIN reply /\ u # t
  BY DEF TypeInv, TypeOK
<1>1. ASSUME Return(t) PROVE pc'[u] = pc[u] /\ sql'[u] = sql[u]
  BY <1>0, <1>1 DEF Return
<1>2. ASSUME StopAndRelease(t) \/ BecomeRollback(t)
      PROVE  pc'[u] = pc[u] /\ sql'[u] = sql[u] /\ txn'[u] = txn[u]
  BY <1>0, <1>1, <1>2 DEF StopAndRelease, BecomeRollback
<1>3. ASSUME NEW ok, Settle(t, ok) PROVE pc'[u] = pc[u] /\ sql'[u] = sql[u] /\ txn'[u] = txn[u]
  BY <1>0, <1>1, <1>2, <1>3 DEF Settle
<1>4. ASSUME Forget(t) PROVE reply'[u] = reply[u]
  BY <1>0, <1>4 DEF Forget
<1>5. CASE AcquireSession(t) \/ AcquireFails(t) \/ CheckNested(t) \/ CloseReturns(t)
  BY <1>0, <1>1, <1>5 DEF AcquireSession, AcquireFails, CheckNested, CloseReturns
<1>6. CASE Reserve(t) \/ Push(t)
  BY <1>0, <1>6 DEF Reserve, Push
<1>7. CASE SendFails(t) \/ ReceiveReply(t)
  BY <1>0, <1>1, <1>3, <1>7 DEF SendFails, ReceiveReply
<1>8. CASE \/ \E s \in PlainSql : StartPlain(t, s)
           \/ StartTransaction(t) \/ Close(t) \/ StartInTransaction(t)
           \/ \E s \in {"commit", "rollback"} : EndTransaction(t, s)
  BY <1>0, <1>8 DEF StartPlain, StartTransaction, Close, StartInTransaction, EndTransaction
<1>9. CASE DropTransaction(t) \/ DropWithoutRuntime(t) \/ RollbackTimeout(t)
  BY <1>2, <1>4, <1>9 DEF DropTransaction, DropWithoutRuntime, RollbackTimeout
<1>10. CASE Abandon(t)
  BY <1>0, <1>1, <1>3, <1>4, <1>10 DEF Abandon
<1> QED
  BY <1>5, <1>6, <1>7, <1>8, <1>9, <1>10 DEF TaskStep, Caller

\* The driver, the backend and the cancel calls leave the calls alone.
LEMMA OthersAlone ==
  ASSUME \/ UNCHANGED vars \/ DropClients \/ CancelLoad \/ (\E g \in loads : CancelRaise(g))
         \/ Driver \/ DropConnection \/ Backend
  PROVE  UNCHANGED <<pc, sql, txn, closing>>
<1> USE DEF controlVars, taskVars
<1>1. CASE UNCHANGED vars \/ DropClients \/ CancelLoad \/ (\E g \in loads : CancelRaise(g)) \/ DropConnection
  BY <1>1 DEF vars, DropClients, CancelLoad, CancelRaise, DropConnection
<1>2. CASE Backend
  BY <1>2 DEF Backend, SrvRow, SrvOk, SrvError, SrvCancel, SrvDie, SrvStray
<1>3. CASE Driver
  BY <1>3 DEF Driver, DrvPoll, DrvRecv, DrvRecvNone, DrvPark, DrvProbe, DrvSkip, DrvDeadline,
              DrvInterrupted, DrvAbandoned, Interrupt, DrvSendCancel, DrvCleanupTimeout, DrvWrite,
              DrvWriteFails, DrvRead, DrvReply, DrvRelease, DrvDrainOne, DrvDrained, DrvClose
<1> QED
  BY <1>1, <1>2, <1>3

\* No step of a task leaves its Transaction in an impossible state.
LEMMA StepShape ==
  ASSUME TypeInv, ShapeInv, [Next]_vars PROVE ShapeInv'
<1>1. ASSUME NEW t \in Tasks, TaskStep(t) \/ Caller(t) \/ RollbackTimeout(t) PROVE ShapeInv'
  <2>1. \A u \in Tasks \ {t} : pc'[u] = pc[u] /\ sql'[u] = sql[u] /\ txn'[u] = txn[u]
    BY <1>1, TaskAlone
  <2>2. TxnShape(t)'
    BY <1>1, TaskMoves DEF Move, Ends, Opens, Locks, Begins, Sends, Keeps, Opened, Finishes, Drops,
                           ShapeInv, TxnShape
  <2> QED
    BY <2>1, <2>2 DEF ShapeInv, TxnShape
<1>2. ASSUME UNCHANGED <<pc, sql, txn>> PROVE ShapeInv'
  BY <1>2 DEF ShapeInv, TxnShape
<1> QED
  BY <1>1, <1>2, OthersAlone DEF Next

-----------------------------------------------------------------------------
(* Calls, their requests and their replies *)

Live == dpc \in {"run", "cancel", "cleanup", "reply"}
InHand == dpc \in {"probe", "run", "cancel", "cleanup", "reply", "release"}

\* The caller of r waits for the reply, which nobody has sent yet
Awaited(r) ==
  /\ pc[r.task] = "wait" /\ sql[r.task] = r.sql /\ reply[r.task] = "none"
  /\ r.lease <=> txn[r.task] = "none"

\* A task awaits one request at a time; a guard never probes
CallInv ==
  /\ \A i \in DOMAIN queue : queue[i].open => Awaited(queue[i])
  /\ \A i, j \in DOMAIN queue :
       queue[i].open /\ queue[j].open /\ queue[i].task = queue[j].task => i = j
  /\ cur.open => Awaited(cur) /\ \A i \in DOMAIN queue : queue[i].open => queue[i].task # cur.task
  /\ Live /\ cur.sql # "probe" => reply[cur.task] = "none"
  /\ \A t \in Tasks : pc[t] # "wait" => reply[t] = "none"
  /\ \A i \in DOMAIN queue : ~queue[i].lease => queue[i].sql # "probe"
  /\ InHand /\ ~cur.lease => cur.sql # "probe"
  /\ dpc \in {"cancel", "cleanup"} => outcome # "ok"

\* No request of t has a caller
NoOpen(t) ==
  /\ ~(cur.open /\ cur.task = t)
  /\ \A i \in DOMAIN queue : ~(queue[i].open /\ queue[i].task = t)

\* A request that is taken or drained was the first, and the others move up.
LEMMA QueueShrinks ==
  ASSUME TypeOK, queue # <<>>, queue' = Tail(queue)
  PROVE  /\ Head(queue) = queue[1] /\ 1 \in DOMAIN queue /\ Head(queue) \in Request
         /\ DOMAIN queue' \subseteq Nat \ {0}
         /\ \A i \in DOMAIN queue' : i + 1 \in DOMAIN queue /\ queue'[i] = queue[i + 1]
<1>1. queue \in Seq(Request)
  BY DEF TypeOK
<1>2. /\ Len(queue) \in Nat \ {0} /\ DOMAIN queue = 1..Len(queue) /\ Head(queue) = queue[1]
      /\ Head(queue) \in Request
      /\ Tail(queue) \in Seq(Request) /\ Len(Tail(queue)) = Len(queue) - 1
      /\ \A i \in 1..Len(Tail(queue)) : Tail(queue)[i] = queue[i + 1]
  BY <1>1, HeadTailProperties, EmptySeq, LenProperties
<1>3. DOMAIN queue' = 1..(Len(queue) - 1)
  BY <1>2, LenProperties
<1> QED
  BY <1>2, <1>3

\* A pushed request is the last, and the others stay.
LEMMA QueueGrows ==
  ASSUME TypeInv, NEW t \in Tasks, Push(t)
  PROVE  \E n : /\ n \notin DOMAIN queue /\ DOMAIN queue' = DOMAIN queue \cup {n}
                /\ \A i \in DOMAIN queue : queue'[i] = queue[i]
                /\ queue'[n].task = t /\ queue'[n].sql = sql[t] /\ queue'[n].open
                /\ queue'[n].lease <=> txn[t] = "none"
<1> DEFINE r == [task |-> t, sql |-> sql[t], lease |-> ~Exclusive(t), open |-> TRUE]
<1>1. pc[t] = "reserved" /\ queue' = Append(queue, r) /\ queue \in Seq(Request)
  BY DEF Push, TypeInv, TypeOK
<1>2. r \in Request
  BY <1>1 DEF Request, TypeInv, SqlKnown
<1>3. /\ queue' \in Seq(Request) /\ Len(queue') = Len(queue) + 1
      /\ \A i \in 1..Len(queue) : queue'[i] = queue[i]
      /\ queue'[Len(queue) + 1] = r
  BY <1>1, <1>2, AppendProperties
<1>4. Len(queue) \in Nat /\ DOMAIN queue = 1..Len(queue) /\ DOMAIN queue' = 1..(Len(queue) + 1)
  BY <1>1, <1>3, LenProperties
<1>5. r.task = t /\ r.sql = sql[t] /\ r.open /\ r.lease = ~Exclusive(t)
  OBVIOUS
<1>6. r.lease <=> txn[t] = "none"
  BY <1>5, Zenon DEF Exclusive
<1> HIDE DEF r
<1>7. Len(queue) + 1 \notin DOMAIN queue /\ DOMAIN queue' = DOMAIN queue \cup {Len(queue) + 1}
  BY <1>4
<1> QED
  BY <1>3, <1>4, <1>5, <1>6, <1>7

\* A task that does not wait, or was answered, has no request left to answer.
LEMMA NotAwaited ==
  ASSUME CallInv, NEW t \in Tasks, pc[t] # "wait" \/ reply[t] # "none"
  PROVE  NoOpen(t)
  BY DEF CallInv, Awaited, NoOpen

\* A step of a task pushes a request, or leaves it with none to be answered.
LEMMA TaskRequests ==
  ASSUME TypeInv, CallInv, NEW t \in Tasks, TaskStep(t) \/ Caller(t) \/ RollbackTimeout(t)
  PROVE  \/ Push(t)
         \/ /\ NoOpen(t)' /\ reply'[t] = "none"
            /\ SameQueue /\ \A i \in DOMAIN queue : queue[i].task # t => queue'[i] = queue[i]
            /\ SameRequest /\ (cur.task # t => cur' = cur)
<1>0. t \in DOMAIN reply
  BY DEF TypeInv, TypeOK
<1>1. CASE Forget(t)
  <2>1. reply'[t] = "none"
    BY <1>0, <1>1 DEF Forget
  <2> QED
    BY <1>1, <2>1, ForgetSame DEF TypeInv, NoOpen, SameQueue, SameRequest
<1>2. ASSUME UNCHANGED <<queue, cur>>, NoOpen(t), reply'[t] = "none" PROVE ~Push(t) =>
           /\ NoOpen(t)' /\ reply'[t] = "none"
           /\ SameQueue /\ \A i \in DOMAIN queue : queue[i].task # t => queue'[i] = queue[i]
           /\ SameRequest /\ (cur.task # t => cur' = cur)
  BY <1>2 DEF NoOpen, SameQueue, SameRequest
<1>3. CASE UNCHANGED <<queue, cur, reply>> /\ pc[t] # "wait"
  BY <1>2, <1>3, NotAwaited DEF CallInv
<1>4. CASE ReceiveReply(t)
  BY <1>0, <1>2, <1>4, NotAwaited DEF ReceiveReply, opVars
<1>5. TaskStep(t) => Push(t) \/ ReceiveReply(t) \/ (UNCHANGED <<queue, cur, reply>> /\ pc[t] # "wait")
  BY DEF TaskStep, AcquireSession, AcquireFails, CheckNested, Reserve, SendFails, CloseReturns,
         chanVars, opVars
<1>6. Caller(t) \/ RollbackTimeout(t) => Forget(t) \/ (UNCHANGED <<queue, cur, reply>> /\ pc[t] # "wait")
  BY DEF Caller, StartPlain, StartTransaction, StartInTransaction, EndTransaction, DropTransaction,
         DropWithoutRuntime, Abandon, Close, RollbackTimeout, chanVars, opVars
<1> QED
  BY <1>1, <1>3, <1>4, <1>5, <1>6

\* A task step keeps every request that has a caller awaited.
LEMMA TaskCalls ==
  ASSUME TypeInv, ShapeInv, CallInv, NEW t \in Tasks, TaskStep(t) \/ Caller(t) \/ RollbackTimeout(t)
  PROVE  CallInv'
<1>1. \A u \in Tasks \ {t} : /\ pc'[u] = pc[u] /\ sql'[u] = sql[u]
                             /\ txn'[u] = txn[u] /\ reply'[u] = reply[u]
  BY TaskAlone
<1>2. UNCHANGED <<dpc, outcome>> /\ SameRequest
  BY TaskKeeps DEF TypeInv
<1>3. \A i \in DOMAIN queue : queue[i] \in Request
  BY ElementOfSeq, LenProperties DEF TypeInv, TypeOK
<1>4. (cur.open => cur.task \in Tasks) /\ (InHand => cur.task \in Tasks)
  BY DEF InHand, TypeInv, TypeOK, CurKnown, Request, NoRequest
<1>5. \A r : r.task \in Tasks \ {t} /\ Awaited(r) => Awaited(r)'
  BY <1>1 DEF Awaited
<1>6. (Live' <=> Live) /\ (InHand' <=> InHand)
  BY <1>2 DEF Live, InHand
<1>7. CASE Push(t)
  <2>1. PICK n : /\ n \notin DOMAIN queue /\ DOMAIN queue' = DOMAIN queue \cup {n}
                 /\ \A i \in DOMAIN queue : queue'[i] = queue[i]
                 /\ queue'[n].task = t /\ queue'[n].sql = sql[t] /\ queue'[n].open
                 /\ queue'[n].lease <=> txn[t] = "none"
    BY <1>7, QueueGrows
  <2>2. pc[t] = "reserved" /\ pc'[t] = "wait" /\ UNCHANGED <<sql, txn, reply, cur>>
    BY <1>7 DEF Push, opVars, TypeInv, TypeOK
  <2>3. NoOpen(t) /\ reply[t] = "none"
    BY <2>2, NotAwaited DEF CallInv
  <2>4. Awaited(queue[n])'
    BY <2>1, <2>2, <2>3 DEF Awaited
  <2>5. \A i \in DOMAIN queue' : queue'[i].open => Awaited(queue[i])'
    <3> SUFFICES ASSUME NEW i \in DOMAIN queue', queue'[i].open, i # n PROVE Awaited(queue[i])'
      BY <2>4
    <3>1. i \in DOMAIN queue /\ queue'[i] = queue[i] /\ queue[i].task \in Tasks \ {t}
      BY <1>3, <2>1, <2>3 DEF NoOpen, Request
    <3> QED
      BY <3>1, <1>1, <2>2 DEF Awaited, CallInv
  <2>6. \A i, j \in DOMAIN queue' :
          queue'[i].open /\ queue'[j].open /\ queue'[i].task = queue'[j].task => i = j
    BY <2>1, <2>3 DEF CallInv, NoOpen
  <2>7. cur'.open => Awaited(cur)' /\ \A i \in DOMAIN queue' : queue'[i].open => queue'[i].task # cur'.task
    <3> SUFFICES ASSUME cur.open
                 PROVE  Awaited(cur)' /\ \A i \in DOMAIN queue' : queue'[i].open => queue'[i].task # cur.task
      BY <2>2
    <3>1. cur.task \in Tasks \ {t}
      BY <1>4, <2>3 DEF NoOpen
    <3>2. Awaited(cur)'
      BY <1>1, <2>2, <3>1 DEF Awaited, CallInv
    <3> QED
      BY <2>1, <3>1, <3>2 DEF CallInv
  <2>8. \A u \in Tasks : pc'[u] # "wait" => reply'[u] = "none"
    BY <1>1, <2>2 DEF CallInv
  <2>9. \A i \in DOMAIN queue' : ~queue'[i].lease => queue'[i].sql # "probe"
    <3>0. TxnShape(t) /\ txn[t] \in {"none", "opening", "held", "ending", "dropping"}
      BY DEF ShapeInv, TypeInv, TypeOK
    <3>1. txn[t] # "none" => sql[t] # "probe"
      BY <2>2, <3>0 DEF TxnShape
    <3> QED
      BY <2>1, <3>1 DEF CallInv
  <2> QED
    BY <1>2, <1>6, <2>2, <2>5, <2>6, <2>7, <2>8, <2>9 DEF CallInv
<1>8. CASE ~Push(t)
  <2>1. /\ NoOpen(t)' /\ reply'[t] = "none"
        /\ SameQueue /\ \A i \in DOMAIN queue : queue[i].task # t => queue'[i] = queue[i]
        /\ cur.task # t => cur' = cur
    BY <1>8, TaskRequests
  <2>2. \A i \in DOMAIN queue' : queue'[i].open =>
          queue'[i] = queue[i] /\ queue[i].open /\ queue[i].task \in Tasks \ {t}
    BY <1>3, <2>1 DEF SameQueue, NoOpen, Request
  <2>3. \A i \in DOMAIN queue' : queue'[i].open => Awaited(queue[i])'
    <3> SUFFICES ASSUME NEW i \in DOMAIN queue', queue'[i].open PROVE Awaited(queue[i])'
      OBVIOUS
    <3>1. i \in DOMAIN queue /\ queue'[i] = queue[i] /\ queue[i].open /\ queue[i].task \in Tasks \ {t}
      BY <2>1, <2>2 DEF SameQueue
    <3> QED
      BY <3>1, <1>1 DEF Awaited, CallInv
  <2>4. \A i, j \in DOMAIN queue' :
          queue'[i].open /\ queue'[j].open /\ queue'[i].task = queue'[j].task => i = j
    BY <2>1, <2>2 DEF CallInv, SameQueue
  <2>5. cur'.open => cur' = cur /\ cur.open /\ cur.task \in Tasks \ {t}
    BY <1>2, <1>4, <2>1 DEF NoOpen, SameRequest
  <2>6. cur'.open => Awaited(cur)' /\ \A i \in DOMAIN queue' : queue'[i].open => queue'[i].task # cur'.task
    <3> SUFFICES ASSUME cur'.open
                 PROVE  Awaited(cur)' /\ \A i \in DOMAIN queue' : queue'[i].open => queue'[i].task # cur'.task
      OBVIOUS
    <3>1. Awaited(cur)'
      BY <1>1, <2>5 DEF Awaited, CallInv
    <3> QED
      BY <2>1, <2>2, <2>5, <3>1 DEF CallInv, SameQueue
  <2>7. \A u \in Tasks : pc'[u] # "wait" => reply'[u] = "none"
    BY <1>1, <2>1 DEF CallInv
  <2>8. Live' /\ cur'.sql # "probe" => reply'[cur'.task] = "none"
    BY <1>1, <1>2, <1>4, <1>6, <2>1 DEF CallInv, SameRequest, Live, InHand
  <2>9. \A i \in DOMAIN queue' : ~queue'[i].lease => queue'[i].sql # "probe"
    BY <2>1 DEF CallInv, SameQueue
  <2>10. InHand' /\ ~cur'.lease => cur'.sql # "probe"
    BY <1>2, <1>6 DEF CallInv, SameRequest
  <2> QED
    BY <1>2, <2>3, <2>4, <2>6, <2>7, <2>8, <2>9, <2>10 DEF CallInv
<1> QED BY <1>7, <1>8

\* The driver answers the request in hand, and drops the others with an error.
LEMMA DriverCalls ==
  ASSUME TypeInv, FlagInv, CallInv, Driver \/ DropConnection PROVE CallInv'
<1> USE DEF Live, InHand
<1>0. UNCHANGED <<pc, sql, txn>>
  BY OthersAlone
<1>2. ASSUME UNCHANGED <<queue, cur, reply>>, Live' => Live \/ cur.sql = "probe", InHand' => InHand,
             dpc' \in {"cancel", "cleanup"} => outcome' # "ok"
      PROVE  CallInv'
  BY <1>0, <1>2 DEF CallInv, Awaited
<1>3. ASSUME queue # <<>>, queue' = Tail(queue)
      PROVE  /\ \A i \in DOMAIN queue' : i + 1 \in DOMAIN queue /\ queue'[i] = queue[i + 1] /\ i + 1 # 1 /\ i \in Nat
             /\ 1 \in DOMAIN queue /\ Head(queue) = queue[1] /\ Head(queue) \in Request
  BY <1>3, QueueShrinks DEF TypeInv
<1>4. CASE DrvPoll \/ DrvPark \/ DrvRecvNone \/ DrvProbe \/ DrvDrained \/ DrvClose
  <2>1. /\ UNCHANGED <<queue, cur, reply>>
        /\ dpc' \in {"drain", "recv", "parked", "close", "done"} \/ (dpc = "probe" /\ dpc' = "reply")
    BY <1>4 DEF DrvPoll, DrvPark, DrvRecvNone, DrvProbe, DrvDrained, DrvClose, chanVars, taskVars, opVars
  <2> QED
    BY <1>2, <2>1 DEF FlagInv, FlagCopied
<1>5. CASE DrvDeadline \/ DrvInterrupted \/ DrvAbandoned
  <2>1. UNCHANGED <<queue, cur, reply>> /\ dpc = "run" /\ dpc' = "cancel" /\ outcome' # "ok"
    BY <1>5 DEF DrvDeadline, DrvInterrupted, DrvAbandoned, Interrupt, chanVars, taskVars
  <2> QED
    BY <1>2, <2>1
<1>6. CASE DrvSendCancel \/ DrvWrite
  <2>1. /\ UNCHANGED <<queue, cur, reply, outcome>>
        /\ (dpc = "cancel" /\ dpc' = "cleanup") \/ (dpc' = dpc)
    BY <1>6 DEF DrvSendCancel, DrvWrite, chanVars, taskVars, opVars
  <2> QED
    BY <1>2, <2>1 DEF CallInv
<1>7. CASE DrvCleanupTimeout \/ DrvWriteFails \/ DrvRead
  <2>1. /\ UNCHANGED <<queue, cur, reply>> /\ dpc \in {"run", "cancel", "cleanup"}
        /\ dpc' = "reply" \/ (UNCHANGED <<dpc, outcome>>)
    BY <1>7 DEF DrvCleanupTimeout, UnderCleanupTimeout, DrvWriteFails, DrvRead, Driving, FutureDone,
                chanVars, taskVars
  <2> QED
    BY <1>2, <2>1 DEF CallInv
<1>8. CASE DrvRecv
  <2>1. /\ dpc = "recv" /\ queue # <<>> /\ queue' = Tail(queue) /\ cur' = Head(queue) /\ reply' = reply
        /\ Head(queue).open \/ Head(queue).sql = "probe"
        /\ dpc' \in {"probe", "run"}
    BY <1>8 DEF DrvRecv, taskVars
  <2>2. /\ \A i \in DOMAIN queue' : i + 1 \in DOMAIN queue /\ queue'[i] = queue[i + 1] /\ i + 1 # 1 /\ i \in Nat
        /\ 1 \in DOMAIN queue /\ cur' = queue[1]
    BY <1>3, <2>1
  <2>3. \A i \in DOMAIN queue' : queue'[i].open => Awaited(queue[i])'
    BY <1>0, <2>1, <2>2 DEF CallInv, Awaited
  <2>4. \A i, j \in DOMAIN queue' :
          queue'[i].open /\ queue'[j].open /\ queue'[i].task = queue'[j].task => i = j
    <3> SUFFICES ASSUME NEW i \in DOMAIN queue', NEW j \in DOMAIN queue',
                        queue'[i].open /\ queue'[j].open /\ queue'[i].task = queue'[j].task
                 PROVE  i = j
      OBVIOUS
    <3>1. i + 1 = j + 1
      BY <2>2 DEF CallInv
    <3> QED
      BY <2>2, <3>1
  <2>5. cur'.open => Awaited(cur)' /\ \A i \in DOMAIN queue' : queue'[i].open => queue'[i].task # cur'.task
    <3>1. cur'.open => Awaited(cur)'
      BY <1>0, <2>1, <2>2 DEF CallInv, Awaited
    <3> QED
      BY <2>2, <3>1 DEF CallInv
  <2>6. cur'.sql # "probe" => reply'[cur'.task] = "none"
    BY <2>1, <2>2 DEF CallInv, Awaited
  <2>7. \A t \in Tasks : pc'[t] # "wait" => reply'[t] = "none"
    BY <1>0, <2>1 DEF CallInv
  <2>8. /\ \A i \in DOMAIN queue' : ~queue'[i].lease => queue'[i].sql # "probe"
        /\ ~cur'.lease => cur'.sql # "probe"
    BY <2>2 DEF CallInv
  <2> QED
    BY <2>1, <2>3, <2>4, <2>5, <2>6, <2>7, <2>8 DEF CallInv
<1>9. ASSUME queue # <<>>, queue' = Tail(queue), cur' = cur, dpc' \in {"select", "drain"},
             \A u \in Tasks : reply'[u] = reply[u] \/ (Head(queue).open /\ Head(queue).task = u)
      PROVE  CallInv'
  <2>1. /\ \A i \in DOMAIN queue' : i + 1 \in DOMAIN queue /\ queue'[i] = queue[i + 1] /\ i + 1 # 1 /\ i \in Nat
        /\ 1 \in DOMAIN queue /\ Head(queue) = queue[1]
    BY <1>3, <1>9
  <2>2. \A i \in DOMAIN queue : queue[i] \in Request
    BY ElementOfSeq, LenProperties DEF TypeInv, TypeOK
  <2>3. \A i \in DOMAIN queue' : queue'[i].open => reply'[queue'[i].task] = reply[queue'[i].task]
    BY <1>9, <2>1, <2>2 DEF CallInv, Request
  <2>4. \A i \in DOMAIN queue' : queue'[i].open => Awaited(queue[i])'
    BY <1>0, <2>1, <2>3 DEF CallInv, Awaited
  <2>5. \A i, j \in DOMAIN queue' :
          queue'[i].open /\ queue'[j].open /\ queue'[i].task = queue'[j].task => i = j
    <3> SUFFICES ASSUME NEW i \in DOMAIN queue', NEW j \in DOMAIN queue',
                        queue'[i].open /\ queue'[j].open /\ queue'[i].task = queue'[j].task
                 PROVE  i = j
      OBVIOUS
    <3>1. i + 1 = j + 1
      BY <2>1 DEF CallInv
    <3> QED
      BY <2>1, <3>1
  <2>6. ASSUME cur.open
        PROVE  Awaited(cur)' /\ \A i \in DOMAIN queue' : queue'[i].open => queue'[i].task # cur.task
    <3>1. cur.task \in Tasks /\ (Head(queue).open => Head(queue).task # cur.task)
      BY <2>1, <2>6 DEF TypeInv, TypeOK, CurKnown, Request, NoRequest, CallInv
    <3>2. reply'[cur.task] = reply[cur.task]
      BY <1>9, <3>1
    <3>3. Awaited(cur)'
      BY <1>0, <1>9, <2>6, <3>2 DEF Awaited, CallInv
    <3> QED
      BY <2>1, <2>6, <3>3 DEF CallInv
  <2>7. \A u \in Tasks : pc'[u] # "wait" => reply'[u] = "none"
    BY <1>0, <1>9, <2>1 DEF CallInv, Awaited
  <2>8. \A i \in DOMAIN queue' : ~queue'[i].lease => queue'[i].sql # "probe"
    BY <2>1 DEF CallInv
  <2> QED
    BY <1>9, <2>4, <2>5, <2>6, <2>7, <2>8 DEF CallInv
<1>10. CASE DrvSkip \/ DrvDrainOne
  <2>1. /\ queue # <<>> /\ queue' = Tail(queue) /\ cur' = cur /\ dpc' \in {"select", "drain"}
        /\ reply' = reply \/ Answer(Head(queue), "closed")
    BY <1>10 DEF DrvSkip, DrvDrainOne, taskVars, opVars
  <2>2. \A u \in Tasks : reply'[u] = reply[u] \/ (Head(queue).open /\ Head(queue).task = u)
    BY <2>1 DEF Answer, TypeInv, TypeOK
  <2> QED
    BY <1>9, <2>1, <2>2
<1>11. CASE DrvReply
  <2>1. /\ dpc = "reply" /\ dpc' = "release" /\ queue' = queue /\ Answer(cur, outcome)
        /\ cur' = [cur EXCEPT !.open = FALSE] /\ cur \in Request
    BY <1>11 DEF DrvReply, chanVars, TypeInv, CurKnown
  <2>2. ~cur'.open /\ cur'.lease = cur.lease /\ cur'.sql = cur.sql
    BY <2>1 DEF Request
  <2>3. \A u \in Tasks : reply'[u] = reply[u] \/ (cur.open /\ cur.task = u)
    BY <2>1 DEF Answer, TypeInv, TypeOK
  <2>4. \A i \in DOMAIN queue : queue[i] \in Request
    BY ElementOfSeq, LenProperties DEF TypeInv, TypeOK
  <2>5. \A i \in DOMAIN queue : queue[i].open => Awaited(queue[i])'
    BY <1>0, <2>1, <2>3, <2>4 DEF CallInv, Awaited, Request
  <2>6. \A u \in Tasks : pc'[u] # "wait" => reply'[u] = "none"
    BY <1>0, <2>3 DEF CallInv, Awaited
  <2>7. ~cur.lease => cur.sql # "probe"
    BY <2>1 DEF CallInv
  <2> QED
    BY <2>1, <2>2, <2>5, <2>6, <2>7 DEF CallInv
<1>12. CASE DrvRelease
  <2>1. dpc' \in {"select", "drain"} /\ UNCHANGED <<queue, reply>> /\ ~cur'.open
    BY <1>12 DEF DrvRelease, taskVars, NoRequest
  <2> QED
    BY <1>0, <2>1 DEF CallInv, Awaited
<1>13. CASE DropConnection
  <2>1. /\ dpc' = "done" /\ queue' = <<>> /\ ~cur'.open
        /\ \A u \in Tasks : \/ reply'[u] = reply[u]
                            \/ cur.open /\ cur.task = u
                            \/ \E i \in DOMAIN queue : queue[i].open /\ queue[i].task = u
    BY <1>13 DEF DropConnection, NoRequest
  <2>2. DOMAIN queue' = {}
    BY <2>1
  <2>3. \A u \in Tasks : pc'[u] # "wait" => reply'[u] = "none"
    BY <1>0, <2>1 DEF CallInv, Awaited
  <2> QED
    BY <2>1, <2>2, <2>3 DEF CallInv
<1> QED
  BY <1>4, <1>5, <1>6, <1>7, <1>8, <1>10, <1>11, <1>12, <1>13 DEF Driver

\* Every step keeps calls and requests together.
LEMMA StepCalls ==
  ASSUME TypeInv, FlagInv, ShapeInv, CallInv, [Next]_vars PROVE CallInv'
<1>1. ASSUME UNCHANGED <<pc, sql, txn, reply, queue, cur, dpc, outcome>> PROVE CallInv'
  BY <1>1 DEF CallInv, Awaited, Live, InHand
<1>2. CASE UNCHANGED vars \/ DropClients \/ CancelLoad \/ (\E g \in loads : CancelRaise(g))
  BY <1>1, <1>2 DEF vars, DropClients, CancelLoad, CancelRaise, chanVars, taskVars, opVars
<1>3. CASE Backend
  <2>1. UNCHANGED <<chanVars, taskVars, dpc, opVars>>
    BY <1>3 DEF Backend, SrvRow, SrvOk, SrvError, SrvCancel, SrvDie, SrvStray
  <2> QED
    BY <1>1, <2>1 DEF chanVars, taskVars, opVars
<1> QED
  BY <1>2, <1>3, TaskCalls, DriverCalls DEF Next

\* At first no call is in progress.
LEMMA InitCalls ==
  ASSUME Init PROVE ShapeInv /\ CallInv
<1>1. DOMAIN queue = {} /\ ~cur.open /\ dpc = "select"
  BY DEF Init, NoRequest
<1>2. \A t \in Tasks : pc[t] = "idle" /\ txn[t] = "none" /\ reply[t] = "none"
  BY DEF Init
<1> QED
  BY <1>1, <1>2 DEF ShapeInv, TxnShape, CallInv, Live, InHand

-----------------------------------------------------------------------------
(* Transactions of the backend and Transactions of the clients *)

InTx(t) == srvTx = [task |-> t, guarded |-> TRUE]

\* The driver will take no further request.  It may still take one when the
\* client is stopped between the poll of the flag and recv.
Doomed ==
  \/ dpc \in {"drain", "close", "done"}
  \/ Finished /\ ~reusable
  \/ closing /\ dpc # "recv"

Queued(t) == \E i \in DOMAIN queue : queue[i].open /\ queue[i].task = t
Pending(t) == pc[t] \in {"send", "reserved"} \/ Queued(t)

\* A request sent under a guard is driven for a Transaction that still exists;
\* who abandoned its BEGIN, COMMIT or ROLLBACK has turned to dropping it
CurTxn ==
  Live /\ ~cur.lease /\ ~Doomed =>
    /\ Holds(cur.task)
    /\ cur.sql \in {"begin", "commit", "rollback"} => cur.open \/ txn[cur.task] = "dropping"
    /\ cur.sql = "begin" => txn[cur.task] \in {"opening", "dropping"}
    /\ cur.sql = "stmt" => txn[cur.task] \in {"held", "ending", "dropping"}
    /\ cur.sql \in {"commit", "rollback"} => txn[cur.task] \in {"ending", "dropping"}

\* The transaction a request meets when the backend starts it
Meets(r) ==
  /\ ~r.lease /\ r.sql \in {"stmt", "commit"} => InTx(r.task)
  /\ ~r.lease /\ r.sql = "begin" => srvTx = NoTx \/ closing
  /\ srvTx.guarded /\ (r.lease \/ r.task # srvTx.task) => closing
CurMeets == Busy /\ ~sent /\ alive => Meets(cur)
SrvMeets == srvGen # 0 => Meets(srvReq)

\* What success of the request in hand has made of it
Done ==
  /\ cur.sql = "begin" => srvTx = [task |-> cur.task, guarded |-> ~cur.lease]
  /\ cur.sql \in {"commit", "rollback"} => srvTx = NoTx
CurDone ==
  /\ Busy /\ alive /\ (\E i \in DOMAIN wire : wire[i].kind = "ok") => Done
  /\ dpc = "reply" /\ alive /\ reusable /\ outcome = "ok" => Done

\* The Transaction of t and the transaction of the backend
TxnAt(t) ==
  /\ txn[t] = "held" => InTx(t)
  /\ txn[t] = "ending" /\ Pending(t) => InTx(t)
  /\ txn[t] = "opening" /\ reply[t] = "ok" => InTx(t)
  /\ txn[t] \in {"ending", "dropping"} /\ reply[t] = "ok" => srvTx = NoTx
  /\ txn[t] = "opening" /\ Pending(t) /\ ~closing => srvTx = NoTx /\ ~Live
TxnAgree == ~Doomed /\ alive => \A t \in Tasks : TxnAt(t)

\* An open transaction of a guard still has its guard
Owned == ~Doomed /\ ~closing /\ alive /\ srvTx.guarded => Holds(srvTx.task)

TxInv == CurTxn /\ CurMeets /\ SrvMeets /\ CurDone /\ TxnAgree /\ Owned

\* A guard excludes every other owner of the session.
LEMMA OnlyGuard ==
  ASSUME LeaseInv, NEW t \in Tasks, IsGuard(t)
  PROVE  /\ ~cur.lease /\ \A i \in DOMAIN queue : ~queue[i].lease
         /\ \A u \in Tasks : IsGuard(u) => u = t
  BY OneOwner DEF Owner

\* A task step keeps Transactions and the backend in agreement.
LEMMA TaskTx ==
  ASSUME TypeInv, FlagInv, LeaseInv, ShapeInv, CallInv, TxInv,
         NEW t \in Tasks, TaskStep(t) \/ Caller(t) \/ RollbackTimeout(t)
  PROVE  TxInv'
<1>1. \A u \in Tasks \ {t} : /\ pc'[u] = pc[u] /\ sql'[u] = sql[u]
                             /\ txn'[u] = txn[u] /\ reply'[u] = reply[u]
  BY TaskAlone
<1>2. /\ UNCHANGED <<transaction, dpc, sent, outcome, reusable, sessTx, alive, srvGen, srvReq, srvTx, wire>>
      /\ SameRequest
  BY TaskKeeps DEF TypeInv
<1>3. Move(t) /\ Stops(t)
  BY TaskMoves
<1>4. /\ closing => closing'
      /\ Doomed => Doomed'
      /\ (Live' <=> Live) /\ (Busy' <=> Busy) /\ (Live => dpc # "recv")
  BY <1>2, <1>3 DEF Stops, Doomed, Live, Busy, Finished
<1>5. /\ \A u \in Tasks \ {t} : Queued(u)' => Queued(u)
      /\ Queued(t)' => Push(t)
      /\ reply'[t] = "none"
      /\ cur.task # t => cur' = cur
  <2>1. CASE Push(t)
    <3>1. PICK n : /\ DOMAIN queue' = DOMAIN queue \cup {n}
                   /\ \A i \in DOMAIN queue : queue'[i] = queue[i]
                   /\ queue'[n].task = t
      BY <2>1, QueueGrows
    <3>2. pc[t] = "reserved" /\ UNCHANGED <<reply, cur>>
      BY <2>1 DEF Push, opVars
    <3> QED
      BY <2>1, <3>1, <3>2 DEF Queued, CallInv
  <2>2. CASE ~Push(t)
    BY <2>2, TaskRequests DEF NoOpen, SameQueue, Queued
  <2> QED BY <2>1, <2>2
<1>6. \A u \in Tasks \ {t} : (Holds(u)' <=> Holds(u)) /\ (Pending(u)' => Pending(u))
  BY <1>1, <1>5 DEF Holds, Pending
<1>7. CurMeets' /\ SrvMeets' /\ CurDone'
  <2>2. CurMeets'
    BY <1>2, <1>4 DEF TxInv, CurMeets, Meets, InTx, SameRequest
  <2>3. SrvMeets'
    BY <1>2, <1>4 DEF TxInv, SrvMeets, Meets, InTx
  <2>4. CurDone'
    BY <1>2, <1>4 DEF TxInv, CurDone, Done, SameRequest
  <2> QED BY <2>2, <2>3, <2>4
<1>8. ASSUME NEW u \in Tasks \ {t}, TxnAt(u) PROVE TxnAt(u)'
  BY <1>1, <1>2, <1>4, <1>6, <1>8 DEF TxnAt, InTx
<1>9. ASSUME ~Doomed, alive, ~closing, txn[t] = "opening", pc[t] = "check", ~transaction
      PROVE  srvTx = NoTx /\ ~Live
  <2>1. ~cur.lease /\ \A u \in Tasks : IsGuard(u) => u = t
    BY <1>9, OnlyGuard DEF IsGuard
  <2>2. ~Live
    BY <1>9, <2>1 DEF TxInv, CurTxn, Holds, IsGuard
  <2>3. Resting \/ (Finished /\ reusable /\ dpc = "release")
    BY <1>9, <2>2 DEF Doomed, Live, Resting, Finished, TypeInv, TypeOK
  <2>4. transaction = sessTx /\ Truth
    BY <2>3 DEF FlagInv, FlagCopied
  <2> QED
    BY <1>9, <2>2, <2>4 DEF Truth
<1>10. ASSUME ~Doomed', alive PROVE TxnAt(t)'
  <2>1. TxnAt(t)
    BY <1>4, <1>10 DEF TxInv, TxnAgree
  <2>2. Pending(t)' => pc'[t] \in {"send", "reserved"} \/ Push(t)
    BY <1>5 DEF Pending
  <2>3. Push(t) => pc[t] = "reserved" /\ pc'[t] = "wait" /\ UNCHANGED txn
    BY DEF Push, TypeInv, TypeOK
  <2>4. txn'[t] = "held" => InTx(t)
    BY <1>3, <2>1 DEF Move, Ends, Opens, Locks, Begins, Sends, Keeps, Opened, Finishes, Drops, TxnAt
  <2>5. txn'[t] = "ending" /\ Pending(t)' => InTx(t)
    BY <1>3, <2>1, <2>2, <2>3
       DEF Move, Ends, Opens, Locks, Begins, Sends, Keeps, Opened, Finishes, Drops, TxnAt, Pending
  <2>6. txn'[t] = "opening" /\ Pending(t)' /\ ~closing => srvTx = NoTx /\ ~Live
    <3>1. CASE Begins(t)
      BY <1>4, <1>9, <1>10, <3>1 DEF Begins
    <3>2. CASE ~Begins(t)
      BY <1>3, <2>1, <2>2, <2>3, <3>2
         DEF Move, Ends, Opens, Locks, Sends, Keeps, Opened, Finishes, Drops, TxnAt, Pending
    <3> QED BY <3>1, <3>2
  <2> QED
    BY <1>2, <1>4, <1>5, <2>4, <2>5, <2>6 DEF TxnAt, InTx
<1>11. CurTxn'
  <2> SUFFICES ASSUME Live, ~cur.lease, ~Doomed' PROVE CurTxn'
    BY <1>2, <1>4 DEF CurTxn, SameRequest
  <2>1. ~Doomed /\ ~closing'
    BY <1>2, <1>4 DEF Doomed
  <2>2. /\ Holds(cur.task)
        /\ cur.sql \in {"begin", "commit", "rollback"} => cur.open \/ txn[cur.task] = "dropping"
        /\ cur.sql = "begin" => txn[cur.task] \in {"opening", "dropping"}
        /\ cur.sql = "stmt" => txn[cur.task] \in {"held", "ending", "dropping"}
        /\ cur.sql \in {"commit", "rollback"} => txn[cur.task] \in {"ending", "dropping"}
    BY <2>1 DEF TxInv, CurTxn
  <2>3. CASE cur.task # t
    <3>1. cur' = cur /\ cur.task \in Tasks \ {t} /\ Holds(cur.task)'
      BY <1>5, <1>6, <2>2, <2>3 DEF Holds
    <3> QED
      BY <1>1, <2>2, <3>1 DEF CurTxn
  <2>4. CASE cur.task = t
    <3>1. reply[t] = "none" /\ cur.sql # "probe"
      BY <2>4 DEF CallInv, Live, InHand
    <3>2. cur.open => pc[t] = "wait"
      BY <2>4 DEF CallInv, Awaited
    <3>3. Sends(t) \/ Keeps(t) \/ Finishes(t) \/ Drops(t)
      BY <1>3, <2>1, <2>2, <2>4, <3>1 DEF Move, Ends, Opens, Locks, Begins, Opened, Holds
    <3>4. /\ Holds(t)'
          /\ cur.sql \in {"begin", "commit", "rollback"} => txn'[t] = "dropping"
          /\ cur.sql = "begin" => txn'[t] \in {"opening", "dropping"}
          /\ cur.sql = "stmt" => txn'[t] \in {"held", "ending", "dropping"}
          /\ cur.sql \in {"commit", "rollback"} => txn'[t] \in {"ending", "dropping"}
      BY <2>2, <2>4, <3>2, <3>3 DEF Sends, Keeps, Finishes, Drops, Holds
    <3> QED
      BY <1>2, <2>4, <3>4 DEF CurTxn, SameRequest
  <2> QED BY <2>3, <2>4
<1>12. Owned'
  <2> SUFFICES ASSUME ~Doomed', ~closing', alive, srvTx.guarded PROVE Holds(srvTx.task)'
    BY <1>2 DEF Owned
  <2>1. Holds(srvTx.task) /\ TxnAt(t)
    BY <1>4 DEF TxInv, Owned, TxnAgree
  <2>2. CASE srvTx.task # t
    BY <1>1, <1>2, <2>1, <2>2 DEF Holds
  <2>3. CASE srvTx.task = t
    <3>1. ~Ends(t)
      BY <2>1, <2>3 DEF Ends, TxnAt, NoTx
    <3> QED
      BY <1>2, <1>3, <2>1, <2>3, <3>1
         DEF Move, Opens, Locks, Begins, Sends, Keeps, Opened, Finishes, Drops, Holds
  <2> QED BY <2>2, <2>3
<1> QED
  BY <1>2, <1>4, <1>7, <1>8, <1>10, <1>11, <1>12 DEF TxInv, TxnAgree

\* A driver that is not doomed after a step was not before it: once it is, it
\* takes no further request.
LEMMA StaysDoomed ==
  ASSUME TypeInv, Doomed, Driver \/ DropConnection PROVE Doomed'
<1>0. closing' = closing
  BY OthersAlone
<1>1. CASE dpc \in {"drain", "close", "done"}
  <2>1. dpc' \in {"drain", "close", "done"}
    BY <1>1 DEF Driver, DropConnection, DrvPoll, DrvRecv, DrvRecvNone, DrvPark, DrvProbe, DrvSkip,
                DrvDeadline, DrvInterrupted, DrvAbandoned, DrvSendCancel, DrvCleanupTimeout,
                UnderCleanupTimeout, DrvWrite, DrvWriteFails, DrvRead, Driving, DrvReply, DrvRelease,
                DrvDrainOne, DrvDrained, DrvClose
  <2> QED
    BY <2>1 DEF Doomed
<1>2. CASE Finished /\ ~reusable
  <2>1. (Finished' /\ reusable' = reusable) \/ dpc' \in {"drain", "done"}
    BY <1>2 DEF Driver, DropConnection, DrvPoll, DrvRecv, DrvRecvNone, DrvPark, DrvProbe, DrvSkip,
                DrvDeadline, DrvInterrupted, DrvAbandoned, DrvSendCancel, DrvCleanupTimeout,
                UnderCleanupTimeout, DrvWrite, DrvWriteFails, DrvRead, Driving, DrvReply, DrvRelease,
                DrvDrainOne, DrvDrained, DrvClose, Finished
  <2> QED
    BY <1>2, <2>1 DEF Doomed
<1>3. CASE closing /\ dpc # "recv"
  <2>1. dpc' # "recv"
    BY <1>3 DEF Driver, DropConnection, DrvPoll, DrvRecv, DrvRecvNone, DrvPark, DrvProbe, DrvSkip,
                DrvDeadline, DrvInterrupted, DrvAbandoned, Interrupt, DrvSendCancel, DrvCleanupTimeout,
                DrvWrite, DrvWriteFails, DrvRead, FutureDone, DrvReply, DrvRelease, DrvDrainOne,
                DrvDrained, DrvClose
  <2> QED
    BY <1>0, <1>3, <2>1 DEF Doomed
<1> QED
  BY <1>1, <1>2, <1>3 DEF Doomed

\* Between requests, and while a request waits for its response
LEMMA LoopTx ==
  ASSUME TypeInv, WireInv, FlagInv, LeaseInv, CallInv, TxInv,
         \/ DrvPoll \/ DrvPark \/ DrvRecvNone \/ DrvSkip \/ DrvProbe
         \/ DrvDeadline \/ DrvInterrupted \/ DrvAbandoned \/ DrvSendCancel \/ DrvWrite
         \/ DrvCleanupTimeout \/ DrvWriteFails \/ DrvRelease
         \/ DrvDrainOne \/ DrvDrained \/ DrvClose \/ DropConnection
  PROVE  TxInv'
<1>0. UNCHANGED <<pc, sql, txn, closing>> /\ (Doomed => Doomed')
  BY OthersAlone, StaysDoomed DEF Driver
<1>1. \A u : Holds(u)' <=> Holds(u)
  BY <1>0 DEF Holds
<1>2. ASSUME UNCHANGED <<reply, alive, srvTx>>, \A u \in Tasks : Queued(u)' => Queued(u),
             ~Doomed' /\ Live' => Live
      PROVE  TxnAgree' /\ Owned'
  <2>1. ASSUME ~Doomed', alive', NEW u \in Tasks PROVE TxnAt(u)'
    <3>1. TxnAt(u)
      BY <1>0, <1>2, <2>1 DEF TxInv, TxnAgree
    <3>2. Pending(u)' => Pending(u)
      BY <1>0, <1>2 DEF Pending
    <3> QED
      BY <1>0, <1>2, <2>1, <3>1, <3>2 DEF TxnAt, InTx
  <2>2. Owned'
    BY <1>0, <1>1, <1>2 DEF TxInv, Owned
  <2> QED
    BY <2>1, <2>2 DEF TxnAgree
<1>3. ASSUME srvGen' = 0 \/ UNCHANGED <<srvGen, srvReq, srvTx>> PROVE SrvMeets'
  BY <1>0, <1>3 DEF TxInv, SrvMeets, Meets, InTx
<1>4. ASSUME Doomed', ~Busy', dpc' = "reply" => ~reusable',
             srvGen' = 0 \/ UNCHANGED <<srvGen, srvReq, srvTx>>
      PROVE  TxInv'
  BY <1>3, <1>4 DEF TxInv, CurTxn, CurMeets, CurDone, TxnAgree, Owned
<1>5. CASE DrvPoll \/ DrvPark \/ DrvRecvNone \/ DrvSkip \/ DrvRelease
  <2>1. /\ dpc' \in {"select", "recv", "parked", "drain"}
        /\ UNCHANGED <<reply, alive, srvTx, srvGen, srvReq>>
        /\ queue' = queue \/ (queue # <<>> /\ queue' = Tail(queue))
    BY <1>5 DEF DrvPoll, DrvPark, DrvRecvNone, DrvSkip, DrvRelease, taskVars, chanVars, srvVars
  <2>2. \A u \in Tasks : Queued(u)' => Queued(u)
    BY <2>1, QueueShrinks DEF Queued, TypeInv
  <2>3. ~Live' /\ ~Busy' /\ dpc' # "reply"
    BY <2>1 DEF Live, Busy
  <2> QED
    BY <1>2, <1>3, <2>1, <2>2, <2>3 DEF TxInv, CurTxn, CurMeets, CurDone
<1>6. CASE DrvCleanupTimeout \/ DrvWriteFails
  <2>1. dpc' = "reply" /\ ~reusable' /\ UNCHANGED <<srvGen, srvReq, srvTx>>
    <3>1. ~KeepsSession("fatal")
      BY DEF KeepsSession
    <3> QED
      BY <1>6, <3>1 DEF DrvCleanupTimeout, CleanupExpires, DrvWriteFails, FutureDone, srvVars
  <2> QED
    BY <1>4, <2>1 DEF Doomed, Finished, Busy
<1>7. CASE DrvDrainOne \/ DrvDrained \/ DrvClose \/ DropConnection
  <2>1. /\ dpc' \in {"drain", "close", "done"}
        /\ srvGen' = 0 \/ UNCHANGED <<srvGen, srvReq, srvTx>>
    BY <1>7 DEF DrvDrainOne, DrvDrained, DrvClose, DropConnection, Disconnect, srvVars
  <2> QED
    BY <1>4, <2>1 DEF Doomed, Busy
<1>8. CASE DrvDeadline \/ DrvInterrupted \/ DrvAbandoned \/ DrvSendCancel
  <2>1. /\ dpc \in {"run", "cancel"} /\ dpc' \in {"cancel", "cleanup"}
        /\ UNCHANGED <<reply, alive, srvTx, srvGen, srvReq, wire, queue, cur, sent>>
    BY <1>8 DEF DrvDeadline, DrvInterrupted, DrvAbandoned, Interrupt, DrvSendCancel, taskVars, chanVars,
                srvVars, opVars
  <2>2. Live /\ Live' /\ Busy /\ Busy' /\ dpc' # "reply"
    BY <2>1 DEF Live, Busy
  <2>3. CurTxn'
    BY <1>0, <1>1, <2>1, <2>2 DEF TxInv, CurTxn
  <2>4. CurMeets' /\ CurDone'
    BY <1>0, <2>1, <2>2 DEF TxInv, CurMeets, Meets, InTx, CurDone, Done
  <2>5. \A u \in Tasks : Queued(u)' => Queued(u)
    BY <2>1 DEF Queued
  <2> QED
    BY <1>2, <1>3, <2>1, <2>2, <2>3, <2>4, <2>5 DEF TxInv
<1>9. CASE DrvWrite
  <2>1. /\ dpc' = dpc /\ dpc \in {"run", "cleanup"} /\ ~sent /\ alive /\ sent' = TRUE
        /\ srvReq' = [cur EXCEPT !.open = TRUE] /\ cur \in Request
        /\ UNCHANGED <<reply, alive, srvTx, wire, queue, cur>>
    BY <1>9 DEF DrvWrite, Driving, chanVars, taskVars, TypeInv, CurKnown
  <2>2. srvReq'.task = cur.task /\ srvReq'.sql = cur.sql /\ srvReq'.lease = cur.lease
    BY <2>1 DEF Request
  <2>3. Live /\ Live' /\ Busy /\ Busy' /\ dpc' # "reply"
    BY <2>1 DEF Live, Busy
  <2>4. Meets(cur)
    BY <2>1, <2>3 DEF TxInv, CurMeets
  <2>5. SrvMeets'
    BY <1>0, <2>1, <2>2, <2>4 DEF SrvMeets, Meets, InTx
  <2>6. CurTxn'
    BY <1>0, <1>1, <2>1, <2>3 DEF TxInv, CurTxn
  <2>7. CurMeets' /\ CurDone'
    BY <2>1, <2>3 DEF TxInv, CurMeets, CurDone, Done
  <2>8. \A u \in Tasks : Queued(u)' => Queued(u)
    BY <2>1 DEF Queued
  <2> QED
    BY <1>2, <2>1, <2>3, <2>5, <2>6, <2>7, <2>8 DEF TxInv
<1>10. CASE DrvProbe
  <2>1. /\ dpc = "probe" /\ dpc' = "reply"
        /\ UNCHANGED <<reply, alive, srvTx, srvGen, srvReq, queue, cur>>
    BY <1>10 DEF DrvProbe, chanVars, taskVars, srvVars
  <2>2. cur.sql = "probe" /\ cur.lease
    BY <2>1 DEF FlagInv, FlagCopied, CallInv, InHand
  <2>3. \A u \in Tasks : ~IsGuard(u)
    BY <2>2, OnlyGuard
  <2>4. \A u \in Tasks : Pending(u) => pc[u] \in {"send", "reserved", "wait"}
    BY DEF Pending, Queued, CallInv, Awaited
  <2>5. \A u \in Tasks : (Pending(u)' <=> Pending(u)) /\ ~(txn[u] = "opening" /\ Pending(u))
    BY <1>0, <2>1, <2>3, <2>4 DEF Pending, Queued, IsGuard
  <2>6. ASSUME ~Doomed', alive', NEW u \in Tasks PROVE TxnAt(u)'
    <3>1. TxnAt(u)
      BY <1>0, <2>1, <2>6 DEF TxInv, TxnAgree
    <3> QED
      BY <1>0, <2>1, <2>5, <3>1 DEF TxnAt, InTx
  <2>7. Owned'
    BY <1>0, <1>1, <2>1 DEF TxInv, Owned
  <2>8. CurTxn' /\ CurMeets' /\ CurDone'
    BY <2>1, <2>2 DEF CurTxn, CurMeets, CurDone, Done, Busy
  <2> QED
    BY <1>3, <2>1, <2>6, <2>7, <2>8 DEF TxInv, TxnAgree
<1> QED
  BY <1>5, <1>6, <1>7, <1>8, <1>9, <1>10

\* The request that is taken meets the transaction it is for: its guard, if it
\* has one, owns the session, and the transaction of the backend with it.
LEMMA RecvTx ==
  ASSUME TypeInv, WireInv, LeaseInv, ShapeInv, CallInv, TxInv, DrvRecv PROVE TxInv'
<1>0. UNCHANGED <<pc, sql, txn, closing>>
  BY OthersAlone DEF Driver
<1>1. /\ dpc = "recv" /\ queue # <<>> /\ queue' = Tail(queue) /\ cur' = Head(queue)
      /\ Head(queue).open \/ Head(queue).sql = "probe"
      /\ dpc' = IF Head(queue).sql = "probe" THEN "probe" ELSE "run"
      /\ UNCHANGED <<reply, alive, srvTx, srvGen, srvReq, wire>>
  BY DEF DrvRecv, taskVars, srvVars
<1>2. /\ \A i \in DOMAIN queue' : i + 1 \in DOMAIN queue /\ queue'[i] = queue[i + 1] /\ i + 1 # 1
      /\ 1 \in DOMAIN queue /\ cur' = queue[1] /\ cur' \in Request
  BY <1>1, QueueShrinks DEF TypeInv
<1> DEFINE r == queue[1]
<1>3. ~Doomed /\ ~Live /\ srvGen = 0 /\ \A i \in DOMAIN wire : wire[i].kind # "ok"
  BY <1>1 DEF Doomed, Live, Finished, WireInv, Resting, Drained, EndIsLast
<1>4. ASSUME dpc' = "run", ~r.lease
      PROVE  /\ r.task \in Tasks /\ Queued(r.task) /\ pc[r.task] = "wait" /\ sql[r.task] = r.sql
             /\ txn[r.task] \in {"opening", "held", "ending", "dropping"} /\ TxnShape(r.task)
             /\ IsGuard(r.task)
  <2>1. r.task \in Tasks /\ r.open /\ Awaited(r)
    BY <1>1, <1>2, <1>4 DEF CallInv, Request
  <2>2. txn[r.task] \in {"opening", "held", "ending", "dropping"} /\ pc[r.task] = "wait"
    BY <1>4, <2>1 DEF Awaited, TypeInv, TypeOK
  <2> QED
    BY <1>2, <2>1, <2>2 DEF Awaited, Queued, ShapeInv, IsGuard
<1>5. CurTxn'
  <2> SUFFICES ASSUME dpc' = "run", ~r.lease PROVE CurTxn'
    BY <1>1, <1>2 DEF CurTxn, Live
  <2>1. r.open
    BY <1>1, <1>2
  <2>2. Holds(cur.task)'
    BY <1>0, <1>2, <1>4 DEF Holds
  <2> QED
    BY <1>0, <1>2, <1>4, <2>1, <2>2 DEF CurTxn, TxnShape
<1>6. CurMeets'
  <2> SUFFICES ASSUME dpc' = "run", alive PROVE Meets(r)
    BY <1>0, <1>1, <1>2 DEF CurMeets, Busy, Meets, InTx
  <2>1. \A u \in Tasks : TxnAt(u)
    BY <1>3 DEF TxInv, TxnAgree
  <2>2. ~r.lease => /\ r.sql = "stmt" => txn[r.task] = "held"
                    /\ r.sql = "commit" => txn[r.task] = "ending" /\ Pending(r.task)
                    /\ r.sql = "begin" => txn[r.task] = "opening" /\ Pending(r.task)
    BY <1>4 DEF TxnShape, Pending
  <2>3. /\ ~r.lease /\ r.sql \in {"stmt", "commit"} => InTx(r.task)
        /\ ~r.lease /\ r.sql = "begin" => srvTx = NoTx \/ closing
    BY <1>4, <2>1, <2>2 DEF TxnAt
  <2>4. ASSUME srvTx.guarded, ~closing PROVE ~r.lease /\ r.task = srvTx.task
    <3>1. srvTx.task \in Tasks /\ IsGuard(srvTx.task)
      BY <1>3, <2>4 DEF TxInv, Owned, Holds, IsGuard
    <3>2. ~r.lease /\ \A u \in Tasks : IsGuard(u) => u = srvTx.task
      BY <1>2, <3>1, OnlyGuard
    <3> QED
      BY <1>4, <3>2
  <2> QED
    BY <2>3, <2>4 DEF Meets
<1>7. SrvMeets' /\ CurDone'
  BY <1>1, <1>3 DEF SrvMeets, CurDone
<1>8. ASSUME ~Doomed', alive', NEW u \in Tasks PROVE TxnAt(u)'
  <2>1. TxnAt(u)
    BY <1>1, <1>3, <1>8 DEF TxInv, TxnAgree
  <2>2. Pending(u)' => Pending(u)
    BY <1>0, <1>2 DEF Pending, Queued
  <2>3. ASSUME txn[u] = "opening", Pending(u)', Live' PROVE FALSE
    <3>1. pc[u] \in {"send", "reserved", "wait"} /\ IsGuard(u)
      BY <2>2, <2>3 DEF Pending, Queued, CallInv, Awaited, IsGuard
    <3>2. dpc' = "run" /\ ~r.lease
      BY <1>1, <1>2, <2>3, <3>1, OnlyGuard DEF Live
    <3>3. r.open /\ r.task = u /\ pc[u] = "wait"
      BY <1>1, <1>2, <1>4, <3>1, <3>2, OnlyGuard
    <3>4. ~Queued(u)'
      BY <1>2, <3>3 DEF Queued, CallInv
    <3> QED
      BY <1>0, <2>3, <3>3, <3>4 DEF Pending
  <2> QED
    BY <1>0, <1>1, <2>1, <2>2, <2>3 DEF TxnAt, InTx
<1>9. Owned'
  BY <1>0, <1>1, <1>3 DEF TxInv, Owned, Holds
<1> QED
  BY <1>5, <1>6, <1>7, <1>8, <1>9 DEF TxInv, TxnAgree

\* A response that was read to its end has done what it says.
LEMMA ReadTx ==
  ASSUME TypeInv, CallInv, TxInv, DrvRead PROVE TxInv'
<1>0. UNCHANGED <<pc, sql, txn, closing>> /\ (Doomed => Doomed')
  BY OthersAlone, StaysDoomed DEF Driver
<1>1. /\ dpc \in {"run", "cleanup"} /\ sent /\ wire # <<>> /\ wire' = Tail(wire)
      /\ UNCHANGED <<queue, reply, cur, sent, alive, srvGen, srvReq, srvTx>>
      /\ dpc' \in {dpc, "reply"}
  BY DEF DrvRead, Driving, FutureDone, chanVars, taskVars
<1>2. /\ Head(wire) = wire[1] /\ 1 \in DOMAIN wire
      /\ \A i \in DOMAIN wire' : i + 1 \in DOMAIN wire /\ wire'[i] = wire[i + 1]
  BY <1>1, WireShrinks DEF TypeInv
<1>3. dpc' = "reply" /\ outcome' = "ok" => Head(wire).kind = "ok"
  BY <1>1 DEF DrvRead, FutureDone, CallInv
<1>4. Live /\ Live' /\ Busy
  BY <1>1 DEF Live, Busy
<1>5. CurDone'
  <2>1. Done' <=> Done
    BY <1>1 DEF Done
  <2>2. ASSUME alive, \E i \in DOMAIN wire : wire[i].kind = "ok" PROVE Done
    BY <1>4, <2>2 DEF TxInv, CurDone
  <2> QED
    BY <1>1, <1>2, <1>3, <2>1, <2>2 DEF CurDone
<1>6. CurTxn'
  BY <1>0, <1>1, <1>4 DEF TxInv, CurTxn, Holds
<1>7. CurMeets' /\ SrvMeets'
  BY <1>0, <1>1 DEF TxInv, CurMeets, SrvMeets, Meets, InTx
<1>8. ASSUME ~Doomed', alive', NEW u \in Tasks PROVE TxnAt(u)'
  <2>1. TxnAt(u)
    BY <1>0, <1>1, <1>8 DEF TxInv, TxnAgree
  <2>2. Pending(u)' <=> Pending(u)
    BY <1>0, <1>1 DEF Pending, Queued
  <2> QED
    BY <1>0, <1>1, <1>4, <2>1, <2>2 DEF TxnAt, InTx
<1>9. Owned'
  BY <1>0, <1>1 DEF TxInv, Owned, Holds
<1> QED
  BY <1>5, <1>6, <1>7, <1>8, <1>9 DEF TxInv, TxnAgree

\* A caller is told Ok only of what the backend has done.
LEMMA ReplyTx ==
  ASSUME TypeInv, ShapeInv, CallInv, TxInv, DrvReply PROVE TxInv'
<1>0. UNCHANGED <<pc, sql, txn, closing>> /\ (Doomed => Doomed')
  BY OthersAlone, StaysDoomed DEF Driver
<1>1. /\ dpc = "reply" /\ dpc' = "release" /\ Answer(cur, outcome) /\ cur \in Request
      /\ UNCHANGED <<queue, outcome, reusable, alive, srvGen, srvReq, srvTx, wire>>
  BY DEF DrvReply, chanVars, srvVars, TypeInv, CurKnown
<1>2. Live /\ ~Live' /\ ~Busy'
  BY <1>1 DEF Live, Busy
<1>3. CurTxn' /\ CurMeets' /\ CurDone'
  BY <1>1, <1>2 DEF CurTxn, CurMeets, CurDone
<1>4. SrvMeets'
  BY <1>0, <1>1 DEF TxInv, SrvMeets, Meets, InTx
<1>5. ASSUME ~Doomed', alive', NEW u \in Tasks PROVE TxnAt(u)'
  <2>1. TxnAt(u) /\ reusable /\ alive
    BY <1>0, <1>1, <1>5 DEF TxInv, TxnAgree, Doomed, Finished
  <2>2. Pending(u)' <=> Pending(u)
    BY <1>0, <1>1 DEF Pending, Queued
  <2>3. CASE ~(cur.open /\ cur.task = u)
    <3>1. reply'[u] = reply[u]
      BY <1>1, <2>3 DEF Answer, TypeInv, TypeOK, Request
    <3> QED
      BY <1>0, <1>1, <1>2, <2>1, <2>2, <3>1 DEF TxnAt, InTx
  <2>4. CASE cur.open /\ cur.task = u
    <3>1. reply'[u] = outcome
      BY <1>1, <2>4 DEF Answer, TypeInv, TypeOK
    <3>2. Awaited(cur) /\ TxnShape(u)
      BY <2>4 DEF CallInv, ShapeInv
    <3>3. outcome = "ok" => Done
      BY <1>1, <2>1 DEF TxInv, CurDone
    <3>4. txn[u] = "opening" /\ outcome = "ok" => InTx(u)
      <4>1. txn[u] = "opening" => cur.sql = "begin" /\ ~cur.lease
        BY <2>4, <3>2 DEF Awaited, TxnShape
      <4>2. ~cur.lease => [task |-> cur.task, guarded |-> ~cur.lease] = [task |-> cur.task, guarded |-> TRUE]
        BY <1>1 DEF Request
      <4> QED
        BY <2>4, <3>3, <4>1, <4>2 DEF Done, InTx
    <3>5. txn[u] \in {"ending", "dropping"} /\ outcome = "ok" => srvTx = NoTx
      BY <2>4, <3>2, <3>3 DEF Awaited, TxnShape, Done
    <3> QED
      BY <1>0, <1>1, <1>2, <2>1, <2>2, <3>1, <3>4, <3>5 DEF TxnAt, InTx
  <2> QED BY <2>3, <2>4
<1>6. Owned'
  BY <1>0, <1>1 DEF TxInv, Owned, Holds
<1> QED
  BY <1>3, <1>4, <1>5, <1>6 DEF TxInv, TxnAgree

\* A statement that succeeds changes the transaction for the guard that sent
\* it, or for no guard at all.
LEMMA OkTx ==
  ASSUME TypeInv, WireInv, FlagInv, LeaseInv, ShapeInv, CallInv, TxInv, SrvOk PROVE TxInv'
<1>0. UNCHANGED <<pc, sql, txn, closing, reply, queue, cur, dpc, sent, outcome, reusable, alive>>
  BY DEF SrvOk, controlVars, chanVars, taskVars, opVars
<1>1. /\ srvGen # 0 /\ alive /\ (srvReq.sql = "begin" => srvTx = NoTx)
      /\ srvGen' = 0 /\ srvTx' = SrvTxAfter
  BY DEF SrvOk, SrvFinish
<1>2. ~Resting /\ ~(Finished /\ reusable) /\ (Busy => sent)
  BY <1>1 DEF WireInv, Drained
<1>3. /\ (Live' <=> Live) /\ (Busy' <=> Busy) /\ (Doomed' <=> Doomed)
      /\ \A u : (Holds(u)' <=> Holds(u)) /\ (Pending(u)' <=> Pending(u))
  BY <1>0 DEF Live, Busy, Doomed, Finished, Holds, Pending, Queued
<1>4. /\ srvReq \in Request
      /\ Busy => srvReq.task = cur.task /\ srvReq.sql = cur.sql /\ srvReq.lease = cur.lease
  BY <1>1 DEF FlagInv, Executes
<1>5. CurTxn' /\ CurMeets' /\ SrvMeets'
  BY <1>0, <1>1, <1>2, <1>3 DEF TxInv, CurTxn, CurMeets, SrvMeets
<1>6. CurDone'
  <2>1. Busy => Done'
    BY <1>0, <1>1, <1>4 DEF Done, SrvTxAfter
  <2>2. dpc = "reply" => ~reusable
    BY <1>2 DEF Finished
  <2> QED
    BY <1>0, <1>3, <2>1, <2>2 DEF CurDone
<1>7. ASSUME ~Doomed PROVE (\A u \in Tasks : TxnAt(u)') /\ Owned'
  <2>1. Busy /\ Live /\ ~closing
    BY <1>2, <1>7 DEF Doomed, Resting, Finished, Busy, Live, TypeInv, TypeOK
  <2>2. \A u \in Tasks : TxnAt(u)
    BY <1>1, <1>7 DEF TxInv, TxnAgree
  <2>3. Meets(srvReq)
    BY <1>1 DEF TxInv, SrvMeets
  <2>4. \A u \in Tasks : /\ txn[u] \in {"held", "ending", "dropping"} => IsGuard(u)
                         /\ Pending(u) => pc[u] \in {"send", "reserved", "wait"}
                         /\ reply[u] = "ok" => pc[u] = "wait"
    BY DEF ShapeInv, TxnShape, IsGuard, Pending, Queued, CallInv, Awaited
  <2>5. \A u \in Tasks : ~IsGuard(u) => TxnAt(u)'
    BY <1>0, <1>3, <2>4 DEF TxnAt, IsGuard
  <2>6. CASE cur.lease
    <3>1. \A u \in Tasks : ~IsGuard(u)
      BY <2>6, OnlyGuard
    <3>2. ~srvTx'.guarded
      BY <1>1, <1>4, <2>1, <2>3, <2>6 DEF Meets, SrvTxAfter, NoTx
    <3> QED
      BY <2>5, <3>1, <3>2 DEF Owned
  <2>7. CASE ~cur.lease
    <3> DEFINE g == cur.task
    <3>1. /\ Holds(g)
          /\ cur.sql \in {"begin", "commit", "rollback"} => cur.open \/ txn[g] = "dropping"
          /\ cur.sql = "begin" => txn[g] \in {"opening", "dropping"}
          /\ cur.sql = "stmt" => txn[g] \in {"held", "ending", "dropping"}
          /\ cur.sql \in {"commit", "rollback"} => txn[g] \in {"ending", "dropping"}
      BY <1>7, <2>1, <2>7 DEF TxInv, CurTxn
    <3>2. g \in Tasks /\ reply[g] = "none" /\ \A u \in Tasks : IsGuard(u) => u = g
      <4>1. cur.sql # "probe" /\ IsGuard(g) /\ g \in Tasks
        BY <2>1, <3>1 DEF FlagInv, FlagCopied, Holds, IsGuard
      <4> QED
        BY <2>1, <4>1, OnlyGuard DEF CallInv
    <3>3. CASE cur.sql = "begin"
      <4>1. srvTx' = [task |-> g, guarded |-> TRUE]
        BY <1>1, <1>4, <2>1, <2>7, <3>3 DEF SrvTxAfter, Request
      <4>2. ~(txn[g] = "opening" /\ Pending(g))
        BY <2>1, <2>2, <3>2 DEF TxnAt
      <4>3. \A u \in Tasks : TxnAt(u)'
        BY <1>0, <1>3, <2>5, <3>1, <3>2, <3>3, <4>1, <4>2 DEF TxnAt, InTx
      <4> QED
        BY <1>3, <3>1, <4>1, <4>3 DEF Owned
    <3>4. CASE cur.sql \in {"commit", "rollback"}
      <4>1. srvTx' = NoTx
        BY <1>1, <1>4, <2>1, <3>4 DEF SrvTxAfter
      <4>2. ~(txn[g] = "ending" /\ Pending(g))
        BY <3>1, <3>4 DEF Pending, Queued, CallInv, Awaited
      <4>3. \A u \in Tasks : TxnAt(u)'
        BY <1>0, <1>3, <2>5, <3>1, <3>2, <3>4, <4>1, <4>2 DEF TxnAt, InTx
      <4> QED
        BY <4>1, <4>3 DEF Owned, NoTx
    <3>5. CASE cur.sql \notin {"begin", "commit", "rollback"}
      <4>1. srvTx' = srvTx
        BY <1>1, <1>4, <2>1, <3>5 DEF SrvTxAfter
      <4>2. \A u \in Tasks : TxnAt(u)'
        BY <1>0, <1>3, <2>2, <4>1 DEF TxnAt, InTx
      <4> QED
        BY <1>0, <1>1, <1>3, <4>1, <4>2 DEF TxInv, Owned
    <3> QED BY <3>3, <3>4, <3>5
  <2> QED BY <2>6, <2>7
<1> QED
  BY <1>3, <1>5, <1>6, <1>7 DEF TxInv, TxnAgree, Owned

\* Whatever else the backend does leaves its transaction, or ends it with the
\* connection.
LEMMA BackendTx ==
  ASSUME TypeInv, WireInv, TxInv, Backend, ~SrvOk PROVE TxInv'
<1>0. UNCHANGED <<pc, sql, txn, closing, reply, queue, cur, dpc, sent, outcome, reusable>>
  BY DEF Backend, SrvRow, SrvError, SrvCancel, SrvDie, SrvStray, controlVars, chanVars, taskVars, opVars
<1>1. /\ (Live' <=> Live) /\ (Busy' <=> Busy) /\ (Doomed' <=> Doomed)
      /\ \A u : (Holds(u)' <=> Holds(u)) /\ (Pending(u)' <=> Pending(u))
  BY <1>0 DEF Live, Busy, Doomed, Finished, Holds, Pending, Queued
<1>2. CurTxn'
  BY <1>0, <1>1 DEF TxInv, CurTxn
<1>3. CASE SrvDie
  <2>1. ~alive' /\ srvGen' = 0
    BY <1>3 DEF SrvDie
  <2> QED
    BY <1>2, <2>1 DEF TxInv, CurMeets, SrvMeets, CurDone, TxnAgree, Owned
<1>4. ASSUME UNCHANGED <<alive, srvTx>>, srvGen' = 0 \/ UNCHANGED <<srvGen, srvReq>>,
             (\E i \in DOMAIN wire' : wire'[i].kind = "ok") => \E i \in DOMAIN wire : wire[i].kind = "ok"
      PROVE  TxInv'
  <2>1. (Done' <=> Done) /\ (Meets(cur)' <=> Meets(cur))
    BY <1>0, <1>4 DEF Done, Meets, InTx
  <2>2. CurMeets' /\ CurDone'
    BY <1>0, <1>1, <1>4, <2>1 DEF TxInv, CurMeets, CurDone
  <2>3. SrvMeets'
    BY <1>0, <1>4 DEF TxInv, SrvMeets, Meets, InTx
  <2>4. \A u \in Tasks : TxnAt(u) => TxnAt(u)'
    BY <1>0, <1>1, <1>4 DEF TxnAt, InTx
  <2>5. TxnAgree'
    BY <1>1, <1>4, <2>4 DEF TxInv, TxnAgree
  <2>6. Owned'
    BY <1>0, <1>1, <1>4 DEF TxInv, Owned
  <2> QED
    BY <1>2, <2>2, <2>3, <2>5, <2>6 DEF TxInv
<1>5. ASSUME NEW k \in {"row", "bad", "torn", "db"}, wire' = Append(wire, [gen |-> srvGen, kind |-> k])
      PROVE  (\E i \in DOMAIN wire' : wire'[i].kind = "ok") => \E i \in DOMAIN wire : wire[i].kind = "ok"
  <2>1. [gen |-> srvGen, kind |-> k] \in Frame
    BY DEF Frame, TypeInv, TypeOK
  <2>2. /\ \A i \in DOMAIN wire : wire'[i] = wire[i]
        /\ wire'[Len(wire) + 1] = [gen |-> srvGen, kind |-> k]
        /\ \A i \in DOMAIN wire' : i \in DOMAIN wire \/ i = Len(wire) + 1
    BY <1>5, <2>1, WireGrows DEF TypeInv
  <2> QED
    BY <2>2
<1>6. CASE SrvRow
  <2>1. /\ UNCHANGED <<alive, srvTx, srvGen, srvReq>>
        /\ \E k \in {"row", "bad", "torn"} : wire' = Append(wire, [gen |-> srvGen, kind |-> k])
    BY <1>6 DEF SrvRow
  <2> QED
    BY <1>4, <1>5, <2>1
<1>7. CASE SrvError \/ \E p \in packets : SrvCancel(p)
  <2>1. /\ UNCHANGED <<alive, srvTx>>
        /\ \/ srvGen' = 0 /\ wire' = Append(wire, [gen |-> srvGen, kind |-> "db"])
           \/ UNCHANGED <<srvGen, srvReq, wire>>
    BY <1>7 DEF SrvError, SrvCancel, SrvFinish
  <2> QED
    BY <1>4, <1>5, <2>1
<1>8. CASE SrvStray
  <2>1. wire' = <<[gen |-> 0, kind |-> "stray"]>> /\ UNCHANGED <<alive, srvGen, srvReq, srvTx>>
    BY <1>8 DEF SrvStray
  <2>2. \A i \in DOMAIN wire' : wire'[i].kind = "stray"
    BY <2>1
  <2> QED
    BY <1>4, <2>1, <2>2
<1> QED
  BY <1>3, <1>6, <1>7, <1>8 DEF Backend

\* Every step keeps Transactions and the backend in agreement.
LEMMA StepTx ==
  ASSUME TypeInv, WireInv, FlagInv, LeaseInv, ShapeInv, CallInv, TxInv, [Next]_vars PROVE TxInv'
<1>1. ASSUME UNCHANGED <<chanVars, taskVars, dpc, opVars, alive, srvGen, srvReq, srvTx, wire, closing>>
      PROVE  TxInv'
  BY <1>1 DEF TxInv, CurTxn, CurMeets, SrvMeets, Meets, CurDone, Done, TxnAgree, TxnAt, Owned, Holds,
              InTx, Doomed, Finished, Busy, Live, Pending, Queued, chanVars, taskVars, opVars
<1>2. CASE UNCHANGED vars \/ CancelLoad \/ (\E g \in loads : CancelRaise(g))
  BY <1>1, <1>2 DEF vars, CancelLoad, CancelRaise, controlVars, srvVars
<1>3. CASE DropClients
  BY <1>3 DEF DropClients, TxInv, CurTxn, CurMeets, SrvMeets, Meets, CurDone, Done, TxnAgree, TxnAt,
              Owned, Holds, InTx, Doomed, Finished, Busy, Live, Pending, Queued, controlVars, taskVars,
              opVars, srvVars
<1> QED
  BY <1>2, <1>3, TaskTx, LoopTx, RecvTx, ReadTx, ReplyTx, OkTx, BackendTx DEF Next, Driver, Backend

\* At first there is no transaction.
LEMMA InitTx ==
  ASSUME Init PROVE TxInv
<1>1. /\ dpc = "select" /\ srvGen = 0 /\ ~srvTx.guarded /\ \A t \in Tasks : txn[t] = "none"
  BY DEF Init, NoTx
<1> QED
  BY <1>1 DEF TxInv, CurTxn, CurMeets, SrvMeets, CurDone, TxnAgree, TxnAt, Owned, Busy, Live

-----------------------------------------------------------------------------
(* The theorems *)

SessionInv ==
  TypeInv /\ WireInv /\ FlagInv /\ LeaseInv /\ ShapeInv /\ CallInv /\ TxInv

\* The invariants of the session and of its transactions hold together.
LEMMA SessionInvariant == Spec => []SessionInv
<1>1. Init => SessionInv
  BY InitTypes, InitWire, InitFlag, InitLease, InitCalls, InitTx DEF SessionInv
<1>2. SessionInv /\ [Next]_vars => SessionInv'
  BY StepTypes, StepWire, StepFlag, StepLease, StepShape, StepCalls, StepTx DEF SessionInv
<1> QED
  BY <1>1, <1>2, PTL DEF Spec

\* Every request a Transaction sends meets the transaction it is for, for any
\* number of clones, requests and cancellations, and whatever futures are
\* dropped: its BEGIN meets none unless the client is being stopped, and its
\* statements and COMMIT are never run in autocommit mode.
THEOREM DriverTransactions == Spec => []RunsInItsTransaction
<1>1. SessionInv => RunsInItsTransaction
  BY DEF SessionInv, TxInv, SrvMeets, Meets, InTx, RunsInItsTransaction, NeverAutocommitted, NeverNested
<1> QED
  BY <1>1, SessionInvariant, PTL

\* A statement that runs in the transaction of another task's guard does so
\* only on a client that was stopped, whose session is closed after it.
THEOREM DriverIntruders == Spec => []IntruderIsDoomed
<1>1. SessionInv => IntruderIsDoomed
  BY DEF SessionInv, TxInv, SrvMeets, Meets, IntruderIsDoomed, Intrusion
<1> QED
  BY <1>1, SessionInvariant, PTL

=============================================================================
