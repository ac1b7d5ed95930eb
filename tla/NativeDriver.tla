----------------------------- MODULE NativeDriver -----------------------------
(***************************************************************************)
(* The native Tokio client of nz_rust (src/src/native_async.rs): clones of *)
(* Client share one session mutex, one bounded request channel and one     *)
(* Control block; the task run_connection takes one request at a time,     *)
(* drives it on the socket, and either keeps the session or shuts down.    *)
(*                                                                         *)
(* Every task of Tasks is a Rust future using its own clone of Client.  A  *)
(* task has at most one call in progress; a dropped Transaction turns the  *)
(* task into the spawned rollback task until that is over.  The backend    *)
(* and its out-of-band cancel socket are external: they are modelled from  *)
(* what the driver sends to and reads from them.                           *)
(***************************************************************************)
EXTENDS Integers, Sequences, FiniteSets

CONSTANTS
  Tasks,        \* futures that hold a clone of the client
  Transacting,  \* those of them that use Client::transaction
  PlainSql,     \* statements sent outside a Transaction, a subset of Sql
  QueueCap,     \* capacity of the request channel (32 in the code)
  MaxGen,       \* bound: no new call once the driver took this many requests
  MaxLoads,     \* bound: generations loaded by cancel() calls in progress
  MaxPackets,   \* bound: cancel packets in flight
  MaxRows,      \* bound: rows a statement answers with
  Hostile,      \* may the peer die, or send frames that cannot be decoded?
  DropsDriver   \* may the owner of Connection drop it while it runs?

Sql == {"stmt", "begin", "commit", "rollback", "probe"}

ASSUME DriverAssumption ==
  /\ Transacting \subseteq Tasks /\ "none" \notin Tasks
  /\ PlainSql \subseteq Sql
  /\ QueueCap \in Nat \ {0}
  /\ MaxGen \in Nat /\ MaxLoads \in Nat /\ MaxPackets \in Nat /\ MaxRows \in Nat
  /\ Hostile \in BOOLEAN
  /\ DropsDriver \in BOOLEAN

VARIABLES
  \* -- struct Control and the cancel calls that loaded `active` --
  active,       \* generation of the request being driven, 0 when none
  next,         \* last generation handed out
  cancelled,    \* highest generation a cancellation was raised for
  closing,      \* close() or stop() was called
  closed,       \* the driver task is gone
  transaction,  \* what in_transaction() reports
  loads,        \* generations loaded by cancel() calls still to be raised
  \* -- the request channel and the session mutex --
  session,      \* TRUE while some OwnedMutexGuard exists
  queue,        \* requests sent and not yet received
  rxOpen,       \* the receiver has not been closed
  handles,      \* some Client clone still exists
  \* -- per task --
  pc,           \* where its call stands
  sql,          \* the statement of that call
  txn,          \* life of its Transaction value
  reply,        \* what the oneshot of its request holds
  \* -- run_connection --
  dpc,          \* where the driver stands
  cur,          \* the request being driven
  sent,         \* its packet was written to the socket
  outcome,      \* the result drive_operation will return
  reusable,     \* and whether the session may be kept
  undecodable,  \* a value of the response could not be decoded
  sessTx,       \* AsyncSession.transaction
  \* -- the backend --
  alive,        \* the socket is connected
  srvGen,       \* generation of the statement it executes, 0 when idle
  srvReq,       \* that statement
  srvTx,        \* the open transaction: who began it, and under a guard?
  rows,         \* rows sent for the statement
  wire,         \* frames sent and not yet read by the driver
  packets       \* cancel packets in flight, named by the target's generation

controlVars == <<active, next, cancelled, closing, closed, transaction, loads>>
chanVars    == <<session, queue, rxOpen, handles>>
taskVars    == <<pc, sql, txn, reply>>
opVars      == <<cur, sent, outcome, reusable, undecodable>>
srvVars     == <<alive, srvGen, srvReq, srvTx, rows, wire, packets>>
vars == <<controlVars, chanVars, taskVars, dpc, opVars, sessTx, srvVars>>

-----------------------------------------------------------------------------
(* Data *)

Request == [task: Tasks, sql: Sql, lease: BOOLEAN, open: BOOLEAN]
NoRequest == [task |-> "none", sql |-> "none", lease |-> FALSE, open |-> FALSE]

\* What a caller can be told.  "db" is NzError::Database; "decode" a value
\* that could not be decoded; "fatal" any transport or framing error.
Result == {"ok", "db", "decode", "fatal", "cancelled", "timeout", "closed"}

NoTx == [task |-> "none", guarded |-> FALSE]

\* "row" and "bad" are rows whose values decode or not, "torn" one whose
\* framing is wrong, "ok" and "db" the
\* CommandComplete or ErrorResponse with the ReadyForQuery after it, "eof" a
\* closed or broken stream, "stray" bytes nobody asked for.
Frame == [gen: Nat, kind: {"row", "bad", "torn", "ok", "db", "eof", "stray"}]

TypeOK ==
  /\ active \in Nat /\ next \in Nat /\ cancelled \in Nat
  /\ closing \in BOOLEAN /\ closed \in BOOLEAN /\ transaction \in BOOLEAN
  /\ loads \subseteq Nat
  /\ session \in BOOLEAN /\ rxOpen \in BOOLEAN /\ handles \in BOOLEAN
  /\ queue \in Seq(Request)
  /\ pc \in [Tasks -> {"idle", "lock", "check", "send", "reserved", "wait", "closing"}]
  /\ sql \in [Tasks -> Sql \cup {"none"}]
  /\ txn \in [Tasks -> {"none", "opening", "held", "ending", "dropping"}]
  /\ reply \in [Tasks -> Result \cup {"none"}]
  /\ dpc \in {"select", "recv", "parked", "probe", "run", "cancel", "cleanup", "reply",
              "release", "drain", "close", "done"}
  /\ cur \in Request \cup {NoRequest}
  /\ sent \in BOOLEAN /\ reusable \in BOOLEAN /\ undecodable \in BOOLEAN
  /\ outcome \in Result \cup {"none"}
  /\ sessTx \in BOOLEAN
  /\ alive \in BOOLEAN
  /\ srvGen \in Nat /\ rows \in Nat
  /\ srvReq \in Request \cup {NoRequest}
  /\ srvTx \in [task: Tasks \cup {"none"}, guarded: BOOLEAN]
  /\ wire \in Seq(Frame)
  /\ packets \subseteq Nat

Init ==
  /\ active = 0 /\ next = 0 /\ cancelled = 0 /\ loads = {}
  /\ closing = FALSE /\ closed = FALSE /\ transaction = FALSE
  /\ session = FALSE /\ queue = <<>> /\ rxOpen = TRUE /\ handles = TRUE
  /\ pc = [t \in Tasks |-> "idle"]
  /\ sql = [t \in Tasks |-> "none"]
  /\ txn = [t \in Tasks |-> "none"]
  /\ reply = [t \in Tasks |-> "none"]
  /\ dpc = "select" /\ cur = NoRequest /\ sent = FALSE /\ outcome = "none"
  /\ reusable = TRUE /\ undecodable = FALSE /\ sessTx = FALSE
  /\ alive = TRUE /\ srvGen = 0 /\ srvReq = NoRequest /\ srvTx = NoTx
  /\ rows = 0 /\ wire = <<>> /\ packets = {}

-----------------------------------------------------------------------------
(* Client: acquiring the session, sending a request, awaiting the reply *)

\* The call returns, or its future is dropped
Return(t) ==
  /\ pc' = [pc EXCEPT ![t] = "idle"]
  /\ sql' = [sql EXCEPT ![t] = "none"]

\* Client::is_closed
IsClosed == ~rxOpen \/ closed

\* Client::exclusive: the calls of a Transaction skip the session mutex,
\* which its guard already holds.
Exclusive(t) == txn[t] # "none"

\* Bound of the model: callers stop once MaxGen requests were taken
Budget == next < MaxGen

\* query, execute, batch_execute, start_stream, query_batches, probe_idle
StartPlain(t, s) ==
  /\ handles /\ Budget
  /\ pc[t] = "idle" /\ txn[t] = "none"
  /\ s = "probe" => ~IsClosed
  /\ pc' = [pc EXCEPT ![t] = "lock"]
  /\ sql' = [sql EXCEPT ![t] = s]
  /\ UNCHANGED <<controlVars, chanVars, txn, reply, dpc, opVars, sessTx, srvVars>>

\* Client::transaction, up to its first await
StartTransaction(t) ==
  /\ t \in Transacting
  /\ handles /\ Budget
  /\ pc[t] = "idle" /\ txn[t] = "none"
  /\ pc' = [pc EXCEPT ![t] = "lock"]
  /\ sql' = [sql EXCEPT ![t] = "begin"]
  /\ txn' = [txn EXCEPT ![t] = "opening"]
  /\ UNCHANGED <<controlVars, chanVars, reply, dpc, opVars, sessTx, srvVars>>

\* acquire_session, the branch that locks
AcquireSession(t) ==
  /\ pc[t] = "lock" /\ ~session
  /\ session' = TRUE
  /\ pc' = [pc EXCEPT ![t] = IF txn[t] = "opening" THEN "check" ELSE "send"]
  /\ UNCHANGED <<controlVars, queue, rxOpen, handles, sql, txn, reply, dpc,
                 opVars, sessTx, srvVars>>

\* acquire_session, the branch that sees the driver gone
AcquireFails(t) ==
  /\ pc[t] = "lock" /\ IsClosed
  /\ Return(t)
  /\ txn' = [txn EXCEPT ![t] = "none"]
  /\ UNCHANGED <<controlVars, chanVars, reply, dpc, opVars, sessTx, srvVars>>

\* Client::transaction refuses to nest in a transaction opened by plain SQL;
\* otherwise it builds the Transaction and sends BEGIN through it.
RefusesNested == transaction

CheckNested(t) ==
  /\ pc[t] = "check"
  /\ IF RefusesNested
       THEN /\ session' = FALSE
            /\ Return(t)
            /\ txn' = [txn EXCEPT ![t] = "none"]
       ELSE /\ pc' = [pc EXCEPT ![t] = "send"]
            /\ UNCHANGED <<session, sql, txn>>
  /\ UNCHANGED <<controlVars, queue, rxOpen, handles, reply, dpc, opVars, sessTx, srvVars>>

\* Transaction::query, execute, batch_execute
StartInTransaction(t) ==
  /\ Budget
  /\ pc[t] = "idle" /\ txn[t] = "held"
  /\ pc' = [pc EXCEPT ![t] = "send"]
  /\ sql' = [sql EXCEPT ![t] = "stmt"]
  /\ UNCHANGED <<controlVars, chanVars, txn, reply, dpc, opVars, sessTx, srvVars>>

\* Transaction::commit and rollback consume the Transaction
EndTransaction(t, s) ==
  /\ pc[t] = "idle" /\ txn[t] = "held"
  /\ pc' = [pc EXCEPT ![t] = "send"]
  /\ sql' = [sql EXCEPT ![t] = s]
  /\ txn' = [txn EXCEPT ![t] = "ending"]
  /\ UNCHANGED <<controlVars, chanVars, reply, dpc, opVars, sessTx, srvVars>>

\* Drop for Transaction inside a runtime: the guard moves into a spawned task
\* that sends ROLLBACK.
BecomeRollback(t) ==
  /\ pc' = [pc EXCEPT ![t] = "send"]
  /\ sql' = [sql EXCEPT ![t] = "rollback"]
  /\ txn' = [txn EXCEPT ![t] = "dropping"]

DropTransaction(t) ==
  /\ pc[t] = "idle" /\ txn[t] = "held"
  /\ BecomeRollback(t)
  /\ UNCHANGED <<controlVars, chanVars, reply, dpc, opVars, sessTx, srvVars>>

\* Client::stop, then the guard is dropped: the two ways a Transaction gives
\* up the session without having seen its ROLLBACK succeed.
StopAndRelease_silent(t) == \* mutant: the guard goes, the client is not stopped
  /\ session' = FALSE
  /\ Return(t)
  /\ txn' = [txn EXCEPT ![t] = "none"]
  /\ UNCHANGED closing
StopAndRelease(t) ==
  /\ closing' = TRUE
  /\ session' = FALSE
  /\ Return(t)
  /\ txn' = [txn EXCEPT ![t] = "none"]

\* Drop for Transaction outside any runtime
DropWithoutRuntime(t) ==
  /\ pc[t] = "idle" /\ txn[t] = "held"
  /\ StopAndRelease(t)
  /\ UNCHANGED <<active, next, cancelled, closed, transaction, loads, queue,
                 rxOpen, handles, reply, dpc, opVars, sessTx, srvVars>>

\* mpsc::Sender::send takes a permit and then pushes: two steps
Reserved == {t \in Tasks : pc[t] = "reserved"}

Reserve(t) ==
  /\ pc[t] = "send" /\ rxOpen
  /\ Len(queue) + Cardinality(Reserved) < QueueCap
  /\ pc' = [pc EXCEPT ![t] = "reserved"]
  /\ UNCHANGED <<controlVars, chanVars, sql, txn, reply, dpc, opVars, sessTx, srvVars>>

Push(t) ==
  /\ pc[t] = "reserved"
  /\ queue' = Append(queue, [task |-> t, sql |-> sql[t],
                             lease |-> ~Exclusive(t), open |-> TRUE])
  /\ pc' = [pc EXCEPT ![t] = "wait"]
  /\ UNCHANGED <<controlVars, session, rxOpen, handles, sql, txn, reply, dpc,
                 opVars, sessTx, srvVars>>

\* How a call ends for the caller: the guard goes with a successful COMMIT or
\* ROLLBACK; a Transaction whose BEGIN, COMMIT or ROLLBACK failed is dropped;
\* the spawned task stops the client when its ROLLBACK failed.
Settle(t, ok) ==
  \/ /\ txn[t] \in {"none", "held"}
     /\ Return(t)
     /\ UNCHANGED <<txn, session, closing>>
  \/ /\ txn[t] = "opening" /\ ok
     /\ Return(t)
     /\ txn' = [txn EXCEPT ![t] = "held"]
     /\ UNCHANGED <<session, closing>>
  \/ /\ txn[t] \in {"ending", "dropping"} /\ ok
     /\ Return(t)
     /\ txn' = [txn EXCEPT ![t] = "none"]
     /\ session' = FALSE
     /\ UNCHANGED closing
  \/ /\ txn[t] \in {"opening", "ending"} /\ ~ok
     /\ BecomeRollback(t)
     /\ UNCHANGED <<session, closing>>
  \/ /\ txn[t] = "dropping" /\ ~ok
     /\ StopAndRelease(t)

\* send on a closed channel gives the request back, and its lease with it
SendFails(t) ==
  /\ pc[t] = "send" /\ ~rxOpen
  /\ IF Exclusive(t)
       THEN Settle(t, FALSE)
       ELSE /\ Return(t)
            /\ session' = FALSE
            /\ UNCHANGED <<txn, closing>>
  /\ UNCHANGED <<active, next, cancelled, closed, transaction, loads, queue,
                 rxOpen, handles, reply, dpc, opVars, sessTx, srvVars>>

\* The `?` after the reply: only Ok lets transaction(), commit() and
\* rollback() go on.
CallOk_interrupted(result) == result \in {"ok", "cancelled", "timeout"} \* mutant
CallOk(result) == result = "ok"

ReceiveReply(t) ==
  /\ pc[t] = "wait" /\ reply[t] # "none"
  /\ reply' = [reply EXCEPT ![t] = "none"]
  /\ Settle(t, CallOk(reply[t]))
  /\ UNCHANGED <<active, next, cancelled, closed, transaction, loads, queue,
                 rxOpen, handles, dpc, opVars, sessTx, srvVars>>

\* Response::is_closed becomes true for the request t was waiting for
Forget(t) ==
  /\ queue' = [i \in DOMAIN queue |->
                 IF queue[i].task = t THEN [queue[i] EXCEPT !.open = FALSE]
                                      ELSE queue[i]]
  /\ cur' = IF cur.task = t THEN [cur EXCEPT !.open = FALSE] ELSE cur
  /\ reply' = [reply EXCEPT ![t] = "none"]

\* The future of a call is dropped at one of its awaits (select!, timeout, an
\* aborted task, a dropped stream).  Dropping Transaction::query leaves the
\* Transaction alive; dropping transaction(), commit() or rollback() drops it.
Abandon(t) ==
  /\ pc[t] \in {"lock", "send", "wait"} /\ txn[t] # "dropping"
  /\ \/ /\ pc[t] = "lock"
        /\ Return(t)
        /\ txn' = [txn EXCEPT ![t] = "none"]
        /\ UNCHANGED <<reply, session, queue, cur, closing>>
     \/ /\ pc[t] = "send" /\ ~Exclusive(t)
        /\ Return(t)
        /\ session' = FALSE
        /\ UNCHANGED <<txn, reply, queue, cur, closing>>
     \/ /\ pc[t] = "send" /\ Exclusive(t)
        /\ Settle(t, FALSE)
        /\ UNCHANGED <<reply, queue, cur>>
     \/ /\ pc[t] = "wait"
        /\ Forget(t)
        /\ Settle(t, FALSE)
  /\ UNCHANGED <<active, next, cancelled, closed, transaction, loads, rxOpen,
                 handles, dpc, sent, outcome, reusable, undecodable, sessTx, srvVars>>

\* Drop for Transaction: the spawned ROLLBACK did not finish within 5 s
RollbackPending_send(t) == txn[t] = "dropping" /\ pc[t] = "send" \* mutant: only the send
RollbackPending(t) == txn[t] = "dropping" /\ pc[t] \in {"send", "wait"}

RollbackTimeout(t) ==
  /\ RollbackPending(t)
  /\ Forget(t)
  /\ StopAndRelease(t)
  /\ UNCHANGED <<active, next, cancelled, closed, transaction, loads, rxOpen,
                 handles, dpc, sent, outcome, reusable, undecodable, sessTx, srvVars>>

\* Client::close: raise the flag, then wait for the driver to be gone
Close(t) ==
  /\ handles
  /\ pc[t] = "idle" /\ txn[t] = "none"
  /\ closing' = TRUE
  /\ pc' = [pc EXCEPT ![t] = "closing"]
  /\ UNCHANGED <<active, next, cancelled, closed, transaction, loads, chanVars, sql,
                 txn, reply, dpc, opVars, sessTx, srvVars>>

CloseReturns(t) ==
  /\ pc[t] = "closing" /\ IsClosed
  /\ Return(t)
  /\ UNCHANGED <<controlVars, chanVars, txn, reply, dpc, opVars, sessTx, srvVars>>

\* The last clone goes: the channel has no sender left
DropClients ==
  /\ handles
  /\ \A t \in Tasks : pc[t] = "idle" /\ txn[t] = "none"
  /\ handles' = FALSE
  /\ UNCHANGED <<controlVars, session, queue, rxOpen, taskVars, dpc, opVars,
                 sessTx, srvVars>>

-----------------------------------------------------------------------------
(* Control::cancel, called on any clone at any time: it loads `active` and  *)
(* later raises `cancelled`; other threads may run in between.             *)

Higher_store(a, b) == b \* mutant: store in place of fetch_max
Higher(a, b) == IF a >= b THEN a ELSE b

CancelLoad_next == \* mutant: an idle client cancels the statement to come
  /\ handles /\ ~IsClosed
  /\ Cardinality(loads) < MaxLoads
  /\ loads' = loads \cup {IF active = 0 THEN next + 1 ELSE active}
  /\ UNCHANGED <<active, next, cancelled, closing, closed, transaction, chanVars,
                 taskVars, dpc, opVars, sessTx, srvVars>>
CancelLoad ==
  /\ handles /\ ~IsClosed
  /\ active # 0
  /\ Cardinality(loads) < MaxLoads
  /\ loads' = loads \cup {active}
  /\ UNCHANGED <<active, next, cancelled, closing, closed, transaction, chanVars,
                 taskVars, dpc, opVars, sessTx, srvVars>>

CancelRaise(g) ==
  /\ g \in loads
  /\ loads' = loads \ {g}
  /\ cancelled' = Higher(cancelled, g)
  /\ UNCHANGED <<active, next, closing, closed, transaction, chanVars, taskVars,
                 dpc, opVars, sessTx, srvVars>>

\* What Control::interrupted(generation) waits for
Interrupted_cancel == cancelled = active \* mutant: close() does not interrupt
Interrupted_close == closing \* mutant: a cancel() is not waited for
Interrupted == closing \/ cancelled = active

-----------------------------------------------------------------------------
(* run_connection *)

\* The biased select polls the closing flag first; a parked task polls again
\* once it is woken ...
DrvPoll ==
  /\ \/ dpc = "select"
     \/ dpc = "parked" /\ (queue # <<>> \/ closing \/ ~handles)
  /\ dpc' = IF closing THEN "drain" ELSE "recv"
  /\ rxOpen' = ~closing
  /\ UNCHANGED <<controlVars, session, queue, handles, taskVars, opVars, sessTx, srvVars>>

\* ... and then the channel: the flag may be raised in between.  A request
\* whose caller did not leave while it was queued becomes the active one.
DrvRecv ==
  /\ dpc = "recv" /\ queue # <<>>
  /\ Head(queue).open \/ Head(queue).sql = "probe"
  /\ cur' = Head(queue)
  /\ queue' = Tail(queue)
  /\ next' = next + 1
  /\ active' = next + 1
  /\ dpc' = IF Head(queue).sql = "probe" THEN "probe" ELSE "run"
  /\ UNCHANGED <<cancelled, closing, closed, transaction, loads, session, rxOpen,
                 handles, taskVars, sent, outcome, reusable, undecodable, sessTx, srvVars>>

\* A lease travels in its request and is dropped with it
ReleaseLease_leak(r) == session' = session \* mutant: the lease outlives the request
ReleaseLease(r) == session' = IF r.lease THEN FALSE ELSE session

\* response.is_closed(): the request takes a generation and is dropped
DrvSkip ==
  /\ dpc = "recv" /\ queue # <<>>
  /\ ~Head(queue).open /\ Head(queue).sql # "probe"
  /\ next' = next + 1
  /\ ReleaseLease(Head(queue))
  /\ queue' = Tail(queue)
  /\ dpc' = "select"
  /\ UNCHANGED <<active, cancelled, closing, closed, transaction, loads, rxOpen,
                 handles, taskVars, opVars, sessTx, srvVars>>

\* recv() returns None: no clone is left
DrvRecvNone ==
  /\ dpc = "recv" /\ queue = <<>> /\ ~handles
  /\ dpc' = "drain"
  /\ rxOpen' = FALSE
  /\ UNCHANGED <<controlVars, session, queue, handles, taskVars, opVars, sessTx, srvVars>>

\* Both were pending: the task is parked
DrvPark ==
  /\ dpc = "recv" /\ queue = <<>> /\ handles
  /\ dpc' = "parked"
  /\ UNCHANGED <<controlVars, chanVars, taskVars, opVars, sessTx, srvVars>>

\* Request::Probe: AsyncSession::idle_socket_is_healthy
Healthy == alive /\ wire = <<>>

DrvProbe ==
  /\ dpc = "probe"
  /\ outcome' = IF Healthy THEN "ok" ELSE "fatal"
  /\ reusable' = Healthy
  /\ dpc' = "reply"
  /\ UNCHANGED <<controlVars, chanVars, taskVars, cur, sent, undecodable, sessTx, srvVars>>

\* drive_operation: the deadline, an interruption, or a caller that left wins
\* the select; the response future stays pinned.
Interrupt(result) ==
  /\ cancelled' = Higher(cancelled, active)
  /\ outcome' = result
  /\ dpc' = "cancel"
  /\ UNCHANGED <<active, next, closing, closed, transaction, loads, chanVars,
                 taskVars, cur, sent, reusable, undecodable, sessTx, srvVars>>

DrvDeadline    == dpc = "run" /\ Interrupt("timeout")
DrvInterrupted == dpc = "run" /\ Interrupted /\ Interrupt("cancelled")
DrvAbandoned   == dpc = "run" /\ ~cur.open /\ Interrupt("cancelled")

\* cancel_backend: the packet leaves, or the cancel socket fails
DrvSendCancel ==
  /\ dpc = "cancel"
  /\ dpc' = "cleanup"
  /\ \/ packets' = packets
     \/ Cardinality(packets) < MaxPackets /\ packets' = packets \cup {active}
  /\ UNCHANGED <<controlVars, chanVars, taskVars, opVars, sessTx, alive, srvGen,
                 srvReq, srvTx, rows, wire>>

\* The 5 s cleanup budget runs out in the cancel socket or in the response
CleanupExpires_keep == reusable' = TRUE \* mutant: the session is kept
CleanupExpires == reusable' = FALSE

UnderCleanupTimeout == dpc \in {"cancel", "cleanup"}

DrvCleanupTimeout ==
  /\ UnderCleanupTimeout
  /\ CleanupExpires
  /\ dpc' = "reply"
  /\ UNCHANGED <<controlVars, chanVars, taskVars, cur, sent, outcome, undecodable,
                 sessTx, srvVars>>

\* The response future, polled by the select and again by the cleanup
Driving == dpc \in {"run", "cleanup"}

\* query_inner / stream_query_inner write the packet; the backend starts
DrvWrite ==
  /\ Driving /\ ~sent /\ alive
  /\ sent' = TRUE
  /\ srvGen' = active
  /\ srvReq' = [cur EXCEPT !.open = TRUE]
  /\ rows' = 0
  /\ UNCHANGED <<controlVars, chanVars, taskVars, dpc, cur, outcome, reusable,
                 undecodable, sessTx, alive, srvTx, wire, packets>>

\* The future completed.  drive_operation keeps the session after Ok and
\* Database; run_connection also after a decode error that was found once the
\* whole response had been read.  An interrupted call keeps its own error.
KeepsSession(result) == result \in {"ok", "db", "decode"}

FutureDone(result) ==
  /\ reusable' = KeepsSession(result)
  /\ outcome' = IF dpc = "run" THEN result ELSE outcome
  /\ dpc' = "reply"

DrvWriteFails ==
  /\ Driving /\ ~sent /\ ~alive
  /\ FutureDone("fatal")
  /\ UNCHANGED <<controlVars, chanVars, taskVars, cur, sent, undecodable, sessTx, srvVars>>

\* parse_transaction_state of the CommandComplete tag
TagEffect_commit(s, old) == \* mutant: ROLLBACK is not recognised
  CASE s = "begin" -> TRUE
    [] s = "commit" -> FALSE
    [] OTHER -> old
TagEffect(s, old) ==
  CASE s = "begin" -> TRUE
    [] s \in {"commit", "rollback"} -> FALSE
    [] OTHER -> old

\* drain_response_inner, one message
DrvRead ==
  /\ Driving /\ sent /\ wire # <<>>
  /\ wire' = Tail(wire)
  /\ LET kind == Head(wire).kind IN
       \/ /\ kind \in {"row", "stray"}
          /\ UNCHANGED <<dpc, outcome, reusable, undecodable, sessTx>>
       \/ /\ kind = "bad"
          /\ undecodable' = TRUE
          /\ UNCHANGED <<dpc, outcome, reusable, sessTx>>
       \/ /\ kind = "ok"
          /\ sessTx' = TagEffect(cur.sql, sessTx)
          /\ FutureDone(IF undecodable THEN "decode" ELSE "ok")
          /\ UNCHANGED undecodable
       \/ /\ kind = "db"
          /\ FutureDone("db")
          /\ UNCHANGED <<undecodable, sessTx>>
       \/ /\ kind \in {"torn", "eof"}
          /\ FutureDone("fatal")
          /\ UNCHANGED <<undecodable, sessTx>>
  /\ UNCHANGED <<controlVars, chanVars, taskVars, cur, sent, alive, srvGen, srvReq,
                 srvTx, rows, packets>>

\* A dropped or answered oneshot, as the task that awaits it sees it
Answer(r, result) ==
  reply' = IF r.open THEN [reply EXCEPT ![r.task] = result] ELSE reply

DrvReply ==
  /\ dpc = "reply"
  /\ transaction' = IF cur.sql = "probe" THEN transaction ELSE sessTx
  /\ Answer(cur, outcome)
  /\ cur' = [cur EXCEPT !.open = FALSE]
  /\ dpc' = "release"
  /\ UNCHANGED <<active, next, cancelled, closing, closed, loads, chanVars, pc, sql,
                 txn, sent, outcome, reusable, undecodable, sessTx, srvVars>>

\* End of the match arm: the request, and the lease in it, is dropped, and no
\* request is active; the loop goes on with a session that can be reused.
DrvRelease ==
  /\ dpc = "release"
  /\ ReleaseLease(cur)
  /\ cur' = NoRequest /\ sent' = FALSE /\ outcome' = "none" /\ undecodable' = FALSE
  /\ active' = 0
  /\ dpc' = IF reusable THEN "select" ELSE "drain"
  /\ rxOpen' = reusable
  /\ UNCHANGED <<next, cancelled, closing, closed, transaction, loads, queue, handles,
                 taskVars, reusable, sessTx, srvVars>>

\* After receiver.close(): recv returns queued requests, which are dropped,
\* and None only once the queue is empty and no permit is outstanding.
NoPermitOutstanding_ignored == TRUE \* mutant: the queue is drained once
NoPermitOutstanding == Reserved = {}

DrvDrainOne ==
  /\ dpc = "drain" /\ queue # <<>>
  /\ queue' = Tail(queue)
  /\ ReleaseLease(Head(queue))
  /\ Answer(Head(queue), "closed")
  /\ UNCHANGED <<controlVars, rxOpen, handles, pc, sql, txn, dpc, opVars, sessTx, srvVars>>

DrvDrained ==
  /\ dpc = "drain" /\ queue = <<>> /\ NoPermitOutstanding
  /\ dpc' = "close"
  /\ UNCHANGED <<controlVars, chanVars, taskVars, opVars, sessTx, srvVars>>

\* The peer of a closed socket ends the statement and its transaction
Disconnect ==
  /\ alive' = FALSE
  /\ srvGen' = 0 /\ srvReq' = NoRequest /\ srvTx' = NoTx /\ rows' = 0 /\ wire' = <<>>

\* DriverGuard::drop
GuardDrop == active' = 0 /\ closed' = TRUE

\* AsyncSession::close, at most 5 s; the guard is dropped last
DrvClose ==
  /\ dpc = "close"
  /\ dpc' = "done"
  /\ GuardDrop
  /\ Disconnect
  /\ UNCHANGED <<next, cancelled, closing, transaction, loads, chanVars, taskVars,
                 opVars, sessTx, packets>>

\* Connection is dropped (its task aborted): everything the driver owns goes,
\* the receiver included; requests pushed later are never looked at.
DropConnection ==
  /\ DropsDriver /\ dpc # "done"
  /\ dpc' = "done"
  /\ GuardDrop
  /\ rxOpen' = FALSE
  /\ reply' = [t \in Tasks |->
                 IF \/ cur.open /\ cur.task = t
                    \/ \E i \in DOMAIN queue : queue[i].open /\ queue[i].task = t
                 THEN "closed" ELSE reply[t]]
  /\ session' = IF cur.lease \/ \E i \in DOMAIN queue : queue[i].lease
                THEN FALSE ELSE session
  /\ queue' = <<>>
  /\ cur' = NoRequest /\ sent' = FALSE /\ outcome' = "none" /\ undecodable' = FALSE
  /\ Disconnect
  /\ UNCHANGED <<next, cancelled, closing, transaction, loads, handles, pc, sql, txn,
                 reusable, sessTx, packets>>

-----------------------------------------------------------------------------
(* The backend and the cancel socket (external) *)

SrvRow ==
  /\ srvGen # 0 /\ alive /\ rows < MaxRows
  /\ rows' = rows + 1
  /\ \E k \in IF Hostile THEN {"row", "bad", "torn"} ELSE {"row"} :
       wire' = Append(wire, [gen |-> srvGen, kind |-> k])
  /\ UNCHANGED <<controlVars, chanVars, taskVars, dpc, opVars, sessTx, alive,
                 srvGen, srvReq, srvTx, packets>>

\* The statement ends and ReadyForQuery is sent
SrvFinish(kind) ==
  /\ wire' = Append(wire, [gen |-> srvGen, kind |-> kind])
  /\ srvGen' = 0 /\ srvReq' = NoRequest /\ rows' = 0

SrvTxAfter ==
  CASE srvReq.sql = "begin" -> [task |-> srvReq.task, guarded |-> ~srvReq.lease]
    [] srvReq.sql \in {"commit", "rollback"} -> NoTx
    [] OTHER -> srvTx

SrvOk ==
  /\ srvGen # 0 /\ alive
  /\ srvReq.sql = "begin" => srvTx = NoTx
  /\ SrvFinish("ok")
  /\ srvTx' = SrvTxAfter
  /\ UNCHANGED <<controlVars, chanVars, taskVars, dpc, opVars, sessTx, alive,
                 packets>>

SrvError ==
  /\ srvGen # 0 /\ alive
  /\ SrvFinish("db")
  /\ UNCHANGED <<controlVars, chanVars, taskVars, dpc, opVars, sessTx, alive,
                 srvTx, packets>>

\* A cancel packet names the backend process, not the statement: it ends
\* whatever the process is executing when the packet gets there.
SrvCancel(p) ==
  /\ p \in packets
  /\ packets' = packets \ {p}
  /\ IF srvGen # 0 /\ alive
       THEN SrvFinish("db")
       ELSE UNCHANGED <<srvGen, srvReq, rows, wire>>
  /\ UNCHANGED <<controlVars, chanVars, taskVars, dpc, opVars, sessTx, alive, srvTx>>

SrvDie ==
  /\ Hostile /\ alive
  /\ alive' = FALSE
  /\ srvGen' = 0 /\ srvReq' = NoRequest /\ srvTx' = NoTx /\ rows' = 0
  /\ wire' = Append(wire, [gen |-> srvGen, kind |-> "eof"])
  /\ UNCHANGED <<controlVars, chanVars, taskVars, dpc, opVars, sessTx, packets>>

SrvStray ==
  /\ Hostile /\ alive /\ srvGen = 0 /\ wire = <<>>
  /\ wire' = <<[gen |-> 0, kind |-> "stray"]>>
  /\ UNCHANGED <<controlVars, chanVars, taskVars, dpc, opVars, sessTx, alive,
                 srvGen, srvReq, srvTx, rows, packets>>

-----------------------------------------------------------------------------
TaskStep(t) ==
  \/ AcquireSession(t) \/ AcquireFails(t) \/ CheckNested(t)
  \/ Reserve(t) \/ Push(t) \/ SendFails(t) \/ ReceiveReply(t) \/ CloseReturns(t)

Caller(t) ==
  \/ \E s \in PlainSql : StartPlain(t, s)
  \/ StartTransaction(t) \/ StartInTransaction(t)
  \/ \E s \in {"commit", "rollback"} : EndTransaction(t, s)
  \/ DropTransaction(t) \/ DropWithoutRuntime(t)
  \/ Abandon(t) \/ Close(t)

Driver ==
  \/ DrvPoll \/ DrvRecv \/ DrvRecvNone \/ DrvPark \/ DrvProbe \/ DrvSkip
  \/ DrvDeadline \/ DrvInterrupted \/ DrvAbandoned \/ DrvSendCancel \/ DrvCleanupTimeout
  \/ DrvWrite \/ DrvWriteFails \/ DrvRead \/ DrvReply \/ DrvRelease
  \/ DrvDrainOne \/ DrvDrained \/ DrvClose

Backend ==
  \/ SrvRow \/ SrvOk \/ SrvError \/ SrvDie \/ SrvStray
  \/ \E p \in packets : SrvCancel(p)

Next ==
  \/ \E t \in Tasks : TaskStep(t) \/ Caller(t) \/ RollbackTimeout(t)
  \/ DropClients \/ CancelLoad \/ (\E g \in loads : CancelRaise(g))
  \/ Driver \/ DropConnection \/ Backend

Spec == Init /\ [][Next]_vars

\* Tasks that are runnable are scheduled and timers fire: a task that goes on
\* being able to take some step takes one.  Nothing is assumed of the backend,
\* of callers, or of statement deadlines (off by default).
DriverWork ==
  \/ DrvWrite \/ DrvRead \/ DrvPoll \/ DrvRecv \/ DrvRecvNone \/ DrvPark \/ DrvProbe \/ DrvSkip
  \/ DrvInterrupted \/ DrvAbandoned \/ DrvSendCancel \/ DrvWriteFails
  \/ DrvReply \/ DrvRelease \/ DrvDrainOne \/ DrvDrained \/ DrvClose

Fairness ==
  /\ \A t \in Tasks : WF_vars(TaskStep(t) \/ RollbackTimeout(t))
  /\ WF_vars(DriverWork)
  /\ WF_vars(DrvCleanupTimeout)

LiveSpec == Spec /\ Fairness

-----------------------------------------------------------------------------
(* Properties *)

\* The session mutex has exactly the owners it can have: a caller between
\* lock and send, a Transaction guard, or a request that carries the lease.
LeaseExclusive ==
  LET callers  == {t \in Tasks : txn[t] = "none" /\ pc[t] \in {"send", "reserved"}}
      guards   == {t \in Tasks : txn[t] # "none" /\ pc[t] # "lock"}
      requests == {i \in DOMAIN queue : queue[i].lease}
  IN Cardinality(callers) + Cardinality(guards) + Cardinality(requests)
       + (IF cur.lease THEN 1 ELSE 0) = IF session THEN 1 ELSE 0

\* A response is read by the request it answers: whatever the driver is about
\* to read while it drives a request was sent for that request (or is stray),
\* and between requests nothing of an earlier response is left to come.  This
\* is what "reusable" has to mean after errors, cancellation and timeouts.
ResponseBelongsToRequest ==
  LET mine == IF Driving \/ dpc = "cancel" THEN {0, active} ELSE {0}
  IN dpc \in {"select", "recv", "parked", "probe", "run", "cancel", "cleanup"} =>
       /\ srvGen \in mine
       /\ \A i \in DOMAIN wire : wire[i].gen \in mine

\* A statement sent without the guard, or by another task, runs inside a
\* transaction that a Transaction guard opened.
Intrusion ==
  /\ srvGen # 0 /\ srvTx.guarded
  /\ srvReq.lease \/ srvReq.task # srvTx.task

\* "Exclusive ownership across client clones" holds up to a race of stop() with
\* the driver: an intrusion only happens once the session is bound to be closed,
\* so that what it did is rolled back with the session unless it ended the
\* transaction itself.
IntruderIsDoomed == Intrusion => closing

\* A statement of a Transaction never runs outside it, where the backend would
\* commit it on its own, whatever was abandoned, cancelled or timed out before.
NeverAutocommitted ==
  srvGen # 0 /\ ~srvReq.lease /\ srvReq.sql \in {"stmt", "commit"} =>
    srvTx = [task |-> srvReq.task, guarded |-> TRUE]

\* BEGIN of a Transaction never reaches a session that plain SQL left inside a
\* transaction (Client::transaction answers "nested transaction").
NeverNested ==
  srvGen # 0 /\ ~srvReq.lease /\ srvReq.sql = "begin" => srvTx = NoTx \/ closing

\* Every request a Transaction sends meets the transaction it is for: its BEGIN
\* none, its statements and its COMMIT the one that BEGIN opened.
RunsInItsTransaction == NeverAutocommitted /\ NeverNested

\* Between requests in_transaction() tells the truth about the backend, also
\* after statements whose caller left or was told Cancelled or Timeout.
FlagTellsTruth ==
  alive /\ dpc \in {"select", "recv", "parked"} => (transaction <=> srvTx # NoTx)

\* cancel() stops the statement it was called for, never a later one: no
\* request is taken with its generation already cancelled.
StartsUncancelled ==
  [][active' # active /\ active' # 0 => cancelled' < active']_vars

\* A cancellation raised for the running statement is not lost to a slower
\* cancel() that loaded an older generation.
CancelSticks ==
  [][active' = active /\ active # 0 /\ cancelled = active => cancelled' = cancelled]_vars

\* close(), stop() and a lost session always end with the driver gone, however
\* the backend behaves.
ShutdownCompletes == (closing \/ dpc = "drain") ~> closed

\* No caller waits forever on a driver that shuts down, in particular not one
\* that had reserved channel capacity before the loop ended.
CallersReleased ==
  \A t \in Tasks : (closing \/ dpc = "drain") /\ pc[t] # "idle" ~> pc[t] = "idle"

\* A statement that is cancelled ends even if the backend never answers: the
\* driver notices a cancel() raised by another task while it awaits the
\* response, and what it does once it noticed that, a deadline, close() or a
\* caller that left is bounded.
CancelledEnds == active # 0 /\ cancelled = active ~> active = 0

\* A dropped Transaction is over in bounded time: rolled back, or the client
\* stopped.
DroppedTransactionEnds ==
  \A t \in Transacting : txn[t] = "dropping" ~> txn[t] # "dropping"
===============================================================================
