---------------------------- MODULE BlockingClient ----------------------------
(***************************************************************************)
(* The blocking client (src/src/blocking.rs): one thread that drives the   *)
(* native client on a runtime of its own.  A row iterator or a transaction *)
(* that is dropped is cleaned up in the background, by the driver or by a  *)
(* task that rolls back, and the drop waits for that with an empty         *)
(* statement, at most five seconds.                                        *)
(*                                                                         *)
(* The native client is what NativeDriver shows it to be: statements run   *)
(* one at a time, by whoever has its lease; a cleanup that fails stops the *)
(* session.                                                                *)
(***************************************************************************)
EXTENDS Integers

CONSTANT MaxSteps \* bound: calls of the program

VARIABLES
  pc,       \* where the thread stands
  guard,    \* what it has borrowed the client for: a RowIter or a Transaction
  lease,    \* who may use the session
  session,  \* is it up, told to stop, or down?
  tx,       \* a transaction is open on the backend
  steps

vars == <<pc, guard, lease, session, tx, steps>>

TypeOK ==
  /\ pc \in {"idle", "wait", "run", "barrier", "passed", "close"}
  /\ guard \in {"none", "iter", "tx"}
  /\ lease \in {"free", "thread", "guard", "rollback", "drain"}
  /\ session \in {"up", "stopping", "down"}
  /\ tx \in BOOLEAN /\ steps \in Nat

Init == /\ pc = "idle" /\ guard = "none" /\ lease = "free" /\ session = "up" /\ tx = FALSE /\ steps = 0

\* Client::stop of the native client
Stop == session' = IF session = "up" THEN "stopping" ELSE session

Begins == pc = "idle" /\ steps < MaxSteps /\ steps' = steps + 1

-----------------------------------------------------------------------------
(* Client::query, execute, batch_execute ...: block_on one call *)

Call == /\ Begins /\ guard = "none" /\ pc' = "wait"
        /\ UNCHANGED <<guard, lease, session, tx>>

\* the lease is had; a driver past its check of the flag still takes it
Acquire == /\ pc = "wait" /\ lease = "free" /\ session # "down"
           /\ lease' = "thread" /\ pc' = "run"
           /\ UNCHANGED <<guard, session, tx, steps>>

CallRefused == /\ pc = "wait" /\ session # "up"
               /\ pc' = "idle"
               /\ UNCHANGED <<guard, lease, session, tx, steps>>

CallReturns == /\ pc = "run"
               /\ pc' = "idle" /\ lease' = "free"
               /\ session' \in {session, "down"}
               /\ UNCHANGED <<guard, tx, steps>>

-----------------------------------------------------------------------------
(* query_iter and transaction; a statement of a Transaction changes nothing *)

OpenIter == /\ Begins /\ guard = "none" /\ lease = "free" /\ session = "up"
            /\ guard' = "iter" /\ lease' = "guard"
            /\ UNCHANGED <<pc, session, tx>>

Transaction == /\ Begins /\ guard = "none" /\ lease = "free" /\ session = "up"
               /\ guard' = "tx" /\ lease' = "guard" /\ tx' = TRUE
               /\ UNCHANGED <<pc, session>>

\* the response of an iterator was read to its end; the session is free
IterExhausted == /\ pc = "idle" /\ guard = "iter" /\ lease = "guard"
                 /\ lease' = "free"
                 /\ UNCHANGED <<pc, guard, session, tx, steps>>

\* commit and rollback take the native Transaction, so that Drop has nothing
\* to wait for; when they fail it is rolled back in the background
EndTransaction ==
  /\ Begins /\ guard = "tx" /\ guard' = "none"
  /\ \/ session = "up" /\ tx' = FALSE /\ lease' = "free"
     \/ tx' = tx /\ lease' = "rollback"
  /\ UNCHANGED <<pc, session>>

\* Drop for RowIter and for Transaction, with tokio_cleanup_barrier
LeaseAfterDrop ==
  IF guard = "tx" THEN "rollback" ELSE IF lease = "guard" THEN "drain" ELSE lease

DropGuard ==
  /\ Begins /\ guard # "none"
  /\ lease' = LeaseAfterDrop
  /\ guard' = "none"
  /\ pc' = "barrier"
  /\ UNCHANGED <<session, tx>>

\* batch_execute("") gets through
BarrierAcquires == /\ pc = "barrier" /\ lease = "free" /\ session # "down"
                   /\ pc' = "passed" /\ lease' = "thread"
                   /\ UNCHANGED <<guard, session, tx, steps>>

\* ... and ends; an error stops the session
BarrierReturns == /\ pc = "passed"
                  /\ pc' = "idle" /\ lease' = "free"
                  /\ UNCHANGED session \/ Stop
                  /\ UNCHANGED <<guard, tx, steps>>

\* it is refused, or does not get through in five seconds
BarrierFails_ignored == \* mutant: the error of the barrier is dropped
  /\ pc \in {"barrier", "passed"}
  /\ pc' = "idle"
  /\ lease' = IF pc = "passed" THEN "free" ELSE lease
  /\ UNCHANGED <<guard, session, tx, steps>>
BarrierFails ==
  /\ pc \in {"barrier", "passed"}
  /\ pc' = "idle"
  /\ lease' = IF pc = "passed" THEN "free" ELSE lease
  /\ Stop
  /\ UNCHANGED <<guard, tx, steps>>

\* Client::close, and Drop for Client
Close == /\ pc = "idle" /\ guard = "none" /\ pc' = "close" /\ Stop
         /\ UNCHANGED <<guard, lease, tx, steps>>
Closed == /\ pc = "close" /\ session = "down" /\ pc' = "idle"
          /\ UNCHANGED <<guard, lease, session, tx, steps>>

-----------------------------------------------------------------------------
(* The native client in the background *)

\* the rollback of a dropped Transaction ends, or fails and stops the session
RollbackEnds ==
  /\ lease = "rollback" /\ lease' = "free"
  /\ \/ session # "down" /\ tx' = FALSE /\ UNCHANGED session
     \/ tx' = tx /\ Stop
  /\ UNCHANGED <<pc, guard, steps>>

\* the rest of an abandoned response is read, or the session given up
DrainEnds == /\ lease = "drain" /\ lease' = "free"
             /\ session' \in {session, "down"}
             /\ UNCHANGED <<pc, guard, tx, steps>>

\* the driver sees the flag, or its peer is gone
GoesDown == /\ session = "stopping" \/ (session = "up" /\ pc = "idle" /\ guard = "none")
            /\ session' = "down"
            /\ UNCHANGED <<pc, guard, lease, tx, steps>>

Waits == Acquire \/ CallRefused \/ CallReturns \/ BarrierAcquires \/ BarrierReturns \/ Closed

Next ==
  \/ Call \/ OpenIter \/ Transaction \/ IterExhausted \/ EndTransaction \/ DropGuard \/ Close
  \/ Waits \/ BarrierFails \/ RollbackEnds \/ DrainEnds \/ GoesDown

Spec == Init /\ [][Next]_vars

-----------------------------------------------------------------------------
(* Properties *)

\* A statement of the thread never runs inside a transaction that was given
\* up, unless the session is already told to stop.
RunsOutside == pc \in {"run", "passed"} /\ session = "up" => ~tx

\* When a dropped iterator or transaction has been waited for, its cleanup is
\* over or the session will not be used again.
Settled == session # "up" \/ (lease = "free" /\ ~tx)
DropSettles == [][pc' = "idle" /\ pc \in {"barrier", "passed"} => Settled']_vars
===============================================================================
