------------------------------ MODULE AsyncFacade ------------------------------
(***************************************************************************)
(* The legacy async wrapper, AsyncNzConnection (src/src/asynchronous.rs):  *)
(* every call is a job on a blocking thread that locks the one             *)
(* NzConnection, registers itself as the active operation and runs its     *)
(* statement.  cancel() sends its packet while it holds the lock of the    *)
(* active operation; close() raises a flag, cancels, and waits for the     *)
(* connection.  A caller that gives up its future does not stop the job.   *)
(***************************************************************************)
EXTENDS Integers, FiniteSets

CONSTANTS
  Jobs,         \* blocking jobs; a job that has ended may be used again
  Handles,      \* clones of the AsyncNzConnection
  MaxCalls,     \* bound: statements begun
  MaxCancels,   \* bound: calls of cancel()
  None

VARIABLES
  job,         \* where each job stands
  gen,         \* its generation
  inner,       \* who has locked the connection
  poisoned,    \* a job panicked with it
  conn,        \* the connection is there
  closing, closed,
  active,      \* AsyncControl.active: a generation, or None
  nextGen,
  controlLock, \* who has locked AsyncControl.active
  calls,       \* calls of cancel() so far
  user, closer, \* where a call of cancel() and a call of close() stand
  handles,     \* clones not yet dropped
  packets,     \* cancel packets on their way, by the generation they are for
  backend      \* the generation the backend runs

controlVars == <<closing, closed, active, nextGen, controlLock>>
callerVars == <<calls, user, closer, handles>>
vars == <<job, gen, inner, poisoned, conn, controlVars, callerVars, packets, backend>>

TypeOK ==
  /\ job \in [Jobs -> {"none", "queued", "locked", "checked", "active", "sent", "done", "release"}]
  /\ gen \in [Jobs -> Nat]
  /\ inner \in Jobs \cup {None}
  /\ {poisoned, conn, closing, closed} \subseteq BOOLEAN
  /\ active \in Nat \cup {None} /\ nextGen \in Nat /\ calls \in Nat
  /\ controlLock \in {"user", "closer", None}
  /\ user \in {"none", "called"}
  /\ closer \in {"none", "flag", "cancel", "lock"}
  /\ handles \subseteq Handles
  /\ packets \subseteq Nat /\ backend \in Nat \cup {None}

Init ==
  /\ job = [j \in Jobs |-> "none"] /\ gen = [j \in Jobs |-> 0]
  /\ inner = None /\ poisoned = FALSE /\ conn = TRUE
  /\ closing = FALSE /\ closed = FALSE /\ active = None /\ nextGen = 0 /\ controlLock = None
  /\ calls = 0 /\ user = "none" /\ closer = "none" /\ handles = Handles
  /\ packets = {} /\ backend = None

-----------------------------------------------------------------------------
(* with_connection, which query, execute, execute_stream, begin_transaction, *)
(* change_database and the metadata calls go through                         *)

Moves(j, from, to) == job[j] = from /\ job' = [job EXCEPT ![j] = to]

Call(j) ==
  /\ handles # {} /\ nextGen < MaxCalls
  /\ Moves(j, "none", "queued")
  /\ UNCHANGED <<gen, inner, poisoned, conn, controlVars, callerVars, packets, backend>>

LockInner(j) ==
  /\ ~poisoned /\ inner = None /\ conn
  /\ Moves(j, "queued", "locked")
  /\ inner' = j
  /\ UNCHANGED <<gen, poisoned, conn, controlVars, callerVars, packets, backend>>

\* the lock is poisoned, or the connection was taken
Refused_poisoned(j) == \* mutant: a poisoned lock is waited for
  /\ inner = None /\ ~conn
  /\ Moves(j, "queued", "none")
  /\ UNCHANGED <<gen, inner, poisoned, conn, controlVars, callerVars, packets, backend>>
Refused(j) ==
  /\ poisoned \/ (inner = None /\ ~conn)
  /\ Moves(j, "queued", "none")
  /\ UNCHANGED <<gen, inner, poisoned, conn, controlVars, callerVars, packets, backend>>

\* AsyncControl::begin looks at the flags first ...
BeginChecks(j) ==
  /\ IF closing \/ closed THEN Moves(j, "locked", "release") ELSE Moves(j, "locked", "checked")
  /\ UNCHANGED <<gen, inner, poisoned, conn, controlVars, callerVars, packets, backend>>

\* ... and then registers the operation
BeginRegisters(j) ==
  /\ controlLock = None
  /\ Moves(j, "checked", "active")
  /\ nextGen' = nextGen + 1
  /\ gen' = [gen EXCEPT ![j] = nextGen + 1]
  /\ active' = nextGen + 1
  /\ UNCHANGED <<inner, poisoned, conn, closing, closed, controlLock, callerVars, packets, backend>>

\* the statement of the job reaches the backend, which answers it
SendStatement(j) ==
  /\ Moves(j, "active", "sent")
  /\ backend' = gen[j]
  /\ UNCHANGED <<gen, inner, poisoned, conn, controlVars, callerVars, packets>>

Answer(j) ==
  /\ backend # gen[j]
  /\ Moves(j, "sent", "done")
  /\ UNCHANGED <<gen, inner, poisoned, conn, controlVars, callerVars, packets, backend>>

\* the statement fails on the client's side, or panics with the lock held
Fails(j) ==
  /\ job[j] \in {"active", "sent"}
  /\ job' = [job EXCEPT ![j] = "done"]
  /\ poisoned' \in {poisoned, TRUE}
  /\ UNCHANGED <<gen, inner, conn, controlVars, callerVars, packets, backend>>

\* Drop for ActiveGuard: finish() clears its own generation only
Finish(j) ==
  /\ controlLock = None
  /\ Moves(j, "done", "release")
  /\ active' = IF active = gen[j] THEN None ELSE active
  /\ UNCHANGED <<gen, inner, poisoned, conn, closing, closed, nextGen, controlLock, callerVars,
                 packets, backend>>

\* the guard of the connection is dropped, then the job's clone of inner: the
\* connection goes with its last owner
Alive(j) == job[j] # "none"

Release(j) ==
  /\ Moves(j, "release", "none")
  /\ inner' = None
  /\ conn' = (conn /\ (handles # {} \/ \E k \in Jobs \ {j} : Alive(k)))
  /\ UNCHANGED <<gen, poisoned, controlVars, callerVars, packets, backend>>

-----------------------------------------------------------------------------
(* AsyncControl::cancel, called by who *)

\* the lock is taken; with no active operation there is nothing to send
TakeControl_unlocked(who) == controlLock' = None \* mutant: the lock is let go at once
TakeControl(who) == controlLock' = who

SendPacket(who) ==
  /\ packets' = packets \cup {active}
  /\ controlLock' = None

\* a cancel() by the program
UserCancel ==
  /\ handles # {} /\ user = "none" /\ calls < MaxCancels /\ controlLock = None
  /\ calls' = calls + 1
  /\ active # None
  /\ user' = "called" /\ TakeControl("user")
  /\ UNCHANGED <<job, gen, inner, poisoned, conn, closing, closed, active, nextGen, closer, handles,
                 packets, backend>>

UserSends ==
  /\ user = "called"
  /\ SendPacket("user") \/ (controlLock' = None /\ UNCHANGED packets) \* send_cancel fails
  /\ user' = "none"
  /\ UNCHANGED <<job, gen, inner, poisoned, conn, closing, closed, active, nextGen, calls, closer,
                 handles, backend>>

-----------------------------------------------------------------------------
(* AsyncNzConnection::close *)

CloseFlag ==
  /\ closer = "none" /\ handles # {}
  /\ closing' = TRUE /\ closer' = "flag"
  /\ UNCHANGED <<job, gen, inner, poisoned, conn, closed, active, nextGen, controlLock, calls, user,
                 handles, packets, backend>>

CloseCancels ==
  /\ closer = "flag" /\ controlLock = None
  /\ IF active = None THEN closer' = "lock" /\ UNCHANGED controlLock
     ELSE closer' = "cancel" /\ TakeControl("closer")
  /\ UNCHANGED <<job, gen, inner, poisoned, conn, closing, closed, active, nextGen, calls, user,
                 handles, packets, backend>>

CloseSends ==
  /\ closer = "cancel"
  /\ SendPacket("closer") \/ (controlLock' = None /\ UNCHANGED packets)
  /\ closer' = "lock"
  /\ UNCHANGED <<job, gen, inner, poisoned, conn, closing, closed, active, nextGen, calls, user,
                 handles, backend>>

\* a poisoned lock is passed over
LockOrPoisoned_tried == TRUE \* mutant: try_lock
LockOrPoisoned == poisoned \/ inner = None

CloseTakes ==
  /\ closer = "lock" /\ LockOrPoisoned
  /\ conn' = (conn /\ poisoned)
  /\ closed' = TRUE /\ closer' = "none"
  /\ UNCHANGED <<job, gen, inner, poisoned, closing, active, nextGen, controlLock, calls, user,
                 handles, packets, backend>>

\* Drop for AsyncNzConnection: the last owner of inner closes; a running job
\* is an owner
DropHandle(h) ==
  /\ h \in handles /\ user = "none" /\ closer = "none"
  /\ handles' = handles \ {h}
  /\ IF handles = {h} /\ \A j \in Jobs : ~Alive(j)
       THEN closing' = TRUE /\ closed' = TRUE /\ conn' = FALSE
       ELSE UNCHANGED <<closing, closed, conn>>
  /\ UNCHANGED <<job, gen, inner, poisoned, active, nextGen, controlLock, calls, user, closer, packets, backend>>

-----------------------------------------------------------------------------
(* The backend *)

Complete == /\ backend # None
            /\ backend' = None
            /\ UNCHANGED <<job, gen, inner, poisoned, conn, controlVars, callerVars, packets>>

\* a packet ends whatever runs
CancelArrives ==
  /\ \E p \in packets : packets' = packets \ {p}
  /\ backend' = None
  /\ UNCHANGED <<job, gen, inner, poisoned, conn, controlVars, callerVars>>

Works(j) == \/ LockInner(j) \/ Refused(j) \/ BeginChecks(j) \/ BeginRegisters(j) \/ SendStatement(j)
            \/ Answer(j) \/ Finish(j) \/ Release(j)
Closes == CloseCancels \/ CloseSends \/ CloseTakes

Next ==
  \/ \E j \in Jobs : Call(j) \/ Works(j) \/ Fails(j)
  \/ UserCancel \/ UserSends \/ CloseFlag \/ Closes
  \/ \E h \in Handles : DropHandle(h)
  \/ Complete \/ CancelArrives

Spec == Init /\ [][Next]_vars

\* The blocking threads run, a mutex is handed on in the end, and the backend
\* ends every statement: no deadline is assumed.
Fairness ==
  /\ \A j \in Jobs : SF_vars(Works(j))
  /\ WF_vars(UserSends) /\ SF_vars(Closes) /\ WF_vars(Complete)
LiveSpec == Spec /\ Fairness

-----------------------------------------------------------------------------
(* Properties *)

\* A cancel packet leaves only for an operation that is still registered, so
\* the job that runs it has not ended and no later one has begun.
SentWhileActive ==
  [][packets' \subseteq packets
     \/ \E j \in Jobs : /\ job[j] \in {"active", "sent", "done"}
                        /\ gen[j] = nextGen
                        /\ packets' = packets \cup {gen[j]}]_vars

\* When close() has returned no job has, or will get, the connection.
CloseIsFinal ==
  closed /\ ~poisoned => ~conn /\ \A j \in Jobs : job[j] \in {"none", "queued"}

\* close() returns, and every call does, whoever holds the locks.
CloseEnds == closing ~> closed
CallsEnd == \A j \in Jobs : job[j] = "queued" ~> job[j] = "none"
CallersServed == CloseEnds /\ CallsEnd
===============================================================================
