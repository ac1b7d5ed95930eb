------------------------------- MODULE AsyncPool -------------------------------
(***************************************************************************)
(* The pool of native clients, AsyncNzPool (src/src/async_pool.rs).  A     *)
(* semaphore of Max permits bounds the checkouts; PoolState, under a       *)
(* mutex, holds the idle connections, a count of all of them and a closed  *)
(* flag.                                                                   *)
(*                                                                         *)
(* Every lease of Leases is one checkout at a time: the future of get(),   *)
(* the AsyncPooledConnection it yields, and the detached task that returns *)
(* or retires the connection.  A step is what the code does between two    *)
(* awaits or under one lock.  A session is the client of a connection with *)
(* its driver task and socket, reduced to what NativeDriver shows of it.   *)
(***************************************************************************)
EXTENDS Integers, Sequences, FiniteSets

CONSTANTS
  Leases,            \* checkouts that can be in progress at once
  Sessions,          \* bound: sessions that can be remembered at once
  Max, Min,          \* AsyncNzPoolConfig
  MaxUses,
  RollbackOnRelease,
  OutsideRuntime,    \* may a lease be dropped outside any Tokio runtime?
  MaxTotal,          \* bound: no new connection is registered at this count
  None               \* not a session

ASSUME PoolAssumption ==
  /\ IsFiniteSet(Leases)
  /\ Max \in Nat \ {0} /\ Min \in 0..Max \* AsyncNzPoolConfig::validate
  /\ MaxUses \in Nat \ {0}
  /\ RollbackOnRelease \in BOOLEAN /\ OutsideRuntime \in BOOLEAN
  /\ MaxTotal \in Nat
  /\ None \notin Sessions

VARIABLES
  permits,     \* available permits of the semaphore
  open,        \* the semaphore has not been closed
  alive,       \* the AsyncNzPool value exists
  idle,        \* PoolState.idle, a stack
  total,       \* PoolState.total
  closed,      \* PoolState.closed
  ending,      \* connections end() took and still has to close
  pc,          \* where each lease stands
  role,        \* whose connection it closes: see CloseDone
  conn,        \* the session each lease owns
  registered,  \* Reservation.registered
  uses,        \* uses counted for each session
  dirty,       \* a transaction is open on it
  sess         \* life of each session

poolVars  == <<permits, open, alive, idle, total, closed, ending>>
leaseVars == <<pc, role, conn, registered>>
sessVars  == <<uses, dirty, sess>>
vars == <<poolVars, leaseVars, sessVars>>

\* "stopping": told to stop, or without a client; "draining": the request
\* channel is closed while the socket still is not; "gone": all is closed.
Life == {"gone", "up", "stopping", "draining"}

TypeOK ==
  /\ permits \in Nat /\ total \in Nat
  /\ open \in BOOLEAN /\ alive \in BOOLEAN /\ closed \in BOOLEAN
  /\ idle \in Seq(Sessions) /\ ending \in Seq(Sessions)
  /\ pc \in [Leases -> {"none", "permit", "pop", "vet", "probe", "register", "connect",
                        "held", "finish", "rollback", "store", "stored",
                        "retire", "check", "await"}]
  /\ role \in [Leases -> {"checkout", "orphan", "return"}]
  /\ conn \in [Leases -> Sessions \cup {None}]
  /\ registered \in [Leases -> BOOLEAN]
  /\ uses \in [Sessions -> Nat]
  /\ dirty \in [Sessions -> BOOLEAN]
  /\ sess \in [Sessions -> Life]

Init ==
  /\ permits = Max /\ open = TRUE /\ alive = TRUE
  /\ idle = <<>> /\ total = 0 /\ closed = FALSE /\ ending = <<>>
  /\ pc = [l \in Leases |-> "none"]
  /\ role = [l \in Leases |-> "checkout"]
  /\ conn = [l \in Leases |-> None]
  /\ registered = [l \in Leases |-> FALSE]
  /\ uses = [s \in Sessions |-> 0]
  /\ dirty = [s \in Sessions |-> FALSE]
  /\ sess = [s \in Sessions |-> "gone"]

-----------------------------------------------------------------------------
(* Helpers *)

\* usize::saturating_sub
SaturatingSub(a, b) == IF a > b THEN a - b ELSE 0

\* Client::is_closed
IsClosed(s) == sess[s] \in {"draining", "gone"}

\* Client::stop, or the last clone of the client is dropped
Stopped(s) == IF sess[s] = "up" THEN "stopping" ELSE sess[s]

\* max_uses reached: the guard of acquire and of ReturnTask::finish
WornOut(n) == n >= MaxUses

Go(l, where) == pc' = [pc EXCEPT ![l] = where]

\* The permit goes back to the semaphore and the lease is over
FreeSlot_leak(l) == \* mutant: the permit is forgotten
  /\ permits' = permits
  /\ registered' = [registered EXCEPT ![l] = FALSE]
  /\ conn' = [conn EXCEPT ![l] = None]
  /\ role' = [role EXCEPT ![l] = "checkout"]
  /\ Go(l, "none")
FreeSlot(l) ==
  /\ permits' = permits + 1
  /\ registered' = [registered EXCEPT ![l] = FALSE]
  /\ conn' = [conn EXCEPT ![l] = None]
  /\ role' = [role EXCEPT ![l] = "checkout"]
  /\ Go(l, "none")

\* Drop for Reservation, which drops its permit last
Unreserve(l) ==
  /\ total' = IF registered[l] THEN SaturatingSub(total, 1) ELSE total
  /\ FreeSlot(l)

-----------------------------------------------------------------------------
(* AsyncNzPool::acquire *)

Get(l) ==
  /\ alive /\ pc[l] = "none"
  /\ Go(l, "permit")
  /\ UNCHANGED <<poolVars, role, conn, registered, sessVars>>

\* Semaphore::acquire_owned
PermitAvailable == permits > 0
PermitRefused_late == ~open /\ permits > 0 \* mutant: waiters are not woken
PermitRefused == ~open

AcquirePermit(l) ==
  /\ pc[l] = "permit" /\ open /\ PermitAvailable
  /\ permits' = permits - 1
  /\ Go(l, "pop")
  /\ UNCHANGED <<open, alive, idle, total, closed, ending, role, conn, registered, sessVars>>

AcquireClosed(l) ==
  /\ pc[l] = "permit" /\ PermitRefused
  /\ Go(l, "none")
  /\ UNCHANGED <<poolVars, role, conn, registered, sessVars>>

\* One turn of the loop, under the lock
PopClosed(l) ==
  /\ pc[l] \in {"pop", "register"} /\ closed
  /\ Unreserve(l)
  /\ UNCHANGED <<open, alive, idle, closed, ending, sessVars>>

BelowTop_peek(s) == s \* mutant: last() in place of pop()
BelowTop(s) == SubSeq(s, 1, Len(s) - 1)

PopIdle(l) ==
  /\ pc[l] = "pop" /\ ~closed /\ idle # <<>>
  /\ conn' = [conn EXCEPT ![l] = idle[Len(idle)]]
  /\ idle' = BelowTop(idle)
  /\ Go(l, "vet")
  /\ UNCHANGED <<permits, open, alive, total, closed, ending, role, registered, sessVars>>

NothingIdle_unasked == TRUE \* mutant: connects although a connection is idle
NothingIdle == idle = <<>>

PopNone(l) ==
  /\ pc[l] = "pop" /\ ~closed /\ NothingIdle
  /\ Go(l, "register")
  /\ UNCHANGED <<poolVars, role, conn, registered, sessVars>>

\* Is the popped connection still fresh?  Both clocks are free choices.
Vet(l) ==
  /\ pc[l] = "vet"
  /\ \E tooOld, idleTooLong \in BOOLEAN :
       LET fresh == /\ ~IsClosed(conn[l])
                    /\ ~tooOld
                    /\ ~WornOut(uses[conn[l]])
                    /\ ~idleTooLong \/ total <= Min
       IN Go(l, IF fresh THEN "probe" ELSE "retire")
  /\ UNCHANGED <<poolVars, role, conn, registered, sessVars>>

\* probe_idle answers true: the connection is handed out
ProbeHealthy(l) ==
  /\ pc[l] = "probe" /\ sess[conn[l]] = "up"
  /\ registered' = [registered EXCEPT ![l] = TRUE]
  /\ uses' = [uses EXCEPT ![conn[l]] = @ + 1]
  /\ Go(l, "held")
  /\ UNCHANGED <<poolVars, role, conn, dirty, sess>>

\* probe_idle answers false: the driver found the socket unusable and ends
ProbeFails(l) ==
  /\ pc[l] = "probe"
  /\ sess' = [sess EXCEPT ![conn[l]] = IF @ = "up" THEN "draining" ELSE @]
  /\ Go(l, "retire")
  /\ UNCHANGED <<poolVars, role, conn, registered, uses, dirty>>

Register(l) ==
  /\ pc[l] = "register" /\ ~closed
  /\ total < MaxTotal
  /\ total' = total + 1
  /\ registered' = [registered EXCEPT ![l] = TRUE]
  /\ Go(l, "connect")
  /\ UNCHANGED <<permits, open, alive, idle, closed, ending, role, conn, sessVars>>

\* A session nothing refers to any more can be a new one
Unused(s) ==
  /\ sess[s] = "gone"
  /\ \A l \in Leases : conn[l] # s
  /\ \A i \in DOMAIN idle : idle[i] # s
  /\ \A i \in DOMAIN ending : ending[i] # s

ConnectOk(l, s) ==
  /\ pc[l] = "connect" /\ Unused(s)
  /\ uses' = [uses EXCEPT ![s] = 1]
  /\ dirty' = [dirty EXCEPT ![s] = FALSE]
  /\ IF closed
       THEN /\ sess' = [sess EXCEPT ![s] = "stopping"]
            /\ Unreserve(l)
       ELSE /\ sess' = [sess EXCEPT ![s] = "up"]
            /\ conn' = [conn EXCEPT ![l] = s]
            /\ Go(l, "held")
            /\ UNCHANGED <<permits, total, role, registered>>
  /\ UNCHANGED <<open, alive, idle, closed, ending>>

ConnectFails(l) ==
  /\ pc[l] = "connect"
  /\ Unreserve(l)
  /\ UNCHANGED <<open, alive, idle, closed, ending, sessVars>>

\* The future of get() is dropped, or wait_timeout ran out, at an await: for
\* the permit, for the probe, for the connection, for a retirement.
AbandonWait(l) ==
  /\ pc[l] = "permit"
  /\ Go(l, "none")
  /\ UNCHANGED <<poolVars, role, conn, registered, sessVars>>

AbandonProbe(l) ==
  /\ pc[l] = "probe"
  /\ sess' = [sess EXCEPT ![conn[l]] = Stopped(conn[l])]
  /\ Unreserve(l)
  /\ UNCHANGED <<open, alive, idle, closed, ending, uses, dirty>>

AbandonConnect(l) == ConnectFails(l)

\* the retirement is a task of its own and goes on
AbandonRetire(l) ==
  /\ pc[l] \in {"retire", "check", "await"} /\ role[l] = "checkout"
  /\ role' = [role EXCEPT ![l] = "orphan"]
  /\ UNCHANGED <<poolVars, pc, conn, registered, sessVars>>

-----------------------------------------------------------------------------
(* AsyncPooledConnection and ReturnTask *)

\* A statement, or a transaction, runs on the connection and may break it
Use(l) ==
  /\ pc[l] = "held" /\ sess[conn[l]] = "up"
  /\ dirty' = [dirty EXCEPT ![conn[l]] = TRUE]
  /\ sess' \in {sess, [sess EXCEPT ![conn[l]] = "draining"]}
  /\ UNCHANGED <<poolVars, leaseVars, uses>>

\* release(), or drop inside a runtime
Release(l) ==
  /\ pc[l] = "held"
  /\ role' = [role EXCEPT ![l] = "return"]
  /\ Go(l, "finish")
  /\ UNCHANGED <<poolVars, conn, registered, sessVars>>

\* drop outside any runtime: ReturnTask and Reservation are dropped in place
DropWithoutRuntime(l) ==
  /\ OutsideRuntime
  /\ pc[l] = "held"
  /\ sess' = [sess EXCEPT ![conn[l]] = Stopped(conn[l])]
  /\ Unreserve(l)
  /\ UNCHANGED <<open, alive, idle, closed, ending, uses, dirty>>

Finish(l) ==
  /\ pc[l] = "finish"
  /\ \E tooOld \in BOOLEAN :
       LET destroy == IsClosed(conn[l]) \/ WornOut(uses[conn[l]]) \/ tooOld
       IN Go(l, IF destroy THEN "retire"
                ELSE IF RollbackOnRelease THEN "rollback" ELSE "store")
  /\ UNCHANGED <<poolVars, role, conn, registered, sessVars>>

RollbackOk(l) ==
  /\ pc[l] = "rollback" /\ sess[conn[l]] = "up"
  /\ dirty' = [dirty EXCEPT ![conn[l]] = FALSE]
  /\ Go(l, "store")
  /\ UNCHANGED <<poolVars, role, conn, registered, uses, sess>>

\* refused, failed or not finished within 5 s
AfterFailedRollback_kept == "store" \* mutant: the result is not looked at
AfterFailedRollback == "retire"

RollbackFails(l) ==
  /\ pc[l] = "rollback"
  /\ sess' \in {sess, [sess EXCEPT ![conn[l]] = IF @ = "up" THEN "draining" ELSE @]}
  /\ Go(l, AfterFailedRollback)
  /\ UNCHANGED <<poolVars, role, conn, registered, uses, dirty>>

\* Under the lock: the connection becomes idle unless the pool was closed
Storable == ~closed

Store(l) ==
  /\ pc[l] = "store"
  /\ IF Storable
       THEN /\ idle' = Append(idle, conn[l])
            /\ conn' = [conn EXCEPT ![l] = None]
            /\ registered' = [registered EXCEPT ![l] = FALSE]
            /\ Go(l, "stored")
       ELSE /\ Go(l, "retire")
            /\ UNCHANGED <<idle, conn, registered>>
  /\ UNCHANGED <<permits, open, alive, total, closed, ending, role, sessVars>>

\* the rest of ReturnTask, its reservation, is dropped after the unlock
StoreDone(l) ==
  /\ pc[l] = "stored"
  /\ Unreserve(l)
  /\ UNCHANGED <<open, alive, idle, closed, ending, sessVars>>

-----------------------------------------------------------------------------
(* Client::close as Reservation::retire and ReturnTask::finish await it *)

CloseFlag(l) == sess' = [sess EXCEPT ![conn[l]] = Stopped(conn[l])]

CloseCall(l) ==
  /\ pc[l] = "retire"
  /\ CloseFlag(l)
  /\ Go(l, "check")
  /\ UNCHANGED <<poolVars, role, conn, registered, uses, dirty>>

\* The connection is closed.  A retirement of acquire lowers the count and
\* hands the permit back, to nobody if get() was abandoned; otherwise the
\* reservation of the returned lease is dropped.
CloseDone(l) ==
  \/ /\ role[l] = "checkout"
     /\ total' = SaturatingSub(total, 1)
     /\ conn' = [conn EXCEPT ![l] = None]
     /\ Go(l, "pop")
     /\ UNCHANGED <<permits, role, registered>>
  \/ /\ role[l] = "orphan"
     /\ total' = SaturatingSub(total, 1)
     /\ FreeSlot(l)
  \/ /\ role[l] = "return"
     /\ Unreserve(l)

\* is_closed() is read once; a client that is not closed yet is awaited
CloseCheck(l) ==
  /\ pc[l] = "check"
  /\ IF IsClosed(conn[l])
       THEN CloseDone(l)
       ELSE /\ Go(l, "await")
            /\ UNCHANGED <<permits, total, role, conn, registered>>
  /\ UNCHANGED <<open, alive, idle, closed, ending, sessVars>>

\* Control.finished is notified when the driver is gone
CloseFinished(l) ==
  /\ pc[l] = "await" /\ sess[conn[l]] = "gone"
  /\ CloseDone(l)
  /\ UNCHANGED <<open, alive, idle, closed, ending, sessVars>>

-----------------------------------------------------------------------------
(* AsyncNzPool::end and Drop for AsyncNzPool *)

EndPermits ==
  /\ alive /\ open
  /\ open' = FALSE
  /\ UNCHANGED <<permits, alive, idle, total, closed, ending, leaseVars, sessVars>>

EndTake ==
  /\ ~open /\ ~closed
  /\ closed' = TRUE
  /\ ending' = idle
  /\ idle' = <<>>
  /\ total' = SaturatingSub(total, Len(idle))
  /\ UNCHANGED <<permits, open, alive, leaseVars, sessVars>>

\* close() of the next one, and its return
EndStop ==
  /\ ending # <<>> /\ sess[Head(ending)] = "up"
  /\ sess' = [sess EXCEPT ![Head(ending)] = "stopping"]
  /\ UNCHANGED <<poolVars, leaseVars, uses, dirty>>

EndNext ==
  /\ ending # <<>> /\ IsClosed(Head(ending))
  /\ ending' = Tail(ending)
  /\ UNCHANGED <<permits, open, alive, idle, total, closed, leaseVars, sessVars>>

\* The future of end() is dropped with the clients it took
AbandonEnd ==
  /\ ending # <<>>
  /\ sess' = [s \in Sessions |->
                IF \E i \in DOMAIN ending : ending[i] = s THEN Stopped(s) ELSE sess[s]]
  /\ ending' = <<>>
  /\ UNCHANGED <<permits, open, alive, idle, total, closed, leaseVars, uses, dirty>>

\* No get() or end() borrows the pool any more
DropPool ==
  /\ alive /\ ending = <<>> /\ (open \/ closed)
  /\ \A l \in Leases : pc[l] \in {"none", "held"} \/ role[l] # "checkout"
  /\ alive' = FALSE /\ open' = FALSE /\ closed' = TRUE
  /\ sess' = [s \in Sessions |->
                IF \E i \in DOMAIN idle : idle[i] = s THEN Stopped(s) ELSE sess[s]]
  /\ idle' = <<>>
  /\ total' = SaturatingSub(total, Len(idle))
  /\ UNCHANGED <<permits, ending, leaseVars, uses, dirty>>

-----------------------------------------------------------------------------
(* The driver of a session, as the pool sees it (see NativeDriver) *)

SessionDrains(s) ==
  /\ sess[s] = "stopping"
  /\ sess' = [sess EXCEPT ![s] = "draining"]
  /\ UNCHANGED <<poolVars, leaseVars, uses, dirty>>

SessionGone(s) ==
  /\ sess[s] = "draining"
  /\ sess' = [sess EXCEPT ![s] = "gone"]
  /\ UNCHANGED <<poolVars, leaseVars, uses, dirty>>

-----------------------------------------------------------------------------
Checkout(l) ==
  \/ AcquirePermit(l) \/ AcquireClosed(l) \/ PopClosed(l) \/ PopIdle(l) \/ PopNone(l)
  \/ Vet(l) \/ ProbeHealthy(l) \/ ProbeFails(l) \/ Register(l)
  \/ (\E s \in Sessions : ConnectOk(l, s)) \/ ConnectFails(l)

Cleanup(l) ==
  \/ Finish(l) \/ RollbackOk(l) \/ RollbackFails(l) \/ Store(l) \/ StoreDone(l)
  \/ CloseCall(l) \/ CloseCheck(l) \/ CloseFinished(l)

Holder(l) ==
  \/ Get(l) \/ Use(l) \/ Release(l) \/ DropWithoutRuntime(l)
  \/ AbandonWait(l) \/ AbandonProbe(l) \/ AbandonConnect(l) \/ AbandonRetire(l)

Ending == EndTake \/ EndStop \/ EndNext

Next ==
  \/ \E l \in Leases : Checkout(l) \/ Cleanup(l) \/ Holder(l)
  \/ EndPermits \/ Ending \/ AbandonEnd \/ DropPool
  \/ \E s \in Sessions : SessionDrains(s) \/ SessionGone(s)

Spec == Init /\ [][Next]_vars

\* Spawned tasks run, a driver told to stop does (ShutdownCompletes of
\* NativeDriver), rollback and close are bounded.  Holders may keep what they
\* hold, and callers may never come.
Fairness ==
  /\ \A l \in Leases : WF_vars(Cleanup(l) \/ Checkout(l))
  /\ WF_vars(Ending)
  /\ \A s \in Sessions : WF_vars(SessionDrains(s) \/ SessionGone(s))

LiveSpec == Spec /\ Fairness

-----------------------------------------------------------------------------
(* Properties *)

\* Leases with a permit, and those among them that account for a connection
Permitted == {l \in Leases : pc[l] \notin {"none", "permit"}}
Slots == {l \in Leases : pc[l] \notin {"none", "permit", "pop", "stored"}}

\* No permit is lost or forged by any mix of timeouts, drops, failed connects
\* and retirements.
PermitsConserved == permits + Cardinality(Permitted) = Max

\* The pool never accounts for more connections than max, although a
\* connection is pushed before its permit is released.
CapacityBound == Len(idle) + Cardinality(Slots) <= Max

\* A connection is in one place: on the stack once, or with one lease.
OneOwner ==
  /\ \A i, j \in DOMAIN idle : idle[i] = idle[j] => i = j
  /\ \A l \in Leases : conn[l] # None =>
       /\ \A i \in DOMAIN idle : idle[i] # conn[l]
       /\ \A k \in Leases : conn[k] = conn[l] => k = l

\* A lease never starts inside the transaction of an earlier one.
IdleIsClean == RollbackOnRelease => \A i \in DOMAIN idle : ~dirty[idle[i]]

\* max_uses is a bound on the checkouts of one connection.
UsesBounded == \A l \in Leases : pc[l] = "held" => uses[conn[l]] <= MaxUses

\* Returning a lease after end() or drop never repopulates a closed pool.
ClosedKeepsNothing == closed => idle = <<>>

\* total never forgets a connection: what is idle, being vetted or retired by
\* a checkout, or registered is counted.
Vetted == {l \in Leases : conn[l] # None /\ ~registered[l]}
TotalCoversAll ==
  total >= Len(idle) + Cardinality(Vetted) + Cardinality({l \in Leases : registered[l]})

\* tests/live_stress.rs: "total {total} exceeds max" must not happen
TotalWithinMax == total <= Max

\* Sessions that were not told to stop are within max.  (One that was told may
\* still close its socket while its successor connects.)
UpWithinMax == Cardinality({s \in Sessions : sess[s] = "up"}) <= Max

\* No permit, count or session is lost or forged by any mix of timeouts, drops,
\* failed connects and retirements.
PoolAccounts == PermitsConserved /\ TotalCoversAll /\ UpWithinMax

\* What a checkout can be given is fit for it: no transaction of an earlier
\* holder, uses left, and nothing at all once the pool is closed.
IdleIsFit == IdleIsClean /\ UsesBounded /\ ClosedKeepsNothing

\* Every return and every retirement ends and gives its permit back, or goes
\* on with the checkout it is part of.
CleanupEnds ==
  \A l \in Leases :
    pc[l] \in {"finish", "rollback", "store", "stored", "retire", "check", "await"}
      ~> pc[l] \in {"none", "pop"}

\* Once the pool is closed no checkout is left waiting.
WaitersReleased ==
  \A l \in Leases : closed /\ pc[l] \in {"permit", "pop", "vet", "probe", "register"}
    ~> pc[l] \in {"none", "held"}
===============================================================================
