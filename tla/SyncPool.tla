------------------------------- MODULE SyncPool -------------------------------
(***************************************************************************)
(* The synchronous pool, NzPool (src/src/pool.rs): a mutex over the idle   *)
(* queue, a count of all connections and a closed flag, and one condition  *)
(* variable on which the threads that find the pool full wait.             *)
(*                                                                         *)
(* A step is what a thread does under one lock, or between two.  Both      *)
(* clocks and the health of an idle socket are free choices.               *)
(***************************************************************************)
EXTENDS Integers, Sequences, FiniteSets

CONSTANTS
  Threads,
  Max, Min,          \* NzPoolConfig
  MaxUses,
  RollbackOnRelease,
  WaitTimeout,       \* is wait_timeout set?
  None               \* no connection

VARIABLES
  idle,    \* PoolInner.idle, a queue
  total,   \* PoolInner.total
  closed,  \* PoolInner.closed
  pc,      \* where each thread stands
  conn     \* the connection it owns: its uses, and is a transaction open?

vars == <<idle, total, closed, pc, conn>>

Connection == [uses : Nat, dirty : BOOLEAN]

\* "wait": on the condition variable; "woken": notified, the lock not yet
\* taken; "give": the lock of release_with; "refill", "join": ensure_min;
\* "notify": the notify_one that ends release_with.
TypeOK ==
  /\ idle \in Seq(Connection) /\ total \in Nat /\ closed \in BOOLEAN
  /\ pc \in [Threads -> {"none", "get", "wait", "woken", "connect", "held",
                         "give", "discard", "refill", "join", "notify"}]
  /\ conn \in [Threads -> Connection \cup {None}]

\* NzPool::new: the warm-up stops at the first connection that fails
Init ==
  /\ \E n \in 0..Min : /\ idle = [i \in 1..n |-> [uses |-> 0, dirty |-> FALSE]]
                       /\ total = n
  /\ closed = FALSE
  /\ pc = [t \in Threads |-> "none"]
  /\ conn = [t \in Threads |-> None]

-----------------------------------------------------------------------------
(* Helpers *)

\* usize::saturating_sub
SaturatingSub(a, b) == IF a > b THEN a - b ELSE 0

Waiting == {t \in Threads : pc[t] = "wait"}

\* Condvar::notify_one by thread t, which goes on to where
NotifyOne_lost(t, where) == \* mutant: nobody is notified
  pc' = [pc EXCEPT ![t] = where]
NotifyOne(t, where) ==
  \/ /\ Waiting = {}
     /\ pc' = [pc EXCEPT ![t] = where]
  \/ \E w \in Waiting : pc' = [pc EXCEPT ![t] = where, ![w] = "woken"]

Go(t, where) == pc' = [pc EXCEPT ![t] = where]

\* is_fresh, with the pool's count at that moment
Fresh(c, count, tooOld, idleTooLong, healthy) ==
  /\ ~tooOld
  /\ c.uses < MaxUses
  /\ idleTooLong => count <= Min
  /\ healthy

-----------------------------------------------------------------------------
(* NzPool::get *)

Get(t) ==
  /\ pc[t] = "none"
  /\ Go(t, "get")
  /\ UNCHANGED <<idle, total, closed, conn>>

\* One turn of the loop, under the lock, is one of the next four actions
InLoop(t) == pc[t] \in {"get", "woken"}

GetClosed(t) ==
  /\ InLoop(t) /\ closed
  /\ Go(t, "none")
  /\ UNCHANGED <<idle, total, closed, conn>>

\* The first k idle connections are stale and destroyed
Stale(k) ==
  \A i \in 1..k : \E tooOld, idleTooLong, healthy \in BOOLEAN :
    ~Fresh(idle[i], total - (i - 1), tooOld, idleTooLong, healthy)

GetIdle(t) ==
  /\ InLoop(t) /\ ~closed
  /\ \E k \in 0..Len(idle) - 1 :
       /\ Stale(k)
       /\ \E tooOld, idleTooLong, healthy \in BOOLEAN :
            Fresh(idle[k + 1], total - k, tooOld, idleTooLong, healthy)
       /\ total' = SaturatingSub(total, k)
       /\ conn' = [conn EXCEPT ![t] = [idle[k + 1] EXCEPT !.uses = @ + 1]]
       /\ idle' = SubSeq(idle, k + 2, Len(idle))
  /\ Go(t, "held")
  /\ UNCHANGED closed

\* All idle connections were stale: those left make room, or none is idle
Room(n) == n < Max

GetNew(t) ==
  /\ InLoop(t) /\ ~closed
  /\ Stale(Len(idle))
  /\ LET left == SaturatingSub(total, Len(idle))
     IN /\ Room(left)
        /\ total' = left + 1
  /\ idle' = <<>>
  /\ Go(t, "connect")
  /\ UNCHANGED <<closed, conn>>

\* The pool is full: the thread waits, unless its deadline is over
GetFull(t) ==
  /\ InLoop(t) /\ ~closed
  /\ Stale(Len(idle))
  /\ total' = SaturatingSub(total, Len(idle))
  /\ ~Room(total')
  /\ idle' = <<>>
  /\ Go(t, "wait") \/ (WaitTimeout /\ Go(t, "none"))
  /\ UNCHANGED <<closed, conn>>

ConnectOk(t) ==
  /\ pc[t] = "connect"
  /\ conn' = [conn EXCEPT ![t] = [uses |-> 1, dirty |-> FALSE]]
  /\ Go(t, "held")
  /\ UNCHANGED <<idle, total, closed>>

\* The slot is given back and a waiter told, under the lock
ConnectFailed(t) ==
  /\ pc[t] = "connect"
  /\ total' = SaturatingSub(total, 1)
  /\ NotifyOne(t, "none")
  /\ UNCHANGED <<idle, closed, conn>>

\* wait_timeout ran out: the thread leaves without another look at the pool
WaitTimedOut(t) ==
  /\ WaitTimeout /\ pc[t] = "wait"
  /\ Go(t, "none")
  /\ UNCHANGED <<idle, total, closed, conn>>

\* Condvar::wait may return by itself
SpuriousWakeup(t) ==
  /\ pc[t] = "wait"
  /\ Go(t, "woken")
  /\ UNCHANGED <<idle, total, closed, conn>>

-----------------------------------------------------------------------------
(* PooledConnection *)

\* A statement opens, or ends, a transaction
Use(t) ==
  /\ pc[t] = "held"
  /\ conn' = [conn EXCEPT ![t].dirty = ~@]
  /\ UNCHANGED <<idle, total, closed, pc>>

\* release_with up to its lock.  err: the operation failed with other than
\* an error of the database; tooOld: max_lifetime; broken: the connection
\* was closed by a fault; rolledBack: the answer to the ROLLBACK.
Release(t) ==
  /\ pc[t] = "held"
  /\ \E err, tooOld, broken, rolledBack \in BOOLEAN :
       LET spent == err \/ conn[t].uses >= MaxUses \/ tooOld \/ broken
           ends  == ~spent /\ RollbackOnRelease /\ conn[t].dirty
       IN /\ Go(t, IF spent \/ (ends /\ ~rolledBack) THEN "discard" ELSE "give")
          /\ conn' = [conn EXCEPT ![t].dirty = @ /\ ~(ends /\ rolledBack)]
  /\ UNCHANGED <<idle, total, closed>>

\* The connection becomes idle
GiveBack(t) ==
  /\ pc[t] = "give" /\ ~closed
  /\ idle' = Append(idle, conn[t])
  /\ conn' = [conn EXCEPT ![t] = None]
  /\ Go(t, "notify")
  /\ UNCHANGED <<total, closed>>

\* The connection is not kept: the slot is free before the socket is closed
\* and before anyone is told
Discard_uncounted(t) == \* mutant: the count is not lowered
  /\ pc[t] = "discard" \/ (pc[t] = "give" /\ closed)
  /\ conn' = [conn EXCEPT ![t] = None]
  /\ Go(t, "refill")
  /\ UNCHANGED <<idle, total, closed>>
Discard(t) ==
  /\ pc[t] = "discard" \/ (pc[t] = "give" /\ closed)
  /\ total' = SaturatingSub(total, 1)
  /\ conn' = [conn EXCEPT ![t] = None]
  /\ Go(t, "refill")
  /\ UNCHANGED <<idle, closed>>

\* ensure_min: is the floor low?  The answer is used after the unlock.
RefillNeeded(t) ==
  /\ pc[t] = "refill"
  /\ total < Min /\ ~closed
  /\ Go(t, "join") \/ Go(t, "notify") \* the connect succeeds or fails
  /\ UNCHANGED <<idle, total, closed, conn>>

RefillNotNeeded(t) ==
  /\ pc[t] = "refill"
  /\ ~(total < Min /\ ~closed)
  /\ Go(t, "notify")
  /\ UNCHANGED <<idle, total, closed, conn>>

\* The new connection joins the pool, if there still is room for it
MayJoin == ~closed /\ total < Max

Join(t) ==
  /\ pc[t] = "join"
  /\ IF MayJoin
       THEN /\ idle' = Append(idle, [uses |-> 0, dirty |-> FALSE])
            /\ total' = total + 1
            /\ NotifyOne(t, "notify")
       ELSE /\ Go(t, "notify")
            /\ UNCHANGED <<idle, total>>
  /\ UNCHANGED <<closed, conn>>

ReleaseNotifies(t) ==
  /\ pc[t] = "notify"
  /\ NotifyOne(t, "none")
  /\ UNCHANGED <<idle, total, closed, conn>>

-----------------------------------------------------------------------------
\* NzPool::close, by the owner of the pool; Condvar::notify_all
Close ==
  /\ closed' = TRUE
  /\ total' = SaturatingSub(total, Len(idle))
  /\ idle' = <<>>
  /\ pc' = [t \in Threads |-> IF pc[t] = "wait" THEN "woken" ELSE pc[t]]
  /\ UNCHANGED conn

-----------------------------------------------------------------------------
\* What a thread does once it has begun; the rest is up to the program
Proceed(t) ==
  \/ GetClosed(t) \/ GetIdle(t) \/ GetNew(t) \/ GetFull(t)
  \/ ConnectOk(t) \/ ConnectFailed(t)
  \/ GiveBack(t) \/ Discard(t) \/ RefillNeeded(t) \/ RefillNotNeeded(t) \/ Join(t)
  \/ ReleaseNotifies(t)

Next ==
  \/ \E t \in Threads : \/ Proceed(t) \/ Get(t) \/ Use(t) \/ Release(t)
                        \/ WaitTimedOut(t) \/ SpuriousWakeup(t)
  \/ Close

Spec == Init /\ [][Next]_vars

\* A thread that is not blocked runs, and connects and closes return.  No
\* thread need ever release what it holds, time out or wake by itself.
Fairness == \A t \in Threads : WF_vars(Proceed(t))

LiveSpec == Spec /\ Fairness

-----------------------------------------------------------------------------
(* Properties *)

\* Threads whose connection, or whose connect, holds a slot
Holding == {t \in Threads : pc[t] \in {"connect", "held", "give", "discard"}}

\* total is exact: no path of get, release_with, ensure_min or close counts a
\* connection twice or forgets one (the saturating subtractions would hide
\* it), and there are never more than max.
SlotsAccounted == total = Len(idle) + Cardinality(Holding) /\ total <= Max

\* Connections that a thread could take now, and threads that will tell or
\* have been told
Available == Len(idle) + (Max - total)
Telling == {t \in Threads : pc[t] \in {"woken", "discard", "refill", "join", "notify"}}

\* While a thread waits, every connection it could have has somebody on the
\* way to it: a woken thread, or a release that has yet to notify.  So
\* notify_one, called once per release and after the unlock, strands nobody.
NoStrandedWaiter == Waiting # {} => Available <= Cardinality(Telling)

\* The same as a promise: a connection that can be taken is taken, or the
\* waiting thread goes on.
FreeSlotNoticed ==
  \A t \in Threads :
    pc[t] = "wait" /\ Available > 0 ~> pc[t] # "wait" \/ Available = 0

\* Closing empties the pool for good and leaves no thread waiting.
ClosedReleasesAll == closed => idle = <<>> /\ Waiting = {}

\* A connection is never lent more than max_uses times, nor with the
\* transaction of an earlier holder in it.
LentClean ==
  /\ \A t \in Threads : pc[t] = "held" => conn[t].uses <= MaxUses
  /\ RollbackOnRelease => \A i \in DOMAIN idle : ~idle[i].dirty
===============================================================================
