------------------------------- MODULE MCCallers -------------------------------
(***************************************************************************)
(* The four ways an application shares connections, for TLC: the native    *)
(* pool, the synchronous pool, the async wrapper of the legacy connection  *)
(* and the blocking client.  They keep their state apart, so in each       *)
(* behaviour one of them runs (part) and the others stay as they started,  *)
(* where no action that is assumed fair is enabled.                        *)
(***************************************************************************)
EXTENDS AsyncPool

CONSTANTS
  Threads, SyncMax, SyncMin, SyncUses, SyncRollback, SyncTimeout,  \* SyncPool
  Jobs, Handles, WrapperCalls, WrapperCancels,                     \* AsyncFacade
  BlockingSteps                                                    \* BlockingClient

ASSUME CallersAssumption ==
  /\ IsFiniteSet(Threads)
  /\ SyncMax \in Nat \ {0} /\ SyncMin \in 0..SyncMax \* NzPoolConfig::validate
  /\ SyncUses \in Nat \ {0} \* Some(0), which is not rejected, still lends each connection once
  /\ SyncRollback \in BOOLEAN /\ SyncTimeout \in BOOLEAN
  /\ None \notin Jobs \cup {"user", "closer"}

VARIABLES
  part,
  queue, counted, ended, thread, lent,               \* SyncPool
  job, gen, inner, poisoned, link, closing, over, active, nextGen, controlLock, calls,
  user, closer, handles, packets, backend,           \* AsyncFacade
  at, guard, lease, session, tx, steps               \* BlockingClient

threadsVars == <<queue, counted, ended, thread, lent>>
wrapperVars == <<job, gen, inner, poisoned, link, closing, over, active, nextGen, controlLock, calls,
                 user, closer, handles, packets, backend>>
blockingVars == <<at, guard, lease, session, tx, steps>>
callersVars == <<part, vars, threadsVars, wrapperVars, blockingVars>>

Sync == INSTANCE SyncPool WITH
  Max <- SyncMax, Min <- SyncMin, MaxUses <- SyncUses,
  RollbackOnRelease <- SyncRollback, WaitTimeout <- SyncTimeout,
  idle <- queue, total <- counted, closed <- ended, pc <- thread, conn <- lent

Wrapper == INSTANCE AsyncFacade WITH
  MaxCalls <- WrapperCalls, MaxCancels <- WrapperCancels, conn <- link, closed <- over

Blocking == INSTANCE BlockingClient WITH MaxSteps <- BlockingSteps, pc <- at

CallersInit ==
  /\ part \in {"pool", "threads", "wrapper", "blocking"}
  /\ Init
  /\ Sync!Init /\ (part # "threads" => counted = 0)
  /\ Wrapper!Init
  /\ Blocking!Init

CallersNext ==
  /\ \/ /\ part = "pool" /\ Next
        /\ UNCHANGED <<threadsVars, wrapperVars, blockingVars>>
     \/ /\ part = "threads" /\ Sync!Next
        /\ UNCHANGED <<vars, wrapperVars, blockingVars>>
     \/ /\ part = "wrapper" /\ Wrapper!Next
        /\ UNCHANGED <<vars, threadsVars, blockingVars>>
     \/ /\ part = "blocking" /\ Blocking!Next
        /\ UNCHANGED <<vars, threadsVars, wrapperVars>>
  /\ UNCHANGED part

CallersSpec ==
  CallersInit /\ [][CallersNext]_callersVars /\ Fairness /\ Sync!Fairness /\ Wrapper!Fairness

--------------------------------------------------------------------------------
(* The properties of the parts *)

\* The native pool: every return and every retirement ends and gives its permit
\* back, and once the pool is closed no checkout is left waiting.
PoolSettles == CleanupEnds /\ WaitersReleased

\* The synchronous pool: total is exact and never above max through failed
\* connects, discards, refills and close; while a thread waits, every connection
\* it could take has somebody on the way to it; a closed pool keeps no connection
\* and nobody waiting; and a lent connection has uses left and no transaction.
ThreadsAccounted ==
  /\ Sync!TypeOK /\ Sync!SlotsAccounted /\ Sync!NoStrandedWaiter
  /\ Sync!ClosedReleasesAll /\ Sync!LentClean

\* A connection of the synchronous pool that can be taken is taken, or the
\* waiting thread goes on: notify_one strands nobody.
FreeSlotNoticed == Sync!FreeSlotNoticed

\* The wrapper: when close() has returned no job has, or will get, the connection.
CloseIsFinal == Wrapper!TypeOK /\ Wrapper!CloseIsFinal

\* A cancel packet of the wrapper leaves only for an operation whose job has not
\* ended, and before any later one has begun.
SentWhileActive == Wrapper!SentWhileActive

\* Every call of the wrapper returns, and close() does, whoever holds the locks.
CallersServed == Wrapper!CallersServed

\* When the blocking client has waited for a dropped iterator or transaction, its
\* cleanup is over or the session will not be used again; and no statement of it
\* runs inside a transaction that was given up, on a session that goes on.
DropSettles == [](Blocking!TypeOK /\ Blocking!RunsOutside) /\ Blocking!DropSettles
================================================================================
