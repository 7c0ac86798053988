-------------------------------- MODULE Tasks --------------------------------
(***************************************************************************)
(* Async tasks that use a KvStore (lib.rs, "Async access").  The threads   *)
(* of KvStore are tasks here, and run on the workers of an executor.  To   *)
(* wait for the store's lock blocks the worker, not only the task; to      *)
(* await frees the worker for another task, with whatever guard the task   *)
(* has alive.  A guard of std cannot leave its thread, so only a task that *)
(* is tied to one worker can await with one (a LocalSet, or an executor    *)
(* with one thread).                                                       *)
(*                                                                         *)
(* Code that runs under a guard may also read the store once more: in a    *)
(* closure, in a loop over an iterator, beside an open transaction.        *)
(***************************************************************************)
EXTENDS KvStore

CONSTANTS
    Worker,         \* the threads of the executor
    home,           \* home[t]: the worker a task is tied to, None if it is not
    AwaitOver,      \* calls whose guards tasks keep alive over an await
    NestUnder       \* calls under whose guards tasks read the store again

ASSUME TasksAssumption ==
    /\ None \notin Worker
    /\ None \notin Thread
    /\ home \in [Thread -> Option(Worker)]
    /\ AwaitOver \subseteq Call \ {"write"}     \* closures are not async
    /\ NestUnder \subseteq Call

VARIABLES
    running,    \* the task that a worker is running, None if it is free
    nested      \* TRUE while a task waits for a second read

taskVars == <<running, nested>>
allTaskVars == <<vars, taskVars>>

TaskTypeOK ==
    /\ running \in [Worker -> Option(Thread)]
    /\ nested \in [Thread -> BOOLEAN]
    /\ \A w, x \in Worker : running[w] = running[x] /\ w # x => running[w] = None

TaskInit ==
    /\ Init
    /\ running = [w \in Worker |-> None]
    /\ nested = [t \in Thread |-> FALSE]

Running(t) == \E w \in Worker : running[w] = t
HasGuard(t) == t \in writers \cup readers
Waiting(t) == session[t].phase = "waiting"
Idle(t) == session[t].phase = "idle"

----------------------------------------------------------------------------
(* The executor.                                                           *)

Schedule(w, t) ==
    /\ running[w] = None
    /\ ~Running(t)
    /\ home[t] \in {None, w}
    /\ ~Idle(t) \/ calls[t] < MaxCalls
    /\ running' = [running EXCEPT ![w] = t]
    /\ UNCHANGED <<vars, nested>>

Yield(w) ==
    /\ running' = [running EXCEPT ![w] = None]
    /\ UNCHANGED <<vars, nested>>

\* A task awaits something else, or ends.
AwaitIdle(w, t) == running[w] = t /\ Idle(t) /\ Yield(w)

AwaitWithGuard(w, t) ==
    /\ running[w] = t /\ home[t] = w
    /\ session[t].phase = "holding"
    /\ session[t].call \in AwaitOver
    /\ ~nested[t]
    /\ Yield(w)

----------------------------------------------------------------------------
(* What a task does while it runs.                                         *)

\* A step of KvStore by a task that runs.
Does(t, step) == Running(t) /\ ~nested[t] /\ step /\ UNCHANGED taskVars

CallStep(t) ==
    /\ Running(t)
    /\ ~nested[t]
    /\ Step(t)
    /\ UNCHANGED taskVars

\* get, with or the like, under a guard of the same task.
ReadAgain(t) ==
    /\ Running(t)
    /\ session[t].phase = "holding"
    /\ session[t].call \in NestUnder
    /\ ~nested[t]
    /\ nested' = [nested EXCEPT ![t] = TRUE]
    /\ UNCHANGED <<vars, running>>

\* The second read guard comes next to the first, and goes.
ReadAgainReturns(t) ==
    /\ nested[t]
    /\ CanRead
    /\ nested' = [nested EXCEPT ![t] = FALSE]
    /\ UNCHANGED <<vars, running>>

TaskNext ==
    \E t \in Thread :
        \/ \E w \in Worker :
              Schedule(w, t) \/ AwaitIdle(w, t) \/ AwaitWithGuard(w, t)
        \/ CallStep(t)
        \/ ReadAgain(t)
        \/ ReadAgainReturns(t)

TaskSpec == TaskInit /\ [][TaskNext]_allTaskVars

\* The executor runs every task that is ready, again and again, and a task
\* yields between its calls.  A blocked call gets the lock if it stays free.
\* However often a task awaits or reads again under a guard, it gets to the
\* end of it when it is not blocked: transactions are kept short (lib.rs).
TaskFairness ==
    \A t \in Thread :
        /\ SF_allTaskVars(\E w \in Worker : Schedule(w, t))
        /\ WF_allTaskVars(\E w \in Worker : AwaitIdle(w, t))
        /\ WF_allTaskVars(Does(t, Acquire(t) \/ UnwrapPanics(t)))
        /\ SF_allTaskVars(Does(t, Is(t, "holding", "write")
                                     /\ (RawWrite(t) \/ Unwind(t))))
        /\ SF_allTaskVars(Does(t, DropGuard(t)))
        /\ WF_allTaskVars(ReadAgainReturns(t))

FairTaskSpec == TaskSpec /\ TaskFairness

----------------------------------------------------------------------------
(* Properties.                                                             *)

Blocked(t) ==
    \/ Waiting(t) /\ ~Available(session[t].call)
    \/ nested[t] /\ ~CanRead

\* t has awaited with a guard, and its worker is blocked by another task.
StuckBehindAwait(t) ==
    /\ HasGuard(t)
    /\ ~Running(t)
    /\ home[t] \in Worker
    /\ \E u \in Thread : running[home[t]] = u /\ Blocked(u)

\* t waits for a lock that is not free before t drops its own guard.
BlocksItself(t) == nested[t] /\ ~CanRead

Stuck == \E t \in Thread : StuckBehindAwait(t) \/ BlocksItself(t)

\* Every call gets the lock, or the panic of a poisoned one, and ends, unless
\* tasks run into one of two traps for good: the worker of a task that awaits
\* with a guard is blocked, which may come down to a task that has done
\* nothing wrong, or a task reads again behind a writer or under a write
\* guard.  There is no third way to lose the lock.  (With finitely many calls:
\* an endless stream of others may starve one.)
CallsEndOrStuck ==
    \A t \in Thread : Waiting(t) ~> (Idle(t) \/ []Stuck)

\* A running task goes on unless it is blocked, one that has awaited with a
\* guard as soon as its worker is free.
CanGoOn(t) ==
    IF Running(t) THEN ~Blocked(t)
    ELSE home[t] \in Worker /\ running[home[t]] = None

\* t wants the lock, has it, or keeps a task that has it off its worker.
InTheWay(t) ==
    \/ Waiting(t)
    \/ HasGuard(t)
    \/ \E u \in Thread :
          HasGuard(u) /\ ~Running(u) /\ home[u] \in Worker /\ running[home[u]] = t

\* While a task waits for the lock and no task is in a trap, one of those that
\* are in the way can go on: the lock blocks tasks in no third way, whatever
\* order they await, panic, give up and read again in.
LockMovesOn ==
    (\E t \in Thread : Waiting(t)) =>
        Stuck \/ \E t \in Thread : InTheWay(t) /\ CanGoOn(t)

\* No step of anyone, executor or task, gets a task out of either trap.
StuckForGood ==
    [][\A t \in Thread :
          /\ StuckBehindAwait(t) => StuckBehindAwait(t)'
          /\ BlocksItself(t) => BlocksItself(t)']_allTaskVars

\* "It is safe to use it in an async, as long as there are no await points
\* inside a transaction" (lib.rs).
SafeWithoutAwaitInTransactions ==
    (AwaitOver \cap Transactions = {}) =>
        \A t \in Thread : Waiting(t) ~> Idle(t)

\* A read under a guard of the same task returns, as examples/smoke.rs, which
\* looks rows up in one table while it iterates over another, takes for granted.
SecondReadsReturn == \A t \in Thread : nested[t] ~> ~nested[t]
=============================================================================
