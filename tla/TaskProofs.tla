----------------------------- MODULE TaskProofs -----------------------------
(***************************************************************************)
(* Proofs about Tasks.  However an executor runs its tasks, they take the  *)
(* steps of KvStore, so what is proved there holds for them; and each of   *)
(* the two traps that CallsEndOrStuck names is a trap: once a task is in   *)
(* it, no step gets it out.                                                *)
(***************************************************************************)
EXTENDS Tasks, KvStoreProofs

\* Tasks take the steps of KvStore, or none of them.
THEOREM TasksUseStore == TaskSpec => Spec
<1>1. TaskInit => Init
    BY DEF TaskInit
<1>2. [TaskNext]_allTaskVars => [Next]_vars
    BY DEF TaskNext, Schedule, AwaitIdle, AwaitWithGuard, Yield, CallStep, Does,
           ReadAgain, ReadAgainReturns, Next, allTaskVars
<1> QED BY <1>1, <1>2, PTL DEF TaskSpec, Spec

\* The lock is not lost to tasks that await, block and read again.
THEOREM TasksKeepLock == TaskSpec => []LockIsNeverLost
BY TasksUseStore, LockStaysWithSomebody, PTL

----------------------------------------------------------------------------
(* Where tasks are.                                                         *)

\* A task that is not running is between calls, or has awaited with a guard on
\* the one worker it is tied to; a second read is under a guard.
TaskInv ==
    /\ TaskTypeOK
    /\ \A t \in Thread :
          /\ ~Running(t) => Idle(t) \/ (session[t].phase = "holding" /\ home[t] \in Worker)
          /\ home[t] \in Worker /\ Running(t) => running[home[t]] = t
          /\ nested[t] => session[t].phase = "holding"

LEMMA OthersKeepSessions ==
    ASSUME TypeOK, NEW t \in Thread, Step(t), NEW u \in Thread \ {t}
    PROVE  session'[u] = session[u]
BY DEF Step, Begin, Acquire, UnwrapPanics, TryBegin, TryBeginFails, RawWrite,
       TransactionCall, TransactionCatches, Unwind, DropGuard, Enter, Leave, TypeOK

LEMMA HoldersHaveGuards ==
    ASSUME TypeOK, Guards, NEW t \in Thread
    PROVE  /\ HasGuard(t) => session[t].phase \in {"holding", "returning"}
           /\ session[t].phase = "holding" => HasGuard(t)
<1>1. session[t].phase = "holding" => HasGuard(t)
    <2> SUFFICES ASSUME session[t].phase = "holding" PROVE HasGuard(t)
        OBVIOUS
    <2>1. session[t].call \in {"read", "write", "ro", "txn"}
        BY SessionTyped DEF Session, Call, RawCalls, Transactions
    <2> QED BY <2>1 DEF HasGuard, Guards, WriteSession, Reading, Is
<1> QED BY <1>1 DEF HasGuard, Guards, WriteSession, Reading, Is

\* The kinds of steps.
LEMMA TaskStepKinds ==
    ASSUME [TaskNext]_allTaskVars
    PROVE  \/ UNCHANGED allTaskVars
           \/ \E t \in Thread :
                 \/ \E w \in Worker :
                       Schedule(w, t) \/ AwaitIdle(w, t) \/ AwaitWithGuard(w, t)
                 \/ Running(t) /\ ~nested[t] /\ Step(t) /\ UNCHANGED taskVars
                 \/ ReadAgain(t)
                 \/ ReadAgainReturns(t)
BY DEF TaskNext, CallStep, Does

LEMMA ExecutorInv ==
    ASSUME TaskInv, NEW w \in Worker, NEW t \in Thread,
           Schedule(w, t) \/ AwaitIdle(w, t) \/ AwaitWithGuard(w, t)
    PROVE  TaskInv'
<1>1. /\ running \in [Worker -> Option(Thread)] /\ None \notin Thread /\ None \notin Worker
      /\ nested' = nested /\ session' = session
    BY TasksAssumption
       DEF TaskInv, TaskTypeOK, Schedule, AwaitIdle, AwaitWithGuard, Yield, vars
<1>2. CASE Schedule(w, t)
    <2>1. /\ running[w] = None /\ ~Running(t) /\ home[t] \in {None, w}
          /\ running' = [running EXCEPT ![w] = t]
        BY <1>2 DEF Schedule
    <2>2. Running(t)' /\ \A u \in Thread \ {t} : Running(u)' <=> Running(u)
        BY <1>1, <2>1 DEF Running
    <2>3. TaskTypeOK'
        BY <1>1, <2>1 DEF TaskInv, TaskTypeOK, Running, Option
    <2> QED BY <1>1, <2>1, <2>2, <2>3 DEF TaskInv, Idle
<1>3. CASE AwaitIdle(w, t) \/ AwaitWithGuard(w, t)
    <2>1. /\ running[w] = t /\ running' = [running EXCEPT ![w] = None]
          /\ Idle(t) \/ (session[t].phase = "holding" /\ home[t] \in Worker)
        BY <1>3 DEF AwaitIdle, AwaitWithGuard, Yield
    <2>2. /\ ~Running(t)'
          /\ \A u \in Thread \ {t} : Running(u)' <=> Running(u)
        BY <1>1, <2>1 DEF TaskInv, TaskTypeOK, Running
    <2>3. TaskTypeOK'
        BY <1>1, <2>1 DEF TaskInv, TaskTypeOK, Option
    <2>4. ASSUME NEW u \in Thread, home[u] \in Worker, Running(u)'
          PROVE  running'[home[u]] = u
        <3>1. u # t /\ running[home[u]] = u
            BY <2>2, <2>4 DEF TaskInv
        <3>2. home[u] # w
            BY <2>1, <3>1
        <3> QED BY <1>1, <2>1, <2>4, <3>1, <3>2
    <2> QED BY <1>1, <2>1, <2>2, <2>3, <2>4 DEF TaskInv, Idle
<1> QED BY <1>2, <1>3

LEMMA StepTaskInv ==
    ASSUME TypeOK, TaskInv, [TaskNext]_allTaskVars
    PROVE  TaskInv'
<1>1. CASE UNCHANGED allTaskVars
    BY <1>1 DEF allTaskVars, vars, taskVars, TaskInv, TaskTypeOK, Running, Idle
<1>2. ASSUME NEW t \in Thread, NEW w \in Worker,
             Schedule(w, t) \/ AwaitIdle(w, t) \/ AwaitWithGuard(w, t)
      PROVE  TaskInv'
    BY <1>2, ExecutorInv
<1>3. ASSUME NEW t \in Thread,
             Running(t) /\ ~nested[t] /\ Step(t) /\ UNCHANGED taskVars
      PROVE  TaskInv'
    <2>1. UNCHANGED <<running, nested>> /\ TaskTypeOK'
        BY <1>3 DEF taskVars, TaskInv, TaskTypeOK
    <2>2. \A u \in Thread : Running(u)' <=> Running(u)
        BY <2>1 DEF Running
    <2>3. \A u \in Thread \ {t} : session'[u] = session[u]
        BY <1>3, OthersKeepSessions
    <2> QED BY <1>3, <2>1, <2>2, <2>3 DEF TaskInv, Idle
<1>4. ASSUME NEW t \in Thread, ReadAgain(t) \/ ReadAgainReturns(t)
      PROVE  TaskInv'
    <2>1. UNCHANGED <<running, session>>
        BY <1>4 DEF ReadAgain, ReadAgainReturns, vars
    <2>2. /\ \E b \in BOOLEAN : nested' = [nested EXCEPT ![t] = b]
          /\ nested'[t] => session[t].phase = "holding"
        BY <1>4 DEF ReadAgain, ReadAgainReturns, TaskInv, TaskTypeOK
    <2>3. TaskTypeOK'
        BY <2>1, <2>2 DEF TaskInv, TaskTypeOK
    <2>4. \A u \in Thread : Running(u)' <=> Running(u)
        BY <2>1 DEF Running
    <2>5. \A u \in Thread : nested'[u] => session[u].phase = "holding"
        BY <2>2 DEF TaskInv, TaskTypeOK
    <2> QED BY <2>1, <2>3, <2>4, <2>5 DEF TaskInv, Idle
<1> QED BY <1>1, <1>2, <1>3, <1>4, TaskStepKinds

\* Workers and tasks keep their places, whatever tasks do with the store.
THEOREM TasksInPlace == TaskSpec => [](TypeOK /\ Guards /\ QueueInv /\ TaskInv)
<1>1. TaskInit => TaskInv
    <2> SUFFICES ASSUME TaskInit PROVE TaskInv
        OBVIOUS
    <2>1. \A t \in Thread : ~Running(t) /\ Idle(t) /\ ~nested[t]
        BY TasksAssumption DEF TaskInit, Init, Running, Idle, NoSession
    <2>2. TaskTypeOK
        BY DEF TaskInit, TaskTypeOK, Option
    <2> QED BY <2>1, <2>2 DEF TaskInv
<1>2. TypeOK /\ TaskInv /\ [TaskNext]_allTaskVars => TaskInv'
    BY StepTaskInv
<1> QED BY <1>1, <1>2, TasksUseStore, GuardsExclude, QueueIsOfWaiters, PTL DEF TaskSpec

----------------------------------------------------------------------------
(* The traps.                                                               *)

\* While t has its guard nobody writes, and who may not read now may not then.
LEMMA GuardKeepsOut ==
    ASSUME TypeOK, Guards, NEW t \in Thread, HasGuard(t),
           NEW z \in Thread \ {t}, Step(z)
    PROVE  /\ HasGuard(t)'
           /\ ~CanWrite'
           /\ ~CanRead => ~CanRead'
<1>1. Guards' /\ session'[t] = session[t]
    BY StepGuards, OthersKeepSessions
<1>2. (t \in writers => t \in writers') /\ (t \in readers => t \in readers')
    BY <1>1 DEF Guards, WriteSession, Reading, Is
<1>3. queued \subseteq queued'
    <2>1. ~CanWrite /\ ~poisoned
        BY DEF HasGuard, Guards, CanWrite
    <2> QED BY <2>1 DEF Step, Begin, Acquire, UnwrapPanics, TryBegin, TryBeginFails,
               RawWrite, TransactionCall, TransactionCatches, Unwind, DropGuard,
               TakeGuard, Enqueue, GetWrite, GetRead, DropWrite, DropRead, lockVars
<1>4. t \in readers => writers = {}
    BY DEF Guards
<1> QED BY <1>2, <1>3, <1>4 DEF HasGuard, CanWrite, CanRead

LEMMA BlockedStays ==
    ASSUME TypeOK, Guards, NEW t \in Thread, HasGuard(t),
           NEW z \in Thread \ {t}, Step(z), ~nested[z], UNCHANGED taskVars,
           NEW u \in Thread, Blocked(u)
    PROVE  Blocked(u)'
<1>1. ~CanWrite' /\ (~CanRead => ~CanRead') /\ ~CanWrite
    BY GuardKeepsOut DEF HasGuard, CanWrite
<1>2. CASE nested[u] /\ ~CanRead
    BY <1>1, <1>2 DEF Blocked, taskVars
<1>3. CASE Waiting(u) /\ ~Available(session[u].call)
    <2>1. u # z
        <3> SUFFICES ASSUME u = z PROVE FALSE
            OBVIOUS
        <3> QED BY <1>3 DEF Waiting, Step, Begin, Counted, Acquire, UnwrapPanics,
                   TryBegin, TryBeginFails, RawWrite, TransactionCall,
                   TransactionCatches, Unwind, DropGuard, Is, TakeGuard, GetWrite,
                   GetRead, Available
    <2>2. session'[u] = session[u]
        BY <2>1, OthersKeepSessions
    <2> QED BY <1>1, <1>3, <2>2 DEF Blocked, Waiting, Available
<1> QED BY <1>2, <1>3 DEF Blocked

\* The executor does not interrupt a blocked task, nor move a parked one.
LEMMA ExecutorLeavesStuck ==
    ASSUME TypeOK, Guards, TaskInv, NEW w \in Worker, NEW z \in Thread,
           Schedule(w, z) \/ AwaitIdle(w, z) \/ AwaitWithGuard(w, z),
           NEW t \in Thread, StuckBehindAwait(t)
    PROVE  StuckBehindAwait(t)'
<1>1. PICK u \in Thread : running[home[t]] = u /\ Blocked(u)
    BY DEF StuckBehindAwait
<1>2. UNCHANGED <<writers, readers, queued, session, nested>>
    BY DEF Schedule, AwaitIdle, AwaitWithGuard, Yield, vars, lockVars
<1>3. home[t] \in Worker /\ HasGuard(t) /\ ~Running(t)
    BY HoldersHaveGuards DEF StuckBehindAwait, TaskInv, Idle
<1>4. u # None /\ home[t] # None
    BY <1>3, TasksAssumption
<1>5. Waiting(u) \/ nested[u]
    BY <1>1 DEF Blocked
<1>6. CASE Schedule(w, z)
    <2>1. w # home[t] /\ z # t
        BY <1>1, <1>3, <1>4, <1>6 DEF Schedule
    <2>2. running'[home[t]] = u /\ ~Running(t)'
        BY <1>1, <1>3, <1>6, <2>1 DEF Schedule, TaskInv, TaskTypeOK, Running
    <2> QED BY <1>1, <1>2, <1>3, <2>2
            DEF StuckBehindAwait, HasGuard, Blocked, Waiting, Available, CanRead, CanWrite
<1>7. CASE AwaitIdle(w, z) \/ AwaitWithGuard(w, z)
    <2>1. w # home[t]
        <3> SUFFICES ASSUME w = home[t] PROVE FALSE
            OBVIOUS
        <3>1. z = u
            BY <1>1, <1>7 DEF AwaitIdle, AwaitWithGuard
        <3> QED BY <1>5, <1>7, <3>1
                DEF AwaitIdle, AwaitWithGuard, Waiting, Idle, TaskInv
    <2>2. running'[home[t]] = u /\ ~Running(t)'
        BY <1>1, <1>3, <1>7, <2>1, TasksAssumption
           DEF AwaitIdle, AwaitWithGuard, Yield, TaskInv, TaskTypeOK, Running
    <2> QED BY <1>1, <1>2, <1>3, <2>2
            DEF StuckBehindAwait, HasGuard, Blocked, Waiting, Available, CanRead, CanWrite
<1> QED BY <1>6, <1>7

LEMMA StuckStays ==
    ASSUME TypeOK, Guards, TaskInv, [TaskNext]_allTaskVars,
           NEW t \in Thread, StuckBehindAwait(t)
    PROVE  StuckBehindAwait(t)'
<1>1. PICK u \in Thread : running[home[t]] = u /\ Blocked(u)
    BY DEF StuckBehindAwait
<1>2. HasGuard(t) /\ ~Running(t)
    BY DEF StuckBehindAwait
<1>3. CASE UNCHANGED allTaskVars
    BY <1>1, <1>2, <1>3
       DEF StuckBehindAwait, allTaskVars, vars, taskVars, lockVars, HasGuard,
           Running, Blocked, Waiting, Available, CanRead, CanWrite
<1>4. ASSUME NEW z \in Thread,
             Running(z) /\ ~nested[z] /\ Step(z) /\ UNCHANGED taskVars
      PROVE  StuckBehindAwait(t)'
    <2>1. z # t
        BY <1>2, <1>4
    <2>2. HasGuard(t)' /\ Blocked(u)'
        BY <1>1, <1>2, <1>4, <2>1, GuardKeepsOut, BlockedStays
    <2> QED BY <1>1, <1>2, <1>4, <2>2 DEF StuckBehindAwait, Running, taskVars
<1>5. ASSUME NEW z \in Thread, ReadAgain(z) \/ ReadAgainReturns(z)
      PROVE  StuckBehindAwait(t)'
    <2>1. UNCHANGED <<writers, readers, queued, session, running>>
        BY <1>5 DEF ReadAgain, ReadAgainReturns, vars, lockVars
    <2>2. Blocked(u)'
        <3>1. CASE u = z
            <4>1. ~Waiting(z)
                BY <1>5 DEF ReadAgain, ReadAgainReturns, TaskInv, Waiting
            <4>2. nested[z] /\ ~CanRead
                BY <1>1, <3>1, <4>1 DEF Blocked
            <4> QED BY <1>5, <4>2 DEF ReadAgain, ReadAgainReturns
        <3>2. CASE u # z
            <4>1. nested'[u] = nested[u]
                BY <1>5, <3>2 DEF ReadAgain, ReadAgainReturns, TaskInv, TaskTypeOK
            <4> QED BY <1>1, <2>1, <4>1
                    DEF Blocked, Waiting, Available, CanRead, CanWrite
        <3> QED BY <3>1, <3>2
    <2> QED BY <1>1, <1>2, <2>1, <2>2 DEF StuckBehindAwait, HasGuard, Running
<1> QED BY <1>3, <1>4, <1>5, TaskStepKinds, ExecutorLeavesStuck

LEMMA SelfBlockStays ==
    ASSUME TypeOK, Guards, TaskInv, [TaskNext]_allTaskVars,
           NEW t \in Thread, BlocksItself(t)
    PROVE  BlocksItself(t)'
<1>1. nested[t] /\ ~CanRead /\ HasGuard(t)
    BY HoldersHaveGuards DEF BlocksItself, TaskInv
<1>2. CASE UNCHANGED <<writers, readers, queued, nested>>
    BY <1>2 DEF BlocksItself, CanRead
<1>3. ASSUME NEW z \in Thread,
             Running(z) /\ ~nested[z] /\ Step(z) /\ UNCHANGED taskVars
      PROVE  BlocksItself(t)'
    <2>1. z # t
        BY <1>1, <1>3
    <2> QED BY <1>1, <1>3, <2>1, GuardKeepsOut DEF BlocksItself, taskVars
<1>4. ASSUME NEW z \in Thread, ReadAgain(z) \/ ReadAgainReturns(z)
      PROVE  BlocksItself(t)'
    <2>1. UNCHANGED <<writers, readers, queued>>
        BY <1>4 DEF ReadAgain, ReadAgainReturns, vars, lockVars
    <2>2. z # t
        BY <1>1, <1>4 DEF ReadAgain, ReadAgainReturns
    <2>3. nested'[t] = nested[t]
        BY <1>4, <2>2 DEF ReadAgain, ReadAgainReturns, TaskInv, TaskTypeOK
    <2> QED BY <1>1, <2>1, <2>3 DEF BlocksItself, CanRead
<1>5. ASSUME NEW z \in Thread, NEW w \in Worker,
             Schedule(w, z) \/ AwaitIdle(w, z) \/ AwaitWithGuard(w, z)
      PROVE  BlocksItself(t)'
    BY <1>2, <1>5 DEF Schedule, AwaitIdle, AwaitWithGuard, Yield, vars, lockVars
<1>6. UNCHANGED allTaskVars => BlocksItself(t)'
    BY <1>2 DEF allTaskVars, vars, taskVars, lockVars
<1> QED BY <1>3, <1>4, <1>5, <1>6, TaskStepKinds

\* A task that waits behind an await on its own worker, or for itself, waits
\* for ever, for any number of tasks and workers (Tasks!StuckForGood): lib.rs
\* warns of "deadlock", and it is one.
THEOREM TrapsAreForGood == TaskSpec => StuckForGood
<1>1. TypeOK /\ Guards /\ TaskInv /\ [TaskNext]_allTaskVars
        => [\A t \in Thread :
               /\ StuckBehindAwait(t) => StuckBehindAwait(t)'
               /\ BlocksItself(t) => BlocksItself(t)']_allTaskVars
    BY StuckStays, SelfBlockStays
<1> QED BY <1>1, TasksInPlace, PTL DEF TaskSpec, StuckForGood

----------------------------------------------------------------------------
(* There is no third trap, and the two are of a task's own making.          *)

\* Who has a guard goes on, or is kept from it by a task that goes on.
LEMMA HolderMovesOn ==
    ASSUME TypeOK, Guards, TaskInv, ~Stuck, NEW t \in Thread, HasGuard(t)
    PROVE  \E u \in Thread : InTheWay(u) /\ CanGoOn(u)
<1>1. ~Waiting(t) /\ ~Idle(t)
    BY HoldersHaveGuards DEF Waiting, Idle
<1>2. ~StuckBehindAwait(t) /\ ~BlocksItself(t)
    BY DEF Stuck
<1>3. CASE Running(t)
    BY <1>1, <1>2, <1>3 DEF CanGoOn, InTheWay, Blocked, BlocksItself
<1>4. CASE ~Running(t)
    <2>1. home[t] \in Worker
        BY <1>1, <1>4 DEF TaskInv
    <2>2. CASE running[home[t]] = None
        BY <1>4, <2>1, <2>2 DEF CanGoOn, InTheWay
    <2>3. CASE running[home[t]] # None
        <3>1. PICK u \in Thread : running[home[t]] = u
            BY <2>1, <2>3 DEF TaskInv, TaskTypeOK, Option
        <3>2. Running(u) /\ ~Blocked(u)
            BY <1>2, <1>4, <2>1, <3>1 DEF StuckBehindAwait, Running
        <3> QED BY <1>4, <2>1, <3>1, <3>2 DEF InTheWay, CanGoOn
    <2> QED BY <2>2, <2>3
<1> QED BY <1>3, <1>4

\* However tasks await, panic, give up and read again, whoever waits for the
\* lock waits for a task that can go on, or somebody is in one of the two traps
\* (Tasks!LockMovesOn): what CallsEndOrStuck needs of every state, for any
\* number of tasks and workers.
THEOREM LockAlwaysMovesOn == TaskSpec => []LockMovesOn
<1>1. TypeOK /\ Guards /\ QueueInv /\ TaskInv => LockMovesOn
    <2> SUFFICES ASSUME TypeOK, Guards, QueueInv, TaskInv, ~Stuck,
                        NEW t \in Thread, Waiting(t)
                 PROVE  \E u \in Thread : InTheWay(u) /\ CanGoOn(u)
        BY DEF LockMovesOn
    <2>1. PICK u \in Thread :
            HasGuard(u) \/ (Waiting(u) /\ Available(session[u].call))
        BY LockIsHadOrFree DEF Waiting, HasGuard
    <2>2. CASE HasGuard(u)
        BY <2>2, HolderMovesOn
    <2>3. CASE Waiting(u) /\ Available(session[u].call)
        <3>1. Running(u) /\ ~nested[u]
            BY <2>3 DEF TaskInv, Waiting, Idle
        <3> QED BY <2>3, <3>1 DEF InTheWay, CanGoOn, Blocked
    <2> QED BY <2>1, <2>2, <2>3
<1> QED BY <1>1, TasksInPlace, PTL

\* A task awaits with guards, and reads again under guards, as it is made to.
HabitsInv ==
    \A t \in Thread :
        /\ ~Running(t) /\ ~Idle(t) => session[t].call \in AwaitOver
        /\ nested[t] => session[t].call \in NestUnder

LEMMA StepHabits ==
    ASSUME TypeOK, TaskInv, HabitsInv, [TaskNext]_allTaskVars
    PROVE  HabitsInv'
<1>1. CASE UNCHANGED allTaskVars
    BY <1>1 DEF allTaskVars, vars, taskVars, HabitsInv, Running, Idle
<1>2. ASSUME NEW t \in Thread, NEW w \in Worker,
             Schedule(w, t) \/ AwaitIdle(w, t) \/ AwaitWithGuard(w, t)
      PROVE  HabitsInv'
    <2>1. UNCHANGED <<session, nested>>
        BY <1>2 DEF Schedule, AwaitIdle, AwaitWithGuard, Yield, vars
    <2>2. \A u \in Thread \ {t} : Running(u) => Running(u)'
        <3> SUFFICES ASSUME NEW u \in Thread \ {t}, NEW x \in Worker, running[x] = u
                     PROVE  running'[x] = u
            BY DEF Running
        <3>1. running[w] \in {None, t} /\ u # None
            BY <1>2, TasksAssumption DEF Schedule, AwaitIdle, AwaitWithGuard
        <3> QED BY <1>2, <3>1 DEF Schedule, AwaitIdle, AwaitWithGuard, Yield,
                                  TaskInv, TaskTypeOK
    <2>3. ~Running(t)' => Idle(t) \/ session[t].call \in AwaitOver
        <3>1. Schedule(w, t) => Running(t)'
            BY DEF Schedule, TaskInv, TaskTypeOK, Running
        <3> QED BY <1>2, <3>1 DEF AwaitIdle, AwaitWithGuard
    <2> QED BY <2>1, <2>2, <2>3 DEF HabitsInv, Idle
<1>3. ASSUME NEW t \in Thread,
             Running(t) /\ ~nested[t] /\ Step(t) /\ UNCHANGED taskVars
      PROVE  HabitsInv'
    <2>1. \A u \in Thread : (Running(u)' <=> Running(u)) /\ nested'[u] = nested[u]
        BY <1>3 DEF taskVars, Running
    <2>2. \A u \in Thread \ {t} : session'[u] = session[u]
        BY <1>3, OthersKeepSessions
    <2> QED BY <1>3, <2>1, <2>2 DEF HabitsInv, Idle
<1>4. ASSUME NEW t \in Thread, ReadAgain(t) \/ ReadAgainReturns(t)
      PROVE  HabitsInv'
    <2>1. UNCHANGED <<running, session>>
        BY <1>4 DEF ReadAgain, ReadAgainReturns, vars
    <2>2. \A u \in Thread : nested'[u] => session[u].call \in NestUnder
        BY <1>4 DEF ReadAgain, ReadAgainReturns, HabitsInv, TaskInv, TaskTypeOK
    <2> QED BY <2>1, <2>2 DEF HabitsInv, Running, Idle
<1> QED BY <1>1, <1>2, <1>3, <1>4, TaskStepKinds

LEMMA TasksKeepHabits == TaskSpec => []HabitsInv
<1>1. TaskInit => HabitsInv
    BY DEF TaskInit, Init, HabitsInv, Idle, NoSession
<1>2. TypeOK /\ TaskInv /\ HabitsInv /\ [TaskNext]_allTaskVars => HabitsInv'
    BY StepHabits
<1> QED BY <1>1, <1>2, TasksInPlace, PTL DEF TaskSpec

\* Who is in a trap has awaited with a guard of a kind it need not have kept,
\* or has read again under a write guard, or behind a writer that the platform
\* lets go first.
TrapsAreSelfMade ==
    \A t \in Thread :
        /\ StuckBehindAwait(t) => session[t].call \in AwaitOver
        /\ BlocksItself(t) =>
              /\ session[t].call \in NestUnder
              /\ session[t].call \in WriteLocked \/ (WritersFirst /\ queued # {})

\* Nobody is driven into a trap by what others do alone (Tasks!Stuck).
THEOREM TasksMakeTheirTraps == TaskSpec => []TrapsAreSelfMade
<1>1. TypeOK /\ Guards /\ TaskInv /\ HabitsInv => TrapsAreSelfMade
    <2> SUFFICES ASSUME TypeOK, Guards, TaskInv, HabitsInv, NEW t \in Thread
                 PROVE  /\ StuckBehindAwait(t) => session[t].call \in AwaitOver
                        /\ BlocksItself(t) =>
                              /\ session[t].call \in NestUnder
                              /\ \/ session[t].call \in WriteLocked
                                 \/ WritersFirst /\ queued # {}
        BY DEF TrapsAreSelfMade
    <2>1. StuckBehindAwait(t) => session[t].call \in AwaitOver
        BY HoldersHaveGuards DEF StuckBehindAwait, HabitsInv, Idle
    <2>2. ASSUME BlocksItself(t), session[t].call \notin WriteLocked
          PROVE  WritersFirst /\ queued # {}
        <3>1. session[t].phase = "holding" /\ ~CanRead
            BY <2>2 DEF BlocksItself, TaskInv
        <3>2. t \in readers
            BY <2>2, <3>1, HoldersHaveGuards
               DEF HasGuard, Guards, WriteSession, Is, WriteLocked
        <3>3. writers = {}
            BY <3>2 DEF Guards
        <3> QED BY <3>1, <3>3 DEF CanRead
    <2> QED BY <2>1, <2>2 DEF BlocksItself, HabitsInv
<1> QED BY <1>1, TasksInPlace, TasksKeepHabits, PTL

\* Tasks that await with no guard alive, transaction or iterator, and read
\* again under read guards at most, where readers are not kept out by a queue,
\* are never in a trap, so somebody in the way of the lock can always go on:
\* the restriction on callers that lib.rs looks for when it says "as long as
\* there are no await points inside a transaction".
Careful ==
    /\ AwaitOver = {}
    /\ NestUnder = {} \/ (~WritersFirst /\ NestUnder \cap WriteLocked = {})

\* Careful tasks never lose the lock, for any number of tasks and workers.
THEOREM CarefulTasksAreSafe ==
    Careful => (TaskSpec => []( /\ ~Stuck
                                /\ (\E t \in Thread : Waiting(t)) =>
                                       \E t \in Thread : InTheWay(t) /\ CanGoOn(t)))
<1> SUFFICES ASSUME Careful
             PROVE  TaskSpec => []( /\ ~Stuck
                                    /\ (\E t \in Thread : Waiting(t)) =>
                                           \E t \in Thread : InTheWay(t) /\ CanGoOn(t))
    OBVIOUS
<1>1. TrapsAreSelfMade /\ LockMovesOn =>
        /\ ~Stuck
        /\ (\E t \in Thread : Waiting(t)) =>
               \E t \in Thread : InTheWay(t) /\ CanGoOn(t)
    <2>1. TrapsAreSelfMade => ~Stuck
        BY DEF Careful, TrapsAreSelfMade, Stuck
    <2> QED BY <2>1 DEF LockMovesOn
<1> QED BY <1>1, TasksMakeTheirTraps, LockAlwaysMovesOn, PTL
=============================================================================
