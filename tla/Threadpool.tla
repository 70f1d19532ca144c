----------------------------- MODULE Threadpool -----------------------------
(***************************************************************************)
(* bwct::Threadpool (threadpool.h, threadpool.cc): worker threads that take *)
(* jobs from a queue under queue_mtx and sleep on queue_cv, AddJob called   *)
(* by clients and by the jobs themselves, and the destructor.               *)
(*                                                                         *)
(* A step is what a thread does between two points where another thread     *)
(* can tell the difference: taking queue_mtx is a step of its own, and      *)
(* everything a thread then does up to its release is one more step.        *)
(* Mutex and CV are their contract here; MutexCV models them in detail.     *)
(***************************************************************************)
EXTENDS Integers, Sequences, FiniteSets

CONSTANTS
  NumWorkers,   \* the constructor's argument num
  Clients,      \* threads outside the pool that call AddJob
  Owner,        \* the thread that constructs and destroys the pool
  NoThread,
  Jobs,         \* the jobs that may be added
  NoJob,
  Parent,       \* Parent[j]: the job whose body adds j, NoJob for a client's
  ActiveInit,   \* values active_workers may hold before anybody writes it
  Drained       \* the owner waits for all futures before it destroys the pool

Workers == 0 .. NumWorkers - 1
Callers == Workers \cup Clients
Threads == Callers \cup {Owner}

ASSUME NumWorkersAssumption == NumWorkers \in Nat \ {0}
ASSUME ThreadsAssumption ==
  /\ Workers \cap Clients = {}
  /\ Owner \notin Callers
  /\ NoThread \notin Threads
ASSUME JobsAssumption ==
  /\ NoJob \notin Jobs
  /\ Parent \in [Jobs -> Jobs \cup {NoJob}]
ASSUME ActiveInitAssumption == ActiveInit \subseteq Int /\ ActiveInit # {}
ASSUME DrainedAssumption == Drained \in BOOLEAN

VARIABLES
  holder,         \* the thread that holds queue_mtx
  queue,          \* Array queue: the wrapped jobs, oldest first
  active_workers,
  stop_threads,
  pc,             \* pc[t]: where worker or client t is
  arg,            \* arg[t]: the job t is adding, or whose future it waits for
  stack,          \* stack[w]: the jobs on the call stack of worker w
  status,         \* status[j]: the life of job j and of its future
  owner,          \* where the owner is in the pool's life
  index           \* loop variable i of the constructor and the destructor

vars == <<holder, queue, active_workers, stop_threads, pc, arg, stack, status,
          owner, index>>
jobvars == <<stack, status>>
ownvars == <<owner, index, stop_threads>>

WorkerPC == {"unborn",   \* not created yet
             "lock",     \* wants queue_mtx, then goes to the while test
             "loop",     \* at the while test, holding queue_mtx
             "wait",     \* inside queue_cv.wait
             "relock",   \* its job returned, wants queue_mtx back
             "exit"}     \* worker() returned
CallPC == {"addlock",    \* in AddJob, wants queue_mtx
           "add",        \* in AddJob, holding queue_mtx
           "await"}      \* blocked on a future
BodyPC == CallPC \cup {"job"}       \* running the body of Top(w)
ClientPC == CallPC \cup {"idle"}
OwnerPC == {"ctor", "open", "dlock", "stop", "join", "destroyed"}
Status == {"new",
           "calling",    \* AddJob(j) entered, not decided yet
           "queued",
           "running",    \* taken from the queue by a worker
           "inline",     \* run inside AddJob on its caller's stack
           "done"}       \* returned, its future is ready

TypeOK ==
  /\ holder \in Threads \cup {NoThread}
  /\ queue \in Seq(Jobs)
  /\ active_workers \in Int
  /\ stop_threads \in BOOLEAN
  /\ pc \in [Callers -> WorkerPC \cup BodyPC \cup {"idle"}]
  /\ \A w \in Workers : pc[w] \in WorkerPC \cup BodyPC
  /\ \A c \in Clients : pc[c] \in ClientPC
  /\ arg \in [Callers -> Jobs \cup {NoJob}]
  /\ stack \in [Workers -> Seq(Jobs)]
  /\ status \in [Jobs -> Status]
  /\ owner \in OwnerPC
  /\ index \in 0 .. NumWorkers

\* Threadpool::get_inactive
get_inactive == NumWorkers - active_workers

\* A worker between active_workers++ and active_workers--.
Active(w) == pc[w] \in BodyPC \cup {"relock"}

\* The innermost job of w, the one whose body is executing.
Top(w) == stack[w][Len(stack[w])]

Pending(j) == status[j] \in {"queued", "running"}

Init ==
  /\ holder = NoThread
  /\ queue = <<>>
  /\ active_workers \in ActiveInit      \* the constructor does not set it
  /\ stop_threads = FALSE
  /\ pc = [t \in Callers |-> IF t \in Workers THEN "unborn" ELSE "idle"]
  /\ arg = [t \in Callers |-> NoJob]
  /\ stack = [w \in Workers |-> <<>>]
  /\ status = [j \in Jobs |-> "new"]
  /\ owner = "ctor"
  /\ index = 0

-----------------------------------------------------------------------------
(* Threadpool::Threadpool: stop_threads = FALSE (in Init), then one thread  *)
(* per loop iteration; a worker may run before the next one exists.         *)

\* Mutant: the loop runs once more.
StartTooMany ==
  /\ owner = "ctor"
  /\ index <= NumWorkers
  /\ pc' = [pc EXCEPT ![index] = "lock"]
  /\ index' = index + 1
  /\ UNCHANGED <<holder, queue, active_workers, stop_threads, arg, jobvars,
                 owner>>

StartWorker ==
  /\ owner = "ctor"
  /\ index < NumWorkers
  /\ pc' = [pc EXCEPT ![index] = "lock"]
  /\ index' = index + 1
  /\ UNCHANGED <<holder, queue, active_workers, stop_threads, arg, jobvars,
                 owner>>

ConstructorReturns ==
  /\ owner = "ctor"
  /\ index = NumWorkers
  /\ owner' = "open"
  /\ UNCHANGED <<holder, queue, active_workers, stop_threads, pc, arg, jobvars,
                 index>>

-----------------------------------------------------------------------------
(* Threadpool::worker                                                       *)

\* Guard mtx(queue_mtx) at the top, or the lock taken again by queue_cv.wait.
WorkerLock(w) ==
  /\ pc[w] = "lock"
  /\ holder = NoThread
  /\ holder' = w
  /\ pc' = [pc EXCEPT ![w] = "loop"]
  /\ UNCHANGED <<queue, active_workers, arg, jobvars, ownvars>>

\* Mutants: the worker does not count itself; it takes the youngest job.
TakeUncounted(w) ==
  /\ pc[w] = "loop"
  /\ queue # <<>>
  /\ queue' = Tail(queue)
  /\ holder' = NoThread
  /\ pc' = [pc EXCEPT ![w] = "job"]
  /\ stack' = [stack EXCEPT ![w] = <<Head(queue)>>]
  /\ status' = [status EXCEPT ![Head(queue)] = "running"]
  /\ UNCHANGED <<active_workers, arg, ownvars>>

TakeLast(w) ==
  /\ pc[w] = "loop"
  /\ queue # <<>>
  /\ queue' = SubSeq(queue, 1, Len(queue) - 1)
  /\ active_workers' = active_workers + 1
  /\ holder' = NoThread
  /\ pc' = [pc EXCEPT ![w] = "job"]
  /\ stack' = [stack EXCEPT ![w] = <<queue[Len(queue)]>>]
  /\ status' = [status EXCEPT ![queue[Len(queue)]] = "running"]
  /\ UNCHANGED <<arg, ownvars>>

\* Take queue[0], count as active, unlock, call the job.
TakeJob(w) ==
  /\ pc[w] = "loop"
  /\ queue # <<>>
  /\ queue' = Tail(queue)
  /\ active_workers' = active_workers + 1
  /\ holder' = NoThread
  /\ pc' = [pc EXCEPT ![w] = "job"]
  /\ stack' = [stack EXCEPT ![w] = <<Head(queue)>>]
  /\ status' = [status EXCEPT ![Head(queue)] = "running"]
  /\ UNCHANGED <<arg, ownvars>>

\* Mutant: the worker waits without looking at the queue again.
WaitUntested(w) ==
  /\ pc[w] = "loop"
  /\ ~stop_threads
  /\ holder' = NoThread
  /\ pc' = [pc EXCEPT ![w] = "wait"]
  /\ UNCHANGED <<queue, active_workers, arg, jobvars, ownvars>>

\* queue_cv.wait: releases queue_mtx and sleeps, in one step for the others.
CVWait(w) ==
  /\ pc[w] = "loop"
  /\ queue = <<>>
  /\ ~stop_threads
  /\ holder' = NoThread
  /\ pc' = [pc EXCEPT ![w] = "wait"]
  /\ UNCHANGED <<queue, active_workers, arg, jobvars, ownvars>>

\* POSIX lets a condition wait return without a signal.
SpuriousWake(w) ==
  /\ pc[w] = "wait"
  /\ pc' = [pc EXCEPT ![w] = "lock"]
  /\ UNCHANGED <<holder, queue, active_workers, arg, jobvars, ownvars>>

\* Mutant: the while condition is only !stop_threads.
ExitEarly(w) ==
  /\ pc[w] = "loop"
  /\ stop_threads
  /\ holder' = NoThread
  /\ pc' = [pc EXCEPT ![w] = "exit"]
  /\ UNCHANGED <<queue, active_workers, arg, jobvars, ownvars>>

\* The while condition is false: the Guard unlocks and the thread ends.
Exit(w) ==
  /\ pc[w] = "loop"
  /\ queue = <<>>
  /\ stop_threads
  /\ holder' = NoThread
  /\ pc' = [pc EXCEPT ![w] = "exit"]
  /\ UNCHANGED <<queue, active_workers, arg, jobvars, ownvars>>

\* The innermost job of w returns.  An inline one returns into AddJob and so
\* to the body that called it; the job of the queue returns to worker().
FinishJob(w) ==
  /\ pc[w] = "job"
  /\ status' = [status EXCEPT ![Top(w)] = "done"]
  /\ stack' = [stack EXCEPT ![w] = SubSeq(stack[w], 1, Len(stack[w]) - 1)]
  /\ pc' = [pc EXCEPT ![w] = IF Len(stack[w]) = 1 THEN "relock" ELSE "job"]
  /\ UNCHANGED <<holder, queue, active_workers, arg, ownvars>>

\* Mutant: the worker stays counted.
RelockUncounted(w) ==
  /\ pc[w] = "relock"
  /\ holder = NoThread
  /\ holder' = w
  /\ pc' = [pc EXCEPT ![w] = "loop"]
  /\ UNCHANGED <<queue, active_workers, arg, jobvars, ownvars>>

\* mtx.lock(); active_workers--; back to the while test.
Relock(w) ==
  /\ pc[w] = "relock"
  /\ holder = NoThread
  /\ holder' = w
  /\ active_workers' = active_workers - 1
  /\ pc' = [pc EXCEPT ![w] = "loop"]
  /\ UNCHANGED <<queue, arg, jobvars, ownvars>>

-----------------------------------------------------------------------------
(* Threadpool::AddJob, called by a client or by the body of a job, and the  *)
(* future it returns.                                                       *)

\* The state a thread outside the Threadpool code runs in.
Body(t) == IF t \in Workers THEN "job" ELSE "idle"

\* Jobs t may add or wait for: a body its children, a client the top ones.
Own(t) == {j \in Jobs : Parent[j] = IF t \in Workers THEN Top(t) ELSE NoJob}

\* A client may not call into a pool whose destructor has begun.
CallAddJob(t, j) ==
  /\ pc[t] = Body(t)
  /\ t \in Clients => owner = "open"
  /\ j \in Own(t)
  /\ status[j] = "new"
  /\ status' = [status EXCEPT ![j] = "calling"]
  /\ arg' = [arg EXCEPT ![t] = j]
  /\ pc' = [pc EXCEPT ![t] = "addlock"]
  /\ UNCHANGED <<holder, queue, active_workers, stack, ownvars>>

AddLock(t) ==
  /\ pc[t] = "addlock"
  /\ holder = NoThread
  /\ holder' = t
  /\ pc' = [pc EXCEPT ![t] = "add"]
  /\ UNCHANGED <<queue, active_workers, arg, jobvars, ownvars>>

\* Mutants: every job is queued; get_active() is asked for get_inactive().
AlwaysAsync(t) == t \in Callers
SwappedAsync(t) == active_workers # 0 \/ t \notin Workers

\* The variable async of AddJob: run the job here only if no worker is free
\* and the caller is itself one of the workers.
Async(t) == get_inactive # 0 \/ t \notin Workers

\* queue_cv.signal as seen by pc: one waiting worker wakes, if there is one.
Signal(p) ==
  LET waiting == {w \in Workers : p[w] = "wait"}
  IN  IF waiting = {} THEN {p} ELSE {[p EXCEPT ![w] = "lock"] : w \in waiting}

\* Mutant: the signal is missing.
EnqueueSilent(t) ==
  /\ pc[t] = "add"
  /\ Async(t)
  /\ queue' = Append(queue, arg[t])
  /\ status' = [status EXCEPT ![arg[t]] = "queued"]
  /\ pc' = [pc EXCEPT ![t] = Body(t)]
  /\ arg' = [arg EXCEPT ![t] = NoJob]
  /\ holder' = NoThread
  /\ UNCHANGED <<active_workers, stack, ownvars>>

\* queue << wrapper_func; queue_cv.signal(); mtx.unlock();
Enqueue(t) ==
  /\ pc[t] = "add"
  /\ Async(t)
  /\ queue' = Append(queue, arg[t])
  /\ status' = [status EXCEPT ![arg[t]] = "queued"]
  /\ pc' \in Signal([pc EXCEPT ![t] = Body(t)])
  /\ arg' = [arg EXCEPT ![t] = NoJob]
  /\ holder' = NoThread
  /\ UNCHANGED <<active_workers, stack, ownvars>>

\* mtx.unlock(); (*job)();
RunInline(t) ==
  /\ pc[t] = "add"
  /\ ~Async(t)
  /\ status' = [status EXCEPT ![arg[t]] = "inline"]
  /\ stack' = [stack EXCEPT ![t] = Append(stack[t], arg[t])]
  /\ pc' = [pc EXCEPT ![t] = Body(t)]
  /\ arg' = [arg EXCEPT ![t] = NoJob]
  /\ holder' = NoThread
  /\ UNCHANGED <<queue, active_workers, ownvars>>

\* future.get() or wait() on a job that is not done yet.  The future of an
\* inline job is only there after the job has returned, so it never blocks.
Await(t, j) ==
  /\ pc[t] = Body(t)
  /\ j \in Own(t)
  /\ Pending(j)
  /\ pc' = [pc EXCEPT ![t] = "await"]
  /\ arg' = [arg EXCEPT ![t] = j]
  /\ UNCHANGED <<holder, queue, active_workers, jobvars, ownvars>>

FutureReady(t) ==
  /\ pc[t] = "await"
  /\ status[arg[t]] = "done"
  /\ pc' = [pc EXCEPT ![t] = Body(t)]
  /\ arg' = [arg EXCEPT ![t] = NoJob]
  /\ UNCHANGED <<holder, queue, active_workers, jobvars, ownvars>>

-----------------------------------------------------------------------------
(* Threadpool::~Threadpool                                                  *)

\* The destructor is called when no client is inside a member function.
BeginDestroy ==
  /\ owner = "open"
  /\ \A c \in Clients : pc[c] \in {"idle", "await"}
  /\ Drained => \A j \in Jobs : status[j] \in {"new", "done"}
  /\ owner' = "dlock"
  /\ UNCHANGED <<holder, queue, active_workers, stop_threads, pc, arg, jobvars,
                 index>>

OwnerLock ==
  /\ owner = "dlock"
  /\ holder = NoThread
  /\ holder' = Owner
  /\ owner' = "stop"
  /\ UNCHANGED <<queue, active_workers, stop_threads, pc, arg, jobvars, index>>

\* Mutant: the broadcast is missing.
StopSilent ==
  /\ owner = "stop"
  /\ stop_threads' = TRUE
  /\ holder' = NoThread
  /\ owner' = "join"
  /\ index' = 0
  /\ UNCHANGED <<queue, active_workers, pc, arg, jobvars>>

\* stop_threads = true; queue_cv.broadcast(); the Guard's block ends.
Stop ==
  /\ owner = "stop"
  /\ stop_threads' = TRUE
  /\ pc' = [t \in Callers |-> IF pc[t] = "wait" THEN "lock" ELSE pc[t]]
  /\ holder' = NoThread
  /\ owner' = "join"
  /\ index' = 0
  /\ UNCHANGED <<queue, active_workers, arg, jobvars>>

\* workers[i].join()
Join ==
  /\ owner = "join"
  /\ index < NumWorkers
  /\ pc[index] = "exit"
  /\ index' = index + 1
  /\ UNCHANGED <<holder, queue, active_workers, stop_threads, pc, arg, jobvars,
                 owner>>

\* The members go: queue, workers, queue_cv, queue_mtx.
Destroy ==
  /\ owner = "join"
  /\ index = NumWorkers
  /\ owner' = "destroyed"
  /\ UNCHANGED <<holder, queue, active_workers, stop_threads, pc, arg, jobvars,
                 index>>

\* Nothing is left to do.
Terminated ==
  /\ owner = "destroyed"
  /\ \A c \in Clients : pc[c] = "idle"
  /\ UNCHANGED vars

-----------------------------------------------------------------------------

WorkerStep(w) ==
  \/ WorkerLock(w) \/ TakeJob(w) \/ CVWait(w) \/ Exit(w)
  \/ FinishJob(w) \/ Relock(w)

CallerStep(t) ==
  \/ AddLock(t) \/ Enqueue(t) \/ FutureReady(t)

OwnerStep == StartWorker \/ ConstructorReturns \/ OwnerLock \/ Stop \/ Join \/ Destroy

Next ==
  \/ OwnerStep \/ BeginDestroy
  \/ \E w \in Workers : WorkerStep(w) \/ SpuriousWake(w) \/ RunInline(w)
  \/ \E t \in Callers : CallerStep(t)
  \/ \E t \in Callers, j \in Jobs : CallAddJob(t, j) \/ Await(t, j)
  \/ Terminated

Spec == Init /\ [][Next]_vars

\* Every thread keeps running; a thread that wants queue_mtx gets it if it is
\* free again and again (spurious wakeups alone could otherwise starve it).
\* Nobody has to call AddJob, wait for a future, or destroy the pool.
Fairness ==
  /\ \A w \in Workers :
       /\ WF_vars(TakeJob(w) \/ CVWait(w) \/ Exit(w) \/ FinishJob(w) \/ RunInline(w))
       /\ SF_vars(WorkerLock(w))
       /\ SF_vars(Relock(w))
  /\ \A t \in Callers :
       /\ WF_vars(Enqueue(t) \/ FutureReady(t))
       /\ SF_vars(AddLock(t))
  /\ WF_vars(StartWorker \/ ConstructorReturns \/ Stop \/ Join \/ Destroy)
  /\ SF_vars(OwnerLock)

FairSpec == Spec /\ Fairness

-----------------------------------------------------------------------------
(* Safety                                                                   *)

\* active_workers counts exactly the workers that are between their
\* active_workers++ and active_workers-- (threadpool.cc 24, 28), wherever in a
\* job, in AddJob or before the relock they are: get_inactive() == 0 then
\* really means "no worker is free".
ActiveCount == active_workers = Cardinality({w \in Workers : Active(w)})

\* No lost wakeup (threadpool.cc 30, threadpool.h 79): while a worker sleeps in
\* queue_cv.wait there are enough awake workers on their way to the while test
\* to take every queued job.
Looking == {w \in Workers : pc[w] \in {"lock", "loop"}}
NoLostWakeup ==
  (\E w \in Workers : pc[w] = "wait") => Len(queue) <= Cardinality(Looking)

\* Jobs of the call stack of w, and their children that other threads have to
\* finish: what the bodies on that stack may block on.
Frames(w) == {stack[w][i] : i \in DOMAIN stack[w]}
Remote(w) == {j \in Jobs : Parent[j] \in Frames(w) /\ Pending(j)}

\* Why nested jobs do not deadlock (the inline branch of AddJob): whenever all
\* workers are busy, one of them depends on no other thread.
Saturated == \A w \in Workers : Active(w)
SaturationWitness == Saturated => \E w \in Workers : Remote(w) = {}

\* AddJob, threadpool.h 69: "test if we are already running by one of our
\* workers".  A worker that adds a job while all workers are busy runs it
\* itself; the job never goes to the queue nobody is free to serve.
SaturatedRunsInline ==
  [][\A w \in Workers :
       Saturated /\ pc[w] = "add" /\ pc'[w] # "add" => status'[arg[w]] = "inline"]_vars

\* The consequence: the workers are never all blocked on futures at once.
Blocked(w) == pc[w] = "await" /\ status[arg[w]] # "done"
NotAllBlocked == ~ \A w \in Workers : Blocked(w)

\* Once every worker has left worker(), so that the joins of ~Threadpool can
\* all return, no accepted job is left over, no promise is broken, and nobody
\* holds queue_mtx when ~Mutex asserts !locked.
Quiet == \A w \in Workers : pc[w] = "exit"
DrainBeforeDestroy ==
  Quiet => /\ queue = <<>>
           /\ \A j \in Jobs : status[j] \in {"new", "done"}
           /\ holder \notin Callers

\* Threadpool implements JobService: exactly once, in order, complete before
\* the end.
Promise == [new |-> "new", calling |-> "new", queued |-> "waiting",
            running |-> "running", inline |-> "running", done |-> "done"]
Service == INSTANCE JobService WITH
  state <- [j \in Jobs |-> Promise[status[j]]],
  backlog <- queue,
  open <- owner # "destroyed"
ImplementsJobService == Service!SSpec

-----------------------------------------------------------------------------
(* Liveness, under FairSpec                                                 *)

\* Every future handed out by AddJob becomes ready.
JobsComplete == \A j \in Jobs : (status[j] = "calling") ~> (status[j] = "done")

\* ~Threadpool returns: "signal and wait for workers to stop before we
\* desonstruct ourself" (threadpool.cc 45).
DestructorReturns == (owner = "dlock") ~> (owner = "destroyed")

\* What can stand in its way is this alone: jobs are queued, and every worker
\* has left worker() or waits for a future (threadpool.cc 52, threadpool.h 77).
\* In every other case the queue is drained and the destructor returns, with
\* jobs queued and running, and whatever active_workers started as.
Abandoned ==
  /\ queue # <<>>
  /\ \A w \in Workers : pc[w] = "exit" \/ Blocked(w)
DestructorReturnsOrAbandons ==
  (owner = "dlock") ~> (owner = "destroyed" \/ Abandoned)
=============================================================================
