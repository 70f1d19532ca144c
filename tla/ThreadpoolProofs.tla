-------------------------- MODULE ThreadpoolProofs --------------------------
(***************************************************************************)
(* Proofs about Threadpool, for every number of workers, every set of       *)
(* clients and every job tree.                                              *)
(***************************************************************************)
EXTENDS Threadpool, FiniteSetTheorems, SequenceTheorems, TLAPS

USE NumWorkersAssumption, ThreadsAssumption, JobsAssumption,
    ActiveInitAssumption, DrainedAssumption

PCs == WorkerPC \cup BodyPC \cup {"idle"}

-----------------------------------------------------------------------------
(* Operators of the model                                                   *)

\* Enqueue moves its caller on and wakes one waiting worker, if there is one.
LEMMA EnqueueWakes ==
  ASSUME pc \in [Callers -> PCs], NEW t \in Callers, Enqueue(t)
  PROVE  \/ /\ \A w \in Workers : pc[w] # "wait"
            /\ pc' = [pc EXCEPT ![t] = Body(t)]
         \/ \E w \in Workers \ {t} :
              /\ pc[w] = "wait"
              /\ pc' = [pc EXCEPT ![t] = Body(t), ![w] = "lock"]
<1> DEFINE p == [pc EXCEPT ![t] = Body(t)]
<1>1. pc[t] = "add" /\ pc' \in Signal(p)
  BY DEF Enqueue
<1>2. p \in [Callers -> PCs] /\ Workers \subseteq Callers
  BY DEF Callers, Body, PCs, BodyPC
<1>3. p[t] \in {"job", "idle"} /\ \A u \in Callers \ {t} : p[u] = pc[u]
  BY DEF Body
<1>4. CASE {w \in Workers : p[w] = "wait"} = {}
  BY <1>1, <1>2, <1>3, <1>4 DEF Signal
<1>5. CASE {w \in Workers : p[w] = "wait"} # {}
  <2>1. PICK w \in Workers : p[w] = "wait" /\ pc' = [p EXCEPT ![w] = "lock"]
    BY <1>1, <1>5 DEF Signal
  <2>2. w # t /\ pc[w] = "wait"
    BY <2>1, <1>2, <1>3
  <2> QED
    BY <2>1, <2>2
<1> QED
  BY <1>4, <1>5

\* Returning from the innermost job leaves the frames below it as they are.
LEMMA PopFrame ==
  ASSUME NEW s \in Seq(Jobs), s # <<>>
  PROVE  /\ SubSeq(s, 1, Len(s) - 1) \in Seq(Jobs)
         /\ Len(SubSeq(s, 1, Len(s) - 1)) = Len(s) - 1
         /\ \A i \in 1 .. Len(s) - 1 : SubSeq(s, 1, Len(s) - 1)[i] = s[i]
<1> DEFINE n == Len(s) - 1
<1>1. Len(s) \in Nat \ {0} /\ n \in Nat
  BY EmptySeq
<1>2. \A i \in 1 .. n : s[i] \in Jobs /\ 1 + i - 1 = i
  BY <1>1, ElementOfSeq
<1> HIDE DEF n
<1>3. n - 1 + 1 = n /\ (~ (1 <= n) => n = 0)
  BY <1>1
<1>4. /\ SubSeq(s, 1, n) \in Seq(Jobs)
      /\ Len(SubSeq(s, 1, n)) = IF 1 <= n THEN n - 1 + 1 ELSE 0
  BY <1>1, <1>2, SubSeqProperties
<1>5. \A i \in 1 .. n : SubSeq(s, 1, n)[i] = s[i]
  BY <1>1, <1>2
<1>6. Len(SubSeq(s, 1, n)) = n
  BY <1>1, <1>3, <1>4
<1> QED
  BY <1>6, <1>5, <1>4 DEF n

-----------------------------------------------------------------------------
(* Type correctness                                                         *)

\* While a thread is in AddJob or blocked on a future, arg names that job;
\* while a body runs or is suspended, its worker's stack is not empty; the
\* constructor has created the workers below its loop variable.
ArgType == \A t \in Callers : pc[t] \in CallPC => arg[t] \in Jobs
StackType == \A w \in Workers : pc[w] \in BodyPC <=> stack[w] # <<>>
CtorInv == owner = "ctor" => \A w \in Workers : w >= index => pc[w] = "unborn"
TypeInv == TypeOK /\ ArgType /\ StackType /\ CtorInv

LEMMA TypeInit == Init => TypeInv
<1> SUFFICES ASSUME Init PROVE TypeInv
  OBVIOUS
<1>1. TypeOK
  <2>1. pc \in [Callers -> {"unborn", "idle"}]
    BY DEF Init
  <2>2. \A w \in Workers : pc[w] = "unborn"
    BY DEF Init, Callers
  <2>3. \A c \in Clients : pc[c] = "idle"
    BY DEF Init, Callers
  <2>4. active_workers \in Int /\ index \in 0 .. NumWorkers /\ holder = NoThread
    BY DEF Init
  <2>5. queue \in Seq(Jobs) /\ stack \in [Workers -> Seq(Jobs)]
    BY DEF Init
  <2>6. /\ stop_threads \in BOOLEAN /\ arg \in [Callers -> Jobs \cup {NoJob}]
        /\ status \in [Jobs -> Status] /\ owner \in OwnerPC
    BY DEF Init, Status, OwnerPC
  <2> QED
    BY <2>1, <2>2, <2>3, <2>4, <2>5, <2>6 DEF TypeOK, WorkerPC, ClientPC
<1>2. ArgType
  BY DEF Init, ArgType, CallPC, Callers
<1>3. StackType
  BY DEF Init, StackType, BodyPC, CallPC, Callers
<1>4. CtorInv
  BY DEF Init, CtorInv, Callers
<1> QED
  BY <1>1, <1>2, <1>3, <1>4 DEF TypeInv

LEMMA TypeStep == TypeInv /\ [Next]_vars => TypeInv'
<1> SUFFICES ASSUME TypeInv, [Next]_vars PROVE TypeInv'
  OBVIOUS
<1> USE DEF TypeInv, TypeOK, ArgType, StackType, CtorInv, WorkerPC, BodyPC, CallPC, ClientPC,
        OwnerPC, Status, Threads, Callers, jobvars, ownvars
<1>1. CASE StartWorker
  <2>1. index \in Workers /\ index + 1 \in 0 .. NumWorkers /\ pc[index] = "unborn"
    BY <1>1 DEF StartWorker, Workers
  <2>2. CtorInv'
    BY <1>1, <2>1 DEF StartWorker, Workers
  <2>3. TypeOK' /\ ArgType' /\ StackType'
    BY <1>1, <2>1 DEF StartWorker
  <2> QED
    BY <2>2, <2>3
<1>2. CASE ConstructorReturns \/ BeginDestroy \/ OwnerLock \/ Destroy \/ Terminated
  BY <1>2 DEF ConstructorReturns, BeginDestroy, OwnerLock, Destroy, Terminated, vars
<1>3. CASE Stop
  BY <1>3 DEF Stop
<1>4. CASE Join
  BY <1>4 DEF Join
<1>5. ASSUME NEW w \in Workers, WorkerLock(w) \/ CVWait(w) \/ SpuriousWake(w) \/ Exit(w)
      PROVE  TypeInv'
  <2>1. pc[w] \in {"lock", "loop", "wait"} /\ holder' \in {w, holder, NoThread}
    BY <1>5 DEF WorkerLock, CVWait, SpuriousWake, Exit
  <2>2. PICK n \in {"loop", "wait", "lock", "exit"} : pc' = [pc EXCEPT ![w] = n]
    BY <1>5 DEF WorkerLock, CVWait, SpuriousWake, Exit
  <2>3. UNCHANGED <<queue, active_workers, arg, jobvars, ownvars>>
    BY <1>5 DEF WorkerLock, CVWait, SpuriousWake, Exit
  <2>4. TypeOK'
    BY <2>1, <2>2, <2>3
  <2>5. ArgType' /\ StackType' /\ CtorInv'
    BY <2>1, <2>2, <2>3
  <2> QED
    BY <2>4, <2>5
<1>6. ASSUME NEW w \in Workers, TakeJob(w) PROVE TypeInv'
  BY <1>6, HeadTailProperties DEF TakeJob
<1>7. ASSUME NEW w \in Workers, FinishJob(w) PROVE TypeInv'
  <2> DEFINE s == stack[w]
  <2>1. s \in Seq(Jobs) /\ s # <<>> /\ Len(s) \in Nat
    BY <1>7, LenProperties DEF FinishJob
  <2>4. Top(w) \in Jobs
    BY <2>1, EmptySeq, ElementOfSeq DEF Top
  <2> HIDE DEF s
  <2>2. /\ SubSeq(s, 1, Len(s) - 1) \in Seq(Jobs)
        /\ Len(SubSeq(s, 1, Len(s) - 1)) = Len(s) - 1
    BY <2>1, PopFrame
  <2>3. SubSeq(s, 1, Len(s) - 1) = <<>> <=> Len(s) = 1
    <3> DEFINE r == SubSeq(s, 1, Len(s) - 1)
    <3>1. r \in Seq(Jobs) /\ Len(r) = Len(s) - 1
      BY <2>2
    <3> HIDE DEF r
    <3>2. r = <<>> <=> Len(r) = 0
      BY <3>1, EmptySeq
    <3>3. r = <<>> <=> Len(s) = 1
      BY <2>1, <3>1, <3>2
    <3> QED
      BY <3>3 DEF r
  <2> QED
    BY <1>7, <2>2, <2>3, <2>4 DEF FinishJob, s
<1>8. ASSUME NEW w \in Workers, Relock(w) PROVE TypeInv'
  BY <1>8 DEF Relock
<1>9. ASSUME NEW w \in Workers, RunInline(w) PROVE TypeInv'
  BY SMTT(40), <1>9, AppendProperties DEF RunInline, Body
<1>10. ASSUME NEW t \in Callers, NEW j \in Jobs, CallAddJob(t, j) \/ Await(t, j)
       PROVE  TypeInv'
  <2>1. CASE CallAddJob(t, j)
    BY <2>1 DEF CallAddJob, Body
  <2>2. CASE Await(t, j)
    BY <2>2 DEF Await, Body
  <2> QED
    BY <1>10, <2>1, <2>2
<1>11. ASSUME NEW t \in Callers, AddLock(t) PROVE TypeInv'
  BY <1>11 DEF AddLock
<1>12. ASSUME NEW t \in Callers, Enqueue(t) PROVE TypeInv'
  <2>1. arg[t] \in Jobs /\ pc \in [Callers -> PCs]
    BY <1>12 DEF Enqueue, PCs
  <2>2. /\ \/ pc' = [pc EXCEPT ![t] = Body(t)]
           \/ \E w \in Workers \ {t} :
                pc[w] = "wait" /\ pc' = [pc EXCEPT ![t] = Body(t), ![w] = "lock"]
    BY <1>12, <2>1, EnqueueWakes
  <2>3. queue' \in Seq(Jobs)
    BY <1>12, <2>1, AppendProperties DEF Enqueue
  <2>4. /\ arg' = [arg EXCEPT ![t] = NoJob] /\ holder' = NoThread
        /\ status' = [status EXCEPT ![arg[t]] = "queued"] /\ pc[t] = "add"
        /\ UNCHANGED <<active_workers, stack, ownvars>>
    BY <1>12 DEF Enqueue
  <2>5. CASE pc' = [pc EXCEPT ![t] = Body(t)]
    BY <2>3, <2>4, <2>5 DEF Body
  <2>6. ASSUME NEW w \in Workers \ {t}, pc[w] = "wait",
               pc' = [pc EXCEPT ![t] = Body(t), ![w] = "lock"]
        PROVE  TypeInv'
    BY ZenonT(60), <2>3, <2>4, <2>6 DEF Body
  <2> QED
    BY <2>2, <2>5, <2>6
<1>13. ASSUME NEW t \in Callers, FutureReady(t) PROVE TypeInv'
  BY <1>13 DEF FutureReady, Body
<1>14. CASE UNCHANGED vars
  BY <1>14 DEF vars
<1> QED
  BY <1>1, <1>2, <1>3, <1>4, <1>5, <1>6, <1>7, <1>8, <1>9, <1>10, <1>11, <1>12,
     <1>13, <1>14 DEF Next, OwnerStep, WorkerStep, CallerStep

\* Every variable keeps its type (Threadpool::worker, AddJob, constructor and
\* destructor), for any number of workers.
THEOREM TypeCorrect == Spec => []TypeOK
<1>1. Spec => []TypeInv
  BY TypeInit, TypeStep, PTL DEF Spec
<1>2. TypeInv => TypeOK
  BY DEF TypeInv
<1> QED
  BY <1>1, <1>2, PTL

LEMMA TypeAlways == Spec => []TypeInv
BY TypeInit, TypeStep, PTL DEF Spec

-----------------------------------------------------------------------------
(* The life of the pool and who holds queue_mtx                             *)

\* stop_threads tells where the owner is; clients are out of AddJob unless the
\* pool is open; workers end only after stop, and are joined in order.
LifeInv ==
  /\ stop_threads <=> owner \in {"join", "destroyed"}
  /\ owner # "open" => \A c \in Clients : pc[c] \in {"idle", "await"}
  /\ \A w \in Workers : pc[w] = "exit" => stop_threads
  /\ stop_threads => \A w \in Workers : w < index => pc[w] = "exit"
  /\ owner = "destroyed" => index = NumWorkers

\* queue_mtx is held exactly by the thread whose pc says so.
HolderInv ==
  /\ \A t \in Callers : holder = t <=> pc[t] \in {"loop", "add"}
  /\ holder = Owner <=> owner = "stop"

LEMMA LifeInit == Init => LifeInv /\ HolderInv
<1> SUFFICES ASSUME Init PROVE LifeInv /\ HolderInv
  OBVIOUS
<1>1. holder # Owner /\ \A t \in Callers : pc[t] \in {"unborn", "idle"} /\ holder # t
  BY DEF Init, Threads
<1>2. \A c \in Clients : pc[c] = "idle"
  BY DEF Init, Callers
<1> QED
  BY <1>1, <1>2 DEF Init, LifeInv, HolderInv, Callers

LEMMA LifeStep == TypeInv /\ LifeInv /\ [Next]_vars => LifeInv'
<1> SUFFICES ASSUME TypeInv, LifeInv, [Next]_vars PROVE LifeInv'
  OBVIOUS
<1>0. /\ pc \in [Callers -> PCs] /\ index \in 0 .. NumWorkers /\ CtorInv
      /\ \A w \in Workers : w \notin Clients /\ pc[w] # "idle"
      /\ \A c \in Clients : pc[c] \in ClientPC
  BY DEF TypeInv, TypeOK, PCs, WorkerPC, BodyPC, CallPC
<1> USE DEF LifeInv, Callers, ownvars
<1>1. CASE OwnerStep
  <2>1. CASE StartWorker
    BY <2>1, <1>0 DEF StartWorker, Workers
  <2>2. CASE ConstructorReturns \/ OwnerLock
    BY <2>2, <1>0 DEF ConstructorReturns, OwnerLock
  <2>3. CASE Stop
    <3>1. \A w \in Workers : ~ w < 0
      BY DEF Workers
    <3> QED
      BY <2>3, <1>0, <3>1 DEF Stop
  <2>4. CASE Join
    <3>1. \A w \in Workers : w < index + 1 => w < index \/ w = index
      BY <1>0 DEF Workers
    <3> QED
      BY <2>4, <1>0, <3>1 DEF Join
  <2>5. CASE Destroy
    BY <2>5, <1>0 DEF Destroy
  <2> QED
    BY <1>1, <2>1, <2>2, <2>3, <2>4, <2>5 DEF OwnerStep
<1>2. CASE BeginDestroy
  BY <1>2 DEF BeginDestroy
<1>3. ASSUME NEW w \in Workers, WorkerStep(w) \/ SpuriousWake(w) \/ RunInline(w)
      PROVE  LifeInv'
  <2>1. PICK n \in PCs : /\ pc' = [pc EXCEPT ![w] = n]
                         /\ n = "exit" => stop_threads
    BY <1>3 DEF WorkerStep, WorkerLock, TakeJob, CVWait, Exit, FinishJob, Relock,
       SpuriousWake, RunInline, Body, PCs, WorkerPC, BodyPC
  <2>2. UNCHANGED ownvars /\ pc[w] # "exit"
    BY <1>3 DEF WorkerStep, WorkerLock, TakeJob, CVWait, Exit, FinishJob, Relock,
       SpuriousWake, RunInline
  <2> QED
    BY <1>0, <2>1, <2>2
<1>4. ASSUME NEW t \in Callers, CallerStep(t) PROVE LifeInv'
  <2>1. CASE AddLock(t)
    BY <2>1, <1>0 DEF AddLock
  <2>2. CASE FutureReady(t)
    BY <2>2, <1>0 DEF FutureReady, Body
  <2>3. CASE Enqueue(t)
    <3>1. UNCHANGED ownvars /\ pc[t] = "add"
      BY <2>3 DEF Enqueue
    <3>2. CASE pc' = [pc EXCEPT ![t] = Body(t)]
      BY <1>0, <3>1, <3>2 DEF Body
    <3>3. ASSUME NEW w \in Workers \ {t}, pc[w] = "wait",
                 pc' = [pc EXCEPT ![t] = Body(t), ![w] = "lock"]
          PROVE  LifeInv'
      BY <1>0, <3>1, <3>3 DEF Body
    <3> QED
      BY <1>0, <2>3, <3>2, <3>3, EnqueueWakes
  <2> QED
    BY <1>4, <2>1, <2>2, <2>3 DEF CallerStep
<1>5. ASSUME NEW t \in Callers, NEW j \in Jobs, CallAddJob(t, j) \/ Await(t, j)
      PROVE  LifeInv'
  BY <1>5, <1>0 DEF CallAddJob, Await, Body
<1>6. CASE Terminated \/ UNCHANGED vars
  BY <1>6 DEF Terminated, vars
<1> QED
  BY <1>1, <1>2, <1>3, <1>4, <1>5, <1>6 DEF Next

LEMMA HolderStep == TypeInv /\ HolderInv /\ [Next]_vars => HolderInv'
<1> SUFFICES ASSUME TypeInv, HolderInv, [Next]_vars PROVE HolderInv'
  OBVIOUS
<1>0. /\ pc \in [Callers -> PCs] /\ index \in 0 .. NumWorkers /\ CtorInv
      /\ Workers \subseteq Callers /\ NoThread \notin Callers \cup {Owner}
      /\ Owner \notin Callers
  BY DEF TypeInv, TypeOK, PCs, Callers, Threads
<1> USE DEF HolderInv, ownvars
<1>1. CASE OwnerStep
  <2>1. CASE StartWorker
    BY <2>1, <1>0 DEF StartWorker, Workers, CtorInv
  <2>2. CASE ConstructorReturns \/ Join \/ Destroy
    BY <2>2 DEF ConstructorReturns, Join, Destroy
  <2>3. CASE OwnerLock
    BY <2>3, <1>0 DEF OwnerLock
  <2>4. CASE Stop
    BY <2>4, <1>0 DEF Stop
  <2> QED
    BY <1>1, <2>1, <2>2, <2>3, <2>4 DEF OwnerStep
<1>2. CASE BeginDestroy
  BY <1>2 DEF BeginDestroy
<1>3. ASSUME NEW w \in Workers, WorkerStep(w) \/ SpuriousWake(w) \/ RunInline(w)
      PROVE  HolderInv'
  BY <1>3, <1>0 DEF WorkerStep, WorkerLock, TakeJob, CVWait, Exit, FinishJob, Relock,
     SpuriousWake, RunInline, Body
<1>4. ASSUME NEW t \in Callers, CallerStep(t) PROVE HolderInv'
  <2>1. CASE AddLock(t)
    BY <2>1, <1>0 DEF AddLock
  <2>2. CASE FutureReady(t)
    BY <2>2, <1>0 DEF FutureReady, Body
  <2>3. CASE Enqueue(t)
    <3>1. UNCHANGED ownvars /\ pc[t] = "add" /\ holder' = NoThread
      BY <2>3 DEF Enqueue
    <3>2. CASE pc' = [pc EXCEPT ![t] = Body(t)]
      BY <1>0, <3>1, <3>2 DEF Body
    <3>3. ASSUME NEW w \in Workers \ {t}, pc[w] = "wait",
                 pc' = [pc EXCEPT ![t] = Body(t), ![w] = "lock"]
          PROVE  HolderInv'
      BY <1>0, <3>1, <3>3 DEF Body
    <3> QED
      BY <1>0, <2>3, <3>2, <3>3, EnqueueWakes
  <2> QED
    BY <1>4, <2>1, <2>2, <2>3 DEF CallerStep
<1>5. ASSUME NEW t \in Callers, NEW j \in Jobs, CallAddJob(t, j) \/ Await(t, j)
      PROVE  HolderInv'
  BY <1>5, <1>0 DEF CallAddJob, Await, Body
<1>6. CASE Terminated \/ UNCHANGED vars
  BY <1>6 DEF Terminated, vars
<1> QED
  BY <1>1, <1>2, <1>3, <1>4, <1>5, <1>6 DEF Next

LEMMA LifeAlways == Spec => [](LifeInv /\ HolderInv)
BY LifeInit, LifeStep, HolderStep, TypeAlways, PTL DEF Spec

-----------------------------------------------------------------------------
(* Counting: active_workers and the wakeups                                 *)

LEMMA WorkersFinite ==
  ASSUME NEW S \in SUBSET Workers
  PROVE  IsFiniteSet(S) /\ Cardinality(S) \in Nat
<1>1. IsFiniteSet(Workers)
  <2>1. 0 \in Int /\ NumWorkers - 1 \in Int
    OBVIOUS
  <2> QED
    BY <2>1, FS_Interval DEF Workers
<1> QED
  BY <1>1, FS_Subset, FS_CardinalityType

ActiveSet == {w \in Workers : Active(w)}

LEMMA ActiveStep == TypeInv /\ ActiveCount /\ [Next]_vars => ActiveCount'
<1> SUFFICES ASSUME TypeInv, ActiveCount, [Next]_vars PROVE ActiveCount'
  OBVIOUS
<1>0. /\ pc \in [Callers -> PCs] /\ index \in 0 .. NumWorkers /\ CtorInv
      /\ Workers \subseteq Callers /\ ActiveSet \in SUBSET Workers
      /\ active_workers = Cardinality(ActiveSet)
      /\ \A w \in Workers : Active(w) <=> pc[w] \in BodyPC \cup {"relock"}
  BY DEF TypeInv, TypeOK, PCs, Callers, ActiveSet, ActiveCount, Active
<1> SUFFICES active_workers' = Cardinality(ActiveSet')
  BY DEF ActiveCount, ActiveSet
<1>a. ASSUME UNCHANGED active_workers,
             \A w \in Workers : Active(w)' <=> Active(w)
      PROVE  active_workers' = Cardinality(ActiveSet')
  <2>1. ActiveSet' = ActiveSet
    BY <1>a DEF ActiveSet
  <2> QED
    BY <1>0, <1>a, <2>1
<1> USE DEF Active, BodyPC, CallPC
<1>1. CASE OwnerStep \/ BeginDestroy
  <2>1. UNCHANGED active_workers
    BY <1>1 DEF OwnerStep, BeginDestroy, StartWorker, ConstructorReturns, OwnerLock,
       Stop, Join, Destroy
  <2>2. CASE StartWorker
    BY <2>1, <2>2, <1>a, <1>0 DEF StartWorker, Workers, CtorInv
  <2>3. CASE Stop
    BY <2>1, <2>3, <1>a, <1>0 DEF Stop
  <2>4. CASE UNCHANGED pc
    BY <2>1, <2>4, <1>a
  <2> QED
    BY <1>1, <2>2, <2>3, <2>4 DEF OwnerStep, BeginDestroy, ConstructorReturns,
       OwnerLock, Join, Destroy
<1>2. ASSUME NEW w \in Workers, TakeJob(w) PROVE active_workers' = Cardinality(ActiveSet')
  <2>1. ActiveSet' = ActiveSet \cup {w} /\ w \notin ActiveSet
    BY <1>0, <1>2 DEF TakeJob, ActiveSet
  <2>2. active_workers' = active_workers + 1
    BY <1>2 DEF TakeJob
  <2> QED
    BY <1>0, <2>1, <2>2, WorkersFinite, FS_AddElement
<1>3. ASSUME NEW w \in Workers, Relock(w) PROVE active_workers' = Cardinality(ActiveSet')
  <2>1. ActiveSet' = ActiveSet \ {w} /\ w \in ActiveSet
    BY <1>0, <1>3 DEF Relock, ActiveSet
  <2>2. active_workers' = active_workers - 1
    BY <1>3 DEF Relock
  <2> QED
    BY <1>0, <2>1, <2>2, WorkersFinite, FS_RemoveElement
<1>4. ASSUME NEW w \in Workers,
             \/ WorkerLock(w) \/ CVWait(w) \/ Exit(w) \/ FinishJob(w)
             \/ SpuriousWake(w) \/ RunInline(w)
      PROVE  active_workers' = Cardinality(ActiveSet')
  <2>1. UNCHANGED active_workers
    BY <1>4 DEF WorkerLock, CVWait, Exit, FinishJob, SpuriousWake, RunInline
  <2>2. CASE WorkerLock(w) \/ CVWait(w) \/ Exit(w) \/ SpuriousWake(w)
    BY <2>1, <2>2, <1>a, <1>0 DEF WorkerLock, CVWait, Exit, SpuriousWake
  <2>3. CASE FinishJob(w) \/ RunInline(w)
    BY <2>1, <2>3, <1>a, <1>0 DEF FinishJob, RunInline, Body
  <2> QED
    BY <1>4, <2>2, <2>3
<1>5. ASSUME NEW t \in Callers, CallerStep(t) PROVE active_workers' = Cardinality(ActiveSet')
  <2>1. UNCHANGED active_workers
    BY <1>5 DEF CallerStep, AddLock, Enqueue, FutureReady
  <2>2. CASE AddLock(t) \/ FutureReady(t)
    BY <2>1, <2>2, <1>a, <1>0 DEF AddLock, FutureReady, Body
  <2>3. CASE Enqueue(t)
    <3>1. pc[t] = "add"
      BY <2>3 DEF Enqueue
    <3>2. CASE pc' = [pc EXCEPT ![t] = Body(t)]
      BY <2>1, <3>1, <3>2, <1>a, <1>0 DEF Body
    <3>3. ASSUME NEW w \in Workers \ {t}, pc[w] = "wait",
                 pc' = [pc EXCEPT ![t] = Body(t), ![w] = "lock"]
          PROVE  active_workers' = Cardinality(ActiveSet')
      BY <2>1, <3>1, <3>3, <1>a, <1>0 DEF Body
    <3> QED
      BY <1>0, <2>3, <3>2, <3>3, EnqueueWakes
  <2> QED
    BY <1>5, <2>2, <2>3 DEF CallerStep
<1>6. ASSUME NEW t \in Callers, NEW j \in Jobs, CallAddJob(t, j) \/ Await(t, j)
      PROVE  active_workers' = Cardinality(ActiveSet')
  BY <1>6, <1>a, <1>0 DEF CallAddJob, Await, Body
<1>7. CASE Terminated \/ UNCHANGED vars
  BY <1>7, <1>a DEF Terminated, vars
<1> QED
  BY <1>1, <1>2, <1>3, <1>4, <1>5, <1>6, <1>7 DEF Next, WorkerStep

\* In a pool whose storage is zeroed before it is constructed, active_workers is
\* always the number of workers that are in a job (threadpool.cc 24, 28), so
\* get_inactive() == 0 in AddJob means that none is free.
THEOREM ActiveCorrect ==
  ASSUME ActiveInit = {0}
  PROVE  Spec => []ActiveCount
<1>1. Init => ActiveCount
  <2> SUFFICES ASSUME Init PROVE ActiveCount
    OBVIOUS
  <2>1. {w \in Workers : Active(w)} = {}
    BY DEF Init, Active, BodyPC, CallPC, Callers
  <2> QED
    BY <2>1, FS_EmptySet DEF Init, ActiveCount
<1> QED
  BY <1>1, ActiveStep, TypeAlways, PTL DEF Spec

LEMMA WakeupStep == TypeInv /\ NoLostWakeup /\ [Next]_vars => NoLostWakeup'
<1> SUFFICES ASSUME TypeInv, NoLostWakeup, [Next]_vars PROVE NoLostWakeup'
  OBVIOUS
<1> DEFINE Sleeping == \E w \in Workers : pc[w] = "wait"
<1>0. /\ pc \in [Callers -> PCs] /\ index \in 0 .. NumWorkers /\ CtorInv
      /\ Workers \subseteq Callers /\ Looking \in SUBSET Workers
      /\ queue \in Seq(Jobs) /\ Len(queue) \in Nat
      /\ IsFiniteSet(Looking) /\ Cardinality(Looking) \in Nat
  BY WorkersFinite, LenProperties DEF TypeInv, TypeOK, PCs, Callers, Looking
<1>a. ASSUME UNCHANGED queue, Sleeping' => Sleeping, Looking' = Looking
      PROVE  NoLostWakeup'
  BY <1>a DEF NoLostWakeup
<1>b. ASSUME NEW w \in Workers, UNCHANGED queue, Sleeping' => Sleeping,
             Looking' = Looking \cup {w}
      PROVE  NoLostWakeup'
  <2>1. \/ Cardinality(Looking') = Cardinality(Looking)
        \/ Cardinality(Looking') = Cardinality(Looking) + 1
    BY <1>0, <1>b, FS_AddElement
  <2> QED
    BY <1>0, <1>b, <2>1, WorkersFinite DEF NoLostWakeup
<1>1. CASE OwnerStep \/ BeginDestroy
  <2>1. UNCHANGED queue
    BY <1>1 DEF OwnerStep, BeginDestroy, StartWorker, ConstructorReturns, OwnerLock,
       Stop, Join, Destroy
  <2>2. CASE StartWorker
    <3>1. index \in Workers /\ Looking' = Looking \cup {index} /\ (Sleeping' => Sleeping)
      BY <2>2, <1>0 DEF StartWorker, Workers, CtorInv, Looking
    <3> QED
      BY <3>1, <2>1, <1>b
  <2>3. CASE Stop
    BY <2>3, <1>0 DEF Stop, NoLostWakeup
  <2>4. CASE UNCHANGED pc
    BY <2>1, <2>4, <1>a DEF Looking
  <2> QED
    BY <1>1, <2>2, <2>3, <2>4 DEF OwnerStep, BeginDestroy, ConstructorReturns,
       OwnerLock, Join, Destroy
<1>2. ASSUME NEW w \in Workers, TakeJob(w) PROVE NoLostWakeup'
  <2>1. Looking' = Looking \ {w} /\ w \in Looking /\ (Sleeping' => Sleeping)
    BY <1>0, <1>2 DEF TakeJob, Looking
  <2>2. Cardinality(Looking') = Cardinality(Looking) - 1
    BY <1>0, <2>1, FS_RemoveElement
  <2>3. Len(queue') = Len(queue) - 1
    BY <1>0, <1>2, HeadTailProperties DEF TakeJob
  <2> QED
    BY <1>0, <2>1, <2>2, <2>3 DEF NoLostWakeup
<1>3. ASSUME NEW w \in Workers, CVWait(w) \/ Exit(w) PROVE NoLostWakeup'
  <2>1. Len(queue') = 0
    BY <1>3 DEF CVWait, Exit
  <2>2. Looking' \in SUBSET Workers
    BY DEF Looking
  <2> QED
    BY <2>1, <2>2, WorkersFinite DEF NoLostWakeup
<1>4. ASSUME NEW w \in Workers, Relock(w) \/ SpuriousWake(w) PROVE NoLostWakeup'
  <2>1. Looking' = Looking \cup {w} /\ (Sleeping' => Sleeping) /\ UNCHANGED queue
    BY <1>0, <1>4 DEF Relock, SpuriousWake, Looking
  <2> QED
    BY <2>1, <1>b
<1>5. ASSUME NEW w \in Workers, WorkerLock(w) \/ FinishJob(w) \/ RunInline(w)
      PROVE  NoLostWakeup'
  <2>1. Looking' = Looking /\ (Sleeping' => Sleeping) /\ UNCHANGED queue
    BY <1>0, <1>5 DEF WorkerLock, FinishJob, RunInline, Looking, Body
  <2> QED
    BY <2>1, <1>a
<1>6. ASSUME NEW t \in Callers, AddLock(t) \/ FutureReady(t) PROVE NoLostWakeup'
  <2>1. Looking' = Looking /\ (Sleeping' => Sleeping) /\ UNCHANGED queue
    BY <1>0, <1>6 DEF AddLock, FutureReady, Looking, Body
  <2> QED
    BY <2>1, <1>a
<1>7. ASSUME NEW t \in Callers, Enqueue(t) PROVE NoLostWakeup'
  <2>1. pc[t] = "add" /\ arg[t] \in Jobs /\ queue' = Append(queue, arg[t])
    BY <1>7 DEF Enqueue, TypeInv, ArgType, CallPC
  <2>2. Len(queue') = Len(queue) + 1
    BY <1>0, <2>1, AppendProperties
  <2>3. CASE /\ \A w \in Workers : pc[w] # "wait"
             /\ pc' = [pc EXCEPT ![t] = Body(t)]
    BY <1>0, <2>3 DEF NoLostWakeup, Body
  <2>4. ASSUME NEW w \in Workers \ {t}, pc[w] = "wait",
               pc' = [pc EXCEPT ![t] = Body(t), ![w] = "lock"]
        PROVE  NoLostWakeup'
    <3>1. Looking' = Looking \cup {w} /\ w \notin Looking /\ Sleeping
      BY <1>0, <2>1, <2>4 DEF Looking, Body
    <3>2. Cardinality(Looking') = Cardinality(Looking) + 1
      BY <1>0, <3>1, FS_AddElement
    <3> QED
      BY <1>0, <2>2, <3>1, <3>2 DEF NoLostWakeup
  <2> QED
    BY <1>0, <1>7, <2>3, <2>4, EnqueueWakes
<1>8. ASSUME NEW t \in Callers, NEW j \in Jobs, CallAddJob(t, j) \/ Await(t, j)
      PROVE  NoLostWakeup'
  <2>1. Looking' = Looking /\ (Sleeping' => Sleeping) /\ UNCHANGED queue
    BY <1>0, <1>8 DEF CallAddJob, Await, Looking, Body
  <2> QED
    BY <2>1, <1>a
<1>9. CASE Terminated \/ UNCHANGED vars
  BY <1>9, <1>a DEF Terminated, vars, Looking
<1> QED
  BY <1>1, <1>2, <1>3, <1>4, <1>5, <1>6, <1>7, <1>8, <1>9
     DEF Next, WorkerStep, CallerStep

\* No wakeup is lost (queue_cv.signal in AddJob against queue_cv.wait in
\* worker), whatever active_workers was before it was first written.
THEOREM WakeupsKept == Spec => []NoLostWakeup
<1>1. Init => NoLostWakeup
  BY DEF Init, NoLostWakeup, Callers
<1> QED
  BY <1>1, WakeupStep, TypeAlways, PTL DEF Spec

-----------------------------------------------------------------------------
(* The life of a job                                                        *)

OnStack == {"running", "inline"}
Adding(t) == pc[t] \in {"addlock", "add"}

\* A job whose body has begun and not ended is on exactly one call stack, once.
FramesActive ==
  \A w \in Workers : \A i \in 1 .. Len(stack[w]) : status[stack[w][i]] \in OnStack
FramesOnce ==
  \A w, v \in Workers : \A i \in 1 .. Len(stack[w]), k \in 1 .. Len(stack[v]) :
     stack[w][i] = stack[v][k] => w = v /\ i = k
FramesFound ==
  \A j \in Jobs : status[j] \in OnStack =>
     \E w \in Workers : \E i \in 1 .. Len(stack[w]) : stack[w][i] = j
FramesInv == FramesActive /\ FramesOnce /\ FramesFound

\* What a thread adds or waits for: a child of its innermost job for a worker,
\* a job without parent for a client.
ArgCalling == \A t \in Callers : Adding(t) => status[arg[t]] = "calling"
ArgOnce == \A t, u \in Callers : Adding(t) /\ Adding(u) /\ arg[t] = arg[u] => t = u
ArgFound ==
  \A j \in Jobs : status[j] = "calling" => \E t \in Callers : Adding(t) /\ arg[t] = j
ArgOwn == \A t \in Callers : pc[t] \in CallPC => arg[t] \in Own(t)
ArgWaits ==
  \A t \in Callers : pc[t] = "await" => status[arg[t]] \in {"queued", "running", "done"}
ArgInv == ArgCalling /\ ArgOnce /\ ArgFound /\ ArgOwn /\ ArgWaits

\* The queue holds the queued jobs, each once.
QueueInv ==
  /\ \A i \in 1 .. Len(queue) : status[queue[i]] = "queued"
  /\ \A i, k \in 1 .. Len(queue) : queue[i] = queue[k] => i = k
  /\ \A j \in Jobs : status[j] = "queued" => \E i \in 1 .. Len(queue) : queue[i] = j

\* Nobody has added a job before the body of its parent began.
TreeInv == \A j, c \in Jobs :
  Parent[c] = j /\ status[c] # "new" => status[j] \in OnStack \cup {"done"}

JobInv == FramesInv /\ ArgInv /\ QueueInv /\ TreeInv

LEMMA JobInit == Init => JobInv
<1> SUFFICES ASSUME Init PROVE JobInv
  OBVIOUS
<1>1. \A j \in Jobs : status[j] = "new"
  BY DEF Init
<1>2. \A t \in Callers : pc[t] \in {"unborn", "idle"}
  BY DEF Init
<1>3. /\ \A w \in Workers : stack[w] = <<>>
      /\ queue = <<>>
  BY DEF Init
<1>4. FramesInv
  BY <1>1, <1>3 DEF FramesInv, FramesActive, FramesOnce, FramesFound, OnStack
<1>5. ArgInv
  BY <1>1, <1>2 DEF ArgInv, ArgCalling, ArgOnce, ArgFound, ArgOwn, ArgWaits, Adding, CallPC
<1>6. QueueInv
  BY <1>1, <1>3 DEF QueueInv
<1>7. TreeInv
  BY <1>1 DEF TreeInv
<1> QED
  BY <1>4, <1>5, <1>6, <1>7 DEF JobInv

\* The body of a worker's innermost job is on its stack.
LEMMA TopOnStack ==
  ASSUME TypeInv, NEW w \in Workers, pc[w] \in BodyPC
  PROVE  /\ stack[w] \in Seq(Jobs) /\ stack[w] # <<>>
         /\ Len(stack[w]) \in Nat \ {0}
         /\ Len(stack[w]) \in 1 .. Len(stack[w])
         /\ Top(w) = stack[w][Len(stack[w])] /\ Top(w) \in Jobs
<1>1. stack[w] \in Seq(Jobs) /\ stack[w] # <<>>
  BY DEF TypeInv, TypeOK, StackType
<1>2. Len(stack[w]) \in Nat \ {0}
  BY <1>1, EmptySeq
<1>3. Len(stack[w]) \in 1 .. Len(stack[w])
  BY <1>2
<1> QED
  BY <1>1, <1>2, <1>3, ElementOfSeq DEF Top

LEMMA FramesStep == TypeInv /\ JobInv /\ [Next]_vars => FramesInv'
<1> SUFFICES ASSUME TypeInv, JobInv, [Next]_vars PROVE FramesInv'
  OBVIOUS
<1>0. /\ FramesInv /\ status \in [Jobs -> Status] /\ stack \in [Workers -> Seq(Jobs)]
      /\ Workers \subseteq Callers
  BY DEF TypeInv, TypeOK, JobInv, Callers
<1>a. ASSUME UNCHANGED stack,
             \A j \in Jobs : status'[j] \in OnStack <=> status[j] \in OnStack
      PROVE  FramesInv'
  <2>1. \A w \in Workers : \A i \in 1 .. Len(stack[w]) : stack[w][i] \in Jobs
    BY <1>0, ElementOfSeq
  <2> QED
    BY <1>0, <1>a, <2>1 DEF FramesInv, FramesActive, FramesOnce, FramesFound
<1>1. CASE OwnerStep \/ BeginDestroy \/ Terminated \/ UNCHANGED vars
  BY <1>1, <1>a DEF OwnerStep, BeginDestroy, StartWorker, ConstructorReturns,
     OwnerLock, Stop, Join, Destroy, Terminated, jobvars, vars
<1>2. ASSUME NEW w \in Workers,
             WorkerLock(w) \/ CVWait(w) \/ Exit(w) \/ SpuriousWake(w) \/ Relock(w)
      PROVE  FramesInv'
  BY <1>2, <1>a DEF WorkerLock, CVWait, Exit, SpuriousWake, Relock, jobvars
<1>3. ASSUME NEW t \in Callers, AddLock(t) \/ FutureReady(t) PROVE FramesInv'
  BY <1>3, <1>a DEF AddLock, FutureReady, jobvars
<1>4. ASSUME NEW t \in Callers, NEW j \in Jobs, CallAddJob(t, j) \/ Await(t, j)
      PROVE  FramesInv'
  BY <1>0, <1>4, <1>a DEF CallAddJob, Await, jobvars, OnStack, Status
<1>5. ASSUME NEW t \in Callers, Enqueue(t) PROVE FramesInv'
  <2>1. status[arg[t]] = "calling" /\ arg[t] \in Jobs
    BY <1>5 DEF Enqueue, JobInv, ArgInv, ArgCalling, Adding, TypeInv, ArgType, CallPC
  <2> QED
    BY <1>0, <1>5, <2>1, <1>a DEF Enqueue, OnStack
<1>6. ASSUME NEW w \in Workers, TakeJob(w) PROVE FramesInv'
  <2> DEFINE h == Head(queue)
  <2>1. stack[w] = <<>> /\ queue # <<>> /\ queue \in Seq(Jobs)
    BY <1>6 DEF TakeJob, TypeInv, TypeOK, StackType, BodyPC, CallPC
  <2>2. h \in Jobs /\ h = queue[1] /\ 1 \in 1 .. Len(queue)
    BY <2>1, HeadTailProperties, EmptySeq
  <2>3. status[h] = "queued"
    BY <2>2 DEF JobInv, QueueInv
  <2>4. /\ stack' = [stack EXCEPT ![w] = <<h>>]
        /\ status' = [status EXCEPT ![h] = "running"]
    BY <1>6 DEF TakeJob
  <2>5. Len(<<h>>) = 1 /\ <<h>>[1] = h
    OBVIOUS
  <2> HIDE DEF h
  <2>6. \A v \in Workers : \A i \in 1 .. Len(stack[v]) :
           stack[v][i] \in Jobs /\ stack[v][i] # h
    BY <1>0, <2>3, ElementOfSeq DEF FramesInv, FramesActive, FramesOnce, OnStack
  <2>7. stack'[w] = <<h>> /\ \A v \in Workers \ {w} : stack'[v] = stack[v]
    BY <1>0, <2>4
  <2>8. status'[h] = "running" /\ \A j \in Jobs \ {h} : status'[j] = status[j]
    BY <1>0, <2>4, <2>2
  <2>9. \A v \in Workers : \A i \in 1 .. Len(stack'[v]) :
           \/ v = w /\ i = 1 /\ stack'[v][i] = h
           \/ /\ v # w /\ i \in 1 .. Len(stack[v])
              /\ stack'[v][i] = stack[v][i]
    <3>1. Len(stack'[w]) = 1 /\ stack'[w][1] = h
      BY <2>5, <2>7
    <3>2. \A i \in 1 .. 1 : i = 1
      OBVIOUS
    <3> QED
      BY <2>7, <3>1, <3>2
  <2>a. FramesActive'
    BY <1>0, <2>6, <2>8, <2>9 DEF FramesInv, FramesActive, OnStack
  <2>b. FramesOnce'
    <3> SUFFICES ASSUME NEW v \in Workers, NEW u \in Workers,
                        NEW i \in 1 .. Len(stack'[v]), NEW k \in 1 .. Len(stack'[u]),
                        stack'[v][i] = stack'[u][k]
                 PROVE  v = u /\ i = k
      BY DEF FramesOnce
    <3>1. CASE v = w
      BY <2>6, <2>9, <3>1
    <3>2. CASE v # w
      <4>1. u # w
        BY <2>6, <2>9, <3>2
      <4>2. /\ i \in 1 .. Len(stack[v]) /\ stack'[v][i] = stack[v][i]
            /\ k \in 1 .. Len(stack[u]) /\ stack'[u][k] = stack[u][k]
        BY <2>9, <3>2, <4>1
      <4>3. FramesOnce /\ stack[v][i] = stack[u][k]
        BY <1>0, <4>2 DEF FramesInv
      <4> QED
        BY <4>2, <4>3 DEF FramesOnce
    <3> QED
      BY <3>1, <3>2
  <2>c. FramesFound'
    <3> SUFFICES ASSUME NEW j \in Jobs, status'[j] \in OnStack
                 PROVE  \E v \in Workers : \E i \in 1 .. Len(stack'[v]) : stack'[v][i] = j
      BY DEF FramesFound
    <3>1. CASE j = h
      <4>1. 1 \in 1 .. Len(stack'[w]) /\ stack'[w][1] = j
        BY <2>5, <2>7, <3>1
      <4> QED
        BY <4>1
    <3>2. CASE j # h
      <4>1. PICK v \in Workers : \E i \in 1 .. Len(stack[v]) : stack[v][i] = j
        BY <1>0, <2>8, <3>2 DEF FramesInv, FramesFound
      <4>2. v # w
        BY <2>1, <4>1
      <4> QED
        BY <2>7, <4>1, <4>2
    <3> QED
      BY <3>1, <3>2
  <2> QED
    BY <2>a, <2>b, <2>c DEF FramesInv
<1>7. ASSUME NEW w \in Workers, FinishJob(w) PROVE FramesInv'
  <2> DEFINE s == stack[w]
             r == SubSeq(s, 1, Len(s) - 1)
             n == Len(s)
  <2>1. /\ s \in Seq(Jobs) /\ s # <<>> /\ n \in Nat \ {0} /\ n \in 1 .. n
        /\ Top(w) = s[n] /\ Top(w) \in Jobs
    BY <1>7, TopOnStack DEF FinishJob, BodyPC
  <2>2. Len(r) = n - 1 /\ \A i \in 1 .. n - 1 : r[i] = s[i]
    BY <2>1, PopFrame
  <2>3. stack'[w] = r /\ \A v \in Workers \ {w} : stack'[v] = stack[v]
    BY <1>0, <1>7 DEF FinishJob
  <2>4. status'[Top(w)] = "done" /\ \A j \in Jobs \ {Top(w)} : status'[j] = status[j]
    BY <1>0, <1>7, <2>1 DEF FinishJob
  <2>5. \A v \in Workers : \A i \in 1 .. Len(stack[v]) :
           stack[v][i] \in Jobs /\ (stack[v][i] = Top(w) => v = w /\ i = n)
    BY <1>0, <2>1, ElementOfSeq DEF FramesInv, FramesActive, FramesOnce
  <2> HIDE DEF r
  <2>6. \A v \in Workers : \A i \in 1 .. Len(stack'[v]) :
           /\ i \in 1 .. Len(stack[v]) /\ stack'[v][i] = stack[v][i]
           /\ stack[v][i] # Top(w)
    BY <2>1, <2>2, <2>3, <2>5
  <2>7. \A v \in Workers : \A i \in 1 .. Len(stack[v]) :
           stack[v][i] # Top(w) => i \in 1 .. Len(stack'[v])
    BY <2>1, <2>2, <2>3
  <2>a. FramesActive'
    BY <1>0, <2>4, <2>5, <2>6, <2>7 DEF FramesInv, FramesActive, OnStack
  <2>b. FramesOnce'
    BY <1>0, <2>4, <2>5, <2>6, <2>7 DEF FramesInv, FramesOnce
  <2>c. FramesFound'
    <3> SUFFICES ASSUME NEW j \in Jobs, status'[j] \in OnStack
                 PROVE  \E v \in Workers : \E i \in 1 .. Len(stack'[v]) : stack'[v][i] = j
      BY DEF FramesFound
    <3>1. j # Top(w) /\ status[j] \in OnStack
      BY <2>4 DEF OnStack
    <3>2. PICK v \in Workers : \E i \in 1 .. Len(stack[v]) : stack[v][i] = j
      BY <1>0, <3>1 DEF FramesInv, FramesFound
    <3>3. PICK i \in 1 .. Len(stack[v]) : stack[v][i] = j
      BY <3>2
    <3>4. i \in 1 .. Len(stack'[v]) /\ stack'[v][i] = j
      BY <2>6, <2>7, <3>1, <3>3
    <3> QED
      BY <3>4
  <2> QED
    BY <2>a, <2>b, <2>c DEF FramesInv
<1>8. ASSUME NEW w \in Workers, RunInline(w) PROVE FramesInv'
  <2> DEFINE j == arg[w]
             s == stack[w]
             r == Append(s, j)
  <2>1. status[j] = "calling" /\ j \in Jobs
    BY <1>0, <1>8 DEF RunInline, JobInv, ArgInv, ArgCalling, Adding, TypeInv, ArgType, CallPC
  <2>2. s \in Seq(Jobs) /\ Len(s) \in Nat
    BY <1>0, LenProperties
  <2>3. Len(r) = Len(s) + 1 /\ r[Len(s) + 1] = j /\ \A i \in 1 .. Len(s) : r[i] = s[i]
    BY <2>1, <2>2, AppendProperties
  <2>4. stack'[w] = r /\ \A v \in Workers \ {w} : stack'[v] = stack[v]
    BY <1>0, <1>8 DEF RunInline
  <2>5. status'[j] = "inline" /\ \A k \in Jobs \ {j} : status'[k] = status[k]
    BY <1>0, <1>8, <2>1 DEF RunInline
  <2>6. \A v \in Workers : \A i \in 1 .. Len(stack[v]) :
           stack[v][i] \in Jobs /\ stack[v][i] # j
    BY <1>0, <2>1, ElementOfSeq DEF FramesInv, FramesActive, FramesOnce, OnStack
  <2> HIDE DEF r
  <2>7. \A v \in Workers : \A i \in 1 .. Len(stack'[v]) :
           \/ i \in 1 .. Len(stack[v]) /\ stack'[v][i] = stack[v][i]
           \/ v = w /\ i = Len(s) + 1 /\ stack'[v][i] = j
    BY <2>2, <2>3, <2>4
  <2>8. \A v \in Workers : \A i \in 1 .. Len(stack[v]) :
           i \in 1 .. Len(stack'[v]) /\ stack'[v][i] = stack[v][i]
    BY <2>2, <2>3, <2>4
  <2>9. Len(s) + 1 \in 1 .. Len(stack'[w]) /\ stack'[w][Len(s) + 1] = j
    BY <2>2, <2>3, <2>4
  <2> HIDE DEF s, j
  <2>a. FramesActive'
    <3> SUFFICES ASSUME NEW v \in Workers, NEW i \in 1 .. Len(stack'[v])
                 PROVE  status'[stack'[v][i]] \in OnStack
      BY DEF FramesActive
    <3>1. CASE i \in 1 .. Len(stack[v]) /\ stack'[v][i] = stack[v][i]
      BY <1>0, <2>5, <2>6, <3>1 DEF FramesInv, FramesActive
    <3> QED
      BY <2>5, <2>7, <3>1 DEF OnStack
  <2>b. FramesOnce'
    <3> SUFFICES ASSUME NEW v \in Workers, NEW u \in Workers,
                        NEW i \in 1 .. Len(stack'[v]), NEW k \in 1 .. Len(stack'[u]),
                        stack'[v][i] = stack'[u][k]
                 PROVE  v = u /\ i = k
      BY DEF FramesOnce
    <3>1. CASE i \in 1 .. Len(stack[v]) /\ stack'[v][i] = stack[v][i]
      <4>1. k \in 1 .. Len(stack[u]) /\ stack'[u][k] = stack[u][k]
        BY <2>6, <2>7, <3>1
      <4>2. FramesOnce /\ stack[v][i] = stack[u][k]
        BY <1>0, <3>1, <4>1 DEF FramesInv
      <4> QED
        BY <3>1, <4>1, <4>2 DEF FramesOnce
    <3>2. CASE v = w /\ i = Len(s) + 1 /\ stack'[v][i] = j
      BY <2>6, <2>7, <3>2
    <3> QED
      BY <2>7, <3>1, <3>2
  <2>c. FramesFound'
    <3> SUFFICES ASSUME NEW k \in Jobs, status'[k] \in OnStack
                 PROVE  \E v \in Workers : \E i \in 1 .. Len(stack'[v]) : stack'[v][i] = k
      BY DEF FramesFound
    <3>1. CASE k = j
      BY <2>9, <3>1
    <3>2. CASE k # j
      <4>1. PICK v \in Workers : \E i \in 1 .. Len(stack[v]) : stack[v][i] = k
        BY <1>0, <2>5, <3>2 DEF FramesInv, FramesFound
      <4>2. PICK i \in 1 .. Len(stack[v]) : stack[v][i] = k
        BY <4>1
      <4>3. i \in 1 .. Len(stack'[v]) /\ stack'[v][i] = k
        BY <2>8, <4>2
      <4> QED
        BY <4>3
    <3> QED
      BY <3>1, <3>2
  <2> QED
    BY <2>a, <2>b, <2>c DEF FramesInv
<1> QED
  BY <1>1, <1>2, <1>3, <1>4, <1>5, <1>6, <1>7, <1>8 DEF Next, WorkerStep, CallerStep

LEMMA ArgStep == TypeInv /\ JobInv /\ [Next]_vars => ArgInv'
<1> SUFFICES ASSUME TypeInv, JobInv, [Next]_vars PROVE ArgInv'
  OBVIOUS
<1>0. /\ ArgCalling /\ ArgOnce /\ ArgFound /\ ArgOwn /\ ArgWaits
      /\ status \in [Jobs -> Status] /\ stack \in [Workers -> Seq(Jobs)]
      /\ pc \in [Callers -> PCs] /\ arg \in [Callers -> Jobs \cup {NoJob}]
      /\ Workers \subseteq Callers
      /\ \A t \in Callers : pc[t] \in CallPC => arg[t] \in Jobs
  BY DEF TypeInv, TypeOK, ArgType, JobInv, ArgInv, Callers, PCs
<1> USE DEF Adding, CallPC
\* Steps that leave every call where it is, apart from the state of its job.
<1>a. ASSUME UNCHANGED arg,
             \A t \in Callers : Adding(t)' <=> Adding(t),
             \A t \in Callers : pc'[t] = "await" <=> pc[t] = "await",
             \A t \in Workers : pc[t] \in CallPC => stack'[t] = stack[t],
             \A j \in Jobs : status'[j] = "calling" <=> status[j] = "calling",
             \A j \in Jobs : status[j] \in {"queued", "running", "done"}
                             => status'[j] \in {"queued", "running", "done"}
      PROVE  ArgInv'
  <2>1. ArgCalling' /\ ArgOnce' /\ ArgFound' /\ ArgWaits'
    BY <1>0, <1>a DEF ArgCalling, ArgOnce, ArgFound, ArgWaits
  <2>2. ArgOwn'
    <3> SUFFICES ASSUME NEW t \in Callers, pc'[t] \in CallPC PROVE arg'[t] \in Own(t)'
      BY DEF ArgOwn
    <3>1. pc[t] \in CallPC /\ arg[t] \in Own(t)
      BY <1>0, <1>a DEF ArgOwn
    <3>2. t \in Workers => Top(t)' = Top(t)
      BY <1>a, <3>1 DEF Top
    <3> QED
      BY <1>a, <3>1, <3>2 DEF Own
  <2> QED
    BY <2>1, <2>2 DEF ArgInv
\* Steps by which t returns from its call, or enters the job it was adding.
<1>b. ASSUME NEW t \in Callers,
             arg' = [arg EXCEPT ![t] = NoJob], pc'[t] \notin CallPC,
             \A u \in Callers \ {t} : Adding(u)' <=> Adding(u),
             \A u \in Callers \ {t} : pc'[u] = "await" <=> pc[u] = "await",
             \A u \in Workers \ {t} : stack'[u] = stack[u],
             \A j \in Jobs : \/ status'[j] = status[j]
                             \/ /\ Adding(t) /\ j = arg[t]
                                /\ status'[j] \in {"queued", "inline"},
             Adding(t) => status'[arg[t]] # "calling"
      PROVE  ArgInv'
  <2>0. arg'[t] = NoJob /\ \A u \in Callers \ {t} : arg'[u] = arg[u]
    BY <1>0, <1>b
  <2>1. ArgCalling'
    BY <1>0, <1>b, <2>0 DEF ArgCalling, ArgOnce
  <2>2. ArgOnce'
    BY <1>0, <1>b, <2>0 DEF ArgOnce
  <2>3. ArgFound'
    BY <1>0, <1>b, <2>0 DEF ArgFound
  <2>4. ArgWaits'
    BY <1>0, <1>b, <2>0 DEF ArgWaits, ArgCalling
  <2>5. ArgOwn'
    <3> SUFFICES ASSUME NEW u \in Callers, pc'[u] \in CallPC PROVE arg'[u] \in Own(u)'
      BY DEF ArgOwn
    <3>1. u # t /\ pc[u] \in CallPC /\ arg[u] \in Own(u)
      BY <1>0, <1>b DEF ArgOwn
    <3>2. u \in Workers => Top(u)' = Top(u)
      BY <1>b, <3>1 DEF Top
    <3> QED
      BY <2>0, <3>1, <3>2 DEF Own
  <2> QED
    BY <2>1, <2>2, <2>3, <2>4, <2>5 DEF ArgInv
<1>1. CASE OwnerStep \/ BeginDestroy \/ Terminated \/ UNCHANGED vars
  <2>1. UNCHANGED <<arg, stack, status>>
    BY <1>1 DEF OwnerStep, BeginDestroy, StartWorker, ConstructorReturns,
       OwnerLock, Stop, Join, Destroy, Terminated, jobvars, vars
  <2>2. CASE StartWorker
    <3>1. index \in Workers /\ pc[index] = "unborn" /\ pc' = [pc EXCEPT ![index] = "lock"]
      BY <2>2 DEF StartWorker, TypeInv, TypeOK, CtorInv, Workers
    <3> QED
      BY <1>0, <1>a, <2>1, <3>1
  <2>3. CASE Stop
    BY <1>0, <1>a, <2>1, <2>3 DEF Stop
  <2>4. CASE UNCHANGED pc
    BY <1>a, <2>1, <2>4
  <2> QED
    BY <1>1, <2>2, <2>3, <2>4 DEF OwnerStep, BeginDestroy, ConstructorReturns,
       OwnerLock, Join, Destroy, Terminated, vars
<1>2. ASSUME NEW w \in Workers,
             WorkerLock(w) \/ CVWait(w) \/ Exit(w) \/ SpuriousWake(w) \/ Relock(w)
      PROVE  ArgInv'
  BY <1>0, <1>2, <1>a DEF WorkerLock, CVWait, Exit, SpuriousWake, Relock, jobvars
<1>3. ASSUME NEW t \in Callers, AddLock(t) PROVE ArgInv'
  BY <1>0, <1>3, <1>a DEF AddLock, jobvars
<1>4. ASSUME NEW w \in Workers, TakeJob(w) PROVE ArgInv'
  <2> DEFINE h == Head(queue)
  <2>1. h \in Jobs /\ h = queue[1] /\ 1 \in 1 .. Len(queue)
    BY <1>4, HeadTailProperties, EmptySeq DEF TakeJob, TypeInv, TypeOK
  <2>2. status[h] = "queued"
    BY <2>1 DEF JobInv, QueueInv
  <2>3. /\ status' = [status EXCEPT ![h] = "running"] /\ UNCHANGED arg
        /\ pc[w] = "loop" /\ pc' = [pc EXCEPT ![w] = "job"]
        /\ \A v \in Workers \ {w} : stack'[v] = stack[v]
    BY <1>0, <1>4 DEF TakeJob
  <2> HIDE DEF h
  <2> QED
    BY <1>0, <1>a, <2>1, <2>2, <2>3
<1>5. ASSUME NEW w \in Workers, FinishJob(w) PROVE ArgInv'
  <2>1. /\ status' = [status EXCEPT ![Top(w)] = "done"] /\ UNCHANGED arg
        /\ pc[w] = "job" /\ pc'[w] \in {"relock", "job"}
        /\ \A t \in Callers \ {w} : pc'[t] = pc[t]
        /\ \A v \in Workers \ {w} : stack'[v] = stack[v]
    BY <1>0, <1>5 DEF FinishJob
  <2>2. Top(w) \in Jobs /\ status[Top(w)] \in OnStack
    BY <2>1, TopOnStack DEF BodyPC, JobInv, FramesInv, FramesActive
  <2> QED
    BY <1>0, <1>a, <2>1, <2>2 DEF OnStack
<1>6. ASSUME NEW t \in Callers, Enqueue(t) PROVE ArgInv'
  <2>1. /\ pc[t] = "add" /\ arg' = [arg EXCEPT ![t] = NoJob] /\ UNCHANGED stack
        /\ status' = [status EXCEPT ![arg[t]] = "queued"] /\ arg[t] \in Jobs
    BY <1>0, <1>6 DEF Enqueue
  <2>2. CASE pc' = [pc EXCEPT ![t] = Body(t)]
    BY <1>0, <1>b, <2>1, <2>2 DEF Body
  <2>3. ASSUME NEW w \in Workers \ {t}, pc[w] = "wait",
               pc' = [pc EXCEPT ![t] = Body(t), ![w] = "lock"]
        PROVE  ArgInv'
    <3>1. pc'[t] \in {"job", "idle"} /\ \A u \in Callers \ {t} : Adding(u)' <=> Adding(u)
      BY <1>0, <2>3 DEF Body
    <3>2. \A u \in Callers \ {t} : pc'[u] = "await" <=> pc[u] = "await"
      BY <1>0, <2>3
    <3> QED
      BY <1>0, <1>b, <2>1, <3>1, <3>2
  <2> QED
    BY <1>0, <1>6, <2>2, <2>3, EnqueueWakes
<1>7. ASSUME NEW w \in Workers, RunInline(w) PROVE ArgInv'
  <2>1. /\ pc[w] = "add" /\ arg' = [arg EXCEPT ![w] = NoJob]
        /\ status' = [status EXCEPT ![arg[w]] = "inline"] /\ arg[w] \in Jobs
        /\ \A v \in Workers \ {w} : stack'[v] = stack[v]
        /\ pc' = [pc EXCEPT ![w] = "job"]
    BY <1>0, <1>7 DEF RunInline, Body
  <2> QED
    BY <1>0, <1>b, <2>1
<1>8. ASSUME NEW t \in Callers, FutureReady(t) PROVE ArgInv'
  <2>1. /\ pc[t] = "await" /\ arg' = [arg EXCEPT ![t] = NoJob] /\ UNCHANGED jobvars
        /\ pc' = [pc EXCEPT ![t] = Body(t)]
    BY <1>8 DEF FutureReady
  <2> QED
    BY <1>0, <1>b, <2>1 DEF jobvars, Body
<1>9. ASSUME NEW t \in Callers, NEW j \in Jobs, CallAddJob(t, j) PROVE ArgInv'
  <2>1. /\ pc[t] \in {"job", "idle"} /\ status[j] = "new" /\ j \in Own(t)
        /\ status' = [status EXCEPT ![j] = "calling"] /\ arg' = [arg EXCEPT ![t] = j]
        /\ pc' = [pc EXCEPT ![t] = "addlock"] /\ UNCHANGED stack
    BY <1>9 DEF CallAddJob, Body
  <2>2. /\ arg'[t] = j /\ pc'[t] = "addlock" /\ status'[j] = "calling"
        /\ \A u \in Callers \ {t} : arg'[u] = arg[u] /\ pc'[u] = pc[u]
        /\ \A k \in Jobs \ {j} : status'[k] = status[k]
    BY <1>0, <2>1
  <2>3. ArgCalling' /\ ArgOnce'
    BY <1>0, <2>1, <2>2 DEF ArgCalling, ArgOnce
  <2>4. ArgFound'
    BY <1>0, <2>1, <2>2 DEF ArgFound
  <2>5. ArgWaits'
    BY <1>0, <2>1, <2>2 DEF ArgWaits
  <2>6. ArgOwn'
    BY <1>0, <2>1, <2>2 DEF ArgOwn, Own, Top
  <2> QED
    BY <2>3, <2>4, <2>5, <2>6 DEF ArgInv
<1>10. ASSUME NEW t \in Callers, NEW j \in Jobs, Await(t, j) PROVE ArgInv'
  <2>1. /\ pc[t] \in {"job", "idle"} /\ status[j] \in {"queued", "running"} /\ j \in Own(t)
        /\ arg' = [arg EXCEPT ![t] = j] /\ pc' = [pc EXCEPT ![t] = "await"]
        /\ UNCHANGED <<stack, status>>
    BY <1>10 DEF Await, Body, Pending, jobvars
  <2>2. /\ arg'[t] = j /\ pc'[t] = "await"
        /\ \A u \in Callers \ {t} : arg'[u] = arg[u] /\ pc'[u] = pc[u]
    BY <1>0, <2>1
  <2>3. ArgCalling' /\ ArgOnce'
    BY <1>0, <2>1, <2>2 DEF ArgCalling, ArgOnce
  <2>4. ArgFound'
    BY <1>0, <2>1, <2>2 DEF ArgFound
  <2>5. ArgWaits'
    BY <1>0, <2>1, <2>2 DEF ArgWaits
  <2>6. ArgOwn'
    BY <1>0, <2>1, <2>2 DEF ArgOwn, Own, Top
  <2> QED
    BY <2>3, <2>4, <2>5, <2>6 DEF ArgInv
<1> QED
  BY <1>1, <1>2, <1>3, <1>4, <1>5, <1>6, <1>7, <1>8, <1>9, <1>10 DEF Next, WorkerStep, CallerStep

LEMMA QueueStep == TypeInv /\ JobInv /\ [Next]_vars => QueueInv'
<1> SUFFICES ASSUME TypeInv, JobInv, [Next]_vars PROVE QueueInv'
  OBVIOUS
<1>0. /\ QueueInv /\ status \in [Jobs -> Status] /\ queue \in Seq(Jobs)
      /\ Len(queue) \in Nat /\ \A i \in 1 .. Len(queue) : queue[i] \in Jobs
      /\ \A t \in Callers : pc[t] = "add" => arg[t] \in Jobs /\ status[arg[t]] = "calling"
      /\ Workers \subseteq Callers
  BY LenProperties, ElementOfSeq
     DEF TypeInv, TypeOK, ArgType, CallPC, JobInv, ArgInv, ArgCalling, Adding, Callers
<1>a. ASSUME UNCHANGED queue, \A j \in Jobs : status'[j] = "queued" <=> status[j] = "queued"
      PROVE  QueueInv'
  BY <1>0, <1>a DEF QueueInv
<1>1. CASE OwnerStep \/ BeginDestroy \/ Terminated \/ UNCHANGED vars
  BY <1>1, <1>a DEF OwnerStep, BeginDestroy, StartWorker, ConstructorReturns,
     OwnerLock, Stop, Join, Destroy, Terminated, jobvars, vars
<1>2. ASSUME NEW w \in Workers,
             WorkerLock(w) \/ CVWait(w) \/ Exit(w) \/ SpuriousWake(w) \/ Relock(w)
      PROVE  QueueInv'
  BY <1>2, <1>a DEF WorkerLock, CVWait, Exit, SpuriousWake, Relock, jobvars
<1>3. ASSUME NEW t \in Callers, AddLock(t) \/ FutureReady(t) PROVE QueueInv'
  BY <1>3, <1>a DEF AddLock, FutureReady, jobvars
<1>4. ASSUME NEW t \in Callers, NEW j \in Jobs, CallAddJob(t, j) \/ Await(t, j)
      PROVE  QueueInv'
  BY <1>0, <1>4, <1>a DEF CallAddJob, Await, jobvars
<1>5. ASSUME NEW w \in Workers, FinishJob(w) PROVE QueueInv'
  <2>1. Top(w) \in Jobs /\ status[Top(w)] \in OnStack
    BY <1>5, TopOnStack DEF FinishJob, BodyPC, JobInv, FramesInv, FramesActive
  <2> QED
    BY <1>0, <1>5, <1>a, <2>1 DEF FinishJob, OnStack
<1>6. ASSUME NEW w \in Workers, RunInline(w) PROVE QueueInv'
  BY <1>0, <1>6, <1>a DEF RunInline
<1>7. ASSUME NEW w \in Workers, TakeJob(w) PROVE QueueInv'
  <2> DEFINE h == Head(queue)
             q == Tail(queue)
  <2>1. h \in Jobs /\ h = queue[1] /\ 1 \in 1 .. Len(queue)
    BY <1>0, <1>7, HeadTailProperties, EmptySeq DEF TakeJob
  <2>2. Len(q) = Len(queue) - 1 /\ \A i \in 1 .. Len(q) : q[i] = queue[i + 1]
    BY <1>0, <1>7, HeadTailProperties DEF TakeJob
  <2>3. queue' = q /\ status'[h] = "running" /\ \A j \in Jobs \ {h} : status'[j] = status[j]
    BY <1>0, <1>7, <2>1 DEF TakeJob
  <2> HIDE DEF h, q
  <2>4. \A i \in 1 .. Len(q) : i + 1 \in 1 .. Len(queue) /\ queue[i + 1] # h
    BY <1>0, <2>1, <2>2 DEF QueueInv
  <2>5. \A i \in 1 .. Len(queue) : i = 1 \/ (i - 1 \in 1 .. Len(q) /\ (i - 1) + 1 = i)
    BY <1>0, <2>2
  <2>6. \A i \in 1 .. Len(queue') : status'[queue'[i]] = "queued"
    BY <1>0, <2>2, <2>3, <2>4 DEF QueueInv
  <2>7. \A i, k \in 1 .. Len(queue') : queue'[i] = queue'[k] => i = k
    <3> SUFFICES ASSUME NEW i \in 1 .. Len(q), NEW k \in 1 .. Len(q), q[i] = q[k]
                 PROVE  i = k
      BY <2>3
    <3>1. i + 1 = k + 1
      BY <1>0, <2>2, <2>4 DEF QueueInv
    <3> QED
      BY <3>1, <1>0, <2>2
  <2>8. ASSUME NEW j \in Jobs, status'[j] = "queued"
        PROVE  \E i \in 1 .. Len(queue') : queue'[i] = j
    <3>1. PICK i \in 1 .. Len(queue) : queue[i] = j /\ j # h
      BY <1>0, <2>3, <2>8 DEF QueueInv
    <3>2. i - 1 \in 1 .. Len(q) /\ q[i - 1] = j
      BY <2>1, <2>2, <2>5, <3>1
    <3> QED
      BY <2>3, <3>2
  <2> QED
    BY <2>6, <2>7, <2>8 DEF QueueInv
<1>8. ASSUME NEW t \in Callers, Enqueue(t) PROVE QueueInv'
  <2> DEFINE j == arg[t]
             n == Len(queue) + 1
             q == Append(queue, j)
  <2>1. j \in Jobs /\ status[j] = "calling"
    BY <1>0, <1>8 DEF Enqueue
  <2>2. Len(q) = n /\ q[n] = j /\ \A i \in 1 .. Len(queue) : q[i] = queue[i]
    BY <1>0, <2>1, AppendProperties
  <2>3. queue' = q /\ status'[j] = "queued" /\ \A k \in Jobs \ {j} : status'[k] = status[k]
    BY <1>0, <1>8, <2>1 DEF Enqueue
  <2> HIDE DEF j, q
  <2>4. \A i \in 1 .. n : i \in 1 .. Len(queue) \/ i = n
    BY <1>0
  <2>5. n \in 1 .. n /\ \A i \in 1 .. Len(queue) : i \in 1 .. n
    BY <1>0
  <2>6. \A i \in 1 .. Len(queue) : queue[i] # j
    BY <1>0, <2>1 DEF QueueInv
  <2> HIDE DEF n
  <2>7. \A i \in 1 .. Len(queue') : status'[queue'[i]] = "queued"
    BY <1>0, <2>2, <2>3, <2>4, <2>6 DEF QueueInv
  <2>8. \A i, k \in 1 .. Len(queue') : queue'[i] = queue'[k] => i = k
    BY <1>0, <2>2, <2>3, <2>4, <2>6 DEF QueueInv
  <2>9. \A k \in Jobs : status'[k] = "queued" => \E i \in 1 .. Len(queue') : queue'[i] = k
    BY <1>0, <2>2, <2>3, <2>5 DEF QueueInv
  <2> QED
    BY <2>7, <2>8, <2>9 DEF QueueInv
<1> QED
  BY <1>1, <1>2, <1>3, <1>4, <1>5, <1>6, <1>7, <1>8 DEF Next, WorkerStep, CallerStep

LEMMA TreeStep == TypeInv /\ JobInv /\ [Next]_vars => TreeInv'
<1> SUFFICES ASSUME TypeInv, JobInv, [Next]_vars PROVE TreeInv'
  OBVIOUS
<1>0. /\ TreeInv /\ status \in [Jobs -> Status]
      /\ \A t \in Callers : pc[t] = "add" => arg[t] \in Jobs /\ status[arg[t]] = "calling"
      /\ Workers \subseteq Callers
  BY DEF TypeInv, TypeOK, ArgType, CallPC, JobInv, ArgInv, ArgCalling, Adding, Callers
<1>a. ASSUME \A j \in Jobs : status'[j] # "new" => status[j] # "new",
             \A j \in Jobs : status[j] \in OnStack \cup {"done"}
                             => status'[j] \in OnStack \cup {"done"}
      PROVE  TreeInv'
  BY <1>0, <1>a DEF TreeInv
<1>1. CASE UNCHANGED status
  BY <1>1, <1>a
<1>2. ASSUME NEW w \in Workers, TakeJob(w) PROVE TreeInv'
  <2>1. Head(queue) \in Jobs /\ Head(queue) = queue[1] /\ 1 \in 1 .. Len(queue)
    BY <1>2, HeadTailProperties, EmptySeq DEF TakeJob, TypeInv, TypeOK
  <2>2. status[Head(queue)] = "queued"
    BY <2>1 DEF JobInv, QueueInv
  <2> QED
    BY <1>0, <1>2, <1>a, <2>1, <2>2 DEF TakeJob, OnStack
<1>3. ASSUME NEW w \in Workers, FinishJob(w) PROVE TreeInv'
  <2>1. Top(w) \in Jobs /\ status[Top(w)] \in OnStack
    BY <1>3, TopOnStack DEF FinishJob, BodyPC, JobInv, FramesInv, FramesActive
  <2> QED
    BY <1>0, <1>3, <1>a, <2>1 DEF FinishJob, OnStack
<1>4. ASSUME NEW w \in Workers, RunInline(w) PROVE TreeInv'
  BY <1>0, <1>4, <1>a DEF RunInline, OnStack
<1>5. ASSUME NEW t \in Callers, Enqueue(t) PROVE TreeInv'
  BY <1>0, <1>5, <1>a DEF Enqueue, OnStack
<1>6. ASSUME NEW t \in Callers, NEW j \in Jobs, CallAddJob(t, j) PROVE TreeInv'
  <2>1. status[j] = "new" /\ status' = [status EXCEPT ![j] = "calling"] /\ j \in Own(t)
    BY <1>6 DEF CallAddJob
  <2>2. ASSUME Parent[j] \in Jobs PROVE status[Parent[j]] \in OnStack
    <3>1. t \in Workers /\ pc[t] = "job" /\ Parent[j] = Top(t)
      BY <1>6, <2>1, <2>2 DEF Own, CallAddJob, Body
    <3> QED
      BY <3>1, TopOnStack DEF BodyPC, JobInv, FramesInv, FramesActive
  <2> QED
    BY <1>0, <2>1, <2>2 DEF TreeInv, OnStack
<1>7. CASE \/ OwnerStep \/ BeginDestroy \/ Terminated \/ UNCHANGED vars
           \/ \E w \in Workers : \/ WorkerLock(w) \/ CVWait(w) \/ Exit(w)
                                 \/ SpuriousWake(w) \/ Relock(w)
           \/ \E t \in Callers : AddLock(t) \/ FutureReady(t)
           \/ \E t \in Callers, j \in Jobs : Await(t, j)
  BY <1>1, <1>7 DEF OwnerStep, BeginDestroy, StartWorker, ConstructorReturns, OwnerLock,
     Stop, Join, Destroy, Terminated, WorkerLock, CVWait, Exit, SpuriousWake, Relock,
     AddLock, FutureReady, Await, jobvars, vars
<1> QED
  BY <1>2, <1>3, <1>4, <1>5, <1>6, <1>7 DEF Next, WorkerStep, CallerStep

LEMMA JobAlways == Spec => []JobInv
<1>1. TypeInv /\ JobInv /\ [Next]_vars => JobInv'
  BY FramesStep, ArgStep, QueueStep, TreeStep DEF JobInv
<1> QED
  BY <1>1, JobInit, TypeAlways, PTL DEF Spec

-----------------------------------------------------------------------------
(* Nested jobs do not deadlock the pool                                     *)

LEMMA SaturatedCount ==
  ASSUME TypeInv, ActiveCount, Saturated
  PROVE  get_inactive = 0
<1>1. {w \in Workers : Active(w)} = Workers
  BY DEF Saturated
<1> DEFINE b == NumWorkers - 1
<1>2. b \in Int /\ ~ 0 > b /\ b - 0 + 1 = NumWorkers
  OBVIOUS
<1> HIDE DEF b
<1>3. Cardinality(0 .. b) = IF 0 > b THEN 0 ELSE b - 0 + 1
  BY <1>2, FS_Interval
<1>4. Cardinality(Workers) = NumWorkers
  BY <1>2, <1>3 DEF Workers, b
<1> QED
  BY <1>1, <1>4 DEF ActiveCount, get_inactive

LEMMA SaturationStep ==
  TypeInv /\ JobInv /\ ActiveCount /\ SaturationWitness /\ [Next]_vars => SaturationWitness'
<1> SUFFICES ASSUME TypeInv, JobInv, ActiveCount, SaturationWitness, [Next]_vars, Saturated'
             PROVE  \E w \in Workers : Remote(w)' = {}
  BY DEF SaturationWitness
<1>0. /\ pc \in [Callers -> PCs] /\ status \in [Jobs -> Status]
      /\ stack \in [Workers -> Seq(Jobs)] /\ Workers \subseteq Callers
      /\ \A w \in Workers : Active(w)' <=> pc'[w] \in BodyPC \cup {"relock"}
      /\ \A w \in Workers : Active(w) <=> pc[w] \in BodyPC \cup {"relock"}
      /\ \A w \in Workers : Active(w)'
      /\ \A w \in Workers : \A i \in 1 .. Len(stack[w]) : stack[w][i] \in Jobs
      /\ \A w \in Workers : Frames(w) = {stack[w][i] : i \in 1 .. Len(stack[w])}
  BY LenProperties, ElementOfSeq
     DEF TypeInv, TypeOK, Callers, PCs, Active, Saturated, Frames
<1> USE DEF BodyPC, CallPC
\* What keeps a witness: no new frame with pending children, no new pending job.
<1>a. ASSUME Saturated,
             \A w \in Workers : Frames(w)' \subseteq Frames(w),
             \A j \in Jobs : Pending(j)' => Pending(j)
      PROVE  \E w \in Workers : Remote(w)' = {}
  <2>1. PICK w \in Workers : Remote(w) = {}
    BY <1>a DEF SaturationWitness
  <2>2. Remote(w)' \subseteq Remote(w)
    BY <1>a DEF Remote
  <2> QED
    BY <2>1, <2>2
<1>1. ASSUME NEW w \in Workers, TakeJob(w) PROVE \E v \in Workers : Remote(v)' = {}
  <2> DEFINE h == Head(queue)
  <2>1. h \in Jobs /\ status[h] = "queued"
    <3>1. h \in Jobs /\ h = queue[1] /\ 1 \in 1 .. Len(queue)
      BY <1>1, HeadTailProperties, EmptySeq DEF TakeJob, TypeInv, TypeOK
    <3> QED
      BY <3>1 DEF JobInv, QueueInv
  <2>2. stack'[w] = <<h>> /\ \A j \in Jobs \ {h} : status'[j] = status[j]
    BY <1>0, <1>1 DEF TakeJob
  <2>3. Frames(w)' = {h}
    <3>1. DOMAIN <<h>> = {1} /\ <<h>>[1] = h
      OBVIOUS
    <3> QED
      BY <2>2, <3>1 DEF Frames
  <2> HIDE DEF h
  <2>4. \A c \in Jobs : Parent[c] = h => c # h /\ status[c] = "new"
    BY <2>1 DEF JobInv, TreeInv, OnStack
  <2>5. \A c \in Jobs : Parent[c] = h => ~ Pending(c)'
    BY <2>2, <2>4 DEF Pending
  <2> QED
    BY <2>3, <2>5 DEF Remote
<1>2. ASSUME NEW w \in Workers, FinishJob(w) PROVE \E v \in Workers : Remote(v)' = {}
  <2>1. /\ stack[w] \in Seq(Jobs) /\ stack[w] # <<>> /\ Len(stack[w]) \in Nat \ {0}
        /\ Top(w) \in Jobs
    BY <1>2, TopOnStack DEF FinishJob
  <2>2. /\ stack'[w] = SubSeq(stack[w], 1, Len(stack[w]) - 1)
        /\ \A v \in Workers \ {w} : stack'[v] = stack[v]
        /\ status' = [status EXCEPT ![Top(w)] = "done"]
        /\ pc[w] = "job" /\ \A v \in Workers \ {w} : pc'[v] = pc[v]
    BY <1>0, <1>2 DEF FinishJob
  <2>3. Saturated
    BY <1>0, <2>2 DEF Saturated
  <2>4. /\ stack'[w] \in Seq(Jobs) /\ Len(stack'[w]) = Len(stack[w]) - 1
        /\ \A i \in 1 .. Len(stack[w]) - 1 : stack'[w][i] = stack[w][i]
    BY <2>1, <2>2, PopFrame
  <2>5. Frames(w)' = {stack'[w][i] : i \in 1 .. Len(stack'[w])}
    BY <2>4, LenProperties DEF Frames
  <2>6. Frames(w)' \subseteq Frames(w)
    BY SMTT(40), <1>0, <2>1, <2>4, <2>5
  <2>7. \A v \in Workers \ {w} : Frames(v)' = Frames(v)
    BY <2>2 DEF Frames
  <2>8. \A j \in Jobs : Pending(j)' => Pending(j)
    BY <1>0, <2>2 DEF Pending
  <2> QED
    BY <1>a, <2>3, <2>6, <2>7, <2>8
<1>3. ASSUME NEW w \in Workers, RunInline(w) PROVE \E v \in Workers : Remote(v)' = {}
  <2> DEFINE j == arg[w]
  <2>1. j \in Jobs /\ status[j] = "calling"
    BY <1>0, <1>3 DEF RunInline, TypeInv, ArgType, JobInv, ArgInv, ArgCalling, Adding
  <2>2. /\ stack'[w] = Append(stack[w], j)
        /\ \A v \in Workers \ {w} : stack'[v] = stack[v]
        /\ status' = [status EXCEPT ![j] = "inline"]
        /\ pc[w] = "add" /\ \A v \in Workers \ {w} : pc'[v] = pc[v]
    BY <1>0, <1>3 DEF RunInline
  <2> HIDE DEF j
  <2>3. Saturated
    BY <1>0, <2>2 DEF Saturated
  <2>4. PICK v \in Workers : Remote(v) = {}
    BY <2>3 DEF SaturationWitness
  <2>5. \A c \in Jobs : Parent[c] = j => ~ Pending(c)
    BY <2>1 DEF JobInv, TreeInv, OnStack, Pending
  <2>6. \A c \in Jobs : Pending(c)' => Pending(c)
    BY <1>0, <2>1, <2>2 DEF Pending
  <2>7. Frames(w)' \subseteq Frames(w) \cup {j}
    <3>1. stack[w] \in Seq(Jobs) /\ Len(stack[w]) \in Nat
      BY <1>0, LenProperties
    <3>2. /\ stack'[w] \in Seq(Jobs) /\ Len(stack'[w]) = Len(stack[w]) + 1
          /\ \A i \in 1 .. Len(stack[w]) : stack'[w][i] = stack[w][i]
          /\ stack'[w][Len(stack[w]) + 1] = j
      BY <2>1, <2>2, <3>1, AppendProperties
    <3>3. Frames(w)' = {stack'[w][i] : i \in 1 .. Len(stack'[w])}
      BY <3>2, LenProperties DEF Frames
    <3> QED
      BY <1>0, <3>1, <3>2, <3>3
  <2>8. \A u \in Workers \ {w} : Frames(u)' = Frames(u)
    BY <2>2 DEF Frames
  <2>9. Remote(v)' = {}
    BY <2>4, <2>5, <2>6, <2>7, <2>8 DEF Remote
  <2> QED
    BY <2>9
<1>4. ASSUME NEW t \in Callers, Enqueue(t) PROVE \E w \in Workers : Remote(w)' = {}
  <2>1. /\ pc[t] = "add" /\ status' = [status EXCEPT ![arg[t]] = "queued"] /\ UNCHANGED stack
        /\ Async(t)
    BY <1>4 DEF Enqueue
  <2>2. arg[t] \in Jobs /\ arg[t] \in Own(t)
    BY <1>0, <2>1 DEF TypeInv, ArgType, JobInv, ArgInv, ArgOwn
  <2>3. Saturated
    <3>1. CASE pc' = [pc EXCEPT ![t] = Body(t)]
      BY <1>0, <2>1, <3>1 DEF Saturated
    <3>2. ASSUME NEW w \in Workers \ {t}, pc' = [pc EXCEPT ![t] = Body(t), ![w] = "lock"]
          PROVE  FALSE
      BY <1>0, <3>2
    <3> QED
      BY <1>0, <1>4, <3>1, <3>2, EnqueueWakes
  <2>4. t \notin Workers
    BY <2>1, <2>3, SaturatedCount DEF Async
  <2>5. Parent[arg[t]] \notin Jobs
    BY <2>2, <2>4 DEF Own
  <2>6. PICK w \in Workers : Remote(w) = {}
    BY <2>3 DEF SaturationWitness
  <2>7. Frames(w)' = Frames(w) /\ Frames(w) \subseteq Jobs
    BY <1>0, <2>1 DEF Frames
  <2>8. \A c \in Jobs \ {arg[t]} : Pending(c)' <=> Pending(c)
    BY <1>0, <2>1 DEF Pending
  <2>9. Remote(w)' = {}
    BY <2>5, <2>6, <2>7, <2>8 DEF Remote
  <2> QED
    BY <2>9
<1>5. ASSUME NEW t \in Callers, NEW j \in Jobs, CallAddJob(t, j)
      PROVE  \E w \in Workers : Remote(w)' = {}
  <2>1. Saturated
    BY <1>0, <1>5 DEF CallAddJob, Saturated, Body
  <2>2. \A w \in Workers : Frames(w)' = Frames(w)
    BY <1>5 DEF CallAddJob, Frames
  <2>3. \A k \in Jobs : Pending(k)' => Pending(k)
    BY <1>0, <1>5 DEF CallAddJob, Pending
  <2> QED
    BY <1>a, <2>1, <2>2, <2>3
<1>6. ASSUME UNCHANGED jobvars, Saturated PROVE \E w \in Workers : Remote(w)' = {}
  BY <1>6, <1>a DEF jobvars, Frames, Pending
<1>7. CASE OwnerStep \/ BeginDestroy \/ Terminated \/ UNCHANGED vars
  <2>1. UNCHANGED jobvars
    BY <1>7 DEF OwnerStep, BeginDestroy, StartWorker, ConstructorReturns, OwnerLock,
       Stop, Join, Destroy, Terminated, jobvars, vars
  <2>2. CASE StartWorker
    <3>1. index \in Workers /\ pc' = [pc EXCEPT ![index] = "lock"]
      BY <2>2 DEF StartWorker, Workers, TypeInv, TypeOK
    <3> QED
      BY <1>0, <3>1
  <2>3. CASE Stop
    BY <1>0, <1>6, <2>1, <2>3 DEF Stop, Saturated
  <2>4. CASE UNCHANGED pc
    BY <1>0, <1>6, <2>1, <2>4 DEF Saturated
  <2> QED
    BY <1>7, <2>2, <2>3, <2>4 DEF OwnerStep, BeginDestroy, ConstructorReturns,
       OwnerLock, Join, Destroy, Terminated, vars
<1>8. ASSUME NEW w \in Workers,
             WorkerLock(w) \/ CVWait(w) \/ Exit(w) \/ SpuriousWake(w) \/ Relock(w)
      PROVE  \E v \in Workers : Remote(v)' = {}
  <2>1. pc'[w] \in {"loop", "wait", "exit", "lock"}
    BY <1>0, <1>8 DEF WorkerLock, CVWait, Exit, SpuriousWake, Relock
  <2> QED
    BY <1>0, <2>1
<1>9. ASSUME NEW t \in Callers, AddLock(t) \/ FutureReady(t)
      PROVE  \E w \in Workers : Remote(w)' = {}
  <2>1. UNCHANGED jobvars /\ Saturated
    BY <1>0, <1>9 DEF AddLock, FutureReady, Saturated, Body
  <2> QED
    BY <1>6, <2>1
<1>10. ASSUME NEW t \in Callers, NEW j \in Jobs, Await(t, j)
      PROVE  \E w \in Workers : Remote(w)' = {}
  <2>1. UNCHANGED jobvars /\ Saturated
    BY <1>0, <1>10 DEF Await, Saturated, Body
  <2> QED
    BY <1>6, <2>1
<1> QED
  BY <1>1, <1>2, <1>3, <1>4, <1>5, <1>7, <1>8, <1>9, <1>10 DEF Next, WorkerStep, CallerStep

\* Whenever all workers are busy, one of them waits for no other thread: the
\* guarantee the inline branch of AddJob (threadpool.h 68-76) is there for.  It
\* needs a counter that started at zero.
THEOREM SaturationSafe ==
  ASSUME ActiveInit = {0}
  PROVE  Spec => []SaturationWitness
<1>1. Init => SaturationWitness
  <2> SUFFICES ASSUME Init PROVE ~ Saturated
    BY DEF SaturationWitness
  <2>1. 0 \in Workers /\ pc[0] = "unborn"
    BY DEF Init, Workers, Callers
  <2> QED
    BY <2>1 DEF Saturated, Active, BodyPC, CallPC
<1> QED
  BY <1>1, SaturationStep, TypeAlways, JobAlways, ActiveCorrect, PTL DEF Spec

\* The workers are never all blocked on futures of jobs of the same pool.
THEOREM NoForkJoinDeadlock ==
  ASSUME ActiveInit = {0}
  PROVE  Spec => []NotAllBlocked
<1>1. TypeInv /\ JobInv /\ SaturationWitness => NotAllBlocked
  <2> SUFFICES ASSUME TypeInv, JobInv, SaturationWitness, \A w \in Workers : Blocked(w)
               PROVE  FALSE
    BY DEF NotAllBlocked
  <2>1. \A w \in Workers : pc[w] = "await" /\ status[arg[w]] # "done"
    BY DEF Blocked
  <2>2. PICK w \in Workers : Remote(w) = {}
    BY <2>1 DEF SaturationWitness, Saturated, Active, BodyPC, CallPC
  <2>3. arg[w] \in Jobs /\ Parent[arg[w]] = Top(w) /\ Pending(arg[w])
    BY <2>1 DEF TypeInv, ArgType, CallPC, JobInv, ArgInv, ArgOwn, ArgWaits, Own, Callers,
       Pending
  <2>4. Top(w) \in Frames(w)
    <3>1. stack[w] \in Seq(Jobs) /\ Len(stack[w]) \in 1 .. Len(stack[w])
      BY <2>1, TopOnStack DEF BodyPC, CallPC
    <3>2. DOMAIN stack[w] = 1 .. Len(stack[w])
      BY <3>1, LenProperties
    <3> QED
      BY <3>1, <3>2 DEF Top, Frames
  <2> QED
    BY <2>2, <2>3, <2>4 DEF Remote
<1> QED
  BY <1>1, SaturationSafe, TypeAlways, JobAlways, PTL

\* AddJob called by a worker runs the job at once whenever no worker is free.
THEOREM SaturatedAddIsInline ==
  ASSUME ActiveInit = {0}
  PROVE  Spec => SaturatedRunsInline
<1>1. TypeInv /\ ActiveCount /\ [Next]_vars =>
        [\A w \in Workers :
           Saturated /\ pc[w] = "add" /\ pc'[w] # "add" => status'[arg[w]] = "inline"]_vars
  <2> SUFFICES ASSUME TypeInv, ActiveCount, [Next]_vars, NEW w \in Workers,
                      Saturated, pc[w] = "add", pc'[w] # "add"
               PROVE  status'[arg[w]] = "inline"
    OBVIOUS
  <2>0. /\ pc \in [Callers -> PCs] /\ w \in Callers /\ Workers \subseteq Callers
        /\ status \in [Jobs -> Status] /\ arg[w] \in Jobs
        /\ index \in 0 .. NumWorkers /\ CtorInv
    BY DEF TypeInv, TypeOK, PCs, Callers, ArgType, CallPC
  <2>1. ~ Async(w)
    BY SaturatedCount DEF Async
  <2>2. ASSUME NEW v \in Workers, WorkerStep(v) \/ SpuriousWake(v) PROVE FALSE
    BY <2>0, <2>2 DEF WorkerStep, WorkerLock, TakeJob, CVWait, Exit, FinishJob, Relock,
       SpuriousWake
  <2>3. ASSUME NEW v \in Workers, RunInline(v) PROVE status'[arg[w]] = "inline"
    BY <2>0, <2>3 DEF RunInline
  <2>4. ASSUME NEW t \in Callers, CallerStep(t) PROVE FALSE
    <3>1. CASE AddLock(t) \/ FutureReady(t)
      BY <2>0, <3>1 DEF AddLock, FutureReady
    <3>2. CASE Enqueue(t)
      <4>1. t # w
        BY <2>1, <3>2 DEF Enqueue
      <4>2. CASE pc' = [pc EXCEPT ![t] = Body(t)]
        BY <2>0, <4>1, <4>2
      <4>3. ASSUME NEW v \in Workers \ {t}, pc[v] = "wait",
                   pc' = [pc EXCEPT ![t] = Body(t), ![v] = "lock"]
            PROVE  FALSE
        BY <2>0, <4>1, <4>3
      <4> QED
        BY <2>0, <3>2, <4>2, <4>3, EnqueueWakes
    <3> QED
      BY <2>4, <3>1, <3>2 DEF CallerStep
  <2>5. ASSUME NEW t \in Callers, NEW j \in Jobs, CallAddJob(t, j) \/ Await(t, j)
        PROVE  FALSE
    BY <2>0, <2>5 DEF CallAddJob, Await, Body
  <2>6. CASE StartWorker
    BY <2>0, <2>6 DEF StartWorker, CtorInv, Workers
  <2>7. CASE Stop
    BY <2>0, <2>7 DEF Stop
  <2>8. CASE UNCHANGED pc
    BY <2>8
  <2> QED
    BY <2>2, <2>3, <2>4, <2>5, <2>6, <2>7, <2>8 DEF Next, OwnerStep, BeginDestroy,
       ConstructorReturns, OwnerLock, Join, Destroy, Terminated, vars
<1> QED
  BY <1>1, TypeAlways, ActiveCorrect, PTL DEF Spec, SaturatedRunsInline

-----------------------------------------------------------------------------
(* The destructor and the abstract service                                  *)

\* A worker leaves only an empty queue behind, or a worker that will look again.
QuietInv == queue # <<>> => \E w \in Workers : pc[w] # "exit"

LEMMA QuietStep == TypeInv /\ LifeInv /\ QuietInv /\ [Next]_vars => QuietInv'
<1> SUFFICES ASSUME TypeInv, LifeInv, QuietInv, [Next]_vars PROVE QuietInv'
  OBVIOUS
<1>0. /\ pc \in [Callers -> PCs] /\ Workers \subseteq Callers
      /\ 0 \in Workers /\ \A w \in Workers : w \notin Clients
  <2>1. 0 \in Workers
    BY NumWorkersAssumption DEF Workers
  <2>2. \A w \in Workers : w \notin Clients
    BY ThreadsAssumption
  <2>3. pc \in [Callers -> PCs] /\ Workers \subseteq Callers
    BY DEF TypeInv, TypeOK, PCs, Callers
  <2> QED
    BY <2>1, <2>2, <2>3
<1>1. CASE OwnerStep \/ BeginDestroy \/ Terminated \/ UNCHANGED vars
  <2>1. UNCHANGED queue
    BY <1>1 DEF OwnerStep, BeginDestroy, StartWorker, ConstructorReturns, OwnerLock,
       Stop, Join, Destroy, Terminated, vars
  <2>2. CASE StartWorker
    BY <1>0, <2>1, <2>2 DEF StartWorker, QuietInv
  <2>3. CASE Stop
    BY <1>0, <2>1, <2>3 DEF Stop, QuietInv
  <2>4. CASE UNCHANGED pc
    BY <2>1, <2>4 DEF QuietInv
  <2> QED
    BY <1>1, <2>2, <2>3, <2>4 DEF OwnerStep, BeginDestroy, ConstructorReturns,
       OwnerLock, Join, Destroy, Terminated, vars
<1>2. ASSUME NEW w \in Workers,
             \/ WorkerLock(w) \/ TakeJob(w) \/ CVWait(w) \/ FinishJob(w)
             \/ SpuriousWake(w) \/ Relock(w) \/ RunInline(w)
      PROVE  QuietInv'
  <2>1. pc'[w] # "exit"
    BY <1>0, <1>2 DEF WorkerLock, TakeJob, CVWait, FinishJob, SpuriousWake, Relock,
       RunInline, Body
  <2> QED
    BY <2>1 DEF QuietInv
<1>3. ASSUME NEW w \in Workers, Exit(w) PROVE QuietInv'
  BY <1>3 DEF Exit, QuietInv
<1>4. ASSUME NEW t \in Callers, AddLock(t) \/ FutureReady(t) PROVE QuietInv'
  BY <1>0, <1>4 DEF AddLock, FutureReady, QuietInv, Body
<1>5. ASSUME NEW t \in Callers, Enqueue(t) PROVE QuietInv'
  <2>1. pc[t] = "add"
    BY <1>5 DEF Enqueue
  <2>2. PICK w \in Workers : w = t \/ pc[w] # "exit"
    <3>1. CASE t \in Workers
      BY <3>1
    <3>2. CASE t \in Clients
      BY <1>0, <2>1, <3>2 DEF LifeInv
    <3> QED
      BY <3>1, <3>2 DEF Callers
  <2>3. pc'[w] # "exit"
    <3>1. CASE pc' = [pc EXCEPT ![t] = Body(t)]
      BY <1>0, <2>2, <3>1 DEF Body
    <3>2. ASSUME NEW v \in Workers \ {t}, pc' = [pc EXCEPT ![t] = Body(t), ![v] = "lock"]
          PROVE  pc'[w] # "exit"
      BY <1>0, <2>2, <3>2 DEF Body
    <3> QED
      BY <1>0, <1>5, <3>1, <3>2, EnqueueWakes
  <2> QED
    BY <2>3 DEF QuietInv
<1>6. ASSUME NEW t \in Callers, NEW j \in Jobs, CallAddJob(t, j) \/ Await(t, j)
      PROVE  QuietInv'
  BY <1>0, <1>6 DEF CallAddJob, Await, QuietInv, Body
<1> QED
  BY <1>1, <1>2, <1>3, <1>4, <1>5, <1>6 DEF Next, WorkerStep, CallerStep

LEMMA QuietAlways == Spec => []QuietInv
<1>1. Init => QuietInv
  BY DEF Init, QuietInv
<1> QED
  BY <1>1, QuietStep, TypeAlways, LifeAlways, PTL DEF Spec

LEMMA QuietIsDrained ==
  TypeInv /\ LifeInv /\ HolderInv /\ JobInv /\ QuietInv => DrainBeforeDestroy
<1> SUFFICES ASSUME TypeInv, LifeInv, HolderInv, JobInv, QuietInv, Quiet
             PROVE  /\ queue = <<>>
                    /\ \A j \in Jobs : status[j] \in {"new", "done"}
                    /\ holder \notin Callers
  BY DEF DrainBeforeDestroy
<1>1. \A w \in Workers : pc[w] = "exit"
  BY DEF Quiet
<1>2. queue = <<>> /\ Len(queue) = 0
  BY <1>1 DEF QuietInv
<1>3. 0 \in Workers
  BY DEF Workers
<1>4. \A c \in Clients : pc[c] \in {"idle", "await"}
  BY <1>1, <1>3 DEF LifeInv
<1>5. \A t \in Callers : pc[t] \in {"exit", "idle", "await"}
  BY <1>1, <1>4 DEF Callers
<1>6. holder \notin Callers
  BY <1>5 DEF HolderInv
<1>7. \A w \in Workers : stack[w] = <<>>
  BY <1>1 DEF TypeInv, StackType, BodyPC, CallPC
<1>8. ASSUME NEW j \in Jobs PROVE status[j] \in {"new", "done"}
  <2>1. status[j] \notin OnStack
    BY <1>7 DEF JobInv, FramesInv, FramesFound
  <2>2. status[j] # "calling"
    BY <1>5 DEF JobInv, ArgInv, ArgFound, Adding
  <2>3. status[j] # "queued"
    BY <1>2 DEF JobInv, QueueInv
  <2>4. status[j] \in Status
    BY DEF TypeInv, TypeOK
  <2> QED
    BY <2>1, <2>2, <2>3, <2>4 DEF OnStack, Status
<1> QED
  BY <1>2, <1>6, <1>8

\* When all workers have returned from worker(), so that ~Threadpool can get past
\* its joins, every job that was accepted has been run and queue_mtx is free.
THEOREM DestroyedDrained == Spec => []DrainBeforeDestroy
BY QuietIsDrained, TypeAlways, LifeAlways, JobAlways, QuietAlways, PTL

AllInv == TypeInv /\ LifeInv /\ HolderInv /\ JobInv /\ QuietInv

LEMMA ServiceInit == Init => Service!SInit
BY DEF Init, Service!SInit, Promise

LEMMA ServiceStep == AllInv /\ [Next]_vars => [Service!SNext]_(Service!svars)
<1> SUFFICES ASSUME AllInv, [Next]_vars PROVE Service!SNext \/ UNCHANGED Service!svars
  OBVIOUS
<1> DEFINE state == [j \in Jobs |-> Promise[status[j]]]
<1>0. /\ pc \in [Callers -> PCs] /\ status \in [Jobs -> Status] /\ Workers \subseteq Callers
      /\ \A j \in Jobs : state[j] = Promise[status[j]]
  BY DEF AllInv, TypeInv, TypeOK, PCs, Callers
<1>2. ASSUME NEW t \in Callers, NEW j \in Jobs, CallAddJob(t, j) PROVE UNCHANGED Service!svars
  <2>1. status[j] = "new" /\ status' = [status EXCEPT ![j] = "calling"]
        /\ UNCHANGED <<queue, owner>>
    BY <1>2 DEF CallAddJob, ownvars
  <2>2. state' = state
    BY <1>0, <2>1 DEF Promise
  <2> QED
    BY <2>1, <2>2 DEF Service!svars
<1>3. ASSUME NEW t \in Callers, Enqueue(t) PROVE \E j \in Jobs : Service!Accept(j)
  <2>1. /\ pc[t] = "add" /\ status' = [status EXCEPT ![arg[t]] = "queued"]
        /\ queue' = Append(queue, arg[t]) /\ UNCHANGED owner
    BY <1>3 DEF Enqueue, ownvars
  <2>2. arg[t] \in Jobs /\ status[arg[t]] = "calling"
    BY <2>1 DEF AllInv, TypeInv, ArgType, CallPC, JobInv, ArgInv, ArgCalling, Adding
  <2>3. owner # "destroyed"
    BY <2>1 DEF AllInv, LifeInv, Callers, Workers
  <2>4. state' = [state EXCEPT ![arg[t]] = "waiting"]
    BY <1>0, <2>1, <2>2 DEF Promise
  <2>5. state[arg[t]] = "new"
    BY <1>0, <2>2 DEF Promise
  <2>6. PICK j \in Jobs : j = arg[t]
    BY <2>2
  <2>7. Service!Accept(j)
    BY <2>1, <2>2, <2>3, <2>4, <2>5, <2>6 DEF Service!Accept
  <2> QED
    BY <2>7, Zenon
<1>4. ASSUME NEW w \in Workers, RunInline(w)
      PROVE  \E j \in Jobs : Service!AcceptInline(j)
  <2>1. /\ pc[w] = "add" /\ status' = [status EXCEPT ![arg[w]] = "inline"]
        /\ UNCHANGED <<queue, owner>>
    BY <1>4 DEF RunInline, ownvars
  <2>2. arg[w] \in Jobs /\ status[arg[w]] = "calling"
    BY <1>0, <2>1 DEF AllInv, TypeInv, ArgType, CallPC, JobInv, ArgInv, ArgCalling, Adding
  <2>3. owner # "destroyed"
    BY <2>1 DEF AllInv, LifeInv, Workers
  <2>4. state' = [state EXCEPT ![arg[w]] = "running"]
    BY <1>0, <2>1, <2>2 DEF Promise
  <2>5. state[arg[w]] = "new"
    BY <1>0, <2>2 DEF Promise
  <2>6. PICK j \in Jobs : j = arg[w]
    BY <2>2
  <2>7. Service!AcceptInline(j)
    BY <2>1, <2>2, <2>3, <2>4, <2>5, <2>6 DEF Service!AcceptInline
  <2> QED
    BY <2>7, Zenon
<1>5. ASSUME NEW w \in Workers, TakeJob(w) PROVE Service!Begin
  <2>1. /\ queue # <<>> /\ queue' = Tail(queue)
        /\ status' = [status EXCEPT ![Head(queue)] = "running"]
        /\ UNCHANGED owner
    BY <1>5 DEF TakeJob, ownvars
  <2>2. Head(queue) \in Jobs
    BY <2>1 DEF AllInv, TypeInv, TypeOK
  <2>3. state' = [state EXCEPT ![Head(queue)] = "running"]
    BY <1>0, <2>1, <2>2 DEF Promise
  <2> QED
    BY <2>1, <2>3 DEF Service!Begin
<1>6. ASSUME NEW w \in Workers, FinishJob(w) PROVE \E j \in Jobs : Service!End(j)
  <2>1. /\ pc[w] = "job" /\ status' = [status EXCEPT ![Top(w)] = "done"]
        /\ UNCHANGED <<queue, owner>>
    BY <1>6 DEF FinishJob, ownvars
  <2>2. Top(w) \in Jobs /\ status[Top(w)] \in OnStack
    <3>1. stack[w] \in Seq(Jobs) /\ Len(stack[w]) \in 1 .. Len(stack[w])
      BY <2>1, TopOnStack DEF AllInv, BodyPC
    <3>2. stack[w][Len(stack[w])] \in Jobs
      BY <3>1
    <3> QED
      BY <3>1, <3>2 DEF Top, AllInv, JobInv, FramesInv, FramesActive
  <2>3. state' = [state EXCEPT ![Top(w)] = "done"]
    BY <1>0, <2>1, <2>2 DEF Promise
  <2>4. state[Top(w)] = "running"
    BY <1>0, <2>2 DEF Promise, OnStack
  <2>6. PICK j \in Jobs : j = Top(w)
    BY <2>2
  <2>7. Service!End(j)
    BY <2>1, <2>2, <2>3, <2>4, <2>6 DEF Service!End
  <2> QED
    BY <2>7, Zenon
<1>7. ASSUME Destroy PROVE Service!Shut
  <2>1. /\ owner = "join" /\ index = NumWorkers /\ owner' = "destroyed"
        /\ UNCHANGED <<queue, status>>
    BY <1>7 DEF Destroy, jobvars
  <2>2. Quiet
    BY <2>1, NumWorkersAssumption DEF Quiet, AllInv, LifeInv, Workers
  <2>3. \A j \in Jobs : status[j] \in {"new", "done"}
    BY <2>2, QuietIsDrained DEF AllInv, DrainBeforeDestroy
  <2>4. \A j \in Jobs : state[j] \in {"new", "done"}
    BY <1>0, <2>3 DEF Promise
  <2>5. state' = state
    BY <2>1
  <2> QED
    BY <2>1, <2>4, <2>5 DEF Service!Shut
<1>8. CASE StartWorker \/ ConstructorReturns \/ OwnerLock \/ Stop \/ Join \/ BeginDestroy
  <2>1. UNCHANGED <<queue, status>> /\ owner # "destroyed" /\ owner' # "destroyed"
    BY <1>8 DEF StartWorker, ConstructorReturns, OwnerLock, Stop, Join, BeginDestroy,
       jobvars
  <2> QED
    BY <2>1 DEF Service!svars
<1>9. ASSUME NEW w \in Workers,
             WorkerLock(w) \/ CVWait(w) \/ SpuriousWake(w) \/ Exit(w) \/ Relock(w)
      PROVE  UNCHANGED Service!svars
  <2>1. UNCHANGED <<queue, status, owner>>
    BY <1>9 DEF WorkerLock, CVWait, SpuriousWake, Exit, Relock, jobvars, ownvars
  <2> QED
    BY <2>1 DEF Service!svars
<1>10. ASSUME NEW t \in Callers, AddLock(t) \/ FutureReady(t) PROVE UNCHANGED Service!svars
  <2>1. UNCHANGED <<queue, status, owner>>
    BY <1>10 DEF AddLock, FutureReady, jobvars, ownvars
  <2> QED
    BY <2>1 DEF Service!svars
<1>11. ASSUME NEW t \in Callers, NEW j \in Jobs, Await(t, j) PROVE UNCHANGED Service!svars
  <2>1. UNCHANGED <<queue, status, owner>>
    BY <1>11 DEF Await, jobvars, ownvars
  <2> QED
    BY <2>1 DEF Service!svars
<1>12. CASE Terminated \/ UNCHANGED vars
  <2>1. UNCHANGED <<queue, status, owner>>
    BY <1>12 DEF Terminated, vars
  <2> QED
    BY <2>1 DEF Service!svars
<1> HIDE DEF state
<1>13. CASE OwnerStep \/ BeginDestroy
  BY <1>7, <1>8, <1>13 DEF OwnerStep, Service!SNext
<1>14. ASSUME NEW w \in Workers, WorkerStep(w) \/ SpuriousWake(w) \/ RunInline(w)
       PROVE  Service!SNext \/ UNCHANGED Service!svars
  <2>1. CASE RunInline(w)
    BY <1>4, <2>1, Zenon DEF Service!SNext
  <2>2. CASE FinishJob(w)
    BY <1>6, <2>2, Zenon DEF Service!SNext
  <2>3. CASE TakeJob(w)
    BY <1>5, <2>3, Zenon DEF Service!SNext
  <2> QED
    BY <1>9, <1>14, <2>1, <2>2, <2>3, Zenon DEF WorkerStep
<1>15. ASSUME NEW t \in Callers, CallerStep(t)
       PROVE  Service!SNext \/ UNCHANGED Service!svars
  <2>1. CASE Enqueue(t)
    BY <1>3, <2>1, Zenon DEF Service!SNext
  <2> QED
    BY <1>10, <1>15, <2>1, Zenon DEF CallerStep
<1>16. ASSUME NEW t \in Callers, NEW j \in Jobs, CallAddJob(t, j) \/ Await(t, j)
       PROVE  UNCHANGED Service!svars
  BY <1>2, <1>11, <1>16
<1> QED
  BY <1>12, <1>13, <1>14, <1>15, <1>16 DEF Next

\* Threadpool implements JobService: every accepted job is run exactly once, the
\* queued ones start in the order they were accepted, and the pool is gone only
\* when nothing it accepted is left.
THEOREM PoolImplementsService == Spec => ImplementsJobService
<1>1. Spec => []AllInv
  BY TypeAlways, LifeAlways, JobAlways, QuietAlways, PTL DEF AllInv
<1> QED
  BY <1>1, ServiceInit, ServiceStep, PTL DEF Spec, ImplementsJobService, Service!SSpec
=============================================================================
