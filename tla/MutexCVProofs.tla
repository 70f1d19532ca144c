--------------------------- MODULE MutexCVProofs ----------------------------
(***************************************************************************)
(* Theorems about MutexCV.  All of them follow from one inductive           *)
(* invariant: pc tells who owns the pthread mutex, and locked is TRUE       *)
(* exactly while some thread is between setting and clearing it.            *)
(***************************************************************************)
EXTENDS MutexCV, TLAPS

\* Where a thread owns the pthread mutex.
Owning == {"claim", "mark", "in", "unlock", "clear", "release", "doze", "sleep", "back"}

OwnInv == \A t \in Threads : mutex = t <=> pc[t] \in Owning
FlagInv == locked <=> \E t \in Threads : pc[t] \in Inside
IInv == TypeOK /\ OwnInv /\ FlagInv /\ AssertionsHold

LEMMA IInit == Init => IInv
<1> SUFFICES ASSUME Init PROVE IInv
  OBVIOUS
<1>1. \A t \in Threads : pc[t] = "out"
  BY DEF Init
<1> QED
  BY <1>1, NoThreadAssumption DEF Init, IInv, TypeOK, PC, OwnInv, Owning, FlagInv,
     Inside, AssertionsHold

\* At most one thread owns the pthread mutex.
LEMMA OwnerUnique ==
  ASSUME OwnInv, NEW t \in Threads, NEW u \in Threads,
         pc[t] \in Owning, pc[u] \in Owning
  PROVE  t = u
BY DEF OwnInv

\* A step of one thread between two places of the same kind: the invariant only
\* looks at whether a thread owns the mutex and whether it is inside.
LEMMA StepKinds ==
  ASSUME IInv, NEW t \in Threads, NEW l \in PC \ {"failed"}, Goto(t, l), guard' \in [Threads -> BOOLEAN],
         mutex' = IF l \in Owning THEN t ELSE IF pc[t] \in Owning THEN NoThread ELSE mutex,
         l \in Owning => mutex \in {t, NoThread},
         locked' \in BOOLEAN,
         pc[t] \in Owning \/ l \in Owning => (locked' <=> l \in Inside),
         pc[t] \notin Owning /\ l \notin Owning => locked' = locked
  PROVE  IInv'
<1>1. /\ pc \in [Threads -> PC] /\ pc' \in [Threads -> PC]
      /\ pc'[t] = l /\ \A u \in Threads \ {t} : pc'[u] = pc[u]
  BY DEF IInv, TypeOK, Goto
<1>2. TypeOK'
  BY <1>1 DEF IInv, TypeOK
<1>3. OwnInv'
  <2> SUFFICES ASSUME NEW u \in Threads PROVE mutex' = u <=> pc'[u] \in Owning
    BY DEF OwnInv
  <2>1. CASE u = t
    BY <1>1, <2>1, NoThreadAssumption DEF IInv, OwnInv
  <2>2. CASE u # t
    BY <1>1, <2>2, NoThreadAssumption DEF IInv, OwnInv
  <2> QED
    BY <2>1, <2>2
<1>4. Inside \subseteq Owning
  BY DEF Inside, Owning
<1>5. FlagInv'
  <2>1. CASE pc[t] \in Owning \/ l \in Owning
    <3>1. \A u \in Threads \ {t} : pc[u] \notin Owning
      BY <2>1, NoThreadAssumption DEF IInv, OwnInv
    <3> QED
      BY <1>1, <1>4, <2>1, <3>1 DEF FlagInv
  <2>2. CASE pc[t] \notin Owning /\ l \notin Owning
    BY <1>1, <1>4, <2>2 DEF IInv, FlagInv
  <2> QED
    BY <2>1, <2>2
<1>6. AssertionsHold'
  BY <1>1 DEF IInv, AssertionsHold
<1> QED
  BY <1>2, <1>3, <1>5, <1>6 DEF IInv

\* What the assertions find: locked is FALSE for the owner at cassert (!locked),
\* TRUE at cassert (locked).
LEMMA FlagSeen ==
  ASSUME IInv, NEW t \in Threads
  PROVE  /\ pc[t] \in Owning => (locked <=> pc[t] \in Inside)
         /\ locked \in BOOLEAN
<1>1. Inside \subseteq Owning
  BY DEF Inside, Owning
<1> QED
  BY <1>1, OwnerUnique DEF IInv, FlagInv, TypeOK

LEMMA IStep == IInv /\ [Next]_vars => IInv'
<1> SUFFICES ASSUME IInv, [Next]_vars PROVE IInv'
  OBVIOUS
<1>0. /\ guard \in [Threads -> BOOLEAN] /\ pc \in [Threads -> PC]
      /\ \A t \in Threads : mutex = t <=> pc[t] \in Owning
  BY DEF IInv, TypeOK, OwnInv
<1>1. ASSUME NEW t \in Threads, Internal(t) PROVE IInv'
  <2>0. pc[t] \in Owning => (locked <=> pc[t] \in Inside)
    BY FlagSeen
  <2>1. CASE Claim(t)
    <3>1. Goto(t, "mark") /\ locked = FALSE
      BY <2>0, <2>1, FlagSeen DEF Claim, Owning, Inside
    <3> QED
      BY <1>0, <2>1, <3>1, StepKinds DEF Claim, Owning, Inside, PC
  <2>2. CASE Check(t)
    <3>1. Goto(t, "clear") /\ locked = TRUE
      BY <2>0, <2>2, FlagSeen DEF Check, Owning, Inside
    <3> QED
      BY <1>0, <2>2, <3>1, StepKinds DEF Check, Owning, Inside, PC
  <2>3. CASE Mark(t)
    BY <1>0, <2>3, StepKinds DEF Mark, Owning, Inside, PC
  <2>4. CASE Clear(t)
    BY <1>0, <2>4, StepKinds DEF Clear, Owning, Inside, PC
  <2>5. CASE Release(t)
    BY <1>0, <2>0, <2>5, FlagSeen, StepKinds DEF Release, Owning, Inside, PC
  <2>6. CASE Doze(t)
    BY <1>0, <2>6, StepKinds DEF Doze, Owning, Inside, PC
  <2>7. CASE Sleep(t)
    BY <1>0, <2>0, <2>7, FlagSeen, StepKinds DEF Sleep, Owning, Inside, PC
  <2>8. CASE Back(t)
    BY <1>0, <2>8, StepKinds DEF Back, Owning, Inside, PC
  <2> QED
    BY <1>1, <2>1, <2>2, <2>3, <2>4, <2>5, <2>6, <2>7, <2>8 DEF Internal
<1>2. ASSUME NEW t \in Threads, Lock(t) \/ Unlock(t) \/ Wait(t) \/ Rouse(t) PROVE IInv'
  <2>0. pc[t] \in Owning => (locked <=> pc[t] \in Inside)
    BY FlagSeen
  <2>1. CASE Lock(t)
    BY <1>0, <2>1, FlagSeen, StepKinds DEF Lock, Owning, Inside, PC
  <2>2. CASE Unlock(t)
    BY <1>0, <2>0, <2>2, FlagSeen, StepKinds DEF Unlock, Owning, Inside, PC
  <2>3. CASE Wait(t)
    BY <1>0, <2>0, <2>3, FlagSeen, StepKinds DEF Wait, Owning, Inside, PC
  <2>4. CASE Rouse(t)
    BY <1>0, <2>4, FlagSeen, StepKinds DEF Rouse, Owning, Inside, PC
  <2> QED
    BY <1>2, <2>1, <2>2, <2>3, <2>4
<1>3. ASSUME NEW t \in Threads, TryLock(t) \/ Acquire(t) \/ Reacquire(t) PROVE IInv'
  <2>1. mutex = NoThread
    BY <1>3 DEF TryLock, Acquire, Reacquire
  <2>2. locked = FALSE
    <3>1. \A u \in Threads : pc[u] \notin Inside
      BY <1>0, <2>1, NoThreadAssumption DEF Owning, Inside
    <3> QED
      BY <3>1, FlagSeen DEF IInv, FlagInv, TypeOK
  <2>3. CASE TryLock(t)
    BY <1>0, <2>2, <2>3, StepKinds DEF TryLock, Owning, Inside, PC
  <2>4. CASE Acquire(t)
    BY <1>0, <2>2, <2>4, StepKinds DEF Acquire, Owning, Inside, PC
  <2>5. CASE Reacquire(t)
    BY <1>0, <2>2, <2>5, StepKinds DEF Reacquire, Owning, Inside, PC
  <2> QED
    BY <1>3, <2>3, <2>4, <2>5
<1>4. ASSUME NEW t \in Threads, Signal(t) PROVE IInv'
  <2>1. PICK u \in Threads : pc[u] = "asleep" /\ Goto(u, "wake")
    BY <1>4 DEF Signal, Asleep
  <2> QED
    BY <1>0, <1>4, <2>1, FlagSeen, StepKinds DEF Signal, Owning, Inside, PC
<1>5. ASSUME NEW t \in Threads, Broadcast(t) PROVE IInv'
  <2>1. /\ pc' \in [Threads -> PC] /\ UNCHANGED <<mutex, locked, guard>>
        /\ \A u \in Threads : \/ pc'[u] = pc[u]
                              \/ pc[u] = "asleep" /\ pc'[u] = "wake"
    BY <1>0, <1>5 DEF Broadcast, PC
  <2>2. TypeOK'
    BY <2>1 DEF IInv, TypeOK
  <2>3. OwnInv' /\ FlagInv' /\ AssertionsHold'
    BY <2>1 DEF IInv, OwnInv, FlagInv, AssertionsHold, Owning, Inside
  <2> QED
    BY <2>2, <2>3 DEF IInv
<1>6. CASE UNCHANGED vars
  BY <1>6 DEF IInv, TypeOK, OwnInv, FlagInv, AssertionsHold, Inside, vars
<1> QED
  BY <1>1, <1>2, <1>3, <1>4, <1>5, <1>6 DEF Next

LEMMA IAlways == Spec => []IInv
BY IInit, IStep, PTL DEF Spec

-----------------------------------------------------------------------------

\* No assertion on the unsynchronised flag locked ever throws.
THEOREM FlagAssertions == Spec => []AssertionsHold
<1>1. IInv => AssertionsHold
  BY DEF IInv
<1> QED
  BY <1>1, IAlways, PTL

\* At most one thread is between lock() and unlock().
THEOREM Exclusion == Spec => []MutualExclusion
<1>1. IInv => MutualExclusion
  BY OwnerUnique DEF IInv, MutualExclusion, Owning, Inside
<1> QED
  BY <1>1, IAlways, PTL

\* ~Mutex never aborts once every thread has left.
THEOREM DestructorSafe == Spec => []IdleUnlocked
<1>1. IInv => IdleUnlocked
  BY DEF IInv, FlagInv, IdleUnlocked, Inside
<1> QED
  BY <1>1, IAlways, PTL

\* Whoever signals from inside finds every thread that went to sleep listening.
THEOREM SleepersListen == Spec => []Listening
<1>1. IInv => Listening
  <2> SUFFICES ASSUME IInv, NEW t \in Threads, NEW u \in Threads,
                      pc[t] = "in", pc[u] = "sleep"
               PROVE  FALSE
    BY DEF Listening
  <2> QED
    BY OwnerUnique DEF IInv, Owning
<1> QED
  BY <1>1, IAlways, PTL

-----------------------------------------------------------------------------
(* MutexCV implements Monitor                                                *)

Within == IF locked THEN mutex ELSE NoThread
Sleepers == {t \in Threads : pc[t] \in {"sleep", "asleep"}}

\* A thread is within exactly while pc says so.
LEMMA WithinIs ==
  ASSUME IInv, NEW t \in Threads
  PROVE  /\ pc[t] \in Inside => Within = t
         /\ pc[t] \in Owning \ Inside => Within = NoThread
         /\ mutex = NoThread => Within = NoThread
BY FlagSeen DEF IInv, OwnInv, Owning, Inside, Within

LEMMA ContractStep == IInv /\ [Next]_vars => [Contract!MNext]_(Contract!mvars)
<1> SUFFICES ASSUME IInv, [Next]_vars PROVE Contract!MNext \/ UNCHANGED <<Within, Sleepers>>
  BY DEF Contract!mvars, Within, Sleepers
<1>0. pc \in [Threads -> PC] /\ locked \in BOOLEAN
  BY DEF IInv, TypeOK
<1>1. ASSUME NEW t \in Threads, Mark(t) \/ Back(t) PROVE Contract!Enter(t)
  <2>1. pc[t] \in Owning \ Inside /\ pc[t] \in {"mark", "back"} /\ locked' = TRUE /\ mutex' = mutex
        /\ pc' = [pc EXCEPT ![t] = "in"]
    BY <1>1 DEF Mark, Back, Goto, Owning, Inside
  <2>2. Within = NoThread /\ Within' = t
    BY <2>1, WithinIs DEF Within, IInv, OwnInv
  <2>3. Sleepers' = Sleepers /\ t \notin Sleepers
    BY <1>0, <2>1 DEF Sleepers
  <2> QED
    BY <2>2, <2>3 DEF Contract!Enter, Within, Sleepers
<1>2. ASSUME NEW t \in Threads, Clear(t) PROVE Contract!Leave(t)
  <2>1. pc[t] = "clear" /\ locked' = FALSE /\ pc' = [pc EXCEPT ![t] = "release"]
    BY <1>2 DEF Clear, Goto
  <2>2. Within = t /\ Within' = NoThread
    BY <2>1, WithinIs DEF Within, Inside
  <2>3. Sleepers' = Sleepers
    BY <1>0, <2>1 DEF Sleepers
  <2> QED
    BY <2>2, <2>3 DEF Contract!Leave, Within, Sleepers
<1>3. ASSUME NEW t \in Threads, Doze(t) PROVE Contract!GoToSleep(t)
  <2>1. pc[t] = "doze" /\ locked' = FALSE /\ pc' = [pc EXCEPT ![t] = "sleep"]
    BY <1>3 DEF Doze, Goto
  <2>2. Within = t /\ Within' = NoThread
    BY <2>1, WithinIs DEF Within, Inside
  <2>3. Sleepers' = Sleepers \cup {t}
    BY <1>0, <2>1 DEF Sleepers
  <2> QED
    BY <2>2, <2>3 DEF Contract!GoToSleep, Within, Sleepers
<1>4. ASSUME NEW t \in Threads, pc[t] = "asleep", Goto(t, "wake"), UNCHANGED <<mutex, locked>>
      PROVE  Contract!WakeOne(t)
  <2>1. Sleepers' = Sleepers \ {t} /\ t \in Sleepers
    BY <1>0, <1>4 DEF Sleepers, Goto
  <2>2. Within' = Within
    BY <1>4 DEF Within
  <2> QED
    BY <2>1, <2>2 DEF Contract!WakeOne, Within, Sleepers
<1>5. ASSUME NEW t \in Threads, Broadcast(t) PROVE Contract!WakeAll(t)
  <2>1. /\ pc[t] = "in" /\ UNCHANGED <<mutex, locked>>
        /\ pc' = [u \in Threads |-> IF pc[u] = "asleep" THEN "wake" ELSE pc[u]]
    BY <1>5 DEF Broadcast
  <2>2. Within = t /\ Within' = Within
    BY <2>1, WithinIs DEF Within, Inside
  <2>3. Listening
    BY OwnerUnique DEF IInv, Owning, Listening
  <2>4. Sleepers' = {}
    BY <2>1, <2>3 DEF Sleepers, Listening
  <2> QED
    BY <2>2, <2>4 DEF Contract!WakeAll, Within, Sleepers
<1>6. ASSUME NEW t \in Threads, Lock(t) \/ Claim(t) \/ Unlock(t) \/ Check(t) \/ Wait(t)
      PROVE  UNCHANGED <<Within, Sleepers>>
  <2>1. UNCHANGED <<mutex, locked>>
    BY <1>6 DEF Lock, Claim, Unlock, Check, Wait
  <2>2. Sleepers' = Sleepers
    BY <1>0, <1>6 DEF Lock, Claim, Unlock, Check, Wait, Goto, Sleepers
  <2> QED
    BY <2>1, <2>2 DEF Within
<1>7. ASSUME NEW t \in Threads,
             TryLock(t) \/ Acquire(t) \/ Reacquire(t) \/ Release(t) \/ Sleep(t)
      PROVE  UNCHANGED <<Within, Sleepers>>
  <2>1. locked' = locked /\ ~locked
    <3>1. CASE TryLock(t) \/ Acquire(t) \/ Reacquire(t)
      <4>1. mutex = NoThread /\ locked' = locked
        BY <3>1 DEF TryLock, Acquire, Reacquire
      <4> QED
        BY <4>1, NoThreadAssumption DEF IInv, OwnInv, FlagInv, Owning, Inside
    <3>2. CASE Release(t) \/ Sleep(t)
      BY <3>2, FlagSeen DEF Release, Sleep, Owning, Inside
    <3> QED
      BY <1>7, <3>1, <3>2
  <2>2. Sleepers' = Sleepers
    BY <1>0, <1>7 DEF TryLock, Acquire, Reacquire, Release, Sleep, Goto, Sleepers
  <2> QED
    BY <2>1, <2>2 DEF Within
<1>8. CASE UNCHANGED vars
  BY <1>8 DEF vars, Within, Sleepers
<1>9. ASSUME NEW t \in Threads, Rouse(t) PROVE Contract!WakeOne(t)
  BY <1>4, <1>9 DEF Rouse
<1>10. ASSUME NEW t \in Threads, Signal(t) PROVE \E u \in Threads : Contract!WakeOne(u)
  <2>1. PICK u \in Threads : pc[u] = "asleep" /\ Goto(u, "wake")
    BY <1>10 DEF Signal, Asleep
  <2>2. Contract!WakeOne(u)
    BY <1>4, <1>10, <2>1 DEF Signal
  <2> QED
    BY <2>2, Zenon
<1>11. ASSUME NEW t \in Threads, Internal(t) PROVE Contract!MNext \/ UNCHANGED <<Within, Sleepers>>
  <2>1. CASE Mark(t) \/ Back(t)
    BY <1>1, <2>1, Zenon DEF Contract!MNext
  <2>2. CASE Clear(t)
    BY <1>2, <2>2, Zenon DEF Contract!MNext
  <2>3. CASE Doze(t)
    BY <1>3, <2>3, Zenon DEF Contract!MNext
  <2>4. CASE Claim(t) \/ Check(t)
    BY <1>6, <2>4, Zenon
  <2>5. CASE Release(t) \/ Sleep(t)
    BY <1>7, <2>5, Zenon
  <2> QED
    BY <1>11, <2>1, <2>2, <2>3, <2>4, <2>5, Zenon DEF Internal
<1>12. ASSUME NEW t \in Threads, Signal(t) PROVE Contract!MNext
  BY <1>10, <1>12, Zenon DEF Contract!MNext
<1>13. ASSUME NEW t \in Threads, Rouse(t) \/ Broadcast(t) PROVE Contract!MNext
  BY <1>5, <1>9, <1>13, Zenon DEF Contract!MNext
<1> QED
  BY <1>6, <1>7, <1>8, <1>11, <1>12, <1>13, Zenon DEF Next

\* Mutex and CV implement Monitor, the view Threadpool has of them.
THEOREM MutexImplementsMonitor == Spec => ImplementsMonitor
<1>1. Init => Contract!MInit
  BY DEF Init, Contract!MInit
<1> QED
  BY <1>1, IAlways, ContractStep, PTL DEF Spec, ImplementsMonitor, Contract!MSpec
=============================================================================
