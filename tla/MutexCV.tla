------------------------------ MODULE MutexCV -------------------------------
(***************************************************************************)
(* bwct::Mutex, Mutex::Guard and CV (thread.h, thread.cc) on top of a       *)
(* pthread mutex and condition variable.  Mutex keeps a plain bool locked   *)
(* beside the pthread mutex and asserts on it; CV::wait clears and sets it  *)
(* around pthread_cond_wait.  One action is one access to shared state.     *)
(*                                                                         *)
(* The threads use a Guard for the mutex and signal from inside, as         *)
(* Threadpool does (threadpool.h 61-80, threadpool.cc 18-52).  setdead is   *)
(* called nowhere: dead is FALSE and its assertions hold.                   *)
(***************************************************************************)
EXTENDS FiniteSets

CONSTANTS Threads, NoThread

ASSUME NoThreadAssumption == NoThread \notin Threads

VARIABLES
  mutex,    \* the thread that owns the pthread mutex
  locked,   \* Mutex::locked
  guard,    \* guard[t]: Guard::locked of t's Guard
  pc        \* pc[t]: where t is

vars == <<mutex, locked, guard, pc>>

PC == {"out",      \* not in a member function, Guard not locked
       "lock",     \* in pthread_mutex_lock
       "claim",    \* has the pthread mutex, at cassert (!locked)
       "mark",     \* at locked = true
       "in",       \* lock() has returned, or wait() has
       "unlock",   \* in unlock(), at cassert (locked)
       "clear",    \* at locked = false
       "release",  \* at pthread_mutex_unlock
       "doze",     \* in CV::wait, at mtx.locked = false
       "sleep",    \* at pthread_cond_wait or pthread_cond_timedwait
       "asleep",   \* blocked there
       "wake",     \* woken, wants the pthread mutex
       "back",     \* has it, at mtx.locked = true
       "failed"}   \* an assertion on locked threw

TypeOK ==
  /\ mutex \in Threads \cup {NoThread}
  /\ locked \in BOOLEAN
  /\ guard \in [Threads -> BOOLEAN]
  /\ pc \in [Threads -> PC]

Init ==
  /\ mutex = NoThread
  /\ locked = FALSE
  /\ guard = [t \in Threads |-> FALSE]
  /\ pc = [t \in Threads |-> "out"]

Goto(t, l) == pc' = [pc EXCEPT ![t] = l]

-----------------------------------------------------------------------------
(* Guard::lock, Guard::trylock, Mutex::lock, Mutex::trylock                 *)

\* Guard's constructor or Guard::lock: cassert (!locked) of the Guard.
Lock(t) ==
  /\ pc[t] = "out"
  /\ ~guard[t]
  /\ Goto(t, "lock")
  /\ UNCHANGED <<mutex, locked, guard>>

\* Mutant: a failing pthread_mutex_lock is taken for a success.
BlindAcquire(t) ==
  /\ pc[t] = "lock"
  /\ mutex' = t
  /\ Goto(t, "claim")
  /\ UNCHANGED <<locked, guard>>

\* pthread_mutex_lock returns.
Acquire(t) ==
  /\ pc[t] = "lock"
  /\ mutex = NoThread
  /\ mutex' = t
  /\ Goto(t, "claim")
  /\ UNCHANGED <<locked, guard>>

\* pthread_mutex_trylock succeeds; when it does not, nothing changes.
TryLock(t) ==
  /\ pc[t] = "out"
  /\ ~guard[t]
  /\ mutex = NoThread
  /\ mutex' = t
  /\ Goto(t, "claim")
  /\ UNCHANGED <<locked, guard>>

\* cassert (!locked)
Claim(t) ==
  /\ pc[t] = "claim"
  /\ Goto(t, IF locked THEN "failed" ELSE "mark")
  /\ UNCHANGED <<mutex, locked, guard>>

\* locked = true, and the Guard's own locked = true on return.
Mark(t) ==
  /\ pc[t] = "mark"
  /\ locked' = TRUE
  /\ guard' = [guard EXCEPT ![t] = TRUE]
  /\ Goto(t, "in")
  /\ UNCHANGED mutex

-----------------------------------------------------------------------------
(* Guard::unlock and ~Guard, Mutex::unlock                                  *)

Unlock(t) ==
  /\ pc[t] = "in"
  /\ guard[t]
  /\ Goto(t, "unlock")
  /\ UNCHANGED <<mutex, locked, guard>>

\* cassert (locked)
Check(t) ==
  /\ pc[t] = "unlock"
  /\ Goto(t, IF locked THEN "clear" ELSE "failed")
  /\ UNCHANGED <<mutex, locked, guard>>

\* Mutant: unlock forgets the flag.
ForgetfulClear(t) ==
  /\ pc[t] = "clear"
  /\ Goto(t, "release")
  /\ UNCHANGED <<mutex, locked, guard>>

\* locked = false, while the pthread mutex is still held.
Clear(t) ==
  /\ pc[t] = "clear"
  /\ locked' = FALSE
  /\ Goto(t, "release")
  /\ UNCHANGED <<mutex, guard>>

\* pthread_mutex_unlock, and the Guard's locked = false on return.
Release(t) ==
  /\ pc[t] = "release"
  /\ mutex' = NoThread
  /\ guard' = [guard EXCEPT ![t] = FALSE]
  /\ Goto(t, "out")
  /\ UNCHANGED locked

-----------------------------------------------------------------------------
(* CV::wait, with and without timeout, CV::signal, CV::broadcast            *)

Wait(t) ==
  /\ pc[t] = "in"
  /\ Goto(t, "doze")
  /\ UNCHANGED <<mutex, locked, guard>>

\* Mutant: wait forgets the flag.
ForgetfulDoze(t) ==
  /\ pc[t] = "doze"
  /\ Goto(t, "sleep")
  /\ UNCHANGED <<mutex, locked, guard>>

\* Mutant: wait calls mtx.unlock() and then waits.
EarlyDoze(t) ==
  /\ pc[t] = "doze"
  /\ locked' = FALSE
  /\ mutex' = NoThread
  /\ Goto(t, "sleep")
  /\ UNCHANGED guard

\* mtx.locked = false
Doze(t) ==
  /\ pc[t] = "doze"
  /\ locked' = FALSE
  /\ Goto(t, "sleep")
  /\ UNCHANGED <<mutex, guard>>

\* Mutant: the waiter keeps the pthread mutex.
GreedySleep(t) ==
  /\ pc[t] = "sleep"
  /\ Goto(t, "asleep")
  /\ UNCHANGED <<mutex, locked, guard>>

\* pthread_cond_wait blocks t and releases the pthread mutex atomically.
Sleep(t) ==
  /\ pc[t] = "sleep"
  /\ mutex' = NoThread
  /\ Goto(t, "asleep")
  /\ UNCHANGED <<locked, guard>>

\* The timeout expires, or the wait returns spuriously.
Rouse(t) ==
  /\ pc[t] = "asleep"
  /\ Goto(t, "wake")
  /\ UNCHANGED <<mutex, locked, guard>>

\* pthread_cond_wait returns with the pthread mutex locked.
Reacquire(t) ==
  /\ pc[t] = "wake"
  /\ mutex = NoThread
  /\ mutex' = t
  /\ Goto(t, "back")
  /\ UNCHANGED <<locked, guard>>

\* Mutant: wait does not set the flag again.
ForgetfulBack(t) ==
  /\ pc[t] = "back"
  /\ Goto(t, "in")
  /\ UNCHANGED <<mutex, locked, guard>>

\* mtx.locked = true
Back(t) ==
  /\ pc[t] = "back"
  /\ locked' = TRUE
  /\ Goto(t, "in")
  /\ UNCHANGED <<mutex, guard>>

Asleep == {t \in Threads : pc[t] = "asleep"}

\* pthread_cond_signal wakes a waiter if there is one.
Signal(t) ==
  /\ pc[t] = "in"
  /\ \E u \in Asleep : Goto(u, "wake")
  /\ UNCHANGED <<mutex, locked, guard>>

Broadcast(t) ==
  /\ pc[t] = "in"
  /\ pc' = [u \in Threads |-> IF pc[u] = "asleep" THEN "wake" ELSE pc[u]]
  /\ UNCHANGED <<mutex, locked, guard>>

-----------------------------------------------------------------------------

\* Steps a thread takes on its own once it has called a member function.
Internal(t) ==
  \/ Claim(t) \/ Mark(t) \/ Check(t) \/ Clear(t) \/ Release(t)
  \/ Doze(t) \/ Sleep(t) \/ Back(t)

Next == \E t \in Threads :
  \/ Lock(t) \/ TryLock(t) \/ Acquire(t) \/ Unlock(t)
  \/ Wait(t) \/ Rouse(t) \/ Reacquire(t) \/ Signal(t) \/ Broadcast(t)
  \/ Internal(t)

Spec == Init /\ [][Next]_vars

\* The scheduler runs every thread, the pthread mutex is starvation free, and
\* the code between lock() and unlock() ends.  Nobody has to call lock() or to
\* signal.
Fairness == \A t \in Threads :
  /\ WF_vars(Internal(t))
  /\ WF_vars(Unlock(t))
  /\ SF_vars(Acquire(t))
  /\ SF_vars(Reacquire(t))

FairSpec == Spec /\ Fairness

-----------------------------------------------------------------------------
(* Properties                                                               *)

\* The assertions on the unsynchronised flag (thread.cc 130, 143, 153) never
\* throw, whatever lock, trylock, unlock, wait, signal and timeout interleave:
\* unlock and wait clear locked before they give the pthread mutex away, wait
\* sets it after it has it back.
AssertionsHold == \A t \in Threads : pc[t] # "failed"

\* No two threads are between lock() and unlock(); a thread in wait() is not.
Inside == {"in", "unlock", "clear", "doze"}
MutualExclusion == \A t, u \in Threads : pc[t] \in Inside /\ pc[u] \in Inside => t = u

\* abort_assert (!locked) of ~Mutex (thread.cc 121) is sound: the flag is FALSE
\* once every thread has left or sleeps.
IdleUnlocked == (\A t \in Threads : pc[t] \in {"out", "lock", "asleep", "wake"}) => ~locked

\* No wakeup is lost between CV::wait giving up the mutex and pthread_cond_wait
\* listening (thread.cc 246-247): when a thread that is inside signals, every
\* other thread that is on its way to sleep is already asleep.
Listening == \A t, u \in Threads : pc[t] = "in" => pc[u] # "sleep"

\* Mutex and CV implement Monitor.  A thread is inside from locked = true to
\* locked = false and sleeps from there until it is woken.
Contract == INSTANCE Monitor WITH
  inside <- IF locked THEN mutex ELSE NoThread,
  sleepers <- {t \in Threads : pc[t] \in {"sleep", "asleep"}}
ImplementsMonitor == Contract!MSpec

\* A call of lock() returns, and so does wait() once woken (thread.cc 129, 247).
Served == \A t \in Threads : (pc[t] \in {"lock", "wake"}) ~> (pc[t] = "in")
=============================================================================
