------------------------------- MODULE OnceInit ------------------------------
(***************************************************************************)
(* bwct::a_global<T>::init (thread.h 136-161): a value that is made when   *)
(* it is first asked for, tested for without the mutex and again with it.  *)
(* Net::post_init_peer (network.cc 37-47) goes through the same steps.     *)
(*                                                                         *)
(* A process has a memory of its own, with the pointer and the mutex; what *)
(* fork copies is in module Server.  The test outside of the mutex races   *)
(* with the assignment inside, so that a thread may see the pointer before *)
(* what it points to.                                                      *)
(***************************************************************************)
EXTENDS Naturals

CONSTANTS
  Threads,     \* all of them
  home,        \* the process of each
  Nobody

VARIABLES
  ptr,         \* of a process: "NULL", "raw" before the value can be seen, "built"
  holder,      \* the thread that has the mutex of a process
  made,        \* how many values a process has made
  pc           \* where a thread is

Processes == {home[t] : t \in Threads}

OnceInitial(Started) ==
  /\ ptr = [p \in Processes |-> "NULL"]
  /\ holder = [p \in Processes |-> Nobody]
  /\ made = [p \in Processes |-> 0]
  /\ pc = [t \in Threads |-> IF t \in Started THEN "test" ELSE "off"]

Moves(t, here, there) == pc[t] = here /\ pc' = [pc EXCEPT ![t] = there]

Test(t) ==
  /\ Moves(t, "test", IF ptr[home[t]] = "NULL" THEN "lock" ELSE "use")
  /\ UNCHANGED <<ptr, holder, made>>

Hold(t) ==
  /\ holder[home[t]] = Nobody
  /\ holder' = [holder EXCEPT ![home[t]] = t]
  /\ UNCHANGED <<ptr, made>>

\* Mutant: no second test.
LockOnly(t) == Moves(t, "lock", "make") /\ Hold(t)

\* The mutex, and the second test, which nobody can come between.
Lock(t) == Moves(t, "lock", IF ptr[home[t]] = "NULL" THEN "make" ELSE "unlock") /\ Hold(t)

\* What the pointer points to may be seen later than the pointer.
Make(t) ==
  /\ Moves(t, "make", "finish")
  /\ ptr' = [ptr EXCEPT ![home[t]] = "raw"]
  /\ made' = [made EXCEPT ![home[t]] = @ + 1]
  /\ UNCHANGED holder

Finish(t) ==
  /\ Moves(t, "finish", "unlock")
  /\ ptr' = [ptr EXCEPT ![home[t]] = "built"]
  /\ UNCHANGED <<holder, made>>

LetGo(t) ==
  /\ holder' = [holder EXCEPT ![home[t]] = Nobody]
  /\ UNCHANGED <<ptr, made>>

\* new throws, and the guard unlocks.
MakeThrows(t) == Moves(t, "make", "done") /\ LetGo(t)

Unlock(t) == Moves(t, "unlock", "done") /\ LetGo(t)

\* By a thread that found the pointer set, and never had the mutex.
Use(t) == Moves(t, "use", "done") /\ UNCHANGED <<ptr, holder, made>>

Step(t) ==
  Test(t) \/ Lock(t) \/ Make(t) \/ Finish(t) \/ MakeThrows(t) \/ Unlock(t) \/ Use(t)

\* One value for a process, and nobody goes without it; who leaves the mutex
\* finds it built, and only who saw the pointer from outside may find it not
\* there yet.
OnceBuilt ==
  /\ \A p \in Processes : made[p] <= 1
  /\ \A t \in Threads : /\ pc[t] = "use" => ptr[home[t]] # "NULL"
                        /\ pc[t] = "unlock" => ptr[home[t]] = "built"
=============================================================================
