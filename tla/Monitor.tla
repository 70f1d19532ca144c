------------------------------ MODULE Monitor -------------------------------
(***************************************************************************)
(* What bwct::Mutex and bwct::CV promise together: one thread inside at a  *)
(* time, and going to sleep gives up the inside in the same instant, so     *)
(* that whoever comes in next finds the sleeper already listening.          *)
(* Threadpool is written in terms of these steps.                           *)
(***************************************************************************)
CONSTANTS Threads, NoThread

VARIABLES inside,     \* the thread between lock() and unlock()
          sleepers    \* the threads in CV::wait that nobody has woken

mvars == <<inside, sleepers>>

MInit == inside = NoThread /\ sleepers = {}

Enter(t) ==
  /\ inside = NoThread
  /\ t \notin sleepers
  /\ inside' = t
  /\ UNCHANGED sleepers

Leave(t) ==
  /\ inside = t
  /\ inside' = NoThread
  /\ UNCHANGED sleepers

GoToSleep(t) ==
  /\ inside = t
  /\ inside' = NoThread
  /\ sleepers' = sleepers \cup {t}

\* Signals come from inside; a timeout or a spurious wakeup from nowhere.
WakeOne(t) ==
  /\ t \in sleepers
  /\ sleepers' = sleepers \ {t}
  /\ UNCHANGED inside

WakeAll(t) ==
  /\ inside = t
  /\ sleepers' = {}
  /\ UNCHANGED inside

MNext == \E t \in Threads :
  Enter(t) \/ Leave(t) \/ GoToSleep(t) \/ WakeOne(t) \/ WakeAll(t)

MSpec == MInit /\ [][MNext]_mvars
=============================================================================
