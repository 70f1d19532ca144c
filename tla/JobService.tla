----------------------------- MODULE JobService -----------------------------
(***************************************************************************)
(* What bwct::Threadpool promises to whoever calls AddJob, without threads, *)
(* locks or condition variables: every accepted job is run exactly once,   *)
(* jobs handed to the backlog start in the order they were accepted, a     *)
(* caller may be served on the spot, and the service only shuts down when  *)
(* nothing it accepted is left unfinished (threadpool.cc, ~Threadpool:      *)
(* "signal and wait for workers to stop before we desonstruct ourself").    *)
(***************************************************************************)
EXTENDS Sequences

CONSTANT Jobs       \* every job that may ever be handed to the service

VARIABLES state,    \* state[j]: "new", "waiting", "running" or "done"
          backlog,  \* the waiting jobs, oldest first
          open      \* the service has not been shut down

svars == <<state, backlog, open>>

SInit ==
  /\ state = [j \in Jobs |-> "new"]
  /\ backlog = <<>>
  /\ open = TRUE

\* The job joins the backlog.
Accept(j) ==
  /\ open
  /\ state[j] = "new"
  /\ state' = [state EXCEPT ![j] = "waiting"]
  /\ backlog' = Append(backlog, j)
  /\ UNCHANGED open

\* The job is started at once by the thread that hands it in.
AcceptInline(j) ==
  /\ open
  /\ state[j] = "new"
  /\ state' = [state EXCEPT ![j] = "running"]
  /\ UNCHANGED <<backlog, open>>

\* The oldest job of the backlog is started.
Begin ==
  /\ backlog # <<>>
  /\ state' = [state EXCEPT ![Head(backlog)] = "running"]
  /\ backlog' = Tail(backlog)
  /\ UNCHANGED open

End(j) ==
  /\ state[j] = "running"
  /\ state' = [state EXCEPT ![j] = "done"]
  /\ UNCHANGED <<backlog, open>>

Shut ==
  /\ open
  /\ \A j \in Jobs : state[j] \in {"new", "done"}
  /\ open' = FALSE
  /\ UNCHANGED <<state, backlog>>

SNext ==
  \/ \E j \in Jobs : Accept(j) \/ AcceptInline(j) \/ End(j)
  \/ Begin
  \/ Shut

SSpec == SInit /\ [][SNext]_svars
=============================================================================
