-------------------------------- MODULE Server -------------------------------
(***************************************************************************)
(* A server and its clients: Listen accepts what Connect asks for and      *)
(* forks, while other threads of its process, and later the task in the    *)
(* child, ask for a value of OnceInit.  fork copies the memory and only    *)
(* the thread that calls it (network.cc 513).                              *)
(***************************************************************************)
EXTENDS Listen, Connect

CONSTANTS ParentThreads, Nobody

ASSUME ThreadsAssumption ==
  /\ ParentThreads # {} /\ ParentThreads \cap Conns = {}
  /\ Nobody \notin ParentThreads \cup Conns

VARIABLES ptr, holder, made, pc

Home == [t \in ParentThreads \cup Conns |-> IF t \in ParentThreads THEN Parent ELSE t]
Once == INSTANCE OnceInit WITH Threads <- DOMAIN Home, home <- Home

memory == <<ptr, holder, made, pc>>
vars == <<kernelVars, listenVars, client, memory>>

Init == KernelInit /\ ListenInit /\ ConnectInit /\ Once!OnceInitial(ParentThreads)

ForkChild ==
  /\ Fork
  /\ ptr' = [ptr EXCEPT ![loop.clientfd] = ptr[Parent]]
  /\ holder' = [holder EXCEPT ![loop.clientfd] = holder[Parent]]
  /\ pc' = [pc EXCEPT ![loop.clientfd] = "test"]
  /\ UNCHANGED <<client, made>>

\* What a process had in its memory ends with it.
ExitChild(c) ==
  /\ pc[c] = "done" /\ Exit(c)
  /\ ptr' = [ptr EXCEPT ![c] = "NULL"]
  /\ holder' = [holder EXCEPT ![c] = Nobody]
  /\ made' = [made EXCEPT ![c] = 0]
  /\ pc' = [pc EXCEPT ![c] = "off"]
  /\ UNCHANGED client

Loop ==
  /\ loop.at # "off"
  /\ ForkChild \/ ((Poll \/ (\E i \in DOMAIN Lfds : Accept(i)) \/ ForkFails \/ CloseClient) /\ UNCHANGED <<client, memory>>)

Task(c) ==
  \/ CloseListening(c) /\ UNCHANGED <<client, memory>>
  \/ child[c] = "task" /\ Once!Step(c) /\ UNCHANGED <<kernelVars, listenVars, client>>
  \/ ExitChild(c)

Thread(t) == Once!Step(t) /\ UNCHANGED <<kernelVars, listenVars, client>>

Next ==
  \/ \E l \in Listeners : /\ (\E info \in Resolved : add_tcp(l, info)) \/ Destroy(l) \/ StartLoop(l)
                          /\ UNCHANGED <<client, memory>>
  \/ Loop
  \/ \E c \in Conns : Task(c) \/ (Vanish(c) /\ UNCHANGED <<listenVars, client, memory>>)
  \/ \E t \in ParentThreads : Thread(t)
  \/ \E t \in Clients : ConnectStep(t) /\ UNCHANGED <<listenVars, memory>>

\* The kernel runs every process and every thread; clients may stop anywhere.
Fairness ==
  /\ WF_vars(Loop)
  /\ \A c \in Conns : WF_vars(Task(c))
  /\ \A t \in ParentThreads : WF_vars(Thread(t))

Spec == Init /\ [][Next]_vars /\ Fairness

OnceBuilt == Once!OnceBuilt

\* The child was forked while another thread had the mutex, which nobody in the
\* child will unlock.
Orphaned(c) == holder[c] \in ParentThreads

\* Whoever waits at a socket the loop looks at is let go in the end: accepted
\* and served, or closed since there was no process for it; but for a child that
\* inherited a locked mutex (network.cc 513).  A client that gives up between
\* poll and accept does not stop the others.
Answered == \A c \in Conns :
  (loop.at # "off" /\ \E s \in ToSet(Lfds) : c \in ToSet(queue[s]))
    ~> (~Waiting(c) /\ \A p \in Servers : c \notin open[p]) \/ Orphaned(c)
=============================================================================
