-------------------------------- MODULE Listen -------------------------------
(***************************************************************************)
(* bwct::Network::Listen (network.cc 461-624): the addresses a server      *)
(* listens on, the loop that accepts, and the process it forks for each    *)
(* connection.  fdescs_to_close belongs to the program, lfds to an object; *)
(* of the former the order does not matter, and only what is in it is kept.*)
(*                                                                         *)
(* accept fails only when nobody waits any more.  Objects are set up and   *)
(* destroyed before the loop is entered, which has no end.                 *)
(***************************************************************************)
EXTENDS Sockets

CONSTANTS
  Listeners,   \* the objects
  Resolved     \* what one name may stand for: addresses in their order

ASSUME ListenAssumption == Resolved \subseteq Seq(Addresses)

VARIABLES
  lfds, fdescs_to_close,
  loop,        \* where loop() is, of which object, what poll found and is left, clientfd
  child        \* of a connection: the process that serves it

listenVars == <<lfds, fdescs_to_close, loop, child>>

ListenInit ==
  /\ lfds = [l \in Listeners |-> <<>>]
  /\ fdescs_to_close = {}
  /\ loop = [at |-> "off"]
  /\ child = [c \in Conns |-> "none"]

Lfds == lfds[loop.of]

\* Addresses in use are not given again: bind would fail, and nobody looks.
add_tcp(l, info) ==
  /\ loop.at = "off" /\ \A s \in ToSet(info) : ~Listening(s)
  /\ open' = [open EXCEPT ![Parent] = @ \cup ToSet(info)]
  /\ lfds' = [lfds EXCEPT ![l] = @ \o info]
  /\ fdescs_to_close' = fdescs_to_close \cup ToSet(info)
  /\ UNCHANGED <<queue, ends, loop, child>>

\* ~Listen: the last socket is left out.
Destroy(l) ==
  /\ loop.at = "off" /\ lfds[l] # <<>>
  /\ LET closed == ToSet(Front(lfds[l])) IN
     /\ open' = [open EXCEPT ![Parent] = @ \ closed]
     /\ queue' = [s \in Addresses |-> IF s \in closed THEN <<>> ELSE queue[s]]
     /\ fdescs_to_close' = fdescs_to_close \ closed
  /\ lfds' = [lfds EXCEPT ![l] = <<>>]
  /\ UNCHANGED <<ends, loop, child>>

StartLoop(l) ==
  /\ loop.at = "off" /\ lfds[l] # <<>>
  /\ loop' = [at |-> "scan", of |-> l, found |-> {}, clientfd |-> Parent]
  /\ UNCHANGED <<kernelVars, lfds, fdescs_to_close, child>>

Poll ==
  /\ loop.at = "scan" /\ loop.found = {}
  /\ LET found == {i \in DOMAIN Lfds : queue[Lfds[i]] # <<>>} IN
     found # {} /\ loop' = [loop EXCEPT !.found = found]
  /\ UNCHANGED <<kernelVars, lfds, fdescs_to_close, child>>

\* The first index of those poll found.
Turn(i) == loop.at = "scan" /\ i \in loop.found /\ \A k \in loop.found : i <= k
Done(i) == loop.found \ {i}

\* Mutant: the sockets listened on are blocking ones.
AcceptBlocking(i) ==
  /\ Turn(i) /\ queue[Lfds[i]] # <<>>
  /\ loop' = [loop EXCEPT !.at = "fork", !.found = Done(i), !.clientfd = Head(queue[Lfds[i]])]
  /\ open' = [open EXCEPT ![Parent] = @ \cup {Head(queue[Lfds[i]])}]
  /\ queue' = [queue EXCEPT ![Lfds[i]] = Tail(@)]
  /\ UNCHANGED <<ends, lfds, fdescs_to_close, child>>

\* What poll found may be gone: accept does not wait for it.
Accept(i) ==
  /\ Turn(i)
  /\ IF queue[Lfds[i]] = <<>>
     THEN loop' = [loop EXCEPT !.found = Done(i)] /\ UNCHANGED <<open, queue>>
     ELSE /\ loop' = [loop EXCEPT !.at = "fork", !.found = Done(i), !.clientfd = Head(queue[Lfds[i]])]
          /\ open' = [open EXCEPT ![Parent] = @ \cup {Head(queue[Lfds[i]])}]
          /\ queue' = [queue EXCEPT ![Lfds[i]] = Tail(@)]
  /\ UNCHANGED <<ends, lfds, fdescs_to_close, child>>

Fork ==
  /\ loop.at = "fork"
  /\ child' = [child EXCEPT ![loop.clientfd] = "started"]
  /\ open' = [open EXCEPT ![loop.clientfd] = open[Parent]]
  /\ loop' = [loop EXCEPT !.at = "close"]
  /\ UNCHANGED <<queue, ends, lfds, fdescs_to_close>>

ForkFails ==
  /\ loop.at = "fork"
  /\ loop' = [loop EXCEPT !.at = "close"]
  /\ UNCHANGED <<kernelVars, lfds, fdescs_to_close, child>>

CloseClient ==
  /\ loop.at = "close"
  /\ open' = [open EXCEPT ![Parent] = @ \ {loop.clientfd}]
  /\ loop' = [loop EXCEPT !.at = "scan"]
  /\ UNCHANGED <<queue, ends, lfds, fdescs_to_close, child>>

\* Mutant: the loop over them ends as the one in ~Listen does.
CloseListeningShort(c) ==
  /\ child[c] = "started"
  /\ child' = [child EXCEPT ![c] = "task"]
  /\ \E last \in fdescs_to_close : open' = [open EXCEPT ![c] = @ \ (fdescs_to_close \ {last})]
  /\ UNCHANGED <<queue, ends, lfds, fdescs_to_close, loop>>

CloseListening(c) ==
  /\ child[c] = "started"
  /\ child' = [child EXCEPT ![c] = "task"]
  /\ open' = [open EXCEPT ![c] = @ \ fdescs_to_close]
  /\ UNCHANGED <<queue, ends, lfds, fdescs_to_close, loop>>

\* The task is done, or an exception is: either way the process is.
Exit(c) ==
  /\ child[c] = "task"
  /\ child' = [child EXCEPT ![c] = "exited"]
  /\ open' = [open EXCEPT ![c] = {}]
  /\ UNCHANGED <<queue, ends, lfds, fdescs_to_close, loop>>

\* A task works with its connection only: no socket to listen on, no connection
\* of another.  The parent has a connection from accept to close, and what it
\* listens on is in the list its children close, an object's last socket, which
\* ~Listen leaves open (466), included.
Isolated ==
  /\ \A c \in Conns : child[c] = "task" => open[c] = {c}
  /\ open[Parent] \cap Conns = IF loop.at \in {"fork", "close"} THEN {loop.clientfd} ELSE {}
  /\ open[Parent] \cap Addresses = fdescs_to_close
=============================================================================
