------------------------------- MODULE Sockets -------------------------------
(***************************************************************************)
(* What the kernel keeps of sockets for the code of network.cc: the        *)
(* descriptors each process has open, connections that wait to be          *)
(* accepted, and the clients' ends of connections.                         *)
(***************************************************************************)
EXTENDS Integers, Sequences, FiniteSets, SequencesExt

CONSTANTS
  Addresses,   \* what one can listen on; stands for the socket as well
  Conns,       \* connections, and the processes that serve them
  Parent       \* the process that accepts

ASSUME SocketsAssumption ==
  /\ Parent \notin Conns
  /\ Addresses \cap (Conns \cup {Parent}) = {}

VARIABLES
  open,        \* of a process: its sockets and connections
  queue,       \* of an address: connections not yet accepted
  ends         \* connections whose client has not closed them

kernelVars == <<open, queue, ends>>

Servers == {Parent} \cup Conns

KernelInit ==
  /\ open = [p \in Servers |-> {}]
  /\ queue = [s \in Addresses |-> <<>>]
  /\ ends = {}

Listening(s) == \E p \in Servers : s \in open[p]
Waiting(c) == \E s \in Addresses : c \in ToSet(queue[s])

\* A connection whose client has gone need not be handed out any more.
Vanish(c) ==
  /\ c \notin ends
  /\ \E s \in Addresses : \E i \in DOMAIN queue[s] :
       queue[s][i] = c /\ queue' = [queue EXCEPT ![s] = RemoveAt(@, i)]
  /\ UNCHANGED <<open, ends>>
=============================================================================
