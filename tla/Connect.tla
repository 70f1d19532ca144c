------------------------------- MODULE Connect -------------------------------
(***************************************************************************)
(* bwct::Network::Net::connect_tcp with several names (network.cc          *)
(* 150-240): the addresses are tried one after the other, each for         *)
(* ms_timeout.  The form with one name (242-298) tries in the same way and *)
(* leaves the waiting to the kernel.                                       *)
(***************************************************************************)
EXTENDS Sockets

CONSTANTS
  Clients,
  names        \* the addresses in the order they are tried

\* A connection is an attempt of a client.
ASSUME ConnectAssumption ==
  /\ names \in Seq(Addresses)
  /\ Clients \X DOMAIN names \subseteq Conns

VARIABLE client  \* where a client is, and the name it has come to

Attempt(t) == <<t, client[t].i>>
Here(t) == names[client[t].i]

ConnectInit == client = [t \in Clients |-> [at |-> "next", i |-> 0]]

Moves(t, here, there) == client[t].at = here /\ client' = [client EXCEPT ![t].at = there]

\* socket() and a connect() that does not block; a name may not be resolved.
Try(t) ==
  /\ client[t].i < Len(names)
  /\ client[t].at = "next"
  /\ \E resolved \in BOOLEAN :
       /\ client' = [client EXCEPT ![t] = [at |-> IF resolved THEN "wait" ELSE "next", i |-> @.i + 1]]
       /\ ends' = IF resolved THEN ends \cup {<<t, client[t].i + 1>>} ELSE ends
  /\ UNCHANGED <<open, queue>>

\* The network: the connection is there before its client knows.
Arrive(t) ==
  /\ client[t].at = "wait" /\ Listening(Here(t))
  /\ queue' = [queue EXCEPT ![Here(t)] = Append(@, Attempt(t))]
  /\ client' = [client EXCEPT ![t].at = "reached"]
  /\ UNCHANGED <<open, ends>>

\* poll() and getsockopt() find it connected.
Connected(t) == Moves(t, "reached", "connected") /\ UNCHANGED kernelVars

\* Mutant of GiveUp: the next address is tried with the socket still open.
GiveUpOpen(t) ==
  /\ \/ Moves(t, "wait", "next")
     \/ Moves(t, "reached", "next")
  /\ UNCHANGED kernelVars

\* Refused, or the time is over, be the connection there or not.
GiveUp(t) ==
  /\ \/ Moves(t, "wait", "next")
     \/ Moves(t, "reached", "next")
  /\ ends' = ends \ {Attempt(t)}
  /\ UNCHANGED <<open, queue>>

\* No address is left, or there is no socket to be had.
ConnectThrows(t) == Moves(t, "next", "failed") /\ UNCHANGED kernelVars

Hangup(t) ==
  /\ Moves(t, "connected", "closed")
  /\ ends' = ends \ {Attempt(t)}
  /\ UNCHANGED <<open, queue>>

ConnectStep(t) ==
  Try(t) \/ Arrive(t) \/ Connected(t) \/ GiveUp(t) \/ ConnectThrows(t) \/ Hangup(t)

\* A client that goes on, or gives up, has closed what it tried before, though
\* the server may have it in its queue; one that is connected has one socket.
OneSocket == \A t \in Clients :
  {k \in DOMAIN names : <<t, k>> \in ends} =
    IF client[t].at \in {"wait", "reached", "connected"} THEN {client[t].i} ELSE {}
=============================================================================
