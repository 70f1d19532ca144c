----------------------------- MODULE ServerProofs ----------------------------
(***************************************************************************)
(* Theorems about Server.  Of the server's descriptors, of the clients and *)
(* of the connections there is an invariant each; that a connection is     *)
(* handed out once is what the value of OnceInit needs in a child, since   *)
(* the process of a connection begins with a memory of its own.            *)
(***************************************************************************)
EXTENDS Server, SequenceLemmas

KernelType ==
  /\ open \in [Servers -> SUBSET (Addresses \cup Conns)]
  /\ queue \in [Addresses -> Seq(Conns)]
  /\ lfds \in [Listeners -> Seq(Addresses)]
  /\ fdescs_to_close \subseteq Addresses
  /\ child \in [Conns -> {"none", "started", "task", "exited"}]

Looping == [at : {"scan", "fork", "close"}, of : Listeners, found : SUBSET Nat, clientfd : Conns \cup {Parent}]

LoopType ==
  /\ loop = [at |-> "off"] \/ loop \in Looping
  /\ loop.at \in {"fork", "close"} => loop.clientfd \in Conns

ClientType ==
  /\ client \in [Clients -> [at : {"next", "wait", "reached", "connected", "failed", "closed"}, i : 0 .. Len(names)]]
  /\ \A t \in Clients : client[t].at \in {"wait", "reached", "connected"} => client[t].i # 0

TypeOK == KernelType /\ LoopType /\ ClientType

\* A child that has not closed anything yet has what its parent listens on, and
\* that does not change any more.
DescriptorInv ==
  /\ \A c \in Conns : child[c] = "started" => open[c] = fdescs_to_close \cup {c}
  /\ \A c \in Conns : child[c] # "none" => loop.at # "off"
  /\ Isolated

\* The kernel has had the connection.
Reached(c) == \E t \in Clients : \E k \in 1 .. client[t].i :
  c = <<t, k>> /\ (k = client[t].i => client[t].at # "wait")

Taken(c) == child[c] # "none" \/ (loop.at = "fork" /\ loop.clientfd = c)

WaitsOnce == \A s, r \in Addresses : \A i \in DOMAIN queue[s], j \in DOMAIN queue[r] :
  queue[s][i] = queue[r][j] => s = r /\ i = j

\* A connection waits in one place at most, and not any more once it is accepted.
ServedInv ==
  /\ WaitsOnce
  /\ \A s \in Addresses : \A i \in DOMAIN queue[s] : Reached(queue[s][i]) /\ ~Taken(queue[s][i])
  /\ \A c \in Conns : Taken(c) => Reached(c)
  /\ loop.at = "fork" => child[loop.clientfd] = "none"

AllThreads == ParentThreads \cup Conns

MemoryType ==
  /\ ptr \in [Servers -> {"NULL", "raw", "built"}]
  /\ holder \in [Servers -> AllThreads \cup {Nobody}]
  /\ made \in [Servers -> Nat]
  /\ pc \in [AllThreads -> {"off", "test", "lock", "use", "make", "finish", "unlock", "done"}]

\* Who is between lock and unlock has the mutex, and a pointer that points to
\* nothing yet is under it, in the child as well, where nobody has it any more.
MemoryInv ==
  /\ \A p \in Servers : /\ made[p] <= 1
                        /\ ptr[p] = "NULL" => made[p] = 0
                        /\ ptr[p] = "raw" => holder[p] # Nobody
  /\ \A t \in AllThreads :
       /\ pc[t] \in {"make", "finish", "unlock"} => holder[Home[t]] = t
       /\ pc[t] = "make" => ptr[Home[t]] = "NULL"
       /\ pc[t] = "unlock" => ptr[Home[t]] = "built"
       /\ pc[t] = "use" => ptr[Home[t]] # "NULL"
  /\ \A c \in Conns : child[c] # "task" => made[c] = 0 /\ pc[c] \in {"off", "test"}

-----------------------------------------------------------------------------
(* The assumptions, and what the kernel does to its queues                   *)

LEMMA Apart ==
  /\ Parent \notin Conns /\ Parent \notin Addresses /\ Addresses \cap Conns = {}
  /\ Parent \in Servers /\ Conns \subseteq Servers
  /\ \A c \in Conns : c # Parent
BY SocketsAssumption DEF Servers

\* An address of a sequence of them.
LEMMA AddressesOf ==
  ASSUME NEW s \in Seq(Addresses)
  PROVE  ToSet(s) \subseteq Addresses /\ (\A i \in DOMAIN s : s[i] \in Addresses)
BY DEF ToSet

LEMMA NamesOf == /\ Len(names) \in Nat /\ DOMAIN names = 1 .. Len(names)
                 /\ \A k \in 1 .. Len(names) : names[k] \in Addresses
                 /\ \A t \in Clients : \A k \in 1 .. Len(names) : <<t, k>> \in Conns
<1>1. Len(names) \in Nat /\ DOMAIN names = 1 .. Len(names) /\ \A k \in 1 .. Len(names) : names[k] \in Addresses
  BY ConnectAssumption, LenProperties, ElementOfSeq
<1>2. ASSUME NEW t \in Clients, NEW k \in 1 .. Len(names) PROVE <<t, k>> \in Conns
  <2>1. <<t, k>> \in Clients \X DOMAIN names
    BY <1>1
  <2> QED
    BY <2>1, ConnectAssumption
<1> QED
  BY <1>1, <1>2

-----------------------------------------------------------------------------
(* What a step does to all but the memory of the processes                   *)

ListenStep ==
  \/ \E l \in Listeners : (\E info \in Resolved : add_tcp(l, info)) \/ Destroy(l) \/ StartLoop(l)
  \/ Poll \/ Fork \/ ForkFails \/ CloseClient
  \/ loop.at # "off" /\ \E i \in DOMAIN Lfds : Accept(i)
  \/ \E c \in Conns : CloseListening(c) \/ Exit(c)

KernelStep ==
  \/ ListenStep /\ UNCHANGED client
  \/ (\E c \in Conns : Vanish(c)) /\ UNCHANGED <<listenVars, client>>
  \/ (\E t \in Clients : ConnectStep(t)) /\ UNCHANGED listenVars
  \/ UNCHANGED <<kernelVars, listenVars, client>>

LEMMA KernelSteps == [Next]_vars => KernelStep
<1>1. Next => KernelStep
  BY DEF Next, Loop, Task, Thread, ForkChild, ExitChild, KernelStep, ListenStep
<1>2. UNCHANGED vars => KernelStep
  BY DEF vars, KernelStep
<1> QED
  BY <1>1, <1>2

LEMMA TypeInit == Init => TypeOK
<1> SUFFICES ASSUME Init PROVE TypeOK
  OBVIOUS
<1>1. KernelInit /\ ListenInit /\ ConnectInit
  BY DEF Init
<1>2. \A S : <<>> \in Seq(S)
  BY EmptySeq
<1> QED
  BY <1>1, <1>2, NamesOf
  DEF KernelInit, ListenInit, ConnectInit, TypeOK, KernelType, LoopType, ClientType

LEMMA KernelTypeStep == ASSUME TypeOK, KernelStep PROVE KernelType'
<1>0. KernelType /\ loop.at \in {"off", "scan", "fork", "close"} /\ (loop.at \in {"fork", "close"} => loop.clientfd \in Conns)
      /\ (loop.at # "off" => loop.of \in Listeners)
  BY DEF TypeOK, LoopType, Looping
<1>1. ASSUME NEW l \in Listeners, NEW info \in Resolved, add_tcp(l, info) PROVE KernelType'
  <2>1. info \in Seq(Addresses) /\ ToSet(info) \subseteq Addresses
    BY ListenAssumption, AddressesOf
  <2>2. lfds[l] \o info \in Seq(Addresses)
    BY <1>0, <2>1, ConcatAt DEF KernelType
  <2> QED
    BY <1>0, <1>1, <2>1, <2>2, Apart DEF KernelType, add_tcp
<1>2. ASSUME NEW l \in Listeners, Destroy(l) PROVE KernelType'
  <2>1. <<>> \in Seq(Conns) /\ <<>> \in Seq(Addresses)
    BY EmptySeq
  <2>2. queue' \in [Addresses -> Seq(Conns)]
    BY <1>0, <1>2, <2>1 DEF KernelType, Destroy
  <2>3. open' \in [Servers -> SUBSET (Addresses \cup Conns)]
    BY <1>0, <1>2, Apart DEF KernelType, Destroy
  <2> QED
    BY <1>0, <1>2, <2>1, <2>2, <2>3 DEF KernelType, Destroy
<1>3. ASSUME NEW i \in DOMAIN Lfds, loop.at # "off", Accept(i) PROVE KernelType'
  <2>1. Lfds[i] \in Addresses
    BY <1>0, <1>3, AddressesOf DEF KernelType, Lfds
  <2>2. queue[Lfds[i]] # <<>> => Head(queue[Lfds[i]]) \in Conns /\ Tail(queue[Lfds[i]]) \in Seq(Conns)
    BY <1>0, <2>1, HeadTailProperties DEF KernelType
  <2>3. CASE queue[Lfds[i]] = <<>>
    BY <1>0, <1>3, <2>3 DEF KernelType, Accept
  <2>4. CASE queue[Lfds[i]] # <<>>
    <3>1. /\ open' = [open EXCEPT ![Parent] = @ \cup {Head(queue[Lfds[i]])}]
          /\ queue' = [queue EXCEPT ![Lfds[i]] = Tail(@)]
          /\ UNCHANGED <<lfds, fdescs_to_close, child>>
      BY <1>3, <2>4 DEF Accept
    <3>2. queue' \in [Addresses -> Seq(Conns)]
      BY <1>0, <2>1, <2>2, <2>4, <3>1 DEF KernelType
    <3>3. open' \in [Servers -> SUBSET (Addresses \cup Conns)]
      BY <1>0, <2>2, <2>4, <3>1, Apart DEF KernelType
    <3> QED
      BY <1>0, <3>1, <3>2, <3>3 DEF KernelType
  <2> QED
    BY <2>3, <2>4
<1>4. ASSUME Fork PROVE KernelType'
  <2>1. loop.clientfd \in Conns /\ loop.clientfd \in Servers
    BY <1>0, <1>4, Apart DEF Fork
  <2>2. open[Parent] \in SUBSET (Addresses \cup Conns)
    BY <1>0, Apart DEF KernelType
  <2> QED
    BY <1>0, <1>4, <2>1, <2>2 DEF KernelType, Fork
<1>5. ASSUME CloseClient PROVE KernelType'
  BY <1>0, <1>5, Apart DEF KernelType, CloseClient
<1>6. ASSUME NEW c \in Conns, CloseListening(c) \/ Exit(c) PROVE KernelType'
  <2>1. open' \in [Servers -> SUBSET (Addresses \cup Conns)]
    BY <1>0, <1>6, Apart DEF KernelType, CloseListening, Exit
  <2>2. child' \in [Conns -> {"none", "started", "task", "exited"}]
    BY <1>0, <1>6 DEF KernelType, CloseListening, Exit
  <2> QED
    BY <1>0, <1>6, <2>1, <2>2 DEF KernelType, CloseListening, Exit
<1>7. ASSUME NEW c \in Conns, Vanish(c), UNCHANGED listenVars PROVE KernelType'
  <2>1. PICK s \in Addresses : \E i \in DOMAIN queue[s] : queue' = [queue EXCEPT ![s] = RemoveAt(@, i)]
    BY <1>7 DEF Vanish
  <2>2. \A i \in DOMAIN queue[s] : RemoveAt(queue[s], i) \in Seq(Conns)
    BY <1>0, RemoveAtIs DEF KernelType
  <2>3. queue' \in [Addresses -> Seq(Conns)]
    BY <1>0, <2>1, <2>2 DEF KernelType
  <2> QED
    BY <1>0, <1>7, <2>3 DEF KernelType, Vanish, listenVars
<1>8. ASSUME NEW t \in Clients, Arrive(t), UNCHANGED listenVars PROVE KernelType'
  <2>1. Here(t) \in Addresses /\ Attempt(t) \in Conns
    BY <1>8, NamesOf DEF TypeOK, ClientType, Arrive, Here, Attempt
  <2>2. Append(queue[Here(t)], Attempt(t)) \in Seq(Conns)
    BY <1>0, <2>1, AppendProperties DEF KernelType
  <2> QED
    BY <1>0, <1>8, <2>1, <2>2 DEF KernelType, Arrive, listenVars
<1>9. ASSUME UNCHANGED <<open, queue, lfds, fdescs_to_close, child>> PROVE KernelType'
  BY <1>0, <1>9 DEF KernelType
<1> QED
  BY <1>1, <1>2, <1>3, <1>4, <1>5, <1>6, <1>7, <1>8, <1>9
  DEF KernelStep, ListenStep, StartLoop, Poll, ForkFails, ConnectStep, Try, Connected, GiveUp,
      ConnectThrows, Hangup, listenVars, kernelVars

LEMMA LoopTypeStep == ASSUME TypeOK, KernelStep PROVE LoopType'
<1>0. LoopType /\ KernelType /\ loop.at \in {"off", "scan", "fork", "close"}
  BY DEF TypeOK, LoopType, Looping
<1>1. ASSUME NEW l \in Listeners, StartLoop(l) PROVE LoopType'
  BY <1>1 DEF LoopType, Looping, StartLoop
<1>2. ASSUME Poll PROVE LoopType'
  <2>1. loop \in Looping /\ loop.at = "scan"
    BY <1>0, <1>2 DEF LoopType, Poll
  <2>2. DOMAIN Lfds \subseteq Nat
    BY <1>0, <2>1, LenProperties DEF KernelType, Lfds, Looping
  <2> QED
    BY <1>2, <2>1, <2>2 DEF LoopType, Looping, Poll
<1>3. ASSUME NEW i \in DOMAIN Lfds, Accept(i) PROVE LoopType'
  <2>1. loop \in Looping /\ loop.at = "scan"
    BY <1>0, <1>3 DEF LoopType, Accept, Turn
  <2>2. Lfds[i] \in Addresses
    BY <1>0, <2>1, AddressesOf DEF KernelType, Lfds, Looping
  <2>3. queue[Lfds[i]] # <<>> => Head(queue[Lfds[i]]) \in Conns
    BY <1>0, <2>2, HeadTailProperties DEF KernelType
  <2>4. Done(i) \in SUBSET Nat
    BY <2>1 DEF Looping, Done
  <2>5. \/ loop' = [loop EXCEPT !.found = Done(i)]
        \/ \E c \in Conns : loop' = [loop EXCEPT !.at = "fork", !.found = Done(i), !.clientfd = c]
    BY <1>3, <2>3 DEF Accept
  <2> QED
    BY <2>1, <2>4, <2>5 DEF LoopType, Looping
<1>4. ASSUME Fork \/ ForkFails \/ CloseClient PROVE LoopType'
  <2>1. loop \in Looping /\ loop.clientfd \in Conns
    BY <1>0, <1>4 DEF LoopType, Fork, ForkFails, CloseClient
  <2> QED
    BY <1>4, <2>1 DEF LoopType, Looping, Fork, ForkFails, CloseClient
<1>5. ASSUME UNCHANGED loop PROVE LoopType'
  BY <1>0, <1>5 DEF LoopType
<1> QED
  BY <1>1, <1>2, <1>3, <1>4, <1>5
  DEF KernelStep, ListenStep, add_tcp, Destroy, CloseListening, Exit, listenVars

LEMMA ClientTypeStep == ASSUME TypeOK, KernelStep PROVE ClientType'
<1>0. ClientType
  BY DEF TypeOK
<1>1. ASSUME NEW t \in Clients, Try(t) PROVE ClientType'
  BY <1>0, <1>1, NamesOf DEF ClientType, Try
<1>2. ASSUME NEW t \in Clients, ConnectStep(t), ~Try(t) PROVE ClientType'
  BY <1>0, <1>2 DEF ClientType, ConnectStep, Arrive, Connected, GiveUp, ConnectThrows, Hangup, Moves
<1>3. ASSUME UNCHANGED client PROVE ClientType'
  BY <1>0, <1>3 DEF ClientType
<1> QED
  BY <1>1, <1>2, <1>3 DEF KernelStep

LEMMA TypeStep == ASSUME TypeOK, KernelStep PROVE TypeOK'
BY KernelTypeStep, LoopTypeStep, ClientTypeStep DEF TypeOK

-----------------------------------------------------------------------------
(* What a process has open                                                   *)

LEMMA DescriptorStep == ASSUME TypeOK, KernelStep, DescriptorInv PROVE DescriptorInv'
<1>0. /\ KernelType /\ loop.at \in {"off", "scan", "fork", "close"}
      /\ loop.at \in {"fork", "close"} => loop.clientfd \in Conns
      /\ loop.at # "off" => loop \in Looping
  BY DEF TypeOK, LoopType, Looping
<1>1. ASSUME NEW l \in Listeners, NEW info \in Resolved, add_tcp(l, info) PROVE DescriptorInv'
  <2>1. ToSet(info) \subseteq Addresses
    BY ListenAssumption, AddressesOf
  <2>2. \A c \in Conns : child[c] = "none" /\ child'[c] = "none" /\ open'[c] = open[c]
    BY <1>0, <1>1, Apart DEF DescriptorInv, add_tcp, KernelType
  <2>3. open'[Parent] = open[Parent] \cup ToSet(info) /\ fdescs_to_close' = fdescs_to_close \cup ToSet(info)
    BY <1>0, <1>1, Apart DEF add_tcp, KernelType
  <2> QED
    BY <1>0, <1>1, <2>1, <2>2, <2>3, Apart DEF DescriptorInv, Isolated, add_tcp
<1>2. ASSUME NEW l \in Listeners, Destroy(l) PROVE DescriptorInv'
  <2>1. \A c \in Conns : child[c] = "none" /\ child'[c] = "none"
    BY <1>0, <1>2 DEF DescriptorInv, Destroy
  <2>2. PICK closed : open'[Parent] = open[Parent] \ closed /\ fdescs_to_close' = fdescs_to_close \ closed
    BY <1>0, <1>2, Apart DEF Destroy, KernelType
  <2> QED
    BY <1>0, <1>2, <2>1, <2>2 DEF DescriptorInv, Isolated, Destroy
<1>3. ASSUME NEW l \in Listeners, StartLoop(l) PROVE DescriptorInv'
  BY <1>3 DEF DescriptorInv, Isolated, StartLoop, kernelVars
<1>4. ASSUME Poll PROVE DescriptorInv'
  BY <1>0, <1>4 DEF DescriptorInv, Isolated, Poll, kernelVars, Looping
<1>5. ASSUME NEW i \in DOMAIN Lfds, Accept(i) PROVE DescriptorInv'
  <2>1. loop \in Looping /\ loop.at = "scan"
    BY <1>0, <1>5 DEF Accept, Turn
  <2>2. Lfds[i] \in Addresses
    BY <1>0, <2>1, AddressesOf DEF KernelType, Lfds, Looping
  <2>3. queue[Lfds[i]] # <<>> => Head(queue[Lfds[i]]) \in Conns
    BY <1>0, <2>2, HeadTailProperties DEF KernelType
  <2>4. CASE queue[Lfds[i]] = <<>>
    BY <1>5, <2>1, <2>4 DEF DescriptorInv, Isolated, Accept, Looping
  <2>5. CASE queue[Lfds[i]] # <<>>
    <3>1. PICK c \in Conns : /\ loop' = [loop EXCEPT !.at = "fork", !.found = Done(i), !.clientfd = c]
                            /\ open' = [open EXCEPT ![Parent] = @ \cup {c}]
      BY <1>5, <2>3, <2>5 DEF Accept
    <3>2. loop'.at = "fork" /\ loop'.clientfd = c
      BY <2>1, <3>1 DEF Looping
    <3>3. open'[Parent] = open[Parent] \cup {c} /\ \A d \in Conns : open'[d] = open[d]
      BY <1>0, <3>1, Apart DEF KernelType
    <3> QED
      BY <1>5, <2>1, <3>2, <3>3, Apart DEF DescriptorInv, Isolated, Accept
  <2> QED
    BY <2>4, <2>5
<1>6. ASSUME Fork PROVE DescriptorInv'
  <2>1. loop \in Looping /\ loop.at = "fork" /\ loop.clientfd \in Conns /\ loop.clientfd # Parent
    BY <1>0, <1>6, Apart DEF Fork
  <2>2. loop'.at = "close" /\ loop'.clientfd = loop.clientfd
    BY <1>6, <2>1 DEF Fork, Looping
  <2>3. /\ open'[loop.clientfd] = open[Parent] /\ child'[loop.clientfd] = "started"
        /\ open'[Parent] = open[Parent]
        /\ \A c \in Conns \ {loop.clientfd} : open'[c] = open[c] /\ child'[c] = child[c]
    BY <1>0, <1>6, <2>1, Apart DEF Fork, KernelType
  <2>4. open[Parent] = fdescs_to_close \cup {loop.clientfd}
    BY <1>0, <2>1, Apart DEF DescriptorInv, Isolated, KernelType
  <2> QED
    BY <1>6, <2>1, <2>2, <2>3, <2>4 DEF DescriptorInv, Isolated, Fork
<1>7. ASSUME ForkFails PROVE DescriptorInv'
  <2>1. loop.at = "fork" /\ loop'.at = "close" /\ loop'.clientfd = loop.clientfd
    BY <1>0, <1>7 DEF ForkFails, Looping
  <2> QED
    BY <1>7, <2>1 DEF DescriptorInv, Isolated, ForkFails, kernelVars
<1>8. ASSUME CloseClient PROVE DescriptorInv'
  <2>1. loop.at = "close" /\ loop'.at = "scan" /\ loop.clientfd \in Conns
    BY <1>0, <1>8 DEF CloseClient, Looping
  <2>2. open'[Parent] = open[Parent] \ {loop.clientfd} /\ \A c \in Conns : open'[c] = open[c]
    BY <1>0, <1>8, <2>1, Apart DEF CloseClient, KernelType
  <2> QED
    BY <1>8, <2>1, <2>2, Apart DEF DescriptorInv, Isolated, CloseClient
<1>9. ASSUME NEW c \in Conns, CloseListening(c) PROVE DescriptorInv'
  <2>1. /\ open'[c] = open[c] \ fdescs_to_close /\ child[c] = "started" /\ child'[c] = "task"
        /\ open'[Parent] = open[Parent]
        /\ \A d \in Conns \ {c} : open'[d] = open[d] /\ child'[d] = child[d]
    BY <1>0, <1>9, Apart DEF CloseListening, KernelType
  <2>2. c \notin fdescs_to_close
    BY <1>0, Apart DEF KernelType
  <2>3. open'[c] = {c}
    BY <2>1, <2>2 DEF DescriptorInv
  <2> QED
    BY <1>9, <2>1, <2>3 DEF DescriptorInv, Isolated, CloseListening
<1>10. ASSUME NEW c \in Conns, Exit(c) PROVE DescriptorInv'
  <2>1. /\ child[c] = "task" /\ child'[c] = "exited" /\ open'[Parent] = open[Parent]
        /\ \A d \in Conns \ {c} : open'[d] = open[d] /\ child'[d] = child[d]
    BY <1>0, <1>10, Apart DEF Exit, KernelType
  <2> QED
    BY <1>10, <2>1 DEF DescriptorInv, Isolated, Exit
<1>11. ASSUME UNCHANGED <<open, loop, child, fdescs_to_close>> PROVE DescriptorInv'
  BY <1>11 DEF DescriptorInv, Isolated
<1> QED
  BY <1>1, <1>2, <1>3, <1>4, <1>5, <1>6, <1>7, <1>8, <1>9, <1>10, <1>11
  DEF KernelStep, ListenStep, ConnectStep, Vanish, Try, Arrive, Connected, GiveUp, ConnectThrows, Hangup,
      listenVars, kernelVars

-----------------------------------------------------------------------------
(* What a client has open                                                    *)

Tried(t) == IF client[t].at \in {"wait", "reached", "connected"} THEN {client[t].i} ELSE {}
Ends(t) == {k \in DOMAIN names : <<t, k>> \in ends}

LEMMA OneSocketIs == OneSocket <=> \A t \in Clients : Ends(t) = Tried(t)
BY DEF OneSocket, Ends, Tried

LEMMA OneSocketStep == ASSUME TypeOK, KernelStep, OneSocket PROVE OneSocket'
<1>0. /\ ClientType /\ \A u \in Clients : Ends(u) = Tried(u)
      /\ Len(names) \in Nat /\ DOMAIN names = 1 .. Len(names)
  BY OneSocketIs, NamesOf DEF TypeOK
<1>1. ASSUME NEW t \in Clients, Try(t), NEW u \in Clients PROVE Ends(u)' = Tried(u)'
  <2>1. PICK resolved \in BOOLEAN :
          /\ client' = [client EXCEPT ![t] = [at |-> IF resolved THEN "wait" ELSE "next", i |-> @.i + 1]]
          /\ ends' = IF resolved THEN ends \cup {<<t, client[t].i + 1>>} ELSE ends
    BY <1>1 DEF Try
  <2>2. client[t].i + 1 \in DOMAIN names /\ client[t].at = "next" /\ client[t].i \in Nat
    BY <1>0, <1>1 DEF ClientType, Try
  <2>3. CASE u = t
    <3>1. Ends(t) = {}
      BY <1>0, <2>2 DEF Tried
    <3>2. Tried(t)' = IF resolved THEN {client[t].i + 1} ELSE {}
      BY <1>0, <2>1 DEF Tried, ClientType
    <3>3. Ends(t)' = IF resolved THEN {client[t].i + 1} ELSE {}
      BY <2>1, <2>2, <3>1 DEF Ends
    <3> QED
      BY <2>3, <3>2, <3>3
  <2>4. CASE u # t
    <3>1. Tried(u)' = Tried(u)
      BY <1>0, <2>1, <2>4 DEF Tried, ClientType
    <3>2. Ends(u)' = Ends(u)
      BY <2>1, <2>4 DEF Ends
    <3> QED
      BY <1>0, <3>1, <3>2
  <2> QED
    BY <2>3, <2>4
<1>2. ASSUME NEW t \in Clients, GiveUp(t) \/ Hangup(t), NEW u \in Clients PROVE Ends(u)' = Tried(u)'
  <2>1. /\ ends' = ends \ {<<t, client[t].i>>} /\ client[t].at \in {"wait", "reached", "connected"}
        /\ \E there \in {"next", "closed"} : client' = [client EXCEPT ![t].at = there]
    BY <1>2 DEF GiveUp, Hangup, Moves, Attempt
  <2>2. CASE u = t
    <3>1. Ends(t) = {client[t].i}
      BY <1>0, <2>1 DEF Tried
    <3>2. Tried(t)' = {}
      BY <1>0, <2>1 DEF Tried, ClientType
    <3>3. Ends(t)' = {}
      BY <2>1, <3>1 DEF Ends
    <3> QED
      BY <2>2, <3>2, <3>3
  <2>3. CASE u # t
    <3>1. Tried(u)' = Tried(u)
      BY <1>0, <2>1, <2>3 DEF Tried, ClientType
    <3>2. Ends(u)' = Ends(u)
      BY <2>1, <2>3 DEF Ends
    <3> QED
      BY <1>0, <3>1, <3>2
  <2> QED
    BY <2>2, <2>3
<1>3. ASSUME NEW t \in Clients, Arrive(t) \/ Connected(t) \/ ConnectThrows(t), NEW u \in Clients PROVE Ends(u)' = Tried(u)'
  <2>1. ends' = ends
    BY <1>3 DEF Arrive, Connected, ConnectThrows, kernelVars
  <2>2. Tried(u)' = Tried(u)
    BY ZenonT(60), <1>0, <1>3 DEF Arrive, Connected, ConnectThrows, Moves, Tried, ClientType
  <2> QED
    BY <1>0, <2>1, <2>2 DEF Ends
<1>4. ASSUME UNCHANGED <<ends, client>>, NEW u \in Clients PROVE Ends(u)' = Tried(u)'
  BY <1>0, <1>4 DEF Ends, Tried
<1>5. \A u \in Clients : Ends(u)' = Tried(u)'
  BY <1>1, <1>2, <1>3, <1>4
  DEF KernelStep, ListenStep, ConnectStep, add_tcp, Destroy, StartLoop, Poll, Accept, Fork, ForkFails,
      CloseClient, CloseListening, Exit, Vanish, kernelVars
<1> QED
  BY <1>5 DEF OneSocket, Ends, Tried

-----------------------------------------------------------------------------
(* Where a connection is                                                     *)

LEMMA ReachedKept == ASSUME TypeOK, KernelStep, NEW c, Reached(c) PROVE Reached(c)'
<1>0. ClientType
  BY DEF TypeOK
<1>1. PICK t \in Clients : \E k \in 1 .. client[t].i : c = <<t, k>> /\ (k = client[t].i => client[t].at # "wait")
  BY DEF Reached
<1>2. PICK k \in 1 .. client[t].i : c = <<t, k>> /\ (k = client[t].i => client[t].at # "wait")
  BY <1>1
<1>3. ASSUME NEW u \in Clients, Try(u)
      PROVE  k \in 1 .. client'[t].i /\ (k = client'[t].i => client'[t].at # "wait")
  BY <1>0, <1>2, <1>3 DEF ClientType, Try
<1>4. ASSUME NEW u \in Clients, ConnectStep(u), ~Try(u)
      PROVE  k \in 1 .. client'[t].i /\ (k = client'[t].i => client'[t].at # "wait")
  BY SMTT(40), <1>0, <1>2, <1>4 DEF ClientType, ConnectStep, Arrive, Connected, GiveUp, ConnectThrows, Hangup, Moves
<1>5. k \in 1 .. client'[t].i /\ (k = client'[t].i => client'[t].at # "wait")
  BY <1>2, <1>3, <1>4 DEF KernelStep
<1> QED
  BY <1>2, <1>5 DEF Reached

\* Elements are taken out of the queues, and nothing is put in.
Thinner == \E at \in [Addresses -> [Nat -> Nat]] : \A s \in Addresses : \A i \in DOMAIN queue'[s] :
  /\ at[s][i] \in DOMAIN queue[s] /\ queue'[s][i] = queue[s][at[s][i]]
  /\ \A j \in DOMAIN queue'[s] : at[s][i] = at[s][j] => i = j

LEMMA ThinnerWaits == ASSUME Thinner, WaitsOnce PROVE WaitsOnce'
<1>1. PICK at \in [Addresses -> [Nat -> Nat]] : \A s \in Addresses : \A i \in DOMAIN queue'[s] :
        /\ at[s][i] \in DOMAIN queue[s] /\ queue'[s][i] = queue[s][at[s][i]]
        /\ \A j \in DOMAIN queue'[s] : at[s][i] = at[s][j] => i = j
  BY DEF Thinner
<1>2. ASSUME NEW s \in Addresses, NEW r \in Addresses, NEW i \in DOMAIN queue'[s], NEW j \in DOMAIN queue'[r],
             queue'[s][i] = queue'[r][j]
      PROVE  s = r /\ i = j
  <2>1. s = r /\ at[s][i] = at[r][j]
    BY <1>1, <1>2 DEF WaitsOnce
  <2> QED
    BY <1>1, <2>1
<1> QED
  BY <1>2 DEF WaitsOnce

\* One queue changes, and what is in it was at another place.
LEMMA ThinnerIf ==
  ASSUME TypeOK, NEW s \in Addresses, NEW q \in Seq(Conns), NEW f \in [Nat -> Nat],
         queue' = [queue EXCEPT ![s] = q],
         \A i \in DOMAIN q : f[i] \in DOMAIN queue[s] /\ q[i] = queue[s][f[i]],
         \A i, j \in DOMAIN q : f[i] = f[j] => i = j
  PROVE  Thinner
<1> DEFINE at == [r \in Addresses |-> [i \in Nat |-> IF r = s THEN f[i] ELSE i]]
<1>1. at \in [Addresses -> [Nat -> Nat]]
  OBVIOUS
<1>2. \A r \in Addresses : queue[r] \in Seq(Conns) /\ queue'[r] = IF r = s THEN q ELSE queue[r]
  BY DEF TypeOK, KernelType
<1>3. \A r \in Addresses : \A i \in DOMAIN queue'[r] : i \in Nat
  <2>1. \A x \in Seq(Conns) : \A i \in DOMAIN x : i \in Nat
    BY SMTT(40), LenProperties
  <2>2. \A r \in Addresses : queue'[r] \in Seq(Conns)
    BY <1>2
  <2> QED
    BY <2>1, <2>2
<1>4. ASSUME NEW r \in Addresses, NEW i \in DOMAIN queue'[r]
      PROVE  /\ at[r][i] \in DOMAIN queue[r] /\ queue'[r][i] = queue[r][at[r][i]]
             /\ \A j \in DOMAIN queue'[r] : at[r][i] = at[r][j] => i = j
  BY <1>2, <1>3
<1> QED
  BY <1>1, <1>4 DEF Thinner

LEMMA WaitsStep == ASSUME TypeOK, KernelStep, ServedInv PROVE WaitsOnce' /\ (UNCHANGED queue \/ Thinner \/ \E t \in Clients : Arrive(t))
<1>0. /\ KernelType /\ WaitsOnce /\ loop.at \in {"off", "scan", "fork", "close"}
      /\ loop.at # "off" => loop \in Looping
  BY DEF TypeOK, LoopType, Looping, ServedInv
<1>1. ASSUME NEW l \in Listeners, Destroy(l) PROVE Thinner
  <2>1. PICK closed : queue' = [s \in Addresses |-> IF s \in closed THEN <<>> ELSE queue[s]]
    BY <1>1 DEF Destroy
  <2> DEFINE at == [r \in Addresses |-> [i \in Nat |-> i]]
  <2>2. at \in [Addresses -> [Nat -> Nat]]
    OBVIOUS
  <2>3. DOMAIN <<>> = {}
    OBVIOUS
  <2>4. ASSUME NEW s \in Addresses, NEW i \in DOMAIN queue'[s] PROVE i \in DOMAIN queue[s] /\ queue'[s][i] = queue[s][i] /\ i \in Nat
    <3>1. queue[s] \in Seq(Conns) /\ s \notin closed /\ queue'[s] = queue[s]
      BY <1>0, <2>1, <2>3, <2>4 DEF KernelType
    <3> QED
      BY <2>4, <3>1, LenProperties
  <2>5. \A s \in Addresses : \A i \in DOMAIN queue'[s] : at[s][i] = i
    BY <2>4
  <2> HIDE DEF at
  <2> QED
    BY <2>2, <2>4, <2>5 DEF Thinner
<1>2. ASSUME NEW i \in DOMAIN Lfds, Accept(i) PROVE UNCHANGED queue \/ Thinner
  <2>1. Lfds[i] \in Addresses
    BY <1>0, <1>2, AddressesOf DEF KernelType, Lfds, Looping, Accept, Turn
  <2>2. SUFFICES ASSUME queue[Lfds[i]] # <<>> PROVE Thinner
    BY <1>2 DEF Accept
  <2>3. queue' = [queue EXCEPT ![Lfds[i]] = Tail(queue[Lfds[i]])] /\ queue[Lfds[i]] \in Seq(Conns)
    BY <1>0, <1>2, <2>1, <2>2 DEF Accept, KernelType
  <2> DEFINE f == [j \in Nat |-> j + 1]
             q == Tail(queue[Lfds[i]])
  <2>4. q \in Seq(Conns) /\ f \in [Nat -> Nat]
    BY <2>2, <2>3, HeadTailProperties
  <2>5. \A j \in DOMAIN q : j \in Nat /\ j + 1 \in DOMAIN queue[Lfds[i]] /\ q[j] = queue[Lfds[i]][j + 1]
    BY <2>2, <2>3, <2>4, HeadTailProperties, LenProperties
  <2> HIDE DEF q
  <2>6. \A j \in DOMAIN q : f[j] = j + 1
    BY <2>5
  <2>7. \A j, k \in DOMAIN q : f[j] = f[k] => j = k
    BY <2>5, <2>6
  <2>8. queue' = [queue EXCEPT ![Lfds[i]] = q]
    BY <2>3 DEF q
  <2> HIDE DEF f
  <2>9. \A j \in DOMAIN q : f[j] \in DOMAIN queue[Lfds[i]] /\ q[j] = queue[Lfds[i]][f[j]]
    BY <2>5, <2>6
  <2> QED
    BY <2>1, <2>4, <2>7, <2>8, <2>9, ThinnerIf
<1>3. ASSUME NEW c \in Conns, Vanish(c) PROVE Thinner
  <2>1. PICK s \in Addresses : \E i \in DOMAIN queue[s] : queue' = [queue EXCEPT ![s] = RemoveAt(@, i)]
    BY <1>3 DEF Vanish
  <2>2. PICK i \in DOMAIN queue[s] : queue' = [queue EXCEPT ![s] = RemoveAt(@, i)]
    BY <2>1
  <2>3. queue[s] \in Seq(Conns)
    BY <1>0 DEF KernelType
  <2>4. Len(queue[s]) \in Nat /\ DOMAIN queue[s] = 1 .. Len(queue[s]) /\ i \in 1 .. Len(queue[s])
    BY <2>3, LenProperties
  <2> DEFINE f == [j \in Nat |-> IF j < i THEN j ELSE j + 1]
             q == RemoveAt(queue[s], i)
  <2>5. /\ q \in Seq(Conns) /\ DOMAIN q = 1 .. Len(queue[s]) - 1
        /\ \A j \in 1 .. Len(queue[s]) - 1 : q[j] = queue[s][IF j < i THEN j ELSE j + 1]
    BY <2>3, RemoveAtIs
  <2>6. queue' = [queue EXCEPT ![s] = q]
    BY <2>2
  <2> HIDE DEF q
  <2>7. f \in [Nat -> Nat] /\ \A j \in DOMAIN q : f[j] = IF j < i THEN j ELSE j + 1
    BY <2>4, <2>5
  <2> HIDE DEF f
  <2>8. ASSUME NEW j \in DOMAIN q PROVE f[j] \in DOMAIN queue[s] /\ q[j] = queue[s][f[j]]
    <3>1. j \in 1 .. Len(queue[s]) - 1 /\ q[j] = queue[s][f[j]]
      BY <2>5, <2>7, <2>8
    <3>2. f[j] = j \/ f[j] = j + 1
      BY <2>7, <2>8
    <3> QED
      BY <2>4, <3>1, <3>2
  <2>9. ASSUME NEW j \in DOMAIN q, NEW k \in DOMAIN q, f[j] = f[k] PROVE j = k
    <3>1. j \in Int /\ k \in Int /\ i \in Int
      BY <2>4, <2>5, <2>9
    <3>2. (j < i => f[j] = j) /\ (~(j < i) => f[j] = j + 1) /\ (k < i => f[k] = k) /\ (~(k < i) => f[k] = k + 1)
      BY <2>7, <2>9
    <3> QED
      BY <2>9, <3>1, <3>2
  <2> QED
    BY <2>5, <2>6, <2>7, <2>8, <2>9, ThinnerIf
<1>4. ASSUME NEW t \in Clients, Arrive(t) PROVE WaitsOnce'
  <2>1. /\ queue' = [queue EXCEPT ![Here(t)] = Append(@, Attempt(t))]
        /\ Here(t) \in Addresses /\ Attempt(t) \in Conns
    BY <1>4, NamesOf DEF TypeOK, ClientType, Arrive, Here, Attempt
  <2>2. \A s \in Addresses : \A i \in DOMAIN queue[s] : queue[s][i] # Attempt(t)
    <3>1. ~Reached(Attempt(t))
      BY <1>4 DEF Reached, Attempt, Arrive
    <3> QED
      BY <3>1 DEF ServedInv
  <2>3. queue[Here(t)] \in Seq(Conns) /\ Len(queue[Here(t)]) \in Nat /\ DOMAIN queue[Here(t)] = 1 .. Len(queue[Here(t)])
    BY <1>0, <2>1, LenProperties DEF KernelType
  <2> DEFINE q == Append(queue[Here(t)], Attempt(t))
             n == Len(queue[Here(t)]) + 1
  <2>4. q \in Seq(Conns) /\ DOMAIN q = 1 .. n /\ q[n] = Attempt(t) /\ \A i \in 1 .. Len(queue[Here(t)]) : q[i] = queue[Here(t)][i]
    BY <2>1, <2>3, AppendProperties, LenProperties
  <2>5. \A s \in Addresses : queue'[s] = IF s = Here(t) THEN q ELSE queue[s]
    BY <1>0, <2>1 DEF KernelType
  <2> HIDE DEF q
  <2>6. ASSUME NEW s \in Addresses, NEW i \in DOMAIN queue'[s]
        PROVE  \/ s = Here(t) /\ i = n /\ queue'[s][i] = Attempt(t)
               \/ i \in DOMAIN queue[s] /\ queue'[s][i] = queue[s][i] /\ queue'[s][i] # Attempt(t)
    BY SMTT(40), <2>2, <2>3, <2>4, <2>5
  <2> QED
    BY <2>6, <1>0 DEF WaitsOnce
<1>5. UNCHANGED queue => WaitsOnce'
  BY <1>0 DEF WaitsOnce
<1>6. UNCHANGED queue \/ Thinner \/ \E t \in Clients : Arrive(t)
  BY <1>1, <1>2, <1>3
  DEF KernelStep, ListenStep, ConnectStep, add_tcp, StartLoop, Poll, Fork, ForkFails,
      CloseClient, CloseListening, Exit, Try, Connected, GiveUp, ConnectThrows, Hangup, kernelVars
<1> QED
  BY <1>0, <1>4, <1>5, <1>6, ThinnerWaits

\* What is in a queue after the step was in one before it, or has just arrived.
LEMMA InQueue ==
  ASSUME TypeOK, KernelStep, ServedInv, NEW s \in Addresses, NEW i \in DOMAIN queue'[s]
  PROVE  \/ \E r \in Addresses : \E j \in DOMAIN queue[r] : queue'[s][i] = queue[r][j]
         \/ \E t \in Clients : Arrive(t) /\ queue'[s][i] = Attempt(t)
<1>1. CASE UNCHANGED queue
  BY <1>1
<1>2. CASE Thinner
  BY <1>2 DEF Thinner
<1>3. ASSUME NEW t \in Clients, Arrive(t)
      PROVE  (\E j \in DOMAIN queue[s] : queue'[s][i] = queue[s][j]) \/ queue'[s][i] = Attempt(t)
  <2>1. /\ queue' = [queue EXCEPT ![Here(t)] = Append(@, Attempt(t))]
        /\ Here(t) \in Addresses /\ Attempt(t) \in Conns
    BY <1>3, NamesOf DEF TypeOK, ClientType, Arrive, Here, Attempt
  <2>2. CASE s # Here(t)
    <3>1. queue'[s] = queue[s]
      BY <2>1, <2>2 DEF TypeOK, KernelType
    <3> QED
      BY <3>1
  <2>3. CASE s = Here(t)
    <3>1. queue[s] \in Seq(Conns) /\ queue'[s] = Append(queue[s], Attempt(t))
      BY <2>1, <2>3 DEF TypeOK, KernelType
    <3>2. DOMAIN queue[s] = 1 .. Len(queue[s]) /\ Len(queue[s]) \in Nat
      BY <3>1, LenProperties
    <3>3. /\ DOMAIN queue'[s] = 1 .. Len(queue[s]) + 1 /\ queue'[s][Len(queue[s]) + 1] = Attempt(t)
          /\ \A j \in 1 .. Len(queue[s]) : queue'[s][j] = queue[s][j]
      BY <2>1, <3>1, AppendProperties, LenProperties
    <3> QED
      BY <3>2, <3>3
  <2> QED
    BY <2>2, <2>3
<1> QED
  BY <1>1, <1>2, <1>3, WaitsStep

\* What is accepted leaves the queue.
LEMMA TakenStep ==
  ASSUME TypeOK, KernelStep, ServedInv, NEW c \in Conns, Taken(c)', ~Taken(c)
  PROVE  /\ \E s \in Addresses : \E i \in DOMAIN queue[s] : queue[s][i] = c
         /\ \A s \in Addresses : \A i \in DOMAIN queue'[s] : queue'[s][i] # c
<1>0. /\ KernelType /\ WaitsOnce /\ (loop.at # "off" => loop \in Looping)
      /\ loop.at \in {"fork", "close"} => loop.clientfd \in Conns
  BY DEF TypeOK, LoopType, Looping, ServedInv
<1>1. ASSUME NEW d \in Conns, CloseListening(d) \/ Exit(d) PROVE FALSE
  BY <1>0, <1>1 DEF Taken, CloseListening, Exit, KernelType
<1>2. ASSUME Fork \/ ForkFails \/ CloseClient PROVE FALSE
  BY <1>0, <1>2 DEF Taken, Fork, ForkFails, CloseClient, KernelType, Looping
<1>3. ASSUME NEW l \in Listeners, StartLoop(l) PROVE FALSE
  BY <1>3 DEF Taken, StartLoop
<1>4. ASSUME Poll PROVE FALSE
  BY <1>0, <1>4 DEF Taken, Poll, Looping
<1>5. ASSUME UNCHANGED <<loop, child>> PROVE FALSE
  BY <1>5 DEF Taken
<1>6. PICK i \in DOMAIN Lfds : Accept(i)
  BY <1>1, <1>2, <1>3, <1>4, <1>5
  DEF KernelStep, ListenStep, add_tcp, Destroy, listenVars
<1>7. loop \in Looping /\ loop.at = "scan" /\ Lfds[i] \in Addresses
  BY <1>0, <1>6, AddressesOf DEF KernelType, Lfds, Looping, Accept, Turn
<1> DEFINE q == queue[Lfds[i]]
<1>8. q # <<>>
  BY <1>6, <1>7 DEF Taken, Accept, Looping
<1>9. loop'.clientfd = Head(q) /\ child' = child /\ queue' = [queue EXCEPT ![Lfds[i]] = Tail(q)]
  BY <1>6, <1>7, <1>8 DEF Accept, Looping
<1>10. c = Head(q)
  BY <1>9 DEF Taken
<1>11. q \in Seq(Conns) /\ Len(q) \in Nat /\ DOMAIN q = 1 .. Len(q) /\ 1 \in DOMAIN q /\ q[1] = c
  <2>1. q \in Seq(Conns)
    BY <1>0, <1>7 DEF KernelType
  <2>2. Len(q) \in Nat /\ DOMAIN q = 1 .. Len(q) /\ Len(q) # 0
    BY <1>8, <2>1, LenProperties, EmptySeq
  <2> QED
    BY <1>10, <2>1, <2>2
<1>12. ASSUME NEW s \in Addresses, NEW j \in DOMAIN queue'[s] PROVE queue'[s][j] # c
  <2>1. CASE s = Lfds[i]
    <3>1. queue'[s] = Tail(q)
      BY <1>0, <1>7, <1>9, <2>1 DEF KernelType
    <3>2. Tail(q) \in Seq(Conns) /\ Len(Tail(q)) = Len(q) - 1 /\ \A k \in 1 .. Len(Tail(q)) : Tail(q)[k] = q[k + 1]
      BY <1>8, <1>11, HeadTailProperties
    <3>3. j \in 1 .. Len(q) - 1
      BY <1>12, <3>1, <3>2, LenProperties
    <3>4. queue'[s][j] = q[j + 1] /\ j + 1 \in DOMAIN q /\ j + 1 # 1
      BY <1>11, <3>1, <3>2, <3>3
    <3> QED
      BY <1>0, <1>7, <1>11, <3>4 DEF WaitsOnce
  <2>2. CASE s # Lfds[i]
    <3>1. queue'[s] = queue[s]
      BY <1>0, <1>7, <1>9, <2>2 DEF KernelType
    <3> QED
      BY <1>0, <1>7, <1>11, <1>12, <2>2, <3>1 DEF WaitsOnce
  <2> QED
    BY <2>1, <2>2
<1> QED
  BY <1>7, <1>11, <1>12

LEMMA ServedStep == ASSUME TypeOK, KernelStep, ServedInv PROVE ServedInv'
<1>0. /\ KernelType /\ (loop.at # "off" => loop \in Looping)
      /\ loop.at \in {"fork", "close"} => loop.clientfd \in Conns
  BY DEF TypeOK, LoopType, Looping
<1>1. WaitsOnce'
  BY WaitsStep
<1>2. ASSUME NEW s \in Addresses, NEW i \in DOMAIN queue'[s], NEW c \in Conns, queue'[s][i] = c
      PROVE  Reached(c)' /\ ~Taken(c)'
  <2>1. CASE \E r \in Addresses : \E j \in DOMAIN queue[r] : c = queue[r][j]
    <3>1. Reached(c) /\ ~Taken(c)
      BY <2>1 DEF ServedInv
    <3> QED
      BY <1>2, <3>1, ReachedKept, TakenStep
  <2>2. ASSUME NEW t \in Clients, Arrive(t), c = Attempt(t) PROVE Reached(c)' /\ ~Taken(c)'
    <3>1. ~Reached(c)
      BY <2>2 DEF Reached, Attempt, Arrive
    <3>2. ~Taken(c)
      BY <3>1 DEF ServedInv
    <3>3. UNCHANGED <<loop, child>>
      <4>1. UNCHANGED listenVars \/ UNCHANGED client
        BY DEF KernelStep
      <4>2. client'[t] # client[t]
        BY <2>2 DEF Arrive, TypeOK, ClientType
      <4> QED
        BY <4>1, <4>2 DEF listenVars
    <3>4. Reached(c)'
      <4>1. client'[t].at = "reached" /\ client'[t].i = client[t].i /\ client[t].i \in 1 .. client[t].i
        BY <2>2 DEF Arrive, TypeOK, ClientType
      <4> QED
        BY <2>2, <4>1 DEF Reached, Attempt
    <3> QED
      BY <3>2, <3>3, <3>4 DEF Taken
  <2> QED
    BY <1>2, <2>1, <2>2, InQueue
<1>3. ASSUME NEW c \in Conns, Taken(c)' PROVE Reached(c)'
  <2>1. Reached(c)
    BY <1>3, TakenStep DEF ServedInv
  <2> QED
    BY <2>1, ReachedKept
<1>4. (loop.at = "fork" => child[loop.clientfd] = "none")'
  <2>1. SUFFICES ASSUME loop'.at = "fork" PROVE child'[loop'.clientfd] = "none"
    OBVIOUS
  <2>2. CASE UNCHANGED loop
    <3>1. loop.at = "fork" /\ child[loop.clientfd] = "none" /\ loop'.clientfd = loop.clientfd
      BY <2>1, <2>2 DEF ServedInv
    <3>2. ASSUME NEW d \in Conns, CloseListening(d) \/ Exit(d) PROVE child'[loop.clientfd] = "none"
      BY <1>0, <3>1, <3>2 DEF CloseListening, Exit, KernelType
    <3>3. ~Fork
      BY <1>0, <2>1, <3>1 DEF Fork, Looping
    <3> QED
      BY <3>1, <3>2, <3>3
      DEF KernelStep, ListenStep, add_tcp, Destroy, StartLoop, Poll, Accept, ForkFails, CloseClient,
          listenVars
  <2>3. CASE ~UNCHANGED loop
    <3>1. ~(\E l \in Listeners : StartLoop(l)) /\ ~Poll /\ ~Fork /\ ~ForkFails /\ ~CloseClient
      BY <1>0, <2>1 DEF StartLoop, Poll, Fork, ForkFails, CloseClient, Looping
    <3>2. PICK i \in DOMAIN Lfds : Accept(i)
      BY <2>3, <3>1 DEF KernelStep, ListenStep, add_tcp, Destroy, CloseListening, Exit, listenVars
    <3>3. loop \in Looping /\ loop.at = "scan" /\ Lfds[i] \in Addresses
      BY <1>0, <3>2, AddressesOf DEF KernelType, Lfds, Looping, Accept, Turn
    <3>4. queue[Lfds[i]] # <<>> /\ loop'.clientfd = Head(queue[Lfds[i]]) /\ child' = child
      BY <2>1, <3>2, <3>3 DEF Accept, Looping
    <3>5. 1 \in DOMAIN queue[Lfds[i]] /\ queue[Lfds[i]][1] = loop'.clientfd /\ loop'.clientfd \in Conns
      <4>1. queue[Lfds[i]] \in Seq(Conns)
        BY <1>0, <3>3 DEF KernelType
      <4> QED
        BY <3>4, <4>1, LenProperties, EmptySeq, HeadTailProperties
    <3>6. ~Taken(queue[Lfds[i]][1])
      BY <3>3, <3>5 DEF ServedInv
    <3> QED
      BY <1>0, <3>4, <3>5, <3>6 DEF Taken, KernelType
  <2> QED
    BY <2>2, <2>3
<1>5. \A s \in Addresses : \A i \in DOMAIN queue'[s] : queue'[s][i] \in Conns
  BY KernelTypeStep DEF KernelType
<1> QED
  BY <1>1, <1>2, <1>3, <1>4, <1>5 DEF ServedInv, Reached, Taken

-----------------------------------------------------------------------------
(* The memory of the processes                                               *)

LEMMA HomeIs ==
  /\ DOMAIN Home = AllThreads
  /\ \A t \in ParentThreads : Home[t] = Parent
  /\ \A c \in Conns : Home[c] = c
  /\ \A t \in AllThreads : Home[t] \in Servers
  /\ Once!Processes = Servers
<1>1. DOMAIN Home = AllThreads /\ \A t \in AllThreads : Home[t] = IF t \in ParentThreads THEN Parent ELSE t
  BY DEF Home, AllThreads
<1>2. /\ \A t \in ParentThreads : Home[t] = Parent
      /\ \A c \in Conns : Home[c] = c
      /\ \A t \in AllThreads : Home[t] \in Servers
  BY <1>1, ThreadsAssumption DEF AllThreads, Servers
<1>3. Once!Processes = {Home[t] : t \in AllThreads}
  BY <1>1 DEF Once!Processes
<1>4. {Home[t] : t \in AllThreads} = Servers
  BY <1>2, ThreadsAssumption DEF Servers, AllThreads
<1> QED
  BY <1>1, <1>2, <1>3, <1>4

LEMMA MemoryInit == Init => MemoryType /\ MemoryInv
<1> SUFFICES ASSUME Init PROVE MemoryType /\ MemoryInv
  OBVIOUS
<1>1. ListenInit /\ Once!OnceInitial(ParentThreads)
  BY DEF Init
<1>2. /\ ptr = [p \in Servers |-> "NULL"]
      /\ holder = [p \in Servers |-> Nobody]
      /\ made = [p \in Servers |-> 0]
      /\ pc = [t \in AllThreads |-> IF t \in ParentThreads THEN "test" ELSE "off"]
  BY <1>1, HomeIs DEF Once!OnceInitial
<1> QED
  BY <1>1, <1>2, HomeIs, Apart, ThreadsAssumption DEF MemoryType, MemoryInv, ListenInit, AllThreads

MemoryStep ==
  \/ ForkChild
  \/ \E c \in Conns : ExitChild(c)
  \/ \E t \in AllThreads : /\ t \in ParentThreads \/ child[t] = "task"
                           /\ Once!Step(t) /\ UNCHANGED child
  \/ /\ UNCHANGED memory
     /\ UNCHANGED child \/ \E c \in Conns : CloseListening(c)

LEMMA MemorySteps == [Next]_vars => MemoryStep
<1>1. Next => MemoryStep
  BY DEF Next, Loop, Task, Thread, MemoryStep, AllThreads, add_tcp, Destroy, StartLoop, Poll, Accept,
         ForkFails, CloseClient, Vanish, listenVars
<1>2. UNCHANGED vars => MemoryStep
  BY DEF vars, listenVars, MemoryStep
<1> QED
  BY <1>1, <1>2

LEMMA ThreadStep ==
  ASSUME MemoryType, MemoryInv, NEW t \in AllThreads, t \in ParentThreads \/ child[t] = "task",
         Once!Step(t), UNCHANGED child
  PROVE  MemoryType' /\ MemoryInv'
<1> DEFINE p == Home[t]
<1>0. /\ p \in Servers /\ t # Nobody
      /\ \A c \in Conns : child[c] # "task" => t # c /\ p # c
  <2>1. \A c \in Conns : child[c] # "task" => t # c /\ p # c
    BY HomeIs, Apart, ThreadsAssumption DEF AllThreads
  <2> QED
    BY <2>1, HomeIs, ThreadsAssumption DEF AllThreads
<1>1. CASE Once!Test(t) \/ Once!Use(t)
  <2>1. UNCHANGED <<ptr, holder, made>> /\ \E q \in {"lock", "use", "done"} : pc' = [pc EXCEPT ![t] = q] /\ (q = "use" => ptr[p] # "NULL")
    BY <1>1 DEF Once!Test, Once!Use, Once!Moves
  <2> HIDE DEF p
  <2>2. MemoryType'
    BY <2>1 DEF MemoryType
  <2> QED
    BY <1>0, <2>1, <2>2 DEF MemoryInv, MemoryType, p
<1>2. CASE Once!Lock(t)
  <2>1. /\ holder[p] = Nobody /\ holder' = [holder EXCEPT ![p] = t] /\ UNCHANGED <<ptr, made>>
        /\ pc[t] = "lock" /\ pc' = [pc EXCEPT ![t] = IF ptr[p] = "NULL" THEN "make" ELSE "unlock"]
    BY <1>2 DEF Once!Lock, Once!Hold, Once!Moves
  <2>2. MemoryType'
    BY <1>0, <2>1 DEF MemoryType
  <2>3. ptr[p] \in {"NULL", "built"}
    BY <1>0, <2>1 DEF MemoryInv, MemoryType
  <2>4. \A u \in AllThreads : Home[u] = p => pc[u] \notin {"make", "finish", "unlock"}
    BY <1>0, <2>1, ThreadsAssumption DEF MemoryInv, AllThreads
  <2> HIDE DEF p
  <2> QED
    BY <1>0, <2>1, <2>2, <2>3, <2>4 DEF MemoryInv, MemoryType, p
<1>3. CASE Once!Make(t)
  <2>1. /\ ptr' = [ptr EXCEPT ![p] = "raw"] /\ made' = [made EXCEPT ![p] = @ + 1] /\ UNCHANGED holder
        /\ pc[t] = "make" /\ pc' = [pc EXCEPT ![t] = "finish"]
    BY <1>3 DEF Once!Make, Once!Moves
  <2>2. holder[p] = t /\ made[p] = 0
    BY <1>0, <2>1 DEF MemoryInv
  <2>3. MemoryType'
    BY <1>0, <2>1, <2>2 DEF MemoryType
  <2>4. \A u \in AllThreads \ {t} : Home[u] = p => pc[u] \notin {"make", "finish", "unlock"}
    BY <2>2 DEF MemoryInv
  <2> HIDE DEF p
  <2> QED
    BY <1>0, <2>1, <2>2, <2>3, <2>4 DEF MemoryInv, MemoryType, p
<1>4. CASE Once!Finish(t)
  <2>1. /\ ptr' = [ptr EXCEPT ![p] = "built"] /\ UNCHANGED <<holder, made>>
        /\ pc[t] = "finish" /\ pc' = [pc EXCEPT ![t] = "unlock"]
    BY <1>4 DEF Once!Finish, Once!Moves
  <2>2. holder[p] = t
    BY <1>0, <2>1 DEF MemoryInv
  <2>3. MemoryType'
    BY <1>0, <2>1 DEF MemoryType
  <2>4. \A u \in AllThreads \ {t} : Home[u] = p => pc[u] \notin {"make", "finish", "unlock"}
    BY <2>2 DEF MemoryInv
  <2> HIDE DEF p
  <2> QED
    BY <1>0, <2>1, <2>2, <2>3, <2>4 DEF MemoryInv, MemoryType, p
<1>5. CASE Once!MakeThrows(t) \/ Once!Unlock(t)
  <2>1. /\ holder' = [holder EXCEPT ![p] = Nobody] /\ UNCHANGED <<ptr, made>>
        /\ pc[t] \in {"make", "unlock"} /\ pc' = [pc EXCEPT ![t] = "done"]
    BY <1>5 DEF Once!MakeThrows, Once!Unlock, Once!LetGo, Once!Moves
  <2>2. holder[p] = t /\ ptr[p] # "raw"
    BY <1>0, <2>1 DEF MemoryInv
  <2>3. MemoryType'
    BY <1>0, <2>1 DEF MemoryType
  <2>4. \A u \in AllThreads \ {t} : Home[u] = p => pc[u] \notin {"make", "finish", "unlock"}
    BY <2>2 DEF MemoryInv
  <2> HIDE DEF p
  <2> QED
    BY <1>0, <2>1, <2>2, <2>3, <2>4 DEF MemoryInv, MemoryType, p
<1> QED
  BY <1>1, <1>2, <1>3, <1>4, <1>5 DEF Once!Step

LEMMA MemoryStepInv ==
  ASSUME TypeOK, ServedInv, MemoryType, MemoryInv, [Next]_vars
  PROVE  MemoryType' /\ MemoryInv'
<1>0. KernelType /\ (loop.at = "fork" => loop.clientfd \in Conns /\ child[loop.clientfd] = "none")
  BY DEF TypeOK, LoopType, ServedInv
<1>1. ASSUME ForkChild PROVE MemoryType' /\ MemoryInv'
  <2>1. PICK c \in Conns : c = loop.clientfd /\ child[c] = "none"
    BY <1>0, <1>1 DEF ForkChild, Fork
  <2>2. /\ ptr' = [ptr EXCEPT ![c] = ptr[Parent]] /\ holder' = [holder EXCEPT ![c] = holder[Parent]]
        /\ pc' = [pc EXCEPT ![c] = "test"] /\ UNCHANGED made
        /\ child' = [child EXCEPT ![c] = "started"]
    BY <1>1, <2>1 DEF ForkChild, Fork
  <2>3. c \in Servers /\ Parent \in Servers /\ c # Parent /\ c \in AllThreads /\ Home[c] = c
    BY Apart, HomeIs DEF AllThreads
  <2>4. MemoryType'
    BY <2>2, <2>3 DEF MemoryType
  <2>5. \A u \in AllThreads \ {c} : Home[u] # c
    BY HomeIs, Apart DEF AllThreads
  <2>6. \A q \in Servers : (made[q] <= 1 /\ (ptr[q] = "NULL" => made[q] = 0) /\ (ptr[q] = "raw" => holder[q] # Nobody))'
    BY <2>1, <2>2, <2>3 DEF MemoryInv, MemoryType
  <2>7. \A u \in AllThreads :
          (/\ pc[u] \in {"make", "finish", "unlock"} => holder[Home[u]] = u
           /\ pc[u] = "make" => ptr[Home[u]] = "NULL"
           /\ pc[u] = "unlock" => ptr[Home[u]] = "built"
           /\ pc[u] = "use" => ptr[Home[u]] # "NULL")'
    <3>1. \A u \in AllThreads \ {c} : pc'[u] = pc[u] /\ holder'[Home[u]] = holder[Home[u]] /\ ptr'[Home[u]] = ptr[Home[u]]
      BY <2>2, <2>5, HomeIs DEF MemoryType
    <3>2. pc'[c] = "test" /\ UNCHANGED Home
      BY <2>2, <2>3 DEF MemoryType, Home
    <3> QED
      BY <3>1, <3>2 DEF MemoryInv
  <2>8. \A d \in Conns : child'[d] # "task" => made'[d] = 0 /\ pc'[d] \in {"off", "test"}
    BY <1>0, <2>1, <2>2, <2>3 DEF MemoryInv, MemoryType, KernelType, AllThreads
  <2> QED
    BY <2>4, <2>6, <2>7, <2>8 DEF MemoryInv
<1>2. ASSUME NEW c \in Conns, ExitChild(c) PROVE MemoryType' /\ MemoryInv'
  <2>1. /\ ptr' = [ptr EXCEPT ![c] = "NULL"] /\ holder' = [holder EXCEPT ![c] = Nobody]
        /\ made' = [made EXCEPT ![c] = 0] /\ pc' = [pc EXCEPT ![c] = "off"]
        /\ child' = [child EXCEPT ![c] = "exited"]
    BY <1>2 DEF ExitChild, Exit
  <2>2. c \in Servers /\ c \in AllThreads
    BY Apart DEF AllThreads
  <2>3. MemoryType'
    BY <2>1, <2>2 DEF MemoryType
  <2>4. \A u \in AllThreads \ {c} : Home[u] # c
    BY HomeIs, Apart DEF AllThreads
  <2>5. \A q \in Servers : (made[q] <= 1 /\ (ptr[q] = "NULL" => made[q] = 0) /\ (ptr[q] = "raw" => holder[q] # Nobody))'
    BY <2>1, <2>2 DEF MemoryInv, MemoryType
  <2>6. \A u \in AllThreads :
          (/\ pc[u] \in {"make", "finish", "unlock"} => holder[Home[u]] = u
           /\ pc[u] = "make" => ptr[Home[u]] = "NULL"
           /\ pc[u] = "unlock" => ptr[Home[u]] = "built"
           /\ pc[u] = "use" => ptr[Home[u]] # "NULL")'
    <3>1. \A u \in AllThreads \ {c} : pc'[u] = pc[u] /\ holder'[Home[u]] = holder[Home[u]] /\ ptr'[Home[u]] = ptr[Home[u]]
      BY <2>1, <2>4, HomeIs DEF MemoryType
    <3>2. pc'[c] = "off" /\ UNCHANGED Home
      BY <2>1, <2>2 DEF MemoryType, Home
    <3> QED
      BY <3>1, <3>2 DEF MemoryInv
  <2>7. \A d \in Conns : child'[d] # "task" => made'[d] = 0 /\ pc'[d] \in {"off", "test"}
    BY <1>0, <2>1, <2>2 DEF MemoryInv, MemoryType, KernelType, AllThreads, Servers
  <2> QED
    BY <2>3, <2>5, <2>6, <2>7 DEF MemoryInv
<1>3. ASSUME NEW t \in AllThreads, t \in ParentThreads \/ child[t] = "task", Once!Step(t), UNCHANGED child
      PROVE  MemoryType' /\ MemoryInv'
  BY <1>3, ThreadStep
<1>4. ASSUME UNCHANGED memory, UNCHANGED child PROVE MemoryType' /\ MemoryInv'
  BY <1>4 DEF MemoryType, MemoryInv, memory, Home
<1>5. ASSUME UNCHANGED memory, NEW c \in Conns, CloseListening(c) PROVE MemoryType' /\ MemoryInv'
  <2>1. \A d \in Conns : child'[d] # "task" => child[d] # "task"
    BY <1>0, <1>5 DEF CloseListening, KernelType
  <2> QED
    BY <1>5, <2>1 DEF MemoryType, MemoryInv, memory, Home
<1> QED
  BY <1>1, <1>2, <1>3, <1>4, <1>5, MemorySteps DEF MemoryStep

-----------------------------------------------------------------------------
(* The theorems                                                              *)

ServerInv == TypeOK /\ DescriptorInv /\ OneSocket /\ ServedInv /\ MemoryType /\ MemoryInv

LEMMA ServerInit == Init => ServerInv
<1> SUFFICES ASSUME Init PROVE ServerInv
  OBVIOUS
<1>1. TypeOK /\ MemoryType /\ MemoryInv
  BY TypeInit, MemoryInit
<1>2. KernelInit /\ ListenInit /\ ConnectInit
  BY DEF Init
<1>3. DescriptorInv
  BY <1>2, Apart DEF KernelInit, ListenInit, DescriptorInv, Isolated
<1>4. OneSocket
  BY <1>2 DEF KernelInit, ConnectInit, OneSocket
<1>5. \A s \in Addresses : DOMAIN queue[s] = {}
  BY <1>2 DEF KernelInit
<1>6. ServedInv
  BY <1>2, <1>5 DEF ListenInit, ServedInv, WaitsOnce, Taken
<1> QED
  BY <1>1, <1>3, <1>4, <1>6 DEF ServerInv

LEMMA ServerStep == ServerInv /\ [Next]_vars => ServerInv'
<1> SUFFICES ASSUME ServerInv, [Next]_vars PROVE ServerInv'
  OBVIOUS
<1>1. KernelStep
  BY KernelSteps
<1>2. TypeOK' /\ DescriptorInv' /\ OneSocket' /\ ServedInv'
  BY <1>1, TypeStep, DescriptorStep, OneSocketStep, ServedStep DEF ServerInv
<1>3. MemoryType' /\ MemoryInv'
  BY MemoryStepInv DEF ServerInv
<1> QED
  BY <1>2, <1>3 DEF ServerInv

\* Whatever clients, listeners, threads and forks do, in any order, the parts of
\* the invariant hold.
LEMMA ServerAlways == Spec => []ServerInv
BY ServerInit, ServerStep, PTL DEF Spec

\* A child's task has its own connection open and no socket to listen on, and
\* the parent no connection but between accept and close; network.cc 507-533.
THEOREM IsolatedThm == Spec => []Isolated
<1>1. ServerInv => Isolated
  BY DEF ServerInv, DescriptorInv
<1> QED
  BY <1>1, ServerAlways, PTL

\* A client that goes on to the next address has closed what it tried before;
\* network.cc 187-223.
THEOREM OneSocketThm == Spec => []OneSocket
<1>1. ServerInv => OneSocket
  BY DEF ServerInv
<1> QED
  BY <1>1, ServerAlways, PTL

\* A connection waits at one address at most, once, and is never accepted again
\* by whatever address: of one connection there is one child; network.cc 507-513.
THEOREM ServedThm == Spec => []ServedInv
<1>1. ServerInv => ServedInv
  BY DEF ServerInv
<1> QED
  BY <1>1, ServerAlways, PTL

\* In each process the value is made once at most, and who comes out of init()
\* finds the pointer set, thread.h 145-153, with fork (network.cc 513) at any
\* moment.  What it points to is built for who had the mutex; who saw the pointer
\* outside of it may still find it unbuilt.
THEOREM OnceBuiltThm == Spec => []OnceBuilt
<1>1. ServerInv => OnceBuilt
  BY HomeIs DEF ServerInv, MemoryInv, OnceBuilt, Once!OnceBuilt
<1> QED
  BY <1>1, ServerAlways, PTL
=============================================================================
