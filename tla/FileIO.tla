------------------------------- MODULE FileIO -------------------------------
(***************************************************************************)
(* bwct::File (fdhelper.h, fdhelper.cc): read and readline through the      *)
(* buffer readbuf, write, lseek, close and open, with the waiting that       *)
(* Network::Net puts in (network.cc, mywaitread and mywaitwrite), and the   *)
(* same loops as CSSL::Network has them (ssl.cc 92-236).                    *)
(*                                                                         *)
(* The File is of one of four sorts: "file", a regular file opened for      *)
(* reading; "net", the socket of a Network::Net; "plain" and "tls", that of *)
(* a CSSL::Network without and with a context.  Of OpenSSL there is what    *)
(* SSL_get_error tells the loops.  Bytes are known by their position in the *)
(* stream.  One action is one call into the kernel or one turn of a loop.   *)
(* A File belongs to one thread; its partner is the kernel and the peer.    *)
(***************************************************************************)
EXTENDS Integers, Sequences, SequencesExt

CONSTANTS
  Sorts,     \* those to look at
  Total,     \* length of the file, or of what the peer sends
  Kind,      \* Kind[i]: what byte i is to readline
  BufSize,   \* sizeof(readbuf)
  MaxRead,   \* bound: the largest n of a read or write
  MaxLine,   \* the argument maxlength of readline
  MaxOut     \* bound: what is written on one connection

ASSUME SortsAssumption == Sorts \subseteq {"file", "net", "plain", "tls"}
ASSUME SizeAssumption ==
  Total \in Nat /\ BufSize \in Nat \ {0} /\ MaxRead \in Nat /\ MaxLine \in Nat /\ MaxOut \in Nat
ASSUME KindAssumption == Kind \in [1 .. Total -> {"char", "cr", "nl", "nul"}]

VARIABLES
  sort,     \* of the File
  opened,   \* fd >= 0
  off,      \* how many bytes the kernel has handed out
  sent,     \* how many bytes there are to hand out so far
  fin,      \* there will be no more
  rbuf,     \* the rbufsize bytes from rbufpos on
  pc,       \* where the call is
  n, nleft, \* of readn and writen
  part,     \* what readn has put into the caller's memory
  lpos,     \* pos of readline, -1 outside of readline
  line,     \* ret of readline
  out,      \* the bytes write has given to the kernel
  handed,   \* how many bytes the returned calls of write were given
  pos,      \* ghost: the position the caller stands at
  spoiled   \* ghost: see NothingLost

rvars == <<off, rbuf, part, pos>>
lvars == <<lpos, line>>
wvars == <<out, handed>>
cvars == <<sort, opened, sent, fin>>
vars == <<cvars, rvars, pc, n, nleft, lvars, wvars, spoiled>>

PC == {"idle", "loop", "micro", "wait", "wantwrite", "return", "wmicro", "wwait"}
Bytes == 1 .. Total

Net == sort # "file"
CSSL == sort \in {"plain", "tls"}

TypeOK ==
  /\ sort \in Sorts
  /\ opened \in BOOLEAN /\ fin \in BOOLEAN /\ spoiled \in BOOLEAN
  /\ off \in 0 .. Total /\ sent \in 0 .. Total /\ pos \in Nat
  /\ rbuf \in Seq(Bytes) /\ Len(rbuf) <= BufSize
  /\ pc \in PC
  /\ n \in Nat /\ nleft \in 0 .. n
  /\ part \in Seq(Bytes)
  /\ lpos \in -1 .. MaxLine - 1 /\ line \in Seq(Bytes)
  /\ out \in Seq(Nat) /\ handed \in Nat

Init ==
  /\ sort \in Sorts
  /\ opened = TRUE
  /\ off = 0
  /\ sent = IF Net THEN 0 ELSE Total
  /\ fin = ~Net
  /\ rbuf = <<>>
  /\ pc = "idle"
  /\ n = 0 /\ nleft = 0
  /\ part = <<>>
  /\ lpos = -1 /\ line = <<>>
  /\ out = <<>> /\ handed = 0
  /\ pos = 0
  /\ spoiled = FALSE

Take(s, k) == SubSeq(s, 1, k)
Drop(s, k) == SubSeq(s, k + 1, Len(s))
Lesser(a, b) == IF a < b THEN a ELSE b

\* The bytes after position p, k of them.
From(p, k) == [i \in 1 .. k |-> p + i]

-----------------------------------------------------------------------------
(* The other end                                                            *)

Arrive ==
  /\ ~fin
  /\ sent < Total
  /\ sent' = sent + 1
  /\ UNCHANGED <<sort, opened, fin, rvars, pc, n, nleft, lvars, wvars, spoiled>>

Hangup ==
  /\ ~fin
  /\ fin' = TRUE
  /\ UNCHANGED <<sort, opened, sent, rvars, pc, n, nleft, lvars, wvars, spoiled>>

-----------------------------------------------------------------------------
(* File::readn, for read and for readline                                   *)

Read(k) ==
  /\ pc = "idle"
  /\ opened
  /\ n' = k /\ nleft' = k
  /\ part' = <<>>
  /\ pc' = IF k = 0 THEN "return" ELSE "loop"
  /\ UNCHANGED <<cvars, off, rbuf, pos, lvars, wvars, spoiled>>

\* Mutant: rbufpos is not advanced.
StuckCopy ==
  /\ pc = "loop"
  /\ LET copybytes == Lesser(Len(rbuf), nleft)
     IN  /\ part' = part \o Take(rbuf, copybytes)
         /\ rbuf' = Take(rbuf, Len(rbuf) - copybytes)
         /\ nleft' = nleft - copybytes
  /\ pc' = IF nleft' = 0 THEN "return" ELSE "micro"
  /\ UNCHANGED <<cvars, off, pos, n, lvars, wvars, spoiled>>

\* Take what the buffer has.
Copy ==
  /\ pc = "loop"
  /\ LET copybytes == Lesser(Len(rbuf), nleft)
     IN  /\ part' = part \o Take(rbuf, copybytes)
         /\ rbuf' = Drop(rbuf, copybytes)
         /\ nleft' = nleft - copybytes
  /\ pc' = IF nleft' = 0 THEN "return" ELSE "micro"
  /\ UNCHANGED <<cvars, off, pos, n, lvars, wvars, spoiled>>

\* Mutant: the buffer must become full.
FillWhole ==
  /\ pc = "micro"
  /\ nleft < BufSize
  /\ sent - off >= BufSize
  /\ rbuf' = From(off, BufSize)
  /\ off' = off + BufSize
  /\ pc' = "loop"
  /\ UNCHANGED <<cvars, pos, part, n, nleft, lvars, wvars, spoiled>>

\* microread into the buffer, when less than a buffer is left to read.
Fill ==
  /\ pc = "micro"
  /\ nleft < BufSize
  /\ \E k \in 1 .. Lesser(BufSize, sent - off) :
       /\ rbuf' = From(off, k)
       /\ off' = off + k
  /\ pc' = "loop"
  /\ UNCHANGED <<cvars, pos, part, n, nleft, lvars, wvars, spoiled>>

\* microread into the caller's memory otherwise.
Direct ==
  /\ pc = "micro"
  /\ nleft >= BufSize
  /\ \E k \in 1 .. Lesser(nleft, sent - off) :
       /\ part' = part \o From(off, k)
       /\ off' = off + k
       /\ nleft' = nleft - k
  /\ pc' = IF nleft' = 0 THEN "return" ELSE "loop"
  /\ UNCHANGED <<cvars, rbuf, pos, n, lvars, wvars, spoiled>>

\* microread returns 0: goto exit.
EndOfFile ==
  /\ pc = "micro"
  /\ fin /\ off >= sent
  /\ pc' = "return"
  /\ UNCHANGED <<cvars, rvars, n, nleft, lvars, wvars, spoiled>>

\* Mutant: every error ends the read.
ImpatientAgain ==
  /\ pc = "micro"
  /\ pc' = "return"
  /\ UNCHANGED <<cvars, rvars, n, nleft, lvars, wvars, spoiled>>

\* EAGAIN or EINTR; SSL_ERROR_WANT_READ.
Again ==
  /\ pc = "micro"
  /\ pc' = "wait"
  /\ UNCHANGED <<cvars, rvars, n, nleft, lvars, wvars, spoiled>>

\* waitread: at once for a File, after poll for a Net.
WaitRead ==
  /\ pc = "wait"
  /\ rbuf # <<>> \/ ~Net \/ off < sent \/ fin
  /\ pc' = "loop"
  /\ UNCHANGED <<cvars, rvars, n, nleft, lvars, wvars, spoiled>>

\* SSL_ERROR_WANT_WRITE: waitwrite, which is up to the peer.
WantWrite ==
  /\ sort = "tls" /\ pc = "micro"
  /\ pc' = "wantwrite"
  /\ UNCHANGED <<cvars, rvars, n, nleft, lvars, wvars, spoiled>>

ReadAfterWrite ==
  /\ pc = "wantwrite"
  /\ pc' = "loop"
  /\ UNCHANGED <<cvars, rvars, n, nleft, lvars, wvars, spoiled>>

\* Another errno, or mywaitread throws: what this call has read is gone.
ReadFails ==
  /\ \/ pc = "micro" /\ ~CSSL
     \/ pc = "micro" /\ sort = "plain" /\ part = <<>>
     \/ pc = "wait" /\ Net /\ rbuf = <<>>
     \/ pc = "wantwrite"
  /\ pc' = "idle"
  /\ lpos' = -1 /\ line' = <<>>
  /\ part' = <<>> /\ n' = 0 /\ nleft' = 0
  /\ spoiled' = (spoiled \/ part # <<>>)
  /\ UNCHANGED <<cvars, off, rbuf, pos, wvars>>

\* Another error in CSSL::Network: it returns what it has read, with TLS be it
\* nothing, but for one byte of what it has read past the buffer without TLS.
ReadCutShort ==
  /\ pc = "micro" /\ CSSL
  /\ sort = "plain" => part # <<>>
  /\ part' = Take(part, IF sort = "plain" /\ nleft >= BufSize THEN Len(part) - 1 ELSE Len(part))
  /\ pc' = "return"
  /\ spoiled' = (spoiled \/ part' # part)
  /\ UNCHANGED <<cvars, off, rbuf, pos, n, nleft, lvars, wvars>>

\* read returns to the caller.
ReadReturns ==
  /\ pc = "return"
  /\ lpos = -1
  /\ pos' = pos + Len(part)
  /\ part' = <<>> /\ n' = 0 /\ nleft' = 0
  /\ pc' = "idle"
  /\ UNCHANGED <<cvars, off, rbuf, lvars, wvars, spoiled>>

-----------------------------------------------------------------------------
(* File::readline: read(buf, 1) until a newline                             *)

Readline ==
  /\ pc = "idle"
  /\ opened
  /\ MaxLine > 0
  /\ lpos' = 0 /\ line' = <<>>
  /\ n' = 1 /\ nleft' = 1
  /\ part' = <<>>
  /\ pc' = "loop"
  /\ UNCHANGED <<cvars, off, rbuf, pos, wvars, spoiled>>

\* Nothing in what read returned ends the line.
Ordinary ==
  /\ part # <<>>
  /\ Kind[part[1]] \in {"char", "cr"}
  /\ lpos + 1 < MaxLine

\* Mutant: carriage returns are kept.
NextWithCr ==
  /\ pc = "return"
  /\ lpos >= 0
  /\ Ordinary
  /\ lpos' = lpos + 1
  /\ line' = line \o part
  /\ pos' = pos + 1
  /\ part' = <<>>
  /\ nleft' = 1
  /\ pc' = "loop"
  /\ UNCHANGED <<cvars, off, rbuf, n, wvars, spoiled>>

\* The next turn of the for loop; a carriage return is left out.
NextByte ==
  /\ pc = "return"
  /\ lpos >= 0
  /\ Ordinary
  /\ lpos' = lpos + 1
  /\ line' = IF Kind[part[1]] = "cr" THEN line ELSE line \o part
  /\ pos' = pos + 1
  /\ part' = <<>>
  /\ nleft' = 1
  /\ pc' = "loop"
  /\ UNCHANGED <<cvars, off, rbuf, n, wvars, spoiled>>

\* A newline, with noeoferr the end of the file, or one of the three errors:
\* the end of the file, a zero byte, a line that is too long.
LineEnds ==
  /\ pc = "return"
  /\ lpos >= 0
  /\ ~Ordinary
  /\ lpos' = -1 /\ line' = <<>>
  /\ pos' = pos + Len(part)
  /\ part' = <<>> /\ n' = 0 /\ nleft' = 0
  /\ pc' = "idle"
  /\ UNCHANGED <<cvars, off, rbuf, wvars, spoiled>>

-----------------------------------------------------------------------------
(* File::writen, on a socket                                                *)

Write(k) ==
  /\ Net
  /\ pc = "idle"
  /\ opened
  /\ Len(out) + k <= MaxOut
  /\ n' = k /\ nleft' = k
  /\ pc' = "wmicro"
  /\ UNCHANGED <<cvars, rvars, lvars, wvars, spoiled>>

\* Mutant: ptr is not advanced after a short write.
PutAgain ==
  /\ pc = "wmicro"
  /\ \E k \in 1 .. nleft :
       /\ out' = out \o From(handed, k)
       /\ nleft' = nleft - k
  /\ UNCHANGED <<cvars, rvars, pc, n, lvars, handed, spoiled>>

\* microwrite takes k bytes from ptr on.
Put ==
  /\ pc = "wmicro"
  /\ \E k \in 1 .. nleft :
       /\ out' = out \o From(handed + n - nleft, k)
       /\ nleft' = nleft - k
  /\ UNCHANGED <<cvars, rvars, pc, n, lvars, handed, spoiled>>

WriteReturns ==
  /\ pc = "wmicro"
  /\ nleft = 0
  /\ handed' = handed + n
  /\ n' = 0
  /\ pc' = "idle"
  /\ UNCHANGED <<cvars, rvars, nleft, lvars, out, spoiled>>

\* EAGAIN or EINTR, then poll.
WriteAgain ==
  /\ pc = "wmicro"
  /\ nleft > 0
  /\ pc' = "wwait"
  /\ UNCHANGED <<cvars, rvars, n, nleft, lvars, wvars, spoiled>>

WaitWrite ==
  /\ pc = "wwait"
  /\ pc' = "wmicro"
  /\ UNCHANGED <<cvars, rvars, n, nleft, lvars, wvars, spoiled>>

\* CSSL::Network tells how much it has written when an error comes: without TLS
\* whatever the error is, with TLS when the peer has closed the connection.
WriteCutShort ==
  /\ pc = "wmicro" /\ CSSL
  /\ nleft > 0
  /\ sort = "plain" => nleft < n
  /\ handed' = handed + n - nleft
  /\ n' = 0 /\ nleft' = 0
  /\ pc' = "idle"
  /\ UNCHANGED <<cvars, rvars, lvars, out, spoiled>>

\* Another errno, or mywaitwrite throws: nobody knows how much was written.
WriteFails ==
  /\ pc \in {"wmicro", "wwait"}
  /\ nleft > 0
  /\ sort = "plain" /\ pc = "wmicro" => nleft = n
  /\ pc' = "idle"
  /\ n' = 0 /\ nleft' = 0
  /\ spoiled' = (spoiled \/ nleft < n)
  /\ UNCHANGED <<cvars, rvars, lvars, wvars>>

-----------------------------------------------------------------------------
(* File::lseek, close, open; none of them looks at the buffer               *)

Lseek(o) ==
  /\ ~Net
  /\ pc = "idle"
  /\ opened
  /\ off' = o
  /\ pos' = o
  /\ spoiled' = (spoiled \/ rbuf # <<>>)
  /\ UNCHANGED <<cvars, rbuf, part, pc, n, nleft, lvars, wvars>>

Close ==
  /\ pc = "idle"
  /\ opened
  /\ opened' = FALSE
  /\ UNCHANGED <<sort, sent, fin, rvars, pc, n, nleft, lvars, wvars, spoiled>>

\* open, or connect of a Net, on the object that was closed.
Open ==
  /\ pc = "idle"
  /\ ~opened
  /\ opened' = TRUE
  /\ off' = 0 /\ pos' = 0
  /\ sent' = IF Net THEN 0 ELSE Total
  /\ fin' = ~Net
  /\ out' = <<>> /\ handed' = 0
  /\ spoiled' = (spoiled \/ rbuf # <<>>)
  /\ UNCHANGED <<sort, rbuf, part, pc, n, nleft, lvars>>

-----------------------------------------------------------------------------

ReadStep ==
  \/ Copy \/ Fill \/ Direct \/ EndOfFile \/ WaitRead
  \/ ReadReturns \/ NextByte \/ LineEnds

WriteStep == Put \/ WriteReturns \/ WaitWrite

Next ==
  \/ Arrive \/ Hangup
  \/ \E k \in 0 .. MaxRead : Read(k) \/ Write(k)
  \/ Readline
  \/ ReadStep \/ Again \/ ReadFails \/ ReadCutShort \/ WantWrite \/ ReadAfterWrite
  \/ WriteStep \/ WriteAgain \/ WriteFails \/ WriteCutShort
  \/ \E o \in 0 .. Total : Lseek(o)
  \/ Close \/ Open

Spec == Init /\ [][Next]_vars

\* The thread runs; a call that is interrupted again and again gets through.
\* Nothing is assumed of the peer, so nothing of write either.
Fairness ==
  /\ WF_vars(Copy \/ WaitRead \/ ReadReturns \/ NextByte \/ LineEnds)
  /\ SF_vars(Fill \/ Direct \/ EndOfFile)

FairSpec == Spec /\ Fairness

-----------------------------------------------------------------------------
(* Properties                                                               *)

\* The caller gets the stream: what a call has read and what the buffer keeps
\* are the bytes from the caller's position to the kernel's, none missing,
\* doubled or out of order, through any mix of buffered and direct reads,
\* short reads, retries and readline (fdhelper.cc 81-120, ssl.cc 95-188).  The
\* code breaks this in three ways only, remembered in spoiled: lseek and open
\* keep the buffer (fdhelper.cc 248, 233), a call that fails drops what it has
\* read already (fdhelper.cc 97, 111, network.cc 411-420), and one that fails
\* without TLS past the buffer tells of one byte less than it read (ssl.cc 154).
NothingLost == ~spoiled => part \o rbuf = From(pos, off - pos)

\* read returns less than it was asked for only at the end of the file or
\* after the peer has hung up, never because a call was interrupted or the
\* kernel gave less (fdhelper.cc 95-121); CSSL::Network also after an error
\* (ssl.cc 114, 137, 154, 175), with what it had.
ShortMeansEnd ==
  pc = "return" /\ Len(part) < n => rbuf = <<>> /\ (CSSL \/ (fin /\ off >= sent))

\* readline keeps every byte since it was called except carriage returns, each
\* once and in order, and has passed over no newline and no zero byte
\* (fdhelper.cc 47-62).
LineExact ==
  lpos >= 0 /\ ~spoiled =>
    LET passed == pos - lpos + 1 .. pos
    IN  /\ ToSet(line) = {i \in passed : Kind[i] # "cr"}
        /\ \A i, j \in DOMAIN line : i < j => line[i] < line[j]
        /\ \A i \in passed : Kind[i] \in {"char", "cr"}

\* The peer gets what write was given, once and in order, whatever short
\* writes and retries there are (fdhelper.cc 132-142, ssl.cc 199-233), up to a
\* call that failed without telling how much it wrote.
WrittenInOrder ==
  ~spoiled =>
    out = From(0, handed + IF pc \in {"wmicro", "wwait"} THEN n - nleft ELSE 0)

\* A read that can be answered is: when the bytes it still needs are in the
\* buffer or have arrived, or no more will come, it returns; it does not wait
\* for a full buffer (fdhelper.cc 93-95) or for poll (268-272).  With TLS it may
\* have to write first, which is up to the peer (ssl.cc 132, 170).
Enough == Len(rbuf) + sent - off >= nleft \/ fin
Served ==
  (pc \in {"loop", "micro", "wait"} /\ Enough) ~> (pc \in {"return", "idle", "wantwrite"})
=============================================================================
