----------------------------- MODULE FileIOProofs ----------------------------
(***************************************************************************)
(* Theorems about FileIO.  PlaceInv says what n, nleft, part and rbuf are   *)
(* wherever a call is; the four invariants of the run follow from it, each  *)
(* with what it says of the step before.                                    *)
(***************************************************************************)
EXTENDS FileIO, SequenceLemmas

Asking == {"loop", "micro", "wait", "wantwrite"}
Reading == Asking \cup {"return"}
Writing == {"wmicro", "wwait"}

\* A read that goes on has something left to read, and what it has and what is
\* left make up what it was asked for; it asks the kernel with an empty buffer.
PlaceInv ==
  /\ pc = "idle" => n = 0 /\ nleft = 0
  /\ pc \notin Reading => part = <<>>
  /\ pc \in Asking => nleft > 0 /\ Len(part) + nleft = n
  /\ pc \in Asking \ {"loop"} => rbuf = <<>>
  /\ pc = "return" => Len(part) + nleft <= n
  /\ lpos >= 0 => pc \in Reading /\ n = 1
  /\ ShortMeansEnd

-----------------------------------------------------------------------------
(* Sequences                                                                *)

\* What From gives.
LEMMA FromType ==
  ASSUME NEW p \in Nat, NEW k \in Nat
  PROVE  /\ From(p, k) \in Seq(Nat) /\ Len(From(p, k)) = k
         /\ \A i \in 1 .. k : From(p, k)[i] = p + i
BY DEF From

\* Adjacent stretches of the stream make one.
LEMMA FromConcat ==
  ASSUME NEW p \in Nat, NEW i \in Nat, NEW k \in Nat
  PROVE  From(p, i) \o From(p + i, k) = From(p, i + k)
<1>1. p + i \in Nat /\ i + k \in Nat
  OBVIOUS
<1>2. /\ From(p, i) \in Seq(Nat) /\ From(p + i, k) \in Seq(Nat) /\ From(p, i + k) \in Seq(Nat)
      /\ Len(From(p, i)) = i /\ Len(From(p + i, k)) = k /\ Len(From(p, i + k)) = i + k
  BY <1>1, FromType
<1>3. \A j \in 1 .. Len(From(p, i)) : From(p, i + k)[j] = From(p, i)[j]
  BY <1>2 DEF From
<1>4. \A j \in 1 .. Len(From(p + i, k)) : From(p, i + k)[Len(From(p, i)) + j] = From(p + i, k)[j]
  <2>1. \A j \in 1 .. k : From(p, i + k)[i + j] = From(p + i, k)[j]
    BY DEF From
  <2> QED
    BY <1>2, <2>1
<1> QED
  BY ZenonT(60), <1>2, <1>3, <1>4, ConcatIs

\* What a stretch is cut into are stretches themselves.
LEMMA CutLength ==
  ASSUME NEW p \in Nat, NEW m \in Nat, NEW a \in Seq(Nat), NEW b \in Seq(Nat),
         a \o b = From(p, m)
  PROVE  Len(a) + Len(b) = m
<1>1. Len(From(p, m)) = m
  BY FromType
<1> QED
  BY <1>1, ConcatAt

LEMMA CutFirst ==
  ASSUME NEW p \in Nat, NEW m \in Nat, NEW a \in Seq(Nat), NEW b \in Seq(Nat),
         a \o b = From(p, m)
  PROVE  a = From(p, Len(a))
<1>1. Len(a) \in Nat /\ Len(b) \in Nat /\ Len(a) + Len(b) = m
  BY LenProperties, CutLength
<1>2. ASSUME NEW j \in 1 .. Len(a) PROVE a[j] = p + j
  <2>1. j \in 1 .. m /\ (a \o b)[j] = a[j]
    BY <1>1, <1>2, ConcatAt
  <2> QED
    BY <2>1, FromType
<1> QED
  BY <1>1, <1>2, FromType, SeqEqual

LEMMA CutRest ==
  ASSUME NEW p \in Nat, NEW m \in Nat, NEW a \in Seq(Nat), NEW b \in Seq(Nat),
         a \o b = From(p, m)
  PROVE  b = From(p + Len(a), Len(b))
<1>1. Len(a) \in Nat /\ Len(b) \in Nat /\ Len(a) + Len(b) = m
  BY LenProperties, CutLength
<1>2. ASSUME NEW j \in 1 .. Len(b) PROVE b[j] = p + Len(a) + j
  <2>1. PICK l \in 1 .. m : l = Len(a) + j
    BY <1>1, <1>2
  <2>2. (a \o b)[l] = b[j]
    BY <1>2, <2>1, ConcatAt
  <2>3. (a \o b)[l] = p + l
    BY FromType
  <2> QED
    BY <1>1, <1>2, <2>1, <2>2, <2>3
<1> QED
  BY <1>1, <1>2, FromType, SeqEqual

\* The two pieces Copy makes of the buffer.
LEMMA TakeDrop ==
  ASSUME NEW S, NEW s \in Seq(S), NEW k \in 0 .. Len(s)
  PROVE  /\ Take(s, k) \in Seq(S) /\ Len(Take(s, k)) = k
         /\ Drop(s, k) \in Seq(S) /\ Len(Drop(s, k)) = Len(s) - k
         /\ Take(s, k) \o Drop(s, k) = s
<1>1. Len(s) \in Nat
  BY LenProperties
<1>2. /\ Take(s, k) \in Seq(S) /\ Len(Take(s, k)) = k
      /\ \A j \in 1 .. Len(Take(s, k)) : s[j] = Take(s, k)[j]
  BY <1>1, SubSeqProperties, ElementOfSeq DEF Take
<1>3. /\ Drop(s, k) \in Seq(S) /\ Len(Drop(s, k)) = Len(s) - k
      /\ \A j \in 1 .. Len(Drop(s, k)) : s[k + j] = Drop(s, k)[j]
  BY <1>1, SubSeqProperties, ElementOfSeq DEF Drop
<1>4. Len(s) = Len(Take(s, k)) + Len(Drop(s, k))
  BY <1>1, <1>2, <1>3
<1>5. \A j \in 1 .. Len(Drop(s, k)) : s[Len(Take(s, k)) + j] = Drop(s, k)[j]
  BY <1>2, <1>3
<1>6. Take(s, k) \o Drop(s, k) = s
  BY <1>2, <1>3, <1>4, <1>5, ConcatIs
<1> QED
  BY <1>2, <1>3, <1>6

-----------------------------------------------------------------------------
(* Where a call is                                                          *)

\* The stretches the kernel hands out are bytes of the stream.
LEMMA Handed ==
  ASSUME TypeOK, NEW k \in Nat, off + k <= Total
  PROVE  From(off, k) \in Seq(Bytes) /\ Len(From(off, k)) = k
<1>1. off \in Nat /\ Total \in Nat
  BY SizeAssumption DEF TypeOK
<1> QED
  BY <1>1 DEF From, Bytes

LEMMA PlaceInit == Init => TypeOK /\ PlaceInv
<1> SUFFICES ASSUME Init PROVE TypeOK /\ PlaceInv
  OBVIOUS
<1>1. /\ Total \in Nat /\ BufSize \in Nat \ {0} /\ MaxLine \in Nat
      /\ Len(<<>>) = 0 /\ <<>> \in Seq(Bytes) /\ <<>> \in Seq(Nat)
  BY SizeAssumption
<1>2. sent \in 0 .. Total /\ fin \in BOOLEAN
  BY <1>1 DEF Init, Net
<1>3. sort \in Sorts /\ opened \in BOOLEAN /\ spoiled \in BOOLEAN
  BY DEF Init
<1>4. off \in 0 .. Total /\ pos \in Nat /\ pc \in PC /\ n \in Nat /\ nleft \in 0 .. n
  BY <1>1 DEF Init, PC
<1>5. /\ rbuf \in Seq(Bytes) /\ Len(rbuf) <= BufSize /\ part \in Seq(Bytes)
      /\ lpos \in -1 .. MaxLine - 1 /\ line \in Seq(Bytes)
      /\ out \in Seq(Nat) /\ handed \in Nat
  BY <1>1 DEF Init
<1>6. PlaceInv
  BY DEF Init, PlaceInv, ShortMeansEnd, Asking, Reading
<1> QED
  BY <1>2, <1>3, <1>4, <1>5, <1>6 DEF TypeOK

LEMMA PlaceStep == TypeOK /\ PlaceInv /\ [Next]_vars => TypeOK' /\ PlaceInv'
<1> SUFFICES ASSUME TypeOK, PlaceInv, [Next]_vars PROVE TypeOK' /\ PlaceInv'
  OBVIOUS
<1> USE DEF PC, Asking, Reading
<1>0. /\ Total \in Nat /\ BufSize \in Nat \ {0} /\ MaxLine \in Nat
      /\ Len(rbuf) \in Nat /\ Len(part) \in Nat
      /\ Len(<<>>) = 0 /\ <<>> \in Seq(Bytes)
      /\ rbuf \in Seq(Bytes) /\ part \in Seq(Bytes) /\ out \in Seq(Nat) /\ line \in Seq(Bytes)
  BY SizeAssumption, LenProperties DEF TypeOK
<1>1. CASE Arrive
  BY <1>0, <1>1 DEF TypeOK, PlaceInv, ShortMeansEnd, CSSL, Arrive, rvars, lvars, wvars
<1>2. CASE Hangup
  BY <1>0, <1>2 DEF TypeOK, PlaceInv, ShortMeansEnd, CSSL, Hangup, rvars, lvars, wvars
<1>3. ASSUME NEW k \in 0 .. MaxRead, Read(k) PROVE TypeOK' /\ PlaceInv'
  BY <1>0, <1>3, SizeAssumption DEF TypeOK, PlaceInv, ShortMeansEnd, CSSL, Read, cvars, lvars, wvars
<1>4. CASE Readline
  BY <1>0, <1>4 DEF TypeOK, PlaceInv, ShortMeansEnd, CSSL, Readline, cvars, wvars
<1>5. CASE Copy
  <2> DEFINE c == Lesser(Len(rbuf), nleft)
  <2>1. c \in 0 .. Len(rbuf) /\ c <= nleft /\ (c = nleft \/ c = Len(rbuf))
    BY <1>0, <1>5 DEF TypeOK, Lesser, Copy
  <2> HIDE DEF c
  <2>2. part' = part \o Take(rbuf, c) /\ rbuf' = Drop(rbuf, c) /\ nleft' = nleft - c
    BY <1>5 DEF Copy, c
  <2>3. /\ Take(rbuf, c) \in Seq(Bytes) /\ Len(Take(rbuf, c)) = c
        /\ rbuf' \in Seq(Bytes) /\ Len(rbuf') = Len(rbuf) - c
    BY SMTT(40), <1>0, <2>1, <2>2, TakeDrop
  <2>4. part' \in Seq(Bytes) /\ Len(part') = Len(part) + c
    BY ZenonT(60), <1>0, <2>2, <2>3, ConcatAt
  <2>5. nleft' > 0 => rbuf' = <<>>
    BY <1>0, <2>1, <2>2, <2>3, EmptySeq
  <2>6. TypeOK'
    BY SMTT(40), <1>0, <1>5, <2>1, <2>2, <2>3, <2>4 DEF TypeOK, Copy, cvars, lvars, wvars
  <2>7. pc = "loop" /\ pc' = IF nleft' = 0 THEN "return" ELSE "micro"
    BY <1>5 DEF Copy
  <2>8. Len(part') + nleft' = n /\ n' = n /\ lpos' = lpos /\ nleft' \in Nat
    BY <1>0, <1>5, <2>1, <2>2, <2>4 DEF TypeOK, PlaceInv, Copy, lvars
  <2> QED
    BY <2>5, <2>6, <2>7, <2>8 DEF PlaceInv, ShortMeansEnd
<1>6. CASE Fill
  <2>1. PICK k \in 1 .. Lesser(BufSize, sent - off) : rbuf' = From(off, k) /\ off' = off + k
    BY <1>6 DEF Fill
  <2>2. k \in Nat /\ k <= BufSize /\ off + k <= Total
    BY <1>0, <2>1 DEF TypeOK, Lesser
  <2>3. rbuf' \in Seq(Bytes) /\ Len(rbuf') = k
    BY <2>1, <2>2, Handed
  <2> QED
    BY <1>0, <1>6, <2>1, <2>2, <2>3
       DEF TypeOK, PlaceInv, ShortMeansEnd, CSSL, Fill, cvars, lvars, wvars
<1>7. CASE Direct
  <2>1. PICK k \in 1 .. Lesser(nleft, sent - off) :
          part' = part \o From(off, k) /\ off' = off + k /\ nleft' = nleft - k
    BY <1>7 DEF Direct
  <2>2. k \in Nat /\ k <= nleft /\ off + k <= Total
    BY <1>0, <2>1 DEF TypeOK, Lesser
  <2>3. From(off, k) \in Seq(Bytes) /\ Len(From(off, k)) = k
    BY <2>2, Handed
  <2>4. part' \in Seq(Bytes) /\ Len(part') = Len(part) + k
    BY ZenonT(60), <1>0, <2>1, <2>3, ConcatAt
  <2>5. TypeOK'
    <3>1. off' \in 0 .. Total /\ nleft' \in 0 .. n /\ n' = n
      BY <1>0, <1>7, <2>1, <2>2 DEF TypeOK, Direct
    <3> QED
      BY <1>0, <1>7, <2>4, <3>1 DEF TypeOK, Direct, cvars, lvars, wvars
  <2>6. pc = "micro" /\ pc' = IF nleft' = 0 THEN "return" ELSE "loop"
    BY <1>7 DEF Direct
  <2>7. Len(part) + nleft = n /\ nleft = nleft' + k /\ nleft' \in Nat /\ n' = n /\ lpos' = lpos
    BY <1>0, <1>7, <2>1, <2>2 DEF TypeOK, PlaceInv, Direct, lvars
  <2>8. Len(part') + nleft' = n
    BY <1>0, <2>2, <2>4, <2>7
  <2>9. ShortMeansEnd'
    <3>1. pc' = "return" => Len(part') = n'
      BY <2>6, <2>7, <2>8
    <3> QED
      BY <2>5, <2>7, <3>1 DEF TypeOK, ShortMeansEnd
  <2>10. pc' \in {"return", "loop"} /\ (pc' = "loop" => nleft' > 0)
    BY <2>6, <2>7
  <2> QED
    BY <2>5, <2>7, <2>8, <2>9, <2>10 DEF PlaceInv
<1>8. CASE EndOfFile \/ Again \/ WantWrite
  <2>1. CASE EndOfFile
    BY <1>0, <2>1 DEF TypeOK, PlaceInv, ShortMeansEnd, CSSL, EndOfFile, cvars, rvars, lvars, wvars
  <2>2. CASE Again
    BY <1>0, <2>2 DEF TypeOK, PlaceInv, ShortMeansEnd, CSSL, Again, cvars, rvars, lvars, wvars
  <2>3. CASE WantWrite
    BY <1>0, <2>3 DEF TypeOK, PlaceInv, ShortMeansEnd, CSSL, WantWrite, cvars, rvars, lvars, wvars
  <2> QED
    BY <1>8, <2>1, <2>2, <2>3
<1>9. CASE WaitRead \/ ReadAfterWrite
  <2>1. CASE WaitRead
    BY <1>0, <2>1 DEF TypeOK, PlaceInv, ShortMeansEnd, CSSL, WaitRead, cvars, rvars, lvars, wvars
  <2>2. CASE ReadAfterWrite
    BY <1>0, <2>2
       DEF TypeOK, PlaceInv, ShortMeansEnd, CSSL, ReadAfterWrite, cvars, rvars, lvars, wvars
  <2> QED
    BY <1>9, <2>1, <2>2
<1>10. CASE ReadFails
  BY <1>0, <1>10 DEF TypeOK, PlaceInv, ShortMeansEnd, CSSL, ReadFails, cvars, wvars
<1>11. CASE ReadCutShort
  <2> DEFINE c == IF sort = "plain" /\ nleft >= BufSize THEN Len(part) - 1 ELSE Len(part)
  <2>1. c \in 0 .. Len(part) /\ part' = Take(part, c)
    BY <1>0, <1>11, EmptySeq DEF ReadCutShort
  <2> HIDE DEF c
  <2>2. part' \in Seq(Bytes) /\ Len(part') <= Len(part) /\ Len(part') \in Nat
    BY <1>0, <2>1, TakeDrop
  <2> QED
    BY <1>0, <1>11, <2>2
       DEF TypeOK, PlaceInv, ShortMeansEnd, CSSL, ReadCutShort, cvars, lvars, wvars
<1>12. CASE ReadReturns
  BY <1>0, <1>12 DEF TypeOK, PlaceInv, ShortMeansEnd, CSSL, ReadReturns, cvars, lvars, wvars
<1>13. CASE NextByte
  <2>1. line' \in Seq(Bytes)
    BY <1>0, <1>13, ConcatAt DEF NextByte
  <2> QED
    BY <1>0, <1>13, <2>1 DEF TypeOK, PlaceInv, ShortMeansEnd, CSSL, NextByte, Ordinary, cvars, wvars
<1>14. CASE LineEnds
  BY <1>0, <1>14 DEF TypeOK, PlaceInv, ShortMeansEnd, CSSL, LineEnds, cvars, wvars
<1>15. ASSUME NEW k \in 0 .. MaxRead, Write(k) PROVE TypeOK' /\ PlaceInv'
  BY <1>0, <1>15, SizeAssumption
     DEF TypeOK, PlaceInv, ShortMeansEnd, CSSL, Write, cvars, rvars, lvars, wvars
<1>16. CASE Put
  <2>1. PICK k \in 1 .. nleft : out' = out \o From(handed + n - nleft, k) /\ nleft' = nleft - k
    BY <1>16 DEF Put
  <2>2. k \in Nat /\ handed + n - nleft \in Nat
    BY <2>1 DEF TypeOK
  <2>3. out' \in Seq(Nat)
    BY <1>0, <2>1, <2>2, FromType, ConcatAt
  <2> QED
    BY <1>0, <1>16, <2>1, <2>3 DEF TypeOK, PlaceInv, ShortMeansEnd, CSSL, Put, cvars, rvars, lvars
<1>17. CASE WriteReturns \/ WriteAgain \/ WaitWrite
  <2>1. CASE WriteReturns
    BY <1>0, <2>1
       DEF TypeOK, PlaceInv, ShortMeansEnd, CSSL, WriteReturns, cvars, rvars, lvars, wvars
  <2>2. CASE WriteAgain
    BY <1>0, <2>2 DEF TypeOK, PlaceInv, ShortMeansEnd, CSSL, WriteAgain, cvars, rvars, lvars, wvars
  <2>3. CASE WaitWrite
    BY <1>0, <2>3 DEF TypeOK, PlaceInv, ShortMeansEnd, CSSL, WaitWrite, cvars, rvars, lvars, wvars
  <2> QED
    BY <1>17, <2>1, <2>2, <2>3
<1>18. CASE WriteCutShort \/ WriteFails
  <2>1. CASE WriteCutShort
    BY <1>0, <2>1
       DEF TypeOK, PlaceInv, ShortMeansEnd, CSSL, WriteCutShort, cvars, rvars, lvars, wvars
  <2>2. CASE WriteFails
    BY <1>0, <2>2 DEF TypeOK, PlaceInv, ShortMeansEnd, CSSL, WriteFails, cvars, rvars, lvars, wvars
  <2> QED
    BY <1>18, <2>1, <2>2
<1>19. ASSUME NEW o \in 0 .. Total, Lseek(o) PROVE TypeOK' /\ PlaceInv'
  BY <1>0, <1>19 DEF TypeOK, PlaceInv, ShortMeansEnd, CSSL, Lseek, cvars, lvars, wvars
<1>20. CASE Close
  BY <1>0, <1>20 DEF TypeOK, PlaceInv, ShortMeansEnd, CSSL, Close, rvars, lvars, wvars
<1>21. CASE Open
  BY <1>0, <1>21 DEF TypeOK, PlaceInv, ShortMeansEnd, CSSL, Open, lvars
<1>22. CASE UNCHANGED vars
  BY <1>0, <1>22 DEF TypeOK, PlaceInv, ShortMeansEnd, CSSL, vars, cvars, rvars, lvars, wvars
<1> QED
  BY <1>1, <1>2, <1>3, <1>4, <1>5, <1>6, <1>7, <1>8, <1>9, <1>10, <1>11, <1>12, <1>13, <1>14,
     <1>15, <1>16, <1>17, <1>18, <1>19, <1>20, <1>21, <1>22 DEF Next, ReadStep, WriteStep

\* The places are what they are in every state.
LEMMA Places == Spec => [](TypeOK /\ PlaceInv)
BY PlaceInit, PlaceStep, PTL DEF Spec

-----------------------------------------------------------------------------
(* What a call has read                                                     *)

\* A read that is short tells of the end, never of an interruption.
THEOREM ShortThm == Spec => []ShortMeansEnd
<1>1. TypeOK /\ PlaceInv => ShortMeansEnd
  BY DEF PlaceInv
<1> QED
  BY <1>1, Places, PTL

\* NothingLost, with the caller never ahead of the kernel.
StreamInv == ~spoiled => pos <= off /\ part \o rbuf = From(pos, off - pos)

\* Nothing is left of an empty stretch.
LEMMA FromEmpty == \A p \in Nat : From(p, 0) = <<>>
BY DEF From

\* readline looks at one byte at a time.
LEMMA OneByte ==
  ASSUME TypeOK, PlaceInv, pc = "return", lpos >= 0, part # <<>>
  PROVE  Len(part) = 1
<1>1. Len(part) \in Nat /\ Len(part) # 0 /\ nleft \in Nat
  BY EmptySeq, LenProperties DEF TypeOK
<1>2. Len(part) + nleft <= 1
  BY DEF PlaceInv
<1> QED
  BY <1>1, <1>2

\* What StreamInv says of the two parts.
LEMMA StreamParts ==
  ASSUME TypeOK, StreamInv, ~spoiled
  PROVE  /\ Len(part) \in Nat /\ Len(rbuf) \in Nat /\ off - pos = Len(part) + Len(rbuf)
         /\ part = From(pos, Len(part)) /\ rbuf = From(pos + Len(part), Len(rbuf))
<1>1. pos \in Nat /\ off \in Nat /\ off - pos \in Nat /\ part \o rbuf = From(pos, off - pos)
  BY SizeAssumption DEF TypeOK, StreamInv
<1>2. part \in Seq(Nat) /\ rbuf \in Seq(Nat)
  BY SizeAssumption DEF TypeOK, Bytes
<1>3. PICK m \in Nat : m = off - pos
  BY <1>1
<1>4. part \o rbuf = From(pos, m)
  BY <1>1, <1>3
<1>5. Len(part) + Len(rbuf) = m
  BY <1>1, <1>2, <1>4, CutLength
<1>6. part = From(pos, Len(part))
  BY <1>1, <1>2, <1>4, CutFirst
<1>7. rbuf = From(pos + Len(part), Len(rbuf))
  BY <1>1, <1>2, <1>4, CutRest
<1>8. Len(part) \in Nat /\ Len(rbuf) \in Nat
  BY <1>2, LenProperties
<1> QED
  BY <1>3, <1>5, <1>6, <1>7, <1>8

\* The caller takes what part holds.
LEMMA StreamTaken ==
  ASSUME TypeOK, StreamInv, pos' = pos + Len(part), part' = <<>>,
         UNCHANGED <<off, rbuf, spoiled>>
  PROVE  StreamInv'
<1> SUFFICES ASSUME ~spoiled PROVE pos' <= off /\ part' \o rbuf = From(pos', off - pos')
  BY DEF StreamInv
<1>1. /\ Len(part) \in Nat /\ Len(rbuf) \in Nat /\ off - pos = Len(part) + Len(rbuf)
      /\ rbuf = From(pos + Len(part), Len(rbuf))
  BY StreamParts
<1>2. part' \o rbuf = rbuf
  BY ConcatEmptySeq DEF TypeOK
<1>3. off - pos' = Len(rbuf) /\ pos' <= off
  BY <1>1, SizeAssumption DEF TypeOK
<1> QED
  BY <1>1, <1>2, <1>3

\* The kernel hands out k more bytes, and what was read is followed by them.
LEMMA StreamFed ==
  ASSUME TypeOK, StreamInv, rbuf = <<>>, NEW k \in Nat, off' = off + k,
         part' \o rbuf' = part \o From(off, k), UNCHANGED <<pos, spoiled>>
  PROVE  StreamInv'
<1> SUFFICES ASSUME ~spoiled PROVE pos <= off' /\ part' \o rbuf' = From(pos, off' - pos)
  BY DEF StreamInv
<1>1. pos \in Nat /\ off \in Nat /\ pos <= off /\ off - pos \in Nat
  BY SizeAssumption DEF TypeOK, StreamInv
<1>2. part = From(pos, off - pos)
  BY ConcatEmptySeq DEF TypeOK, StreamInv
<1>3. From(pos, off - pos) \o From(pos + (off - pos), k) = From(pos, (off - pos) + k)
  BY <1>1, FromConcat
<1>4. pos + (off - pos) = off /\ (off - pos) + k = off' - pos /\ pos <= off'
  BY <1>1
<1> QED
  BY <1>2, <1>3, <1>4

LEMMA StreamStep == TypeOK /\ PlaceInv /\ StreamInv /\ [Next]_vars => StreamInv'
<1> SUFFICES ASSUME TypeOK, PlaceInv, StreamInv, [Next]_vars PROVE StreamInv'
  OBVIOUS
<1>0. /\ rbuf \in Seq(Bytes) /\ part \in Seq(Bytes) /\ <<>> \in Seq(Bytes)
      /\ spoiled \in BOOLEAN /\ pos \in Nat /\ off \in Nat
  BY SizeAssumption DEF TypeOK
\* Steps that leave the stream alone.
<1>1. ASSUME UNCHANGED rvars, spoiled' = spoiled \/ spoiled' = TRUE PROVE StreamInv'
  BY <1>1 DEF StreamInv, rvars
\* Steps from a place where nothing has been read yet.
<1>2. ASSUME part = <<>>, part' = <<>>, UNCHANGED <<off, rbuf, pos, spoiled>> PROVE StreamInv'
  BY <1>2 DEF StreamInv
<1>3. CASE Copy
  <2> DEFINE c == Lesser(Len(rbuf), nleft)
  <2>1. c \in 0 .. Len(rbuf)
    BY <1>0, LenProperties DEF TypeOK, Lesser
  <2> HIDE DEF c
  <2>2. part' = part \o Take(rbuf, c) /\ rbuf' = Drop(rbuf, c)
    BY <1>3 DEF Copy, c
  <2>3. /\ Take(rbuf, c) \in Seq(Bytes) /\ Drop(rbuf, c) \in Seq(Bytes)
        /\ Take(rbuf, c) \o Drop(rbuf, c) = rbuf
    BY <1>0, <2>1, TakeDrop
  <2>4. \A s, t \in Seq(Bytes) : (part \o s) \o t = part \o (s \o t)
    BY SMTT(40), <1>0, ConcatAssociative
  <2>5. part' \o rbuf' = part \o rbuf
    BY <2>2, <2>3, <2>4
  <2> QED
    BY <1>3, <2>5 DEF Copy, StreamInv
<1>4. CASE Fill
  <2>1. PICK k \in 1 .. Lesser(BufSize, sent - off) : rbuf' = From(off, k) /\ off' = off + k
    BY <1>4 DEF Fill
  <2>2. k \in Nat /\ rbuf = <<>> /\ UNCHANGED <<part, pos, spoiled>>
    BY <1>4 DEF Fill, PlaceInv, Asking
  <2> QED
    BY <2>1, <2>2, StreamFed
<1>5. CASE Direct
  <2>1. PICK k \in 1 .. Lesser(nleft, sent - off) :
          part' = part \o From(off, k) /\ off' = off + k
    BY <1>5 DEF Direct
  <2>2. k \in Nat /\ rbuf = <<>> /\ UNCHANGED <<rbuf, pos, spoiled>>
    BY <1>5 DEF Direct, PlaceInv, Asking
  <2>3. k \in Nat /\ off + k <= Total
    BY <2>1, SizeAssumption DEF TypeOK, Lesser
  <2>4. part' \in Seq(Bytes)
    BY <1>0, <2>1, <2>3, Handed, ConcatAt
  <2>5. part' \o rbuf' = part \o From(off, k)
    BY <2>1, <2>2, <2>4, ConcatEmptySeq
  <2> QED
    BY <2>1, <2>2, <2>5, StreamFed
<1>6. CASE ReadFails
  <2>1. spoiled' = (spoiled \/ part # <<>>) /\ part' = <<>> /\ UNCHANGED <<off, rbuf, pos>>
    BY <1>6 DEF ReadFails
  <2> QED
    BY <2>1 DEF StreamInv
<1>7. CASE ReadCutShort
  BY <1>7 DEF ReadCutShort, StreamInv
<1>8. CASE ReadReturns \/ LineEnds
  BY <1>8, StreamTaken DEF ReadReturns, LineEnds
<1>9. CASE NextByte
  <2> QED
    BY <1>9, OneByte, StreamTaken DEF NextByte, Ordinary
<1>10. ASSUME NEW o \in 0 .. Total, Lseek(o) PROVE StreamInv'
  <2>1. /\ part = <<>> /\ part' = <<>> /\ rbuf' = rbuf /\ off' = o /\ pos' = o
        /\ spoiled' = (spoiled \/ rbuf # <<>>)
    BY <1>10 DEF Lseek, PlaceInv, Reading, Asking
  <2>2. pos' \in Nat /\ pos' <= off' /\ off' - pos' = 0 /\ <<>> \o <<>> = <<>>
    BY <1>0, <1>10, <2>1, SizeAssumption, ConcatEmptySeq
  <2> QED
    BY <2>1, <2>2, FromEmpty DEF StreamInv
<1>11. CASE Open
  <2>1. /\ part = <<>> /\ part' = <<>> /\ rbuf' = rbuf /\ off' = 0 /\ pos' = 0
        /\ spoiled' = (spoiled \/ rbuf # <<>>)
    BY <1>11 DEF Open, PlaceInv, Reading, Asking
  <2>2. pos' \in Nat /\ pos' <= off' /\ off' - pos' = 0 /\ <<>> \o <<>> = <<>>
    BY <1>0, <2>1, ConcatEmptySeq
  <2> QED
    BY <2>1, <2>2, FromEmpty DEF StreamInv
<1>12. ASSUME NEW k \in 0 .. MaxRead, Read(k) PROVE StreamInv'
  BY <1>2, <1>12 DEF Read, PlaceInv, Reading, Asking
<1>13. CASE Readline
  BY <1>2, <1>13 DEF Readline, PlaceInv, Reading, Asking
<1>14. CASE \/ Arrive \/ Hangup \/ EndOfFile \/ Again \/ WaitRead \/ WantWrite \/ ReadAfterWrite
            \/ WriteReturns \/ WriteAgain \/ WaitWrite \/ WriteCutShort \/ Put \/ Close
  BY <1>1, <1>14 DEF Arrive, Hangup, EndOfFile, Again, WaitRead, WantWrite, ReadAfterWrite,
     WriteReturns, WriteAgain, WaitWrite, WriteCutShort, Put, Close
<1>15. CASE WriteFails
  BY <1>0, <1>1, <1>15 DEF WriteFails
<1>16. ASSUME NEW k \in 0 .. MaxRead, Write(k) PROVE StreamInv'
  BY <1>1, <1>16 DEF Write
<1>17. CASE UNCHANGED vars
  BY <1>1, <1>17 DEF vars
<1> QED
  BY <1>3, <1>4, <1>5, <1>6, <1>7, <1>8, <1>9, <1>10, <1>11, <1>12, <1>13, <1>14, <1>15, <1>16,
     <1>17 DEF Next, ReadStep, WriteStep

\* Whatever mix of reads, the caller gets the stream as it is.
THEOREM StreamThm == Spec => []NothingLost
<1>1. Init => StreamInv
  BY FromEmpty, ConcatEmptySeq, EmptySeq DEF Init, StreamInv
<1>2. StreamInv => NothingLost
  BY DEF StreamInv, NothingLost
<1> QED
  BY <1>1, <1>2, Places, StreamStep, PTL DEF Spec

-----------------------------------------------------------------------------
(* What a call has written                                                  *)

\* How much of the stream the peer should have.
Given == handed + IF pc \in Writing THEN n - nleft ELSE 0

LEMMA WriteStepInv == TypeOK /\ PlaceInv /\ WrittenInOrder /\ [Next]_vars => WrittenInOrder'
<1> SUFFICES ASSUME TypeOK, PlaceInv, WrittenInOrder, [Next]_vars PROVE WrittenInOrder'
  OBVIOUS
<1>0. /\ spoiled \in BOOLEAN /\ handed \in Nat /\ n \in Nat /\ nleft \in 0 .. n
      /\ Given \in Nat /\ (~spoiled => out = From(0, Given))
  BY DEF TypeOK, WrittenInOrder, Given, Writing
\* Steps of a read, and steps of a write that write nothing.
<1>1. ASSUME UNCHANGED wvars, pc \notin Writing, pc' \notin Writing, ~spoiled' => ~spoiled
      PROVE WrittenInOrder'
  BY <1>1 DEF WrittenInOrder, wvars, Writing
<1>2. ASSUME UNCHANGED <<wvars, n, nleft, spoiled>>, pc \in Writing <=> pc' \in Writing
      PROVE WrittenInOrder'
  BY <1>2 DEF WrittenInOrder, wvars, Writing
<1>3. ASSUME NEW k \in 0 .. MaxRead, Read(k) PROVE WrittenInOrder'
  BY <1>1, <1>3 DEF Read, Writing
<1>4. CASE Readline \/ Copy \/ Fill \/ Direct \/ EndOfFile \/ Again \/ WaitRead \/ WantWrite \/ ReadAfterWrite
  BY <1>1, <1>4 DEF Readline, Copy, Fill, Direct, EndOfFile, Again, WaitRead, WantWrite, ReadAfterWrite, Writing
<1>5. CASE ReadFails \/ ReadCutShort \/ ReadReturns \/ NextByte \/ LineEnds
  BY <1>0, <1>1, <1>5 DEF ReadFails, ReadCutShort, ReadReturns, NextByte, LineEnds, Writing
<1>6. CASE Arrive \/ Hangup \/ WriteAgain \/ WaitWrite \/ Close
  BY <1>2, <1>6 DEF Arrive, Hangup, WriteAgain, WaitWrite, Close, Writing
<1>7. ASSUME NEW o \in 0 .. Total, Lseek(o) PROVE WrittenInOrder'
  BY <1>0, <1>1, <1>7 DEF Lseek, Writing
<1>8. ASSUME NEW k \in 0 .. MaxRead, Write(k) PROVE WrittenInOrder'
  <2>1. pc' \in Writing /\ pc \notin Writing /\ n' - nleft' = 0 /\ UNCHANGED <<out, handed, spoiled>>
    BY <1>8, SizeAssumption DEF Write, wvars, Writing
  <2> QED
    BY <1>0, <2>1 DEF WrittenInOrder, Writing
<1>9. CASE Put
  <2>1. PICK k \in 1 .. nleft : out' = out \o From(handed + n - nleft, k) /\ nleft' = nleft - k
    BY <1>9 DEF Put
  <2>2. pc \in Writing /\ UNCHANGED <<pc, n, handed, spoiled>>
    BY <1>9 DEF Put, Writing, wvars
  <2>3. k \in Nat /\ Given = handed + n - nleft /\ Given' = Given + k /\ 0 + Given = Given
    BY <1>0, <2>1, <2>2 DEF Given
  <2>4. From(0, Given) \o From(0 + Given, k) = From(0, Given + k)
    BY ZenonT(60), <1>0, <2>3, FromConcat
  <2> QED
    BY <1>0, <2>1, <2>2, <2>3, <2>4 DEF WrittenInOrder, Given, Writing
<1>10. CASE WriteReturns \/ WriteCutShort
  <2>1. Given' = Given /\ UNCHANGED <<out, spoiled>>
    BY <1>0, <1>10 DEF WriteReturns, WriteCutShort, Given, Writing
  <2> QED
    BY <1>0, <2>1 DEF WrittenInOrder, Given, Writing
<1>11. CASE WriteFails
  <2>1. ~spoiled' => ~spoiled /\ Given' = Given
    <3>1. ~spoiled' => ~spoiled /\ ~(nleft < n)
      BY <1>11 DEF WriteFails
    <3>2. ~(nleft < n) => n - nleft = 0
      BY <1>0
    <3>3. n - nleft = 0 => Given = handed
      BY <1>0 DEF Given
    <3>4. Given' = handed
      BY <1>0, <1>11 DEF WriteFails, wvars, Given, Writing
    <3> QED
      BY <3>1, <3>2, <3>3, <3>4
  <2>2. out' = out
    BY <1>11 DEF WriteFails, wvars
  <2> QED
    BY <1>0, <2>1, <2>2 DEF WrittenInOrder, Given, Writing
<1>12. CASE Open
  BY <1>12, FromEmpty DEF Open, WrittenInOrder
<1>13. CASE UNCHANGED vars
  BY <1>2, <1>13 DEF vars
<1> QED
  BY <1>3, <1>4, <1>5, <1>6, <1>7, <1>8, <1>9, <1>10, <1>11, <1>12, <1>13 DEF Next, ReadStep, WriteStep

\* The peer gets what write was given, once and in order.
THEOREM WrittenThm == Spec => []WrittenInOrder
<1>1. Init => WrittenInOrder
  BY FromEmpty DEF Init, WrittenInOrder
<1> QED
  BY <1>1, Places, WriteStepInv, PTL DEF Spec

-----------------------------------------------------------------------------
(* The line                                                                 *)

\* One byte more has been passed over, and is kept or not.
LEMMA LineGrows ==
  ASSUME TypeOK, PlaceInv, StreamInv, LineExact, NextByte, ~spoiled
  PROVE  LineExact'
<1> DEFINE b == pos + 1
           passed == pos - lpos + 1 .. pos
<1>1. /\ pos \in Nat /\ lpos \in Nat /\ line \in Seq(Bytes) /\ part \in Seq(Bytes)
      /\ lpos' = lpos + 1 /\ pos' = pos + 1
      /\ line' = IF Kind[part[1]] = "cr" THEN line ELSE line \o part
      /\ Kind[part[1]] \in {"char", "cr"}
  BY DEF NextByte, Ordinary, TypeOK
<1>2. Len(part) = 1
  BY OneByte DEF NextByte, Ordinary
<1>3. part[1] = b
  <2>1. part = From(pos, 1)
    BY <1>2, StreamParts
  <2> QED
    BY <1>1, <2>1 DEF From
<1>4. (pos' - lpos' + 1) .. pos' = passed \cup {b} /\ \A i \in passed : i < b
  BY <1>1
<1>5. /\ ToSet(line) = {i \in passed : Kind[i] # "cr"}
      /\ \A i, j \in DOMAIN line : i < j => line[i] < line[j]
      /\ \A i \in passed : Kind[i] \in {"char", "cr"}
  BY <1>1 DEF LineExact
<1> HIDE DEF b, passed
<1>6. \A i \in passed \cup {b} : Kind[i] \in {"char", "cr"}
  BY <1>1, <1>3, <1>5
<1>7. CASE Kind[b] = "cr"
  <2>1. line' = line /\ ToSet(line) = {i \in passed \cup {b} : Kind[i] # "cr"}
    BY <1>1, <1>3, <1>5, <1>7
  <2> QED
    BY <1>4, <1>5, <1>6, <2>1 DEF LineExact
<1>8. CASE Kind[b] # "cr"
  <2>1. line' = line \o part
    BY <1>1, <1>3, <1>8
  <2>2. /\ Len(line) \in Nat /\ DOMAIN line = 1 .. Len(line)
        /\ DOMAIN line' = 1 .. Len(line) + 1
    <3>1. line' \in Seq(Bytes) /\ Len(line') = Len(line) + 1
      BY <1>1, <1>2, <2>1, ConcatAt, ConcatOne
    <3> QED
      BY <1>1, <3>1, LenProperties
  <2>3. \A i \in 1 .. Len(line) : line'[i] = line[i]
    BY <1>1, <2>1, ConcatAt
  <2>4. line'[Len(line) + 1] = b
    <3>1. (line \o part)[Len(line) + 1] = part[1]
      BY <1>1, <1>2, ConcatOne
    <3> QED
      BY <1>3, <2>1, <3>1
  <2>5. ToSet(line') = ToSet(line) \cup {b}
    BY <2>2, <2>3, <2>4 DEF ToSet
  <2>6. ToSet(line') = {i \in passed \cup {b} : Kind[i] # "cr"}
    BY <1>5, <1>8, <2>5
  <2>7. \A i \in DOMAIN line : line[i] \in passed
    BY <1>5 DEF ToSet
  <2>8. \A i, j \in DOMAIN line' : i < j => line'[i] < line'[j]
    BY <1>4, <1>5, <2>2, <2>3, <2>4, <2>7
  <2> QED
    BY <1>4, <1>6, <2>6, <2>8 DEF LineExact
<1> QED
  BY <1>7, <1>8

LEMMA LineStep ==
  TypeOK /\ PlaceInv /\ StreamInv /\ LineExact /\ [Next]_vars => LineExact'
<1> SUFFICES ASSUME TypeOK, PlaceInv, StreamInv, LineExact, [Next]_vars PROVE LineExact'
  OBVIOUS
\* Steps that leave the line alone, and steps that end it.
<1>1. ASSUME UNCHANGED <<pos, lvars>>, ~spoiled' => ~spoiled PROVE LineExact'
  BY <1>1 DEF LineExact, lvars
<1>2. ASSUME lpos' = -1 PROVE LineExact'
  BY <1>2 DEF LineExact
<1>3. ASSUME pc \notin Reading, UNCHANGED lpos PROVE LineExact'
  BY <1>3 DEF LineExact, PlaceInv
<1>4. CASE \/ Arrive \/ Hangup \/ Copy \/ Fill \/ Direct \/ EndOfFile \/ Again \/ WaitRead
           \/ WantWrite \/ ReadAfterWrite
  BY <1>1, <1>4 DEF Arrive, Hangup, Copy, Fill, Direct, EndOfFile, Again, WaitRead, WantWrite,
     ReadAfterWrite, rvars
<1>5. CASE ReadCutShort
  BY <1>1, <1>5 DEF ReadCutShort
<1>6. CASE ReadFails \/ LineEnds
  BY <1>2, <1>6 DEF ReadFails, LineEnds
<1>7. CASE ReadReturns
  BY <1>2, <1>7 DEF ReadReturns, lvars
<1>8. CASE Readline
  <2>1. lpos' = 0 /\ line' = <<>> /\ pos' = pos /\ pos \in Nat
    BY <1>8 DEF Readline, TypeOK
  <2>2. pos' - lpos' + 1 .. pos' = {} /\ DOMAIN line' = {} /\ ToSet(line') = {}
    BY <2>1 DEF ToSet
  <2> QED
    BY <2>2 DEF LineExact
<1>9. CASE NextByte
  BY <1>9, LineGrows DEF NextByte, LineExact
<1>10. ASSUME NEW k \in 0 .. MaxRead, Read(k) \/ Write(k) PROVE LineExact'
  BY <1>3, <1>10 DEF Read, Write, Reading, Asking, lvars
<1>11. CASE WriteReturns \/ WriteAgain \/ WaitWrite \/ WriteFails \/ WriteCutShort \/ Put
  BY <1>3, <1>11 DEF WriteReturns, WriteAgain, WaitWrite, WriteFails, WriteCutShort, Put, Reading, Asking, lvars
<1>12. ASSUME NEW o \in 0 .. Total, Lseek(o) PROVE LineExact'
  BY <1>3, <1>12 DEF Lseek, Reading, Asking, lvars
<1>13. CASE Close \/ Open
  BY <1>3, <1>13 DEF Close, Open, Reading, Asking, lvars
<1>14. CASE UNCHANGED vars
  BY <1>1, <1>14 DEF vars, rvars
<1> QED
  BY <1>4, <1>5, <1>6, <1>7, <1>8, <1>9, <1>10, <1>11, <1>12, <1>13, <1>14 DEF Next, ReadStep, WriteStep

\* readline keeps what it passes over, but for carriage returns.
THEOREM LineThm == Spec => []LineExact
<1>1. Init => LineExact /\ StreamInv
  BY FromEmpty, ConcatEmptySeq, EmptySeq DEF Init, LineExact, StreamInv
<1> QED
  BY <1>1, Places, StreamStep, LineStep, PTL DEF Spec
=============================================================================
