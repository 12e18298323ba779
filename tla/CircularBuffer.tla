--------------------------- MODULE CircularBuffer ---------------------------
(***************************************************************************)
(* The ring of bytes between the main and the epoll thread                 *)
(* (Public/CircularBuffer.h), one thread writing and the other reading,    *)
(* with the ways Kernel/Net uses it: Send writes and OnSend reads a send   *)
(* buffer, OnRead writes and OnRecv reads a receive buffer.  A byte is the *)
(* value the write counter had for it.  The counters are s32 and wrap.     *)
(***************************************************************************)
EXTENDS Integers, Sequences

CONSTANTS
  Request,     \* the size given to the constructor
  Wrap,        \* number of values of a counter, 2^32 in the code
  Beyond       \* a byte behind the end of the memory

\* (temp & num) # 0 for temp = -2^k and a positive num: num has a bit from k up.
RoundupPowerOf2(num) ==
  LET k == CHOOSE k \in 0 .. 15 : num >= 2 ^ k /\ (k = 15 \/ num < 2 ^ (k + 1))
  IN  -(2 ^ (k + 1))

PowerOf2(num) == \E k \in 0 .. 30 : num = 2 ^ k
Size == IF PowerOf2(Request) THEN Request ELSE RoundupPowerOf2(Request)

\* RoundupPowerOf2 starts from a negative number and keeps the sign: only a request that
\* is a power of two gives a buffer.
ASSUME SizeAssumption == Request \in Nat /\ Size \in Nat \ {0}
ASSUME RoundupIsNegative == \A num \in 1 .. 100 : RoundupPowerOf2(num) < 0
ASSUME WrapAssumption == Wrap \in Nat /\ Wrap % Size = 0 /\ Wrap >= 2 * Size
ASSUME BeyondAssumption == Beyond \notin 0 .. Wrap - 1

VARIABLES
  buff, wcount, rcount,
  pcW, wlen,   \* the writer and the length it has settled on
  pcR, want,   \* the reader and the length of its packet, 0 in OnSend
  rlen, taken, \* the length GetCanReadBuff gave, the bytes the reader took
  reload       \* the compiler loads _wcount again for the length (it may, or not)

writer == <<pcW, wlen, wcount>>
reader == <<pcR, want, rlen, taken, rcount>>
vars == <<buff, writer, reader, reload>>

Minus(a, b) == (a - b + Wrap) % Wrap
Plus(a, n) == (a + n) % Wrap
DataSize == Minus(wcount, rcount)
GetUnUsed == Size - DataSize
RealW == wcount % Size
RealR == rcount % Size
Lesser(a, b) == IF a < b THEN a ELSE b

Init ==
  /\ buff = [i \in 0 .. Size - 1 |-> Beyond]
  /\ wcount = 0 /\ pcW = "idle" /\ wlen = 0
  /\ rcount = 0 /\ pcR = "idle" /\ want = 0 /\ rlen = 0 /\ taken = <<>>
  /\ reload \in BOOLEAN

(***************************************************************************)
(* The writer.                                                             *)
(***************************************************************************)
\* The bytes put in by the two copies of Write, or by recv, which never passes the end.
Filled(n) == [i \in 0 .. Size - 1 |->
                LET k == (i - RealW + Size) % Size IN IF k < n THEN Plus(wcount, k) ELSE buff[i]]

\* Write, for any length that TcpConnection::Send gives: a part of it when it is too long.
WriteBegin(len) ==
  /\ pcW = "idle"
  /\ pcW' = "fill" /\ wlen' = Lesser(len, GetUnUsed)
  /\ UNCHANGED <<buff, wcount, reader, reload>>

Bug_CanWrite == Size - RealW
CanWrite == IF RealW >= RealR THEN Size - RealW ELSE RealR - RealW

\* GetCanWriteBuff: _rcount is loaded twice.  On a full buffer OnRead gives up, and the
\* connection is closed.
CanWriteBegin ==
  /\ pcW = "idle" /\ GetUnUsed # 0
  /\ pcW' = "room"
  /\ UNCHANGED <<buff, wlen, wcount, reader, reload>>

\* recv takes some bytes for the room there is.
CanWriteEnd ==
  /\ pcW = "room"
  /\ \E n \in 1 .. CanWrite : wlen' = n
  /\ pcW' = "fill"
  /\ UNCHANGED <<buff, wcount, reader, reload>>

Fill ==
  /\ pcW = "fill"
  /\ buff' = Filled(wlen)
  /\ pcW' = "publish"
  /\ UNCHANGED <<wlen, wcount, reader, reload>>

\* The end of Write, and WriteBuff.
Publish ==
  /\ pcW = "publish"
  /\ wcount' = Plus(wcount, wlen)
  /\ pcW' = "idle" /\ wlen' = 0
  /\ UNCHANGED <<buff, reader, reload>>

(***************************************************************************)
(* The reader.                                                             *)
(***************************************************************************)
\* OnSend with data in the buffer (p = 0), or OnRecv with a packet of p bytes, which
\* OnParsePacket found by TryReadBuff and DataSize.
ReadBegin(p) ==
  /\ pcR = "idle" /\ DataSize > 0 /\ p <= DataSize
  /\ pcR' = "test" /\ want' = p
  /\ UNCHANGED <<buff, writer, rlen, taken, rcount, reload>>

\* The comparison in GetCanReadBuff, and the length if that needs no other load.
CanRead ==
  /\ pcR = "test"
  /\ IF RealW > RealR /\ reload
     THEN pcR' = "ahead" /\ UNCHANGED rlen
     ELSE /\ pcR' = "have"
          /\ rlen' = IF RealW > RealR THEN DataSize ELSE Size - RealR
  /\ UNCHANGED <<buff, writer, want, taken, rcount, reload>>

CanReadLength ==
  /\ pcR = "ahead"
  /\ pcR' = "have" /\ rlen' = DataSize
  /\ UNCHANGED <<buff, writer, want, taken, rcount, reload>>

\* n bytes from the place the reader is at, straight on or by the two copies of Read.
Straight(n) == [i \in 1 .. n |-> IF RealR + i - 1 < Size THEN buff[RealR + i - 1] ELSE Beyond]
Copied(n) == [i \in 1 .. n |-> buff[(RealR + i - 1) % Size]]

Bug_PacketBytes == Straight(want)

\* OnRecv: a packet that is not in one piece is copied, another one is used in place.
PacketBytes == IF rlen < want THEN Copied(want) ELSE Straight(want)

Take ==
  /\ pcR = "have"
  /\ \/ want > 0 /\ taken' = PacketBytes
     \/ want = 0 /\ \E n \in 1 .. rlen : taken' = Straight(n)
  /\ pcR' = "took"
  /\ UNCHANGED <<buff, writer, want, rlen, rcount, reload>>

\* The end of Read(buff, len), and Read(size).
Consume ==
  /\ pcR = "took"
  /\ rcount' = Plus(rcount, Len(taken))
  /\ pcR' = "idle" /\ want' = 0 /\ rlen' = 0 /\ taken' = <<>>
  /\ UNCHANGED <<buff, writer, reload>>

Next ==
  \/ \E n \in 0 .. Size + 1 : WriteBegin(n)
  \/ CanWriteBegin \/ CanWriteEnd \/ Fill \/ Publish
  \/ \E p \in 0 .. Size : ReadBegin(p)
  \/ CanRead \/ CanReadLength \/ Take \/ Consume

Spec == Init /\ [][Next]_vars

(***************************************************************************)
(* Properties.                                                             *)
(***************************************************************************)
\* Every variable has its type, and the counters are never further apart than the size,
\* across their wrap too.
TypeOK ==
  /\ buff \in [0 .. Size - 1 -> 0 .. Wrap - 1 \cup {Beyond}]
  /\ wcount \in 0 .. Wrap - 1 /\ rcount \in 0 .. Wrap - 1 /\ DataSize <= Size
  /\ pcW \in {"idle", "room", "fill", "publish"} /\ wlen \in 0 .. Size
  /\ pcR \in {"idle", "test", "ahead", "have", "took"} /\ want \in 0 .. Size
  /\ rlen \in 0 .. Size /\ taken \in Seq(0 .. Wrap - 1 \cup {Beyond})
  /\ reload \in BOOLEAN

\* Bytes that were written and not read yet are where the reader will look for them, and
\* what the writer is about to put in leaves them alone.
UnreadIntact ==
  /\ \A k \in 0 .. DataSize - 1 : buff[Plus(rcount, k) % Size] = Plus(rcount, k)
  /\ wlen <= GetUnUsed

\* The reader takes the bytes in the order they were written, however the writer moves
\* on meanwhile.  Behind the end of the memory it reads only in a build that loads
\* _wcount twice in GetCanReadBuff.
ReadsInOrder ==
  \A i \in DOMAIN taken : IF taken[i] = Beyond THEN reload
                          ELSE taken[i] = Plus(rcount, i - 1)
=============================================================================
