-------------------------- MODULE EchoClientProofs --------------------------
(***************************************************************************)
(* Proofs about EchoClient, for any limit, any size of the buffers and any *)
(* capacity of the connection.                                             *)
(***************************************************************************)
EXTENDS EchoClient, TLAPS

\* The writer is below its limit when it starts a write, so that its total never
\* wraps, and what a write that ended without success had written is not lost.
Writing ==
  /\ wpc = "write" => total < size /\ (size = Limit \/ total <= MaxTotal)
  /\ client = "asio" /\ wop \in {"pending", "aborted"} => wbytes = 0
  /\ client = "corosio" => wop # "aborted" /\ ~wcancelled /\ total + wbytes <= size
  /\ wpc = "done" /\ ~broken => wbytes = 0

\* Only the deadline, or an error of the connection, cancels the writer.
Deadlines ==
  /\ deadline = "off" => size = Limit
  /\ wpc = "idle" => deadline # "fired"
  /\ client = "asio" /\ deadline = "fired" /\ wpc = "write" => wcancelled
  /\ wop = "aborted" => wcancelled
  /\ wcancelled => deadline = "fired" \/ broken

\* On a connection that is not broken no thread fails and the reader is never
\* cancelled; a client that has not connected has written and read nothing.
Failing ==
  /\ wop = "error" => broken
  /\ rop \in {"error", "aborted"} \/ rcancelled => broken
  /\ wpc = "idle" <=> rpc = "idle"
  /\ wpc = "idle" => ~broken
  /\ ~broken => (wpc = "threw" <=> rpc = "threw")
  /\ wpc \in {"idle", "threw"} /\ ~broken => total = 0 /\ wbytes = 0 /\ nread = 0

\* The end of the stream follows the last byte, in both directions.
Ending ==
  /\ rop # "ok" => rbytes = 0
  /\ spc = "read" => hold = 0
  /\ finC => wpc = "done"
  /\ ~broken /\ spc = "closed" => finC /\ c2s = 0 /\ hold = 0
  /\ ~broken /\ rop = "eof" => spc = "closed" /\ s2c = 0
  /\ ~broken /\ rpc = "done" => rop = "eof"

IInv == Conservation /\ LimitReached /\ Writing /\ Deadlines /\ Failing /\ Ending

USE DEF cfgVars, writerVars, readerVars, peerVars, netVars, NoLimit, Status

\* The smaller one of two numbers.
LEMMA MinOfTwo ==
  ASSUME NEW a \in Int, NEW b \in Int
  PROVE  /\ Min({a, b}) \in Int
         /\ Min({a, b}) <= a /\ Min({a, b}) <= b
         /\ Min({a, b}) = a \/ Min({a, b}) = b
  BY DEF Min

\* An operation that is bounded by two numbers is bounded by each of them.
LEMMA UpToMin ==
  ASSUME NEW a \in Int, NEW b \in Int, NEW n \in 1 .. Min({a, b})
  PROVE  n <= a /\ n <= b
  BY MinOfTwo

\* Arithmetic on size_t is exact up to its range.
LEMMA WrapExact == /\ \A n \in Nat : Wrap(n) \in 0 .. 2^Width - 1
                   /\ \A n \in 0 .. 2^Width - 1 : Wrap(n) = n
  BY EchoClientAssumption DEF Wrap

\* Both clients ask to write at least one byte and at most a buffer, and the
\* Corosio client not more than the limit leaves, although the difference of the
\* Asio client wraps (client.cpp:45).
LEMMA ChunkBounds ==
  ASSUME TypeOK, total < size
  PROVE  Chunk \in 1 .. BufferSize /\ (client = "corosio" => Chunk <= size - total)
<1>1. 2^Width + total - size \in 0 .. 2^Width - 1 /\ 2^Width + total - size > 0
  BY EchoClientAssumption DEF TypeOK
<1>2. Wrap(2^Width + total - size) = 2^Width + total - size
  BY <1>1, WrapExact
<1>3. AsioChunk \in 1 .. BufferSize
  BY <1>1, <1>2, MinOfTwo, EchoClientAssumption DEF AsioChunk
<1>4. size - total \in Int /\ size - total > 0 /\ BufferSize \in Int /\ BufferSize > 0
  BY EchoClientAssumption DEF TypeOK
<1>5. CorosioChunk \in 1 .. BufferSize /\ CorosioChunk <= size - total
  BY <1>4, MinOfTwo DEF CorosioChunk
<1> QED
  BY <1>3, <1>5 DEF Chunk, TypeOK

\* The total never wraps.
LEMMA WrittenIsExact ==
  ASSUME TypeOK, Writing, wpc = "write"
  PROVE  Written = total + wbytes /\ Written \in 0 .. 2^Width - 1
<1>1. total + wbytes \in 0 .. 2^Width - 1
  BY EchoClientAssumption DEF TypeOK, Writing
<1> QED
  BY <1>1, WrapExact DEF Written

\* The initial state satisfies the inductive invariant.
LEMMA InitIInv == Init => IInv
<1> SUFFICES ASSUME Init PROVE IInv
  OBVIOUS
<1>1. TypeOK
  <2>1. size \in {Limit, NoLimit} /\ deadline \in {"running", "fired", "off"}
    BY DEF Init
  <2>2. {0} \subseteq 0 .. BufferSize /\ {0} \subseteq 0 .. Capacity /\ {0} \subseteq 0 .. 2^Width - 1
    BY EchoClientAssumption
  <2> QED
    BY <2>1, <2>2 DEF Init, TypeOK
<1>2. Conservation /\ LimitReached
  BY <1>1, EchoClientAssumption DEF Init, Conservation, InTransit, LimitReached
<1>3. Writing /\ Deadlines
  BY EchoClientAssumption DEF Init, Writing, Deadlines
<1>4. Failing /\ Ending
  BY DEF Init, Failing, Ending
<1> QED
  BY <1>2, <1>3, <1>4 DEF IInv

\* Connecting changes no count.
LEMMA ConnectingStep == IInv /\ Connecting => IInv'
<1> SUFFICES ASSUME IInv, Connecting PROVE IInv'
  OBVIOUS
<1>1. TypeOK'
  <2>1. CASE Connects
    BY <2>1 DEF Connects, IInv, Conservation, TypeOK
  <2>2. CASE ConnectFails
    BY <2>2, EchoClientAssumption DEF ConnectFails, IInv, Conservation, TypeOK
  <2> QED
    BY <2>1, <2>2 DEF Connecting
<1>2. size > 0
  BY EchoClientAssumption DEF IInv, Conservation, TypeOK
<1>3. Writing'
  <2>1. CASE Connects
    BY <1>2, <2>1, EchoClientAssumption DEF Connects, IInv, Conservation, TypeOK, Writing, Failing
  <2>2. CASE ConnectFails
    BY <2>2 DEF ConnectFails, IInv, Conservation, TypeOK, Writing
  <2> QED
    BY <2>1, <2>2 DEF Connecting
<1>4. Deadlines'
  BY DEF Connecting, Connects, ConnectFails, IInv, Deadlines
<1>5. Failing' /\ Ending'
  BY DEF Connecting, Connects, ConnectFails, IInv, Conservation, TypeOK, Failing, Ending
<1>6. Conservation' /\ LimitReached'
  BY <1>1 DEF Connecting, Connects, ConnectFails, IInv, Conservation, InTransit, LimitReached
<1> QED
  BY <1>3, <1>4, <1>5, <1>6 DEF IInv

\* A write has been counted: the writer goes on, or is done.
LEMMA WriteCountedStep == IInv /\ (WriteNext \/ WriteLimit) => IInv'
<1> SUFFICES ASSUME IInv, WriteNext \/ WriteLimit PROVE IInv'
  OBVIOUS
<1> USE DEF CloseSend
<1>1. Written = total + wbytes /\ Written \in 0 .. 2^Width - 1
  BY WrittenIsExact DEF WriteNext, WriteLimit, IInv, Conservation
<1>2. /\ wpc = "write" /\ wop = "ok" /\ total' = total + wbytes /\ wbytes' = 0
      /\ wpc' \in {"write", "done"}
      /\ UNCHANGED <<wcancelled, readerVars, cfgVars, deadline, peerVars, c2s, s2c, broken>>
  BY <1>1 DEF WriteNext, WriteLimit
<1>3. TypeOK'
  <2>1. wop' \in Status /\ finC' \in BOOLEAN
    BY DEF WriteNext, WriteLimit, IInv, Conservation, TypeOK
  <2> QED
    BY <1>1, <1>2, <2>1, EchoClientAssumption DEF IInv, Conservation, TypeOK
<1>4. Conservation'
  BY <1>2, <1>3 DEF IInv, Conservation, TypeOK, InTransit
<1>5. Writing' /\ LimitReached'
  <2>1. CASE WriteNext
    BY <1>1, <1>2, <2>1, EchoClientAssumption
    DEF WriteNext, TimeIsUp, IInv, Conservation, TypeOK, LimitReached, Writing, Deadlines
  <2>2. CASE WriteLimit
    BY <1>1, <1>2, <2>2, EchoClientAssumption
    DEF WriteLimit, IInv, Conservation, TypeOK, LimitReached, Writing, Deadlines
  <2> QED
    BY <2>1, <2>2
<1>6. Deadlines' /\ Failing' /\ Ending'
  BY <1>2 DEF WriteNext, WriteLimit, IInv, Conservation, TypeOK, Deadlines, Failing, Ending
<1> QED
  BY <1>4, <1>5, <1>6 DEF IInv

\* The writer is cancelled, or fails.
LEMMA WriteStopsStep == IInv /\ (WriteAborted \/ WriteThrows \/ WriteBreaks) => IInv'
<1> SUFFICES ASSUME IInv, WriteAborted \/ WriteThrows \/ WriteBreaks PROVE IInv'
  OBVIOUS
<1> USE DEF WriteAborted, WriteThrows, WriteBreaks, CloseSend, CancelReader
<1>1. TypeOK'
  BY DEF IInv, Conservation, TypeOK
<1>2. Conservation' /\ LimitReached'
  BY <1>1 DEF IInv, Conservation, TypeOK, InTransit, LimitReached, Writing, Deadlines, Failing
<1>3. Writing' /\ Deadlines'
  BY DEF IInv, Conservation, TypeOK, Writing, Deadlines, Failing
<1>4. Failing' /\ Ending'
  BY DEF IInv, Conservation, TypeOK, Failing, Ending
<1> QED
  BY <1>2, <1>3, <1>4 DEF IInv

\* The reader counts what it has read, and ends.
LEMMA ReaderStep == IInv /\ Reader => IInv'
<1> SUFFICES ASSUME IInv, Reader PROVE IInv'
  OBVIOUS
<1>1. CASE ReadNext
  <2>1. ~broken => nread + rbytes \in 0 .. 2^Width - 1
    <3>1. wpc = "write" => total + wbytes \in 0 .. 2^Width - 1
      BY WrittenIsExact DEF IInv, Conservation, TypeOK
    <3>2. ~broken => nread + rbytes <= total + wbytes
      BY DEF IInv, Conservation, TypeOK, InTransit
    <3>3. ~broken => total + wbytes \in 0 .. 2^Width - 1
      BY <3>1 DEF IInv, Conservation, TypeOK, Writing, Failing
    <3> QED
      BY <3>2, <3>3, EchoClientAssumption DEF IInv, Conservation, TypeOK
  <2>2. nread' \in 0 .. 2^Width - 1 /\ (~broken => nread' = nread + rbytes)
    BY <1>1, <2>1, WrapExact, EchoClientAssumption DEF ReadNext, IInv, Conservation, TypeOK
  <2>3. TypeOK'
    BY <1>1, <2>2, EchoClientAssumption DEF ReadNext, IInv, Conservation, TypeOK
  <2>4. Conservation' /\ LimitReached'
    BY <1>1, <2>2, <2>3 DEF ReadNext, IInv, Conservation, TypeOK, InTransit, LimitReached
  <2>5. Writing' /\ Deadlines'
    BY <1>1 DEF ReadNext, IInv, Writing, Deadlines
  <2>6. Failing' /\ Ending'
    BY <1>1 DEF ReadNext, IInv, Conservation, TypeOK, Failing, Ending
  <2> QED
    BY <2>4, <2>5, <2>6 DEF IInv
<1>2. CASE ReadEnds \/ ReadThrows
  <2> USE DEF ReadEnds, ReadErrors, ReadThrows, CancelWriter
  <2>1. TypeOK'
    BY <1>2 DEF IInv, Conservation, TypeOK
  <2>2. Conservation' /\ LimitReached'
    BY <1>2, <2>1 DEF IInv, Conservation, TypeOK, InTransit, LimitReached
  <2>3. Writing' /\ Deadlines'
    BY <1>2 DEF IInv, Conservation, TypeOK, Writing, Deadlines, Failing
  <2>4. Failing' /\ Ending'
    BY <1>2 DEF IInv, Conservation, TypeOK, Failing, Ending
  <2> QED
    BY <2>2, <2>3, <2>4 DEF IInv
<1> QED
  BY <1>1, <1>2 DEF Reader

\* The deadline, and a reset of the connection.
LEMMA OutsideStep == IInv /\ (DeadlineFires \/ Breaks) => IInv'
<1> SUFFICES ASSUME IInv, DeadlineFires \/ Breaks PROVE IInv'
  OBVIOUS
<1>1. CASE DeadlineFires
  <2> USE DEF DeadlineFires, CancelWriter
  <2>1. TypeOK'
    <3>1. wop' \in Status /\ wcancelled' \in BOOLEAN /\ UNCHANGED <<wpc, wbytes, total>>
      BY <1>1 DEF IInv, Conservation, TypeOK
    <3> QED
      BY <1>1, <3>1 DEF IInv, Conservation, TypeOK
  <2>2. Conservation' /\ LimitReached'
    BY <1>1, <2>1 DEF IInv, Conservation, TypeOK, InTransit, LimitReached
  <2>3. Writing' /\ Deadlines'
    BY <1>1 DEF IInv, Conservation, TypeOK, Writing, Deadlines
  <2>4. Failing' /\ Ending'
    BY <1>1 DEF IInv, Conservation, TypeOK, Failing, Ending
  <2> QED
    BY <2>2, <2>3, <2>4 DEF IInv
<1>2. CASE Breaks
  <2>1. TypeOK'
    BY <1>2, EchoClientAssumption DEF Breaks, IInv, Conservation, TypeOK
  <2>2. Conservation' /\ LimitReached'
    BY <1>2, <2>1 DEF Breaks, IInv, Conservation, LimitReached
  <2>3. Writing' /\ Deadlines' /\ Failing' /\ Ending'
    BY <1>2 DEF Breaks, IInv, Conservation, TypeOK, Writing, Deadlines, Failing, Ending
  <2> QED
    BY <2>2, <2>3 DEF IInv
<1> QED
  BY <1>1, <1>2

\* The session of the server moves bytes from one direction to the other.
LEMMA PeerStep == IInv /\ Peer => IInv'
<1> SUFFICES ASSUME IInv, Peer PROVE IInv'
  OBVIOUS
<1>1. ASSUME NEW n \in 1 .. BufferSize, SessionReads(n) PROVE IInv'
  <2>1. n <= c2s /\ n <= BufferSize
    <3>1. c2s \in Int /\ BufferSize \in Int
      BY EchoClientAssumption DEF IInv, Conservation, TypeOK
    <3>2. n \in 1 .. Min({c2s, BufferSize})
      BY <1>1 DEF SessionReads
    <3> QED
      BY <3>1, <3>2, UpToMin
  <2>2. TypeOK'
    BY <1>1, <2>1, EchoClientAssumption DEF SessionReads, IInv, Conservation, TypeOK
  <2>3. Conservation' /\ LimitReached'
    BY <1>1, <2>1, <2>2 DEF SessionReads, IInv, Conservation, TypeOK, InTransit, LimitReached,
       Ending
  <2>4. Writing' /\ Deadlines' /\ Failing' /\ Ending'
    BY <1>1 DEF SessionReads, IInv, Conservation, TypeOK, Writing, Deadlines, Failing, Ending
  <2> QED
    BY <2>3, <2>4 DEF IInv
<1>2. ASSUME NEW n \in 1 .. BufferSize, SessionWrites(n) PROVE IInv'
  <2>1. n <= hold /\ n <= Capacity - s2c
    <3>1. hold \in Int /\ Capacity - s2c \in Int
      BY EchoClientAssumption DEF IInv, Conservation, TypeOK
    <3>2. n \in 1 .. Min({hold, Capacity - s2c})
      BY <1>2 DEF SessionWrites
    <3> QED
      BY <3>1, <3>2, UpToMin
  <2>2. TypeOK'
    BY <1>2, <2>1, EchoClientAssumption DEF SessionWrites, IInv, Conservation, TypeOK
  <2>3. Conservation' /\ LimitReached'
    BY <1>2, <2>1, <2>2 DEF SessionWrites, IInv, Conservation, TypeOK, InTransit, LimitReached
  <2>4. Writing' /\ Deadlines' /\ Failing' /\ Ending'
    BY <1>2, <2>1 DEF SessionWrites, IInv, Conservation, TypeOK, Writing, Deadlines, Failing, Ending
  <2> QED
    BY <2>3, <2>4 DEF IInv
<1>3. CASE SessionEnds
  <2>1. TypeOK'
    BY <1>3 DEF SessionEnds, IInv, Conservation, TypeOK
  <2>2. Conservation' /\ LimitReached'
    BY <1>3, <2>1 DEF SessionEnds, IInv, Conservation, TypeOK, InTransit, LimitReached
  <2>3. Writing' /\ Deadlines' /\ Failing' /\ Ending'
    BY <1>3 DEF SessionEnds, IInv, Conservation, TypeOK, Writing, Deadlines, Failing, Ending
  <2> QED
    BY <2>2, <2>3 DEF IInv
<1> QED
  BY <1>1, <1>2, <1>3 DEF Peer

\* A write completes, in part or in full, or fails.
LEMMA WriteIOStep == IInv /\ WriteIO => IInv'
<1> SUFFICES ASSUME IInv, WriteIO PROVE IInv'
  OBVIOUS
<1>1. ASSUME NEW n \in 1 .. BufferSize, WriteCompletes(n) PROVE IInv'
  <2>1. Chunk \in 1 .. BufferSize /\ (client = "corosio" => Chunk <= size - total)
    BY <1>1, ChunkBounds DEF WriteCompletes, IInv, Conservation, Writing
  <2>2. n <= Chunk - wbytes /\ n <= Capacity - c2s
    <3>1. Chunk - wbytes \in Int /\ Capacity - c2s \in Int
      BY <2>1, EchoClientAssumption DEF IInv, Conservation, TypeOK
    <3>2. n \in 1 .. Min({Chunk - wbytes, Capacity - c2s})
      BY <1>1 DEF WriteCompletes
    <3> QED
      BY <3>1, <3>2, UpToMin
  <2>3. /\ wpc = "write" /\ wop = "pending" /\ ~broken
        /\ wbytes' = wbytes + n /\ c2s' = c2s + n
        /\ wop' \in {"ok", "pending"} /\ (client = "asio" => wop' = "ok")
        /\ UNCHANGED <<wpc, total, wcancelled, readerVars, cfgVars, deadline, peerVars,
                       s2c, finC, broken>>
    BY <1>1 DEF WriteCompletes
  <2>4. TypeOK'
    BY <2>1, <2>2, <2>3, EchoClientAssumption DEF IInv, Conservation, TypeOK
  <2>5. Conservation' /\ LimitReached'
    BY <2>3, <2>4 DEF IInv, Conservation, TypeOK, InTransit, LimitReached
  <2>6. Writing'
    BY <2>1, <2>2, <2>3, EchoClientAssumption DEF IInv, Conservation, TypeOK, Writing
  <2>7. Deadlines' /\ Failing' /\ Ending'
    BY <2>3 DEF IInv, Conservation, TypeOK, Deadlines, Failing, Ending
  <2> QED
    BY <2>5, <2>6, <2>7 DEF IInv
<1>2. CASE WriteFails
  <2>1. TypeOK'
    BY <1>2 DEF WriteFails, IInv, Conservation, TypeOK
  <2>2. Conservation' /\ LimitReached'
    BY <1>2, <2>1 DEF WriteFails, IInv, Conservation, TypeOK, InTransit, LimitReached
  <2>3. Writing' /\ Deadlines' /\ Failing' /\ Ending'
    BY <1>2 DEF WriteFails, IInv, Conservation, TypeOK, Writing, Deadlines, Failing, Ending
  <2> QED
    BY <2>2, <2>3 DEF IInv
<1> QED
  BY <1>1, <1>2 DEF WriteIO

\* A read completes with some bytes, at the end of the stream, or with an error.
LEMMA ReadIOStep == IInv /\ ReadIO => IInv'
<1> SUFFICES ASSUME IInv, ReadIO PROVE IInv'
  OBVIOUS
<1>1. ASSUME NEW n \in 1 .. BufferSize, ReadCompletes(n) PROVE IInv'
  <2>1. n <= s2c /\ n <= BufferSize
    <3>1. s2c \in Int /\ BufferSize \in Int
      BY EchoClientAssumption DEF IInv, Conservation, TypeOK
    <3>2. n \in 1 .. Min({s2c, BufferSize})
      BY <1>1 DEF ReadCompletes
    <3> QED
      BY <3>1, <3>2, UpToMin
  <2>2. TypeOK'
    BY <1>1, <2>1, EchoClientAssumption DEF ReadCompletes, IInv, Conservation, TypeOK
  <2>3. Conservation' /\ LimitReached'
    BY <1>1, <2>1, <2>2 DEF ReadCompletes, IInv, Conservation, TypeOK, InTransit, LimitReached,
       Ending
  <2>4. Writing' /\ Deadlines' /\ Failing' /\ Ending'
    BY <1>1 DEF ReadCompletes, IInv, Conservation, TypeOK, Writing, Deadlines, Failing, Ending
  <2> QED
    BY <2>3, <2>4 DEF IInv
<1>2. CASE ReadReachesEnd \/ \E r \in {"eof", "error"} : ReadFails(r)
  <2> USE DEF ReadReachesEnd, ReadFails
  <2>1. TypeOK'
    BY <1>2 DEF IInv, Conservation, TypeOK
  <2>2. Conservation' /\ LimitReached'
    BY <1>2, <2>1 DEF IInv, Conservation, TypeOK, InTransit, LimitReached
  <2>3. Writing' /\ Deadlines' /\ Failing' /\ Ending'
    BY <1>2 DEF IInv, Conservation, TypeOK, Writing, Deadlines, Failing, Ending
  <2> QED
    BY <2>2, <2>3 DEF IInv
<1> QED
  BY <1>1, <1>2 DEF ReadIO

\* Every step keeps the invariant.
LEMMA Inductive == IInv /\ [Next]_vars => IInv'
<1>1. IInv /\ UNCHANGED vars => IInv'
  BY DEF vars, IInv, Conservation, TypeOK, InTransit, LimitReached, Writing, Deadlines, Failing,
     Ending
<1> QED
  BY <1>1, ConnectingStep, WriteCountedStep, WriteStopsStep, ReaderStep, OutsideStep, PeerStep,
     WriteIOStep, ReadIOStep DEF Next, Writer

\* The inductive invariant of a connection of the load generators.
THEOREM Invariant == Spec => []IInv
  BY InitIInv, Inductive, PTL DEF Spec

\* No byte that is counted as written is lost or counted twice, for any limit,
\* buffer and socket buffer (write_loop() and read() of both clients).
THEOREM ByteConservation == Spec => []Conservation
  BY Invariant, PTL DEF IInv

\* Both clients report as many bytes read as written, unless the connection has
\* been broken, whenever the deadline fires.
THEOREM CompleteEcho == Spec => []NothingLost
<1>1. IInv => NothingLost
  BY DEF IInv, Conservation, TypeOK, InTransit, Writing, Failing, Ending, NothingLost, Finished
<1> QED
  BY <1>1, Invariant, PTL

\* Without a deadline the writer reaches its limit, the Asio client less than one
\* buffer too late although the difference in client.cpp:45 wraps.
THEOREM ReachedLimit == Spec => []LimitReached
  BY Invariant, PTL DEF IInv

-----------------------------------------------------------------------------
(***************************************************************************)
(* Termination.  Without fairness a behaviour may stop anywhere; what is   *)
(* proved is that it cannot stop because everyone waits for everyone, and  *)
(* that it cannot go on for ever.                                          *)
(***************************************************************************)
\* An operation that succeeded has moved something, one that goes on has something
\* left to move, and a writer that is done has told the session.
Moving ==
  /\ wop # "eof"
  /\ wpc = "idle" => wop = "pending" /\ wbytes = 0 /\ total = 0 /\ rop = "pending"
  /\ wpc = "write" /\ wop = "ok" => wbytes > 0
  /\ wpc = "write" /\ wop = "pending" => wbytes < Chunk
  /\ rpc = "read" /\ rop = "ok" => rbytes > 0
  /\ spc = "write" => hold > 0
  /\ wpc = "done" => finC

\* Somebody whom the specification is fair to can go on: a loop of the client
\* whose operation has completed, an operation that can complete, or the session.
WriterReady ==
  /\ wpc = "write"
  /\ \/ wop \in {"error", "aborted"}
     \/ wop = "ok" /\ (Written < size /\ Written > MaxTotal => deadline # "running")
     \/ wop = "pending" /\ (broken \/ (wbytes < Chunk /\ c2s < Capacity))
     \/ deadline = "running"
ReaderReady ==
  rpc = "read" /\ (rop # "pending" \/ broken \/ s2c > 0 \/ spc = "closed")
SessionReady ==
  \/ spc = "read" /\ (c2s > 0 \/ finC \/ broken)
  \/ spc = "write" /\ (broken \/ (hold > 0 /\ s2c < Capacity))

Ready == wpc = "idle" \/ WriterReady \/ ReaderReady \/ SessionReady

\* How much there is to do: bytes count less the further they are on their way.
One(b) == IF b THEN 1 ELSE 0
Rank(p) == IF p = "idle" THEN 2 ELSE One(p \in {"read", "write"})

BytesLeft ==
  12 * (2^Width - total) + 10 * (BufferSize - wbytes) + 8 * c2s + 6 * hold + 4 * s2c + 2 * rbytes

StepsLeft == addrs + Rank(wpc) + Rank(rpc) + One(wop = "pending") + One(rop = "pending")
        + One(deadline = "running") + One(~broken) + One(spc # "closed")

Remaining == BytesLeft + StepsLeft

\* A write that is started has a byte to write.
LEMMA MovingInductive == IInv /\ Moving /\ [Next]_vars => Moving'
<1> SUFFICES ASSUME IInv, Moving, [Next]_vars PROVE Moving'
  OBVIOUS
<1>t. TypeOK
  BY DEF IInv, Conservation
<1>c. total' = total /\ UNCHANGED <<client, size>> => Chunk' = Chunk
  BY DEF Chunk, AsioChunk, CorosioChunk, Wrap
<1>1. CASE Connecting
  <2>1. TypeOK /\ (total < size => Chunk > 0)
    BY <1>t, ChunkBounds
  <2>2. wpc = "idle" => total < size
    BY <1>t, EchoClientAssumption DEF Moving, TypeOK
  <2> QED
    BY <1>1, <1>c, <2>1, <2>2 DEF Connecting, Connects, ConnectFails, Moving, TypeOK
<1>2. CASE Writer
  <2>1. CASE WriteNext
    <3>1. Written \in 0 .. 2^Width - 1 /\ total' = Written /\ total' < size'
      BY <2>1, WrittenIsExact DEF IInv, Conservation, WriteNext
    <3>2. 2^Width + total' - size' \in 1 .. 2^Width - 1 /\ size' - total' \in Int /\ size' - total' > 0
      BY <2>1, <3>1, <1>t, EchoClientAssumption DEF WriteNext, TypeOK
    <3>3. (2^Width + total' - size') % 2^Width = 2^Width + total' - size'
      BY <3>2, WrapExact, EchoClientAssumption DEF Wrap
    <3>b. /\ 2^Width + total' - size' \in Int /\ 2^Width + total' - size' > 0
          /\ size' - total' \in Int /\ size' - total' > 0 /\ BufferSize \in Int /\ BufferSize > 0
      BY <3>2, EchoClientAssumption
    <3>4. AsioChunk' > 0
      <4>1. AsioChunk' = Min({2^Width + total' - size', BufferSize})
        BY <3>3 DEF AsioChunk, Wrap
      <4> QED
        BY <4>1, <3>b, MinOfTwo
    <3>5. CorosioChunk' > 0
      <4>1. CorosioChunk' = Min({size' - total', BufferSize})
        BY DEF CorosioChunk
      <4> QED
        BY <4>1, <3>b, MinOfTwo
    <3>6. Chunk' > 0
      BY <3>4, <3>5 DEF Chunk
    <3> QED
      BY <2>1, <3>6 DEF WriteNext, CloseSend, Moving
  <2>2. CASE WriteLimit \/ WriteAborted \/ WriteThrows \/ WriteBreaks
    BY <2>2 DEF WriteLimit, WriteAborted, WriteThrows, WriteBreaks, CloseSend, CancelReader, Moving
  <2> QED
    BY <1>2, <2>1, <2>2 DEF Writer
<1>3. CASE Reader
  BY <1>3, <1>c DEF Reader, ReadNext, ReadEnds, ReadThrows, CancelWriter, Moving
<1>4. CASE Peer
  <2>1. ASSUME NEW n \in 1 .. BufferSize, SessionReads(n) PROVE Moving'
    BY <2>1, <1>c DEF SessionReads, Moving
  <2>2. ASSUME NEW n \in 1 .. BufferSize, SessionWrites(n) PROVE Moving'
    <3>1. n <= hold
      BY <2>2, <1>t, UpToMin, EchoClientAssumption DEF SessionWrites, TypeOK
    <3> QED
      BY <2>2, <3>1, <1>c, <1>t DEF SessionWrites, Moving, TypeOK
  <2>3. CASE SessionEnds
    BY <2>3, <1>c DEF SessionEnds, Moving
  <2> QED
    BY <1>4, <2>1, <2>2, <2>3 DEF Peer
<1>5. CASE WriteIO
  <2>1. ASSUME NEW n \in 1 .. BufferSize, WriteCompletes(n) PROVE Moving'
    <3>1. Chunk \in 1 .. BufferSize
      BY <2>1, ChunkBounds DEF WriteCompletes, IInv, Conservation, Writing
    <3>2. n <= Chunk - wbytes
      BY <2>1, <3>1, <1>t, UpToMin, EchoClientAssumption DEF WriteCompletes, TypeOK
    <3> QED
      BY <2>1, <3>1, <3>2, <1>c, <1>t DEF WriteCompletes, Moving, TypeOK
  <2>2. CASE WriteFails
    BY <2>2, <1>c DEF WriteFails, Moving
  <2> QED
    BY <1>5, <2>1, <2>2 DEF WriteIO
<1>6. CASE ReadIO
  BY <1>6, <1>c DEF ReadIO, ReadCompletes, ReadReachesEnd, ReadFails, Moving, IInv, Failing
<1>7. CASE DeadlineFires \/ Breaks
  BY <1>7, <1>c DEF DeadlineFires, CancelWriter, Breaks, Moving
<1>8. CASE UNCHANGED vars
  BY <1>8, <1>c DEF vars, Moving
<1> QED
  BY <1>1, <1>2, <1>3, <1>4, <1>5, <1>6, <1>7, <1>8 DEF Next

\* Both are numbers.
LEMMA RemainingType == TypeOK => BytesLeft \in Nat /\ StepsLeft \in Nat
<1> SUFFICES ASSUME TypeOK PROVE BytesLeft \in Nat /\ StepsLeft \in Nat
  OBVIOUS
<1>1. BytesLeft \in Nat
  BY EchoClientAssumption DEF BytesLeft, TypeOK
<1>2. addrs \in Nat
  BY EchoClientAssumption DEF TypeOK
<1> QED
  BY <1>1, <1>2 DEF StepsLeft, One, Rank

\* The same after a step.
LEMMA RemainingTypeNext == TypeOK' => (BytesLeft \in Nat /\ StepsLeft \in Nat)'
  BY RemainingType, PTL

\* Every step leaves less to do.
LEMMA Decreases == IInv /\ Moving /\ Next => Remaining' < Remaining
<1> SUFFICES ASSUME IInv, Moving, Next PROVE Remaining' < Remaining
  OBVIOUS
<1>t. TypeOK /\ 2^Width \in Nat
  BY EchoClientAssumption DEF IInv, Conservation
<1>n. {BytesLeft, StepsLeft, BytesLeft', StepsLeft'} \subseteq Nat
  <2>1. TypeOK'
    BY Inductive DEF IInv, Conservation
  <2> QED
    BY <1>t, <2>1, RemainingType, RemainingTypeNext
<1> USE DEF One, Rank
<1>1. CASE Connecting
  <2>1. BytesLeft' = BytesLeft
    BY <1>1 DEF Connecting, Connects, ConnectFails, BytesLeft
  <2>2. StepsLeft' < StepsLeft
    <3>1. wpc = "idle" /\ rpc = "idle" /\ addrs \in Nat
      BY <1>1, <1>t, EchoClientAssumption DEF Connecting, Connects, ConnectFails, TypeOK, IInv, Failing
    <3> QED
      BY <1>1, <3>1 DEF Connecting, Connects, ConnectFails, StepsLeft
  <2> QED
    BY <2>1, <2>2, <1>n DEF Remaining
<1>2. CASE WriteNext \/ WriteLimit
  <2>1. /\ total' = total + wbytes /\ wbytes' = 0 /\ wbytes > 0
        /\ UNCHANGED <<c2s, hold, s2c, rbytes>>
    BY <1>2, WrittenIsExact DEF IInv, Conservation, WriteNext, WriteLimit, CloseSend, Moving
  <2>2. BytesLeft' + 1 < BytesLeft
    BY <2>1, <1>t, EchoClientAssumption DEF BytesLeft, TypeOK
  <2>3. StepsLeft' <= StepsLeft + 1
    BY <1>2, <1>t DEF StepsLeft, WriteNext, WriteLimit, CloseSend, TypeOK
  <2> QED
    BY <2>2, <2>3, <1>n DEF Remaining
<1>3. CASE \/ WriteAborted \/ WriteThrows \/ WriteBreaks \/ ReadEnds \/ ReadThrows \/ SessionEnds
           \/ WriteFails \/ ReadReachesEnd \/ DeadlineFires \/ \E r \in {"eof", "error"} : ReadFails(r)
  <2> USE DEF WriteAborted, WriteThrows, WriteBreaks, ReadEnds, ReadThrows, SessionEnds, WriteFails,
        ReadReachesEnd, DeadlineFires, ReadFails, CloseSend, CancelReader, CancelWriter
  <2>1. BytesLeft' = BytesLeft
    BY <1>3 DEF BytesLeft
  <2>2. StepsLeft' < StepsLeft
    BY <1>3, <1>t DEF StepsLeft, TypeOK
  <2> QED
    BY <2>1, <2>2, <1>n DEF Remaining
<1>4. CASE ReadNext
  <2>1. BytesLeft' + 1 < BytesLeft
    BY <1>4, <1>t, EchoClientAssumption DEF ReadNext, BytesLeft, TypeOK, Moving
  <2>2. StepsLeft' <= StepsLeft + 1
    BY <1>4, <1>t DEF ReadNext, StepsLeft, TypeOK
  <2> QED
    BY <2>1, <2>2, <1>n DEF Remaining
<1>5. ASSUME NEW n \in 1 .. BufferSize,
             SessionReads(n) \/ SessionWrites(n) \/ WriteCompletes(n) \/ ReadCompletes(n)
      PROVE  Remaining' < Remaining
  <2> USE DEF SessionReads, SessionWrites, WriteCompletes, ReadCompletes
  <2>1. BytesLeft' < BytesLeft
    BY <1>5, <1>t, EchoClientAssumption DEF BytesLeft, TypeOK, IInv, Ending
  <2>2. StepsLeft' <= StepsLeft
    BY <1>5, <1>t DEF StepsLeft, TypeOK
  <2> QED
    BY <2>1, <2>2, <1>n DEF Remaining
<1>6. CASE Breaks
  <2>1. BytesLeft' <= BytesLeft
    BY <1>6, <1>t, EchoClientAssumption DEF Breaks, BytesLeft, TypeOK
  <2>2. StepsLeft' < StepsLeft
    BY <1>6, <1>t DEF Breaks, StepsLeft, TypeOK
  <2> QED
    BY <2>1, <2>2, <1>n DEF Remaining
<1> QED
  BY <1>1, <1>2, <1>3, <1>4, <1>5, <1>6 DEF Next, Writer, Reader, Peer, WriteIO, ReadIO

\* As long as a loop of the client runs, somebody can go on: if the writer waits for
\* room and the reader for data, then the session can write or read.
LEMMA SomebodyReady == IInv /\ Moving => Finished \/ Ready
<1> SUFFICES ASSUME IInv, Moving, ~Finished, ~Ready PROVE FALSE
  OBVIOUS
<1>t. TypeOK /\ Capacity > 0 /\ Capacity \in Nat
  BY EchoClientAssumption DEF IInv, Conservation
<1>1. wpc # "idle" /\ rpc # "idle" /\ ~WriterReady /\ ~ReaderReady /\ ~SessionReady
  BY DEF Ready, IInv, Failing
<1>2. wpc = "write" \/ rpc = "read"
  BY <1>1, <1>t DEF Finished, TypeOK
<1>3. CASE wpc = "write"
  <2>1. c2s = Capacity /\ ~broken
    BY <1>1, <1>3, <1>t DEF WriterReady, Moving, TypeOK
  <2>2. spc = "write" /\ s2c = Capacity
    BY <1>1, <1>3, <1>t, <2>1 DEF SessionReady, TypeOK, Moving, IInv, Ending
  <2>3. rpc # "read"
    BY <1>1, <1>t, <2>2 DEF ReaderReady, TypeOK
  <2> QED
    BY <1>1, <1>3, <1>t, <2>1, <2>2, <2>3 DEF TypeOK, IInv, Failing, Ending
<1>4. CASE wpc # "write" /\ rpc = "read"
  <2>1. s2c = 0 /\ ~broken /\ spc # "closed"
    BY <1>1, <1>4, <1>t DEF ReaderReady, TypeOK
  <2>2. wpc = "done"
    BY <1>1, <1>4, <1>t, <2>1 DEF TypeOK, IInv, Failing
  <2> QED
    BY <1>1, <1>t, <2>1, <2>2 DEF SessionReady, TypeOK, Moving
<1> QED
  BY <1>2, <1>3, <1>4

\* The invariants of termination.
LEMMA AlwaysMoving == Spec => [](IInv /\ Moving)
<1>1. Init => Moving
  BY DEF Init, Moving
<1> QED
  BY <1>1, InitIInv, Inductive, MovingInductive, PTL DEF Spec

\* Nobody blocks: with socket buffers of any size, the client's two loops and the
\* session never all wait for each other (client.cpp:128, corosio_client.cpp:136).
\* Somebody to whom Fairness promises a step is ready until the client has finished.
THEOREM NeverBlocked == Spec => [](Finished \/ Ready)
  BY AlwaysMoving, SomebodyReady, PTL

\* Nobody goes on for ever: every step, of whomever, leaves less to do.  With
\* NeverBlocked this is Finishes, up to what fairness means.
THEOREM Terminating == Spec => [](Remaining \in Nat) /\ [][Remaining' < Remaining]_vars
<1>1. IInv => Remaining \in Nat
  BY RemainingType DEF IInv, Conservation, Remaining
<1>2. IInv /\ Moving /\ [Next]_vars => [Remaining' < Remaining]_vars
  BY Decreases
<1> QED
  BY <1>1, <1>2, AlwaysMoving, PTL DEF Spec
=============================================================================
