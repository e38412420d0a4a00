----------------------------- MODULE EchoClient -----------------------------
(***************************************************************************)
(* One connection of the load generators bin/client.cpp ("asio") and       *)
(* bin/corosio_client.cpp ("corosio") to a session of an echo server as in *)
(* echo/echo_coro.cpp, over a TCP connection whose two socket buffers are  *)
(* bounded.                                                                *)
(*                                                                         *)
(* The client writes and reads in two coroutine threads that operator&& or *)
(* when_all() joins.  The writer stops at a configured size or after some  *)
(* time and then half-closes the connection; the reader stops at the end   *)
(* of the stream.  The Asio client cancels its writer, and when one thread *)
(* throws it cancels the other one.  The Corosio client looks at the clock *)
(* between two writes, and its errors end a loop and nothing else.  Bytes  *)
(* are counted, not represented.                                           *)
(***************************************************************************)
EXTENDS Naturals, FiniteSetsExt

CONSTANTS
  Width,        \* the width of size_t in bits
  Limit,        \* a value of config_.size
  BufferSize,   \* config_.buffer_size, and the buffer of the session
  Capacity,     \* what a socket buffer of the connection can hold
  MaxTotal,     \* bound of the model: beyond this total, the deadline comes first
  MaxAddrs      \* bound of the model: how many endpoints the host has

\* A size_t can count the bytes of a connection: neither the limit nor what the
\* deadline permits is within one buffer of its range, 2^64 bytes in the program.
\* That a power is a natural number is arithmetic which the provers do not know.
ASSUME EchoClientAssumption ==
  /\ Width \in Nat /\ 2^Width \in Nat
  /\ Limit \in Nat \ {0} /\ BufferSize \in Nat \ {0}
  /\ Capacity \in Nat \ {0} /\ MaxTotal \in Nat /\ MaxAddrs \in Nat
  /\ Limit + BufferSize <= 2^Width /\ MaxTotal + BufferSize < 2^Width

VARIABLES
  client,        \* the program, "asio" or "corosio"
  addrs,         \* the endpoints that have not been tried
  size,          \* "size" of write_loop()
  wpc, wop,      \* write_loop(): "idle", "write", "done" or "threw"; what it awaits
  wbytes,        \* the result of the write
  total,         \* "total" of write_loop()
  wcancelled,    \* whether the writer's thread has been cancelled
  rpc, rop,      \* read(): "idle", "read", "done" or "threw"; what it awaits
  rbytes,        \* the result of the read
  nread,         \* "total" of read()
  rcancelled,    \* whether the reader's thread has been cancelled
  deadline,      \* the timer of cancel_after(): "running", "fired" or "off"
  spc, hold,     \* session(): "read", "write" or "closed", and its data
  c2s, s2c,      \* bytes under way from client to server, and back
  finC,          \* the client has sent its FIN
  broken         \* the connection has been reset

writerVars == <<wpc, wop, wbytes, total, wcancelled>>
readerVars == <<rpc, rop, rbytes, nread, rcancelled>>
peerVars   == <<spc, hold>>
netVars    == <<c2s, s2c, finC, broken>>
cfgVars == <<client, addrs, size>>
vars == <<cfgVars, writerVars, readerVars, deadline, peerVars, netVars>>

Status == {"pending", "ok", "eof", "error", "aborted"}

\* numeric_limits<size_t>::max(), if there is no configured size.
NoLimit == 2^Width - 1

TypeOK ==
  /\ client \in {"asio", "corosio"} /\ addrs \in 0 .. MaxAddrs
  /\ size \in {Limit, NoLimit}
  /\ wpc \in {"idle", "write", "done", "threw"} /\ rpc \in {"idle", "read", "done", "threw"}
  /\ wop \in Status /\ rop \in Status
  /\ wbytes \in 0 .. BufferSize /\ rbytes \in 0 .. BufferSize
  /\ total \in 0 .. 2^Width - 1 /\ nread \in 0 .. 2^Width - 1
  /\ wcancelled \in BOOLEAN /\ rcancelled \in BOOLEAN
  /\ deadline \in {"running", "fired", "off"}
  /\ spc \in {"read", "write", "closed"} /\ hold \in 0 .. BufferSize
  /\ c2s \in 0 .. Capacity /\ s2c \in 0 .. Capacity
  /\ finC \in BOOLEAN /\ broken \in BOOLEAN

\* The host has been resolved, to no address if that has failed.  Without a
\* limit and a deadline the client would go on for ever.
Init ==
  /\ client \in {"asio", "corosio"} /\ addrs \in 0 .. MaxAddrs
  /\ wpc = "idle" /\ wop = "pending" /\ wbytes = 0 /\ total = 0 /\ wcancelled = FALSE
  /\ rpc = "idle" /\ rop = "pending" /\ rbytes = 0 /\ nread = 0 /\ rcancelled = FALSE
  /\ \/ size = Limit /\ deadline \in {"running", "off"}
     \/ size = NoLimit /\ deadline = "running"
  /\ spc = "read" /\ hold = 0
  /\ c2s = 0 /\ s2c = 0 /\ finC = FALSE /\ broken = FALSE

\* Arithmetic on size_t.
Wrap(n) == n % 2^Width

\* How much write_loop() asks to write: min(total - size, data.size()) of the
\* Asio client, where the difference is below zero and wraps, and
\* min(limit - total, payload.size()) of the Corosio client.
AsioChunk    == Min({Wrap(2^Width + total - size), BufferSize})
CorosioChunk == Min({size - total, BufferSize})
Chunk == IF client = "asio" THEN AsioChunk ELSE CorosioChunk

-----------------------------------------------------------------------------
(***************************************************************************)
(* Connecting: one endpoint after the other                                *)
(***************************************************************************)
\* Both threads start, and are suspended in their first operation.
Connects ==
  /\ wpc = "idle" /\ addrs > 0
  /\ wpc' = "write" /\ rpc' = "read"
  /\ UNCHANGED <<cfgVars, wop, wbytes, total, wcancelled, rop, rbytes, nread, rcancelled,
                 deadline, peerVars, netVars>>

\* run() throws, and run_session() reports nothing, when no endpoint is left.
ConnectFails ==
  /\ wpc = "idle" /\ addrs' = IF addrs > 0 THEN addrs - 1 ELSE 0
  /\ IF addrs' > 0 THEN UNCHANGED <<wpc, rpc>> ELSE wpc' = "threw" /\ rpc' = "threw"
  /\ UNCHANGED <<client, size, wop, wbytes, total, wcancelled, rop, rbytes, nread, rcancelled,
                 deadline, peerVars, netVars>>

-----------------------------------------------------------------------------
(***************************************************************************)
(* write_loop()                                                            *)
(***************************************************************************)

\* Leaving the loop: shutdown_send, whose error is ignored.
CloseSend == finC' = TRUE /\ UNCHANGED <<c2s, s2c, broken>>

\* operator&&: the thread that throws cancels the other one.
CancelReader ==
  /\ rcancelled' = (rcancelled \/ rpc = "read")
  /\ rop' = IF rpc = "read" /\ rop = "pending" THEN "aborted" ELSE rop
  /\ UNCHANGED <<rpc, rbytes, nread>>

CancelWriter ==
  /\ wcancelled' = (wcancelled \/ wpc = "write")
  /\ wop' = IF wpc = "write" /\ wop = "pending" THEN "aborted" ELSE wop
  /\ UNCHANGED <<wpc, wbytes, total>>

\* A write has succeeded, and there is more to write: the next one starts,
\* unless the thread has been cancelled meanwhile.  Then co_await throws
\* operation_aborted, and the exception is handled as below.
Written == Wrap(total + wbytes)

\* The Corosio client compares now() with its deadline before each write.
TimeIsUp == client = "corosio" /\ deadline = "fired"

WriteNext ==
  /\ wpc = "write" /\ wop = "ok" /\ Written < size
  /\ Written > MaxTotal => deadline # "running"
  /\ total' = Written /\ wbytes' = 0
  /\ IF wcancelled \/ TimeIsUp
     THEN wpc' = "done" /\ CloseSend /\ UNCHANGED wop
     ELSE wop' = "pending" /\ UNCHANGED <<wpc, netVars>>
  /\ UNCHANGED <<wcancelled, readerVars, cfgVars, deadline, peerVars>>

\* Mutant: the loop ends one byte early.
WriteLimitEarly ==
  /\ wpc = "write" /\ wop = "ok" /\ Written + 1 >= size
  /\ total' = Written /\ wbytes' = 0
  /\ wpc' = "done" /\ CloseSend
  /\ UNCHANGED <<wop, wcancelled, readerVars, cfgVars, deadline, peerVars>>

\* Mutant: operator|| in place of operator&&.
WriteLimitOr ==
  /\ wpc = "write" /\ wop = "ok" /\ Written >= size
  /\ total' = Written /\ wbytes' = 0
  /\ wpc' = "done" /\ CloseSend /\ CancelReader
  /\ UNCHANGED <<wop, wcancelled, cfgVars, deadline, peerVars>>

WriteLimit ==
  /\ wpc = "write" /\ wop = "ok" /\ Written >= size
  /\ total' = Written /\ wbytes' = 0
  /\ wpc' = "done" /\ CloseSend
  /\ UNCHANGED <<wop, wcancelled, readerVars, cfgVars, deadline, peerVars>>

\* Cancellation is not an error for write_loop().
WriteAborted ==
  /\ wpc = "write" /\ wop = "aborted"
  /\ wpc' = "done" /\ CloseSend
  /\ UNCHANGED <<wop, wbytes, total, wcancelled, readerVars, cfgVars, deadline, peerVars>>

WriteThrows ==
  /\ client = "asio" /\ wpc = "write" /\ wop = "error"
  /\ wpc' = "threw" /\ CancelReader
  /\ UNCHANGED <<wop, wbytes, total, wcancelled, cfgVars, deadline, peerVars, netVars>>

\* write_loop() of the Corosio client leaves the loop; what a failed write had
\* written is not counted.
WriteBreaks ==
  /\ client = "corosio" /\ wpc = "write" /\ wop = "error"
  /\ wpc' = "done" /\ CloseSend
  /\ UNCHANGED <<wop, wbytes, total, wcancelled, readerVars, cfgVars, deadline, peerVars>>

-----------------------------------------------------------------------------
(***************************************************************************)
(* read()                                                                  *)
(***************************************************************************)
\* Mutant: the size of the buffer is counted, not what was read into it.
ReadNextBuffer ==
  /\ rpc = "read" /\ rop = "ok"
  /\ nread' = Wrap(nread + BufferSize) /\ rbytes' = 0
  /\ IF rcancelled THEN rpc' = "done" /\ UNCHANGED rop
                   ELSE rop' = "pending" /\ UNCHANGED rpc
  /\ UNCHANGED <<rcancelled, writerVars, cfgVars, deadline, peerVars, netVars>>

\* Mutant: reading does not go on before everything has been written.
ReadNextLater == /\ wpc # "write" /\ rpc = "read" /\ rop = "ok"
                 /\ nread' = Wrap(nread + rbytes) /\ rbytes' = 0
                 /\ rop' = "pending"
                 /\ UNCHANGED <<rpc, rcancelled, writerVars, cfgVars, deadline, peerVars, netVars>>

ReadNext ==
  /\ rpc = "read" /\ rop = "ok"
  /\ nread' = Wrap(nread + rbytes) /\ rbytes' = 0
  /\ IF rcancelled THEN rpc' = "done" /\ UNCHANGED rop
                   ELSE rop' = "pending" /\ UNCHANGED rpc
  /\ UNCHANGED <<rcancelled, writerVars, cfgVars, deadline, peerVars, netVars>>

\* The end of the stream and cancellation are no errors for read(), and
\* read_loop() of the Corosio client knows no errors at all.
ReadErrors == IF client = "corosio" THEN {"error"} ELSE {}

ReadEnds ==
  /\ rpc = "read" /\ rop \in {"eof", "aborted"} \cup ReadErrors
  /\ rpc' = "done"
  /\ UNCHANGED <<rop, rbytes, nread, rcancelled, writerVars, cfgVars, deadline, peerVars, netVars>>

ReadThrows ==
  /\ client = "asio" /\ rpc = "read" /\ rop = "error"
  /\ rpc' = "threw" /\ CancelWriter
  /\ UNCHANGED <<rop, rbytes, nread, rcancelled, cfgVars, deadline, peerVars, netVars>>

\* cancel_after(): a timer next to write_loop() alone.  For the Corosio client
\* nothing but time passes.
DeadlineFires ==
  /\ deadline = "running" /\ wpc = "write"
  /\ deadline' = "fired"
  /\ IF client = "asio" THEN CancelWriter ELSE UNCHANGED writerVars
  /\ UNCHANGED <<cfgVars, readerVars, peerVars, netVars>>

-----------------------------------------------------------------------------
(***************************************************************************)
(* session() of the server                                                 *)
(***************************************************************************)
SessionReads(n) ==
  /\ spc = "read" /\ ~broken /\ n \in 1 .. Min({c2s, BufferSize})
  /\ c2s' = c2s - n /\ hold' = n
  /\ spc' = "write"
  /\ UNCHANGED <<s2c, finC, broken, writerVars, readerVars, cfgVars, deadline>>

\* async_write goes on until everything has been written.
SessionWrites(n) ==
  /\ spc = "write" /\ ~broken /\ n \in 1 .. Min({hold, Capacity - s2c})
  /\ s2c' = s2c + n /\ hold' = hold - n
  /\ spc' = IF n = hold THEN "read" ELSE "write"
  /\ UNCHANGED <<c2s, finC, broken, writerVars, readerVars, cfgVars, deadline>>

\* At the end of the stream, or after an error, the socket is destroyed.
SessionEnds ==
  /\ \/ spc = "read" /\ c2s = 0 /\ finC
     \/ spc # "closed" /\ broken
  /\ spc' = "closed"
  /\ UNCHANGED <<hold, writerVars, readerVars, cfgVars, deadline, netVars>>

-----------------------------------------------------------------------------
(***************************************************************************)
(* The connection                                                          *)
(***************************************************************************)
\* async_write_some of the Asio client completes with what there is room for;
\* write() of the Corosio client goes on until the chunk has been written.
WriteCompletes(n) ==
  /\ wpc = "write" /\ wop = "pending" /\ ~broken
  /\ n \in 1 .. Min({Chunk - wbytes, Capacity - c2s})
  /\ wbytes' = wbytes + n
  /\ wop' = IF client = "asio" \/ wbytes' = Chunk THEN "ok" ELSE "pending"
  /\ c2s' = c2s + n
  /\ UNCHANGED <<wpc, total, wcancelled, readerVars, cfgVars, deadline, peerVars, s2c, finC, broken>>

ReadCompletes(n) ==
  /\ rpc = "read" /\ rop = "pending" /\ ~broken
  /\ n \in 1 .. Min({s2c, BufferSize})
  /\ rop' = "ok" /\ rbytes' = n
  /\ s2c' = s2c - n
  /\ UNCHANGED <<rpc, nread, rcancelled, writerVars, cfgVars, deadline, peerVars, c2s, finC, broken>>

ReadReachesEnd ==
  /\ rpc = "read" /\ rop = "pending" /\ ~broken
  /\ s2c = 0 /\ spc = "closed"
  /\ rop' = "eof"
  /\ UNCHANGED <<rpc, rbytes, nread, rcancelled, writerVars, cfgVars, deadline, peerVars, netVars>>

\* A reset destroys what is under way.  The kernel reports it once, to either
\* operation; a read after that sees the end of the stream, a write an error.
Breaks ==
  /\ ~broken /\ (wpc = "write" \/ rpc = "read")
  /\ broken' = TRUE /\ c2s' = 0 /\ s2c' = 0
  /\ UNCHANGED <<finC, writerVars, readerVars, cfgVars, deadline, peerVars>>

WriteFails ==
  /\ wpc = "write" /\ wop = "pending" /\ broken
  /\ wop' = "error"
  /\ UNCHANGED <<wpc, wbytes, total, wcancelled, readerVars, cfgVars, deadline, peerVars, netVars>>

ReadFails(r) ==
  /\ rpc = "read" /\ rop = "pending" /\ broken
  /\ rop' = r
  /\ UNCHANGED <<rpc, rbytes, nread, rcancelled, writerVars, cfgVars, deadline, peerVars, netVars>>

Connecting == Connects \/ ConnectFails
Writer  == WriteNext \/ WriteLimit \/ WriteAborted \/ WriteThrows \/ WriteBreaks
Reader  == ReadNext \/ ReadEnds \/ ReadThrows
Peer    == \/ \E n \in 1 .. BufferSize : SessionReads(n) \/ SessionWrites(n)
           \/ SessionEnds
WriteIO == (\E n \in 1 .. BufferSize : WriteCompletes(n)) \/ WriteFails
ReadIO  == \/ \E n \in 1 .. BufferSize : ReadCompletes(n)
           \/ ReadReachesEnd
           \/ \E r \in {"eof", "error"} : ReadFails(r)

Next == Connecting \/ Writer \/ Reader \/ Peer \/ WriteIO \/ ReadIO \/ DeadlineFires \/ Breaks

Spec == Init /\ [][Next]_vars

\* TCP delivers, the server's context and the client's keep running, and a
\* timer that runs fires.  A connection need not break.
Fairness ==
  /\ WF_vars(Connecting) /\ WF_vars(Writer) /\ WF_vars(Reader) /\ WF_vars(Peer)
  /\ WF_vars(WriteIO) /\ WF_vars(ReadIO) /\ WF_vars(DeadlineFires)

FairSpec == Spec /\ Fairness

-----------------------------------------------------------------------------
Finished == {wpc, rpc} \subseteq {"done", "threw"}

\* Every byte counted as written has been read, is on its way, or is held by
\* the server: nothing is counted twice or lost, whoever is cancelled when.
InTransit == c2s + hold + s2c + rbytes

Conservation == TypeOK /\ (~broken => total + wbytes = nread + InTransit)

\* When the connection has not been broken, run() reports as many bytes read
\* as written: cancelling the writer neither drops the bytes of a write that
\* has already completed, nor does it close the stream before the server has
\* sent all of them back.
NothingLost == Finished /\ ~broken => nread = total

\* Without a deadline and without errors the writer reaches the configured
\* limit.  The Asio client misses it by less than one buffer, since its
\* difference wraps (client.cpp:45); the Corosio client never exceeds it.
LimitReached ==
  /\ wpc = "done" /\ deadline = "off" /\ ~broken => total \in size .. size + BufferSize - 1
  /\ client = "corosio" => total <= size

\* The client always finishes.  The server does not read while it writes, so
\* with full socket buffers everyone would wait for everyone if the client did
\* not read while it writes.
Finishes == <>Finished
=============================================================================
