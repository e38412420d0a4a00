------------------------- MODULE EchoProgramsProofs -------------------------
(***************************************************************************)
(* Proofs about EchoPrograms, for all its programs, any set of clients and *)
(* any number of workers and bytes.                                        *)
(***************************************************************************)
EXTENDS EchoPrograms, FiniteSetTheorems, TLAPS

\* A session has something to write only between a read that has completed and
\* the completion of its write; and one that has ended may have been stopped
\* there.
Holding ==
  \A c \in Connection :
    hold[c] # 0 => \/ pc[c] = "read" /\ op[c] = "ok"
                   \/ pc[c] = "write" /\ op[c] # "ok"
                   \/ pc[c] = "closed"

\* Nothing is awaited for a connection that has no session yet.
Fresh == \A c \in Connection : pc[c] \in {"new", "backlog"} => op[c] = "pending"

\* The reason for each result that ends a session.
Reasons ==
  \A c \in Connection :
    /\ expired[c] => prog.timeouts
    /\ pc[c] = "read" /\ op[c] = "eof" => reset[c] \/ (fin[c] /\ got[c] = sent[c])
    /\ Live(c) /\ op[c] = "error" => reset[c]
    /\ Live(c) /\ op[c] = "aborted" => prog.timeouts

IInv == EchoIsExact /\ Holding /\ Fresh /\ Reasons

USE DEF serverVars, clientVars, Live, AnyError

\* Every program takes a result for the end of a session only if it is one, and
\* says what a failed accept does.
LEMMA ProgramFields ==
  ASSUME NEW p \in Program
  PROVE  /\ p.readEnds \subseteq AnyError
         /\ p.acceptError \in {"ends", "terminates", "goes on"}
<1>1. \A n, a, r, w, t : Style(n, a, r, w, t).readEnds = r /\ Style(n, a, r, w, t).acceptError = a
  BY DEF Style
<1>2. PICK n, a, r, w, t : p = Style(n, a, r, w, t)
                           /\ r \subseteq AnyError /\ a \in {"ends", "terminates", "goes on"}
  BY DEF Program, EchoCoro, EchoCoroTuple, EchoCoroThreaded, EchoCoroTimeout,
     EchoCoroContextPool, EchoAsync, EchoAsyncThreaded, EchoSync, EchoSyncThreaded,
     EchoCorosio, EchoCorosioThreaded, CorosioEchoServer, EchoGo, EchoRust
<1>3. p.readEnds = r /\ p.acceptError = a
  BY <1>2 DEF Style
<1> QED
  BY <1>2, <1>3, Zenon

\* The initial state satisfies the inductive invariant.
LEMMA InitIInv == Init => IInv
  BY EchoProgramsAssumption
  DEF Init, IInv, EchoIsExact, TypeOK, Holding, Fresh, Reasons

\* The types after a step that leaves the counters alone.
LEMMA TypesKept ==
  ASSUME TypeOK, UNCHANGED <<prog, got, hold, echoed, sent>>,
         server' \in {"accepting", "ended", "terminated"},
         pc' \in [Connection -> {"new", "backlog", "read", "write", "closed"}],
         op' \in [Connection -> {"pending", "ok"} \cup AnyError],
         {expired', fin', reset', told'} \subseteq [Connection -> BOOLEAN]
  PROVE  TypeOK'
  BY DEF TypeOK

\* The server accepts, or fails to.
LEMMA AcceptStep ==
  ASSUME IInv, AcceptFails \/ \E c \in Connection : AcceptOk(c)
  PROVE  IInv'
<1>1. CASE AcceptFails
  <2>1. server' \in {"accepting", "ended", "terminated"}
    BY <1>1, ProgramFields DEF AcceptFails, OnAcceptError, IInv, EchoIsExact, TypeOK
  <2> QED
    BY <1>1, <2>1 DEF AcceptFails, IInv, EchoIsExact, TypeOK, Holding, Fresh, Reasons
<1>2. ASSUME NEW c \in Connection, AcceptOk(c) PROVE IInv'
  <2>1. TypeOK'
    BY <1>2, TypesKept DEF AcceptOk, IInv, EchoIsExact, TypeOK
  <2> QED
    BY <1>2, <2>1 DEF AcceptOk, IInv, EchoIsExact, TypeOK, Holding, Fresh, Reasons
<1> QED
  BY <1>1, <1>2

\* A session goes on or ends.
LEMMA SessionStep ==
  ASSUME IInv, NEW c \in Connection, Session(c)
  PROVE  IInv'
<1>1. UNCHANGED <<prog, expired, got, hold, echoed, told, clientVars>>
  BY DEF Session, ReadDone, ReadFails, ReadErrorIgnored, WriteDone, WriteFails
<1>2. prog.readEnds \subseteq AnyError
  BY ProgramFields DEF IInv, EchoIsExact, TypeOK
<1>3. CASE ReadDone(c) \/ WriteDone(c)
  <2>1. TypeOK'
    BY <1>3, TypesKept DEF ReadDone, WriteDone, Awaits, Closes, IInv, EchoIsExact, TypeOK
  <2> QED
    BY <1>1, <1>3, <2>1 DEF ReadDone, WriteDone, Awaits, Closes, IInv, EchoIsExact, TypeOK,
       Holding, Fresh, Reasons
<1>4. CASE ReadFails(c)
  <2>1. TypeOK'
    BY <1>4, TypesKept DEF ReadFails, Closes, IInv, EchoIsExact, TypeOK
  <2> QED
    BY <1>1, <1>2, <1>4, <2>1 DEF ReadFails, Closes, IInv, EchoIsExact, TypeOK, Holding,
       Fresh, Reasons
<1>5. CASE ReadErrorIgnored(c)
  <2>1. TypeOK'
    BY <1>5, TypesKept DEF ReadErrorIgnored, IInv, EchoIsExact, TypeOK
  <2> QED
    BY <1>1, <1>5, <2>1 DEF ReadErrorIgnored, IInv, EchoIsExact, TypeOK, Holding, Fresh, Reasons
<1>6. CASE WriteFails(c)
  <2>1. TypeOK'
    BY <1>6, TypesKept DEF WriteFails, Closes, IInv, EchoIsExact, TypeOK
  <2> QED
    BY <1>1, <1>6, <2>1 DEF WriteFails, Closes, IInv, EchoIsExact, TypeOK, Holding,
       Fresh, Reasons
<1> QED
  BY <1>3, <1>4, <1>5, <1>6 DEF Session

\* A deadline passes.
LEMMA ExpiryStep ==
  ASSUME IInv, NEW c \in Connection, SessionExpires(c) \/ ReadExpires(c)
  PROVE  IInv'
<1>1. op' \in [Connection -> {"pending", "ok"} \cup AnyError]
  BY DEF SessionExpires, ReadExpires, Abort, IInv, EchoIsExact, TypeOK
<1>2. expired' \in [Connection -> BOOLEAN]
  BY DEF SessionExpires, ReadExpires, IInv, EchoIsExact, TypeOK
<1>3. TypeOK'
  BY <1>1, <1>2, TypesKept DEF SessionExpires, ReadExpires, IInv, EchoIsExact, TypeOK
<1> QED
  BY <1>3 DEF SessionExpires, ReadExpires, Abort, IInv, EchoIsExact, TypeOK, Holding,
     Fresh, Reasons

\* A client connects, sends, closes its side or resets the connection.
LEMMA ClientStep ==
  ASSUME IInv, NEW c \in Connection,
         Connects(c) \/ Sends(c) \/ ClientCloses(c) \/ Resets(c)
  PROVE  IInv'
<1>1. CASE Connects(c)
  BY <1>1 DEF Connects, IInv, EchoIsExact, TypeOK, Holding, Fresh, Reasons
<1>2. CASE Sends(c)
  <2>1. sent[c] + 1 \in 0 .. MaxBytes
    BY <1>2, EchoProgramsAssumption DEF Sends, IInv, EchoIsExact, TypeOK
  <2> QED
    BY <1>2, <2>1 DEF Sends, IInv, EchoIsExact, TypeOK, Holding, Fresh, Reasons
<1>3. CASE ClientCloses(c)
  BY <1>3 DEF ClientCloses, IInv, EchoIsExact, TypeOK, Holding, Fresh, Reasons
<1>4. CASE Resets(c)
  BY <1>4 DEF Resets, IInv, EchoIsExact, TypeOK, Holding, Fresh, Reasons
<1> QED
  BY <1>1, <1>2, <1>3, <1>4

\* What is read is held, and what is written is not held any more.
LEMMA TransferStep ==
  ASSUME IInv, NEW c \in Connection,
         WriteCompletes(c) \/ \E n \in 1 .. MaxBytes : ReadCompletes(c, n)
  PROVE  IInv'
<1>1. CASE WriteCompletes(c)
  <2>1. echoed[c] + hold[c] \in 0 .. MaxBytes
    BY DEF IInv, EchoIsExact, TypeOK
  <2>2. TypeOK'
    BY <1>1, <2>1, EchoProgramsAssumption DEF WriteCompletes, IInv, EchoIsExact, TypeOK
  <2> QED
    BY <1>1, <2>1, <2>2 DEF WriteCompletes, IInv, EchoIsExact, TypeOK, Holding, Fresh, Reasons
<1>2. ASSUME NEW n \in 1 .. MaxBytes, ReadCompletes(c, n) PROVE IInv'
  <2>1. got[c] + n \in 0 .. MaxBytes /\ n \in 0 .. MaxBytes /\ hold[c] = 0
    BY <1>2, EchoProgramsAssumption
    DEF ReadCompletes, IInv, EchoIsExact, TypeOK, Holding
  <2>2. TypeOK'
    BY <1>2, <2>1 DEF ReadCompletes, IInv, EchoIsExact, TypeOK
  <2> QED
    BY <1>2, <2>1, <2>2 DEF ReadCompletes, IInv, EchoIsExact, TypeOK, Holding, Fresh, Reasons
<1> QED
  BY <1>1, <1>2

\* The kernel reports the end of the stream or a reset.
LEMMA ReportStep ==
  ASSUME IInv, NEW c \in Connection, ReadEnds(c) \/ WriteBreaks(c)
  PROVE  IInv'
<1>1. op' \in [Connection -> {"pending", "ok"} \cup AnyError]
  BY DEF ReadEnds, WriteBreaks, IInv, EchoIsExact, TypeOK
<1>2. told' \in [Connection -> BOOLEAN]
  <2>1. told \in [Connection -> BOOLEAN] /\ reset[c] \in BOOLEAN
    BY DEF IInv, EchoIsExact, TypeOK
  <2>2. told' = told \/ told' = [told EXCEPT ![c] = reset[c]]
    BY DEF ReadEnds, WriteBreaks
  <2> QED
    BY <2>1, <2>2, Zenon
<1>3. TypeOK'
  BY <1>1, <1>2, TypesKept DEF ReadEnds, WriteBreaks, IInv, EchoIsExact, TypeOK
<1> QED
  BY <1>3 DEF ReadEnds, WriteBreaks, IInv, EchoIsExact, TypeOK, Holding, Fresh, Reasons

\* Every step keeps the invariant.
LEMMA Inductive == IInv /\ [Next]_vars => IInv'
<1> SUFFICES ASSUME IInv, [Next]_vars PROVE IInv'
  OBVIOUS
<1>1. CASE UNCHANGED vars
  BY <1>1 DEF vars, IInv, EchoIsExact, TypeOK, Holding, Fresh, Reasons
<1> QED
  BY <1>1, AcceptStep, SessionStep, ExpiryStep, ClientStep, TransferStep, ReportStep
  DEF Next, IO, Client

\* The inductive invariant of the echo servers.
THEOREM Invariant == Spec => []IInv
  BY InitIInv, Inductive, PTL DEF Spec

\* What a server writes is what it has read, and a client that closes its side
\* gets everything back, in all programs and with any number of clients.
THEOREM ExactEcho == Spec => []EchoIsExact
  BY Invariant, PTL DEF IInv

-----------------------------------------------------------------------------
\* What SessionsAreIndependent says of one step.
OwnReason == \A c \in Connection : Live(c) /\ ~Live(c)' => op[c] \in AnyError \/ expired[c]

\* A step ends at most the session that takes it, for a reason of its own.
LEMMA OwnReasonStep == IInv /\ [Next]_vars => OwnReason
<1> SUFFICES ASSUME IInv, [Next]_vars, NEW c \in Connection, Live(c), ~Live(c)'
             PROVE  op[c] \in AnyError \/ expired[c]
  BY DEF OwnReason
<1>1. pc' # pc
  OBVIOUS
<1>2. PICK x \in Connection : AcceptOk(x) \/ Session(x) \/ Connects(x)
  BY <1>1 DEF Next, vars, AcceptFails, IO, Client, SessionExpires, ReadExpires, ReadCompletes,
     ReadEnds, WriteBreaks, Sends, ClientCloses, Resets, WriteCompletes
<1>3. x = c /\ Session(c)
  BY <1>2 DEF AcceptOk, Connects, Session, ReadDone, ReadFails, ReadErrorIgnored, WriteDone,
     WriteFails, Awaits, Closes, IInv, EchoIsExact, TypeOK
<1>4. prog.readEnds \subseteq AnyError
  BY ProgramFields DEF IInv, EchoIsExact, TypeOK
<1> QED
  BY <1>3, <1>4 DEF Session, ReadDone, ReadFails, ReadErrorIgnored, WriteDone, WriteFails,
     Awaits, Closes, IInv, EchoIsExact, TypeOK

\* Neither another session nor a failed accept ends a session, in any program.
THEOREM Independent == Spec => SessionsAreIndependent
<1>1. IInv /\ [Next]_vars => [OwnReason]_vars
  BY OwnReasonStep
<1> QED
  BY <1>1, Invariant, PTL DEF Spec, SessionsAreIndependent, OwnReason

-----------------------------------------------------------------------------
(***************************************************************************)
(* Deadlines and workers: nobody who can be served is left waiting, and no *)
(* program goes on for ever for clients that send a bounded number of      *)
(* bytes.                                                                  *)
(***************************************************************************)
\* A session whose deadline has passed waits for nothing any more; only a read sees
\* the end of a stream, and a reset is reported once.  No error ends the program
\* that has timeouts.
Stopping ==
  /\ prog.timeouts => Running
  /\ \A c \in Connection :
       /\ pc[c] = "write" => op[c] # "eof"
       /\ told[c] => reset[c]
       /\ expired[c] => pc[c] \notin {"new", "backlog"}
       /\ Live(c) /\ expired[c] => op[c] # "pending"

\* The guards of what fairness is about: of AcceptOk, Session and IO, and of what a
\* patient client does.
AcceptReady(c)  == server = "accepting" /\ pc[c] = "backlog" /\ Cardinality(LiveSession) < prog.sessions
SessionReady(c) == /\ Running
                   /\ \/ pc[c] = "read" /\ op[c] \in {"ok", "error"} \cup prog.readEnds
                      \/ pc[c] = "write" /\ op[c] \in {"ok", "error", "aborted"}
IOReady(c)      == /\ Running /\ Live(c) /\ op[c] = "pending"
                   /\ reset[c] \/ (pc[c] = "read" /\ (sent[c] > got[c] \/ fin[c]))
PatientReady(c) == /\ Running /\ ~reset[c]
                   /\ \/ (Live(c) \/ pc[c] = "backlog") /\ ~fin[c]
                      \/ pc[c] = "write" /\ op[c] = "pending"

Ready == \E c \in Connection : AcceptReady(c) \/ SessionReady(c) \/ IOReady(c) \/ PatientReady(c)

\* What is left to do for a connection, and by the server.
One(b) == IF b THEN 1 ELSE 0

Rank(p, r) ==
  CASE p = "new" -> 4 [] p = "backlog" -> 3 [] p = "closed" -> 0
    [] p = "read"  -> (CASE r = "ok" -> 5 [] r = "error" -> 3 [] r = "pending" -> 2
                         [] r \in {"eof", "aborted"} -> 1)
    [] p = "write" -> (CASE r = "pending" -> 4 [] r = "ok" -> 3 [] r \in AnyError -> 1)

ToDo(c) == (MaxBytes - sent[c]) + 4 * (MaxBytes - got[c]) + Rank(pc[c], op[c])
           + One(~fin[c]) + One(~reset[c]) + 2 * One(~told[c]) + One(~expired[c])

MaxToDo == 5 * MaxBytes + 10

ServerRank == CASE server = "accepting" -> 2 [] server = "ended" -> 1 [] server = "terminated" -> 0

Left == {x \in Connection \X (1 .. MaxToDo) : x[2] <= ToDo(x[1])}

Remaining == Cardinality(Left) + ServerRank

\* What the programs have in common: the end of the stream ends a session, somebody
\* is served, and with timeouts every error ends a session and nothing else.
LEMMA ProgramRules ==
  ASSUME NEW p \in Program
  PROVE  /\ "eof" \in p.readEnds /\ p.writeError \in {"ends", "terminates"}
         /\ p.timeouts => p.readEnds = AnyError /\ p.writeError = "ends" /\ p.acceptError = "ends"
         /\ p.timeouts \in BOOLEAN
         /\ p.sessions \in {Many, 1, MaxWorkers}
<1>1. PICK n, a, r, w, t :
        /\ p = Style(n, a, r, w, t)
        /\ "eof" \in r /\ w \in {"ends", "terminates"} /\ (t => r = AnyError /\ w = "ends" /\ a = "ends")
        /\ t \in BOOLEAN /\ n \in {Many, 1, MaxWorkers}
  BY DEF Program, EchoCoro, EchoCoroTuple, EchoCoroThreaded, EchoCoroTimeout,
     EchoCoroContextPool, EchoAsync, EchoAsyncThreaded, EchoSync, EchoSyncThreaded,
     EchoCorosio, EchoCorosioThreaded, CorosioEchoServer, EchoGo, EchoRust
<1>2. p.sessions = n /\ p.readEnds = r /\ p.writeError = w /\ p.timeouts = t /\ p.acceptError = a
  BY <1>1 DEF Style
<1> QED
  BY <1>1, <1>2, Zenon

\* Nothing but its own steps changes where a session is.
LEMMA StoppingInductive == IInv /\ Stopping /\ [Next]_vars => Stopping'
<1> SUFFICES ASSUME IInv, Stopping, [Next]_vars PROVE Stopping'
  OBVIOUS
<1>t. TypeOK /\ Fresh /\ Reasons
  BY DEF IInv, EchoIsExact
<1>p. prog.timeouts => prog.acceptError = "ends" /\ prog.writeError = "ends"
  BY <1>t, ProgramRules DEF TypeOK
<1> USE DEF Stopping, Running
<1>1. CASE AcceptFails \/ UNCHANGED vars
  BY <1>1, <1>p DEF AcceptFails, OnAcceptError, vars
<1>2. ASSUME NEW c \in Connection, AcceptOk(c) \/ Connects(c) PROVE Stopping'
  BY <1>2, <1>t DEF AcceptOk, Connects, TypeOK, Fresh
<1>3. ASSUME NEW c \in Connection, Session(c) PROVE Stopping'
  <2>1. prog.timeouts => "error" \in prog.readEnds
    BY <1>t, ProgramRules DEF TypeOK
  <2>2. CASE ReadErrorIgnored(c)
    BY <2>1, <2>2, <1>t DEF ReadErrorIgnored, TypeOK, Reasons
  <2>3. CASE ReadDone(c) \/ WriteDone(c)
    BY <2>3, <1>t DEF ReadDone, WriteDone, Awaits, Closes, TypeOK
  <2>4. CASE ReadFails(c) \/ WriteFails(c)
    BY <2>4, <1>t, <1>p DEF ReadFails, WriteFails, Closes, TypeOK
  <2> QED
    BY <1>3, <2>2, <2>3, <2>4 DEF Session
<1>4. ASSUME NEW c \in Connection, IO(c) PROVE Stopping'
  <2>1. CASE ReadEnds(c)
    BY <2>1, <1>t DEF ReadEnds, TypeOK
  <2>2. CASE WriteBreaks(c) \/ \E n \in 1 .. MaxBytes : ReadCompletes(c, n)
    BY <2>2, <1>t DEF WriteBreaks, ReadCompletes, TypeOK
  <2> QED
    BY <1>4, <2>1, <2>2 DEF IO
<1>5. ASSUME NEW c \in Connection, Sends(c) \/ ClientCloses(c) \/ Resets(c) \/ WriteCompletes(c)
      PROVE  Stopping'
  BY <1>5, <1>t DEF Sends, ClientCloses, Resets, WriteCompletes, TypeOK
<1>6. ASSUME NEW c \in Connection, SessionExpires(c) \/ ReadExpires(c) PROVE Stopping'
  BY <1>6, <1>t DEF SessionExpires, ReadExpires, Abort, TypeOK
<1> QED
  BY <1>1, <1>2, <1>3, <1>4, <1>5, <1>6 DEF Next, Client

\* The invariants of what follows.
LEMMA AlwaysStopping == Spec => [](IInv /\ Stopping)
<1>1. Init => Stopping
  BY DEF Init, Stopping, Running
<1> QED
  BY <1>1, InitIInv, Inductive, StoppingInductive, PTL DEF Spec

\* What is left to do for a connection is a number.
LEMMA ToDoType == TypeOK => \A c \in Connection : ToDo(c) \in 0 .. MaxToDo
<1> SUFFICES ASSUME TypeOK, NEW c \in Connection PROVE ToDo(c) \in 0 .. MaxToDo
  OBVIOUS
<1>1. MaxBytes - sent[c] \in 0 .. MaxBytes /\ MaxBytes - got[c] \in 0 .. MaxBytes
  BY EchoProgramsAssumption DEF TypeOK
<1>2. Rank(pc[c], op[c]) \in 0 .. 5
  BY DEF Rank, TypeOK
<1>3. \A b : One(b) \in 0 .. 1
  BY DEF One
<1>4. One(~fin[c]) \in 0 .. 1 /\ One(~reset[c]) \in 0 .. 1 /\ One(~told[c]) \in 0 .. 1
      /\ One(~expired[c]) \in 0 .. 1
  BY <1>3
<1> QED
  BY <1>1, <1>2, <1>4, EchoProgramsAssumption DEF ToDo, MaxToDo

\* The same after a step.
LEMMA ToDoTypeNext == TypeOK' => (\A c \in Connection : ToDo(c) \in 0 .. MaxToDo)'
  BY ToDoType, PTL

\* There are finitely many connections, each with a bounded number of things to do.
LEMMA LeftFinite == IsFiniteSet(Left) /\ Cardinality(Left) \in Nat
<1>1. 1 \in Int /\ MaxToDo \in Int
  BY EchoProgramsAssumption DEF MaxToDo
<1>2. IsFiniteSet(1 .. MaxToDo)
  BY <1>1, FS_Interval
<1>3. IsFiniteSet(Connection \X (1 .. MaxToDo))
  BY <1>2, EchoProgramsAssumption, FS_Product
<1>4. Left \in SUBSET (Connection \X (1 .. MaxToDo))
  BY DEF Left
<1>5. IsFiniteSet(Left)
  BY <1>3, <1>4, FS_Subset
<1> QED
  BY <1>5, FS_CardinalityType

\* A step that leaves less to do for one connection, and not more for the others.
LEMMA LeftShrinks ==
  ASSUME NEW c \in Connection, ToDo(c)' < ToDo(c),
         \A d \in Connection : ToDo(d) \in 0 .. MaxToDo /\ ToDo(d)' \in 0 .. MaxToDo,
         \A d \in Connection \ {c} : ToDo(d)' = ToDo(d)
  PROVE  Cardinality(Left') \in Nat /\ Cardinality(Left') < Cardinality(Left)
<1>1. MaxToDo \in Nat
  BY EchoProgramsAssumption DEF MaxToDo
<1>2. \A x \in Left' : x \in Left
  BY <1>1 DEF Left
<1>3. <<c, ToDo(c)>> \in Left /\ <<c, ToDo(c)>> \notin Left'
  <2>1. ToDo(c) \in 1 .. MaxToDo
    BY <1>1
  <2> QED
    BY <1>1, <2>1 DEF Left
<1>4. Left' \in SUBSET Left /\ Left' # Left
  BY <1>2, <1>3
<1>5. IsFiniteSet(Left') /\ Cardinality(Left') <= Cardinality(Left) /\ Cardinality(Left') # Cardinality(Left)
  BY <1>4, LeftFinite, FS_Subset
<1>6. Cardinality(Left') \in Nat
  BY <1>5, FS_CardinalityType
<1> QED
  BY <1>5, <1>6, LeftFinite

\* What each step of a connection does about what is left to do.
LEMMA ConnectionDecreases ==
  ASSUME IInv, Stopping, NEW c \in Connection,
         \/ AcceptOk(c) \/ Session(c) \/ IO(c) \/ Client(c) \/ SessionExpires(c) \/ ReadExpires(c)
  PROVE  /\ \A d \in Connection \ {c} : ToDo(d)' = ToDo(d)
         /\ \/ server' = server /\ ToDo(c)' < ToDo(c)
            \/ server # "terminated" /\ server' = "terminated" /\ ToDo(c)' = ToDo(c)
<1>t. TypeOK /\ Fresh
  BY DEF IInv, EchoIsExact
<1>n. MaxBytes \in Nat /\ sent[c] \in Nat /\ got[c] \in Nat
  BY <1>t, EchoProgramsAssumption DEF TypeOK
<1>1. \A d \in Connection \ {c} : ToDo(d)' = ToDo(d)
  <2>1. \A d \in Connection \ {c} :
          /\ pc'[d] = pc[d] /\ op'[d] = op[d] /\ expired'[d] = expired[d] /\ got'[d] = got[d]
          /\ told'[d] = told[d] /\ sent'[d] = sent[d] /\ fin'[d] = fin[d] /\ reset'[d] = reset[d]
    BY <1>t DEF AcceptOk, Session, ReadDone, ReadFails, ReadErrorIgnored, WriteDone, WriteFails,
       Awaits, Closes, IO, ReadCompletes, ReadEnds, WriteBreaks, Client, Connects, Sends,
       ClientCloses, Resets, WriteCompletes, SessionExpires, ReadExpires, Abort, TypeOK
  <2> QED
    BY <2>1 DEF ToDo
<1> DEFINE Rest == <<sent[c], got[c], fin[c], reset[c], told[c], expired[c]>>
<1>2. ASSUME UNCHANGED Rest, Rank(pc'[c], op'[c]) < Rank(pc[c], op[c]),
             Rank(pc'[c], op'[c]) \in Nat, Rank(pc[c], op[c]) \in Nat
      PROVE  ToDo(c)' < ToDo(c)
  BY <1>2, <1>n DEF ToDo, One
<1>3. ASSUME AcceptOk(c) \/ Connects(c) PROVE ToDo(c)' < ToDo(c)
  BY <1>2, <1>3, <1>t DEF AcceptOk, Connects, Rank, TypeOK, Fresh
<1>4. ASSUME ReadDone(c) \/ WriteDone(c) PROVE ToDo(c)' < ToDo(c)
  BY <1>2, <1>4, <1>t DEF ReadDone, WriteDone, Awaits, Closes, Rank, TypeOK
<1>5. ASSUME ReadFails(c) PROVE ToDo(c)' < ToDo(c)
  BY <1>2, <1>5, <1>t DEF ReadFails, Closes, Rank, TypeOK
<1>6. ASSUME ReadErrorIgnored(c) PROVE ToDo(c)' < ToDo(c)
  BY <1>2, <1>6, <1>t DEF ReadErrorIgnored, Rank, TypeOK
<1>7. CASE WriteFails(c)
  <2>1. ASSUME Closes(c) PROVE ToDo(c)' < ToDo(c)
    BY <1>2, <1>7, <1>t, <2>1 DEF WriteFails, Closes, Rank, TypeOK
  <2>2. CASE server' = "terminated" /\ UNCHANGED <<pc, op>>
    BY <1>1, <1>7, <2>2 DEF WriteFails, Running, ToDo
  <2> QED
    BY <1>1, <1>7, <2>1, <2>2 DEF WriteFails
<1>8. ASSUME WriteBreaks(c) PROVE ToDo(c)' < ToDo(c)
  BY <1>2, <1>8, <1>t DEF WriteBreaks, Rank, TypeOK
<1>9. ASSUME WriteCompletes(c) PROVE ToDo(c)' < ToDo(c)
  BY <1>2, <1>9, <1>t DEF WriteCompletes, Rank, TypeOK
<1>10. ASSUME ReadExpires(c) PROVE ToDo(c)' < ToDo(c)
  BY <1>2, <1>10, <1>t DEF ReadExpires, Abort, Rank, TypeOK
<1>11. ASSUME NEW n \in 1 .. MaxBytes, ReadCompletes(c, n) PROVE ToDo(c)' < ToDo(c)
  <2>1. got'[c] = got[c] + n /\ Rank(pc[c], op[c]) = 2 /\ Rank(pc'[c], op'[c]) = 5
        /\ UNCHANGED <<sent[c], fin[c], reset[c], told[c], expired[c]>> /\ n \in Nat /\ n > 0
    BY <1>11, <1>t, <1>n DEF ReadCompletes, Rank, TypeOK
  <2> QED
    BY <2>1, <1>n DEF ToDo, One
<1>12. ASSUME ReadEnds(c) PROVE ToDo(c)' < ToDo(c)
  <2>1. CASE reset[c] /\ ~told[c]
    <3>1. told'[c] /\ Rank(pc[c], op[c]) = 2 /\ Rank(pc'[c], op'[c]) = 3
          /\ UNCHANGED <<sent[c], got[c], fin[c], reset[c], expired[c]>>
      BY <1>12, <1>t, <2>1 DEF ReadEnds, Rank, TypeOK
    <3> QED
      BY <2>1, <3>1, <1>n DEF ToDo, One
  <2>2. CASE ~(reset[c] /\ ~told[c])
    <3>1. told'[c] = told[c] /\ Rank(pc[c], op[c]) = 2 /\ Rank(pc'[c], op'[c]) = 1
          /\ UNCHANGED <<sent[c], got[c], fin[c], reset[c], expired[c]>>
      BY <1>12, <1>t, <2>2 DEF ReadEnds, Rank, TypeOK, Stopping
    <3> QED
      BY <1>2, <3>1
  <2> QED
    BY <2>1, <2>2
<1>13. ASSUME Sends(c) PROVE ToDo(c)' < ToDo(c)
  <2>1. sent'[c] = sent[c] + 1 /\ UNCHANGED <<pc, op, got, fin, reset, told, expired>>
    BY <1>13, <1>t DEF Sends, TypeOK
  <2>2. Rank(pc[c], op[c]) \in Nat
    BY <1>t DEF Rank, TypeOK
  <2> QED
    BY <2>1, <2>2, <1>n DEF ToDo, One
<1>14. ASSUME ClientCloses(c) \/ Resets(c) PROVE ToDo(c)' < ToDo(c)
  <2>1. /\ UNCHANGED <<pc, op, got, sent, told, expired>>
        /\ \/ ~fin[c] /\ fin'[c] /\ reset' = reset
           \/ ~reset[c] /\ reset'[c] /\ fin' = fin
    BY <1>14, <1>t DEF ClientCloses, Resets, TypeOK
  <2>2. Rank(pc[c], op[c]) \in Nat
    BY <1>t DEF Rank, TypeOK
  <2> QED
    BY <2>1, <2>2, <1>n DEF ToDo, One
<1>15. ASSUME SessionExpires(c) PROVE ToDo(c)' < ToDo(c)
  <2>1. /\ UNCHANGED <<pc, got, sent, fin, reset, told>> /\ ~expired[c] /\ expired'[c]
        /\ Rank(pc'[c], op'[c]) <= Rank(pc[c], op[c])
        /\ Rank(pc'[c], op'[c]) \in Nat /\ Rank(pc[c], op[c]) \in Nat
    BY <1>15, <1>t DEF SessionExpires, Abort, Rank, TypeOK
  <2> QED
    BY <2>1, <1>n DEF ToDo, One
<1>16. server' = server \/ WriteFails(c)
  BY DEF AcceptOk, Session, ReadDone, ReadFails, ReadErrorIgnored, WriteDone, IO, ReadCompletes,
     ReadEnds, WriteBreaks, Client, Connects, Sends, ClientCloses, Resets, WriteCompletes,
     SessionExpires, ReadExpires
<1> QED
  BY <1>1, <1>3, <1>4, <1>5, <1>6, <1>7, <1>8, <1>9, <1>10, <1>11, <1>12, <1>13, <1>14, <1>15, <1>16
  DEF Session, IO, Client

\* Every step leaves less to do, except for an accept that fails and is ignored.
LEMMA Decreases == IInv /\ Stopping /\ [Next]_vars => [Remaining' < Remaining]_vars
<1> SUFFICES ASSUME IInv, Stopping, Next, ~UNCHANGED vars PROVE Remaining' < Remaining
  OBVIOUS
<1>t. TypeOK /\ \A c \in Connection : ToDo(c) \in 0 .. MaxToDo
  BY ToDoType DEF IInv, EchoIsExact
<1>u. TypeOK' /\ \A c \in Connection : ToDo(c)' \in 0 .. MaxToDo
  <2>1. TypeOK'
    BY Inductive DEF IInv, EchoIsExact
  <2> QED
    BY <2>1, ToDoTypeNext
<1>s. ServerRank \in 0 .. 2 /\ ServerRank' \in 0 .. 2
  BY <1>t, <1>u DEF TypeOK, ServerRank
<1>1. CASE AcceptFails
  <2>1. \A c \in Connection : ToDo(c)' = ToDo(c)
    BY <1>1 DEF AcceptFails, ToDo
  <2>2. Left' = Left
    BY <2>1 DEF Left
  <2>3. server = "accepting" /\ server' # server
    BY <1>1 DEF AcceptFails, vars
  <2>4. ServerRank' < ServerRank
    BY <1>u, <2>3 DEF TypeOK, ServerRank
  <2> QED
    BY <2>2, <2>4, <1>s, LeftFinite DEF Remaining
<1>2. ASSUME NEW c \in Connection,
             \/ AcceptOk(c) \/ Session(c) \/ IO(c) \/ Client(c) \/ SessionExpires(c) \/ ReadExpires(c)
      PROVE  Remaining' < Remaining
  <2>1. \A d \in Connection \ {c} : ToDo(d)' = ToDo(d)
    BY <1>2, ConnectionDecreases
  <2>2. CASE server' = server /\ ToDo(c)' < ToDo(c)
    <3>1. Cardinality(Left') \in Nat /\ Cardinality(Left') < Cardinality(Left)
      BY <1>t, <1>u, <2>1, <2>2, LeftShrinks
    <3>2. ServerRank' = ServerRank
      BY <2>2 DEF ServerRank
    <3> QED
      BY <3>1, <3>2, <1>s, LeftFinite DEF Remaining
  <2>3. CASE server # "terminated" /\ server' = "terminated" /\ ToDo(c)' = ToDo(c)
    <3>1. Left' = Left
      BY <2>1, <2>3 DEF Left
    <3>2. ServerRank' < ServerRank
      BY <1>t, <2>3 DEF TypeOK, ServerRank
    <3> QED
      BY <3>1, <3>2, <1>s, LeftFinite DEF Remaining
  <2> QED
    BY <1>2, <2>2, <2>3, ConnectionDecreases
<1> QED
  BY <1>1, <1>2 DEF Next

\* A session whose operation has completed has something to do with every result.
LEMMA ResultsAreHandled ==
  ASSUME IInv, Stopping, NEW c \in Connection, Running, Live(c), op[c] # "pending"
  PROVE  SessionReady(c)
<1>1. prog \in Program
  BY DEF IInv, EchoIsExact, TypeOK
<1>2. /\ "eof" \in prog.readEnds
      /\ prog.timeouts => prog.readEnds = AnyError
  BY <1>1, ProgramRules
<1> QED
  BY <1>2 DEF SessionReady, IInv, EchoIsExact, TypeOK, Stopping, Reasons

\* A worker that is busy has a client, who closes and reads in the end.
LEMMA SomebodyReady ==
  IInv /\ Stopping /\ server = "accepting" /\ (\E c \in Connection : pc[c] = "backlog") => Ready
<1> SUFFICES ASSUME IInv, Stopping, server = "accepting", NEW c \in Connection, pc[c] = "backlog"
             PROVE  Ready
  OBVIOUS
<1>t. TypeOK /\ Running
  BY DEF IInv, EchoIsExact, Running
<1>1. CASE Cardinality(LiveSession) < prog.sessions
  BY <1>1 DEF Ready, AcceptReady
<1>2. CASE LiveSession # {}
  <2>1. PICK d \in Connection : Live(d)
    BY <1>2 DEF LiveSession
  <2>2. CASE op[d] # "pending"
    BY <1>t, <2>1, <2>2, ResultsAreHandled DEF Ready
  <2>3. CASE op[d] = "pending" /\ (reset[d] \/ (pc[d] = "read" /\ fin[d]))
    BY <1>t, <2>1, <2>3 DEF Ready, IOReady
  <2>4. CASE op[d] = "pending" /\ ~reset[d] /\ (pc[d] = "write" \/ ~fin[d])
    BY <1>t, <2>1, <2>4 DEF Ready, PatientReady
  <2> QED
    BY <2>1, <2>2, <2>3, <2>4
<1>3. LiveSession = {} => Cardinality(LiveSession) < prog.sessions
  <2>1. Connection # {} /\ IsFiniteSet(Connection)
    BY EchoProgramsAssumption
  <2>2. Many \in Nat /\ Many # 0
    BY <2>1, FS_EmptySet, FS_CardinalityType DEF Many
  <2>3. prog.sessions \in {Many, 1, MaxWorkers}
    BY <1>t, ProgramRules DEF TypeOK
  <2>4. Cardinality({}) = 0
    BY FS_EmptySet
  <2> QED
    BY <2>2, <2>3, <2>4, EchoProgramsAssumption
<1> QED
  BY <1>1, <1>2, <1>3

\* As long as somebody waits in the backlog of a server that accepts, a worker can
\* take the connection, or a session, the kernel or a patient client can go on: no
\* result of an operation leaves a worker stuck, with any number of workers
\* (corosio_echo_server.cpp:70).
THEOREM NeverBlocked ==
  Spec => [](server = "accepting" /\ (\E c \in Connection : pc[c] = "backlog") => Ready)
  BY AlwaysStopping, SomebodyReady, PTL

\* Every step leaves less to do, also the reads of the programs that ignore errors.
\* With NeverBlocked this is EverybodyIsServed, up to what fairness means.
THEOREM Terminating == Spec => [](Remaining \in Nat) /\ [][Remaining' < Remaining]_vars
<1>1. IInv => Remaining \in Nat
  BY LeftFinite DEF IInv, EchoIsExact, TypeOK, Remaining, ServerRank
<1> QED
  BY <1>1, Decreases, AlwaysStopping, PTL DEF Spec

\* What a step may do to a session whose deadline has passed: end it.
ExpiredOnlyEnds == \A c \in Connection : Live(c) /\ expired[c] /\ Live(c)' => UNCHANGED <<pc[c], op[c]>>

\* A deadline that fires ends the session in one step of its own, whether it fires
\* during an operation or between two of them: from then on it has a result to go
\* on with, and every way to go on with it is to end.  As SessionExpires is enabled
\* for every other session with timeouts, this is TimeoutEndsSession, up to what
\* fairness means (echo_coro_timeout.cpp:20).
THEOREM ExpiredStops ==
  Spec => /\ [](\A c \in Connection : Live(c) /\ expired[c] => SessionReady(c))
          /\ [][ExpiredOnlyEnds]_vars
<1>1. IInv /\ Stopping => \A c \in Connection : Live(c) /\ expired[c] => SessionReady(c)
  <2> SUFFICES ASSUME IInv, Stopping, NEW c \in Connection, Live(c), expired[c]
               PROVE  SessionReady(c)
    OBVIOUS
  <2> QED
    BY ResultsAreHandled DEF IInv, Reasons, Stopping
<1>2. IInv /\ Stopping /\ [Next]_vars => [ExpiredOnlyEnds]_vars
  <2> SUFFICES ASSUME IInv, Stopping, Next, NEW c \in Connection, Live(c), expired[c], Live(c)'
               PROVE  UNCHANGED <<pc[c], op[c]>>
    BY DEF ExpiredOnlyEnds
  <2>t. TypeOK /\ op[c] # "pending" /\ prog.timeouts
    BY DEF IInv, EchoIsExact, Stopping, Reasons
  <2>r. "error" \in prog.readEnds
    BY <2>t, ProgramRules DEF TypeOK
  <2>1. CASE AcceptFails
    BY <2>1 DEF AcceptFails
  <2>2. ASSUME NEW d \in Connection, AcceptOk(d) \/ Session(d) PROVE UNCHANGED <<pc[c], op[c]>>
    BY <2>2, <2>t, <2>r DEF AcceptOk, Session, ReadDone, ReadFails, ReadErrorIgnored, WriteDone,
       WriteFails, Awaits, Closes, TypeOK
  <2>3. ASSUME NEW d \in Connection, IO(d) \/ Client(d) PROVE UNCHANGED <<pc[c], op[c]>>
    BY <2>3, <2>t DEF IO, ReadCompletes, ReadEnds, WriteBreaks, Client, Connects, Sends,
       ClientCloses, Resets, WriteCompletes, TypeOK
  <2>4. ASSUME NEW d \in Connection, SessionExpires(d) \/ ReadExpires(d)
        PROVE  UNCHANGED <<pc[c], op[c]>>
    BY <2>4, <2>t DEF SessionExpires, ReadExpires, Abort, TypeOK
  <2> QED
    BY <2>1, <2>2, <2>3, <2>4 DEF Next
<1> QED
  BY <1>1, <1>2, AlwaysStopping, PTL DEF Spec
=============================================================================
