------------------------ MODULE LegacyConnectionProof ------------------------
(***************************************************************************)
(* Proofs about LegacyConnection for every set of batches, any number of   *)
(* commands and every placement of deadlines and faults: a session that    *)
(* can be used is aligned with its server, and it knows of a transaction   *)
(* that is open there.                                                     *)
(***************************************************************************)
EXTENDS LegacyConnection, SequenceTheorems, TLAPS

-----------------------------------------------------------------------------
(* The type invariant *)

\* What a command can execute is a sequence of operations.
LEMMA BatchIsSeq ==
  ASSUME LegacyAssumption, NEW b \in Batches \cup {<<>>, <<"begin">>, <<"end">>}
  PROVE  b \in Seq(Operations)
<1>1. <<>> \in Seq(Operations) /\ "begin" \in Operations /\ "end" \in Operations
  BY EmptySeq DEF Operations
<1>2. Append(<<>>, "begin") \in Seq(Operations) /\ Append(<<>>, "end") \in Seq(Operations)
  BY <1>1, AppendProperties
<1>3. <<"begin">> = Append(<<>>, "begin") /\ <<"end">> = Append(<<>>, "end")
  OBVIOUS
<1> QED
  BY <1>1, <1>2, <1>3 DEF LegacyAssumption

\* Types of the client's own variables, of what is in flight, and of the server
ClientTypes ==
  /\ link \in {"up", "closed", "poisoned"}
  /\ pc \in {"idle", "sync", "send", "type", "body"}
  /\ cmd \in [n : Nat, batch : Batches \cup {<<>>, <<"begin">>, <<"end">>},
              sink : BOOLEAN, by : {"program", "begin", "end", "drop"}]
  /\ inTx \in BOOLEAN /\ prevTx \in BOOLEAN /\ syncReq \in BOOLEAN
  /\ export \in BOOLEAN /\ source \in BOOLEAN
  /\ errors \subseteq {"sink", "database", "decode"}
  /\ guard \in {"none", "live", "drop"}
FlightTypes ==
  /\ wire \in Seq(Message)
  /\ request \in Seq([of : Nat, batch : Seq(Operations)])
  /\ reply \in {"none", "yes", "no"}
  /\ cancels \in Nat
ServerTypes ==
  /\ serverTx \in BOOLEAN
  /\ server \in [at : {"idle", "run", "asks", "half"}, of : Nat, todo : Seq(Operations)]

\* The type invariant is the conjunction of its parts.
LEMMA TypeParts == TypeOK <=> ClientTypes /\ FlightTypes /\ ServerTypes
  BY DEF TypeOK, ClientTypes, FlightTypes, ServerTypes

\* However a command ends, the client's variables keep their types.
LEMMA EndTypes ==
  ASSUME ClientTypes, NEW ok \in BOOLEAN, NEW tx \in BOOLEAN,
         NEW after \in {"up", "closed", "poisoned"}, NEW sync \in BOOLEAN,
         End(ok, tx, after, sync), errors' \subseteq {"sink", "database", "decode"}
  PROVE  ClientTypes'
<1>1. FailedDrop(ok) \in BOOLEAN
  BY DEF FailedDrop
<1>2. link' \in {"up", "closed", "poisoned"} /\ pc' = "idle" /\ source' = FALSE
  BY DEF End
<1>3. inTx' \in BOOLEAN /\ syncReq' \in BOOLEAN /\ export' \in BOOLEAN
  BY DEF End
<1>4. guard' \in {"none", "live", "drop"}
  BY DEF End, GuardAfter, ClientTypes
<1> QED
  BY <1>2, <1>3, <1>4 DEF End, ClientTypes

\* The flag a command leaves behind is a flag.
LEMMA FlagTypes ==
  ASSUME NEW batch, NEW before \in BOOLEAN
  PROVE  TxAfter(batch, before) \in BOOLEAN /\ TxOnError(batch, before) \in BOOLEAN
<1>1. StateOf(batch) \in {"unchanged", "opened", "closed"}
  BY DEF StateOf
<1> QED
  BY <1>1 DEF TxAfter, TxOnError

\* Issuing a command keeps the types.
LEMMA StartTypes ==
  ASSUME TypeOK, NEW batch \in Batches \cup {<<>>, <<"begin">>, <<"end">>},
         NEW sink \in BOOLEAN, NEW by \in {"program", "begin", "end", "drop"},
         NEW bound \in BOOLEAN, Start(batch, sink, by, bound)
  PROVE  TypeOK'
<1>1. ClientTypes /\ FlightTypes /\ ServerTypes
  BY TypeParts
<1>2. inTx' \in BOOLEAN
  BY <1>1, FlagTypes DEF Start, ClientTypes
<1>3. cmd' \in [n : Nat, batch : Batches \cup {<<>>, <<"begin">>, <<"end">>},
                sink : BOOLEAN, by : {"program", "begin", "end", "drop"}]
  BY <1>1 DEF Start, ClientTypes
<1>4. ClientTypes'
  BY <1>1, <1>2, <1>3 DEF Start, ClientTypes
<1>5. FlightTypes' /\ ServerTypes'
  BY <1>1 DEF Start, FlightTypes, ServerTypes, serverVars
<1> QED
  BY <1>4, <1>5, TypeParts DEF TypeOK, ClientTypes, FlightTypes, ServerTypes

\* A message the server sends is a message.
LEMMA SaysTypes ==
  ASSUME FlightTypes, ServerTypes, NEW kind \in Kinds, Says(kind)
  PROVE  wire' \in Seq(Message)
<1>1. [of |-> server.of, is |-> kind] \in Message
  BY DEF ServerTypes, Message
<1> QED
  BY <1>1, AppendProperties DEF Says, FlightTypes

\* Reading a message keeps what follows it.
LEMMA TailTypes ==
  ASSUME FlightTypes, wire # <<>>
  PROVE  Tail(wire) \in Seq(Message) /\ Head(wire) \in Message
  BY HeadTailProperties DEF FlightTypes

\* So does a drain that has lost the framing: what it leaves is an end of what
\* was there.
LEMMA LostTypes ==
  ASSUME FlightTypes, NEW k \in 1 .. Len(wire) + 1
  PROVE  /\ SubSeq(wire, k, Len(wire)) \in Seq(Message)
         /\ Len(wire) \in Nat
         /\ Len(SubSeq(wire, k, Len(wire))) = Len(wire) - k + 1
         /\ \A i \in 1 .. (Len(wire) - k + 1) : SubSeq(wire, k, Len(wire))[i] = wire[k + i - 1]
<1>1. Len(wire) \in Nat
  BY LenProperties DEF FlightTypes
<1>2. \A i \in k .. Len(wire) : i \in 1 .. Len(wire)
  BY <1>1
<1> QED
  BY <1>1, <1>2, SubSeqProperties DEF FlightTypes

\* Every step of the client, before it reads a response, keeps the types.
LEMMA ClientStepTypes ==
  ASSUME LegacyAssumption, TypeOK,
         \/ Execute \/ GuardBegin \/ GuardEnd \/ GuardDrop \/ GuardGone \/ Close
         \/ Syncs \/ Send \/ SendFails \/ SendTimesOut
  PROVE  TypeOK'
<1>0. ClientTypes /\ FlightTypes /\ ServerTypes
  BY TypeParts
<1>1. CASE Execute
  <2>1. PICK batch \in Batches, sink \in BOOLEAN :
          \E bound \in {FALSE, ~sink /\ \E i \in DOMAIN batch : batch[i] = "import"} :
            Start(batch, sink, "program", bound)
    BY <1>1 DEF Execute
  <2>2. PICK bound \in {FALSE, ~sink /\ \E i \in DOMAIN batch : batch[i] = "import"} :
          Start(batch, sink, "program", bound)
    BY <2>1
  <2>3. bound \in BOOLEAN
    BY <2>2
  <2> QED
    BY <2>2, <2>3, StartTypes
<1>2. CASE GuardBegin \/ GuardEnd \/ GuardDrop
  BY <1>2, StartTypes DEF GuardBegin, GuardEnd, GuardDrop
<1>3. CASE GuardGone
  BY <1>3 DEF GuardGone, TypeOK, serverVars
<1>4. CASE Close
  BY <1>4 DEF Close, TypeOK, serverVars
<1>5. CASE SyncNothing
  BY <1>5 DEF SyncNothing, TypeOK, serverVars
<1>6. CASE SyncSkip
  <2>1. wire' \in Seq(Message)
    <3>1. CASE LoseFraming
      BY <1>0, <3>1, LostTypes DEF LoseFraming
    <3>2. CASE ~LoseFraming
      BY <1>0, <1>6, <3>2, TailTypes DEF SyncSkip
    <3> QED BY <3>1, <3>2
  <2>2. FlightTypes' /\ ServerTypes'
    BY <1>0, <1>6, <2>1 DEF SyncSkip, FlightTypes, ServerTypes, serverVars
  <2>3. /\ pc' \in {"send", "sync"} /\ syncReq' \in BOOLEAN
        /\ UNCHANGED <<link, cmd, inTx, prevTx, errors, export, source, guard>>
    BY <1>0, <1>6 DEF SyncSkip, LoseFraming, ClientTypes
  <2>4. ClientTypes'
    BY <1>0, <2>3 DEF ClientTypes
  <2> QED
    BY <2>2, <2>4 DEF TypeOK, ClientTypes, FlightTypes, ServerTypes
<1>7. CASE SyncFails \/ SendFails
  <2>1. \E after \in {"closed", "poisoned"} : End(FALSE, prevTx, after, syncReq) /\ errors' = errors
    BY <1>7 DEF SyncFails, SendFails
  <2>2. prevTx \in BOOLEAN /\ syncReq \in BOOLEAN /\ errors \subseteq {"sink", "database", "decode"}
    BY <1>0 DEF ClientTypes
  <2>3. ClientTypes'
    BY <1>0, <2>1, <2>2, EndTypes
  <2>4. FlightTypes' /\ ServerTypes'
    BY <1>0, <1>7 DEF SyncFails, SendFails, FlightTypes, ServerTypes, serverVars
  <2> QED
    BY <2>3, <2>4 DEF TypeOK, ClientTypes, FlightTypes, ServerTypes
<1>8. [of |-> cmd.n, batch |-> cmd.batch] \in [of : Nat, batch : Seq(Operations)]
  BY <1>0, BatchIsSeq DEF ClientTypes
<1>9. Append(request, [of |-> cmd.n, batch |-> cmd.batch]) \in Seq([of : Nat, batch : Seq(Operations)])
  BY <1>0, <1>8, AppendProperties DEF FlightTypes
<1>10. CASE Send
  BY <1>9, <1>10 DEF Send, TypeOK, serverVars
<1>11. CASE SendTimesOut
  <2>1. ClientTypes'
    BY <1>0, <1>11, EndTypes DEF SendTimesOut, ClientTypes
  <2>2. FlightTypes'
    <3>1. request' \in Seq([of : Nat, batch : Seq(Operations)])
      BY <1>0, <1>9, <1>11 DEF SendTimesOut, FlightTypes
    <3>2. cancels' \in Nat
      BY <1>0, <1>11 DEF SendTimesOut, SendCancel, FlightTypes
    <3> QED
      BY <1>0, <1>11, <3>1, <3>2 DEF SendTimesOut, FlightTypes
  <2>3. ServerTypes'
    BY <1>0, <1>11 DEF SendTimesOut, ServerTypes
  <2> QED
    BY <2>1, <2>2, <2>3 DEF TypeOK, ClientTypes, FlightTypes, ServerTypes
<1> QED
  BY <1>1, <1>2, <1>3, <1>4, <1>5, <1>6, <1>7, <1>10, <1>11 DEF Syncs

\* Every read of a response, and every way it fails, keeps the types.
LEMMA ReadTypes ==
  ASSUME LegacyAssumption, TypeOK, pc = "body" => wire # <<>>,
         Reads \/ TypeTimesOut \/ BodyTimesOut \/ ReadFails
  PROVE  TypeOK'
<1>0. ClientTypes /\ FlightTypes /\ ServerTypes
  BY TypeParts
<1>1. CASE ReadType
  BY <1>1 DEF ReadType, TypeOK, serverVars
<1>2. ASSUME pc = "body" PROVE Tail(wire) \in Seq(Message)
  BY <1>0, <1>2, TailTypes
<1>3. CASE ReadRow \/ ReadOddRow \/ ReadError \/ ReadCreate \/ ReadData
  <2>1. pc = "body" /\ wire' = Tail(wire) /\ pc' = "type"
        /\ UNCHANGED <<link, cmd, inTx, prevTx, source, guard, request, server, serverTx>>
    BY <1>3 DEF ReadRow, ReadOddRow, ReadError, ReadCreate, ReadData, Reading, serverVars
  <2>2. errors' \subseteq {"sink", "database", "decode"}
    BY <1>0, <1>3 DEF ReadRow, ReadOddRow, ReadError, ReadCreate, ReadData, ClientTypes
  <2>3. syncReq' \in BOOLEAN /\ export' \in BOOLEAN
    BY <1>0, <1>3 DEF ReadRow, ReadOddRow, ReadError, ReadCreate, ReadData, ClientTypes
  <2>4. reply' \in {"none", "yes", "no"} /\ cancels' \in Nat
    BY <1>0, <1>3 DEF ReadRow, ReadOddRow, ReadError, ReadCreate, ReadData, SendCancel, FlightTypes
  <2>5. ClientTypes'
    BY <1>0, <2>1, <2>2, <2>3 DEF ClientTypes
  <2>6. FlightTypes' /\ ServerTypes'
    BY <1>0, <1>2, <2>1, <2>4 DEF FlightTypes, ServerTypes
  <2> QED
    BY <2>5, <2>6 DEF TypeOK, ClientTypes, FlightTypes, ServerTypes
<1>4. CASE ReadLoad
  <2>1. ClientTypes'
    BY <1>0, <1>4 DEF ReadLoad, ClientTypes
  <2>2. FlightTypes' /\ ServerTypes'
    BY <1>0, <1>2, <1>4 DEF ReadLoad, AnswerLoad, FlightTypes, ServerTypes, serverVars
  <2> QED
    BY <2>1, <2>2 DEF TypeOK, ClientTypes, FlightTypes, ServerTypes
<1>5. /\ TxOnError(cmd.batch, prevTx) \in BOOLEAN /\ inTx \in BOOLEAN /\ syncReq \in BOOLEAN
      /\ errors \subseteq {"sink", "database", "decode"}
  BY <1>0, FlagTypes DEF ClientTypes
<1>6. CASE ReadReady
  <2>1. End(errors = {}, IF errors = {} THEN inTx ELSE TxOnError(cmd.batch, prevTx), "up", FALSE)
        /\ errors' = errors
    BY <1>6 DEF ReadReady
  <2>2. (IF errors = {} THEN inTx ELSE TxOnError(cmd.batch, prevTx)) \in BOOLEAN /\ (errors = {}) \in BOOLEAN
    BY <1>5
  <2>3. ClientTypes'
    BY <1>0, <1>5, <2>1, <2>2, EndTypes
  <2>4. FlightTypes' /\ ServerTypes'
    BY <1>0, <1>2, <1>6 DEF ReadReady, FlightTypes, ServerTypes, serverVars
  <2> QED
    BY <2>3, <2>4 DEF TypeOK, ClientTypes, FlightTypes, ServerTypes
<1>7. CASE TypeTimesOut \/ BodyTimesOut \/ ReadFails
  <2>1. /\ \E after \in {"up", "closed", "poisoned"}, sync \in {TRUE, syncReq} :
             End(FALSE, TxOnError(cmd.batch, prevTx), after, sync)
        /\ errors' = errors
    BY <1>7 DEF TypeTimesOut, BodyTimesOut, ReadFails
  <2>2. ClientTypes'
    BY <1>0, <1>5, <2>1, EndTypes
  <2>3. FlightTypes' /\ ServerTypes'
    <3>1. cancels' \in Nat
      <4>1. cancels' \in {cancels, cancels + 1}
        BY <1>7 DEF TypeTimesOut, BodyTimesOut, ReadFails, SendCancel
      <4> QED
        BY <1>0, <4>1 DEF FlightTypes
    <3>2. UNCHANGED <<wire, request, reply, server, serverTx>>
      BY <1>7 DEF TypeTimesOut, BodyTimesOut, ReadFails, serverVars
    <3> QED
      BY <1>0, <3>1, <3>2 DEF FlightTypes, ServerTypes
  <2> QED
    BY <2>2, <2>3 DEF TypeOK, ClientTypes, FlightTypes, ServerTypes
<1> QED
  BY <1>1, <1>3, <1>4, <1>6, <1>7 DEF Reads

\* Every step of the server keeps the types.
LEMMA ServerStepTypes ==
  ASSUME LegacyAssumption, TypeOK, Serves \/ Fail \/ CancelIdle
  PROVE  TypeOK'
<1>0. ClientTypes /\ FlightTypes /\ ServerTypes
  BY TypeParts
<1>1. ASSUME UNCHANGED clientVars PROVE ClientTypes'
  BY <1>0, <1>1 DEF ClientTypes, clientVars
<1>2. CASE Receive
  <2>1. /\ Head(request) \in [of : Nat, batch : Seq(Operations)]
        /\ Tail(request) \in Seq([of : Nat, batch : Seq(Operations)])
    BY <1>0, <1>2, HeadTailProperties DEF Receive, FlightTypes
  <2>2. FlightTypes' /\ ServerTypes'
    BY <1>0, <1>2, <2>1 DEF Receive, FlightTypes, ServerTypes
  <2> QED
    BY <1>1, <1>2, <2>2 DEF Receive, TypeOK, ClientTypes, FlightTypes, ServerTypes
<1>3. CASE Run
  <2>1. Tail(server.todo) \in Seq(Operations)
    BY <1>0, <1>3, HeadTailProperties DEF Run, ServerTypes
  <2>2. ServerTypes'
    <3>1. serverTx' \in BOOLEAN
      BY <1>0, <1>3, FlagTypes DEF Run, ServerTypes
    <3>2. PICK a \in {"asks", server.at} : server' = [server EXCEPT !.todo = Tail(server.todo), !.at = a]
      BY <1>3 DEF Run
    <3>3. a \in {"idle", "run", "asks", "half"}
      BY <1>0 DEF ServerTypes
    <3> QED
      BY <1>0, <2>1, <3>1, <3>2, <3>3 DEF ServerTypes
  <2>3. wire' \in Seq(Message)
    <3>1. wire' = wire \/ \E kind \in Kinds : Says(kind)
      BY <1>3 DEF Run, Kinds
    <3> QED
      BY <1>0, <3>1, SaysTypes DEF FlightTypes
  <2>4. FlightTypes'
    BY <1>0, <1>3, <2>3 DEF Run, FlightTypes
  <2> QED
    BY <1>1, <1>3, <2>2, <2>4 DEF Run, TypeOK, ClientTypes, FlightTypes, ServerTypes
<1>4. CASE Answered \/ Fail \/ Ready
  <2>1. /\ \E a \in {"run", "idle"}, t \in {<<>>, server.todo} : server' = [server EXCEPT !.at = a, !.todo = t]
        /\ serverTx' = serverTx
    <3>1. \A a : [server EXCEPT !.at = a, !.todo = server.todo] = [server EXCEPT !.at = a]
      BY <1>0 DEF ServerTypes
    <3> QED
      BY <1>4, <3>1 DEF Answered, Fail, Ready
  <2>2. ServerTypes'
    <3>1. PICK a \in {"run", "idle"}, t \in {<<>>, server.todo} : server' = [server EXCEPT !.at = a, !.todo = t]
      BY <2>1
    <3>2. t \in Seq(Operations)
      BY <1>0, EmptySeq DEF ServerTypes
    <3> QED
      BY <1>0, <2>1, <3>1, <3>2 DEF ServerTypes
  <2>3. wire' \in Seq(Message)
    <3>1. wire' = wire \/ \E kind \in Kinds : Says(kind)
      BY <1>4 DEF Answered, Fail, Ready, Kinds
    <3> QED
      BY <1>0, <3>1, SaysTypes DEF FlightTypes
  <2>4. FlightTypes'
    BY <1>0, <1>4, <2>3 DEF Answered, Fail, Ready, FlightTypes
  <2> QED
    BY <1>1, <1>4, <2>2, <2>4 DEF Answered, Fail, Ready, TypeOK, ClientTypes, FlightTypes, ServerTypes
<1>5. CASE CancelIdle
  BY <1>5 DEF CancelIdle, TypeOK, clientVars, serverVars
<1> QED
  BY <1>2, <1>3, <1>4, <1>5 DEF Serves

-----------------------------------------------------------------------------
(* Alignment *)

\* Nothing is in flight and the server waits for a packet, or for the rest of
\* one.
Quiet == wire = <<>> /\ request = <<>> /\ server.at = "idle"
Torn == wire = <<>> /\ request = <<>> /\ server.at = "half"

\* One response is outstanding, that of command g: its packet is on the way,
\* the server is at it, or all of it has been sent and ReadyForQuery is last.
Asked(g) == /\ wire = <<>> /\ server.at = "idle"
            /\ Len(request) = 1 /\ request[1].of = g
Answering(g) == /\ request = <<>> /\ server.at \in {"run", "asks"} /\ server.of = g
                /\ \A i \in 1..Len(wire) : wire[i].of = g /\ wire[i].is # "ready"
Complete(g) == /\ request = <<>> /\ server.at = "idle" /\ wire # <<>>
               /\ \A i \in 1..Len(wire) : wire[i].of = g /\ (wire[i].is = "ready" <=> i = Len(wire))
Owed(g) == Asked(g) \/ Answering(g) \/ Complete(g)

\* A command runs only on a session that is up, and what may be in flight at
\* each point of it
InFlight ==
  /\ pc # "idle" => link = "up"
  /\ link = "up" =>
       /\ pc \in {"type", "body"} => Owed(cmd.n)
       /\ pc = "body" => wire # <<>>
       /\ pc = "send" => Quiet /\ ~syncReq
       /\ pc \in {"idle", "sync"} => Quiet \/ (syncReq /\ (Torn \/ \E g \in Nat : Owed(g)))

AlignedInv == TypeOK /\ InFlight /\ (pc = "idle" => ~source)

\* A sequence of length 0 is empty, and only that.
LEMMA EmptyIsZero ==
  ASSUME NEW S, NEW q \in Seq(S)
  PROVE  q = <<>> <=> Len(q) = 0
  BY EmptySeq

\* The client reads a message that is not ReadyForQuery: the rest is still owed.
LEMMA ReadKeepsOwed ==
  ASSUME TypeOK, NEW g, Owed(g), wire # <<>>, Head(wire).is # "ready",
         wire' = Tail(wire), UNCHANGED <<request, server>>
  PROVE  Owed(g)'
<1>1. /\ Len(wire) \in Nat \ {0}
      /\ Head(wire) = wire[1]
      /\ Tail(wire) \in Seq(Message) /\ Len(Tail(wire)) = Len(wire) - 1
      /\ \A i \in 1..Len(Tail(wire)) : Tail(wire)[i] = wire[i + 1]
  BY HeadTailProperties, EmptySeq DEF TypeOK
<1>2. \A i \in 1..Len(wire') : i + 1 \in 1..Len(wire) /\ wire'[i] = wire[i + 1]
  BY <1>1
<1>3. ~Asked(g)
  BY DEF Asked
<1>4. CASE Answering(g)
  BY <1>2, <1>4 DEF Answering, Owed
<1>5. CASE Complete(g)
  <2>1. Len(wire) # 1
    <3>1. 1 \in 1..Len(wire) /\ wire[1].is # "ready"
      BY <1>1
    <3> QED
      BY <1>5, <3>1 DEF Complete
  <2>2. wire' # <<>>
    <3>1. Len(Tail(wire)) # 0
      BY <1>1, <2>1
    <3> QED
      BY <1>1, <3>1, EmptyIsZero
  <2>3. \A i \in 1..Len(wire') : i = Len(wire') <=> i + 1 = Len(wire)
    BY <1>1
  <2> QED
    BY <1>2, <1>5, <2>2, <2>3 DEF Complete, Owed
<1> QED
  BY <1>3, <1>4, <1>5 DEF Owed

\* The client reads ReadyForQuery: it was the last message and nothing is owed.
LEMMA ReadyIsLast ==
  ASSUME TypeOK, NEW g, Owed(g), wire # <<>>, Head(wire).is = "ready",
         wire' = Tail(wire), UNCHANGED <<request, server>>
  PROVE  Quiet'
<1>1. /\ Len(wire) \in Nat \ {0} /\ Head(wire) = wire[1] /\ 1 \in 1..Len(wire)
      /\ Tail(wire) \in Seq(Message) /\ Len(Tail(wire)) = Len(wire) - 1
  BY HeadTailProperties, EmptySeq DEF TypeOK
<1>2. Complete(g)
  BY <1>1 DEF Owed, Asked, Answering
<1>3. Len(wire) = 1
  BY <1>1, <1>2 DEF Complete
<1>4. Tail(wire) = <<>>
  BY <1>1, <1>3, EmptySeq
<1> QED
  BY <1>2, <1>4 DEF Complete, Quiet

\* A drain that is lost and not ended by what it misreads: what it has not
\* passed over is still owed, and if that was all, nothing is.
LEMMA LostKeepsOwed ==
  ASSUME TypeOK, NEW g, Owed(g), wire # <<>>,
         \E k \in 1 .. Len(wire) + 1 : wire' = SubSeq(wire, k, Len(wire)),
         UNCHANGED <<request, server>>
  PROVE  Owed(g)' \/ Quiet'
<1>1. PICK k \in 1 .. Len(wire) + 1 : wire' = SubSeq(wire, k, Len(wire))
  OBVIOUS
<1>2. /\ wire' \in Seq(Message) /\ Len(wire) \in Nat /\ Len(wire') = Len(wire) - k + 1
      /\ \A i \in 1 .. (Len(wire) - k + 1) : wire'[i] = wire[k + i - 1]
  BY <1>1, LostTypes, TypeParts
<1>3. \A i \in 1 .. Len(wire') : k + i - 1 \in 1 .. Len(wire) /\ wire'[i] = wire[k + i - 1]
  BY <1>2
<1>4. ~Asked(g)
  BY DEF Asked
<1>5. CASE Answering(g)
  BY <1>3, <1>5 DEF Answering, Owed
<1>6. CASE Complete(g) /\ wire' = <<>>
  BY <1>6 DEF Complete, Quiet
<1>7. CASE Complete(g) /\ wire' # <<>>
  <2>1. \A i \in 1 .. Len(wire') : i = Len(wire') <=> k + i - 1 = Len(wire)
    BY <1>2
  <2> QED
    BY <1>3, <1>7, <2>1 DEF Complete, Owed
<1> QED
  BY <1>4, <1>5, <1>6, <1>7 DEF Owed

\* The server sends a message of the command it runs.
LEMMA SaysKeeps ==
  ASSUME TypeOK, NEW g, Answering(g), NEW kind \in Kinds, Says(kind)
  PROVE  /\ wire' # <<>> /\ Len(wire') = Len(wire) + 1 /\ Len(wire) \in Nat
         /\ \A i \in 1..Len(wire) : wire'[i].of = g /\ wire'[i].is # "ready"
         /\ wire'[Len(wire')].of = g /\ wire'[Len(wire')].is = kind
<1>1. [of |-> server.of, is |-> kind] \in Message
  BY DEF TypeOK, Message
<1>2. /\ wire' # <<>> /\ Len(wire') = Len(wire) + 1
      /\ \A i \in 1..Len(wire) : wire'[i] = wire[i]
      /\ wire'[Len(wire) + 1] = [of |-> server.of, is |-> kind]
  BY <1>1, AppendProperties DEF Says, TypeOK
<1>3. Len(wire) \in Nat
  BY LenProperties DEF TypeOK
<1> QED
  BY <1>2, <1>3 DEF Answering

\* Whatever the server does, it goes on owing the same response.
LEMMA ServerKeepsOwed ==
  ASSUME TypeOK, NEW g, Owed(g), Serves \/ Fail \/ CancelIdle
  PROVE  Owed(g)' /\ (wire # <<>> => wire' # <<>>)
<1>1. CASE Receive
  <2>1. Asked(g)
    BY <1>1 DEF Receive, Owed, Answering, Complete
  <2>2. /\ Head(request) = request[1]
        /\ Tail(request) \in Seq([of : Nat, batch : Seq(Operations)])
        /\ Len(Tail(request)) = Len(request) - 1
    BY <1>1, HeadTailProperties DEF Receive, TypeOK
  <2>3. Tail(request) = <<>>
    <3>1. Len(Tail(request)) = 0
      BY <2>1, <2>2 DEF Asked
    <3> QED
      BY <2>2, <3>1, EmptyIsZero
  <2>4. server'.at = "run" /\ server'.of = g /\ request' = <<>> /\ wire' = <<>>
    BY <1>1, <2>1, <2>2, <2>3 DEF Receive, Asked
  <2>5. Len(wire') = 0
    BY <2>4, EmptySeq
  <2>6. Answering(g)'
    BY <2>4, <2>5 DEF Answering
  <2> QED
    BY <2>1, <2>6 DEF Owed, Asked
<1>2. ASSUME Run \/ Answered \/ Fail
      PROVE  Owed(g)' /\ (wire # <<>> => wire' # <<>>)
  <2>1. server.at \in {"run", "asks"} /\ UNCHANGED request
    BY <1>2 DEF Run, Answered, Fail
  <2>2. Answering(g)
    BY <2>1 DEF Owed, Asked, Complete
  <2>3. server'.at \in {"run", "asks"} /\ server'.of = server.of
    BY <1>2, <2>1 DEF Run, Answered, Fail, TypeOK
  <2>4. wire' = wire \/ \E kind \in Kinds \ {"ready"} : Says(kind)
    BY <1>2 DEF Run, Answered, Fail, Kinds
  <2>5. CASE wire' = wire
    BY <2>1, <2>2, <2>3, <2>5 DEF Answering, Owed
  <2>6. ASSUME NEW kind \in Kinds \ {"ready"}, Says(kind) PROVE Answering(g)' /\ wire' # <<>>
    <3>1. /\ wire' # <<>> /\ Len(wire') = Len(wire) + 1 /\ Len(wire) \in Nat
          /\ \A i \in 1..Len(wire) : wire'[i].of = g /\ wire'[i].is # "ready"
          /\ wire'[Len(wire')].of = g /\ wire'[Len(wire')].is = kind
      BY <2>2, <2>6, SaysKeeps
    <3>2. \A i \in 1..Len(wire') : wire'[i].of = g /\ wire'[i].is # "ready"
      BY <3>1
    <3> QED
      BY <2>1, <2>2, <2>3, <3>1, <3>2 DEF Answering
  <2> QED
    BY <2>4, <2>5, <2>6 DEF Owed
<1>3. CASE Ready
  <2>1. server.at = "run" /\ UNCHANGED request /\ Says("ready") /\ server'.at = "idle"
    BY <1>3 DEF Ready, TypeOK
  <2>2. Answering(g)
    BY <2>1 DEF Owed, Asked, Complete
  <2>3. /\ wire' # <<>> /\ Len(wire') = Len(wire) + 1 /\ Len(wire) \in Nat
        /\ \A i \in 1..Len(wire) : wire'[i].of = g /\ wire'[i].is # "ready"
        /\ wire'[Len(wire')].of = g /\ wire'[Len(wire')].is = "ready"
    BY <2>1, <2>2, SaysKeeps DEF Kinds
  <2>4. \A i \in 1..Len(wire') : wire'[i].of = g /\ (wire'[i].is = "ready" <=> i = Len(wire'))
    BY <2>3
  <2> QED
    BY <2>1, <2>2, <2>3, <2>4 DEF Answering, Complete, Owed
<1>4. CASE CancelIdle
  BY <1>4 DEF CancelIdle, serverVars, Owed, Asked, Answering, Complete
<1> QED
  BY <1>1, <1>2, <1>3, <1>4 DEF Serves

\* A command that ends keeps what is in flight; that is allowed on a session
\* that stays up if nothing is owed or the next command knows that it may be.
LEMMA EndKeepsInFlight ==
  ASSUME NEW ok, NEW tx, NEW after, NEW sync, End(ok, tx, after, sync),
         after = "up" => Quiet' \/ (sync = TRUE /\ (Torn' \/ \E g \in Nat : Owed(g)'))
  PROVE  InFlight' /\ (pc' = "idle" => ~source')
<1>1. pc' = "idle" /\ syncReq' = sync /\ source' = FALSE /\ (link' = "up" => after = "up")
  BY DEF End
<1> QED
  BY <1>1 DEF InFlight

\* Where nothing but ReadyForQuery looks like it, every step keeps the session
\* aligned.
LEMMA StepAligned ==
  ASSUME LegacyAssumption, ~BinaryRows, ~FalseReady, AlignedInv, [Next]_vars
  PROVE  AlignedInv'
<1>0. TypeOK /\ InFlight /\ (pc = "idle" => ~source)
  BY DEF AlignedInv
<1>1. ASSUME UNCHANGED <<wire, request, server>>
      PROVE  (Quiet' <=> Quiet) /\ (Torn' <=> Torn) /\ \A g : Owed(g)' <=> Owed(g)
  BY <1>1 DEF Quiet, Torn, Owed, Asked, Answering, Complete
<1>3. CASE UNCHANGED vars
  <2>1. UNCHANGED <<link, pc, cmd, syncReq, source, wire, request, server>>
    BY <1>3 DEF vars, clientVars, serverVars
  <2>2. TypeOK'
    BY <1>0, <1>3 DEF TypeOK, vars, clientVars, serverVars
  <2> QED
    BY <1>0, <1>1, <2>1, <2>2 DEF InFlight, AlignedInv
<1>4. CASE Execute \/ GuardBegin \/ GuardEnd \/ GuardDrop
  <2>1. TypeOK'
    BY <1>0, <1>4, ClientStepTypes
  <2>2. pc = "idle" /\ link = "up" /\ pc' = "sync" /\ UNCHANGED <<link, syncReq, wire, request, server>>
    BY <1>4 DEF Execute, GuardBegin, GuardEnd, GuardDrop, Start, serverVars
  <2> QED
    BY <1>0, <1>1, <2>1, <2>2 DEF InFlight, AlignedInv
<1>5. CASE GuardGone \/ Close
  <2>1. TypeOK'
    BY <1>0, <1>5, ClientStepTypes
  <2>2. link' # "up" /\ pc' = "idle" /\ (source' = source \/ source' = FALSE) /\ pc = "idle"
    BY <1>5 DEF GuardGone, Close
  <2>3. ~source'
    BY <1>0, <2>2
  <2> QED
    BY <2>1, <2>2, <2>3 DEF InFlight, AlignedInv
<1>6. CASE SyncNothing
  <2>1. TypeOK'
    BY <1>0, <1>6, ClientStepTypes DEF Syncs
  <2>2. /\ pc = "sync" /\ wire = <<>> /\ ~syncReq /\ pc' = "send"
        /\ UNCHANGED <<link, syncReq, wire, request, server>>
    BY <1>6 DEF SyncNothing, Expecting, serverVars
  <2> QED
    BY <1>0, <1>1, <2>1, <2>2 DEF InFlight, AlignedInv
<1>7. CASE SyncSkip
  <2>1. TypeOK'
    BY <1>0, <1>7, ClientStepTypes DEF Syncs
  <2>2. pc = "sync" /\ wire # <<>> /\ UNCHANGED <<link, request, server>>
    BY <1>7 DEF SyncSkip, serverVars
  <2>0. \/ Head(wire).is = "ready" /\ wire' = Tail(wire) /\ pc' = "send" /\ syncReq' = FALSE
        \/ Head(wire).is # "ready" /\ wire' = Tail(wire) /\ UNCHANGED <<pc, syncReq>>
        \/ /\ \E k \in 1 .. Len(wire) + 1 : wire' = SubSeq(wire, k, Len(wire))
           /\ UNCHANGED <<pc, syncReq>>
    BY <1>7 DEF SyncSkip, LoseFraming, Misframed
  <2>3. link = "up"
    BY <1>0, <2>2 DEF InFlight
  <2>4. PICK g \in Nat : Owed(g)
    BY <1>0, <2>2, <2>3 DEF InFlight, Quiet, Torn
  <2>5. syncReq
    BY <1>0, <2>2, <2>3 DEF InFlight, Quiet
  <2>6. CASE Head(wire).is = "ready" /\ wire' = Tail(wire) /\ pc' = "send" /\ syncReq' = FALSE
    <3>1. Quiet'
      BY <1>0, <2>2, <2>4, <2>6, ReadyIsLast
    <3> QED
      BY <2>1, <2>2, <2>3, <2>6, <3>1 DEF InFlight, AlignedInv
  <2>7. CASE Head(wire).is # "ready" /\ wire' = Tail(wire) /\ UNCHANGED <<pc, syncReq>>
    <3>1. Owed(g)'
      BY <1>0, <2>2, <2>4, <2>7, ReadKeepsOwed
    <3> QED
      BY <2>1, <2>2, <2>3, <2>5, <2>7, <3>1 DEF InFlight, AlignedInv
  <2>8. CASE /\ \E k \in 1 .. Len(wire) + 1 : wire' = SubSeq(wire, k, Len(wire))
             /\ UNCHANGED <<pc, syncReq>>
    <3>1. Owed(g)' \/ Quiet'
      BY <1>0, <2>2, <2>4, <2>8, LostKeepsOwed
    <3> QED
      BY <2>1, <2>2, <2>3, <2>5, <2>8, <3>1 DEF InFlight, AlignedInv
  <2> QED BY <2>0, <2>6, <2>7, <2>8
<1>8. CASE SyncFails \/ SendFails
  <2>1. TypeOK'
    BY <1>0, <1>8, ClientStepTypes DEF Syncs
  <2>2. \E after \in {"closed", "poisoned"} : End(FALSE, prevTx, after, syncReq)
    BY <1>8 DEF SyncFails, SendFails
  <2> QED
    BY <2>1, <2>2, EndKeepsInFlight DEF AlignedInv
<1>9. CASE Send
  <2>1. TypeOK'
    BY <1>0, <1>9, ClientStepTypes
  <2>2. /\ pc = "send" /\ pc' = "type"
        /\ request' = Append(request, [of |-> cmd.n, batch |-> cmd.batch])
        /\ UNCHANGED <<link, cmd, wire, server>>
    BY <1>9 DEF Send, serverVars
  <2>3. link = "up" /\ Quiet
    BY <1>0, <2>2 DEF InFlight
  <2>4. request' = <<[of |-> cmd.n, batch |-> cmd.batch]>>
    BY <2>2, <2>3 DEF Quiet
  <2>5. Asked(cmd.n)'
    BY <2>2, <2>3, <2>4 DEF Quiet, Asked
  <2> QED
    BY <2>1, <2>2, <2>3, <2>5 DEF InFlight, Owed, AlignedInv
<1>10. CASE SendTimesOut
  <2>1. TypeOK'
    BY <1>0, <1>10, ClientStepTypes
  <2>2. pc = "send" /\ End(FALSE, prevTx, "up", TRUE) /\ wire' = wire
    BY <1>10 DEF SendTimesOut
  <2>3. Quiet
    BY <1>0, <2>2 DEF InFlight
  <2>4. Quiet' \/ Torn' \/ Asked(cmd.n)'
    <3>1. CASE UNCHANGED <<server, request>>
      BY <2>2, <2>3, <3>1 DEF Quiet
    <3>2. CASE server' = [server EXCEPT !.at = "half"] /\ UNCHANGED request
      BY <1>0, <2>2, <2>3, <3>2 DEF Quiet, Torn, TypeOK
    <3>3. CASE request' = Append(request, [of |-> cmd.n, batch |-> cmd.batch]) /\ UNCHANGED server
      <4>1. request' = <<[of |-> cmd.n, batch |-> cmd.batch]>>
        BY <2>3, <3>3 DEF Quiet
      <4>2. cmd' = cmd
        BY <2>2 DEF End
      <4> QED
        BY <2>2, <2>3, <3>3, <4>1, <4>2 DEF Quiet, Asked
    <3> QED
      BY <1>10, <3>1, <3>2, <3>3 DEF SendTimesOut
  <2>5. cmd.n \in Nat /\ cmd' = cmd
    BY <1>0, <2>2 DEF TypeOK, End
  <2>6. Quiet' \/ (TRUE = TRUE /\ (Torn' \/ \E g \in Nat : Owed(g)'))
    BY <2>4, <2>5 DEF Owed
  <2> QED
    BY <2>1, <2>2, <2>6, EndKeepsInFlight DEF AlignedInv
<1>11. CASE ReadType
  <2>1. /\ pc = "type" /\ wire # <<>> /\ pc' = "body"
        /\ UNCHANGED <<link, cmd, wire, request, server>>
    BY <1>11 DEF ReadType, serverVars
  <2>2. TypeOK'
    BY <1>0, <1>11, <2>1, ReadTypes DEF Reads
  <2> QED
    BY <1>0, <1>1, <2>1, <2>2 DEF InFlight, AlignedInv
<1>12. CASE ReadRow \/ ReadOddRow \/ ReadError \/ ReadCreate \/ ReadData \/ ReadLoad
  <2>1. /\ pc = "body" /\ Head(wire).is # "ready" /\ wire' = Tail(wire) /\ pc' = "type"
        /\ UNCHANGED <<link, cmd, request, server>>
    BY <1>12 DEF ReadRow, ReadOddRow, ReadError, ReadCreate, ReadData, ReadLoad, Reading, serverVars
  <2>2. link = "up" /\ wire # <<>> /\ Owed(cmd.n)
    BY <1>0, <2>1 DEF InFlight
  <2>3. TypeOK'
    BY <1>0, <1>12, <2>2, ReadTypes DEF Reads
  <2>4. Owed(cmd.n)'
    BY <1>0, <2>1, <2>2, ReadKeepsOwed
  <2> QED
    BY <2>1, <2>2, <2>3, <2>4 DEF InFlight, AlignedInv
<1>13. CASE ReadReady
  <2>1. /\ pc = "body" /\ Head(wire).is = "ready" /\ wire' = Tail(wire)
        /\ UNCHANGED <<request, server>>
        /\ End(errors = {}, IF errors = {} THEN inTx ELSE TxOnError(cmd.batch, prevTx), "up", FALSE)
    BY <1>13 DEF ReadReady, serverVars
  <2>2. wire # <<>> /\ Owed(cmd.n)
    BY <1>0, <2>1 DEF InFlight
  <2>3. TypeOK'
    BY <1>0, <1>13, <2>2, ReadTypes DEF Reads
  <2>4. Quiet'
    BY <1>0, <2>1, <2>2, ReadyIsLast
  <2> QED
    BY <2>1, <2>3, <2>4, EndKeepsInFlight DEF AlignedInv
<1>14. CASE TypeTimesOut \/ BodyTimesOut \/ ReadFails
  <2>1. pc \in {"type", "body"} /\ UNCHANGED <<wire, request, server>>
    BY <1>14 DEF TypeTimesOut, BodyTimesOut, ReadFails, serverVars
  <2>2. Owed(cmd.n) /\ cmd.n \in Nat /\ (pc = "body" => wire # <<>>)
    BY <1>0, <2>1 DEF InFlight, TypeOK
  <2>3. TypeOK'
    BY <1>0, <1>14, <2>2, ReadTypes
  <2>4. \E g \in Nat : Owed(g)'
    BY <1>1, <2>1, <2>2 DEF Owed, Asked, Answering, Complete
  <2>5. \/ End(FALSE, TxOnError(cmd.batch, prevTx), "up", TRUE)
        \/ \E after \in {"closed", "poisoned"} : End(FALSE, TxOnError(cmd.batch, prevTx), after, syncReq)
    BY <1>14 DEF TypeTimesOut, BodyTimesOut, ReadFails
  <2> QED
    BY <2>3, <2>4, <2>5, EndKeepsInFlight DEF AlignedInv
<1>15. CASE Serves \/ Fail \/ CancelIdle
  <2>1. TypeOK'
    BY <1>0, <1>15, ServerStepTypes
  <2>2. UNCHANGED <<link, pc, cmd, syncReq, source>>
    BY <1>15 DEF Serves, Receive, Run, Answered, Ready, Fail, CancelIdle, clientVars
  <2>3. ASSUME NEW g, Owed(g) PROVE Owed(g)' /\ (wire # <<>> => wire' # <<>>)
    BY <1>0, <1>15, <2>3, ServerKeepsOwed
  <2>4. Quiet => Quiet'
    BY <1>15 DEF Quiet, Serves, Receive, Run, Answered, Ready, Fail, CancelIdle, serverVars
  <2>5. Torn => Torn'
    BY <1>15 DEF Torn, Serves, Receive, Run, Answered, Ready, Fail, CancelIdle, serverVars
  <2>6. InFlight'
    BY <1>0, <2>2, <2>3, <2>4, <2>5 DEF InFlight
  <2> QED
    BY <1>0, <2>1, <2>2, <2>6 DEF AlignedInv
<1> QED
  BY <1>3, <1>4, <1>5, <1>6, <1>7, <1>8, <1>9, <1>10, <1>11, <1>12, <1>13, <1>14, <1>15
     DEF Next, Syncs, Reads, TimesOut

\* A new session is aligned.
LEMMA InitAligned ==
  ASSUME Init PROVE AlignedInv
<1>1. ClientTypes
  BY DEF Init, ClientTypes
<1>2. FlightTypes /\ ServerTypes
  BY EmptySeq DEF Init, FlightTypes, ServerTypes
<1>3. TypeOK
  BY <1>1, <1>2, TypeParts
<1>4. InFlight /\ ~source
  BY DEF Init, InFlight, Quiet
<1> QED
  BY <1>3, <1>4 DEF AlignedInv

\* What the inductive invariant says of an idle and of a reading session.
LEMMA AlignedInvSuffices ==
  ASSUME AlignedInv PROVE Aligned
<1>1. ASSUME link = "up", pc = "idle", ~syncReq PROVE wire = <<>> /\ request = <<>> /\ server.at = "idle"
  BY <1>1 DEF AlignedInv, InFlight, Quiet
<1>2. ASSUME link = "up", pc \in {"type", "body"} PROVE \A i \in DOMAIN wire : wire[i].of = cmd.n
  <2>1. Owed(cmd.n)
    BY <1>2 DEF AlignedInv, InFlight
  <2>2. DOMAIN wire = 1..Len(wire)
    BY LenProperties DEF AlignedInv, TypeOK
  <2>3. CASE Asked(cmd.n)
    BY <2>3 DEF Asked
  <2>4. CASE Answering(cmd.n) \/ Complete(cmd.n)
    BY <2>2, <2>4 DEF Answering, Complete
  <2> QED
    BY <2>1, <2>3, <2>4 DEF Owed
<1> QED
  BY <1>1, <1>2 DEF Aligned, AlignedInv

\* With text rows, and where no byte of a misread external frame looks like
\* ReadyForQuery, a session that can be used and owes nothing has an idle
\* server and an empty wire, and a command reads messages of its own response
\* only, however many commands ran before and wherever their deadlines,
\* cancels, faults and late flushes fell.
THEOREM LegacyAligned ==
  ASSUME ~BinaryRows, ~FalseReady PROVE Spec => []Aligned
<1>1. Init => AlignedInv
  BY InitAligned
<1>2. AlignedInv /\ [Next]_vars => AlignedInv'
  BY LegacyAssumption, StepAligned
<1>3. AlignedInv => Aligned
  BY AlignedInvSuffices
<1> QED
  BY <1>1, <1>2, <1>3, PTL DEF Spec

-----------------------------------------------------------------------------
(* What the SQL says of the transaction *)

\* The state of a batch of one statement.
LEMMA StateOfOne ==
  ASSUME NEW op
  PROVE  StateOf(<<op>>) = IF op = "begin" THEN "opened" ELSE IF op = "end" THEN "closed" ELSE "unchanged"
<1>1. DOMAIN <<op>> = {1} /\ <<op>>[1] = op
  OBVIOUS
<1>2. (\A i \in DOMAIN <<op>> : ~IsBoundary(<<op>>[i])) <=> op \notin {"begin", "end"}
  BY <1>1 DEF IsBoundary
<1>3. (\E i \in DOMAIN <<op>> : /\ <<op>>[i] = "begin"
                                /\ \A j \in DOMAIN <<op>> : j > i => ~IsBoundary(<<op>>[j])) <=> op = "begin"
  BY <1>1
<1> QED
  BY <1>2, <1>3 DEF StateOf

\* Running the first statement and then the rest is running the batch.
LEMMA TxStepwise ==
  ASSUME NEW batch \in Seq(Operations), batch # <<>>, NEW before \in BOOLEAN
  PROVE  TxAfter(Tail(batch), TxAfter(<<Head(batch)>>, before)) <=> TxAfter(batch, before)
<1> DEFINE rest == Tail(batch)
<1>1. /\ Len(batch) \in Nat \ {0} /\ DOMAIN batch = 1..Len(batch)
      /\ Head(batch) = batch[1]
      /\ rest \in Seq(Operations) /\ Len(rest) = Len(batch) - 1
      /\ \A i \in 1..Len(rest) : rest[i] = batch[i + 1]
  BY HeadTailProperties, EmptySeq, LenProperties
<1>2. DOMAIN rest = 1..(Len(batch) - 1)
  BY <1>1, LenProperties
<1> HIDE DEF rest
<1>3. /\ 1 \in DOMAIN batch
      /\ \A i \in DOMAIN rest : i \in Int /\ i + 1 \in DOMAIN batch /\ batch[i + 1] = rest[i]
      /\ \A i \in DOMAIN batch : i \in Int /\ (i = 1 \/ (i - 1 \in DOMAIN rest /\ rest[i - 1] = batch[i] /\ i > 1))
  BY <1>1, <1>2
<1>4. CASE StateOf(rest) = "unchanged"
  <2>1. \A i \in DOMAIN rest : ~IsBoundary(rest[i])
    BY <1>4 DEF StateOf
  <2>2. \A i \in DOMAIN batch : i # 1 => ~IsBoundary(batch[i])
    BY <1>3, <2>1
  <2>3. StateOf(batch) = StateOf(<<batch[1]>>)
    <3>1. CASE batch[1] = "begin"
      <4>1. \A j \in DOMAIN batch : j > 1 => ~IsBoundary(batch[j])
        BY <1>3, <2>2
      <4>2. StateOf(batch) = "opened"
        BY <1>3, <3>1, <4>1 DEF StateOf, IsBoundary
      <4> QED
        BY <3>1, <4>2, StateOfOne
    <3>2. CASE batch[1] = "end"
      <4>1. \A i \in DOMAIN batch : batch[i] # "begin"
        BY <2>2, <3>2 DEF IsBoundary
      <4>2. StateOf(batch) = "closed"
        BY <1>3, <3>2, <4>1 DEF StateOf, IsBoundary
      <4> QED
        BY <3>2, <4>2, StateOfOne
    <3>3. CASE batch[1] \notin {"begin", "end"}
      <4>1. \A i \in DOMAIN batch : ~IsBoundary(batch[i])
        BY <2>2, <3>3 DEF IsBoundary
      <4> QED
        BY <3>3, <4>1, StateOfOne DEF StateOf
    <3> QED BY <3>1, <3>2, <3>3
  <2> QED
    BY <1>1, <1>4, <2>3 DEF TxAfter, rest
<1>5. CASE StateOf(rest) = "opened"
  <2>1. PICK i \in DOMAIN rest : rest[i] = "begin" /\ \A j \in DOMAIN rest : j > i => ~IsBoundary(rest[j])
    BY <1>5 DEF StateOf
  <2>2. i + 1 \in DOMAIN batch /\ batch[i + 1] = "begin"
    BY <1>3, <2>1
  <2>3. \A j \in DOMAIN batch : j > i + 1 => ~IsBoundary(batch[j])
    <3> SUFFICES ASSUME NEW j \in DOMAIN batch, j > i + 1 PROVE ~IsBoundary(batch[j])
      OBVIOUS
    <3>1. i \in Int /\ i >= 1 /\ j \in Int
      BY <1>1, <1>2
    <3>2. j - 1 \in DOMAIN rest /\ rest[j - 1] = batch[j] /\ j - 1 > i
      BY <1>3, <3>1
    <3> QED
      BY <2>1, <3>2
  <2>4. StateOf(batch) = "opened"
    BY <2>2, <2>3 DEF StateOf, IsBoundary
  <2> QED
    BY <1>5, <2>4 DEF TxAfter, rest
<1>6. CASE StateOf(rest) = "closed"
  <2>1. PICK k \in DOMAIN rest : IsBoundary(rest[k])
    BY <1>6 DEF StateOf
  <2>2. ~\E i \in DOMAIN rest : rest[i] = "begin" /\ \A j \in DOMAIN rest : j > i => ~IsBoundary(rest[j])
    BY <1>6 DEF StateOf
  <2>3. k + 1 \in DOMAIN batch /\ IsBoundary(batch[k + 1]) /\ k + 1 > 1
    BY <1>1, <1>2, <1>3, <2>1
  <2>4. ASSUME NEW i \in DOMAIN batch, batch[i] = "begin",
               \A j \in DOMAIN batch : j > i => ~IsBoundary(batch[j])
        PROVE  FALSE
    <3>1. i # 1
      BY <2>3, <2>4
    <3>2. i - 1 \in DOMAIN rest /\ rest[i - 1] = "begin"
      BY <1>3, <2>4, <3>1
    <3>3. \A j \in DOMAIN rest : j > i - 1 => ~IsBoundary(rest[j])
      <4> SUFFICES ASSUME NEW j \in DOMAIN rest, j > i - 1 PROVE ~IsBoundary(rest[j])
        OBVIOUS
      <4>1. j \in Int /\ i \in Int /\ j + 1 \in DOMAIN batch /\ batch[j + 1] = rest[j]
        BY <1>3
      <4> QED
        BY <2>4, <4>1
    <3> QED
      BY <2>2, <3>2, <3>3
  <2>5. StateOf(batch) = "closed"
    BY <2>3, <2>4 DEF StateOf
  <2> QED
    BY <1>6, <2>5 DEF TxAfter, rest
<1> QED
  BY <1>4, <1>5, <1>6 DEF StateOf

\* An empty batch changes nothing, a single END closes.
LEMMA TxSimple ==
  ASSUME NEW before \in BOOLEAN
  PROVE  /\ TxAfter(<<>>, before) = before
         /\ TxAfter(<<"end">>, before) = FALSE
         /\ ~HadStart(<<>>)
<1>1. StateOf(<<>>) = "unchanged"
  BY DEF StateOf
<1>2. StateOf(<<"end">>) = "closed"
  BY StateOfOne
<1> QED
  BY <1>1, <1>2 DEF TxAfter, HadStart

\* A transaction open after a batch was open before it or is of its own making,
\* and after an error the flag allows for both.
LEMMA TxBounds ==
  ASSUME NEW batch, NEW before \in BOOLEAN
  PROVE  /\ TxAfter(batch, before) => before \/ HadStart(batch)
         /\ before \/ HadStart(batch) => TxOnError(batch, before)
         /\ \A less \in BOOLEAN : (less => before) => (TxAfter(batch, less) => TxAfter(batch, before))
<1>1. StateOf(batch) \in {"unchanged", "opened", "closed"}
  BY DEF StateOf
<1>2. StateOf(batch) = "opened" => HadStart(batch)
  BY DEF StateOf, HadStart
<1>3. StateOf(batch) = "unchanged" => ~HadStart(batch)
  BY DEF StateOf, HadStart, IsBoundary
<1> QED
  BY <1>1, <1>2, <1>3 DEF TxAfter, TxOnError

\* A statement opens a transaction only if it is a start.
LEMMA TxOne ==
  ASSUME NEW op, NEW before \in BOOLEAN, TxAfter(<<op>>, before)
  PROVE  before \/ op = "begin"
  BY StateOfOne DEF TxAfter

-----------------------------------------------------------------------------
(* The transaction flag *)

\* A transaction is open on the server, or a start is still to be run there
MayOpen ==
  \/ serverTx
  \/ HadStart(server.todo)
  \/ \E i \in DOMAIN request : HadStart(request[i].batch)

\* What is left of the command in hand, and that nothing of it has failed
Rest == IF request # <<>> THEN request[1].batch ELSE server.todo
Unfailed == errors = {} /\ \A i \in DOMAIN wire : wire[i].is # "error"

\* What the flag and its saved value are worth at each point of a command
FlagAt ==
  link = "up" =>
    /\ pc = "idle" => (MayOpen => inTx)
    /\ pc \in {"sync", "send"} => (MayOpen => prevTx)
    /\ pc \in {"type", "body"} => /\ MayOpen => prevTx \/ HadStart(cmd.batch)
                                  /\ Unfailed => (TxAfter(Rest, serverTx) => inTx)
    /\ pc # "idle" => (inTx <=> TxAfter(cmd.batch, prevTx))

\* A server that waits for a packet has nothing left to run
Waits == server.at \in {"idle", "half"} => server.todo = <<>>

FlagInv == Waits /\ FlagAt

\* A command that ends on a session that stays up leaves a flag that covers
\* what is open or may still be opened.
LEMMA EndKeepsFlag ==
  ASSUME NEW ok, NEW tx, NEW after, NEW sync, End(ok, tx, after, sync),
         after = "up" => (MayOpen' => tx)
  PROVE  FlagAt'
<1>1. pc' = "idle" /\ (link' = "up" => after = "up" /\ inTx' = tx)
  BY DEF End
<1> QED
  BY <1>1 DEF FlagAt

\* The server opens nothing that was not pending, and as long as nothing fails
\* the outcome it is heading for stays the same.
LEMMA ServerKeepsFlag ==
  ASSUME TypeOK, Waits, Serves \/ Fail \/ CancelIdle
  PROVE  /\ Waits'
         /\ MayOpen' => MayOpen
         /\ \A g : Owed(g) /\ Unfailed' =>
              Unfailed /\ (TxAfter(Rest', serverTx') => TxAfter(Rest, serverTx))
<1>0. /\ serverTx \in BOOLEAN /\ server.todo \in Seq(Operations)
      /\ request \in Seq([of : Nat, batch : Seq(Operations)])
      /\ ~HadStart(<<>>)
  BY TxSimple DEF TypeOK
<1>1. CASE Receive
  <2>1. /\ server.at = "idle" /\ request # <<>>
        /\ server' = [at |-> "run", of |-> Head(request).of, todo |-> Head(request).batch]
        /\ request' = Tail(request)
        /\ UNCHANGED <<errors, wire, serverTx>>
    BY <1>1 DEF Receive, clientVars
  <2>2. /\ Len(request) \in Nat \ {0} /\ Head(request) = request[1] /\ 1 \in DOMAIN request
        /\ \A i \in DOMAIN Tail(request) : i + 1 \in DOMAIN request /\ Tail(request)[i] = request[i + 1]
    <3>1. /\ Len(request) \in Nat \ {0} /\ DOMAIN request = 1..Len(request)
          /\ Head(request) = request[1]
          /\ Tail(request) \in Seq([of : Nat, batch : Seq(Operations)])
          /\ Len(Tail(request)) = Len(request) - 1
          /\ \A i \in 1..Len(Tail(request)) : Tail(request)[i] = request[i + 1]
      BY <1>0, <2>1, HeadTailProperties, EmptySeq, LenProperties
    <3>2. DOMAIN Tail(request) = 1..(Len(request) - 1)
      BY <3>1, LenProperties
    <3> QED
      BY <3>1, <3>2
  <2>3. server'.at = "run" /\ server'.todo = request[1].batch
    BY <2>1, <2>2
  <2>4. MayOpen' => MayOpen
    BY <2>1, <2>2, <2>3 DEF MayOpen
  <2>5. ASSUME NEW g, Owed(g) PROVE Rest' = Rest
    <3>1. Asked(g)
      BY <2>1, <2>5 DEF Owed, Answering, Complete
    <3>2. Tail(request) = <<>>
      <4>1. Tail(request) \in Seq([of : Nat, batch : Seq(Operations)]) /\ Len(Tail(request)) = 0
        BY <1>0, <2>1, <3>1, HeadTailProperties DEF Asked
      <4> QED
        BY <4>1, EmptyIsZero
    <3> QED
      BY <2>1, <2>3, <3>2 DEF Rest
  <2> QED
    BY <2>1, <2>3, <2>4, <2>5 DEF Waits, Unfailed
<1>2. CASE Run
  <2>1. /\ server.at = "run" /\ server.todo # <<>>
        /\ serverTx' = TxAfter(<<Head(server.todo)>>, serverTx)
        /\ server'.todo = Tail(server.todo) /\ server'.at \in {"run", "asks"}
        /\ UNCHANGED <<errors, request>>
    BY <1>2 DEF Run, clientVars, TypeOK
  <2>2. /\ 1 \in DOMAIN server.todo /\ Head(server.todo) = server.todo[1]
        /\ \A i \in DOMAIN Tail(server.todo) :
             i + 1 \in DOMAIN server.todo /\ Tail(server.todo)[i] = server.todo[i + 1]
    <3>1. /\ Len(server.todo) \in Nat \ {0} /\ DOMAIN server.todo = 1..Len(server.todo)
          /\ Head(server.todo) = server.todo[1]
          /\ Tail(server.todo) \in Seq(Operations)
          /\ Len(Tail(server.todo)) = Len(server.todo) - 1
          /\ \A i \in 1..Len(Tail(server.todo)) : Tail(server.todo)[i] = server.todo[i + 1]
      BY <1>0, <2>1, HeadTailProperties, EmptySeq, LenProperties
    <3>2. DOMAIN Tail(server.todo) = 1..(Len(server.todo) - 1)
      BY <3>1, LenProperties
    <3> QED
      BY <3>1, <3>2
  <2>3. serverTx' => serverTx \/ server.todo[1] = "begin"
    BY <1>0, <2>1, <2>2, TxOne
  <2>4. MayOpen' => MayOpen
    BY <2>1, <2>2, <2>3 DEF MayOpen, HadStart
  <2>5. ASSUME NEW g, Owed(g) PROVE TxAfter(Rest', serverTx') <=> TxAfter(Rest, serverTx)
    <3>1. request = <<>> /\ request' = <<>>
      BY <2>1, <2>5 DEF Owed, Asked, Answering, Complete
    <3>2. Rest = server.todo /\ Rest' = Tail(server.todo)
      BY <2>1, <3>1 DEF Rest
    <3> QED
      BY <1>0, <2>1, <3>2, TxStepwise
  <2>6. Unfailed' => Unfailed
    <3>1. wire' = wire \/ \E m : wire' = Append(wire, m)
      BY <1>2 DEF Run, Says
    <3>2. ASSUME NEW m, wire' = Append(wire, m)
          PROVE  \A i \in DOMAIN wire : i \in DOMAIN wire' /\ wire'[i] = wire[i]
      BY <3>2 DEF TypeOK
    <3> QED
      BY <2>1, <3>1, <3>2 DEF Unfailed
  <2> QED
    BY <2>1, <2>4, <2>5, <2>6 DEF Waits
<1>3. CASE (Answered /\ reply # "no") \/ Ready
  <2>1. /\ server'.todo = server.todo /\ server.at \in {"run", "asks"}
        /\ server'.at = "run" \/ server.todo = <<>>
        /\ UNCHANGED <<errors, request, serverTx>>
    BY <1>3 DEF Answered, Ready, clientVars, TypeOK
  <2>2. MayOpen' <=> MayOpen
    BY <2>1 DEF MayOpen
  <2>3. Rest' = Rest
    BY <2>1 DEF Rest
  <2>4. Unfailed' => Unfailed
    <3>1. wire' = wire \/ \E m : wire' = Append(wire, m)
      BY <1>3 DEF Answered, Ready, Says
    <3>2. ASSUME NEW m, wire' = Append(wire, m)
          PROVE  \A i \in DOMAIN wire : i \in DOMAIN wire' /\ wire'[i] = wire[i]
      BY <3>2 DEF TypeOK
    <3> QED
      BY <2>1, <3>1, <3>2 DEF Unfailed
  <2> QED
    BY <2>1, <2>2, <2>3, <2>4 DEF Waits
<1>4. CASE (Answered /\ reply = "no") \/ Fail
  <2>1. /\ server'.todo = <<>> /\ server'.at = "run" /\ Says("error")
        /\ UNCHANGED <<errors, request, serverTx>>
    BY <1>4 DEF Answered, Fail, clientVars, TypeOK
  <2>2. MayOpen' => MayOpen
    BY <1>0, <2>1 DEF MayOpen
  <2>3. ~Unfailed'
    <3>1. Len(wire) + 1 \in DOMAIN wire' /\ wire'[Len(wire) + 1].is = "error"
      BY <2>1 DEF Says, TypeOK
    <3> QED
      BY <3>1 DEF Unfailed
  <2> QED
    BY <2>1, <2>2, <2>3 DEF Waits
<1>5. CASE CancelIdle
  BY <1>5 DEF CancelIdle, clientVars, serverVars, Waits, MayOpen, Rest, Unfailed
<1> QED
  BY <1>1, <1>2, <1>3, <1>4, <1>5 DEF Serves

\* What is read of a response changes neither what may open nor what is left
\* to run, and an error it holds is remembered.
LEMMA ReadKeepsFlag ==
  ASSUME TypeOK, wire # <<>>, wire' = Tail(wire), UNCHANGED <<request, server, serverTx>>,
         errors \subseteq errors', Head(wire).is = "error" => errors' # {}
  PROVE  /\ (MayOpen' <=> MayOpen) /\ Rest' = Rest
         /\ Unfailed' => Unfailed
<1>1. /\ Len(wire) \in Nat \ {0} /\ DOMAIN wire = 1..Len(wire) /\ Head(wire) = wire[1]
      /\ Tail(wire) \in Seq(Message) /\ Len(Tail(wire)) = Len(wire) - 1
      /\ \A i \in 1..Len(Tail(wire)) : Tail(wire)[i] = wire[i + 1]
  BY HeadTailProperties, EmptySeq, LenProperties DEF TypeOK
<1>2. DOMAIN wire' = 1..(Len(wire) - 1)
  BY <1>1, LenProperties
<1>3. \A i \in DOMAIN wire : i = 1 \/ (i - 1 \in DOMAIN wire' /\ wire'[i - 1] = wire[i])
  BY <1>1, <1>2
<1>4. Unfailed' => Unfailed
  BY <1>1, <1>3 DEF Unfailed
<1> QED
  BY <1>4 DEF MayOpen, Rest

\* However a command is issued, it starts; a guard is only begun where there is
\* none, and ended by an END.
LEMMA IssuedStarts ==
  ASSUME Execute \/ GuardBegin \/ GuardEnd \/ GuardDrop
  PROVE  \E batch, sink, by, bound :
           /\ Start(batch, sink, by, bound)
           /\ by = "begin" => guard = "none"
           /\ by \in {"end", "drop"} => batch = <<"end">>
<1>1. CASE Execute
  <2>1. PICK batch, sink, bound : Start(batch, sink, "program", bound)
    BY <1>1, Zenon DEF Execute
  <2>2. "program" # "begin" /\ "program" \notin {"end", "drop"}
    OBVIOUS
  <2> QED
    BY <2>1, <2>2, Zenon
<1>2. CASE GuardBegin
  <2>1. Start(<<"begin">>, TRUE, "begin", FALSE) /\ ("begin" = "begin" => guard = "none")
    BY <1>2 DEF GuardBegin
  <2>2. "begin" \in {"end", "drop"} => <<"begin">> = <<"end">>
    OBVIOUS
  <2> QED
    BY <2>1, <2>2, Zenon
<1>3. CASE GuardEnd
  <2>1. Start(<<"end">>, TRUE, "end", FALSE) /\ ("end" = "begin" => guard = "none")
    BY <1>3 DEF GuardEnd
  <2>2. "end" \in {"end", "drop"} => <<"end">> = <<"end">>
    OBVIOUS
  <2> QED
    BY <2>1, <2>2, Zenon
<1>4. CASE GuardDrop
  <2>1. Start(<<"end">>, TRUE, "drop", FALSE) /\ ("drop" = "begin" => guard = "none")
    BY <1>4 DEF GuardDrop
  <2>2. "drop" \in {"end", "drop"} => <<"end">> = <<"end">>
    OBVIOUS
  <2> QED
    BY <2>1, <2>2, Zenon
<1> QED
  BY <1>1, <1>2, <1>3, <1>4

\* Unless a packet can leave after its deadline, no step lets the flag miss a
\* transaction.
LEMMA StepFlag ==
  ASSUME LegacyAssumption, ~LateFlush, AlignedInv, AlignedInv', FlagInv, [Next]_vars
  PROVE  FlagInv'
<1>0. /\ TypeOK /\ InFlight /\ Waits /\ FlagAt
      /\ inTx \in BOOLEAN /\ prevTx \in BOOLEAN /\ serverTx \in BOOLEAN
  BY DEF AlignedInv, FlagInv, TypeOK
<1>1. ASSUME UNCHANGED <<request, server, serverTx>>
      PROVE  Waits' /\ (MayOpen' <=> MayOpen) /\ Rest' = Rest
  BY <1>0, <1>1 DEF Waits, MayOpen, Rest
<1>2. ~HadStart(<<>>)
  BY <1>0, TxSimple
<1>3. CASE UNCHANGED vars
  <2>1. UNCHANGED <<link, pc, cmd, inTx, prevTx, errors, wire, request, server, serverTx>>
    BY <1>3 DEF vars, clientVars, serverVars
  <2> QED
    BY <1>0, <1>1, <2>1 DEF FlagInv, FlagAt, Unfailed
<1>4. CASE Execute \/ GuardBegin \/ GuardEnd \/ GuardDrop
  <2>1. /\ pc = "idle" /\ link = "up" /\ pc' = "sync" /\ prevTx' = inTx
        /\ inTx' = TxAfter(cmd'.batch, inTx) /\ UNCHANGED <<request, server, serverTx>>
    <3>1. PICK batch, sink, by, bound : Start(batch, sink, by, bound)
      BY <1>4, IssuedStarts
    <3>2. cmd'.batch = batch
      BY <3>1 DEF Start
    <3> QED
      BY <3>1, <3>2 DEF Start, serverVars
  <2> QED
    BY <1>0, <1>1, <2>1 DEF FlagInv, FlagAt
<1>5. CASE GuardGone \/ Close
  BY <1>0, <1>1, <1>5 DEF GuardGone, Close, serverVars, FlagInv, FlagAt
<1>6. CASE SyncNothing \/ SyncSkip
  <2>1. /\ pc = "sync" /\ pc' \in {"sync", "send"}
        /\ UNCHANGED <<link, cmd, inTx, prevTx, request, server, serverTx>>
    BY <1>6 DEF SyncNothing, SyncSkip, LoseFraming, serverVars
  <2> QED
    BY <1>0, <1>1, <2>1 DEF FlagInv, FlagAt
<1>7. CASE SyncFails \/ SendFails
  <2>1. /\ \E after \in {"closed", "poisoned"} : End(FALSE, prevTx, after, syncReq)
        /\ UNCHANGED <<request, server, serverTx>>
    BY <1>7 DEF SyncFails, SendFails, serverVars
  <2> QED
    BY <1>1, <2>1, EndKeepsFlag DEF FlagInv
<1>8. CASE Send
  <2>1. /\ pc = "send" /\ pc' = "type"
        /\ request' = Append(request, [of |-> cmd.n, batch |-> cmd.batch])
        /\ UNCHANGED <<link, cmd, inTx, prevTx, server, serverTx>>
    BY <1>8 DEF Send, serverVars
  <2>2. link = "up" /\ Quiet
    BY <1>0, <2>1 DEF InFlight
  <2>3. /\ request' = <<[of |-> cmd.n, batch |-> cmd.batch]>> /\ server.todo = <<>>
        /\ serverTx => prevTx
    BY <1>0, <2>1, <2>2 DEF Quiet, Waits, FlagAt, MayOpen
  <2>4. DOMAIN request' = {1} /\ request'[1].batch = cmd.batch /\ request' # <<>>
    BY <2>3
  <2>5. Rest' = cmd.batch
    BY <2>4 DEF Rest
  <2>6. MayOpen' => prevTx \/ HadStart(cmd.batch)
    BY <1>2, <2>1, <2>3, <2>4 DEF MayOpen
  <2>7. inTx <=> TxAfter(cmd.batch, prevTx)
    BY <1>0, <2>1, <2>2 DEF FlagAt
  <2>8. TxAfter(cmd.batch, serverTx) => inTx
    BY <1>0, <2>3, <2>7, TxBounds
  <2>9. Waits'
    BY <1>0, <2>1 DEF Waits
  <2> QED
    BY <2>1, <2>5, <2>6, <2>7, <2>8, <2>9 DEF FlagInv, FlagAt
<1>9. CASE SendTimesOut
  <2>1. /\ pc = "send" /\ End(FALSE, prevTx, "up", TRUE)
        /\ UNCHANGED <<request, serverTx>>
        /\ server' = server \/ server' = [server EXCEPT !.at = "half"]
    BY <1>9 DEF SendTimesOut
  <2>2. link = "up" /\ Quiet
    BY <1>0, <2>1 DEF InFlight
  <2>3. server.todo = <<>> /\ server'.todo = server.todo
    BY <1>0, <2>1, <2>2 DEF Quiet, Waits, TypeOK
  <2>4. MayOpen' <=> MayOpen
    BY <2>1, <2>3 DEF MayOpen
  <2>5. MayOpen => prevTx
    BY <1>0, <2>1, <2>2 DEF FlagAt
  <2> QED
    BY <2>1, <2>3, <2>4, <2>5, EndKeepsFlag DEF Waits, FlagInv
<1>10. CASE ReadType
  <2>1. /\ pc = "type" /\ pc' = "body"
        /\ UNCHANGED <<link, cmd, inTx, prevTx, errors, wire, request, server, serverTx>>
    BY <1>10 DEF ReadType, serverVars
  <2> QED
    BY <1>0, <1>1, <2>1 DEF FlagInv, FlagAt, Unfailed
<1>11. CASE ReadRow \/ ReadOddRow \/ ReadError \/ ReadCreate \/ ReadData \/ ReadLoad
  <2>1. /\ pc = "body" /\ wire' = Tail(wire) /\ pc' = "type"
        /\ UNCHANGED <<link, cmd, inTx, prevTx, request, server, serverTx>>
    BY <1>11 DEF ReadRow, ReadOddRow, ReadError, ReadCreate, ReadData, ReadLoad, Reading, serverVars
  <2>2. errors \subseteq errors' /\ (Head(wire).is = "error" => errors' # {})
    BY <1>11 DEF ReadRow, ReadOddRow, ReadError, ReadCreate, ReadData, ReadLoad, Reading
  <2>3. link = "up" /\ wire # <<>>
    BY <1>0, <2>1 DEF InFlight
  <2>4. (MayOpen' <=> MayOpen) /\ Rest' = Rest /\ (Unfailed' => Unfailed)
    BY <1>0, <2>1, <2>2, <2>3, ReadKeepsFlag
  <2> QED
    BY <1>0, <1>1, <2>1, <2>3, <2>4 DEF FlagInv, FlagAt
<1>12. CASE ReadReady
  <2>1. /\ pc = "body" /\ Head(wire).is = "ready" /\ wire' = Tail(wire)
        /\ UNCHANGED <<request, server, serverTx>>
        /\ End(errors = {}, IF errors = {} THEN inTx ELSE TxOnError(cmd.batch, prevTx), "up", FALSE)
    BY <1>12 DEF ReadReady, serverVars
  <2>2. link = "up" /\ wire # <<>> /\ Owed(cmd.n)
    BY <1>0, <2>1 DEF InFlight
  <2>3. /\ Len(wire) \in Nat \ {0} /\ DOMAIN wire = 1..Len(wire)
        /\ Head(wire) = wire[1] /\ 1 \in 1..Len(wire)
    BY <1>0, <2>2, HeadTailProperties, EmptySeq, LenProperties DEF TypeOK
  <2>4. Complete(cmd.n)
    BY <2>1, <2>2, <2>3 DEF Owed, Asked, Answering
  <2>5. Len(wire) = 1 /\ request = <<>> /\ server.todo = <<>>
    BY <1>0, <2>1, <2>3, <2>4 DEF Complete, Waits
  <2>6. errors = {} => Unfailed
    BY <2>1, <2>3, <2>5 DEF Unfailed
  <2>7. MayOpen => prevTx \/ HadStart(cmd.batch)
    BY <1>0, <2>1, <2>2 DEF FlagAt
  <2>8. Unfailed => (TxAfter(Rest, serverTx) => inTx)
    BY <1>0, <2>1, <2>2 DEF FlagAt
  <2>9. CASE errors = {}
    <3>1. serverTx => inTx
      BY <1>0, <2>5, <2>6, <2>8, <2>9, TxSimple DEF Rest
    <3>2. MayOpen => serverTx
      BY <1>2, <2>5 DEF MayOpen
    <3> QED
      BY <1>1, <2>1, <2>9, <3>1, <3>2, EndKeepsFlag DEF FlagInv
  <2>10. CASE errors # {}
    <3>1. MayOpen => TxOnError(cmd.batch, prevTx)
      BY <1>0, <2>7, TxBounds
    <3> QED
      BY <1>1, <2>1, <2>10, <3>1, EndKeepsFlag DEF FlagInv
  <2> QED BY <2>9, <2>10
<1>13. CASE TypeTimesOut \/ BodyTimesOut \/ ReadFails
  <2>1. /\ pc \in {"type", "body"} /\ UNCHANGED <<request, server, serverTx>>
        /\ \E after \in {"up", "closed", "poisoned"}, sync \in {TRUE, syncReq} :
             End(FALSE, TxOnError(cmd.batch, prevTx), after, sync)
    BY <1>13 DEF TypeTimesOut, BodyTimesOut, ReadFails, serverVars
  <2>2. MayOpen => prevTx \/ HadStart(cmd.batch)
    BY <1>0, <2>1 DEF InFlight, FlagAt
  <2>3. MayOpen' => TxOnError(cmd.batch, prevTx)
    BY <1>0, <1>1, <2>1, <2>2, TxBounds
  <2> QED
    BY <1>1, <2>1, <2>3, EndKeepsFlag DEF FlagInv
<1>14. CASE Serves \/ Fail \/ CancelIdle
  <2>1. UNCHANGED <<link, pc, cmd, inTx, prevTx, errors>>
    BY <1>14 DEF Serves, Receive, Run, Answered, Ready, Fail, CancelIdle, clientVars
  <2>2. /\ Waits' /\ (MayOpen' => MayOpen)
        /\ \A g : Owed(g) /\ Unfailed' =>
             Unfailed /\ (TxAfter(Rest', serverTx') => TxAfter(Rest, serverTx))
    BY <1>0, <1>14, ServerKeepsFlag
  <2>3. link = "up" /\ pc \in {"type", "body"} => Owed(cmd.n)
    BY <1>0 DEF InFlight
  <2> QED
    BY <1>0, <2>1, <2>2, <2>3 DEF FlagInv, FlagAt
<1> QED
  BY <1>3, <1>4, <1>5, <1>6, <1>7, <1>8, <1>9, <1>10, <1>11, <1>12, <1>13, <1>14
     DEF Next, Syncs, Reads, TimesOut

\* A new session has no transaction.
LEMMA InitFlag ==
  ASSUME Init PROVE FlagInv
<1>1. ~HadStart(<<>>) /\ DOMAIN <<>> = {}
  BY DEF HadStart
<1>2. ~MayOpen
  BY <1>1 DEF Init, MayOpen
<1> QED
  BY <1>2 DEF Init, FlagInv, FlagAt, Waits

\* Where the drain meets neither binary rows nor a false ReadyForQuery, and no
\* packet leaves after its deadline, an idle
\* session with a transaction open on the server knows of it: restore_tx_on_error
\* errs towards an extra ROLLBACK, whatever failed, timed out or was cancelled
\* and whatever the server still runs of an abandoned batch.
THEOREM LegacyFlagSafe ==
  ASSUME ~BinaryRows, ~FalseReady, ~LateFlush PROVE Spec => []FlagSafe
<1>1. Init => AlignedInv /\ FlagInv
  BY InitAligned, InitFlag
<1>2. (AlignedInv /\ FlagInv) /\ [Next]_vars => (AlignedInv /\ FlagInv)'
  BY LegacyAssumption, StepAligned, StepFlag
<1>3. AlignedInv /\ FlagInv => FlagSafe
  BY DEF FlagInv, FlagAt, MayOpen, FlagSafe
<1> QED
  BY <1>1, <1>2, <1>3, PTL DEF Spec

-----------------------------------------------------------------------------
(* The transaction guard *)

\* A guard is made by a BEGIN where there was none and ended by an END
GuardInv ==
  pc # "idle" => /\ cmd.by = "begin" => guard = "none"
                 /\ cmd.by \in {"end", "drop"} => cmd.batch = <<"end">>

\* Every step keeps what the guard relies on.
LEMMA StepGuard ==
  ASSUME AlignedInv, GuardInv, [Next]_vars
  PROVE  GuardInv'
<1>1. CASE Execute \/ GuardBegin \/ GuardEnd \/ GuardDrop
  <2>1. PICK batch, sink, by, bound :
          /\ Start(batch, sink, by, bound)
          /\ by = "begin" => guard = "none"
          /\ by \in {"end", "drop"} => batch = <<"end">>
    BY <1>1, IssuedStarts
  <2>2. cmd'.by = by /\ cmd'.batch = batch /\ guard' = guard
    BY <2>1 DEF Start
  <2> QED
    BY <2>1, <2>2 DEF GuardInv
<1>2. CASE UNCHANGED vars
  BY <1>2 DEF GuardInv, vars, clientVars
<1>3. CASE GuardGone \/ Close \/ SyncFails \/ SendFails \/ SendTimesOut \/ ReadReady
           \/ TypeTimesOut \/ BodyTimesOut \/ ReadFails
  <2>1. pc' = "idle"
    BY <1>3 DEF GuardGone, Close, SyncFails, SendFails, SendTimesOut, ReadReady,
                TypeTimesOut, BodyTimesOut, ReadFails, End
  <2> QED BY <2>1 DEF GuardInv
<1>4. CASE SyncNothing \/ SyncSkip \/ Send \/ ReadType \/ ReadRow \/ ReadOddRow \/ ReadError
           \/ ReadCreate \/ ReadData \/ ReadLoad \/ Serves \/ Fail \/ CancelIdle
  <2>1. UNCHANGED <<cmd, guard>> /\ (pc' # "idle" => pc # "idle")
    BY <1>4 DEF SyncNothing, SyncSkip, LoseFraming, Send, ReadType, ReadRow, ReadOddRow, ReadError,
                ReadCreate, ReadData, ReadLoad, Reading, Serves, Receive, Run, Answered,
                Ready, Fail, CancelIdle, clientVars
  <2> QED BY <2>1 DEF GuardInv
<1> QED
  BY <1>1, <1>2, <1>3, <1>4 DEF Next, Syncs, Reads, TimesOut

\* A step that ends a guard leaves no transaction on a session that is up.
LEMMA GuardEnds ==
  ASSUME AlignedInv, FlagInv, FlagInv', GuardInv, [Next]_vars,
         guard # "none", guard' = "none", link' = "up"
  PROVE  ~serverTx'
<1>1. guard' # guard
  OBVIOUS
<1>2. \/ GuardGone \/ SyncFails \/ SendFails \/ SendTimesOut \/ ReadReady
      \/ TypeTimesOut \/ BodyTimesOut \/ ReadFails
  BY <1>1 DEF Next, Syncs, Reads, TimesOut, Serves, Execute, GuardBegin, GuardEnd, GuardDrop,
              Start, Close, SyncNothing, SyncSkip, Send, ReadType, ReadRow, ReadOddRow,
              ReadError, ReadCreate, ReadData, ReadLoad, Reading, Receive, Run, Answered,
              Ready, Fail, CancelIdle, vars, clientVars
<1>3. ~GuardGone
  BY DEF GuardGone
<1>4. ASSUME NEW tx, NEW after, NEW sync, End(FALSE, tx, after, sync), pc # "idle" PROVE FALSE
  <2>1. cmd.by # "drop"
    BY <1>4 DEF End, FailedDrop
  <2>2. cmd.by # "begin"
    BY <1>4 DEF GuardInv
  <2> QED
    BY <1>4, <2>1, <2>2 DEF End, GuardAfter
<1>5. ReadReady /\ errors = {}
  <2>1. ASSUME ReadReady, errors # {} PROVE FALSE
    <3>1. (errors = {}) = FALSE
      BY <2>1
    <3>2. End(FALSE, IF errors = {} THEN inTx ELSE TxOnError(cmd.batch, prevTx), "up", FALSE)
          /\ pc = "body"
      BY <2>1, <3>1 DEF ReadReady
    <3> QED BY <1>4, <3>2
  <2>2. ReadReady
    BY <1>2, <1>3, <1>4 DEF SyncFails, SendFails, SendTimesOut, TypeTimesOut, BodyTimesOut, ReadFails
  <2> QED BY <2>1, <2>2
<1>6. /\ pc = "body" /\ pc' = "idle" /\ guard' = GuardAfter(TRUE)
      /\ inTx' = inTx
  <2>1. (errors = {}) = TRUE
    BY <1>5
  <2> QED
    BY <1>5, <2>1 DEF ReadReady, End, FailedDrop
<1>7. cmd.batch = <<"end">> /\ link = "up"
  BY <1>6 DEF GuardAfter, GuardInv, AlignedInv, InFlight
<1>8. ~inTx
  <2>1. inTx <=> TxAfter(cmd.batch, prevTx)
    BY <1>6, <1>7 DEF FlagInv, FlagAt
  <2> QED
    BY <1>7, <2>1, TxSimple DEF AlignedInv, TypeOK
<1> QED
  BY <1>6, <1>8 DEF FlagInv, FlagAt, MayOpen

\* Where the drain meets neither binary rows nor a false ReadyForQuery, and no
\* packet leaves after its deadline, the end of a
\* LegacyTransaction, by commit, rollback or drop, leaves no transaction open
\* on a session that can still be used.
THEOREM LegacyGuard ==
  ASSUME ~BinaryRows, ~FalseReady, ~LateFlush PROVE Spec => GuardLeavesNothing
<1> DEFINE I == AlignedInv /\ FlagInv /\ GuardInv
<1>1. Init => I
  BY InitAligned, InitFlag DEF Init, GuardInv
<1>2. I /\ [Next]_vars => I'
  BY LegacyAssumption, StepAligned, StepFlag, StepGuard
<1>3. I /\ I' /\ [Next]_vars => [guard # "none" /\ guard' = "none" => link' # "up" \/ ~serverTx']_vars
  BY GuardEnds
<1> QED
  BY <1>1, <1>2, <1>3, PTL DEF Spec, GuardLeavesNothing
===============================================================================
