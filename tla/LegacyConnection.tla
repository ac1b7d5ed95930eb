--------------------------- MODULE LegacyConnection ---------------------------
(***************************************************************************)
(* One synchronous session: NzConnection (src/src/connection.rs), the      *)
(* transaction guard of src/src/blocking.rs over it, and the server it     *)
(* talks to.  A command is written, its response is read message by        *)
(* message until ReadyForQuery, and a deadline may cut this short at any   *)
(* read.  What is left of an abandoned response has to be read before the  *)
(* next command is written.                                                *)
(*                                                                         *)
(* A batch is the sequence of what its statements do: "begin" or "end" a   *)
(* transaction, "work", or move a file ("export", "import").  The server   *)
(* runs it in its own time; wire holds what it sent and the client has not *)
(* read.  A message says of which command it is, which the client cannot   *)
(* see.                                                                    *)
(***************************************************************************)
EXTENDS Integers, Sequences, FiniteSets

CONSTANTS
  Batches,      \* what a program may execute
  MaxCommands,  \* bound: commands issued by the program
  Deadline,     \* is a command timeout set?
  BinaryRows,   \* are rows sent in the binary format (RowStandard)?
  FalseReady,   \* may bytes of a file name or of file data, read as the type
                \* of a message, be those of ReadyForQuery ('Z' or 'L')?
  LateFlush     \* TLS: may a packet whose flush timed out leave later?

\* What the statements of a batch do
Operations == {"begin", "end", "work", "export", "import"}

ASSUME LegacyAssumption ==
  /\ Batches \subseteq Seq(Operations)
  /\ MaxCommands \in Nat
  /\ {Deadline, BinaryRows, FalseReady, LateFlush} \subseteq BOOLEAN

VARIABLES
  link,      \* connected, protocol_faulted and the stream
  pc,        \* where the command stands
  cmd,       \* the command: number, batch, has a sink?, who issued it
  inTx,      \* in_transaction
  prevTx,    \* prev_in_tx of run_batch
  syncReq,   \* protocol_sync_required
  errors,    \* what the response holds against the command so far
  export,    \* export_file is open
  source,    \* import_source is bound
  guard,     \* a LegacyTransaction: none, live, or being dropped
  wire,      \* server to client
  request,   \* client to server: packets sent and not yet received
  reply,     \* the client's answer within an external transfer
  server,    \* what the server does, for which command, what remains of it
  serverTx,  \* an explicit transaction is open on the server
  cancels    \* cancel packets on their way

clientVars == <<link, pc, cmd, inTx, prevTx, syncReq, errors, export, source, guard>>
serverVars == <<server, serverTx>>
vars == <<clientVars, wire, request, reply, serverVars, cancels>>

Kinds == {"row", "odd", "error", "ready", "create", "data", "load"}
Message == [of : Nat, is : Kinds]

TypeOK ==
  /\ link \in {"up", "closed", "poisoned"}
  /\ pc \in {"idle", "sync", "send", "type", "body"}
  /\ cmd \in [n : Nat, batch : Batches \cup {<<>>, <<"begin">>, <<"end">>},
              sink : BOOLEAN, by : {"program", "begin", "end", "drop"}]
  /\ {inTx, prevTx, syncReq, export, source, serverTx} \subseteq BOOLEAN
  /\ errors \subseteq {"sink", "database", "decode"}
  /\ guard \in {"none", "live", "drop"}
  /\ wire \in Seq(Message)
  /\ request \in Seq([of : Nat, batch : Seq(Operations)])
  /\ reply \in {"none", "yes", "no"}
  /\ server \in [at : {"idle", "run", "asks", "half"}, of : Nat, todo : Seq(Operations)]
  /\ cancels \in Nat

Init ==
  /\ link = "up" /\ pc = "idle"
  /\ cmd = [n |-> 0, batch |-> <<>>, sink |-> FALSE, by |-> "program"]
  /\ inTx = FALSE /\ prevTx = FALSE /\ syncReq = FALSE /\ errors = {}
  /\ export = FALSE /\ source = FALSE /\ guard = "none"
  /\ wire = <<>> /\ request = <<>> /\ reply = "none"
  /\ server = [at |-> "idle", of |-> 0, todo |-> <<>>] /\ serverTx = FALSE
  /\ cancels = 0

-----------------------------------------------------------------------------
(* Transaction state read off the SQL *)

\* parse_transaction_state: does a statement open or end a transaction, was
\* there a start, and which boundary was the last?
IsBoundary(op) == op \in {"begin", "end"}
HadStart(batch) == \E i \in DOMAIN batch : batch[i] = "begin"

StateOf(batch) ==
  IF \A i \in DOMAIN batch : ~IsBoundary(batch[i]) THEN "unchanged"
  ELSE IF \E i \in DOMAIN batch : /\ batch[i] = "begin"
                                  /\ \A j \in DOMAIN batch : j > i => ~IsBoundary(batch[j])
       THEN "opened" ELSE "closed"

\* transaction_state_of, as run_batch applies it before the packet leaves
TxAfter(batch, before) == IF StateOf(batch) = "unchanged" THEN before ELSE StateOf(batch) = "opened"

\* restore_tx_on_error
TxOnError_optimist(batch, before) == before \* mutant: a failed BEGIN is undone
TxOnError(batch, before) ==
  CASE StateOf(batch) = "closed"    -> before \/ HadStart(batch)
    [] StateOf(batch) = "unchanged" -> before
    [] StateOf(batch) = "opened"    -> TRUE

-----------------------------------------------------------------------------
(* How a command ends *)

\* LegacyTransaction, when a command it issued has ended: begin_transaction
\* yields a guard; commit and rollback consume it, and its drop rolls back
\* unless they succeeded; a failed rollback closes the client.
GuardAfter(ok) ==
  CASE cmd.by = "begin" -> IF ok THEN "live" ELSE "none"
    [] cmd.by = "end"   -> IF ok THEN "none" ELSE "drop"
    [] cmd.by = "drop"  -> "none"
    [] OTHER            -> guard

\* mark_faulted_after: a framing fault poisons the session, a transport error
\* closes it; both drop the stream, the export file and the import source
FailedDrop_kept(ok) == FALSE \* mutant: a failed rollback goes unnoticed
FailedDrop(ok) == cmd.by = "drop" /\ ~ok

End(ok, tx, linkAfter, sync) ==
  LET after == IF FailedDrop(ok) /\ linkAfter = "up" THEN "closed" ELSE linkAfter
  IN /\ pc' = "idle"
     /\ inTx' = IF FailedDrop(ok) THEN FALSE ELSE tx \* close() clears it
     /\ link' = after
     /\ syncReq' = sync
     /\ guard' = GuardAfter(ok)
     /\ export' = (export /\ after = "up")
     /\ source' = FALSE \* query_with_import_reader takes it back
     /\ UNCHANGED <<cmd, prevTx>>

\* NzConnection::cancel: a packet on a connection of its own, if it can be
\* delivered at all
SendCancel == cancels' \in {cancels, cancels + 1}

-----------------------------------------------------------------------------
(* run_batch_with_duration and run_batch_stream_with_duration *)

\* assert_can_execute; then the flag is set before the packet leaves
Start(batch, sink, by, bound) ==
  /\ pc = "idle" /\ link = "up"
  /\ cmd' = [n |-> cmd.n + 1, batch |-> batch, sink |-> sink, by |-> by]
  /\ prevTx' = inTx
  /\ inTx' = TxAfter(batch, inTx)
  /\ errors' = {}
  /\ source' = bound
  /\ pc' = "sync"
  /\ UNCHANGED <<link, syncReq, export, guard, wire, request, reply, serverVars, cancels>>

\* query, execute, execute_stream, query_with_import_reader ...
Execute ==
  /\ cmd.n < MaxCommands /\ guard # "drop"
  /\ \E batch \in Batches, sink \in BOOLEAN :
       \E bound \in {FALSE, ~sink /\ \E i \in DOMAIN batch : batch[i] = "import"} :
         Start(batch, sink, "program", bound)

\* BlockingClient::begin_transaction, LegacyTransaction::commit or rollback,
\* and its drop.  A guard outlives the connection it is of.
GuardBegin == /\ guard = "none" /\ ~inTx /\ cmd.n < MaxCommands
              /\ Start(<<"begin">>, TRUE, "begin", FALSE)
GuardEnd   == guard = "live" /\ Start(<<"end">>, TRUE, "end", FALSE)
GuardDrop  == guard \in {"live", "drop"} /\ Start(<<"end">>, TRUE, "drop", FALSE)
GuardGone  == /\ guard \in {"live", "drop"} /\ pc = "idle" /\ link # "up"
              /\ guard' = "none"
              /\ UNCHANGED <<link, pc, cmd, inTx, prevTx, syncReq, errors, export, source,
                             wire, request, reply, serverVars, cancels>>

\* ensure_protocol_synced: nothing has arrived and nothing is expected
Expecting_never == FALSE \* mutant: only what has arrived is drained
Expecting == syncReq

SyncNothing ==
  /\ pc = "sync" /\ wire = <<>> /\ ~Expecting
  /\ pc' = "send"
  /\ UNCHANGED <<link, cmd, inTx, prevTx, syncReq, errors, export, source, guard,
                 wire, request, reply, serverVars, cancels>>

\* The messages of an external transfer are not type, header, length and body.
\* drain_orphaned skips them as if they were, and it skips the DBOS header of
\* RowStandard twice: either way it goes on reading in the middle of something.
External == {"create", "data", "load"}
Misframed(m) == m.is \in External \/ (BinaryRows /\ m.is \in {"row", "odd"})

\* It may find its way back at any later message, or stay lost (the message it
\* is lost in stays the first), and what it reads as a type byte may end it.
LoseFraming ==
  /\ Misframed(Head(wire))
  /\ \E k \in 1 .. Len(wire) + 1 : wire' = SubSeq(wire, k, Len(wire))
  /\ \/ UNCHANGED <<pc, syncReq>>
     \/ /\ FalseReady \/ Head(wire).is \notin External
        /\ pc' = "send" /\ syncReq' = FALSE

\* drain_orphaned: one message is skipped, up to ReadyForQuery
SyncSkip ==
  /\ pc = "sync" /\ wire # <<>>
  /\ \/ /\ Head(wire).is = "ready"
        /\ wire' = Tail(wire) /\ pc' = "send" /\ syncReq' = FALSE
     \/ /\ Head(wire).is \notin External \cup {"ready"}
        /\ wire' = Tail(wire) /\ UNCHANGED <<pc, syncReq>>
     \/ LoseFraming
  /\ UNCHANGED <<link, cmd, inTx, prevTx, errors, export, source, guard,
                 request, reply, serverVars, cancels>>

\* No ReadyForQuery within 2 s, or what stands for a length is none
SyncFails ==
  /\ pc = "sync" /\ (wire # <<>> \/ Expecting)
  /\ End(FALSE, prevTx, "poisoned", syncReq)
  /\ UNCHANGED <<errors, wire, request, reply, serverVars, cancels>>

\* send_query_packet
Send ==
  /\ pc = "send"
  /\ request' = Append(request, [of |-> cmd.n, batch |-> cmd.batch])
  /\ pc' = "type"
  /\ UNCHANGED <<link, cmd, inTx, prevTx, syncReq, errors, export, source, guard,
                 wire, reply, serverVars, cancels>>

\* The deadline passes before the packet, or all of it, is written.  Over TLS
\* the rest can leave with a later read.
SendTimesOut ==
  /\ pc = "send" /\ Deadline
  /\ \/ UNCHANGED <<server, request>>
     \/ server' = [server EXCEPT !.at = "half"] /\ UNCHANGED request
     \/ /\ LateFlush
        /\ request' = Append(request, [of |-> cmd.n, batch |-> cmd.batch])
        /\ UNCHANGED server
  /\ SendCancel
  /\ End(FALSE, prevTx, "up", TRUE)
  /\ UNCHANGED <<errors, wire, reply, serverTx>>

SendFails ==
  /\ pc = "send"
  /\ End(FALSE, prevTx, "closed", syncReq)
  /\ UNCHANGED <<errors, wire, request, reply, serverVars, cancels>>

-----------------------------------------------------------------------------
(* drain_response_with_sink: a type byte, then the rest of the message *)

ReadType ==
  /\ pc = "type" /\ wire # <<>>
  /\ pc' = "body"
  /\ UNCHANGED <<link, cmd, inTx, prevTx, syncReq, errors, export, source, guard,
                 wire, request, reply, serverVars, cancels>>

\* The message is read and the loop goes on
Reading(kinds) ==
  /\ pc = "body" /\ Head(wire).is \in kinds
  /\ wire' = Tail(wire)
  /\ pc' = "type"
  /\ UNCHANGED <<link, cmd, inTx, prevTx, source, guard, request, serverVars>>

\* A row, or a notice: the sink may refuse it, which cancels once
ReadRow ==
  /\ Reading({"row"})
  /\ \/ UNCHANGED <<errors, syncReq, cancels>>
     \/ /\ cmd.sink /\ "sink" \notin errors
        /\ errors' = errors \cup {"sink"}
        /\ syncReq' = TRUE
        /\ SendCancel
  /\ UNCHANGED <<export, reply>>

\* A row of valid framing whose value cannot be decoded is skipped
ReadOddRow ==
  /\ Reading({"odd"})
  /\ errors' = errors \cup {"decode"}
  /\ UNCHANGED <<syncReq, export, reply, cancels>>

ReadError ==
  /\ Reading({"error"})
  /\ errors' = errors \cup {"database"}
  /\ UNCHANGED <<syncReq, export, reply, cancels>>

\* handle_export_start and consume_export_stream; handle_import: a reader that
\* is not there, or fails, is answered with the error status
ReadCreate ==
  /\ Reading({"create"})
  /\ \/ export' = TRUE /\ reply' = "yes"
     \/ export' = export /\ reply' = "no"
  /\ UNCHANGED <<errors, syncReq, cancels>>

ReadData ==
  /\ Reading({"data"})
  /\ export' = FALSE
  /\ UNCHANGED <<errors, syncReq, reply, cancels>>

AnswerLoad_silent == reply' = reply \* mutant: a missing file is not answered
AnswerLoad == reply' \in {"yes", "no"}

ReadLoad ==
  /\ pc = "body" /\ Head(wire).is = "load"
  /\ wire' = Tail(wire)
  /\ pc' = "type"
  /\ source' = FALSE
  /\ AnswerLoad
  /\ UNCHANGED <<link, cmd, inTx, prevTx, guard, request, serverVars, errors, syncReq,
                 export, cancels>>

\* ReadyForQuery: the error of the sink, of the database, or of a value comes
\* first, in this order, and keeps the session
ReadReady ==
  /\ pc = "body" /\ Head(wire).is = "ready"
  /\ wire' = Tail(wire)
  /\ LET ok == errors = {}
     IN End(ok, IF ok THEN inTx ELSE TxOnError(cmd.batch, prevTx), "up", FALSE)
  /\ UNCHANGED <<errors, request, reply, serverVars, cancels>>

\* The deadline passes between two messages: the rest is drained later
TypeTimesOut ==
  /\ pc = "type" /\ Deadline
  /\ SendCancel
  /\ End(FALSE, TxOnError(cmd.batch, prevTx), "up", TRUE)
  /\ UNCHANGED <<errors, wire, request, reply, serverVars>>

\* ... or inside one: the read position is lost and the socket retired
BodyTimesOut ==
  /\ pc = "body" /\ Deadline
  /\ SendCancel
  /\ End(FALSE, TxOnError(cmd.batch, prevTx), "closed", syncReq)
  /\ UNCHANGED <<errors, wire, request, reply, serverVars>>

\* A malformed message, or the end of the socket
ReadFails ==
  /\ pc \in {"type", "body"}
  /\ \/ pc = "body" /\ End(FALSE, TxOnError(cmd.batch, prevTx), "poisoned", syncReq)
     \/ End(FALSE, TxOnError(cmd.batch, prevTx), "closed", syncReq)
  /\ UNCHANGED <<errors, wire, request, reply, serverVars, cancels>>

\* NzConnection::close, or its drop
Close ==
  /\ pc = "idle" /\ link = "up"
  /\ link' = "closed" /\ inTx' = FALSE /\ export' = FALSE /\ source' = FALSE
  /\ UNCHANGED <<pc, cmd, prevTx, syncReq, errors, guard, wire, request, reply,
                 serverVars, cancels>>

-----------------------------------------------------------------------------
(* The server *)

Says(kind) == wire' = Append(wire, [of |-> server.of, is |-> kind])

\* An answer nobody waits for any more is passed over
Receive ==
  /\ server.at = "idle" /\ request # <<>>
  /\ reply' = "none"
  /\ server' = [at |-> "run", of |-> Head(request).of, todo |-> Head(request).batch]
  /\ request' = Tail(request)
  /\ UNCHANGED <<clientVars, wire, serverTx, cancels>>

\* One statement of the batch
Run ==
  /\ server.at = "run" /\ server.todo # <<>>
  /\ LET op == Head(server.todo)
     IN /\ serverTx' = TxAfter(<<op>>, serverTx)
        /\ server' = [server EXCEPT !.todo = Tail(@),
                                    !.at = IF op \in {"export", "import"} THEN "asks" ELSE @]
        /\ CASE op = "work"   -> Says("row") \/ Says("odd")
             [] op = "export" -> Says("create")
             [] op = "import" -> Says("load")
             [] OTHER         -> UNCHANGED wire
  /\ UNCHANGED <<clientVars, request, reply, cancels>>

\* An external transfer goes on when the client has answered
Answered ==
  /\ server.at = "asks" /\ reply # "none"
  /\ reply' = "none"
  /\ IF reply = "no"
       THEN /\ Says("error")
            /\ server' = [server EXCEPT !.at = "run", !.todo = <<>>]
       ELSE /\ Says("data") \/ UNCHANGED wire
            /\ server' = [server EXCEPT !.at = "run"]
  /\ UNCHANGED <<clientVars, request, serverTx, cancels>>

\* A statement fails; the rest of the batch is not run.  It fails by itself
\* or because a cancel packet arrived.
Fail ==
  /\ server.at = "asks" \/ (server.at = "run" /\ server.todo # <<>>)
  /\ cancels' \in {cancels, cancels - 1} \cap Nat
  /\ Says("error")
  /\ server' = [server EXCEPT !.at = "run", !.todo = <<>>]
  /\ UNCHANGED <<clientVars, request, reply, serverTx>>

Ready ==
  /\ server.at = "run" /\ server.todo = <<>>
  /\ Says("ready")
  /\ server' = [server EXCEPT !.at = "idle"]
  /\ UNCHANGED <<clientVars, request, reply, serverTx, cancels>>

\* A cancel packet that arrives when nothing runs
CancelIdle ==
  /\ cancels > 0 /\ server.at # "asks" /\ server.todo = <<>>
  /\ cancels' = cancels - 1
  /\ UNCHANGED <<clientVars, wire, request, reply, serverVars>>

-----------------------------------------------------------------------------
Reads == ReadType \/ ReadRow \/ ReadOddRow \/ ReadError \/ ReadCreate \/ ReadData
           \/ ReadLoad \/ ReadReady
TimesOut == SendTimesOut \/ TypeTimesOut \/ BodyTimesOut
Syncs == SyncNothing \/ SyncSkip \/ SyncFails
Serves == Receive \/ Run \/ Answered \/ Ready

Next ==
  \/ Execute \/ GuardBegin \/ GuardEnd \/ GuardDrop \/ GuardGone \/ Close
  \/ Syncs \/ Send \/ SendFails \/ Reads \/ ReadFails \/ TimesOut
  \/ Serves \/ Fail \/ CancelIdle

Spec == Init /\ [][Next]_vars

\* The client reads what arrives and the orphan drain is bounded; a server
\* that is not asked to wait goes on.  Timeouts only happen where one is set.
Fairness == /\ WF_vars(Syncs) /\ WF_vars(Send) /\ WF_vars(Reads) /\ WF_vars(Serves)
            /\ WF_vars(GuardDrop) /\ WF_vars(GuardGone)
LiveSpec == Spec /\ Fairness

-----------------------------------------------------------------------------
(* Properties *)

\* A session that can be used and owes nothing is aligned: the server is idle
\* and nothing of an earlier command can be read as the answer to the next.
\* While a command reads its response, all there is to read is of that command.
\* And a bound import source is dropped with its command.  It holds where the
\* drain of an abandoned response cannot take other bytes for ReadyForQuery:
\* not with BinaryRows, and not with FalseReady.
Aligned ==
  /\ TypeOK
  /\ link = "up" =>
       /\ pc = "idle" /\ ~syncReq => wire = <<>> /\ request = <<>> /\ server.at = "idle"
       /\ pc \in {"type", "body"} => \A i \in DOMAIN wire : wire[i].of = cmd.n
  /\ pc = "idle" => ~source

\* "It errs towards an extra ROLLBACK": an idle session with an open
\* transaction on the server knows of it, whatever failed or timed out.
FlagSafe == link = "up" /\ pc = "idle" /\ serverTx => inTx

\* A transaction guard that ends leaves no transaction behind on a session
\* that can still be used.
GuardLeavesNothing ==
  [][guard # "none" /\ guard' = "none" => link' # "up" \/ ~serverTx']_vars

\* Every command ends without its deadline: each external transfer the server
\* waits for is answered, and no orphan drain waits for ever.  (A packet torn
\* by a deadline is one the server waits for.)
CommandEnds == pc # "idle" ~> pc = "idle"

===============================================================================
