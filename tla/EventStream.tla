------------------------------ MODULE EventStream ------------------------------
(***************************************************************************)
(* One streamed statement of the native client (src/src/native_async.rs):  *)
(* drain_response_inner parses the backend's frames and hands rows and     *)
(* events to a bounded channel (EventSender or BatchSender), from which    *)
(* the caller polls a QueryEventStream, RowStream or RowBatchStream.       *)
(*                                                                         *)
(* Three resources bound what is retained: the channel, a byte budget and, *)
(* for event streams, a pool of reusable row blocks.  Every wait of the    *)
(* parser is a biased select on Control::interrupted, whose failure the    *)
(* callers ignore (`let _ =`); drive_operation polls the parser against    *)
(* deadline, interruption and the closing of the channel, in any order.    *)
(*                                                                         *)
(* The parser's control is `todo`: the awaits that the current frame still *)
(* has to go through.  One poll of an await is one step.                   *)
(***************************************************************************)
EXTENDS Integers, FiniteSets, SequencesExt

CONSTANTS
  Modes,        \* stream types: "events", "rows" (first set only), "batches"
  Frames,       \* frames the backend may send, a set of [kind, size]
  BatchRows,    \* STREAM_BATCH_ROWS, BATCH_ROWS (256)
  BatchBytes,   \* STREAM_BATCH_BYTES, BATCH_BYTES (1 MiB)
  StreamBytes,  \* STREAM_BYTES (8 MiB)
  ChannelCap,   \* STREAM_EVENT_CHANNEL_BATCHES (6), 16 for batches
  PoolSize,     \* STREAM_BATCH_POOL_SIZE (1)
  HistoryItems, \* notices a NoticeHistory keeps (1000)
  HistoryBytes, \* and their bytes, its LIMIT (1 MiB)
  MaxFrames     \* bound: frames of a response before its ReadyForQuery

Kinds == {"desc", "std", "row", "dbos", "complete", "notice", "error", "ready", "torn"}

ASSUME StreamAssumption ==
  /\ Modes \subseteq {"events", "rows", "batches"}
  /\ Frames \subseteq [kind: Kinds \ {"ready"}, size: Nat]
  /\ BatchRows \in Nat \ {0} /\ BatchBytes \in Nat \ {0}
  /\ StreamBytes \in Nat /\ StreamBytes >= 2 * BatchBytes
  /\ ChannelCap \in Nat \ {0} /\ PoolSize \in Nat \ {0}
  /\ HistoryItems \in Nat \ {0} /\ HistoryBytes \in Nat
  /\ MaxFrames \in Nat

VARIABLES
  mode,       \* which of the three streams the caller opened
  \* -- the backend --
  response,   \* the frames sent so far
  packet,     \* a cancel packet is on its way
  \* -- drive_operation --
  drive,      \* "queued", "run", "cancel", "cleanup" or "done"
  cause,      \* why it gave the statement up
  cancelled,  \* Control.cancelled has this statement's generation
  closing,    \* Control.closing
  terminal,   \* what the oneshot holds; "closed" once it was dropped
  \* -- drain_response_inner --
  read,       \* frames read
  parse,      \* its locals
  todo,       \* what is left to do for the frame read last
  batch,      \* event_rows, or batch_rows and batch_bytes
  result,     \* what it returns once todo is done
  history,    \* the NoticeHistory it shares with the caller
  \* -- channel, budget and block pool --
  queue, budget, slots, free,
  releasing,  \* blocks whose buffer is recycled and whose slot is not released
  \* -- the caller --
  rx,         \* its receiver: "open", "closed" or "dropped"
  pending,    \* pending_rows
  refused,    \* first_set_only_error
  seen,       \* what poll_next returned
  ended       \* how the stream ended

backendVars == <<response, packet>>
driveVars   == <<drive, cause, cancelled, closing, terminal>>
parserVars  == <<read, parse, todo, batch, result, history>>
poolVars    == <<slots, free, releasing>>
callerVars  == <<rx, pending, refused, seen, ended>>
vars == <<mode, backendVars, driveVars, parserVars, queue, budget, poolVars, callerVars>>

-----------------------------------------------------------------------------
(* Data *)

\* QueryStreamEvent: `i` is the index of a result set, `n` the frame a row, a
\* notice or a tag came from, or the row count of a ResultSetEnd.
Event == [k: {"start", "row", "end", "complete", "notice"}, i: Nat, n: Nat]
Ev(k, i, n) == [k |-> k, i |-> i, n |-> n]

\* PooledRowBatch, with the pool slot and the budget permits it holds; the
\* Vec<Row> of a batch stream holds no slot.
Block == [rows: Seq(Event), bytes: Nat, staging: Nat, permit: Nat, slot: {0, 1}]
NoBlock == [rows |-> <<>>, bytes |-> 0, staging |-> 0, permit |-> 0, slot |-> 0]

\* An await of the parser.  "send" and "flush" take bytes, then a place in the
\* channel; "push" takes a block, "charge" its staging bytes, "add" fills it.
Op == [op: {"send", "push", "charge", "add", "flush"}, ev: Event, permit: Nat]
Await(op, ev) == [op |-> op, ev |-> ev, permit |-> 0]
Send(ev) == Await("send", ev)
Flush == Await("flush", Ev("end", 0, 0))

\* QueuedStreamItem and QueuedBatch
Item == [rows: BOOLEAN, ev: Event, permit: Nat, block: Block]

Eventful == mode # "batches"
Interrupted == closing \/ cancelled
Clamp_low(n) == IF n < 1 THEN 1 ELSE n \* mutant: no upper limit
Clamp(n) == IF n < 1 THEN 1 ELSE IF n > StreamBytes THEN StreamBytes ELSE n

\* The sum of a sequence of natural numbers, as the number of pairs <<i, k>>
\* with k at most the i-th of them
Total(s) == Cardinality(UNION {{i} \X (1..s[i]) : i \in DOMAIN s})

NewParse == [cur |-> FALSE, cached |-> FALSE, tup |-> FALSE, started |-> FALSE,
             index |-> 0, count |-> 0, error |-> FALSE, extra |-> FALSE]

Results == {"ok", "db", "config", "fatal"}
Outcomes == Results \cup {"cancelled", "timeout", "closed"}

TypeOK ==
  /\ mode \in Modes
  /\ response \in Seq([kind: Kinds, size: Nat]) /\ packet \in BOOLEAN
  /\ drive \in {"queued", "run", "cancel", "cleanup", "done"}
  /\ cause \in {"none", "cancelled", "timeout"}
  /\ cancelled \in BOOLEAN /\ closing \in BOOLEAN
  /\ terminal \in Outcomes \cup {"none"}
  /\ read \in 0..Len(response)
  /\ parse \in [cur: BOOLEAN, cached: BOOLEAN, tup: BOOLEAN, started: BOOLEAN,
                index: Nat, count: Nat, error: BOOLEAN, extra: BOOLEAN]
  /\ todo \in Seq(Op) /\ batch \in Block /\ result \in Results \cup {"none"}
  /\ history \in [items: Seq(Nat), bytes: Nat, dropped: Nat]
  /\ queue \in Seq(Item)
  /\ budget \in Nat /\ slots \in Nat /\ free \in Nat /\ releasing \in Nat
  /\ rx \in {"open", "closed", "dropped"} /\ pending \in Block
  /\ refused \in BOOLEAN /\ seen \in Seq(Event)
  /\ ended \in {"no", "clean"} \cup Outcomes

Init ==
  /\ mode \in Modes
  /\ response = <<>> /\ packet = FALSE
  /\ drive = "queued" /\ cause = "none" /\ terminal = "none"
  /\ cancelled = FALSE /\ closing = FALSE
  /\ read = 0 /\ parse = NewParse /\ todo = <<>> /\ batch = NoBlock /\ result = "none"
  /\ history = [items |-> <<>>, bytes |-> 0, dropped |-> 0]
  /\ queue = <<>> /\ budget = StreamBytes
  /\ slots = PoolSize /\ free = PoolSize /\ releasing = 0
  /\ rx = "open" /\ pending = NoBlock /\ refused = FALSE /\ seen = <<>> /\ ended = "no"

-----------------------------------------------------------------------------
(* The byte budget and the block pool *)

\* Permits given back by dropping a block, an item of the queue, an await
Charge(b) == b.staging + b.permit
ItemCharge(item) == item.permit + Charge(item.block)
SumCharge(items) == Total([i \in DOMAIN items |-> ItemCharge(items[i])])
SumSlots(items) == Total([i \in DOMAIN items |-> items[i].block.slot])

\* Drop for PooledRowBatch recycles the buffer; the slot is its last field and
\* is released after that, in a step of its own.
Recycle(n) ==
  /\ free' = free + n
  /\ releasing' = releasing + n
  /\ UNCHANGED slots

ReleaseSlot ==
  /\ releasing > 0
  /\ releasing' = releasing - 1
  /\ slots' = slots + 1
  /\ UNCHANGED <<mode, backendVars, driveVars, parserVars, queue, budget, free, callerVars>>

-----------------------------------------------------------------------------
(* The parser: what a frame makes drain_response_inner do *)

Parsing == drive \in {"run", "cleanup"} /\ result = "none"
Arrived(kind) ==
  Parsing /\ todo = <<>> /\ read < Len(response) /\ response[read + 1].kind = kind

\* The frame is read, `ops` is to be awaited and `p` are the new locals
Then(ops, p) ==
  /\ read' = read + 1
  /\ todo' = ops
  /\ parse' = p
  /\ UNCHANGED <<mode, backendVars, driveVars, batch, queue, budget, poolVars, callerVars>>

\* emit_result_start
StartOps(p) ==
  IF Eventful /\ p.cur /\ ~p.started THEN <<Send(Ev("start", p.index, 0))>> ELSE <<>>
Started(p) == [p EXCEPT !.started = p.started \/ (Eventful /\ p.cur)]

\* finish_response_set
FinishOps_unflushed(p) == \* mutant: staged rows are not flushed
  IF Eventful /\ p.cur THEN StartOps(p) \o <<Send(Ev("end", p.index, p.count))>> ELSE <<>>
FinishOps(p) ==
  <<Flush>> \o
  (IF Eventful /\ p.cur THEN StartOps(p) \o <<Send(Ev("end", p.index, p.count))>> ELSE <<>>)
Finished(p) ==
  IF p.cur THEN [p EXCEPT !.cur = FALSE, !.started = FALSE, !.index = @ + 1, !.count = 0] ELSE p

\* RowDescription ends the set before it.  A batch stream has one set only.
SecondSet(p) == ~Eventful /\ p.index > 0

ReadDesc ==
  /\ Arrived("desc")
  /\ LET p == Finished(parse)
     IN Then(FinishOps(parse),
             [p EXCEPT !.cur = TRUE, !.cached = TRUE, !.tup = FALSE,
                       !.extra = @ \/ SecondSet(p)])
  /\ UNCHANGED <<result, history>>

\* RowDescriptionStandard
ReadStd ==
  /\ Arrived("std")
  /\ Then(<<>>, [parse EXCEPT !.tup = TRUE, !.cur = TRUE])
  /\ UNCHANGED <<result, history>>

\* DataRow needs columns, a DBOS row a tuple descriptor
RowExpected(kind) == IF kind = "dbos" THEN parse.tup ELSE parse.cur \/ parse.cached

ReadRow ==
  \E kind \in {"row", "dbos"} :
    /\ Arrived(kind)
    /\ RowExpected(kind)
    /\ LET p == [parse EXCEPT !.cur = TRUE, !.count = @ + 1]
           push == IF parse.extra THEN <<>> ELSE <<Await("push", Ev("row", 0, read + 1))>>
       IN Then(StartOps(p) \o push, Started(p))
    /\ UNCHANGED <<result, history>>

ReadComplete ==
  /\ Arrived("complete")
  /\ LET p == Started(parse)
         told == IF Eventful
                 THEN StartOps(parse) \o <<Flush, Send(Ev("complete", 0, read + 1))>>
                 ELSE <<>>
     IN Then(told \o FinishOps(p), Finished(p))
  /\ UNCHANGED <<result, history>>

\* NoticeHistory::push evicts from the front until notice n fits; one that can
\* never fit is only counted.
NoticeBytes(items) == Total([i \in DOMAIN items |-> response[items[i]].size])
Evict_kept(h, k) == \* mutant: `bytes` is not lowered
  [h EXCEPT !.items = SubSeq(@, k + 1, Len(@)), !.dropped = @ + k]
Evict(h, k) ==
  [items |-> SubSeq(h.items, k + 1, Len(h.items)),
   bytes |-> h.bytes - NoticeBytes(SubSeq(h.items, 1, k)),
   dropped |-> h.dropped + k]
TooLong(h) == [h EXCEPT !.dropped = @ + 1]

NoticePush(h, n) ==
  LET size == response[n].size
      fits(k) == /\ Len(h.items) - k < HistoryItems
                 /\ Evict(h, k).bytes + size <= HistoryBytes
      room == {k \in 0..Len(h.items) : fits(k)}
      k0 == IF room = {} THEN Len(h.items) ELSE Min(room)
  IN IF size > HistoryBytes THEN TooLong(h)
     ELSE [Evict(h, k0) EXCEPT !.items = Append(@, n), !.bytes = @ + size]

NoticeOps_overtaking == <<Send(Ev("notice", 0, read + 1))>> \* mutant: no flush before
NoticeOps == <<Flush, Send(Ev("notice", 0, read + 1))>>

ReadNotice ==
  /\ Arrived("notice")
  /\ Then(IF Eventful THEN NoticeOps ELSE <<>>, parse)
  /\ history' = NoticePush(history, read + 1)
  /\ UNCHANGED result

\* ErrorResponse: the first one is kept, and the response is read to its end
ReadError ==
  /\ Arrived("error")
  /\ Then(<<>>, [parse EXCEPT !.error = TRUE])
  /\ UNCHANGED <<result, history>>

ReadReady ==
  /\ Arrived("ready")
  /\ Then(FinishOps(parse), Finished(parse))
  /\ result' = IF parse.error THEN "db" ELSE IF parse.extra THEN "config" ELSE "ok"
  /\ UNCHANGED history

\* A frame that cannot be read, an end of file, or a row nobody described
ReadFatal ==
  /\ \/ Arrived("torn")
     \/ \E kind \in {"row", "dbos"} : Arrived(kind) /\ ~RowExpected(kind)
  /\ Then(<<>>, parse)
  /\ result' = "fatal"
  /\ UNCHANGED history

-----------------------------------------------------------------------------
(* The parser: its awaits *)

At(op) == drive \in {"run", "cleanup"} /\ todo # <<>> /\ Head(todo).op = op
Now == Head(todo)
Granted(n) == [Now EXCEPT !.permit = n]

\* QueryStreamEvent payloads: notices have a size, the others count as 1
EventBytes(ev) == Clamp(IF ev.k = "notice" THEN response[ev.n].size ELSE 1)

SendBudget ==
  LET need == EventBytes(Now.ev)
  IN /\ At("send") /\ Now.permit = 0 /\ ~Interrupted
     /\ budget >= need
     /\ budget' = budget - need
     /\ todo' = <<Granted(need)>> \o Tail(todo)
     /\ UNCHANGED <<mode, backendVars, driveVars, read, parse, batch, result, history, queue,
                    poolVars, callerVars>>

SendChannel ==
  /\ At("send") /\ Now.permit > 0 /\ ~Interrupted
  /\ rx = "open" /\ Len(queue) < ChannelCap
  /\ queue' = Append(queue, [rows |-> FALSE, ev |-> Now.ev, permit |-> Now.permit,
                             block |-> NoBlock])
  /\ todo' = Tail(todo)
  /\ UNCHANGED <<mode, backendVars, driveVars, read, parse, batch, result, history, budget,
                 poolVars, callerVars>>

Returned_forgotten == 0 \* mutant: the permit is forgotten
Returned == Now.permit

SendFails ==
  /\ At("send")
  /\ Interrupted \/ (Now.permit > 0 /\ rx # "open")
  /\ budget' = budget + Returned
  /\ todo' = Tail(todo)
  /\ UNCHANGED <<mode, backendVars, driveVars, read, parse, batch, result, history, queue,
                 poolVars, callerVars>>

\* push_row clamps the size of a row, push_stream_batch does not
RowBytes(ev) ==
  IF Eventful THEN Clamp(response[ev.n].size) ELSE response[ev.n].size
Overflows(b, ev) ==
  b.rows # <<>> /\ (Len(b.rows) >= BatchRows \/ b.bytes + RowBytes(ev) > BatchBytes)
Full(b) == Len(b.rows) >= BatchRows \/ b.bytes >= BatchBytes

PushFlushes ==
  /\ At("push") /\ Overflows(batch, Now.ev)
  /\ todo' = <<Flush>> \o todo
  /\ UNCHANGED <<mode, backendVars, driveVars, read, parse, batch, result, history, queue, budget,
                 poolVars, callerVars>>

SlotFree == slots > 0

\* StreamBatchPool::acquire pops a buffer it expects to be there
PushAcquires ==
  /\ At("push") /\ Eventful /\ batch = NoBlock /\ ~Interrupted
  /\ SlotFree
  /\ slots' = slots - 1
  /\ free' = free - 1
  /\ batch' = [NoBlock EXCEPT !.slot = 1]
  /\ todo' = <<Await(IF RowBytes(Now.ev) <= BatchBytes THEN "charge" ELSE "add", Now.ev)>>
               \o Tail(todo)
  /\ UNCHANGED <<mode, backendVars, driveVars, read, parse, result, history, queue, budget,
                 releasing, callerVars>>

PushCharges ==
  /\ At("charge") /\ ~Interrupted
  /\ budget >= BatchBytes
  /\ budget' = budget - BatchBytes
  /\ batch' = [batch EXCEPT !.staging = BatchBytes]
  /\ todo' = <<Await("add", Now.ev)>> \o Tail(todo)
  /\ UNCHANGED <<mode, backendVars, driveVars, read, parse, result, history, queue,
                 poolVars, callerVars>>

PushFails ==
  /\ At("charge") \/ (At("push") /\ Eventful /\ batch = NoBlock)
  /\ Interrupted
  /\ batch' = NoBlock /\ Recycle(batch.slot)
  /\ todo' = Tail(todo)
  /\ UNCHANGED <<mode, backendVars, driveVars, read, parse, result, history, queue, budget, callerVars>>

HasRoom(ev) == (batch # NoBlock \/ ~Eventful) /\ ~Overflows(batch, ev)

PushAdds ==
  /\ At("add") \/ (At("push") /\ HasRoom(Now.ev))
  /\ batch' = [batch EXCEPT !.rows = Append(@, Now.ev), !.bytes = @ + RowBytes(Now.ev)]
  /\ todo' = (IF Full(batch') THEN <<Flush>> ELSE <<>>) \o Tail(todo)
  /\ UNCHANGED <<mode, backendVars, driveVars, read, parse, result, history, queue, budget,
                 poolVars, callerVars>>

\* A batch stream also pays for the row headers
FlushBytes(b) == Clamp(b.bytes + IF Eventful THEN 0 ELSE Len(b.rows))

FlushNothing ==
  /\ At("flush") /\ batch = NoBlock
  /\ todo' = Tail(todo)
  /\ UNCHANGED <<mode, backendVars, driveVars, read, parse, batch, result, history, queue, budget,
                 poolVars, callerVars>>

\* The bytes of the rows are taken before the staging bytes are given back
FlushBudget ==
  LET need == FlushBytes(batch)
  IN /\ At("flush") /\ batch # NoBlock /\ batch.permit = 0 /\ ~Interrupted
     /\ budget >= need
     /\ budget' = budget - need + batch.staging
     /\ batch' = [batch EXCEPT !.permit = need, !.staging = 0]
     /\ UNCHANGED <<mode, backendVars, driveVars, read, parse, todo, result, history, queue,
                    poolVars, callerVars>>

FlushChannel ==
  /\ At("flush") /\ batch.permit > 0 /\ ~Interrupted
  /\ rx = "open" /\ Len(queue) < ChannelCap
  /\ queue' = Append(queue, [rows |-> TRUE, ev |-> Now.ev, permit |-> 0, block |-> batch])
  /\ batch' = NoBlock
  /\ todo' = Tail(todo)
  /\ UNCHANGED <<mode, backendVars, driveVars, read, parse, result, history, budget,
                 poolVars, callerVars>>

FlushRefused_closed == batch.permit > 0 /\ rx # "open" \* mutant: interrupts ignored
FlushRefused == Interrupted \/ (batch.permit > 0 /\ rx # "open")

\* The batch is lost, and so is the row that was waiting for room in it
FlushFails ==
  /\ At("flush") /\ batch # NoBlock
  /\ FlushRefused
  /\ batch' = NoBlock /\ Recycle(batch.slot)
  /\ budget' = budget + Charge(batch)
  /\ LET rest == Tail(todo)
     IN todo' = IF rest # <<>> /\ Head(rest).op = "push" THEN Tail(rest) ELSE rest
  /\ UNCHANGED <<mode, backendVars, driveVars, read, parse, result, history, queue, callerVars>>

-----------------------------------------------------------------------------
(* drive_operation and run_connection *)

\* The statement is over: the parser is dropped with all it holds, the oneshot
\* answered (or dropped) and the sender dropped.
End(how) ==
  /\ drive' = "done"
  /\ terminal' = how
  /\ todo' = <<>> /\ batch' = NoBlock
  /\ budget' = budget + Charge(batch) + (IF todo = <<>> THEN 0 ELSE Now.permit)
  /\ Recycle(batch.slot)
  /\ UNCHANGED <<mode, backendVars, cause, cancelled, closing, read, parse, result, history, queue,
                 callerVars>>

Start ==
  /\ drive = "queued" /\ rx = "open"
  /\ drive' = "run"
  /\ UNCHANGED <<mode, backendVars, cause, cancelled, closing, terminal, parserVars, queue,
                 budget, poolVars, callerVars>>

\* The stream was closed before its turn, or the loop of the driver has ended
SkipRequest ==
  /\ drive = "queued" /\ (rx # "open" \/ closing)
  /\ End("closed")

\* The response future is ready: in the unbiased select, or during cleanup
Return ==
  /\ drive \in {"run", "cleanup"} /\ todo = <<>> /\ result # "none"
  /\ End(IF drive = "run" THEN result ELSE cause)

GiveUp(why) ==
  /\ drive = "run"
  /\ drive' = "cancel" /\ cause' = why
  /\ cancelled' = TRUE
  /\ UNCHANGED <<mode, backendVars, closing, terminal, parserVars, queue, budget, poolVars,
                 callerVars>>

Deadline == GiveUp("timeout")
NoticeInterrupt == Interrupted /\ GiveUp("cancelled")
NoticeClosed == rx # "open" /\ GiveUp("cancelled")

\* cancel_backend, whose failure is ignored, comes before the rest of the
\* response is read.
SendCancel ==
  /\ drive = "cancel"
  /\ drive' = "cleanup"
  /\ packet' \in BOOLEAN
  /\ UNCHANGED <<mode, response, cause, cancelled, closing, terminal, parserVars, queue,
                 budget, poolVars, callerVars>>

\* The 5 s of the cleanup are over
CleanupTimeout == drive \in {"cancel", "cleanup"} /\ End(cause)

\* The Connection future is dropped
DropDriver == drive # "done" /\ End("closed")

\* Client::cancel and Client::close, from any task
Cancel ==
  /\ drive \in {"run", "cleanup"} /\ ~cancelled
  /\ cancelled' = TRUE
  /\ UNCHANGED <<mode, backendVars, drive, cause, closing, terminal, parserVars, queue,
                 budget, poolVars, callerVars>>

Close ==
  /\ drive # "done" /\ ~closing
  /\ closing' = TRUE
  /\ UNCHANGED <<mode, backendVars, drive, cause, cancelled, terminal, parserVars, queue,
                 budget, poolVars, callerVars>>

-----------------------------------------------------------------------------
(* The backend (external): it sends rows only inside a described result set *)

KindAt(p) == response[p].kind
Answered == response # <<>> /\ Last(response).kind \in {"ready", "torn"}

\* Is frame p sent inside a result set that was described and not completed?
InSet(p) ==
  \E q \in 1..(p - 1) : KindAt(q) = "desc" /\ \A r \in (q + 1)..(p - 1) : KindAt(r) # "complete"

Respond(frames) ==
  /\ drive \in {"run", "cancel", "cleanup"} /\ ~Answered
  /\ response' = response \o frames
  /\ UNCHANGED <<mode, driveVars, parserVars, queue, budget, poolVars, callerVars>>

SendFrame ==
  \E f \in Frames :
    /\ Len(response) < MaxFrames
    /\ f.kind \in {"std", "row", "dbos"} => InSet(Len(response) + 1)
    /\ Respond(<<f>>)
    /\ UNCHANGED packet

Ready == [kind |-> "ready", size |-> 0]
Error == [kind |-> "error", size |-> 0]

SendReady == Respond(<<Ready>>) /\ UNCHANGED packet

\* The cancel packet arrives while the statement is executed
StopStatement == packet /\ Respond(<<Error, Ready>>) /\ packet' = FALSE

-----------------------------------------------------------------------------
(* The caller: poll_next of the three streams *)

Polling == rx # "dropped" /\ ended = "no"

\* poll_event hands out the first row of block b and keeps the rest of it
YieldRow(b) ==
  /\ seen' = IF refused THEN seen ELSE Append(seen, Head(b.rows))
  /\ IF Len(b.rows) = 1
     THEN /\ pending' = NoBlock
          /\ Recycle(b.slot)
          /\ budget' = budget + Charge(b)
     ELSE /\ pending' = [b EXCEPT !.rows = Tail(@)]
          /\ UNCHANGED <<poolVars, budget>>
  /\ UNCHANGED <<mode, backendVars, driveVars, parserVars, rx, refused, ended>>

PollPending ==
  /\ Polling /\ pending # NoBlock
  /\ YieldRow(pending)
  /\ UNCHANGED queue

PollRows ==
  /\ Polling /\ Eventful /\ pending = NoBlock /\ queue # <<>> /\ Head(queue).rows
  /\ YieldRow(Head(queue).block)
  /\ queue' = Tail(queue)

PollBatch ==
  /\ Polling /\ ~Eventful /\ queue # <<>>
  /\ seen' = seen \o Head(queue).block.rows
  /\ budget' = budget + ItemCharge(Head(queue))
  /\ queue' = Tail(queue)
  /\ UNCHANGED <<mode, backendVars, driveVars, parserVars, poolVars, rx, pending, refused, ended>>

\* A RowStream skips events, except that a second result set is an error: it
\* closes its receiver and from then on swallows what is left.
PollEvent ==
  /\ Polling /\ pending = NoBlock /\ queue # <<>> /\ ~Head(queue).rows
  /\ LET ev == Head(queue).ev
         second == mode = "rows" /\ ev.k = "start" /\ ev.i > 0 /\ ~refused
     IN /\ seen' = IF mode = "events" THEN Append(seen, ev) ELSE seen
        /\ refused' = (refused \/ second)
        /\ rx' = IF second THEN "closed" ELSE rx
  /\ budget' = budget + ItemCharge(Head(queue))
  /\ queue' = Tail(queue)
  /\ UNCHANGED <<mode, backendVars, driveVars, parserVars, poolVars, pending, ended>>

\* The channel is drained and closed: poll_terminal, poll_batch_terminal
PollTerminal ==
  /\ Polling /\ pending = NoBlock /\ queue = <<>>
  /\ drive = "done" \/ rx = "closed"
  /\ terminal # "none"
  /\ ended' = IF terminal = "ok" \/ (refused /\ terminal = "cancelled") THEN "clean"
              ELSE terminal
  /\ UNCHANGED <<mode, backendVars, driveVars, parserVars, queue, budget, poolVars, rx,
                 pending, refused, seen>>

\* The caller drops the stream with everything in it
DropStream ==
  /\ rx # "dropped"
  /\ rx' = "dropped"
  /\ queue' = <<>> /\ pending' = NoBlock
  /\ budget' = budget + SumCharge(queue) + Charge(pending)
  /\ Recycle(SumSlots(queue) + pending.slot)
  /\ UNCHANGED <<mode, backendVars, driveVars, parserVars, refused, seen, ended>>

-----------------------------------------------------------------------------
Parser ==
  \/ ReadDesc \/ ReadStd \/ ReadRow \/ ReadComplete \/ ReadNotice \/ ReadError
  \/ ReadReady \/ ReadFatal
  \/ SendBudget \/ SendChannel \/ SendFails
  \/ PushFlushes \/ PushAcquires \/ PushCharges \/ PushFails \/ PushAdds
  \/ FlushNothing \/ FlushBudget \/ FlushChannel \/ FlushFails
Drive == Start \/ SkipRequest \/ Return \/ NoticeInterrupt \/ NoticeClosed
         \/ SendCancel
Backend == SendFrame \/ SendReady \/ StopStatement
Poll == PollPending \/ PollRows \/ PollBatch \/ PollEvent \/ PollTerminal

Next ==
  \/ Parser \/ Drive \/ Deadline \/ CleanupTimeout \/ DropDriver \/ ReleaseSlot
  \/ Backend \/ Poll \/ DropStream \/ Cancel \/ Close

Spec == Init /\ [][Next]_vars

\* The driver task is scheduled (parser and select), a drop runs to its end,
\* the cancel socket connects or fails, and the backend completes its response.
\* Nothing is assumed of timers.
DriverFairness ==
  /\ WF_vars(Parser) /\ WF_vars(Drive) /\ WF_vars(ReleaseSlot)
  /\ WF_vars(SendReady)

\* Nothing is assumed of the caller: it may stop polling for ever.
LiveSpec == Spec /\ DriverFairness

-----------------------------------------------------------------------------
(* Properties *)

\* The result set a frame belongs to, counted on the wire: how many sets were
\* opened and then ended (by a tag or the next description) before it.
SetOf(p) ==
  Cardinality({q \in 1..(p - 1) :
    KindAt(q) \in {"desc", "complete"} /\ InSet(q)})

\* The frames a stream owes its caller, the events that tell it of a frame, and
\* the frames it was told of
Owed ==
  {p \in DOMAIN response :
     \/ KindAt(p) \in {"row", "dbos"} /\ (mode = "events" \/ SetOf(p) = 0)
     \/ KindAt(p) \in {"notice", "complete"} /\ mode = "events"}
Tells(ev) == ev.k \in {"row", "notice", "complete"}
Telling == {j \in DOMAIN seen : Tells(seen[j])}
Delivered == {seen[j].n : j \in Telling}
FromFrame(ev) == KindAt(ev.n) \in IF ev.k = "row" THEN {"row", "dbos"} ELSE {ev.k}

\* README: "rows and notices in wire order".  Whatever is cancelled, dropped or
\* refused, and however rows are blocked, what the caller got so far is a
\* gapless prefix of what the backend sent, without duplicates.
DeliveredInWireOrder ==
  /\ Delivered \subseteq Owed
  /\ \A p \in Owed, q \in Delivered : p < q => p \in Delivered
  /\ \A i, j \in Telling : i < j => seen[i].n < seen[j].n
  /\ \A j \in Telling : FromFrame(seen[j])

\* A stream that ends without an error, and that nobody cancelled or closed,
\* has delivered everything.  A row or batch stream, which shows one result set
\* only, does not hide another one: it has reported it by then.
UninterruptedIsComplete ==
  ended = "clean" /\ ~Interrupted =>
    /\ Delivered = Owed
    /\ mode = "events" \/ refused \/ \A p \in DOMAIN response :
         KindAt(p) = "desc" => ~InSet(p) /\ SetOf(p) = 0

\* The test native_cancel_with_full_event_queue_drains_and_reuses_session of
\* tests/mock_server.rs: who polls a cancelled stream that lost rows is told
\* so.  As a property: no error at the end means that nothing is missing.
CleanEndIsComplete == ended = "clean" /\ ~refused => Delivered = Owed

\* Event j of a stream is a row or an end: a start opens its set, and no other
\* start or end comes between the two.
Opens(events, s, j) ==
  /\ events[s].k = "start"
  /\ \A h \in (s + 1)..(j - 1) : events[h].k \notin {"start", "end"}
  /\ events[j].k = "row" => events[s].i = SetOf(events[j].n)
  /\ events[j].k = "end" =>
       /\ events[s].i = events[j].i
       /\ events[j].n = Cardinality({h \in s..j : events[h].k = "row"})
Bracketed(events) ==
  \A j \in DOMAIN events :
    events[j].k \in {"row", "end"} => \E s \in 1..(j - 1) : Opens(events, s, j)

\* ResultSetStart and ResultSetEnd bracket exactly the rows of their set, with
\* the set's index on the wire and its true row count.
SetsBracketed == mode = "events" => Bracketed(seen)

\* Together: the caller is told of rows, notices, tags and sets as they came.
EventsFaithful == DeliveredInWireOrder /\ SetsBracketed

\* The notices read, those the history has, and those it gave up for others
Notices == {p \in 1..read : KindAt(p) = "notice"}
Remembered == {history.items[i] : i \in DOMAIN history.items}
Evicted == {p \in Notices \ Remembered : response[p].size <= HistoryBytes}

\* dropped_notices() and notices() account for every notice read: the history
\* is the newest of them that fit, as many as fit, and the rest is counted.
HistoryAccounts ==
  LET items == history.items
  IN /\ Remembered \subseteq Notices
     /\ \A i, j \in DOMAIN items : i < j => items[i] < items[j]
     /\ Len(items) <= HistoryItems /\ NoticeBytes(items) <= HistoryBytes
     /\ \A p \in Evicted, q \in Remembered : p < q
     /\ \A p \in Evicted : (\A q \in Evicted : q <= p) =>
          \/ Len(items) = HistoryItems
          \/ NoticeBytes(items) + response[p].size > HistoryBytes
     /\ history.dropped = Cardinality(Notices) - Len(items)

Blocks == {batch, pending} \cup {queue[i].block : i \in DOMAIN queue}

\* Every byte of the budget is available or held by exactly one await, block
\* or queued item, through failures and drops: none leaks, none is returned
\* twice.
BudgetConserved ==
  budget + SumCharge(queue) + Charge(pending) + Charge(batch)
    + (IF todo = <<>> THEN 0 ELSE Now.permit) = StreamBytes

\* The `expect` of StreamBatchPool::acquire: a free slot comes with a buffer.
BufferForEverySlot == slots <= free

\* The comment at STREAM_BATCH_POOL_SIZE: the pool bounds the rows that are
\* retained, staged, queued or held by the stream.
RetainedRowsBounded ==
  Eventful =>
    Len(batch.rows) + Len(pending.rows)
      + Total([i \in DOMAIN queue |-> Len(queue[i].block.rows)]) <= PoolSize * BatchRows

\* Rows are paid for while they are retained: a staged block never outgrows its
\* permits, unless it is one row beyond BatchBytes on its way out.
RowsArePaidFor ==
  Eventful =>
    \A b \in Blocks :
      \/ b.bytes <= Charge(b) \/ Charge(b) = StreamBytes
      \/ Len(b.rows) = 1 /\ b.bytes > BatchBytes /\ b = batch
         /\ todo # <<>> /\ Now.op = "flush"

\* Slots, buffers and bytes are conserved through every failure and drop, and
\* bound the rows retained in the parser, the channel and the stream together.
ResourcesConserved ==
  TypeOK /\ BudgetConserved /\ BufferForEverySlot /\ RetainedRowsBounded /\ RowsArePaidFor

\* A caller that keeps polling reaches the end of its stream, whatever the
\* sizes of rows and notices: slot, budget and channel never wait in a circle.
PolledStreamEnds ==
  WF_vars(Poll) => (rx # "dropped" ~> (ended # "no" \/ rx = "dropped"))

\* CHANGELOG: "Native cancellation/close bypass backpressure".  A statement
\* whose caller stopped polling, dropped the stream, or cancelled it ends
\* through ReadyForQuery, without the timeout of the cleanup.
InterruptBypassesBackpressure ==
  drive \in {"queued", "run"} /\ (closing \/ cancelled \/ rx # "open") ~> drive = "done"
=============================================================================
