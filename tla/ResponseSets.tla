----------------------------- MODULE ResponseSets -----------------------------
(***************************************************************************)
(* What NzConnection makes of one response (src/src/connection.rs): the    *)
(* same loop, drain_response_with_sink, either collects result sets for    *)
(* query() or feeds a QueryStreamSink for execute_stream().  Both are kept *)
(* here side by side on one response, message by message.  The collected   *)
(* sets are then walked with NzDataReader (src/src/reader.rs).             *)
(*                                                                         *)
(* Columns are the number of the message that described them, 0 when it    *)
(* described none; a row is the number of its message.                     *)
(***************************************************************************)
EXTENDS Integers, Sequences, FiniteSets

CONSTANTS
  MaxMessages, \* bound: messages of the response
  MaxMoves,    \* bound: calls of the reader
  None

VARIABLES
  server,    \* where the server is in the statement it answers
  count,     \* messages so far
  affected,  \* rows_affected; -1 when no count was seen
  failed,    \* an ErrorResponse was seen
  cached,    \* cached_columns
  current,   \* query(): the open ResultSet
  sets,      \* query(): the sets that are complete
  open,      \* execute_stream(): current_result_set_index
  streamed,  \* execute_stream(): stream_result_sets with columns_sent, and
             \* whether a RowDescription opened the set (not kept by the code)
  calls,     \* execute_stream(): what the sink was told
  refused,   \* execute_stream(): sink_error
  reader,    \* NzDataReader: set_idx, row_idx, result_complete, closed
  seen,      \* rows read() stopped at
  moves

bufferVars == <<cached, current, sets>>
streamVars == <<open, streamed, calls, refused>>
readerVars == <<reader, seen, moves>>
vars == <<server, count, affected, failed, bufferVars, streamVars, readerVars>>

Set == [columns : Nat, rows : Seq(Nat)]

TypeOK ==
  /\ server \in {"between", "text", "binary", "aborted", "done"}
  /\ count \in Nat /\ moves \in Nat /\ affected \in Nat \cup {-1} /\ failed \in BOOLEAN
  /\ cached \in Nat \cup {None}
  /\ current \in Set \cup {None} /\ sets \in Seq(Set)
  /\ open \in Nat \cup {None} /\ refused \in BOOLEAN
  /\ streamed \in Seq([columns : Nat, rows : Nat, sent : BOOLEAN, text : BOOLEAN])
  /\ calls \in Seq([on : {"columns", "values", "complete"}, set : Nat])
  /\ reader \in [set : Nat, row : Nat, complete : BOOLEAN, closed : BOOLEAN]
  /\ seen \in Seq(Nat \X Nat)

Init ==
  /\ server = "between" /\ count = 0 /\ affected = -1 /\ failed = FALSE
  /\ cached = None /\ current = None /\ sets = <<>>
  /\ open = None /\ streamed = <<>> /\ calls = <<>> /\ refused = FALSE
  /\ reader = [set |-> 1, row |-> 0, complete |-> FALSE, closed |-> FALSE]
  /\ seen = <<>> /\ moves = 0

-----------------------------------------------------------------------------
(* Helpers of the two paths *)

\* flush_current: an empty set without columns is not kept
Flushed ==
  IF current = None \/ (current.rows = <<>> /\ current.columns = 0)
  THEN sets ELSE Append(sets, current)

\* What the sink side knows: its sets, the calls made, has it refused one?
Sink == [open |-> open, sets |-> streamed, calls |-> calls, refused |-> refused]

\* record_stream_sink_result for one callback: the sink says yes or no; once
\* it has refused it is not called again
Told(s, call, no) ==
  IF s.refused THEN s
  ELSE [s EXCEPT !.calls = Append(@, call), !.refused = no]

\* ensure_stream_result_set
Ensured(s, columns, isText) ==
  IF s.open # None THEN s
  ELSE [s EXCEPT !.open = Len(s.sets) + 1,
                 !.sets = Append(@, [columns |-> columns, rows |-> 0, sent |-> FALSE,
                                      text |-> isText])]

\* emit_stream_columns
ColumnsTold(s, i, no) ==
  IF s.sets[i].sent THEN s
  ELSE [Told(s, [on |-> "columns", set |-> i], no) EXCEPT !.sets[i].sent = TRUE]

\* emit_stream_row
RowTold(s, i, noColumns, noRow) ==
  [Told(ColumnsTold(s, i, noColumns), [on |-> "values", set |-> i], noRow)
     EXCEPT !.sets[i].rows = @ + 1]

\* finish_stream_result_set
Finished(s, no) ==
  IF s.open = None THEN s ELSE [ColumnsTold(s, s.open, no) EXCEPT !.open = None]

Becomes(s) == open' = s.open /\ streamed' = s.sets /\ calls' = s.calls /\ refused' = s.refused

\* A message of the response
Arrives(from, to) ==
  /\ server \in from /\ server' = to
  /\ count < MaxMessages /\ count' = count + 1
  /\ UNCHANGED readerVars

-----------------------------------------------------------------------------
(* The messages; the sink may refuse any callback *)

RowDescription ==
  /\ Arrives({"between"}, "text")
  /\ sets' = Flushed
  /\ cached' \in {count', 0}
  /\ current' = [columns |-> cached', rows |-> <<>>]
  /\ \E no \in BOOLEAN : Becomes(Ensured(Finished(Sink, no), cached', TRUE))
  /\ UNCHANGED <<affected, failed>>

\* The binary descriptor belongs to the set of the RowDescription before it.
\* Without one it gets the columns the response described last, or names of its
\* own if there are none.  The sink has a set and sees its columns at once;
\* query() opens one only for a row.  (A descriptor that has not as many fields
\* as the columns described last fails the response on both paths.)
RowDescriptionStandard ==
  /\ Arrives({"between", "text"}, "binary")
  /\ cached' \in IF current = None /\ cached = None THEN {count', 0} ELSE {cached}
  /\ \E no \in BOOLEAN :
       LET s == Ensured(Sink, cached', FALSE) IN Becomes(ColumnsTold(s, s.open, no))
  /\ UNCHANGED <<affected, failed, current, sets>>

\* push_existing_row, and the sink's row
WithRow(set, columns, row) ==
  IF set = None THEN [columns |-> columns, rows |-> <<row>>]
  ELSE [set EXCEPT !.rows = Append(@, row)]

Row ==
  /\ Arrives({"text", "binary"}, server)
  /\ current' = WithRow(current, cached, count')
  /\ \E noColumns, noRow \in BOOLEAN :
       LET s == Ensured(Sink, cached, FALSE) IN Becomes(RowTold(s, s.open, noColumns, noRow))
  /\ UNCHANGED <<affected, failed, cached, sets>>

\* valid framing, but a value cannot be decoded: both paths drop the row
UndecodableRow ==
  /\ Arrives({"text", "binary"}, server)
  /\ UNCHANGED <<affected, failed, bufferVars, streamVars>>

\* parse_command_complete_rows answers n, -1 for a command without a count
Accumulated(n) == IF n < 0 THEN affected ELSE IF affected < 0 THEN n ELSE affected + n

CommandComplete ==
  /\ Arrives({"between", "text", "binary"}, "between")
  /\ \E n \in {-1, 1} : affected' = Accumulated(n)
  /\ sets' = Flushed /\ current' = None
  /\ \E noColumns, no \in BOOLEAN :
       Becomes(Told(Finished(Sink, noColumns), [on |-> "complete", set |-> 0], no))
  /\ UNCHANGED <<failed, cached>>

\* the server gives up the batch
ErrorResponse ==
  /\ Arrives({"between", "text", "binary"}, "aborted")
  /\ failed' = TRUE
  /\ UNCHANGED <<affected, bufferVars, streamVars>>

\* run_batch and run_batch_stream report the rows when no count was sent
RowsOf(s) == LET n[i \in 0..Len(s)] == IF i = 0 THEN 0 ELSE n[i - 1] + Len(s[i].rows)
             IN n[Len(s)]
StreamedRows == LET n[i \in 0..Len(streamed)] == IF i = 0 THEN 0 ELSE n[i - 1] + streamed[i].rows
                IN n[Len(streamed)]

ReadyForQuery ==
  /\ server \in {"between", "aborted"} /\ server' = "done"
  /\ sets' = Flushed /\ current' = None
  /\ \E no \in BOOLEAN : Becomes(Finished(Sink, no))
  /\ UNCHANGED <<count, affected, failed, cached, readerVars>>

-----------------------------------------------------------------------------
(* NzDataReader: a batch without a result set still has one, empty *)

Result == IF sets = <<>> THEN <<[columns |-> 0, rows |-> <<>>]>> ELSE sets

Moving == /\ server = "done" /\ ~failed /\ moves < MaxMoves
          /\ moves' = moves + 1
          /\ UNCHANGED <<server, count, affected, failed, bufferVars, streamVars>>

\* read() answers true: the reader is on the next row
Read ==
  /\ Moving /\ ~reader.closed /\ ~reader.complete
  /\ reader.row < Len(Result[reader.set].rows)
  /\ reader' = [reader EXCEPT !.row = @ + 1]
  /\ seen' = Append(seen, <<reader.set, reader.row + 1>>)

\* read() answers false; the end of a set stays its end
AtEnd_rewinds == [reader EXCEPT !.row = 0] \* mutant: result_complete is not set
AtEnd == [reader EXCEPT !.row = 0, !.complete = TRUE]

ReadEnd ==
  /\ Moving /\ ~reader.closed /\ ~reader.complete
  /\ reader.row = Len(Result[reader.set].rows)
  /\ reader' = AtEnd
  /\ UNCHANGED seen

NextResult ==
  /\ Moving /\ ~reader.closed /\ reader.set < Len(Result)
  /\ reader' = [reader EXCEPT !.set = @ + 1, !.row = 0, !.complete = FALSE]
  /\ UNCHANGED seen

CloseReader ==
  /\ Moving /\ ~reader.closed
  /\ reader' = [reader EXCEPT !.closed = TRUE]
  /\ UNCHANGED seen

-----------------------------------------------------------------------------
Next ==
  \/ RowDescription \/ RowDescriptionStandard \/ Row \/ UndecodableRow
  \/ CommandComplete \/ ErrorResponse \/ ReadyForQuery
  \/ Read \/ ReadEnd \/ NextResult \/ CloseReader

Spec == Init /\ [][Next]_vars

-----------------------------------------------------------------------------
(* Properties *)

\* query() and execute_stream() report the same sets with the same columns and
\* numbers of rows, for every response and whatever the sink refused on the way,
\* except that query() leaves out a set without rows which has no columns or no
\* RowDescription.  The number of rows, reported as affected where the server
\* sent no count, is the same.
BothPathsAgree ==
  LET kept == SelectSeq(streamed, LAMBDA s : s.rows > 0 \/ (s.text /\ s.columns # 0))
  IN server = "done" =>
       /\ [i \in DOMAIN sets |-> <<sets[i].columns, Len(sets[i].rows)>>]
            = [i \in DOMAIN kept |-> <<kept[i].columns, kept[i].rows>>]
       /\ RowsOf(sets) = StreamedRows

\* The sink sees the columns of every set once, before its rows, set after
\* set, and is not called again once it has refused.
OnColumns(i) == {k \in DOMAIN calls : calls[k] = [on |-> "columns", set |-> i]}
SinkInOrder ==
  /\ \A i \in DOMAIN streamed : Cardinality(OnColumns(i)) <= 1
  /\ \A k \in DOMAIN calls : calls[k].on = "values" =>
       \E j \in OnColumns(calls[k].set) : j < k
  /\ \A j, k \in DOMAIN calls :
       j < k /\ calls[j].on # "complete" /\ calls[k].on # "complete"
         => calls[j].set <= calls[k].set
  /\ server = "done" /\ ~refused =>
       \A i \in DOMAIN streamed :
         /\ OnColumns(i) # {}
         /\ streamed[i].rows
              = Cardinality({k \in DOMAIN calls : calls[k] = [on |-> "values", set |-> i]})

\* Whatever order read(), next_result() and close() are called in, the reader
\* stops at each row at most once, in order and without a gap, and has shown
\* all rows of a set it says is at its end.
ReaderInOrder ==
  /\ \A k \in DOMAIN seen :
       seen[k][2] > 1 => k > 1 /\ seen[k - 1] = <<seen[k][1], seen[k][2] - 1>>
  /\ \A j, k \in DOMAIN seen : j < k => seen[j][1] <= seen[k][1] /\ seen[j] # seen[k]
  /\ reader.complete =>
       \A r \in DOMAIN Result[reader.set].rows :
         \E k \in DOMAIN seen : seen[k] = <<reader.set, r>>
===============================================================================
