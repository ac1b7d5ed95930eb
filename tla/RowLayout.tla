------------------------------- MODULE RowLayout -------------------------------
(***************************************************************************)
(* Where the fields of a row lie.  A row message is decoded at once by the *)
(* synchronous client (parse_row_classified for binary DBOS rows,          *)
(* parse_text_data_row_classified for text rows) or kept as bytes by the   *)
(* native client, which validates its layout and finds a field when it is  *)
(* asked for (RawRowData in src/src/connection.rs).  The model runs both   *)
(* ways on one row.                                                        *)
(*                                                                         *)
(* A row is its length, the set of its NULL fields (the bitmap) and, for   *)
(* every offset a length prefix can be read at, the number that stands     *)
(* there.  The bytes of a value are left out: an extent <<first, end>>     *)
(* says which bytes a field was decoded from.                              *)
(***************************************************************************)
EXTENDS Integers, Sequences

VARIABLES
  row,       \* the payload: text or binary, len, nulls, at
  desc,      \* its DbosTupleDesc, if it is a binary row
  progress,  \* RawRowData.layout_progress: cursor and spans found so far
  seen       \* what the accessors of the kept row answered

vars == <<row, desc, progress, seen>>

Bad == <<>>
NullField == <<"null">>

--------------------------------------------------------------------------------
(* Binary rows: two reserved bytes, the null bitmap, fixed fields at their *)
(* offsets, then the varying fields from fixedSize on, each with a length  *)
(* that counts its own two bytes, padded to an even size.                  *)

\* The descriptors DbosTupleDesc::parse accepts for two columns.
Field(type, fixed, width, offset) ==
  [type |-> type, fixed |-> fixed, width |-> width, offset |-> offset]

Fields == {Field("int", TRUE, 2, 4), Field("int", TRUE, 2, 6), Field("text", TRUE, 3, 4),
           Field("text", FALSE, 0, 0), Field("text", FALSE, 0, 1), Field("opaque", FALSE, 0, 0)}

Descriptors ==
  [fixedSize : {4, 6}, varying : 0 .. 2, nullsAllowed : BOOLEAN,
   fields : {<<f, g>> : f \in Fields, g \in Fields}]

Columns == 1 .. 2

Encoded(o) == IF o \in DOMAIN row.at THEN row.at[o] ELSE 0

\* validate_row_bitmap: the bitmap byte of every field lies in the row.
BitmapFits == row.len >= 2 /\ (desc.nullsAllowed => row.len > 2)

IsNull(i) == desc.nullsAllowed /\ i \in row.nulls

\* Start of the varying field after j of them, by the parser's pre-pass.
VaryingStart ==
  LET start[j \in 0 .. desc.varying] ==
        IF j = 0 THEN desc.fixedSize
        ELSE LET at == start[j - 1]
                 end == at + Encoded(at)
                 next == IF Encoded(at) % 2 = 0 THEN end ELSE end + 1
             IN IF at = -1 \/ at + 2 > row.len THEN -1
                ELSE IF Encoded(at) < 2 \/ end > row.len \/ next > row.len THEN -1 ELSE next
  IN start

\* row_field_start: -1 is its error.
FieldStart(i) ==
  LET f == desc.fields[i]
  IN IF f.fixed THEN IF f.offset + f.width > row.len THEN -1 ELSE f.offset
     ELSE IF desc.varying > 0
          THEN IF f.offset >= desc.varying THEN -1 ELSE VaryingStart[f.offset]
          ELSE IF desc.fixedSize > row.len THEN -1 ELSE desc.fixedSize

\* validate_row_field_storage: a field with a length of its own stays inside
\* the row and, in the fixed area, inside its own width.
StorageFits(i, start) ==
  LET f == desc.fields[i]
  IN f.type = "text" =>
       /\ start + 2 <= row.len
       /\ Encoded(start) >= 2 /\ start + Encoded(start) <= row.len
       /\ f.fixed => Encoded(start) <= f.width

\* parse_field_into: the bytes the value is made from.
ParseField(i, start) ==
  LET f == desc.fields[i]
  IN IF f.type = "int" \/ (f.type = "opaque" /\ f.fixed)
     THEN IF start + f.width > row.len THEN Bad ELSE <<start, start + f.width>>
     ELSE IF start + 2 > row.len \/ Encoded(start) < 2 \/ start + Encoded(start) > row.len
          THEN Bad ELSE <<start + 2, start + Encoded(start)>>

\* parse_row_classified: every field's storage is checked before any is decoded.
EagerDbos ==
  IF /\ BitmapFits
     /\ VaryingStart[desc.varying] # -1
     /\ \A i \in Columns : IsNull(i) \/ (FieldStart(i) # -1 /\ StorageFits(i, FieldStart(i)))
  THEN [i \in Columns |-> IF IsNull(i) THEN NullField ELSE ParseField(i, FieldStart(i))]
  ELSE Bad

\* validate_row_layout: the spans of the varying fields, Bad when the row is refused.
VaryingSpans ==
  LET scan[j \in 0 .. desc.varying] ==
        IF j = 0 THEN [cursor |-> desc.fixedSize, spans |-> <<>>]
        ELSE LET s == scan[j - 1]
                 end == s.cursor + Encoded(s.cursor)
                 next == end + (Encoded(s.cursor) % 2)
             IN IF s = Bad THEN Bad
                ELSE IF s.cursor + 2 > row.len \/ Encoded(s.cursor) < 2 \/ next > row.len THEN Bad
                ELSE [cursor |-> next, spans |-> Append(s.spans, <<s.cursor, end>>)]
  IN scan[desc.varying]

LayoutFits ==
  /\ BitmapFits
  /\ VaryingSpans # Bad
  /\ \A i \in Columns : IsNull(i) \/
       LET f == desc.fields[i]
       IN IF f.fixed THEN f.offset + f.width <= row.len
          ELSE IF desc.varying > 0 THEN f.offset < desc.varying
          ELSE desc.fixedSize <= row.len

\* dbos_span of the kept row.
DbosSpan(i) ==
  LET f == desc.fields[i]
  IN IF f.fixed THEN <<f.offset, f.offset + f.width>>
     ELSE IF desc.varying = 0 THEN <<desc.fixedSize, row.len>>
     ELSE VaryingSpans.spans[f.offset + 1]

\* decode_value, and what field_bytes lends of the same field.
LazyDbos(i) == IF IsNull(i) THEN NullField ELSE ParseField(i, DbosSpan(i)[1])

FieldBytes(i) ==
  LET f == desc.fields[i] IN
  IF IsNull(i) THEN NullField
  ELSE IF f.fixed \/ desc.varying = 0 THEN DbosSpan(i)
  ELSE <<DbosSpan(i)[1] + 2, DbosSpan(i)[1] + Encoded(DbosSpan(i)[1])>>

--------------------------------------------------------------------------------
(* Text rows: one bitmap byte, then per column that is not NULL a length   *)
(* that counts its own four bytes, and the value.                          *)

TextColumns == 1 .. 3
BitmapLen == 1

\* validate_text_row: where the scan stands after j columns; -1 is an error.
TextScan ==
  LET index[j \in 0 .. 3] ==
        IF j = 0 THEN IF row.len < BitmapLen THEN -1 ELSE BitmapLen
        ELSE LET at == index[j - 1]
             IN IF at = -1 \/ j \in row.nulls THEN at
                ELSE IF at + 4 > row.len \/ Encoded(at) < 4 \/ at + Encoded(at) > row.len
                     THEN -1 ELSE at + Encoded(at)
  IN index

TextValid == TextScan[3] = row.len

\* parse_text_data_row_classified.
EagerText ==
  IF ~TextValid THEN Bad
  ELSE [i \in TextColumns |->
          IF i \in row.nulls THEN NullField ELSE <<TextScan[i - 1] + 4, TextScan[i]>>]

\* A NULL column is taken to have a length.
NextSpan_counted(p) ==
  [cursor |-> p.cursor + Encoded(p.cursor),
   spans |-> Append(p.spans, <<p.cursor + 4, p.cursor + Encoded(p.cursor)>>)]

\* One turn of ensure_text_spans.
NextSpan(p) ==
  IF Len(p.spans) + 1 \in row.nulls
  THEN [p EXCEPT !.spans = Append(@, <<p.cursor, p.cursor>>)]
  ELSE [cursor |-> p.cursor + Encoded(p.cursor),
        spans |-> Append(p.spans, <<p.cursor + 4, p.cursor + Encoded(p.cursor)>>)]

\* ensure_text_spans, up to and including column i.
EnsureTextSpans(i) ==
  LET ensured[n \in 0 .. 3] ==
        IF n = 0 THEN progress
        ELSE IF Len(ensured[n - 1].spans) < i THEN NextSpan(ensured[n - 1]) ELSE ensured[n - 1]
  IN ensured[3]

\* text_span.
TextSpan(p, i) == IF i \in row.nulls THEN NullField ELSE p.spans[i]

--------------------------------------------------------------------------------
\* A row as it comes off the wire, with the numbers a server may have put
\* where a length is read, right or wrong.
Init ==
  /\ \/ /\ desc \in Descriptors
        /\ row \in [text : {FALSE}, len : {2, 4, 5, 6, 8, 9, 10}, nulls : {{}, {1}}, at : [{4, 6, 8} -> {1, 2, 3, 4}]]
        /\ desc.nullsAllowed = (row.nulls # {})
        /\ progress = [cursor |-> desc.fixedSize, spans |-> <<>>]
     \/ /\ desc = [fixedSize |-> 0, varying |-> 0, nullsAllowed |-> TRUE, fields |-> <<>>]
        /\ row \in [text : {TRUE}, len : {0, 1, 4, 5, 6, 9, 10, 11, 14}, nulls : SUBSET TextColumns,
                    at : [{1, 5, 6, 9, 10, 11} -> {3, 4, 5}]]
        /\ progress = [cursor |-> BitmapLen, spans |-> <<>>]
  /\ seen = [i \in {} |-> Bad]

\* value(i) or field_bytes(i) of a kept text row: the spans up to i are found
\* under the layout_progress lock, and kept.
ReadText(i) ==
  /\ row.text /\ TextValid
  /\ progress' = EnsureTextSpans(i)
  /\ seen' = [j \in DOMAIN seen \cup {i} |-> IF j = i THEN TextSpan(progress', i) ELSE seen[j]]
  /\ UNCHANGED <<row, desc>>

\* decode_all of a kept text row.
ReadAllText ==
  /\ row.text /\ TextValid
  /\ progress' = EnsureTextSpans(3)
  /\ seen' = [i \in TextColumns |-> TextSpan(progress', i)]
  /\ UNCHANGED <<row, desc>>

\* value(i) of a kept binary row: its spans were found when it was made.
ReadDbos(i) ==
  /\ ~row.text /\ LayoutFits
  /\ seen' = [j \in DOMAIN seen \cup {i} |-> IF j = i THEN LazyDbos(i) ELSE seen[j]]
  /\ UNCHANGED <<row, desc, progress>>

Next ==
  \/ \E i \in TextColumns : ReadText(i)
  \/ ReadAllText
  \/ \E i \in Columns : ReadDbos(i)

Spec == Init /\ [][Next]_vars

--------------------------------------------------------------------------------
(* Properties *)

Extents(answers) == {answers[i] : i \in DOMAIN answers} \ {NullField, Bad}

\* A row the synchronous client decodes is a row the native client keeps, and
\* every field then has the same bytes whatever the order the fields are asked
\* for in: RawRowData finds them one by one, parse_row_classified and
\* parse_text_data_row_classified in one pass.
SameFields ==
  LET eager == IF row.text THEN EagerText ELSE EagerDbos
  IN eager # Bad =>
       /\ ~row.text => LayoutFits
       /\ \A i \in DOMAIN seen : seen[i] = eager[i]

\* No accessor of a kept row reads outside the row, the fields of a text row do
\* not overlap, and the bytes field_bytes lends for a binary field lie inside the
\* row and cover the decoded value.  Text in the fixed area is excepted: only the
\* eager decoder holds its length against the width of the field, so a kept row may
\* decode more of the row than it lends.
InsideRow ==
  /\ \A e \in Extents(seen) : e[1] <= e[2] /\ e[2] <= row.len
  /\ row.text =>
       \A i, j \in DOMAIN seen :
         i < j /\ {seen[i], seen[j]} \subseteq Extents(seen) => seen[i][2] + 4 <= seen[j][1]
  /\ ~row.text =>
       \A i \in DOMAIN seen :
         LET lent == FieldBytes(i)
         IN seen[i] \in Extents(seen) /\ ~(desc.fields[i].fixed /\ desc.fields[i].type = "text") =>
              lent[1] <= seen[i][1] /\ seen[i][2] <= lent[2] /\ lent[2] <= row.len
================================================================================
