-------------------------------- MODULE SqlText --------------------------------
(***************************************************************************)
(* SQL text as the driver reads it.  The server has no bind message, so    *)
(* src/src/params.rs finds the placeholders of a statement and writes the  *)
(* values into the text; src/src/messages.rs splits a text into statements *)
(* to follow the transaction state.  Both step over string literals,       *)
(* quoted names, comments and dollar-quoted bodies, each with code of its  *)
(* own.                                                                    *)
(*                                                                         *)
(* A text is a sequence of characters; "nl" is a newline, "proc" and       *)
(* "endproc" the words BEGIN_PROC and END_PROC, "chr" the text             *)
(* ` || chr(92) || ` that stands for a backslash, "0" and "1" the digits,  *)
(* "a" any letter.                                                         *)
(***************************************************************************)
EXTENDS Integers, Sequences, SequencesExt

CONSTANTS
  Openings,  \* texts the exploration starts from
  Alphabet,  \* characters they are continued with
  MaxAdded,  \* bound: characters added
  Values     \* values to bind

VARIABLES
  text,   \* the SQL text
  added   \* characters added to the opening

vars == <<text, added>>

Letters == {"a", "proc", "endproc", "NULL"}
Digits == {"0", "1"}
WordPart == Letters \cup Digits \cup {"$"}
Quotes == {"'", "\""}

At(s, i) == IF i \in DOMAIN s THEN s[i] ELSE "end"
Piece(s, i, j) == SubSeq(s, i, j - 1)
\* Does w stand at i?
StartsWith(s, i, w) == i + Len(w) <= Len(s) + 1 /\ Piece(s, i, i + Len(w)) = w

\* The first position from i on where w stands; 0 if there is none.
Find(s, i, w) ==
  LET found == {k \in i .. Len(s) : StartsWith(s, k, w)}
  IN IF found = {} THEN 0 ELSE CHOOSE k \in found : \A j \in found : k <= j

--------------------------------------------------------------------------------
(* The scanner of params.rs.  Each operator answers the position after the *)
(* region that starts at i.                                                *)

LineCommentEnd(s, i) == LET k == Find(s, i, <<"nl">>) IN IF k = 0 THEN Len(s) + 1 ELSE k + 1

\* block_comment_end: comments nest.
BlockCommentEnd(s, i) ==
  LET end[k \in 1 .. Len(s) + 2, depth \in 0 .. Len(s)] ==
        IF k >= Len(s) THEN Len(s) + 1
        ELSE IF StartsWith(s, k, <<"/", "*">>) THEN end[k + 2, depth + 1]
        ELSE IF StartsWith(s, k, <<"*", "/">>)
             THEN IF depth = 1 THEN k + 2 ELSE end[k + 2, depth - 1]
        ELSE end[k + 1, depth]
  IN end[i + 2, 1]

\* A doubled quote stays inside.
QuotedEnd(s, i) ==
  LET end[k \in 1 .. Len(s) + 2] ==
        IF k > Len(s) THEN Len(s) + 1
        ELSE IF s[k] # s[i] THEN end[k + 1]
        ELSE IF At(s, k + 1) = s[i] THEN end[k + 2] ELSE k + 1
  IN end[i + 1]

\* dollar_tag_str: $name$ or $$; <<>> when there is none.
DollarTag(s, i) ==
  LET k == Find(s, i + 1, <<"$">>)
  IN IF k # 0 /\ \A j \in i + 1 .. k - 1 : s[j] \in Letters THEN Piece(s, i, k + 1) ELSE <<>>

DollarBodyEnd(s, i, tag) ==
  LET k == Find(s, i + Len(tag), tag) IN IF k = 0 THEN Len(s) + 1 ELSE k + Len(tag)

\* dollar_number: the position after the digits of $1.
DollarNumberEnd(s, i) ==
  LET ends == {k \in i + 1 .. Len(s) + 1 : \A j \in i + 1 .. k - 1 : s[j] \in Digits}
  IN CHOOSE k \in ends : \A j \in ends : j <= k

\* The end of the name after a colon or an at sign (is_identifier_part).
NameEnd(s, i) ==
  LET ends == {k \in i + 1 .. Len(s) + 1 : \A j \in i + 1 .. k - 1 : s[j] \in WordPart}
  IN CHOOSE k \in ends : \A j \in ends : j <= k

Item(kind, from, to) == [kind |-> kind, from |-> from, to |-> to]

\* The items of a text as ItemAt reads them one after another.
Items(s, ItemAt(_, _)) ==
  LET items[i \in 1 .. Len(s) + 1] ==
        IF i > Len(s) THEN <<>> ELSE LET item == ItemAt(s, i) IN <<item>> \o items[item.to]
  IN items[1]

\* params.rs scans in three places, each with a loop of its own.  First the one
\* of SqlTemplate::parse: placeholders are numbers.
TemplateItem(s, i) ==
  CASE StartsWith(s, i, <<"-", "-">>) -> Item("comment", i, LineCommentEnd(s, i))
    [] StartsWith(s, i, <<"/", "*">>) -> Item("comment", i, BlockCommentEnd(s, i))
    [] s[i] \in Quotes -> Item("quoted", i, QuotedEnd(s, i))
    [] s[i] = "$" /\ DollarTag(s, i) # <<>> -> Item("body", i, DollarBodyEnd(s, i, DollarTag(s, i)))
    [] s[i] = "$" /\ At(s, i + 1) \in Digits -> Item("number", i, DollarNumberEnd(s, i))
    [] OTHER -> Item("char", i, i + 1)

\* The loop of substitute_bound_parameters.  With names bound it looks for names
\* and steps over a double colon, otherwise for numbers and question marks.
BoundItem(s, i, named) ==
  CASE StartsWith(s, i, <<"-", "-">>) -> Item("comment", i, LineCommentEnd(s, i))
    [] StartsWith(s, i, <<"/", "*">>) -> Item("comment", i, BlockCommentEnd(s, i))
    [] s[i] \in Quotes -> Item("quoted", i, QuotedEnd(s, i))
    [] s[i] = "$" /\ DollarTag(s, i) # <<>> -> Item("body", i, DollarBodyEnd(s, i, DollarTag(s, i)))
    [] s[i] = "$" /\ ~named /\ At(s, i + 1) \in Digits -> Item("number", i, DollarNumberEnd(s, i))
    [] named /\ StartsWith(s, i, <<":", ":">>) -> Item("cast", i, i + 2)
    [] named /\ s[i] \in {":", "@"} /\ At(s, i + 1) \in Letters -> Item("name", i, NameEnd(s, i))
    [] ~named /\ s[i] = "?" -> Item("mark", i, i + 1)
    [] OTHER -> Item("char", i, i + 1)

\* The loop of first_placeholder: everything either binder looks for.  Its test
\* for a double colon looks at the character that must be a letter.
FirstItem(s, i) ==
  CASE StartsWith(s, i, <<"-", "-">>) -> Item("comment", i, LineCommentEnd(s, i))
    [] StartsWith(s, i, <<"/", "*">>) -> Item("comment", i, BlockCommentEnd(s, i))
    [] s[i] \in Quotes -> Item("quoted", i, QuotedEnd(s, i))
    [] s[i] = "$" /\ DollarTag(s, i) # <<>> -> Item("body", i, DollarBodyEnd(s, i, DollarTag(s, i)))
    [] s[i] = "$" /\ At(s, i + 1) \in Digits -> Item("number", i, DollarNumberEnd(s, i))
    [] s[i] \in {":", "@"} /\ At(s, i + 1) \in Letters -> Item("name", i, NameEnd(s, i))
    [] s[i] = "?" -> Item("mark", i, i + 1)
    [] OTHER -> Item("char", i, i + 1)

Placeholders(items) == {k \in DOMAIN items : items[k].kind \in {"number", "name", "mark"}}

\* The number a placeholder names: 0 and 1 are all the digits there are.
PlaceholderIndex(s, item) ==
  LET value[k \in item.from .. item.to] ==
        IF k <= item.from THEN 0 ELSE 10 * value[k - 1] + (IF s[k] = "1" THEN 1 ELSE 0)
  IN value[item.to - 1]

--------------------------------------------------------------------------------
(* Values as SQL.  A value is a sequence of characters (text), an integer, *)
(* here -1, 0 or 1, or null.                                               *)

\* A quote in a value is not doubled.
Quoted_plain(part) == <<"'">> \o part \o <<"'">>

Quoted(part) ==
  <<"'">> \o FlattenSeq([k \in DOMAIN part |->
               IF part[k] = "'" THEN <<"'", "'">> ELSE <<part[k]>>]) \o <<"'">>

\* write_text_literal: a backslash leaves the literal.
WriteTextLiteral(value) ==
  LET parts[k \in 0 .. Len(value)] ==  \* the parts of value[1..k] between backslashes
        IF k = 0 THEN <<<<>>>>
        ELSE IF value[k] = "\\" THEN Append(parts[k - 1], <<>>)
        ELSE [parts[k - 1] EXCEPT ![Len(parts[k - 1])] = Append(@, value[k])]
      quoted == [k \in DOMAIN parts[Len(value)] |-> Quoted(parts[Len(value)][k])]
      joined[k \in DOMAIN quoted] ==
        IF k = 1 THEN quoted[1] ELSE joined[k - 1] \o <<"chr">> \o quoted[k]
  IN IF Contains(value, "\\") THEN <<"(">> \o joined[Len(quoted)] \o <<")">> ELSE Quoted(value)

\* write_nz_value_sql.
WriteValue(value) ==
  CASE value.type = "null" -> <<"NULL">>
    [] value.type = "text" -> WriteTextLiteral(value.is)
    [] value.type = "int" -> IF value.is < 0 THEN <<"-", "1">> ELSE IF value.is = 0 THEN <<"0">> ELSE <<"1">>

--------------------------------------------------------------------------------
(* Binding.  A parameter has a value and a name, or is positional.  A      *)
(* reading of a text is its items and, for each placeholder, the index of  *)
(* its parameter (0 when there is none).                                   *)

Positional(value) == [positional |-> TRUE, name |-> <<>>, value |-> value]
Named(name, value) == [positional |-> FALSE, name |-> name, value |-> value]

Error == <<"error">>

\* The pieces of the bound text: the placeholders written as values, the rest as it is.
Pieces(s, reading, params) ==
  LET holders == Placeholders(reading.items)
  IN [k \in DOMAIN reading.items |->
        IF k \in holders THEN WriteValue(params[reading.index[k]].value)
        ELSE Piece(s, reading.items[k].from, reading.items[k].to)]

\* Does every placeholder have a parameter?
Complete(reading, params) ==
  \A k \in Placeholders(reading.items) : reading.index[k] \in DOMAIN params

UsedIndexes(reading) == {reading.index[k] : k \in Placeholders(reading.items)}

\* SqlTemplate::parse.
TemplateReading(s) ==
  LET items == Items(s, TemplateItem)
  IN [items |-> items, index |-> [k \in DOMAIN items |-> PlaceholderIndex(s, items[k])]]

\* SqlTemplate::render: an error when a placeholder has no value or a value no
\* placeholder.
Render(s, params) ==
  LET reading == TemplateReading(s)
  IN IF Complete(reading, params) /\ DOMAIN params \subseteq UsedIndexes(reading)
     THEN FlattenSeq(Pieces(s, reading, params)) ELSE Error

\* first_placeholder, asked when nothing is bound; 0 when there is none.
FirstPlaceholder(s) ==
  LET items == Items(s, FirstItem)
      found == {items[k].from : k \in Placeholders(items)}
  IN IF found = {} THEN 0 ELSE CHOOSE i \in found : \A j \in found : i <= j

\* The scan of substitute_bound_parameters: a number is its parameter's index, a
\* question mark has the next, a name the first parameter of that name.
BoundReading(s, params) ==
  LET named == \E p \in DOMAIN params : ~params[p].positional
      items == Items(s, LAMBDA t, i : BoundItem(t, i, named))
      marks(k) == Len(SelectSeq(SubSeq(items, 1, k), LAMBDA item : item.kind = "mark"))
      called(k) == {p \in DOMAIN params :
                      params[p].name = Piece(s, items[k].from + 1, items[k].to)}
      index(k) == CASE items[k].kind = "number" -> PlaceholderIndex(s, items[k])
                    [] items[k].kind = "mark" -> marks(k)
                    [] items[k].kind = "name" /\ called(k) # {} ->
                         CHOOSE p \in called(k) : \A q \in called(k) : p <= q
                    [] OTHER -> 0
  IN [items |-> items, index |-> [k \in DOMAIN items |-> index(k)]]

\* substitute_bound_parameters: a name is used when a parameter of that name is.
SubstituteBound(s, params) ==
  LET reading == BoundReading(s, params)
      mixed == \E p, q \in DOMAIN params : params[p].positional # params[q].positional
      used(p) == \E q \in UsedIndexes(reading) :
                   q = p \/ (~params[p].positional /\ params[q].name = params[p].name)
  IN IF params = <<>> THEN IF FirstPlaceholder(s) = 0 THEN s ELSE Error
     ELSE IF mixed \/ ~Complete(reading, params) \/ \E p \in DOMAIN params : ~used(p) THEN Error
     ELSE FlattenSeq(Pieces(s, reading, params))

--------------------------------------------------------------------------------
(* The scanner of messages.rs.                                             *)

\* dollar_tag of messages.rs: digits belong to the tag.
SplitTag(s, i) ==
  LET k == Find(s, i + 1, <<"$">>)
  IN IF k # 0 /\ \A j \in i + 1 .. k - 1 : s[j] \in Letters \cup Digits
     THEN Piece(s, i, k + 1) ELSE <<>>

\* find_word_ci for END_PROC, from i on: the position after it.
ProcEnd(s, i) ==
  LET found == {k \in i .. Len(s) :
                  /\ s[k] = "endproc"
                  /\ k = i \/ s[k - 1] \notin WordPart
                  /\ At(s, k + 1) \notin WordPart}
  IN IF found = {} THEN Len(s) + 1 ELSE (CHOOSE k \in found : \A j \in found : k <= j) + 1

\* Where the item at i of split_statements ends.
SplitItemEnd(s, i) ==
  IF s[i] \in Quotes THEN QuotedEnd(s, i)
  ELSE IF s[i] = "proc" /\ (i = 1 \/ s[i - 1] \notin WordPart) THEN ProcEnd(s, i + 1)
  ELSE IF s[i] = "$" /\ SplitTag(s, i) # <<>> THEN DollarBodyEnd(s, i, SplitTag(s, i))
  ELSE IF StartsWith(s, i, <<"-", "-">>)
       THEN LET k == Find(s, i, <<"nl">>) IN IF k = 0 THEN Len(s) + 1 ELSE k
  ELSE IF StartsWith(s, i, <<"/", "*">>)
       THEN LET k == Find(s, i + 2, <<"*", "/">>) IN IF k = 0 THEN Len(s) + 1 ELSE k + 2
  ELSE i + 1

\* split_statements: where its items start, and the semicolons it splits at.
SplitStarts(s) ==
  LET starts[i \in 1 .. Len(s) + 1] ==
        IF i > Len(s) THEN {} ELSE {i} \cup starts[SplitItemEnd(s, i)]
  IN starts[1]

SplitPoints(s) == {i \in SplitStarts(s) : s[i] = ";"}

--------------------------------------------------------------------------------
Init == text \in Openings /\ added = 0

Type(c) ==
  /\ added < MaxAdded
  /\ text' = Append(text, c) /\ added' = added + 1

Next == \E c \in Alphabet : Type(c)

Spec == Init /\ [][Next]_vars

--------------------------------------------------------------------------------
(* Properties *)

\* What a reader of SQL sees: the items of a text in which nothing is bound.
Seen(s) ==
  LET items == Items(s, LAMBDA t, i :
                 IF TemplateItem(t, i).kind = "number" THEN Item("char", i, i + 1)
                 ELSE TemplateItem(t, i))
  IN [k \in DOMAIN items |-> <<items[k].kind, Piece(s, items[k].from, items[k].to)>>]

\* A written value runs into what stands beside it: a minus sign after a minus
\* sign opens a comment, a quote after a quote goes on with the same literal, and
\* the word NULL completes a tag that began with a dollar sign.
RunsTogether(pieces, holders) ==
  \/ \E k \in 1 .. Len(pieces) - 1 :
       /\ {k, k + 1} \cap holders # {}
       /\ Last(pieces[k]) = Head(pieces[k + 1])
       /\ Head(pieces[k + 1]) \in {"-", "'"}
  \/ \E k \in holders, i, j \in DOMAIN pieces :
       /\ i < k /\ k < j
       /\ pieces[i] = <<"$">> /\ Head(pieces[j]) = "$"
       /\ \A m \in i + 1 .. j - 1 : Len(pieces[m]) = 1 /\ pieces[m][1] \in Letters

\* What a written text literal stands for when it is read again.
Denoted(literal) ==
  LET seen == Seen(literal)
      inside(body) ==
        LET read[k \in 1 .. Len(body) + 2] ==
              IF k > Len(body) THEN <<>>
              ELSE <<body[k]>> \o read[IF body[k] = "'" THEN k + 2 ELSE k + 1]
        IN read[1]
      meaning(item) ==
        IF item[1] = "quoted" THEN inside(SubSeq(item[2], 2, Len(item[2]) - 1))
        ELSE IF item[2] = <<"chr">> THEN <<"\\">> ELSE <<>>
  IN FlattenSeq([k \in DOMAIN seen |-> meaning(seen[k])])

\* Where binding a value changes nothing but the placeholder, for SqlTemplate and
\* for substitute_bound_parameters with a position or a name: the bound text reads
\* as its pieces do one by one, the comments, literals, names and bodies of the
\* template and the written values, exactly when no value runs into what stands
\* beside it.  params.rs writes the values without a space or parentheses around
\* them, so `5 -$1` with -1 ends in a comment and `'a'$1` with a text is one
\* literal.
BindingKeepsStructure ==
  LET any == CHOOSE value \in Values : TRUE
      readings == {TemplateReading(text), BoundReading(text, <<Positional(any)>>),
                   BoundReading(text, <<Named(<<"a">>, any)>>)}
  IN \A reading \in {r \in readings : UsedIndexes(r) = {1}}, value \in Values :
       LET pieces == Pieces(text, reading, <<[value |-> value]>>)
       IN Seen(FlattenSeq(pieces)) = FlattenSeq([k \in DOMAIN pieces |-> Seen(pieces[k])])
            <=> ~RunsTogether(pieces, Placeholders(reading.items))

\* A text literal reads back as the value, its quotes doubled and its backslashes
\* outside the quotes, where the server does not interpret them.  (Checked in the
\* openings: it does not depend on the text.)
LiteralsReadBack ==
  added = 0 =>
    \A value \in Values : value.type = "text" => Denoted(WriteValue(value)) = value.is

\* The three scanners of params.rs agree.  Without a question mark
\* substitute_bound_parameters does with positions what SqlTemplate does.  With
\* nothing bound it accepts no text in which one of the binders would have found a
\* placeholder, and it refuses no other, except that it takes the second colon of
\* a cast, `x::a`, for the start of a name.
BindersAgree ==
  LET one == Positional([type |-> "int", is |-> 1])
      name == Named(<<"a">>, one.value)
      found(reading) == {reading.items[k].from : k \in Placeholders(reading.items)}
      bindable == found(BoundReading(text, <<one>>)) \cup found(BoundReading(text, <<name>>))
      first == FirstPlaceholder(text)
  IN /\ ~Contains(text, "?") =>
          \A params \in {<<one>>, <<one, one>>} : SubstituteBound(text, params) = Render(text, params)
     /\ IF first = 0 THEN bindable = {}
        ELSE /\ \A i \in bindable : first <= i
             /\ first \in bindable \/ (text[first] = ":" /\ At(text, first - 1) = ":")
     /\ Render(text, <<>>) = Error => SubstituteBound(text, <<>>) = Error

\* Is this an item split_statements reads in a way of its own: a comment with a
\* comment inside, a tag with digits, a procedure body?
ReadDifferently(s, item) ==
  \/ item.kind = "comment" /\ s[item.from] = "/" /\ SplitItemEnd(s, item.from) # item.to
  \/ s[item.from] = "$" /\ SplitTag(s, item.from) # DollarTag(s, item.from)
  \/ s[item.from] = "proc"

\* The scanners of params.rs and messages.rs agree on where a statement ends, up
\* to the first item that messages.rs reads in a way of its own: if
\* split_statements does not split at the semicolons that are plain text to
\* SqlTemplate, then both have come to a comment inside a comment (it does not
\* nest them), a tag with digits or a procedure body.
SplitsWhereTemplatesDo ==
  LET items == Items(text, TemplateItem)
      plain == {items[k].from : k \in {j \in DOMAIN items :
                  items[j].kind = "char" /\ text[items[j].from] = ";"}}
  IN SplitPoints(text) # plain =>
       \E k \in DOMAIN items :
         items[k].from \in SplitStarts(text) /\ ReadDifferently(text, items[k])
================================================================================
