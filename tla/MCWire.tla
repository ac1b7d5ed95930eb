-------------------------------- MODULE MCWire --------------------------------
(***************************************************************************)
(* What stands between the bytes of the socket and the values of a caller, *)
(* for TLC: the read buffer, the two handshakes, the result sets of a      *)
(* response, the layout of rows, dates and times, NUMERIC, the SQL text on *)
(* its way out, and the files of external tables.  The components keep     *)
(* their state apart, so a behaviour is one of one of them: part says      *)
(* which, the others stay off.                                             *)
(***************************************************************************)
EXTENDS ReadBuffer

CONSTANT None

VARIABLES
  part,
  level, sync, native,
  server, count, affected, failed, cached, current, sets, open, streamed, calls, refused,
  reader, seen, moves,
  row, desc, progress, answered,
  text, added,
  day, walked,
  words, scale,
  files, registry, sources, link, stmt, export, bound, asks

Off == 0

Handshakes == INSTANCE Handshake WITH Levels <- 0 .. 3, Tls <- TRUE
Sets == INSTANCE ResponseSets WITH MaxMessages <- 6, MaxMoves <- 5
Rows == INSTANCE RowLayout WITH seen <- answered

\* Seven texts to be inside or outside of, continued with every special character;
\* text values with quotes and backslashes, both signs of a number, and NULL.
TextValue(s) == [type |-> "text", is |-> s]
Sql == INSTANCE SqlText WITH
  Openings <- {<<>>, <<"'">>, <<"-", "-">>, <<"/", "*">>, <<"$", "a", "$">>, <<"$", "1", "a">>, <<"@">>},
  Alphabet <- {"'", "$", "-", "/", "*", ";", "1", "a", "nl", "?", ":", "proc", "endproc"},
  MaxAdded <- 4,
  Values <- {TextValue(s) : s \in {<<>>, <<"a">>, <<"'", "a">>, <<"\\">>, <<"'", "\\", "'">>}}
              \cup [type : {"int"}, is : {-1, 1}] \cup {[type |-> "null"]}

\* The year from before 1600-03-01, 1900-02-20, 1999-12-20, 2000-02-20 and
\* 2100-02-20, and around the first day of an era, year 0 and a negative era.
Dates == INSTANCE Temporal WITH
  FirstDays <- {-135140, -25520, 10945, 11000, 47530, -719470, -719900, -865570},
  MaxDays <- 420,
  TicksPerSecond <- 10,
  Clocks <- {0, 1, 9, 10, 599, 36005, 863999},
  Zones <- {-50400, -19800, -3601, -59, -13, -12, -1, 0, 1, 11, 12, 3600, 20700, 49999}

\* Words of three bits, limbs of two digits.
Numbers == INSTANCE Numeric WITH
  Word <- 8, MaxMantissa <- 512, FloatBound <- 100, DecimalScale <- 3, MaxCoefficient <- 10000,
  Scales <- {0, 1, 3, 5}, Group <- 100

\* A synchronous and a native session, one import source between them
Transfers == INSTANCE ExternalTransfer WITH
  server <- asks, SyncSessions <- {"sync"}, NativeSessions <- {"native"},
  Names <- {"f", "g"}, Permitted <- {"f", "g"}, MaxStmts <- 2, MaxChunks <- 2, MaxSources <- 1

--------------------------------------------------------------------------------
handshakeVars == <<level, sync, native>>
setsVars == <<server, count, affected, failed, cached, current, sets, open, streamed, calls,
              refused, reader, seen, moves>>
rowsVars == <<row, desc, progress, answered>>
sqlVars == <<text, added>>
datesVars == <<day, walked>>
numbersVars == <<words, scale>>
transferVars == <<files, registry, sources, link, stmt, export, bound, asks>>
wireVars == <<vars, part, handshakeVars, setsVars, rowsVars, sqlVars, datesVars, numbersVars,
              transferVars>>

HandshakeOff == level = Off /\ sync = Off /\ native = Off
SetsOff ==
  /\ server = Off /\ count = Off /\ affected = Off /\ failed = Off /\ cached = Off
  /\ current = Off /\ sets = Off /\ open = Off /\ streamed = Off /\ calls = Off
  /\ refused = Off /\ reader = Off /\ seen = Off /\ moves = Off
RowsOff == row = Off /\ desc = Off /\ progress = Off /\ answered = Off
SqlOff == text = Off /\ added = Off
DatesOff == day = Off /\ walked = Off
NumbersOff == words = Off /\ scale = Off
TransferOff ==
  /\ files = Off /\ registry = Off /\ sources = Off /\ link = Off /\ stmt = Off
  /\ export = Off /\ bound = Off /\ asks = Off

WireInit ==
  /\ Init
  /\ part \in {"buffer", "handshake", "sets", "rows", "sql", "dates", "numbers", "transfer"}
  /\ part # "buffer" => len = 0
  /\ IF part = "handshake" THEN Handshakes!Init ELSE HandshakeOff
  /\ IF part = "sets" THEN Sets!Init ELSE SetsOff
  /\ IF part = "rows" THEN Rows!Init ELSE RowsOff
  /\ IF part = "sql" THEN Sql!Init ELSE SqlOff
  /\ IF part = "dates" THEN Dates!Init ELSE DatesOff
  /\ IF part = "numbers" THEN Numbers!Init ELSE NumbersOff
  /\ IF part = "transfer" THEN Transfers!Init ELSE TransferOff

WireNext ==
  /\ \/ /\ part = "buffer" /\ Next
        /\ UNCHANGED <<handshakeVars, setsVars, rowsVars, sqlVars, datesVars, numbersVars, transferVars>>
     \/ /\ part = "handshake" /\ Handshakes!Next
        /\ UNCHANGED <<vars, setsVars, rowsVars, sqlVars, datesVars, numbersVars, transferVars>>
     \/ /\ part = "sets" /\ Sets!Next
        /\ UNCHANGED <<vars, handshakeVars, rowsVars, sqlVars, datesVars, numbersVars, transferVars>>
     \/ /\ part = "rows" /\ Rows!Next
        /\ UNCHANGED <<vars, handshakeVars, setsVars, sqlVars, datesVars, numbersVars, transferVars>>
     \/ /\ part = "sql" /\ Sql!Next
        /\ UNCHANGED <<vars, handshakeVars, setsVars, rowsVars, datesVars, numbersVars, transferVars>>
     \/ /\ part = "dates" /\ Dates!Next
        /\ UNCHANGED <<vars, handshakeVars, setsVars, rowsVars, sqlVars, numbersVars, transferVars>>
     \/ /\ part = "numbers" /\ Numbers!Next
        /\ UNCHANGED <<vars, handshakeVars, setsVars, rowsVars, sqlVars, datesVars, transferVars>>
     \/ /\ part = "transfer" /\ Transfers!Next
        /\ UNCHANGED <<vars, handshakeVars, setsVars, rowsVars, sqlVars, datesVars, numbersVars>>
  /\ UNCHANGED part

WireSpec == WireInit /\ [][WireNext]_wireVars

--------------------------------------------------------------------------------
(* The properties of the parts *)

\* handshake.rs and native_async.rs send the same frames and come to the same end
\* on every sequence of answers; with OnlySecuredSession neither sends the user's
\* name or password before TLS; versions are offered in falling order, and the
\* options are those of the version offered last, all of them before the server
\* is asked to let the user in.
HandshakeSound == part = "handshake" => Handshakes!HandshakeSound

\* query() and execute_stream() report the same sets, columns and counts for every
\* response, but for sets without rows that had no columns or no text description,
\* which only execute_stream() reports; the sink sees the columns of a set once, before its rows, and
\* nothing after it refused; the reader shows each row once, in order, none left
\* out, however read(), next_result() and close() follow each other.
ResultsIntact ==
  part = "sets" =>
    Sets!TypeOK /\ Sets!BothPathsAgree /\ Sets!SinkInOrder /\ Sets!ReaderInOrder

\* A field of a kept row has the bytes the eager decoder gives it, whatever the
\* order fields are asked for in, and no accessor reads outside the row.
FieldsExact == part = "rows" => Rows!SameFields /\ Rows!InsideRow

\* Binding a value changes nothing but its placeholder, exactly where the value
\* does not run into a minus sign, a quote or a dollar sign beside it; a text
\* literal reads back as the value; the three scanners of params.rs find the same
\* placeholders, but for casts when nothing is bound; and split_statements splits
\* at the semicolons that are semicolons to them, up to the first nested comment,
\* tag with digits or procedure body.
SqlStructureKept ==
  part = "sql" =>
    Sql!BindingKeepsStructure /\ Sql!LiteralsReadBack /\ Sql!BindersAgree
      /\ Sql!SplitsWhereTemplatesDo


\* An exported file holds what the server sent for this statement, a registered
\* reader feeds one import of one session, and a session between statements
\* holds no reader (a native one no file either).
TransfersExact == part = "transfer" => Transfers!TransfersExact
================================================================================
