--------------------------- MODULE ExternalTransfer ---------------------------
(***************************************************************************)
(* External tables: while it answers a statement the server asks the       *)
(* client to create a file and to fill it (export), to send a file or a    *)
(* reader (import), or to keep a log.  The synchronous session answers in  *)
(* src/src/connection.rs, the native one in src/src/native_async.rs; both  *)
(* share the files and the process-wide registry of import sources.        *)
(*                                                                         *)
(* A step is one exchange: a message of the server and what the handler    *)
(* does with it.  Between two of them a deadline, a cancellation or a      *)
(* socket error may end the session.  The content of a source or a file is *)
(* a sequence of chunks, each one told by where it comes from.             *)
(***************************************************************************)
EXTENDS Naturals, Sequences, FiniteSets

CONSTANTS
  SyncSessions, NativeSessions,
  Names,       \* file names and import identifiers
  Permitted,   \* names external_files.resolve lets through
  MaxStmts,    \* bound: statements of a session
  MaxChunks,   \* bound: chunks of a file or source
  MaxSources,  \* bound: import sources made
  None

Sessions == SyncSessions \cup NativeSessions

VARIABLES
  files,     \* content by name; None when there is no such file
  registry,  \* import_registry(): a source by name, or None
  sources,   \* sources made so far
  link,      \* is the session usable?
  stmt,      \* statements begun by each session
  export,    \* export_file: the name it was opened under, or None
  bound,     \* import_source: a name and a source, or None
  server     \* what the server is doing for the statement of each session

vars == <<files, registry, sources, link, stmt, export, bound, server>>

Kinds == {"bytes", "reader", "async"}
Source == [id : Nat, kind : Kinds]

\* A new source holds MaxChunks chunks, told apart by its id
Content(source) == [i \in 1..MaxChunks |-> <<source.id, i>>]
Make(kind) == [id |-> sources + 1, kind |-> kind]

Idle == [at |-> "idle"]
Plain == [at |-> "plain"]     \* executing
Failing == [at |-> "failing"] \* it was told of an error

TypeOK ==
  /\ DOMAIN files = Names /\ DOMAIN registry = Names /\ sources \in Nat
  /\ \A n \in Names : registry[n] \in Source \cup {None}
  /\ link \in [Sessions -> BOOLEAN] /\ stmt \in [Sessions -> Nat]
  /\ export \in [Sessions -> Names \cup {None}]
  /\ \A s \in Sessions : bound[s] \in [name : Names, source : Source] \cup {None}
  /\ \A s \in Sessions :
       server[s].at \in {"idle", "plain", "failing", "export", "import", "log"}

Init ==
  /\ files = [n \in Names |-> None]
  /\ registry = [n \in Names |-> None] /\ sources = 0
  /\ link = [s \in Sessions |-> TRUE] /\ stmt = [s \in Sessions |-> 0]
  /\ export = [s \in Sessions |-> None] /\ bound = [s \in Sessions |-> None]
  /\ server = [s \in Sessions |-> Idle]

Serves(s, at) == link[s] /\ server[s].at = at
Now(s, what) == server' = [server EXCEPT ![s] = what]

-----------------------------------------------------------------------------
(* Statements and the registry *)

\* register_import_data, register_import_reader, register_async_import_reader
Register(n, kind) ==
  /\ sources < MaxSources
  /\ registry' = [registry EXCEPT ![n] = Make(kind)] /\ sources' = sources + 1
  /\ UNCHANGED <<files, link, stmt, export, bound, server>>

\* unregister_import_data
Unregister(n) ==
  /\ registry' = [registry EXCEPT ![n] = None]
  /\ UNCHANGED <<files, sources, link, stmt, export, bound, server>>

\* A statement, or query_with_import_reader with a reader of its own
Execute(s) ==
  /\ Serves(s, "idle") /\ stmt[s] < MaxStmts
  /\ Now(s, Plain) /\ stmt' = [stmt EXCEPT ![s] = @ + 1]
  /\ \/ UNCHANGED <<bound, sources>>
     \/ /\ sources < MaxSources
        /\ \E n \in Names :
             bound' = [bound EXCEPT ![s] =
               [name |-> n, source |-> Make(IF s \in SyncSessions THEN "reader" ELSE "async")]]
        /\ sources' = sources + 1
  /\ UNCHANGED <<files, registry, link, export>>

\* The end of an operation.  run_connection drops file and source; the
\* synchronous session drops the source and keeps a file that was not filled.
Dropped(s) ==
  /\ bound' = [bound EXCEPT ![s] = None]
  /\ export' = IF s \in NativeSessions THEN [export EXCEPT ![s] = None] ELSE export

Complete(s) ==
  /\ Serves(s, "plain") \/ Serves(s, "failing")
  /\ Now(s, Idle) /\ Dropped(s)
  /\ UNCHANGED <<files, registry, sources, link, stmt>>

\* A deadline inside a message, a failing socket or file, a malformed message,
\* or close(): the session is retired with all it holds
Retire(s) ==
  /\ link[s] /\ link' = [link EXCEPT ![s] = FALSE]
  /\ export' = [export EXCEPT ![s] = None] /\ bound' = [bound EXCEPT ![s] = None]
  /\ Now(s, Idle)
  /\ UNCHANGED <<files, registry, sources, stmt>>

-----------------------------------------------------------------------------
(* Export *)

\* Assumed of the program: while one session's transfer has the name, no other
\* exports to that file or imports from it.  (Registered readers, which the whole
\* process shares, need no such care: Take removes them.)
Unused(s, n) ==
  \A r \in Sessions \ {s} :
    export[r] # n /\ ~(server[r].at = "import" /\ server[r].from = n)

\* handle_export_start: the file is created, or the server is told (status 1)
ExportStart(s, n) ==
  /\ Serves(s, "plain") /\ Unused(s, n)
  /\ \/ /\ n \in Permitted
        /\ files' = [files EXCEPT ![n] = <<>>]
        /\ export' = [export EXCEPT ![s] = n]
        /\ Now(s, [at |-> "export", to |-> n, sent |-> <<>>])
     \/ Now(s, Failing) /\ UNCHANGED <<files, export>>
  /\ UNCHANGED <<registry, sources, link, stmt, bound>>

\* handle_export_data, consume_export_stream: a chunk (status 1)
ExportChunk(s) ==
  /\ Serves(s, "export") /\ Len(server[s].sent) < MaxChunks
  /\ LET chunk == <<s, stmt[s], Len(server[s].sent) + 1>>
     IN /\ files' = IF export[s] = None THEN files
                    ELSE [files EXCEPT ![export[s]] = Append(@, chunk)]
        /\ Now(s, [server[s] EXCEPT !.sent = Append(@, chunk)])
  /\ UNCHANGED <<registry, sources, link, stmt, export, bound>>

\* ... its end (status 3), or an error (status 2)
ExportEnd(s) ==
  /\ Serves(s, "export")
  /\ export' = [export EXCEPT ![s] = None]
  /\ Now(s, Plain) \/ Now(s, Failing)
  /\ UNCHANGED <<files, registry, sources, link, stmt, bound>>

\* The server gives up between handle_export_start and handle_export_data
ExportAbandoned(s) ==
  /\ Serves(s, "export") /\ server[s].sent = <<>>
  /\ Now(s, Failing)
  /\ UNCHANGED <<files, registry, sources, link, stmt, export, bound>>

-----------------------------------------------------------------------------
(* Import *)

BoundTo(s, n) == bound[s] # None /\ bound[s].name = n

\* The source of handle_import: the one bound to the operation, the registered one
Found(s, n) == IF BoundTo(s, n) THEN bound[s].source ELSE registry[n]

\* Taken from where it was found: it cannot be asked for again
Take_peeked(s, n) == UNCHANGED <<bound, registry>> \* mutant: a source is only looked up

Take(s, n) ==
  IF BoundTo(s, n)
  THEN bound' = [bound EXCEPT ![s] = None] /\ UNCHANGED registry
  ELSE registry' = [registry EXCEPT ![n] = None] /\ UNCHANGED bound

\* A reader of the other kind cannot be read
Readable(s, source) ==
  source.kind = "bytes" \/ (source.kind = "reader") = (s \in SyncSessions)

Sending(n, content) == [at |-> "import", from |-> n, content |-> content, got |-> <<>>]

\* handle_import
Import(s, n) ==
  /\ Serves(s, "plain")
  /\ LET source == Found(s, n)
     IN \/ /\ source # None /\ Take(s, n)
           /\ Now(s, IF Readable(s, source) THEN Sending(n, Content(source)) ELSE Failing)
        \/ /\ source = None /\ Unused(s, n) /\ UNCHANGED <<bound, registry>>
           /\ Now(s, IF n \in Permitted /\ files[n] # None THEN Sending(n, files[n]) ELSE Failing)
  /\ UNCHANGED <<files, sources, link, stmt, export>>

\* send_import_reader: a chunk, the end (status 3), or a read that fails (status 2)
ImportChunk(s) ==
  /\ Serves(s, "import") /\ Len(server[s].got) < Len(server[s].content)
  /\ Now(s, [server[s] EXCEPT !.got = Append(@, server[s].content[Len(@) + 1])])
  /\ UNCHANGED <<files, registry, sources, link, stmt, export, bound>>

ImportEnd(s) ==
  /\ Serves(s, "import") /\ Len(server[s].got) = Len(server[s].content)
  /\ Now(s, Plain)
  /\ UNCHANGED <<files, registry, sources, link, stmt, export, bound>>

ImportFails(s) ==
  /\ Serves(s, "import")
  /\ Now(s, Failing)
  /\ UNCHANGED <<files, registry, sources, link, stmt, export, bound>>

\* handle_ext_log: the log is read to its end.  One that cannot be written does
\* not disturb a synchronous session; a native one is retired.
Log(s) ==
  /\ Serves(s, "plain") /\ Now(s, [at |-> "log"])
  /\ UNCHANGED <<files, registry, sources, link, stmt, export, bound>>

LogEnd(s) ==
  /\ Serves(s, "log") /\ Now(s, Plain)
  /\ UNCHANGED <<files, registry, sources, link, stmt, export, bound>>

Next ==
  \/ \E n \in Names, kind \in Kinds : Register(n, kind)
  \/ \E n \in Names : Unregister(n)
  \/ \E s \in Sessions :
       \/ Execute(s) \/ Complete(s) \/ Retire(s) \/ Log(s) \/ LogEnd(s)
       \/ ExportChunk(s) \/ ExportEnd(s) \/ ExportAbandoned(s)
       \/ ImportChunk(s) \/ ImportEnd(s) \/ ImportFails(s)
       \/ \E n \in Names : ExportStart(s, n) \/ Import(s, n)

Spec == Init /\ [][Next]_vars

-----------------------------------------------------------------------------
(* Properties *)

\* A file the server fills holds what it sent for this statement and no more,
\* whatever file an earlier statement left open.
FileIsExport ==
  \A s \in Sessions :
    Serves(s, "export") => files[server[s].to] = server[s].sent

\* A registered or bound reader feeds one import of one session.
Feeding(id) == {s \in Sessions : /\ server[s].at = "import" /\ server[s].content # <<>>
                                 /\ Len(server[s].content[1]) = 2
                                 /\ server[s].content[1][1] = id}
Waiting(id) == {n \in Names : registry[n] # None /\ registry[n].id = id}
                 \cup {s \in Sessions : bound[s] # None /\ bound[s].source.id = id}
OneShot == \A id \in 1..sources : Cardinality(Feeding(id)) + Cardinality(Waiting(id)) <= 1

\* "unused readers are dropped on return": between statements no session holds
\* a reader, and a native one no file.
NothingKept ==
  \A s \in Sessions : server[s].at = "idle" =>
    bound[s] = None /\ (s \in NativeSessions => export[s] = None)

\* A file holds its export, a source feeds one import, and nothing is kept.
TransfersExact == TypeOK /\ FileIsExport /\ OneShot /\ NothingKept
===============================================================================
