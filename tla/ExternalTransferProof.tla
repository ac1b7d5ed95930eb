------------------------- MODULE ExternalTransferProof -------------------------
(***************************************************************************)
(* Exported files hold what was exported, and an import source is used     *)
(* once, for any number of sessions, files and sources.                    *)
(***************************************************************************)
EXTENDS ExternalTransfer, FiniteSetTheorems, SequenceTheorems, TLAPS

-----------------------------------------------------------------------------
(* The inductive invariant *)

\* What a file consists of, what a source consists of, and what the server may
\* be doing for a session
FileChunk == Sessions \X Nat \X Nat
SourceChunk == Nat \X Nat
Chunk == FileChunk \cup SourceChunk
Exporting == [at : {"export"}, to : Names, sent : Seq(FileChunk)]
Importing == [at : {"import"}, from : Names, content : Seq(FileChunk) \cup Seq(SourceChunk),
              got : Seq(Chunk)]
Resting == {Idle, Plain, Failing, [at |-> "log"]}
Binding == [name : Names, source : Source]

Shapes ==
  /\ files \in [Names -> Seq(FileChunk) \cup {None}]
  /\ registry \in [Names -> Source \cup {None}] /\ sources \in Nat
  /\ link \in [Sessions -> BOOLEAN] /\ stmt \in [Sessions -> Nat]
  /\ export \in [Sessions -> Names \cup {None}]
  /\ bound \in [Sessions -> Binding \cup {None}]
  /\ server \in [Sessions -> Resting \cup Exporting \cup Importing]

\* A file is open in one session, and an export fills the file it opened.
OneWriter ==
  \A r, s \in Sessions : r # s /\ export[r] = export[s] => export[s] = None
Filling ==
  \A s \in Sessions : server[s].at = "export" =>
    export[s] = server[s].to /\ files[server[s].to] = server[s].sent

\* The source that is registered under a name, bound to a session, feeding it;
\* 0 if there is none
RegId(n) == IF registry[n] = None THEN 0 ELSE registry[n].id
BoundId(s) == IF bound[s] = None THEN 0 ELSE bound[s].source.id
Feed(v) ==
  IF v.at = "import" /\ v.content # <<>> /\ Len(v.content[1]) = 2 THEN v.content[1][1] ELSE 0
FeedId(s) == Feed(server[s])

\* No source is in two places.
OneHolder ==
  /\ \A n \in Names : RegId(n) \in 0..sources
  /\ \A s \in Sessions : BoundId(s) \in 0..sources /\ FeedId(s) \in 0..sources
  /\ \A m, n \in Names : m # n /\ RegId(m) = RegId(n) => RegId(n) = 0
  /\ \A r, s \in Sessions : r # s /\ BoundId(r) = BoundId(s) => BoundId(s) = 0
  /\ \A r, s \in Sessions : r # s /\ FeedId(r) = FeedId(s) => FeedId(s) = 0
  /\ \A n \in Names, s \in Sessions : RegId(n) = BoundId(s) => BoundId(s) = 0
  /\ \A n \in Names, s \in Sessions : RegId(n) = FeedId(s) => FeedId(s) = 0
  /\ \A r, s \in Sessions : BoundId(r) = FeedId(s) => FeedId(s) = 0

TransferInv == Shapes /\ OneWriter /\ Filling /\ NothingKept /\ OneHolder

-----------------------------------------------------------------------------
(* Where sources go *)

\* Sources stay where they are or are dropped.
LEMMA DropsKeep ==
  ASSUME OneHolder, sources \in Nat, sources' = sources,
         \A n \in Names : RegId(n)' = RegId(n) \/ RegId(n)' = 0,
         \A s \in Sessions : BoundId(s)' = BoundId(s) \/ BoundId(s)' = 0,
         \A s \in Sessions : FeedId(s)' = FeedId(s) \/ FeedId(s)' = 0
  PROVE  OneHolder'
BY DEF OneHolder

\* A new one is registered or bound.
LEMMA RegisterKeeps ==
  ASSUME OneHolder, sources \in Nat, sources' = sources + 1, NEW m \in Names,
         RegId(m)' \in {0, sources + 1},
         \A n \in Names : n # m => RegId(n)' = RegId(n),
         \A s \in Sessions : BoundId(s)' = BoundId(s),
         \A s \in Sessions : FeedId(s)' = FeedId(s)
  PROVE  OneHolder'
BY DEF OneHolder

LEMMA BindKeeps ==
  ASSUME OneHolder, sources \in Nat, sources' = sources + 1, NEW r \in Sessions,
         BoundId(r)' \in {0, sources + 1},
         \A n \in Names : RegId(n)' = RegId(n),
         \A s \in Sessions : s # r => BoundId(s)' = BoundId(s),
         \A s \in Sessions : FeedId(s)' = FeedId(s)
  PROVE  OneHolder'
BY DEF OneHolder

\* One is taken and feeds the import of session r.
LEMMA TakeBoundKeeps ==
  ASSUME OneHolder, sources \in Nat, sources' = sources, NEW r \in Sessions,
         FeedId(r)' \in {0, BoundId(r)}, BoundId(r)' = 0,
         \A n \in Names : RegId(n)' = RegId(n),
         \A s \in Sessions : s # r => BoundId(s)' = BoundId(s) /\ FeedId(s)' = FeedId(s)
  PROVE  OneHolder'
BY DEF OneHolder

LEMMA TakeRegisteredKeeps ==
  ASSUME OneHolder, sources \in Nat, sources' = sources, NEW r \in Sessions, NEW m \in Names,
         FeedId(r)' \in {0, RegId(m)}, RegId(m)' = 0,
         \A n \in Names : n # m => RegId(n)' = RegId(n),
         \A s \in Sessions : BoundId(s)' = BoundId(s),
         \A s \in Sessions : s # r => FeedId(s)' = FeedId(s)
  PROVE  OneHolder'
BY DEF OneHolder

LEMMA FeedFacts ==
  /\ \A v \in Resting \cup Exporting : Feed(v) = 0
  /\ \A v \in Resting : v.at \in {"idle", "plain", "failing", "log"}
  /\ \A v \in Exporting : v.at = "export"
  /\ \A v \in Importing : v.at = "import"
<1>1. \A v \in Resting : v.at \in {"idle", "plain", "failing", "log"}
  BY DEF Resting, Idle, Plain, Failing
<1>2. \A v \in Exporting : v.at = "export"
  BY DEF Exporting
<1>3. \A v \in Importing : v.at = "import"
  BY DEF Importing
<1> QED
  BY <1>1, <1>2, <1>3 DEF Feed

LEMMA SendingFacts ==
  ASSUME NEW n \in Names, NEW content \in Seq(FileChunk) \cup Seq(SourceChunk)
  PROVE  /\ Sending(n, content) \in Importing /\ Sending(n, content).at = "import"
         /\ Sending(n, content).content = content
<1>1. <<>> \in Seq(Chunk)
  OBVIOUS
<1> QED
  BY <1>1 DEF Sending, Importing

\* A file feeds no source's id, a source its own.
LEMMA FileFeeds ==
  ASSUME NEW n \in Names, NEW content \in Seq(FileChunk)
  PROVE  Feed(Sending(n, content)) = 0
<1> DEFINE v == Sending(n, content)
<1>1. v.content = content
  BY SendingFacts
<1>2. CASE content = <<>>
  BY <1>1, <1>2 DEF Feed
<1>3. CASE content # <<>>
  <2>1. content[1] \in FileChunk
    BY <1>3, HeadTailProperties
  <2>2. \A x \in FileChunk : Len(x) = 3
    BY DEF FileChunk
  <2>3. Len(content[1]) = 3
    BY <2>1, <2>2
  <2>4. Len(v.content[1]) = 3
    BY <1>1, <2>3
  <2> HIDE DEF v
  <2>5. Feed(v) = 0
    BY <2>4 DEF Feed
  <2> QED
    BY <2>5 DEF v
<1> QED
  BY <1>2, <1>3

LEMMA SourceFeeds ==
  ASSUME MaxChunks \in Nat, NEW n \in Names, NEW source \in Source
  PROVE  /\ Content(source) \in Seq(SourceChunk)
         /\ Feed(Sending(n, Content(source))) \in {0, source.id}
<1>1. source.id \in Nat
  BY DEF Source
<1>2. Content(source) \in [1..MaxChunks -> SourceChunk]
  BY <1>1 DEF Content, SourceChunk
<1>3. Content(source) \in Seq(SourceChunk)
  BY <1>2, SeqDef
<1> DEFINE v == Sending(n, Content(source))
<1>4. v.content = Content(source)
  BY <1>3, SendingFacts
<1> HIDE DEF v
<1>5. v.content = <<>> => Feed(v) = 0
  BY DEF Feed
<1>6. v.content # <<>> => v.content[1][1] = source.id
  <2> SUFFICES ASSUME v.content # <<>> PROVE v.content[1][1] = source.id
    OBVIOUS
  <2>1. 1 \in 1..MaxChunks
    <3>1. Len(Content(source)) \in Nat /\ Len(Content(source)) # 0
      BY <1>3, <1>4, EmptySeq, LenProperties
    <3>2. DOMAIN Content(source) = 1..Len(Content(source))
      BY <1>3, LenProperties
    <3>3. DOMAIN Content(source) = 1..MaxChunks
      BY <1>2
    <3> QED
      BY <3>1, <3>2, <3>3
  <2>2. v.content[1] = <<source.id, 1>>
    BY <1>4, <2>1 DEF Content
  <2> QED
    BY <2>2
<1>7. Feed(v) \in {0, source.id}
  BY <1>5, <1>6 DEF Feed
<1> QED
  BY <1>3, <1>7 DEF v

-----------------------------------------------------------------------------
(* Steps *)

LEMMA ServerMoves ==
  ASSUME Shapes, NEW s \in Sessions, NEW v \in Resting \cup Exporting \cup Importing, Now(s, v)
  PROVE  /\ server' \in [Sessions -> Resting \cup Exporting \cup Importing]
         /\ server'[s] = v /\ FeedId(s)' = Feed(v)
         /\ \A r \in Sessions : r # s => server'[r] = server[r] /\ FeedId(r)' = FeedId(r)
<1>1. server' = [server EXCEPT ![s] = v] /\ server \in [Sessions -> Resting \cup Exporting \cup Importing]
  BY DEF Shapes, Now
<1>2. server'[s] = v /\ \A r \in Sessions : r # s => server'[r] = server[r]
  BY <1>1
<1>3. \A r \in Sessions : FeedId(r)' = Feed(server'[r])
  BY DEF FeedId, Feed
<1>4. server' \in [Sessions -> Resting \cup Exporting \cup Importing]
  BY <1>1
<1> QED
  BY <1>2, <1>3, <1>4 DEF FeedId

\* A session goes to another point of its statement without opening a file or
\* taking a source; it may drop what it has.
LEMMA PlainStep ==
  ASSUME TransferInv, NEW s \in Sessions, NEW v \in Resting \cup Importing, Now(s, v),
         Feed(v) \in {0, FeedId(s)},
         v.at = "idle" => bound'[s] = None /\ (s \in NativeSessions => export'[s] = None),
         UNCHANGED <<files, registry, sources>>,
         link' \in [Sessions -> BOOLEAN], stmt' \in [Sessions -> Nat],
         bound' \in [Sessions -> Binding \cup {None}], export' \in [Sessions -> Names \cup {None}],
         \A r \in Sessions : bound'[r] \in {bound[r], None},
         export'[s] \in {export[s], None},
         \A r \in Sessions : r # s => export'[r] = export[r]
  PROVE  TransferInv'
<1>1. /\ server' \in [Sessions -> Resting \cup Exporting \cup Importing]
      /\ server'[s] = v /\ FeedId(s)' = Feed(v)
      /\ \A r \in Sessions : r # s => server'[r] = server[r] /\ FeedId(r)' = FeedId(r)
  BY ServerMoves DEF TransferInv
<1>2. Shapes'
  BY <1>1 DEF TransferInv, Shapes
<1>3. OneWriter'
  BY DEF TransferInv, OneWriter
<1>4. v.at # "export"
  BY FeedFacts
<1>5. Filling'
  BY <1>1, <1>4 DEF TransferInv, Filling
<1>6. NothingKept'
  BY <1>1 DEF TransferInv, NothingKept
<1>7. OneHolder'
  <2>1. \A n \in Names : RegId(n)' = RegId(n)
    BY DEF RegId
  <2>2. \A r \in Sessions : BoundId(r)' = BoundId(r) \/ BoundId(r)' = 0
    BY DEF BoundId
  <2>3. \A r \in Sessions : FeedId(r)' = FeedId(r) \/ FeedId(r)' = 0
    BY <1>1
  <2> QED
    BY <2>1, <2>2, <2>3, DropsKeep DEF TransferInv, Shapes
<1> QED
  BY <1>2, <1>3, <1>5, <1>6, <1>7 DEF TransferInv

\* What a rest of the server amounts to.
LEMMA RestFacts ==
  /\ {Idle, Plain, Failing, [at |-> "log"]} \subseteq Resting
  /\ \A v \in Resting : Feed(v) = 0
  /\ Plain.at = "plain" /\ Failing.at = "failing" /\ [at |-> "log"].at = "log"
BY FeedFacts DEF Resting, Plain, Failing

\* A session that holds what it held, and another rest of the server.
LEMMA RestStep ==
  ASSUME TransferInv, NEW s \in Sessions, NEW v \in Resting, Now(s, v), v.at # "idle",
         UNCHANGED <<files, registry, sources, link, bound>>,
         stmt' \in [Sessions -> Nat],
         export' = export \/ export' = [export EXCEPT ![s] = None]
  PROVE  TransferInv'
<1>1. Feed(v) \in {0, FeedId(s)}
  BY RestFacts
<1>2. /\ link' \in [Sessions -> BOOLEAN] /\ bound' \in [Sessions -> Binding \cup {None}]
      /\ export' \in [Sessions -> Names \cup {None}]
  BY DEF TransferInv, Shapes
<1>3. /\ export'[s] \in {export[s], None}
      /\ \A r \in Sessions : r # s => export'[r] = export[r]
      /\ \A r \in Sessions : bound'[r] \in {bound[r], None}
  BY DEF TransferInv, Shapes
<1> QED
  BY <1>1, <1>2, <1>3, PlainStep

\* The steps that only move a session on.
LEMMA MovingSteps ==
  ASSUME TransferInv, NEW s \in Sessions,
         Log(s) \/ LogEnd(s) \/ ExportEnd(s) \/ ExportAbandoned(s) \/ ImportEnd(s) \/ ImportFails(s)
  PROVE  TransferInv'
<1>1. PICK v \in {Plain, Failing, [at |-> "log"]} :
        /\ Now(s, v) /\ UNCHANGED <<files, registry, sources, link, stmt, bound>>
        /\ export' = export \/ export' = [export EXCEPT ![s] = None]
  BY DEF Log, LogEnd, ExportEnd, ExportAbandoned, ImportEnd, ImportFails
<1>2. v \in Resting /\ v.at # "idle"
  BY RestFacts
<1>3. stmt' \in [Sessions -> Nat]
  BY <1>1 DEF TransferInv, Shapes
<1> QED
  BY <1>1, <1>2, <1>3, RestStep

\* The steps that end a statement.
LEMMA EndingSteps ==
  ASSUME TransferInv, NEW s \in Sessions, Complete(s) \/ Retire(s)
  PROVE  TransferInv'
<1>1. /\ Now(s, Idle) /\ UNCHANGED <<files, registry, sources, stmt>>
      /\ bound' = [bound EXCEPT ![s] = None]
      /\ export' = [export EXCEPT ![s] = None] \/ (s \notin NativeSessions /\ export' = export)
      /\ link' = link \/ link' = [link EXCEPT ![s] = FALSE]
  BY DEF Complete, Retire, Dropped
<1>2. Idle \in Resting /\ Feed(Idle) \in {0, FeedId(s)}
  BY RestFacts
<1>3. /\ link' \in [Sessions -> BOOLEAN] /\ stmt' \in [Sessions -> Nat]
      /\ bound' \in [Sessions -> Binding \cup {None}] /\ export' \in [Sessions -> Names \cup {None}]
  BY <1>1 DEF TransferInv, Shapes
<1>4. /\ export'[s] \in {export[s], None} /\ bound'[s] = None
      /\ s \in NativeSessions => export'[s] = None
      /\ \A r \in Sessions : r # s => export'[r] = export[r]
      /\ \A r \in Sessions : bound'[r] \in {bound[r], None}
  BY <1>1 DEF TransferInv, Shapes
<1> QED
  BY <1>1, <1>2, <1>3, <1>4, PlainStep

LEMMA RegistrySteps ==
  ASSUME TransferInv, NEW n \in Names, (\E kind \in Kinds : Register(n, kind)) \/ Unregister(n)
  PROVE  TransferInv'
<1>1. UNCHANGED <<files, link, stmt, export, bound, server>>
  BY DEF Register, Unregister
<1>2. (\A s \in Sessions : BoundId(s)' = BoundId(s)) /\ (\A s \in Sessions : FeedId(s)' = FeedId(s))
  BY <1>1 DEF BoundId, FeedId, Feed
<1>3. OneWriter' /\ Filling' /\ NothingKept'
  BY <1>1 DEF TransferInv, OneWriter, Filling, NothingKept
<1>4. CASE \E kind \in Kinds : Register(n, kind)
  <2>1. PICK kind \in Kinds : Register(n, kind)
    BY <1>4
  <2>2. Make(kind) \in Source /\ Make(kind).id = sources + 1
    BY DEF Make, Source, TransferInv, Shapes
  <2> DEFINE new == Make(kind)
  <2> HIDE DEF new
  <2>3. registry' = [registry EXCEPT ![n] = new] /\ sources' = sources + 1
    BY <2>1 DEF Register, new
  <2>4. registry \in [Names -> Source \cup {None}] /\ sources \in Nat
    BY DEF TransferInv, Shapes
  <2>5. registry' \in [Names -> Source \cup {None}] /\ registry'[n] = new
    BY <2>2, <2>3, <2>4 DEF new
  <2>6. \A m \in Names : m # n => registry'[m] = registry[m]
    BY <2>3, <2>4
  <2>7. RegId(n)' \in {0, sources + 1}
    BY <2>2, <2>5 DEF RegId, new
  <2>8. \A m \in Names : m # n => RegId(m)' = RegId(m)
    BY <2>6 DEF RegId
  <2>9. OneHolder'
    BY <1>2, <2>3, <2>4, <2>7, <2>8, RegisterKeeps DEF TransferInv
  <2>10. Shapes'
    BY <1>1, <2>3, <2>4, <2>5 DEF TransferInv, Shapes
  <2> QED
    BY <1>3, <2>9, <2>10 DEF TransferInv
<1>5. CASE Unregister(n)
  <2>1. registry' = [registry EXCEPT ![n] = None] /\ sources' = sources
    BY <1>5 DEF Unregister
  <2>2. Shapes'
    BY <1>1, <2>1 DEF TransferInv, Shapes
  <2>3. \A m \in Names : RegId(m)' = RegId(m) \/ RegId(m)' = 0
    BY <2>1 DEF RegId, TransferInv, Shapes
  <2>4. OneHolder'
    BY <1>2, <2>1, <2>3, DropsKeep DEF TransferInv, Shapes
  <2> QED
    BY <1>3, <2>2, <2>4 DEF TransferInv
<1> QED
  BY <1>4, <1>5

LEMMA ExecuteStep ==
  ASSUME TransferInv, NEW s \in Sessions, Execute(s)
  PROVE  TransferInv'
<1>1. /\ Now(s, Plain) /\ UNCHANGED <<files, registry, link, export>>
      /\ stmt' \in [Sessions -> Nat]
  BY DEF Execute, TransferInv, Shapes
<1>2. Plain \in Resting /\ Plain.at = "plain"
  BY RestFacts
<1>3. CASE UNCHANGED <<bound, sources>>
  BY <1>1, <1>2, <1>3, RestStep
<1>4. CASE ~ UNCHANGED <<bound, sources>>
  <2> DEFINE new == Make(IF s \in SyncSessions THEN "reader" ELSE "async")
  <2>1. new \in Source /\ new.id = sources + 1
    BY DEF Make, Source, Kinds, TransferInv, Shapes
  <2> HIDE DEF new
  <2>2. PICK n \in Names : /\ bound' = [bound EXCEPT ![s] = [name |-> n, source |-> new]]
                           /\ sources' = sources + 1
    BY <1>4 DEF Execute, new
  <2> DEFINE b == [name |-> n, source |-> new]
  <2>3. b \in Binding /\ b.source.id = sources + 1
    BY <2>1 DEF Binding
  <2> HIDE DEF b
  <2>4. bound \in [Sessions -> Binding \cup {None}] /\ sources \in Nat
    BY DEF TransferInv, Shapes
  <2>5. bound' \in [Sessions -> Binding \cup {None}] /\ bound'[s] = b
    BY <2>2, <2>3, <2>4 DEF b
  <2>6. \A r \in Sessions : r # s => bound'[r] = bound[r]
    BY <2>2, <2>4
  <2>7. /\ server' \in [Sessions -> Resting \cup Exporting \cup Importing]
        /\ server'[s] = Plain /\ FeedId(s)' = 0
        /\ \A r \in Sessions : r # s => server'[r] = server[r] /\ FeedId(r)' = FeedId(r)
    BY <1>1, <1>2, ServerMoves, RestFacts DEF TransferInv
  <2>8. FeedId(s) = 0
    <3>1. server[s].at = "idle"
      BY DEF Execute, Serves
    <3> QED
      BY <3>1 DEF FeedId, Feed
  <2>9. \A r \in Sessions : FeedId(r)' = FeedId(r)
    BY <2>7, <2>8
  <2>10. BoundId(s)' \in {0, sources + 1}
    BY <2>3, <2>5 DEF BoundId
  <2>11. \A r \in Sessions : r # s => BoundId(r)' = BoundId(r)
    BY <2>6 DEF BoundId
  <2>12. \A m \in Names : RegId(m)' = RegId(m)
    BY <1>1 DEF RegId
  <2>13. OneHolder'
    BY <2>2, <2>4, <2>9, <2>10, <2>11, <2>12, BindKeeps DEF TransferInv
  <2>14. Shapes'
    BY <1>1, <2>2, <2>4, <2>5, <2>7 DEF TransferInv, Shapes
  <2>15. OneWriter'
    BY <1>1 DEF TransferInv, OneWriter
  <2>16. Filling'
    BY <1>1, <1>2, <2>7 DEF TransferInv, Filling
  <2>17. NothingKept'
    BY <1>1, <1>2, <2>6, <2>7 DEF TransferInv, NothingKept
  <2> QED
    BY <2>13, <2>14, <2>15, <2>16, <2>17 DEF TransferInv
<1> QED
  BY <1>3, <1>4

\* Which of its shapes the server's work has
LEMMA ServerShape ==
  ASSUME Shapes, NEW s \in Sessions
  PROVE  /\ server[s].at = "export" => server[s] \in Exporting
         /\ server[s].at = "import" => server[s] \in Importing
         /\ server[s].at = "plain" => FeedId(s) = 0
<1>1. server[s] \in Resting \cup Exporting \cup Importing
  BY DEF Shapes
<1>2. server[s].at = "plain" => FeedId(s) = 0
  BY DEF FeedId, Feed
<1> QED
  BY <1>1, <1>2, FeedFacts

LEMMA ExportStartStep ==
  ASSUME TransferInv, NEW s \in Sessions, NEW n \in Names, ExportStart(s, n)
  PROVE  TransferInv'
<1>1. /\ UNCHANGED <<registry, sources, link, stmt, bound>> /\ Unused(s, n)
      /\ server[s].at = "plain"
  BY DEF ExportStart, Serves
<1>2. CASE Now(s, Failing) /\ UNCHANGED <<files, export>>
  <2>1. stmt' \in [Sessions -> Nat]
    BY <1>1 DEF TransferInv, Shapes
  <2> QED
    BY <1>1, <1>2, <2>1, RestFacts, RestStep
<1>3. CASE /\ files' = [files EXCEPT ![n] = <<>>]
           /\ export' = [export EXCEPT ![s] = n]
           /\ Now(s, [at |-> "export", to |-> n, sent |-> <<>>])
  <2> DEFINE v == [at |-> "export", to |-> n, sent |-> <<>>]
  <2>1. v \in Exporting /\ v.at = "export" /\ v.to = n /\ v.sent = <<>>
    <3>1. <<>> \in Seq(FileChunk)
      OBVIOUS
    <3> QED
      BY <3>1 DEF Exporting
  <2>2. Now(s, v)
    BY <1>3
  <2> HIDE DEF v
  <2>3. /\ server' \in [Sessions -> Resting \cup Exporting \cup Importing]
        /\ server'[s] = v /\ FeedId(s)' = Feed(v)
        /\ \A r \in Sessions : r # s => server'[r] = server[r] /\ FeedId(r)' = FeedId(r)
    BY <2>1, <2>2, ServerMoves DEF TransferInv
  <2>4. Feed(v) = 0
    BY <2>1, FeedFacts
  <2>5. files' \in [Names -> Seq(FileChunk) \cup {None}] /\ files'[n] = <<>>
    <3>1. <<>> \in Seq(FileChunk)
      OBVIOUS
    <3> QED
      BY <1>3, <3>1 DEF TransferInv, Shapes
  <2>6. \A m \in Names : m # n => files'[m] = files[m]
    BY <1>3 DEF TransferInv, Shapes
  <2>7. export' \in [Sessions -> Names \cup {None}] /\ export'[s] = n
    BY <1>3 DEF TransferInv, Shapes
  <2>8. \A r \in Sessions : r # s => export'[r] = export[r] /\ export[r] # n
    BY <1>1, <1>3 DEF TransferInv, Shapes, Unused
  <2>9. Shapes'
    BY <1>1, <2>3, <2>5, <2>7 DEF TransferInv, Shapes
  <2>10. OneWriter'
    BY <2>7, <2>8 DEF TransferInv, OneWriter
  <2>11. Filling'
    <3> SUFFICES ASSUME NEW r \in Sessions, server'[r].at = "export"
                 PROVE  export'[r] = server'[r].to /\ files'[server'[r].to] = server'[r].sent
      BY DEF Filling
    <3>1. CASE r = s
      BY <2>1, <2>3, <2>5, <2>7, <3>1
    <3>2. CASE r # s
      <4>1. server'[r] = server[r] /\ export'[r] = export[r] /\ export[r] # n
        BY <2>3, <2>8, <3>2
      <4>2. export[r] = server[r].to /\ files[server[r].to] = server[r].sent
        BY <4>1 DEF TransferInv, Filling
      <4>3. server[r].to \in Names
        BY <4>1, ServerShape DEF TransferInv, Exporting
      <4> QED
        BY <4>1, <4>2, <4>3, <2>6
    <3> QED
      BY <3>1, <3>2
  <2>12. NothingKept'
    BY <1>1, <2>1, <2>3, <2>8 DEF TransferInv, NothingKept
  <2>13. OneHolder'
    <3>1. (\A m \in Names : RegId(m)' = RegId(m)) /\ (\A r \in Sessions : BoundId(r)' = BoundId(r))
      BY <1>1 DEF RegId, BoundId
    <3>2. \A r \in Sessions : FeedId(r)' = FeedId(r) \/ FeedId(r)' = 0
      BY <2>3, <2>4
    <3> QED
      BY <1>1, <3>1, <3>2, DropsKeep DEF TransferInv, Shapes
  <2> QED
    BY <2>9, <2>10, <2>11, <2>12, <2>13 DEF TransferInv
<1> QED
  BY <1>2, <1>3 DEF ExportStart

LEMMA ExportChunkStep ==
  ASSUME None \notin Names, TransferInv, NEW s \in Sessions, ExportChunk(s)
  PROVE  TransferInv'
<1> DEFINE chunk == <<s, stmt[s], Len(server[s].sent) + 1>>
           v == [server[s] EXCEPT !.sent = Append(@, chunk)]
<1>1. /\ UNCHANGED <<registry, sources, link, stmt, export, bound>>
      /\ server[s].at = "export" /\ Now(s, v)
      /\ files' = IF export[s] = None THEN files
                  ELSE [files EXCEPT ![export[s]] = Append(@, chunk)]
  BY DEF ExportChunk, Serves
<1>2. server[s] \in Exporting
  BY <1>1, ServerShape DEF TransferInv
<1>3. server[s].sent \in Seq(FileChunk) /\ server[s].to \in Names
  BY <1>2 DEF Exporting
<1>4. chunk \in FileChunk
  BY <1>3, LenProperties DEF FileChunk, TransferInv, Shapes
<1> HIDE DEF chunk
<1> DEFINE sent == Append(server[s].sent, chunk)
<1>5. sent \in Seq(FileChunk)
  BY <1>3, <1>4
<1>6. v = [server[s] EXCEPT !.sent = sent]
  OBVIOUS
<1> HIDE DEF v, sent
<1>7. v \in Exporting /\ v.at = "export" /\ v.to = server[s].to /\ v.sent = sent
  BY <1>2, <1>5, <1>6 DEF Exporting
<1>8. export[s] = server[s].to /\ files[server[s].to] = server[s].sent
  BY <1>1 DEF TransferInv, Filling
<1>9. files' = [files EXCEPT ![server[s].to] = sent]
  BY <1>1, <1>3, <1>8 DEF sent
<1>10. files' \in [Names -> Seq(FileChunk) \cup {None}] /\ files'[server[s].to] = sent
  BY <1>3, <1>5, <1>9 DEF TransferInv, Shapes
<1>11. \A m \in Names : m # server[s].to => files'[m] = files[m]
  BY <1>9 DEF TransferInv, Shapes
<1>12. /\ server' \in [Sessions -> Resting \cup Exporting \cup Importing]
       /\ server'[s] = v /\ FeedId(s)' = Feed(v)
       /\ \A r \in Sessions : r # s => server'[r] = server[r] /\ FeedId(r)' = FeedId(r)
  BY <1>1, <1>7, ServerMoves DEF TransferInv
<1>13. Shapes'
  BY <1>1, <1>10, <1>12 DEF TransferInv, Shapes
<1>14. OneWriter'
  BY <1>1 DEF TransferInv, OneWriter
<1>15. Filling'
  <2> SUFFICES ASSUME NEW r \in Sessions, server'[r].at = "export"
               PROVE  export'[r] = server'[r].to /\ files'[server'[r].to] = server'[r].sent
    BY DEF Filling
  <2>1. CASE r = s
    BY <1>1, <1>7, <1>8, <1>10, <1>12, <2>1
  <2>2. CASE r # s
    <3>1. server'[r] = server[r] /\ export'[r] = export[r]
      BY <1>1, <1>12, <2>2
    <3>2. export[r] = server[r].to /\ files[server[r].to] = server[r].sent
      BY <3>1 DEF TransferInv, Filling
    <3>3. server[r].to \in Names
      BY <3>1, ServerShape DEF TransferInv, Exporting
    <3>4. server[r].to # server[s].to
      BY <1>3, <1>8, <2>2, <3>2, <3>3 DEF TransferInv, OneWriter
    <3> QED
      BY <3>1, <3>2, <3>3, <3>4, <1>11
  <2> QED
    BY <2>1, <2>2
<1>16. NothingKept'
  BY <1>1, <1>7, <1>12 DEF TransferInv, NothingKept
<1>17. OneHolder'
  <2>1. (\A m \in Names : RegId(m)' = RegId(m)) /\ (\A r \in Sessions : BoundId(r)' = BoundId(r))
    BY <1>1 DEF RegId, BoundId
  <2>2. Feed(v) = 0
    BY <1>7, FeedFacts
  <2>3. \A r \in Sessions : FeedId(r)' = FeedId(r) \/ FeedId(r)' = 0
    BY <1>12, <2>2
  <2> QED
    BY <1>1, <2>1, <2>3, DropsKeep DEF TransferInv, Shapes
<1> QED
  BY <1>13, <1>14, <1>15, <1>16, <1>17 DEF TransferInv

LEMMA ImportChunkStep ==
  ASSUME TransferInv, NEW s \in Sessions, ImportChunk(s)
  PROVE  TransferInv'
<1> DEFINE got == Append(server[s].got, server[s].content[Len(server[s].got) + 1])
           v == [server[s] EXCEPT !.got = got]
<1>1. /\ UNCHANGED <<files, registry, sources, link, stmt, export, bound>>
      /\ server[s].at = "import" /\ Len(server[s].got) < Len(server[s].content)
      /\ Now(s, v)
  BY DEF ImportChunk, Serves
<1>2. server[s] \in Importing
  BY <1>1, ServerShape DEF TransferInv
<1>3. server[s].got \in Seq(Chunk) /\ server[s].content \in Seq(FileChunk) \cup Seq(SourceChunk)
  BY <1>2 DEF Importing
<1>4. server[s].content[Len(server[s].got) + 1] \in Chunk
  <2> DEFINE k == Len(server[s].got) + 1
  <2>1. Len(server[s].got) \in Nat /\ Len(server[s].content) \in Nat
    BY <1>3, LenProperties
  <2>2. k \in 1..Len(server[s].content)
    BY <1>1, <2>1
  <2> HIDE DEF k
  <2>3. server[s].content[k] \in FileChunk \/ server[s].content[k] \in SourceChunk
    BY <1>3, <2>2, ElementOfSeq
  <2> QED
    BY <2>3 DEF k, Chunk
<1>5. got \in Seq(Chunk)
  BY <1>3, <1>4
<1> HIDE DEF got
<1>6. v \in Importing /\ v.at = "import" /\ v.content = server[s].content
  BY <1>2, <1>5 DEF Importing
<1> HIDE DEF v
<1>7. Feed(v) = FeedId(s)
  BY <1>1, <1>6 DEF Feed, FeedId
<1>8. /\ link' \in [Sessions -> BOOLEAN] /\ stmt' \in [Sessions -> Nat]
      /\ bound' \in [Sessions -> Binding \cup {None}] /\ export' \in [Sessions -> Names \cup {None}]
  BY <1>1 DEF TransferInv, Shapes
<1>9. v \in Resting \cup Importing /\ Feed(v) \in {0, FeedId(s)} /\ v.at # "idle"
  BY <1>6, <1>7
<1> QED
  BY <1>1, <1>8, <1>9, PlainStep

\* The file is sent, or the server is told that there is none.
LEMMA ImportFileStep ==
  ASSUME TransferInv, NEW s \in Sessions, NEW n \in Names, NEW v,
         v = IF n \in Permitted /\ files[n] # None THEN Sending(n, files[n]) ELSE Failing,
         Now(s, v), UNCHANGED <<files, registry, sources, link, stmt, export, bound>>
  PROVE  TransferInv'
<1>1. CASE v = Failing
  <2>1. stmt' \in [Sessions -> Nat]
    BY DEF TransferInv, Shapes
  <2> QED
    BY <1>1, <2>1, RestFacts, RestStep
<1>2. CASE v # Failing
  <2>1. v = Sending(n, files[n]) /\ files[n] # None
    BY <1>2
  <2>2. files[n] \in Seq(FileChunk)
    BY <2>1 DEF TransferInv, Shapes
  <2>3. v \in Importing /\ v.at = "import"
    BY <2>1, <2>2, SendingFacts
  <2>4. Feed(v) = 0
    BY <2>1, <2>2, FileFeeds
  <2>5. /\ link' \in [Sessions -> BOOLEAN] /\ stmt' \in [Sessions -> Nat]
        /\ bound' \in [Sessions -> Binding \cup {None}] /\ export' \in [Sessions -> Names \cup {None}]
    BY DEF TransferInv, Shapes
  <2>6. v \in Resting \cup Importing /\ Feed(v) \in {0, FeedId(s)} /\ v.at # "idle"
    BY <2>3, <2>4
  <2> QED
    BY <2>5, <2>6, PlainStep
<1> QED
  BY <1>1, <1>2

\* A source is taken: it leaves its place and feeds at most this import.
LEMMA ImportSourceStep ==
  ASSUME MaxChunks \in Nat, TransferInv, NEW s \in Sessions, NEW n \in Names,
         Found(s, n) # None, Take(s, n),
         Now(s, IF Readable(s, Found(s, n)) THEN Sending(n, Content(Found(s, n))) ELSE Failing),
         UNCHANGED <<files, sources, link, stmt, export>>
  PROVE  TransferInv'
<1> DEFINE source == Found(s, n)
           v == IF Readable(s, source) THEN Sending(n, Content(source)) ELSE Failing
<1>1. source \in Source
  BY DEF Found, BoundTo, TransferInv, Shapes, Binding
<1>2. Now(s, v)
  OBVIOUS
<1> HIDE DEF source
<1>3. /\ v \in Resting \cup Importing /\ v.at # "idle" /\ v.at # "export"
      /\ Feed(v) \in {0, source.id}
  <2>1. CASE v = Failing
    BY <2>1, RestFacts
  <2>2. CASE v # Failing
    <3>1. v = Sending(n, Content(source))
      BY <2>2
    <3>2. Content(source) \in Seq(SourceChunk) /\ Feed(v) \in {0, source.id}
      BY <1>1, <3>1, SourceFeeds
    <3>3. v \in Importing /\ v.at = "import"
      BY <3>1, <3>2, SendingFacts
    <3> QED
      BY <3>2, <3>3
  <2> QED
    BY <2>1, <2>2
<1> HIDE DEF v
<1>4. /\ server' \in [Sessions -> Resting \cup Exporting \cup Importing]
      /\ server'[s] = v /\ FeedId(s)' = Feed(v)
      /\ \A r \in Sessions : r # s => server'[r] = server[r] /\ FeedId(r)' = FeedId(r)
  BY <1>2, <1>3, ServerMoves DEF TransferInv
<1>5. OneWriter'
  BY DEF TransferInv, OneWriter
<1>6. Filling'
  BY <1>3, <1>4 DEF TransferInv, Filling
<1>7. CASE BoundTo(s, n)
  <2>1. bound' = [bound EXCEPT ![s] = None] /\ registry' = registry
    BY <1>7 DEF Take
  <2>2. source = bound[s].source /\ bound[s] # None
    BY <1>7 DEF source, Found, BoundTo
  <2>3. bound \in [Sessions -> Binding \cup {None}]
    BY DEF TransferInv, Shapes
  <2>4. bound' \in [Sessions -> Binding \cup {None}] /\ bound'[s] = None
    BY <2>1, <2>3
  <2>5. \A r \in Sessions : r # s => bound'[r] = bound[r]
    BY <2>1, <2>3
  <2>6. BoundId(s) = source.id /\ BoundId(s)' = 0
    BY <2>2, <2>4 DEF BoundId
  <2>7. \A r \in Sessions : r # s => BoundId(r)' = BoundId(r) /\ FeedId(r)' = FeedId(r)
    BY <1>4, <2>5 DEF BoundId
  <2>8. \A m \in Names : RegId(m)' = RegId(m)
    BY <2>1 DEF RegId
  <2>9. OneHolder'
    BY <1>3, <1>4, <2>6, <2>7, <2>8, TakeBoundKeeps DEF TransferInv, Shapes
  <2>10. Shapes'
    BY <1>4, <2>1, <2>4 DEF TransferInv, Shapes
  <2>11. NothingKept'
    BY <1>3, <1>4, <2>4, <2>5 DEF TransferInv, NothingKept
  <2> QED
    BY <1>5, <1>6, <2>9, <2>10, <2>11 DEF TransferInv
<1>8. CASE ~BoundTo(s, n)
  <2>1. registry' = [registry EXCEPT ![n] = None] /\ bound' = bound
    BY <1>8 DEF Take
  <2>2. source = registry[n] /\ registry[n] # None
    BY <1>8 DEF source, Found
  <2>3. registry \in [Names -> Source \cup {None}]
    BY DEF TransferInv, Shapes
  <2>4. registry' \in [Names -> Source \cup {None}] /\ registry'[n] = None
    BY <2>1, <2>3
  <2>5. \A m \in Names : m # n => registry'[m] = registry[m]
    BY <2>1, <2>3
  <2>6. RegId(n) = source.id /\ RegId(n)' = 0
    BY <2>2, <2>4 DEF RegId
  <2>7. \A m \in Names : m # n => RegId(m)' = RegId(m)
    BY <2>5 DEF RegId
  <2>8. \A r \in Sessions : BoundId(r)' = BoundId(r)
    BY <2>1 DEF BoundId
  <2>9. \A r \in Sessions : r # s => FeedId(r)' = FeedId(r)
    BY <1>4
  <2>10. OneHolder'
    BY <1>3, <1>4, <2>6, <2>7, <2>8, <2>9, TakeRegisteredKeeps DEF TransferInv, Shapes
  <2>11. Shapes'
    BY <1>4, <2>1, <2>4 DEF TransferInv, Shapes
  <2>12. NothingKept'
    BY <1>3, <1>4, <2>1 DEF TransferInv, NothingKept
  <2> QED
    BY <1>5, <1>6, <2>10, <2>11, <2>12 DEF TransferInv
<1> QED
  BY <1>7, <1>8

LEMMA ImportStep ==
  ASSUME MaxChunks \in Nat, TransferInv, NEW s \in Sessions, NEW n \in Names, Import(s, n)
  PROVE  TransferInv'
<1>1. UNCHANGED <<files, sources, link, stmt, export>>
  BY DEF Import
<1>2. CASE Found(s, n) # None
  BY <1>1, <1>2, ImportSourceStep DEF Import
<1>3. CASE Found(s, n) = None
  BY <1>1, <1>3, ImportFileStep DEF Import
<1> QED
  BY <1>2, <1>3

-----------------------------------------------------------------------------
(* The theorem *)

LEMMA TransferInit == Init => TransferInv
<1> SUFFICES ASSUME Init PROVE TransferInv
  OBVIOUS
<1>1. \A s \in Sessions : server[s] = Idle /\ bound[s] = None /\ export[s] = None
  BY DEF Init
<1>2. Idle \in Resting /\ Idle.at = "idle" /\ Feed(Idle) = 0
  BY RestFacts DEF Idle
<1>3. Shapes
  BY <1>2 DEF Init, Shapes
<1>4. OneWriter /\ Filling /\ NothingKept
  BY <1>1, <1>2 DEF OneWriter, Filling, NothingKept
<1>5. (\A n \in Names : RegId(n) = 0) /\ (\A s \in Sessions : BoundId(s) = 0 /\ FeedId(s) = 0)
  BY <1>1, <1>2 DEF Init, RegId, BoundId, FeedId
<1>6. OneHolder
  BY <1>5 DEF Init, OneHolder
<1> QED
  BY <1>3, <1>4, <1>6 DEF TransferInv

LEMMA TransferStep ==
  ASSUME None \notin Names, MaxChunks \in Nat, TransferInv, [Next]_vars
  PROVE  TransferInv'
<1>1. CASE \E n \in Names, kind \in Kinds : Register(n, kind)
  BY <1>1, RegistrySteps
<1>2. CASE \E n \in Names : Unregister(n)
  BY <1>2, RegistrySteps
<1>3. ASSUME NEW s \in Sessions, Execute(s) PROVE TransferInv'
  BY <1>3, ExecuteStep
<1>4. ASSUME NEW s \in Sessions, Complete(s) \/ Retire(s) PROVE TransferInv'
  BY <1>4, EndingSteps
<1>5. ASSUME NEW s \in Sessions,
             Log(s) \/ LogEnd(s) \/ ExportEnd(s) \/ ExportAbandoned(s) \/ ImportEnd(s) \/ ImportFails(s)
      PROVE  TransferInv'
  BY <1>5, MovingSteps
<1>6. ASSUME NEW s \in Sessions, ExportChunk(s) PROVE TransferInv'
  BY <1>6, ExportChunkStep
<1>7. ASSUME NEW s \in Sessions, ImportChunk(s) PROVE TransferInv'
  BY <1>7, ImportChunkStep
<1>8. ASSUME NEW s \in Sessions, NEW n \in Names, ExportStart(s, n) PROVE TransferInv'
  BY <1>8, ExportStartStep
<1>9. ASSUME NEW s \in Sessions, NEW n \in Names, Import(s, n) PROVE TransferInv'
  BY <1>9, ImportStep
<1>10. CASE UNCHANGED vars
  <2>1. (\A n \in Names : RegId(n)' = RegId(n)) /\ (\A s \in Sessions : BoundId(s)' = BoundId(s) /\ FeedId(s)' = FeedId(s))
    BY <1>10 DEF vars, RegId, BoundId, FeedId, Feed
  <2>2. OneHolder'
    BY <1>10, <2>1, DropsKeep DEF vars, TransferInv, Shapes
  <2>3. Shapes'
    BY <1>10 DEF vars, TransferInv, Shapes
  <2>4. OneWriter' /\ Filling' /\ NothingKept'
    BY <1>10 DEF vars, TransferInv, OneWriter, Filling, NothingKept
  <2> QED
    BY <2>2, <2>3, <2>4 DEF TransferInv
<1> QED
  BY <1>1, <1>2, <1>3, <1>4, <1>5, <1>6, <1>7, <1>8, <1>9, <1>10 DEF Next

\* A source is in one place at most, so the sets of OneShot have one member
\* between them.
LEMMA HolderIsOne == ASSUME TransferInv PROVE OneShot
<1> SUFFICES ASSUME NEW id \in 1..sources
             PROVE  Cardinality(Feeding(id)) + Cardinality(Waiting(id)) <= 1
  BY DEF OneShot
<1>0. sources \in Nat /\ id # 0
  BY DEF TransferInv, Shapes
<1>1. \A s \in Feeding(id) : s \in Sessions /\ FeedId(s) = id
  BY DEF Feeding, FeedId, Feed
<1>2. \A x \in Waiting(id) : \/ x \in Names /\ RegId(x) = id
                             \/ x \in Sessions /\ BoundId(x) = id
  BY DEF Waiting, RegId, BoundId
<1>3. \A r, s \in Feeding(id) : r = s
  BY <1>0, <1>1 DEF TransferInv, OneHolder
<1>4. Feeding(id) = {} \/ Waiting(id) = {}
  BY <1>0, <1>1, <1>2 DEF TransferInv, OneHolder
<1>5. \A x, y \in Waiting(id) : x = y
  BY <1>0, <1>2 DEF TransferInv, OneHolder
<1>6. ASSUME NEW S, \A x, y \in S : x = y PROVE S = {} \/ \E x : S = {x}
  <2> SUFFICES ASSUME S # {} PROVE \E x : S = {x}
    OBVIOUS
  <2>1. PICK x \in S : TRUE
    OBVIOUS
  <2>2. S = {x}
    BY <1>6, <2>1
  <2> QED
    BY <2>2
<1>7. Cardinality({}) = 0 /\ \A x : Cardinality({x}) = 1
  BY FS_EmptySet, FS_Singleton
<1>8. Cardinality(Feeding(id)) \in {0, 1} /\ Cardinality(Waiting(id)) \in {0, 1}
  BY <1>3, <1>5, <1>6, <1>7
<1> QED
  BY <1>4, <1>7, <1>8

LEMMA InvExact == ASSUME TransferInv PROVE TransfersExact
<1>1. OneShot
  BY HolderIsOne
<1>2. FileIsExport
  BY DEF TransferInv, Filling, FileIsExport, Serves
<1>3. \A s \in Sessions :
        server[s].at \in {"idle", "plain", "failing", "export", "import", "log"}
  <2> TAKE s \in Sessions
  <2>1. server[s] \in Resting \cup Exporting \cup Importing
    BY DEF TransferInv, Shapes
  <2> QED
    BY <2>1, FeedFacts
<1>4. TypeOK
  BY <1>3 DEF TransferInv, Shapes, TypeOK, Binding
<1> QED
  BY <1>1, <1>2, <1>4 DEF TransferInv, TransfersExact

\* For every number of sessions, names and sources: a file the server fills
\* holds what was sent for it and no more, a source feeds one import of one
\* session, and between statements nothing is kept
\* (handle_export_start, handle_export_data, handle_import).
THEOREM TransfersAreExact ==
  ASSUME None \notin Names, MaxChunks \in Nat
  PROVE  Spec => []TransfersExact
<1>1. Init => TransferInv
  BY TransferInit
<1>2. TransferInv /\ [Next]_vars => TransferInv'
  BY TransferStep
<1>3. TransferInv => TransfersExact
  BY InvExact
<1> QED
  BY <1>1, <1>2, <1>3, PTL DEF Spec

=============================================================================
