------------------------------- MODULE Handshake -------------------------------
(***************************************************************************)
(* The connection handshake, written twice: handshake() of the blocking    *)
(* engine (src/src/handshake.rs) and AsyncSession::handshake of the native *)
(* one (src/src/native_async.rs).  Both are run here on the same answers   *)
(* of a server that may say anything, byte by byte.                        *)
(*                                                                         *)
(* An engine is a record: the answer it waits for, the version it offers,  *)
(* the options sent so far, whether its socket is wrapped in TLS, and the  *)
(* frames it has sent.  An answer is the byte, with the field that follows *)
(* it where one is read: the version after M, the method after R.          *)
(***************************************************************************)
EXTENDS Integers, Sequences

CONSTANTS
  Levels,  \* SecurityLevel values tried: 0 .. 3
  Tls      \* is the ssl feature built in?

VARIABLES level, sync, native

vars == <<level, sync, native>>

Answers ==
  {<<b, 0>> : b \in {"N", "S", "E", "K", "Z", "nul", "other", "end"}}
    \cup {<<"text", 0>>}                        \* an error as bare text
    \cup {<<"M", v>> : v \in 0..6}
    \cup {<<"R", m>> : m \in {0, 3, 5, 6, 7}}

Stages == {"negotiate", "database", "security", "confirm", "options", "auth", "complete",
           "ok", "failed"}
FrameKinds == {"begin", "database", "ssl", "connect", "option", "auth"}
Engine == [at : Stages, version : 2..6, done : Nat, tls : BOOLEAN, key : BOOLEAN,
           sent : Seq(FrameKinds \X Nat)]

TypeOK == level \in 0..3 /\ sync \in Engine /\ native \in Engine

OnlySecured == level = 3

-----------------------------------------------------------------------------
(* Decisions both engines take from handshake_common.rs *)

\* option_plan: the opcodes, of which every one but the last is acknowledged
OptionPlan(version) ==
  <<3>> \o (IF version \in {4, 6} THEN <<13, 14, 15, 16>> ELSE <<>>)
        \o <<9, 6, 8>> \o (IF version >= 5 THEN <<17>> ELSE <<>>) \o <<1000>>

\* validate_version_downgrade
Downgrade(current, proposed) == proposed < current

\* auth_salt_len and auth_response: the methods there is an answer to
KnownMethods == {0, 3, 5, 6}
AuthFrames(method) == IF method = 0 THEN <<>> ELSE <<<<"auth", method>>>>

-----------------------------------------------------------------------------
(* Steps of an engine *)

Failed(c) == [c EXCEPT !.at = "failed"]
Sends(c, frame, at) == [c EXCEPT !.sent = Append(@, frame), !.at = at]

\* the next option; after the last one the server speaks
SendsOption(c) ==
  LET plan == OptionPlan(c.version)
      n == c.done + 1
  IN [Sends(c, <<"option", plan[n]>>, IF n = Len(plan) THEN "auth" ELSE "options") EXCEPT !.done = n]

\* upgrade_tls: the socket is wrapped.  (A certificate that is refused ends the
\* handshake at the read that follows.)
UpgradeTls(c) == IF Tls THEN [c EXCEPT !.tls = TRUE] ELSE Failed(c)

-----------------------------------------------------------------------------
(* The blocking engine *)

\* conn_handshake_negotiate
SyncNegotiate(c, b, x) ==
  CASE b = "N" -> Sends(c, <<"database", 0>>, "database")
    [] b = "M" /\ x \in 2..5 /\ Downgrade(c.version, x) ->
         [Sends(c, <<"begin", x>>, "negotiate") EXCEPT !.version = x]
    [] OTHER -> Failed(c)

\* conn_send_database
SyncDatabase(c, b) == IF b = "N" THEN Sends(c, <<"ssl", level>>, "security") ELSE Failed(c)

\* conn_secure_session
SyncSecure(c, b) ==
  CASE b = "N" /\ ~OnlySecured -> SendsOption(c)
    [] b = "S" -> UpgradeTls(Sends(c, <<"connect", 0>>, "confirm"))
    [] OTHER -> Failed(c)

\* expect_n, after the upgrade and after an option
SyncAck(c, b) == IF b = "N" THEN SendsOption(c) ELSE Failed(c)

\* conn_authenticate
SyncAuth(c, b, x) ==
  IF b = "R" /\ x \in KnownMethods
    THEN [c EXCEPT !.sent = @ \o AuthFrames(x), !.at = "complete"]
    ELSE Failed(c)

\* conn_connection_complete
SyncComplete(c, b) ==
  CASE b \in {"nul", "N", "R"} -> c
    [] b = "K" -> [c EXCEPT !.key = TRUE]
    [] b = "Z" -> [c EXCEPT !.at = "ok"]
    [] OTHER -> Failed(c)

SyncOn(c, b, x) ==
  CASE c.at = "negotiate" -> SyncNegotiate(c, b, x)
    [] c.at = "database" -> SyncDatabase(c, b)
    [] c.at = "security" -> SyncSecure(c, b)
    [] c.at \in {"confirm", "options"} -> SyncAck(c, b)
    [] c.at = "auth" -> SyncAuth(c, b, x)
    [] c.at = "complete" -> SyncComplete(c, b)
    [] OTHER -> c

-----------------------------------------------------------------------------
(* The native engine *)

\* negotiate_version, and the database frame that follows it
NativeNegotiate(c, b, x) ==
  IF b = "N" THEN Sends(c, <<"database", 0>>, "database")
  ELSE IF b = "M" /\ x \in {2, 3, 4, 5} /\ Downgrade(c.version, x)
    THEN Sends([c EXCEPT !.version = x], <<"begin", x>>, "negotiate")
  ELSE Failed(c)

\* expect_ack and what handshake() sends next
NativeAck(c, b) ==
  IF b # "N" THEN Failed(c)
  ELSE IF c.at = "database" THEN Sends(c, <<"ssl", level>>, "security")
  ELSE SendsOption(c)

\* the answer to SSL_NEGOTIATE
NativeSecure(c, b) ==
  IF b = "N" THEN IF OnlySecured THEN Failed(c) ELSE SendsOption(c)
  ELSE IF b = "S" THEN UpgradeTls(Sends(c, <<"connect", 0>>, "confirm"))
  ELSE Failed(c)

\* authentication and the loop up to ReadyForQuery
NativeAuth(c, b, x) ==
  IF b # "R" \/ x \notin KnownMethods THEN Failed(c)
  ELSE [c EXCEPT !.at = "complete", !.sent = @ \o AuthFrames(x)]

NativeComplete_eager(c, b) == \* mutant: BackendKeyData ends the handshake
  IF b \in {"K", "Z"} THEN [c EXCEPT !.at = "ok", !.key = (b = "K")]
  ELSE IF b \in {"nul", "R", "N"} THEN c ELSE Failed(c)
NativeComplete(c, b) ==
  IF b = "Z" THEN [c EXCEPT !.at = "ok"]
  ELSE IF b = "K" THEN [c EXCEPT !.key = TRUE]
  ELSE IF b \in {"nul", "R", "N"} THEN c ELSE Failed(c)

NativeOn(c, b, x) ==
  CASE c.at = "negotiate" -> NativeNegotiate(c, b, x)
    [] c.at \in {"database", "confirm", "options"} -> NativeAck(c, b)
    [] c.at = "security" -> NativeSecure(c, b)
    [] c.at = "auth" -> NativeAuth(c, b, x)
    [] c.at = "complete" -> NativeComplete(c, b)
    [] OTHER -> c

-----------------------------------------------------------------------------
\* connect: the first frame offers version 6
Started == [at |-> "negotiate", version |-> 6, done |-> 0, tls |-> FALSE, key |-> FALSE,
            sent |-> <<<<"begin", 6>>>>]

Init == level \in Levels /\ sync = Started /\ native = Started

Answer ==
  \E a \in Answers :
    /\ sync' = SyncOn(sync, a[1], a[2])
    /\ native' = NativeOn(native, a[1], a[2])
    /\ UNCHANGED level

\* A read of handshake.rs takes longer than connection_timeout, or the whole
\* handshake of native_async.rs does.  The two run in step here, so they time out
\* together: what is compared is what they have sent until then.
TimesOut ==
  /\ sync.at \notin {"ok", "failed"}
  /\ sync' = Failed(sync) /\ native' = Failed(native)
  /\ UNCHANGED level

Next == Answer \/ TimesOut

Spec == Init /\ [][Next]_vars

-----------------------------------------------------------------------------
(* Properties *)

\* The two engines send the same frames and come to the same end on every
\* sequence of answers.
EnginesAgree == native = sync

\* With OnlySecuredSession neither the user's name nor an answer to an
\* authentication request leaves before the socket is wrapped.
SecuredFirst ==
  \A c \in {sync, native} :
    OnlySecured /\ ~c.tls => \A i \in DOMAIN c.sent : c.sent[i][1] \notin {"option", "auth"}

\* However the server answers, it is offered each version at most once, in
\* falling order; the options follow the last offer, they are those of its
\* version, in the order of the plan, and all of them were sent by the time the
\* server is asked to let the user in.
Frames(c, kind) == {i \in DOMAIN c.sent : c.sent[i][1] = kind}
LastOffer(c) == CHOOSE i \in Frames(c, "begin") : \A j \in Frames(c, "begin") : j <= i
WellNegotiated ==
  LET plan == OptionPlan(sync.sent[LastOffer(sync)][2])
      options == Frames(sync, "option")
  IN /\ \A i, j \in Frames(sync, "begin") : i < j => sync.sent[j][2] < sync.sent[i][2]
     /\ \E first \in LastOffer(sync)..Len(sync.sent), n \in 0..Len(plan) :
          /\ options = {first + k : k \in 1..n}
          /\ \A k \in 1..n : sync.sent[first + k][2] = plan[k]
          /\ sync.at \in {"complete", "ok"} => n = Len(plan)

\* The two handshakes are one, and it is a sound one.
HandshakeSound == TypeOK /\ EnginesAgree /\ SecuredFirst /\ WellNegotiated
===============================================================================
