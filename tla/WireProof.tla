------------------------------- MODULE WireProof -------------------------------
(***************************************************************************)
(* Proofs about the parts of MCWire.  The read buffer never hands out a    *)
(* byte out of order, twice or not at all, for every buffer size, chunk    *)
(* size and request length: ReadBuffer implements ByteStream.  What        *)
(* HandshakeProof and ExternalTransferProof show of their components for   *)
(* all constants is carried over to the instances that MCWire checks.      *)
(***************************************************************************)
EXTENDS MCWire, TLAPS

-----------------------------------------------------------------------------
(* The inductive invariant *)

\* The bytes between start and end are the last ones that arrived, in order
Content ==
  /\ available <= arrived
  /\ \A i \in start..end - 1 : buf[i] = arrived - end + i + 1

\* Room for what is asked for was made once, before the first read
Roomy ==
  /\ op.is \in {"take", "look"} /\ available < op.n => start + op.n <= len
  /\ op.is = "pull" /\ op.n = 0 => end < len

IInv == TypeOK /\ Content /\ Roomy

-----------------------------------------------------------------------------
(* Lemmas *)

\* Compaction, growth and shrinking keep the unconsumed bytes.
LEMMA MoveKeeps ==
  ASSUME TypeOK, Content, NEW n \in Nat, n >= available, Move(n), arrived' = arrived
  PROVE  /\ len' = n /\ buf' \in [0..len' - 1 -> Nat]
         /\ start' = 0 /\ end' = available /\ end' <= len'
         /\ Content'
BY DEF TypeOK, Content, Move, available, Junk

\* After ensure_capacity the bytes are those from before and the room asked for
\* is there.
LEMMA CapacityKeeps ==
  ASSUME TypeOK, Content, NEW needed \in Nat, EnsureCapacity(needed), arrived' = arrived
  PROVE  /\ len' \in Nat /\ buf' \in [0..len' - 1 -> Nat]
         /\ start' \in Nat /\ end' \in Nat /\ start' <= end' /\ end' <= len'
         /\ start' \in {0, start} /\ end' - start' = end - start
         /\ needed > 0 => end' < len'
         /\ \A n \in Nat : needed = start + n => start' + n <= len'
         /\ Content'
<1> USE BufferAssumption
<1>1. CASE UNCHANGED bufferVars /\ len - end >= needed
  BY <1>1 DEF TypeOK, Content, bufferVars, available
<1>2. CASE len - end < needed /\ len - available >= needed /\ Move(len)
  <2>1. len \in Nat /\ len >= available
    BY <1>2 DEF TypeOK, available
  <2>2. QED BY <1>2, <2>1, MoveKeeps DEF TypeOK, available
<1>3. CASE len - end < needed /\ len - available < needed /\ Move(Grown(needed))
  <2>1. Grown(needed) \in Nat /\ Grown(needed) >= available + needed
    BY DEF Grown, Max2, TypeOK, available
  <2>2. Grown(needed) >= available
    BY <2>1 DEF TypeOK, available
  <2>3. QED BY <1>3, <2>1, <2>2, MoveKeeps DEF TypeOK, available
<1>4. QED BY <1>1, <1>2, <1>3 DEF EnsureCapacity

\* A read appends the bytes that come next.
LEMMA FillKeeps ==
  ASSUME TypeOK, Content, NEW k \in Nat \ {0}, k <= Min2(len - end, sent - arrived), Fill(k),
         sent' = sent
  PROVE  /\ len' = len /\ buf' \in [0..len' - 1 -> Nat] /\ start' = start
         /\ end' = end + k /\ end' <= len'
         /\ arrived' \in Nat /\ arrived' <= sent'
         /\ Content'
<1>1. k <= len - end /\ k <= sent - arrived
  BY DEF Min2, TypeOK
<1>2. QED BY <1>1 DEF TypeOK, Content, Fill, available

\* The first bytes of the buffer are those the stream has next.
LEMMA ReturnsNext ==
  ASSUME TypeOK, Content, NEW n \in Nat, n <= available, Returned(n)
  PROVE  got' = [i \in 1..n |-> (arrived - available) + i]
<1>1. \A i \in 1..n : buf[start + i - 1] = (arrived - available) + i
  BY DEF TypeOK, Content, available
<1>2. QED BY <1>1 DEF Returned

-----------------------------------------------------------------------------
(* The invariant *)

LEMMA InitInv == Init => IInv
BY BufferAssumption DEF Init, IInv, TypeOK, Content, Roomy, Idle, Junk, available

LEMMA NextInv == IInv /\ [Next]_vars => IInv'
<1> SUFFICES ASSUME IInv, [Next]_vars PROVE IInv'
  OBVIOUS
<1> USE BufferAssumption
<1>0. TypeOK /\ Content /\ Roomy
  BY DEF IInv
<1>1. CASE Send
  BY <1>0, <1>1 DEF Send, IInv, TypeOK, Content, Roomy, bufferVars, available
<1>2. ASSUME NEW kind \in {"take", "look"}, NEW n \in 0..MaxLen, Ask(kind, n) PROVE IInv'
  <2>1. n \in Nat /\ op' = [is |-> kind, n |-> n] /\ sent' = sent /\ arrived' = arrived
    BY <1>2 DEF Ask
  <2>2. CASE available < n /\ len - start < n
    <3>1. start + n \in Nat /\ EnsureCapacity(start + n)
      BY <1>0, <1>2, <2>1, <2>2 DEF Ask, MakeRoom, TypeOK
    <3>2. /\ len' \in Nat /\ buf' \in [0..len' - 1 -> Nat]
          /\ start' \in Nat /\ end' \in Nat /\ start' <= end' /\ end' <= len'
          /\ start' \in {0, start} /\ start' + n <= len'
          /\ Content'
      BY <1>0, <2>1, <3>1, CapacityKeeps
    <3>3. op' \in [is : {"idle", "pull", "take", "look"}, n : Nat] /\ op'.n = n /\ op'.is = kind
      BY <2>1
    <3>4. sent' \in Nat /\ arrived' \in Nat /\ arrived' <= sent'
      BY <1>0, <2>1 DEF TypeOK
    <3>5. TypeOK'
      BY <3>2, <3>3, <3>4 DEF TypeOK
    <3>6. Roomy'
      BY <3>2, <3>3 DEF Roomy
    <3>7. QED BY <3>2, <3>5, <3>6 DEF IInv
  <2>3. CASE ~(available < n /\ len - start < n)
    <3>1. UNCHANGED bufferVars
      BY <1>2, <2>3 DEF Ask, MakeRoom
    <3>2. QED BY <1>0, <2>1, <2>3, <3>1 DEF IInv, TypeOK, Content, Roomy, bufferVars, available
  <2>4. QED BY <2>2, <2>3
<1>3. ASSUME NEW k \in 1..MaxSent, ReadMore(k) PROVE IInv'
  <2>1. k \in Nat \ {0} /\ k <= Min2(len - end, sent - arrived) /\ Fill(k) /\ sent' = sent /\ op' = op
        /\ op.is \in {"take", "look"} /\ available < op.n
    BY <1>3 DEF ReadMore, Waits
  <2>2. /\ len' = len /\ buf' \in [0..len' - 1 -> Nat] /\ start' = start
        /\ end' = end + k /\ end' <= len'
        /\ arrived' \in Nat /\ arrived' <= sent' /\ Content'
    BY <1>0, <2>1, FillKeeps
  <2>3. len' \in Nat /\ start' \in Nat /\ end' \in Nat /\ start' <= end'
    BY <1>0, <2>1, <2>2 DEF TypeOK
  <2>4. op' = op /\ sent' \in Nat
    BY <1>0, <2>1 DEF TypeOK
  <2>5. TypeOK'
    BY <1>0, <2>2, <2>3, <2>4 DEF TypeOK
  <2>6. Roomy'
    BY <1>0, <2>1, <2>2, <2>4 DEF Roomy, TypeOK
  <2>7. QED BY <2>2, <2>5, <2>6 DEF IInv
<1>4. ASSUME NEW k \in 1..MaxSent, PullMore(k) PROVE IInv'
  <2>1. k \in Nat \ {0} /\ k <= Min2(len - end, sent - arrived) /\ Fill(k) /\ sent' = sent
        /\ op.is = "pull" /\ op' = [op EXCEPT !.n = 1]
    BY <1>4 DEF PullMore
  <2>2. /\ len' = len /\ buf' \in [0..len' - 1 -> Nat] /\ start' = start
        /\ end' = end + k /\ end' <= len'
        /\ arrived' \in Nat /\ arrived' <= sent' /\ Content'
    BY <1>0, <2>1, FillKeeps
  <2>3. op' \in [is : {"idle", "pull", "take", "look"}, n : Nat] /\ op'.is = "pull" /\ op'.n = 1
    BY <1>0, <2>1 DEF TypeOK
  <2>4. len' \in Nat /\ start' \in Nat /\ end' \in Nat /\ start' <= end'
    BY <1>0, <2>1, <2>2 DEF TypeOK
  <2>5. sent' \in Nat
    BY <1>0, <2>1 DEF TypeOK
  <2>6. TypeOK'
    BY <2>2, <2>3, <2>4, <2>5 DEF TypeOK
  <2>7. Roomy'
    BY <2>3 DEF Roomy
  <2>8. QED BY <2>2, <2>6, <2>7 DEF IInv
<1>5. CASE ReadFails
  BY <1>0, <1>5 DEF ReadFails, Idle, IInv, TypeOK, Content, Roomy, bufferVars, available
<1>6. CASE Take
  BY <1>0, <1>6 DEF Take, Done, Idle, IInv, TypeOK, Content, Roomy, available
<1>7. CASE Look
  BY <1>0, <1>7 DEF Look, Done, Idle, IInv, TypeOK, Content, Roomy, bufferVars, available
<1>8. ASSUME NEW n \in 0..MaxLen, Advance(n) PROVE IInv'
  BY <1>0, <1>8 DEF Advance, Min2, Idle, IInv, TypeOK, Content, Roomy, available
<1>9. CASE DiscardLeadingNulls
  BY <1>0, <1>9 DEF DiscardLeadingNulls, Idle, IInv, TypeOK, Content, Roomy, available
<1>10. ASSUME Pull \/ PullRoom PROVE IInv'
  <2>1. /\ EnsureCapacity(Chunk) /\ Chunk \in Nat \ {0} /\ arrived' = arrived /\ sent' = sent
        /\ op' = [is |-> "pull", n |-> 0]
    BY <1>0, <1>10 DEF Pull, PullRoom, TypeOK
  <2>2. /\ len' \in Nat /\ buf' \in [0..len' - 1 -> Nat]
        /\ start' \in Nat /\ end' \in Nat /\ start' <= end' /\ end' <= len'
        /\ end' < len'
        /\ Content'
    BY <1>0, <2>1, CapacityKeeps
  <2>3. op' \in [is : {"idle", "pull", "take", "look"}, n : Nat] /\ op'.n = 0 /\ op'.is = "pull"
    BY <2>1
  <2>4. sent' \in Nat /\ arrived' \in Nat /\ arrived' <= sent'
    BY <1>0, <2>1 DEF TypeOK
  <2>5. TypeOK'
    BY <2>2, <2>3, <2>4 DEF TypeOK
  <2>6. Roomy'
    BY <2>2, <2>3 DEF Roomy
  <2>7. QED BY <2>2, <2>5, <2>6 DEF IInv
<1>11. CASE PullEnd
  BY <1>0, <1>11 DEF PullEnd, Idle, IInv, TypeOK, Content, Roomy, bufferVars, available
<1>12. CASE ShrinkIfLarge
  <2>1. /\ Max2(Steady, available) \in Nat /\ Max2(Steady, available) >= available
        /\ Move(Max2(Steady, available)) /\ arrived' = arrived /\ op' = op /\ sent' = sent /\ op = Idle
    BY <1>0, <1>12 DEF ShrinkIfLarge, Max2, TypeOK, available
  <2>2. /\ len' \in Nat /\ buf' \in [0..len' - 1 -> Nat]
        /\ start' = 0 /\ end' = available /\ end' <= len' /\ Content'
    BY <1>0, <2>1, MoveKeeps
  <2>3. op' = Idle /\ sent' \in Nat /\ arrived' \in Nat /\ arrived' <= sent'
    BY <1>0, <2>1 DEF TypeOK
  <2>4. op' \in [is : {"idle", "pull", "take", "look"}, n : Nat] /\ op'.is = "idle"
    BY <2>3 DEF Idle
  <2>5. available \in Nat
    BY <1>0 DEF TypeOK, available
  <2>6. TypeOK'
    <3>1. start' \in Nat /\ end' \in Nat /\ start' <= end' /\ end' <= len'
      BY <2>2, <2>5
    <3>2. QED BY <2>2, <2>3, <2>4, <3>1 DEF TypeOK
  <2>7. Roomy'
    BY <2>4 DEF Roomy
  <2>8. QED BY <2>2, <2>6, <2>7 DEF IInv
<1>13. CASE UNCHANGED vars
  BY <1>0, <1>13 DEF vars, IInv, TypeOK, Content, Roomy, bufferVars, available
<1>14. QED
  BY <1>1, <1>2, <1>3, <1>4, <1>5, <1>6, <1>7, <1>8, <1>9, <1>10, <1>11, <1>12, <1>13 DEF Next

LEMMA Invariant == Spec => []IInv
BY InitInv, NextInv, PTL DEF Spec

-----------------------------------------------------------------------------
(* The theorems *)

\* The indices of the buffer stay inside its allocation and in order, whatever
\* ensure_capacity, shrink_if_large and failed reads do.
THEOREM BufferTypes == Spec => []TypeOK
<1>1. IInv => TypeOK
  BY DEF IInv
<1>2. QED BY <1>1, Invariant, PTL

\* No read is offered an empty slice, so Ok(0) always means the end of the
\* socket in ensure_data and pull_available.
THEOREM BufferOffersRoom == Spec => []RoomToRead
<1>1. IInv => RoomToRead
  BY DEF IInv, Roomy, TypeOK, RoomToRead, Waits, available
<1>2. QED BY <1>1, Invariant, PTL

\* The buffer implements the plain byte stream of ByteStream: every step of it
\* is one of the stream's, or invisible to it.
THEOREM BufferImplementsStream == Spec => StreamSpec
<1> USE BufferAssumption
<1>1. Init => Stream!Init
  BY DEF Init, Stream!Init, available
<1>2. IInv /\ [Next]_vars => [Stream!Next]_Stream!vars
  <2> SUFFICES ASSUME IInv, [Next]_vars PROVE [Stream!Next]_Stream!vars
    OBVIOUS
  <2>0. TypeOK /\ Content
    BY DEF IInv
  <2>1. CASE Send
    BY <2>0, <2>1 DEF Send, Stream!Next, Stream!Send, bufferVars, available, TypeOK
  <2>2. ASSUME EnsureCapacity(Chunk) \/ (\E n \in 0..MaxLen : MakeRoom(n)),
               UNCHANGED <<sent, arrived, got>>
        PROVE  UNCHANGED Stream!vars
    <3>1. CASE UNCHANGED bufferVars
      BY <2>2, <3>1 DEF bufferVars, available, Stream!vars
    <3>2. ASSUME NEW n \in Nat, EnsureCapacity(n) PROVE UNCHANGED Stream!vars
      BY <2>0, <2>2, <3>2, CapacityKeeps DEF available, Stream!vars
    <3>3. \A n \in 0..MaxLen : start + n \in Nat
      BY <2>0 DEF TypeOK
    <3>4. QED BY <2>2, <3>1, <3>2, <3>3 DEF MakeRoom
  <2>3. ASSUME NEW kind \in {"take", "look"}, NEW n \in 0..MaxLen, Ask(kind, n)
        PROVE  UNCHANGED Stream!vars
    BY <2>2, <2>3 DEF Ask
  <2>4. ASSUME NEW k \in 1..MaxSent, ReadMore(k) \/ PullMore(k) PROVE UNCHANGED Stream!vars
    BY <2>0, <2>4 DEF ReadMore, PullMore, Fill, available, Stream!vars, TypeOK
  <2>5. CASE ReadFails \/ PullEnd
    BY <2>5 DEF ReadFails, PullEnd, bufferVars, available, Stream!vars
  <2>6. CASE Take
    <3>1. op.n \in Nat /\ op.n <= available /\ Returned(op.n)
      BY <2>0, <2>6 DEF Take, Done, TypeOK, available
    <3>2. got' = [i \in 1..op.n |-> (arrived - available) + i]
      BY <2>0, <3>1, ReturnsNext
    <3>3. op.n \in 0..sent
      BY <2>0, <3>1 DEF TypeOK, Content, available
    <3>4. /\ (arrived - available) + op.n <= sent /\ sent' = sent
          /\ (arrived - available)' = (arrived - available) + op.n
      BY <2>0, <2>6, <3>1 DEF Take, TypeOK, available
    <3>5. Stream!Take(op.n)
      BY <3>2, <3>4 DEF Stream!Take, Stream!Next_n
    <3>6. QED BY <3>3, <3>5 DEF Stream!Next
  <2>7. CASE Look
    <3>1. op.n \in Nat /\ op.n <= available /\ Returned(op.n)
      BY <2>0, <2>7 DEF Look, Done, TypeOK, available
    <3>2. got' = [i \in 1..op.n |-> (arrived - available) + i]
      BY <2>0, <3>1, ReturnsNext
    <3>3. op.n \in 0..sent
      BY <2>0, <3>1 DEF TypeOK, Content, available
    <3>4. /\ (arrived - available) + op.n <= sent /\ sent' = sent
          /\ (arrived - available)' = arrived - available
      BY <2>0, <2>7, <3>1 DEF Look, bufferVars, TypeOK, available
    <3>5. Stream!Look(op.n)
      BY <3>2, <3>4 DEF Stream!Look, Stream!Next_n
    <3>6. QED BY <3>3, <3>5 DEF Stream!Next
  <2>8. ASSUME NEW n \in 0..MaxLen, Advance(n) PROVE Stream!Next
    <3> DEFINE k == Min2(n, available)
    <3>1. k \in Nat /\ k <= available /\ Returned(k)
      BY <2>0, <2>8 DEF Advance, Min2, TypeOK, available
    <3>2. got' = [i \in 1..k |-> (arrived - available) + i]
      BY <2>0, <3>1, ReturnsNext
    <3>3. k \in 0..sent
      BY <2>0, <3>1 DEF TypeOK, Content, available
    <3>4. /\ (arrived - available) + k <= sent /\ sent' = sent
          /\ (arrived - available)' = (arrived - available) + k
      BY <2>0, <2>8, <3>1 DEF Advance, Min2, TypeOK, available
    <3>5. Stream!Take(k)
      BY <3>2, <3>4 DEF Stream!Take, Stream!Next_n
    <3>6. QED BY <3>3, <3>5 DEF Stream!Next
  <2>9. CASE DiscardLeadingNulls
    <3>1. PICK n \in 0..available : NulRun(n) /\ start' = start + n
      BY <2>9 DEF DiscardLeadingNulls
    <3>2. n \in Nat /\ n <= available /\ n \in 0..sent
      BY <2>0, <3>1 DEF TypeOK, Content, available
    <3>3. \A i \in 1..n : (arrived - available) + i \in Nuls
      <4>1. SUFFICES ASSUME NEW i \in 1..n PROVE (arrived - available) + i \in Nuls
        OBVIOUS
      <4>2. start + i - 1 \in start..end - 1 /\ start + i - 1 \in start..start + n - 1
        BY <2>0, <3>2 DEF TypeOK, available
      <4>3. buf[start + i - 1] = arrived - end + (start + i - 1) + 1
        BY <2>0, <4>2 DEF Content
      <4>4. buf[start + i - 1] \in Nuls
        BY <3>1, <4>2 DEF NulRun
      <4>5. arrived - end + (start + i - 1) + 1 = (arrived - available) + i
        BY <2>0 DEF TypeOK, available
      <4>6. QED BY <4>3, <4>4, <4>5
    <3>4. /\ (arrived - available) + n <= sent
          /\ (arrived - available)' = (arrived - available) + n
          /\ UNCHANGED <<sent, got>>
      BY <2>0, <2>9, <3>1, <3>2 DEF DiscardLeadingNulls, TypeOK, available
    <3>5. Stream!Pad(n)
      BY <3>3, <3>4 DEF Stream!Pad
    <3>6. QED BY <3>2, <3>5 DEF Stream!Next
  <2>10. CASE Pull \/ PullRoom
    BY <2>2, <2>10 DEF Pull, PullRoom
  <2>11. CASE ShrinkIfLarge
    <3>1. /\ Max2(Steady, available) \in Nat /\ Max2(Steady, available) >= available
          /\ Move(Max2(Steady, available)) /\ UNCHANGED <<sent, arrived, got>>
      BY <2>0, <2>11 DEF ShrinkIfLarge, Max2, TypeOK, available
    <3>2. start' = 0 /\ end' = available
      BY <3>1 DEF Move
    <3>3. QED BY <2>0, <3>1, <3>2 DEF Stream!vars, available, TypeOK
  <2>12. CASE UNCHANGED vars
    BY <2>12 DEF vars, bufferVars, Stream!vars, available
  <2>13. QED
    BY <2>1, <2>3, <2>4, <2>5, <2>6, <2>7, <2>8, <2>9, <2>10, <2>11, <2>12 DEF Next
<1>3. QED BY <1>1, <1>2, Invariant, PTL DEF Spec, StreamSpec, Stream!Spec

-----------------------------------------------------------------------------
(* The handshakes and the transfers as parts of MCWire *)

Shakes == INSTANCE HandshakeProof WITH Levels <- 0..3, Tls <- TRUE

ShakePart == part = "handshake" => Shakes!ShakeInv

LEMMA ShakesNext == ASSUME Handshakes!Next PROVE Shakes!Next
BY DEF Handshakes!Next, Handshakes!Answer, Handshakes!TimesOut, Handshakes!Answers,
       Handshakes!SyncOn, Handshakes!SyncNegotiate, Handshakes!SyncDatabase, Handshakes!SyncSecure,
       Handshakes!SyncAck, Handshakes!SyncAuth, Handshakes!SyncComplete, Handshakes!NativeOn,
       Handshakes!NativeNegotiate, Handshakes!NativeAck, Handshakes!NativeSecure,
       Handshakes!NativeAuth, Handshakes!NativeComplete, Handshakes!Failed, Handshakes!Sends,
       Handshakes!SendsOption, Handshakes!UpgradeTls, Handshakes!OptionPlan, Handshakes!Downgrade,
       Handshakes!KnownMethods, Handshakes!AuthFrames, Handshakes!OnlySecured,
       Shakes!Next, Shakes!Answer, Shakes!TimesOut, Shakes!Answers,
       Shakes!SyncOn, Shakes!SyncNegotiate, Shakes!SyncDatabase, Shakes!SyncSecure,
       Shakes!SyncAck, Shakes!SyncAuth, Shakes!SyncComplete, Shakes!NativeOn,
       Shakes!NativeNegotiate, Shakes!NativeAck, Shakes!NativeSecure,
       Shakes!NativeAuth, Shakes!NativeComplete, Shakes!Failed, Shakes!Sends,
       Shakes!SendsOption, Shakes!UpgradeTls, Shakes!OptionPlan, Shakes!Downgrade,
       Shakes!KnownMethods, Shakes!AuthFrames, Shakes!OnlySecured

LEMMA ShakesMean == Shakes!HandshakeSound <=> Handshakes!HandshakeSound
BY DEF Handshakes!HandshakeSound, Handshakes!TypeOK, Handshakes!EnginesAgree,
       Handshakes!SecuredFirst, Handshakes!WellNegotiated, Handshakes!Frames,
       Handshakes!LastOffer, Handshakes!Engine, Handshakes!FrameKinds, Handshakes!Stages,
       Handshakes!OptionPlan, Handshakes!OnlySecured,
       Shakes!HandshakeSound, Shakes!TypeOK, Shakes!EnginesAgree,
       Shakes!SecuredFirst, Shakes!WellNegotiated, Shakes!Frames,
       Shakes!LastOffer, Shakes!Engine, Shakes!FrameKinds, Shakes!Stages,
       Shakes!OptionPlan, Shakes!OnlySecured

\* handshake() and AsyncSession::handshake agree and negotiate soundly in every
\* behaviour of the parts that MCWire puts together.
THEOREM WireHandshakes == WireSpec => []HandshakeSound
<1>1. WireInit => ShakePart
  <2> SUFFICES ASSUME WireInit, part = "handshake" PROVE Shakes!ShakeInv
    BY DEF ShakePart
  <2>1. Shakes!Init
    BY DEF WireInit, Handshakes!Init, Handshakes!Started, Shakes!Init, Shakes!Started
  <2> QED
    BY <2>1, Shakes!InitShake
<1>2. ShakePart /\ [WireNext]_wireVars => ShakePart'
  <2> SUFFICES ASSUME ShakePart, [WireNext]_wireVars, part' = "handshake" PROVE Shakes!ShakeInv'
    BY DEF ShakePart
  <2>1. part = "handshake" /\ Shakes!ShakeInv
    BY DEF ShakePart, WireNext, wireVars
  <2>2. CASE WireNext
    BY <2>1, <2>2, ShakesNext, Shakes!NextShake DEF WireNext
  <2>3. CASE UNCHANGED wireVars
    BY <2>1, <2>3, Shakes!NextShake DEF wireVars, handshakeVars, Shakes!vars
  <2> QED
    BY <2>2, <2>3
<1>3. ShakePart => HandshakeSound
  BY ShakesMean, Shakes!ShakeSound DEF ShakePart, HandshakeSound
<1> QED
  BY <1>1, <1>2, <1>3, PTL DEF WireSpec

-----------------------------------------------------------------------------

Files == INSTANCE ExternalTransferProof WITH
  server <- asks, SyncSessions <- {"sync"}, NativeSessions <- {"native"},
  Names <- {"f", "g"}, Permitted <- {"f", "g"}, MaxStmts <- 2, MaxChunks <- 2, MaxSources <- 1

FilePart == part = "transfer" => Files!TransferInv

LEMMA FilesInit == ASSUME Transfers!Init PROVE Files!Init
BY DEF Transfers!Init, Transfers!Sessions, Transfers!Idle, Files!Init, Files!Sessions, Files!Idle

LEMMA FilesNext == ASSUME Transfers!Next PROVE Files!Next
BY DEF Transfers!Next, Transfers!Register, Transfers!Unregister, Transfers!Execute,
       Transfers!Complete, Transfers!Retire, Transfers!Log, Transfers!LogEnd,
       Transfers!ExportChunk, Transfers!ExportEnd, Transfers!ExportAbandoned,
       Transfers!ImportChunk, Transfers!ImportEnd, Transfers!ImportFails,
       Transfers!ExportStart, Transfers!Import, Transfers!Sessions, Transfers!Kinds,
       Transfers!Content, Transfers!Make, Transfers!Idle, Transfers!Plain, Transfers!Failing,
       Transfers!Serves, Transfers!Now, Transfers!Dropped, Transfers!Unused, Transfers!BoundTo,
       Transfers!Found, Transfers!Take, Transfers!Readable, Transfers!Sending,
       Files!Next, Files!Register, Files!Unregister, Files!Execute,
       Files!Complete, Files!Retire, Files!Log, Files!LogEnd,
       Files!ExportChunk, Files!ExportEnd, Files!ExportAbandoned,
       Files!ImportChunk, Files!ImportEnd, Files!ImportFails,
       Files!ExportStart, Files!Import, Files!Sessions, Files!Kinds,
       Files!Content, Files!Make, Files!Idle, Files!Plain, Files!Failing,
       Files!Serves, Files!Now, Files!Dropped, Files!Unused, Files!BoundTo,
       Files!Found, Files!Take, Files!Readable, Files!Sending

LEMMA FilesMean == Files!TransfersExact <=> Transfers!TransfersExact
<1>1. Files!TypeOK <=> Transfers!TypeOK
  BY DEF Transfers!TypeOK, Transfers!Sessions, Transfers!Source, Transfers!Kinds,
         Files!TypeOK, Files!Sessions, Files!Source, Files!Kinds
<1>2. Files!FileIsExport <=> Transfers!FileIsExport
  BY DEF Transfers!FileIsExport, Transfers!Sessions, Transfers!Serves,
         Files!FileIsExport, Files!Sessions, Files!Serves
<1>3. Files!NothingKept <=> Transfers!NothingKept
  BY DEF Transfers!NothingKept, Transfers!Sessions, Files!NothingKept, Files!Sessions
<1>4. \A id : Files!Feeding(id) = Transfers!Feeding(id) /\ Files!Waiting(id) = Transfers!Waiting(id)
  BY DEF Transfers!Feeding, Transfers!Waiting, Transfers!Sessions,
         Files!Feeding, Files!Waiting, Files!Sessions
<1>5. Files!OneShot <=> Transfers!OneShot
  BY <1>4 DEF Transfers!OneShot, Transfers!Cardinality, Files!OneShot, Files!Cardinality
<1> QED
  BY <1>1, <1>2, <1>3, <1>5 DEF Transfers!TransfersExact, Files!TransfersExact

\* Files hold their exports, and sources feed one import, in every behaviour of
\* the parts that MCWire puts together.
THEOREM WireTransfers ==
  ASSUME None \notin {"f", "g"} PROVE WireSpec => []TransfersExact
<1>1. WireInit => FilePart
  BY FilesInit, Files!TransferInit DEF WireInit, FilePart
<1>2. FilePart /\ [WireNext]_wireVars => FilePart'
  <2> SUFFICES ASSUME FilePart, [WireNext]_wireVars, part' = "transfer" PROVE Files!TransferInv'
    BY DEF FilePart
  <2>1. part = "transfer" /\ Files!TransferInv
    BY DEF FilePart, WireNext, wireVars
  <2>2. CASE WireNext
    BY <2>1, <2>2, FilesNext, Files!TransferStep DEF WireNext
  <2>3. CASE UNCHANGED wireVars
    BY <2>1, <2>3, Files!TransferStep DEF wireVars, transferVars, Files!vars
  <2> QED
    BY <2>2, <2>3
<1>3. FilePart => TransfersExact
  BY FilesMean, Files!InvExact DEF FilePart, TransfersExact
<1> QED
  BY <1>1, <1>2, <1>3, PTL DEF WireSpec

==============================================================================
