---------------------------- MODULE HandshakeProof ----------------------------
(***************************************************************************)
(* The two handshakes agree on every sequence of answers, send nothing of  *)
(* the user in the clear when TLS is required, and negotiate in order.     *)
(***************************************************************************)
EXTENDS Handshake, SequenceTheorems, TLAPS

-----------------------------------------------------------------------------
(* The inductive invariant *)

\* Where an engine stands in its list of frames: the last offer is frame o, the
\* options are the `done` frames after frame f.
Layout(c, o, f) ==
  /\ o \in 1..Len(c.sent) /\ c.sent[o] = <<"begin", c.version>>
  /\ \A i \in 1..Len(c.sent) : c.sent[i][1] = "begin" =>
       i <= o /\ (i < o => c.sent[i][2] > c.version)
  /\ \A i, j \in 1..Len(c.sent) :
       c.sent[i][1] = "begin" /\ c.sent[j][1] = "begin" /\ i < j => c.sent[j][2] < c.sent[i][2]
  /\ f \in o..Len(c.sent) /\ f + c.done <= Len(c.sent) /\ c.done <= Len(OptionPlan(c.version))
  /\ \A i \in 1..Len(c.sent) : c.sent[i][1] = "option" <=> f < i /\ i <= f + c.done
  /\ \A k \in 1..c.done : c.sent[f + k][2] = OptionPlan(c.version)[k]

\* How many options were sent at each stage
Progress(c, f) ==
  /\ c.at \in {"negotiate", "database", "security", "confirm"} => c.done = 0
  /\ c.at = "options" => f + c.done = Len(c.sent) /\ c.done < Len(OptionPlan(c.version))
  /\ c.at \in {"auth", "complete", "ok"} => c.done = Len(OptionPlan(c.version))

\* With OnlySecuredSession an engine that gets beyond the answer to its SSL
\* request has a wrapped socket.
Guarded(c) ==
  OnlySecured /\ ~c.tls =>
    /\ c.at \in {"negotiate", "database", "security", "failed"}
    /\ \A i \in 1..Len(c.sent) : c.sent[i][1] \notin {"option", "auth"}

EngineInv(c) ==
  c \in Engine /\ Guarded(c) /\ \E o, f \in Nat : Layout(c, o, f) /\ Progress(c, f)

ShakeInv == level \in 0..3 /\ native = sync /\ EngineInv(sync)

-----------------------------------------------------------------------------
(* Lemmas *)

LEMMA PlanFacts ==
  ASSUME NEW v \in 2..6
  PROVE  /\ OptionPlan(v) \in Seq(Nat) /\ Len(OptionPlan(v)) \in Nat /\ Len(OptionPlan(v)) > 1
         /\ \A n \in 1..Len(OptionPlan(v)) : OptionPlan(v)[n] \in Nat
<1>1. OptionPlan(v) \in Seq(Nat) /\ Len(OptionPlan(v)) >= 5
  BY DEF OptionPlan
<1>2. Len(OptionPlan(v)) \in Nat /\ \A n \in 1..Len(OptionPlan(v)) : OptionPlan(v)[n] \in Nat
  BY <1>1, LenProperties, ElementOfSeq
<1> QED
  BY <1>1, <1>2

LEMMA Within ==
  ASSUME NEW m \in Nat, NEW f \in Nat, NEW n \in Nat, f + n <= m, NEW k \in 1..n
  PROVE  f + k \in 1..m
  OBVIOUS

\* An engine is its fields.
LEMMA EngineFields ==
  ASSUME NEW c \in Engine
  PROVE  /\ c = [at |-> c.at, version |-> c.version, done |-> c.done, tls |-> c.tls, key |-> c.key,
                 sent |-> c.sent]
         /\ c.at \in Stages /\ c.version \in 2..6 /\ c.done \in Nat /\ c.tls \in BOOLEAN
         /\ c.key \in BOOLEAN /\ c.sent \in Seq(FrameKinds \X Nat) /\ Len(c.sent) \in Nat
<1>1. /\ c = [at |-> c.at, version |-> c.version, done |-> c.done, tls |-> c.tls, key |-> c.key,
              sent |-> c.sent]
      /\ c.at \in Stages /\ c.version \in 2..6 /\ c.done \in Nat /\ c.tls \in BOOLEAN
      /\ c.key \in BOOLEAN /\ c.sent \in Seq(FrameKinds \X Nat)
  BY DEF Engine
<1> QED
  BY <1>1, LenProperties

\* A frame is added at the end.
LEMMA Appended ==
  ASSUME NEW s \in Seq(FrameKinds \X Nat), NEW frame \in FrameKinds \X Nat
  PROVE  /\ Append(s, frame) \in Seq(FrameKinds \X Nat)
         /\ Len(Append(s, frame)) = Len(s) + 1 /\ Len(s) \in Nat
         /\ \A i \in 1..Len(s) : Append(s, frame)[i] = s[i]
         /\ Append(s, frame)[Len(s) + 1] = frame
BY AppendProperties, LenProperties

LEMMA SendsFacts ==
  ASSUME NEW c \in Engine, NEW frame \in FrameKinds \X Nat, NEW at \in Stages
  PROVE  /\ Sends(c, frame, at) \in Engine /\ Sends(c, frame, at).sent = Append(c.sent, frame)
         /\ Sends(c, frame, at).version = c.version /\ Sends(c, frame, at).done = c.done
         /\ Sends(c, frame, at).tls = c.tls /\ Sends(c, frame, at).at = at
<1>2. Append(c.sent, frame) \in Seq(FrameKinds \X Nat)
  BY EngineFields, Appended
<1>3. Sends(c, frame, at) = [c EXCEPT !.sent = Append(c.sent, frame), !.at = at]
  BY DEF Sends
<1> DEFINE new == Append(c.sent, frame)
<1> HIDE DEF new
<1>4. new \in Seq(FrameKinds \X Nat) /\ Sends(c, frame, at) = [c EXCEPT !.sent = new, !.at = at]
  BY <1>2, <1>3 DEF new
<1> DEFINE r == [c EXCEPT !.sent = new, !.at = at]
<1>5. /\ r \in Engine /\ r.sent = new /\ r.version = c.version /\ r.done = c.done
      /\ r.tls = c.tls /\ r.at = at
  BY <1>4 DEF Engine
<1>6. Sends(c, frame, at) = r
  BY <1>4
<1> HIDE DEF r
<1> QED
  BY <1>5, <1>6 DEF new

\* The blocking and the native engine do the same with the same answer.
LEMMA SameStep ==
  ASSUME NEW c \in Engine, NEW b, NEW x
  PROVE  SyncOn(c, b, x) = NativeOn(c, b, x)
<1>1. SyncNegotiate(c, b, x) = NativeNegotiate(c, b, x)
  <2>1. [Sends(c, <<"begin", x>>, "negotiate") EXCEPT !.version = x]
          = Sends([c EXCEPT !.version = x], <<"begin", x>>, "negotiate")
    BY EngineFields DEF Sends
  <2>2. 2..5 = {2, 3, 4, 5}
    OBVIOUS
  <2> QED
    BY <2>1, <2>2 DEF SyncNegotiate, NativeNegotiate
<1>2. SyncSecure(c, b) = NativeSecure(c, b)
  BY DEF SyncSecure, NativeSecure
<1>3. c.at = "database" => SyncDatabase(c, b) = NativeAck(c, b)
  BY DEF SyncDatabase, NativeAck
<1>4. c.at \in {"confirm", "options"} => SyncAck(c, b) = NativeAck(c, b)
  BY DEF SyncAck, NativeAck
<1>5. SyncAuth(c, b, x) = NativeAuth(c, b, x)
  BY EngineFields DEF SyncAuth, NativeAuth
<1>6. SyncComplete(c, b) = NativeComplete(c, b)
  BY DEF SyncComplete, NativeComplete
<1> QED
  BY <1>1, <1>2, <1>3, <1>4, <1>5, <1>6, EngineFields DEF SyncOn, NativeOn, Stages

-----------------------------------------------------------------------------
(* The kinds of steps *)

\* Nothing is sent: the handshake fails, a key arrives, or it is over.
LEMMA SilentKeeps ==
  ASSUME NEW c, EngineInv(c), NEW d \in Engine,
         d.sent = c.sent, d.version = c.version, d.done = c.done, d.tls = c.tls,
         \/ d.at = "failed" \/ d.at = c.at
         \/ c.at \in {"auth", "complete"} /\ d.at \in {"complete", "ok"}
  PROVE  EngineInv(d)
<1>1. PICK o \in Nat, f \in Nat : Layout(c, o, f) /\ Progress(c, f)
  BY DEF EngineInv
<1>2. Layout(d, o, f)
  BY <1>1 DEF Layout
<1>3. Progress(d, f)
  BY <1>1 DEF Progress
<1>4. Guarded(d)
  BY DEF EngineInv, Guarded
<1> QED
  BY <1>2, <1>3, <1>4 DEF EngineInv

\* A frame that is neither an offer nor an option
LEMMA OtherKeeps ==
  ASSUME NEW c, EngineInv(c), NEW d \in Engine, NEW kind \in FrameKinds, NEW n \in Nat,
         kind \notin {"begin", "option"}, d.sent = Append(c.sent, <<kind, n>>),
         d.version = c.version, d.done = c.done,
         \/ d.at = "failed"
         \/ d.at \in {"database", "security", "confirm"} /\ c.done = 0
         \/ c.at = "auth" /\ d.at = "complete",
         Guarded(d)
  PROVE  EngineInv(d)
<1>1. PICK o \in Nat, f \in Nat : Layout(c, o, f) /\ Progress(c, f)
  BY DEF EngineInv
<1>2. /\ c.sent \in Seq(FrameKinds \X Nat) /\ c.version \in 2..6 /\ c.done \in Nat
      /\ Len(d.sent) = Len(c.sent) + 1 /\ Len(c.sent) \in Nat
      /\ \A i \in 1..Len(c.sent) : d.sent[i] = c.sent[i]
      /\ d.sent[Len(c.sent) + 1] = <<kind, n>>
  BY EngineFields, Appended DEF EngineInv
<1>5. /\ o \in 1..Len(c.sent) /\ f \in o..Len(c.sent) /\ f + c.done <= Len(c.sent)
      /\ c.done <= Len(OptionPlan(c.version))
  BY <1>1 DEF Layout
<1>6. \A i \in 1..Len(c.sent) : c.sent[i][1] = "option" <=> f < i /\ i <= f + c.done
  BY <1>1 DEF Layout
<1>7. \A k \in 1..c.done : c.sent[f + k][2] = OptionPlan(c.version)[k]
  BY <1>1 DEF Layout
<1>8. f + c.done \in Nat
  BY <1>2
<1>3. Layout(d, o, f)
  <2>1. o \in 1..Len(d.sent) /\ d.sent[o] = <<"begin", d.version>>
    BY <1>1, <1>2 DEF Layout
  <2>2. \A i \in 1..Len(d.sent) : i \in 1..Len(c.sent) \/ d.sent[i][1] = kind
    BY <1>2
  <2>3. \A i \in 1..Len(d.sent) : d.sent[i][1] \in {"begin", "option"} =>
          i \in 1..Len(c.sent) /\ d.sent[i] = c.sent[i]
    BY <1>2, <2>2
  <2>4. \A i \in 1..Len(d.sent) : d.sent[i][1] = "begin" =>
          i <= o /\ (i < o => d.sent[i][2] > d.version)
    BY <1>1, <2>3 DEF Layout
  <2>5. \A i, j \in 1..Len(d.sent) :
          d.sent[i][1] = "begin" /\ d.sent[j][1] = "begin" /\ i < j => d.sent[j][2] < d.sent[i][2]
    BY <1>1, <2>3 DEF Layout
  <2>6. /\ f \in o..Len(d.sent) /\ f + d.done <= Len(d.sent)
        /\ d.done <= Len(OptionPlan(d.version))
    <3>1. f \in o..(Len(c.sent) + 1)
      BY <1>2, <1>5
    <3>2. f + c.done <= Len(c.sent) + 1
      BY <1>2, <1>5, <1>8
    <3> QED
      BY <1>2, <1>5, <3>1, <3>2
  <2>7. ASSUME NEW i \in 1..Len(d.sent)
        PROVE  d.sent[i][1] = "option" <=> f < i /\ i <= f + d.done
    <3>1. CASE i \in 1..Len(c.sent)
      BY <1>2, <1>6, <3>1
    <3>2. CASE i \notin 1..Len(c.sent)
      <4>1. d.sent[i][1] = kind
        BY <2>2, <3>2
      <4>2. i > Len(c.sent)
        BY <1>2, <3>2
      <4>3. ~(i <= f + c.done)
        BY <1>2, <1>5, <1>8, <4>2
      <4> QED
        BY <4>1, <4>3
    <3> QED
      BY <3>1, <3>2
  <2>8. ASSUME NEW k \in 1..d.done PROVE d.sent[f + k][2] = OptionPlan(d.version)[k]
    <3>1. k \in 1..c.done
      OBVIOUS
    <3>2. c.done \in Nat /\ Len(c.sent) \in Nat /\ f + c.done <= Len(c.sent)
      BY <1>2, <1>5
    <3>3. f + k \in 1..Len(c.sent)
      BY <3>1, <3>2, Within
    <3> QED
      BY <1>2, <1>7, <3>1, <3>3
  <2> QED
    BY <2>1, <2>4, <2>5, <2>6, <2>7, <2>8 DEF Layout
<1>4. Progress(d, f)
  BY <1>1 DEF Progress
<1> QED
  BY <1>3, <1>4 DEF EngineInv

\* A lower version is offered.
LEMMA OfferKeeps ==
  ASSUME NEW c, EngineInv(c), c.at = "negotiate", NEW x \in 2..5, x < c.version,
         NEW d \in Engine, d.sent = Append(c.sent, <<"begin", x>>), d.version = x,
         d.done = c.done, d.tls = c.tls, d.at = "negotiate"
  PROVE  EngineInv(d)
<1>1. PICK o \in Nat, f \in Nat : Layout(c, o, f) /\ Progress(c, f)
  BY DEF EngineInv
<1>2. /\ c.sent \in Seq(FrameKinds \X Nat) /\ c.version \in 2..6 /\ c.done = 0
      /\ Len(d.sent) = Len(c.sent) + 1 /\ Len(c.sent) \in Nat
      /\ \A i \in 1..Len(c.sent) : d.sent[i] = c.sent[i] /\ c.sent[i] \in FrameKinds \X Nat
      /\ d.sent[Len(c.sent) + 1] = <<"begin", x>>
  BY <1>1, EngineFields, Appended, ElementOfSeq DEF EngineInv, Progress
<1> DEFINE p == Len(c.sent) + 1
<1>3. Layout(d, p, p)
  <2>1. p \in 1..Len(d.sent) /\ d.sent[p] = <<"begin", d.version>>
    BY <1>2
  <2>2. ASSUME NEW i \in 1..Len(c.sent), c.sent[i][1] = "begin"
        PROVE  c.sent[i][2] \in Nat /\ c.sent[i][2] > x
    <3>1. i <= o /\ (i < o => c.sent[i][2] > c.version) /\ c.sent[o] = <<"begin", c.version>>
      BY <1>1, <2>2 DEF Layout
    <3>2. c.sent[i][2] \in Nat /\ c.version \in Nat /\ i \in Nat
      <4>1. c.sent[i] \in FrameKinds \X Nat
        BY <1>2
      <4>2. \A frame \in FrameKinds \X Nat : frame[2] \in Nat
        OBVIOUS
      <4>3. c.version \in Nat /\ i \in Nat
        BY <1>2
      <4> QED
        BY <4>1, <4>2, <4>3
    <3>3. CASE i = o
      <4>1. c.sent[i] = <<"begin", c.version>>
        BY <3>1, <3>3
      <4>2. c.sent[i][2] = c.version
        BY <4>1
      <4> QED
        BY <3>2, <4>2
    <3>4. CASE i < o
      BY <3>1, <3>2, <3>4
    <3> QED
      BY <3>1, <3>2, <3>3, <3>4
  <2>3. \A i \in 1..Len(d.sent) : i = p \/ (i \in 1..Len(c.sent) /\ d.sent[i] = c.sent[i])
    BY <1>2
  <2>4. ASSUME NEW i \in 1..Len(d.sent), d.sent[i][1] = "begin"
        PROVE  i <= p /\ (i < p => d.sent[i][2] > d.version)
    <3>1. i <= p
      BY <1>2
    <3>2. ASSUME i < p PROVE d.sent[i][2] > x
      <4>1. i \in 1..Len(c.sent) /\ d.sent[i] = c.sent[i]
        BY <1>2, <2>3, <3>2
      <4>2. c.sent[i][2] > x
        BY <2>2, <2>4, <4>1
      <4> QED
        BY <4>1, <4>2
    <3> QED
      BY <3>1, <3>2
  <2>5. ASSUME NEW i \in 1..Len(d.sent), NEW j \in 1..Len(d.sent),
               d.sent[i][1] = "begin", d.sent[j][1] = "begin", i < j
        PROVE  d.sent[j][2] < d.sent[i][2]
    <3>1. i \in 1..Len(c.sent) /\ d.sent[i] = c.sent[i]
      BY <1>2, <2>3, <2>5
    <3>2. CASE j = p
      <4>1. c.sent[i][2] \in Nat /\ c.sent[i][2] > x
        BY <2>2, <2>5, <3>1
      <4>2. d.sent[j][2] = x
        BY <1>2, <3>2
      <4> QED
        BY <3>1, <4>1, <4>2
    <3>3. CASE j # p
      <4>1. j \in 1..Len(c.sent) /\ d.sent[j] = c.sent[j]
        BY <2>3, <3>3
      <4> QED
        BY <1>1, <2>5, <3>1, <4>1 DEF Layout
    <3> QED
      BY <3>2, <3>3
  <2>6. /\ p \in p..Len(d.sent) /\ p + d.done <= Len(d.sent)
        /\ d.done <= Len(OptionPlan(d.version))
    BY <1>2, PlanFacts
  <2>7. \A i \in 1..Len(d.sent) : d.sent[i][1] = "option" <=> p < i /\ i <= p + d.done
    <3>0. \A i \in 1..Len(c.sent) : c.sent[i][1] = "option" <=> f < i /\ i <= f + 0
      BY <1>1, <1>2 DEF Layout
    <3>1. \A i \in 1..Len(c.sent) : c.sent[i][1] # "option"
      BY <1>2, <3>0
    <3>2. ASSUME NEW i \in 1..Len(d.sent) PROVE d.sent[i][1] # "option"
      <4>1. CASE i = p
        BY <1>2, <4>1
      <4>2. CASE i # p
        BY <2>3, <3>1, <4>2
      <4> QED
        BY <4>1, <4>2
    <3>3. \A i \in 1..Len(d.sent) : ~(p < i /\ i <= p + d.done)
      BY <1>2
    <3> QED
      BY <3>2, <3>3
  <2>8. \A k \in 1..d.done : d.sent[p + k][2] = OptionPlan(d.version)[k]
    BY <1>2
  <2> QED
    BY <2>1, <2>4, <2>5, <2>6, <2>7, <2>8 DEF Layout
<1>4. Progress(d, p)
  BY <1>2 DEF Progress
<1>5. Guarded(d)
  BY <1>2 DEF EngineInv, Guarded
<1>6. p \in Nat
  BY <1>2
<1> QED
  BY <1>3, <1>4, <1>5, <1>6 DEF EngineInv

\* The next option of the plan
LEMMA OptionKeeps ==
  ASSUME NEW c, EngineInv(c), c.at \in {"security", "confirm", "options"},
         OnlySecured => c.tls
  PROVE  EngineInv(SendsOption(c))
<1> DEFINE d == SendsOption(c)
           plan == OptionPlan(c.version)
           n == c.done + 1
           l == Len(c.sent)
<1>1. PICK o \in Nat, g \in Nat : Layout(c, o, g) /\ Progress(c, g)
  BY DEF EngineInv
<1>2. /\ c \in Engine /\ c.version \in 2..6 /\ c.done \in Nat /\ c.sent \in Seq(FrameKinds \X Nat)
      /\ l \in Nat /\ plan \in Seq(Nat) /\ Len(plan) \in Nat /\ Len(plan) > 1
  BY EngineFields, PlanFacts DEF EngineInv
\* the options go on where they stopped, or begin here
<1> DEFINE f == l - c.done
<1>3. f \in Nat /\ f + c.done = l /\ c.done < Len(plan) /\ Layout(c, o, f)
  <2>1. CASE c.at = "options"
    <3>1. g + c.done = l /\ c.done < Len(plan)
      BY <1>1, <2>1 DEF Progress
    <3>2. f = g
      BY <1>2, <3>1
    <3> QED
      BY <1>1, <3>1, <3>2
  <2>2. CASE c.at # "options"
    <3>1. c.done = 0
      BY <1>1, <2>2 DEF Progress
    <3>2. f = l
      BY <1>2, <3>1
    <3>3. \A i \in 1..l : c.sent[i][1] = "option" <=> g < i /\ i <= g + 0
      BY <1>1, <3>1 DEF Layout
    <3>8. \A i \in 1..l : ~(g < i /\ i <= g + 0) /\ ~(l < i /\ i <= l + 0)
      <4> HIDE DEF l
      <4> QED
        BY <1>2
    <3>4. \A i \in 1..l : c.sent[i][1] = "option" <=> l < i /\ i <= l + 0
      BY <3>3, <3>8
    <3>5. l \in o..l /\ l + c.done <= l
      BY <1>1, <1>2, <3>1 DEF Layout
    <3>6. \A k \in 1..c.done : c.sent[l + k][2] = plan[k]
      BY <3>1
    <3>7. Layout(c, o, l)
      BY <1>1, <3>1, <3>4, <3>5, <3>6 DEF Layout
    <3> QED
      BY <1>2, <3>1, <3>2, <3>7
  <2> QED
    BY <2>1, <2>2
<1>4. n \in 1..Len(plan) /\ plan[n] \in Nat /\ <<"option", plan[n]>> \in FrameKinds \X Nat
  <2>1. n \in 1..Len(plan)
    <3>1. c.done \in Nat /\ Len(plan) \in Nat /\ c.done < Len(plan)
      BY <1>2, <1>3
    <3> HIDE DEF plan
    <3> QED
      BY <3>1
  <2>2. \A i \in 1..Len(plan) : plan[i] \in Nat
    BY <1>2, PlanFacts
  <2> HIDE DEF plan, n
  <2>3. plan[n] \in Nat
    BY <2>1, <2>2
  <2>4. <<"option", plan[n]>> \in FrameKinds \X Nat
    BY <2>3 DEF FrameKinds
  <2> QED
    BY <2>1, <2>3, <2>4
<1>5. /\ d.sent = Append(c.sent, <<"option", plan[n]>>) /\ d.version = c.version /\ d.done = n
      /\ d.tls = c.tls /\ d.at = (IF n = Len(plan) THEN "auth" ELSE "options") /\ d \in Engine
  <2> DEFINE at == IF n = Len(plan) THEN "auth" ELSE "options"
             frame == <<"option", plan[n]>>
             r == Sends(c, frame, at)
  <2>1. d = [r EXCEPT !.done = n]
    BY DEF SendsOption
  <2>2. n \in Nat /\ at \in Stages
    BY <1>2 DEF Stages
  <2>3. frame \in FrameKinds \X Nat
    BY <1>4
  <2> HIDE DEF d, n, plan, at, frame
  <2>4. /\ r \in Engine /\ r.sent = Append(c.sent, frame) /\ r.version = c.version
        /\ r.tls = c.tls /\ r.at = at
    BY <1>2, <2>2, <2>3, SendsFacts
  <2> HIDE DEF r
  <2>5. /\ d \in Engine /\ d.sent = r.sent /\ d.version = r.version /\ d.done = n
        /\ d.tls = r.tls /\ d.at = r.at
    BY <2>1, <2>2, <2>4 DEF Engine
  <2> QED
    BY <2>4, <2>5 DEF at, frame
<1> HIDE DEF d
<1>6. /\ Len(d.sent) = l + 1 /\ \A i \in 1..l : d.sent[i] = c.sent[i]
      /\ d.sent[l + 1] = <<"option", plan[n]>>
  BY <1>2, <1>4, <1>5, Appended
<1> HIDE DEF plan, n, l, f
<1>7. /\ o \in 1..l /\ c.sent[o] = <<"begin", c.version>> /\ f \in o..l
      /\ \A i \in 1..l : c.sent[i][1] = "begin" => i <= o /\ (i < o => c.sent[i][2] > c.version)
      /\ \A i, j \in 1..l :
           c.sent[i][1] = "begin" /\ c.sent[j][1] = "begin" /\ i < j => c.sent[j][2] < c.sent[i][2]
  BY <1>3 DEF Layout, l
<1>8. /\ \A i \in 1..l : c.sent[i][1] = "option" <=> f < i /\ i <= f + c.done
      /\ \A k \in 1..c.done : c.sent[f + k][2] = plan[k]
  BY <1>3 DEF Layout, l, plan
<1>9. f + n = l + 1 /\ n = c.done + 1
  BY <1>2, <1>3 DEF n
<1>10. \A i \in 1..Len(d.sent) : i = l + 1 \/ (i \in 1..l /\ d.sent[i] = c.sent[i])
  <2>1. \A i \in 1..(l + 1) : i = l + 1 \/ i \in 1..l
    BY <1>2
  <2> QED
    BY <1>6, <2>1
<1>11. Layout(d, o, f)
  <2>1. o \in 1..Len(d.sent) /\ d.sent[o] = <<"begin", d.version>>
    <3>1. o \in 1..Len(d.sent)
      BY <1>2, <1>6, <1>7
    <3>2. d.sent[o] = c.sent[o] /\ d.version = c.version
      BY <1>5, <1>6, <1>7
    <3> QED
      BY <1>7, <3>1, <3>2
  <2>2. \A i \in 1..Len(d.sent) : d.sent[i][1] = "begin" => i \in 1..l /\ d.sent[i] = c.sent[i]
    BY <1>6, <1>10
  <2>3. \A i \in 1..Len(d.sent) : d.sent[i][1] = "begin" =>
          i <= o /\ (i < o => d.sent[i][2] > d.version)
    BY <1>5, <1>7, <2>2
  <2>4. \A i, j \in 1..Len(d.sent) :
          d.sent[i][1] = "begin" /\ d.sent[j][1] = "begin" /\ i < j => d.sent[j][2] < d.sent[i][2]
    BY <1>7, <2>2
  <2>5. /\ f \in o..Len(d.sent) /\ f + d.done <= Len(d.sent)
        /\ d.done <= Len(OptionPlan(d.version))
    <3>1. f \in o..(l + 1) /\ f + n <= l + 1
      BY <1>2, <1>7, <1>9
    <3>2. n <= Len(plan)
      BY <1>4
    <3> QED
      BY <1>5, <1>6, <3>1, <3>2 DEF plan
  <2>6. ASSUME NEW i \in 1..Len(d.sent)
        PROVE  d.sent[i][1] = "option" <=> f < i /\ i <= f + d.done
    <3>1. d.done = n
      BY <1>5
    <3>2. CASE i = l + 1
      <4>1. d.sent[i][1] = "option"
        BY <1>6, <3>2
      <4>2. f < i /\ i <= f + n
        BY <1>2, <1>7, <1>9, <3>2
      <4> QED
        BY <3>1, <4>1, <4>2
    <3>3. CASE i # l + 1
      <4>1. i \in 1..l /\ d.sent[i] = c.sent[i]
        BY <1>10, <3>3
      <4>2. i <= f + n /\ i <= f + c.done
        <5>1. i <= l /\ i \in Nat /\ l \in Nat
          BY <1>2, <4>1
        <5>2. f + c.done = l /\ f + n = l + 1
          BY <1>3, <1>9
        <5> QED
          BY <5>1, <5>2
      <4> QED
        BY <1>8, <3>1, <4>1, <4>2
    <3> QED
      BY <3>2, <3>3
  <2>7. ASSUME NEW k \in 1..d.done PROVE d.sent[f + k][2] = OptionPlan(d.version)[k]
    <3>1. d.done = n /\ OptionPlan(d.version) = plan
      BY <1>5 DEF plan
    <3>2. CASE k = n
      <4>1. d.sent[f + k] = <<"option", plan[n]>>
        BY <1>6, <1>9, <3>2
      <4> QED
        BY <3>1, <3>2, <4>1
    <3>3. CASE k # n
      <4>1. k \in 1..c.done
        BY <1>2, <1>9, <3>1, <3>3
      <4>2. f + c.done <= l
        BY <1>2, <1>3
      <4>3. f + k \in 1..l
        BY <1>2, <1>3, <4>1, <4>2, Within
      <4> QED
        BY <1>6, <1>8, <3>1, <4>1, <4>3
    <3> QED
      BY <3>2, <3>3
  <2> QED
    BY <2>1, <2>3, <2>4, <2>5, <2>6, <2>7 DEF Layout
<1>12. Progress(d, f)
  <2>1. n < Len(plan) \/ n = Len(plan)
    BY <1>2, <1>4
  <2>2. d.done = n /\ f + d.done = Len(d.sent) /\ OptionPlan(d.version) = plan
    BY <1>5, <1>6, <1>9 DEF plan
  <2>3. d.at = IF n = Len(plan) THEN "auth" ELSE "options"
    BY <1>5
  <2> QED
    BY <2>1, <2>2, <2>3 DEF Progress
<1>13. Guarded(d)
  BY <1>5 DEF Guarded
<1>14. EngineInv(d)
  BY <1>3, <1>5, <1>11, <1>12, <1>13 DEF EngineInv
<1> QED
  BY <1>14 DEF d

LEMMA FailedFacts ==
  ASSUME NEW c \in Engine
  PROVE  /\ Failed(c) \in Engine /\ Failed(c).sent = c.sent /\ Failed(c).version = c.version
         /\ Failed(c).done = c.done /\ Failed(c).tls = c.tls /\ Failed(c).at = "failed"
BY DEF Failed, Engine, Stages

LEMMA FailedKeeps ==
  ASSUME NEW c, EngineInv(c)
  PROVE  EngineInv(Failed(c))
<1>1. c \in Engine
  BY DEF EngineInv
<1> DEFINE d == Failed(c)
<1>2. /\ d \in Engine /\ d.sent = c.sent /\ d.version = c.version /\ d.done = c.done
      /\ d.tls = c.tls /\ d.at = "failed"
  BY <1>1, FailedFacts
<1> HIDE DEF d
<1>3. EngineInv(d)
  BY <1>2, SilentKeeps
<1> QED
  BY <1>3 DEF d

\* A frame that starts the next stage, before any option
LEMMA NextStageKeeps ==
  ASSUME NEW c, EngineInv(c), NEW kind \in FrameKinds \ {"begin", "option", "auth"}, NEW n \in Nat,
         c.at \in {"negotiate", "database"}, NEW at \in {"database", "security"}
  PROVE  EngineInv(Sends(c, <<kind, n>>, at))
<1> DEFINE d == Sends(c, <<kind, n>>, at)
<1>1. c \in Engine /\ <<kind, n>> \in FrameKinds \X Nat /\ at \in Stages
  BY DEF EngineInv, Stages
<1>2. /\ d \in Engine /\ d.sent = Append(c.sent, <<kind, n>>) /\ d.version = c.version
      /\ d.done = c.done /\ d.tls = c.tls /\ d.at = at
  BY <1>1, SendsFacts
<1>3. c.done = 0
  BY DEF EngineInv, Progress
<1> HIDE DEF d
<1>4. Guarded(d)
  <2>1. /\ c.sent \in Seq(FrameKinds \X Nat)
    BY <1>1, EngineFields
  <2>2. /\ Len(d.sent) = Len(c.sent) + 1 /\ Len(c.sent) \in Nat
        /\ \A i \in 1..Len(c.sent) : d.sent[i] = c.sent[i]
        /\ d.sent[Len(c.sent) + 1] = <<kind, n>>
    BY <1>1, <1>2, <2>1, Appended
  <2>3. \A i \in 1..Len(d.sent) : d.sent[i][1] = kind \/ (i \in 1..Len(c.sent) /\ d.sent[i] = c.sent[i])
    BY <2>2
  <2> QED
    BY <1>2, <2>3 DEF EngineInv, Guarded
<1>5. EngineInv(d)
  BY <1>2, <1>3, <1>4, OtherKeeps
<1> QED
  BY <1>5 DEF d

\* SSL_NEGOTIATE was accepted.
LEMMA UpgradeKeeps ==
  ASSUME NEW c, EngineInv(c), c.at = "security"
  PROVE  EngineInv(UpgradeTls(Sends(c, <<"connect", 0>>, "confirm")))
<1> DEFINE r == Sends(c, <<"connect", 0>>, "confirm")
           d == UpgradeTls(r)
<1>1. c \in Engine /\ <<"connect", 0>> \in FrameKinds \X Nat /\ "confirm" \in Stages
  BY DEF EngineInv, Stages, FrameKinds
<1>2. /\ r \in Engine /\ r.sent = Append(c.sent, <<"connect", 0>>) /\ r.version = c.version
      /\ r.done = c.done /\ r.tls = c.tls /\ r.at = "confirm"
  BY <1>1, SendsFacts
<1>3. c.done = 0
  BY DEF EngineInv, Progress
<1> HIDE DEF r
<1>4. /\ d \in Engine /\ d.sent = r.sent /\ d.version = r.version /\ d.done = r.done
      /\ (d.at = "confirm" /\ d.tls) \/ (d.at = "failed" /\ d.tls = r.tls)
  <2>1. CASE Tls
    <3>1. d = [r EXCEPT !.tls = TRUE]
      BY <2>1 DEF UpgradeTls
    <3> QED
      BY <1>2, <3>1 DEF Engine
  <2>2. CASE ~Tls
    <3>1. d = Failed(r)
      BY <2>2 DEF UpgradeTls
    <3> QED
      BY <1>2, <3>1, FailedFacts
  <2> QED
    BY <2>1, <2>2
<1> HIDE DEF d
<1>5. Guarded(d)
  <2>1. /\ c.sent \in Seq(FrameKinds \X Nat)
    BY <1>1, EngineFields
  <2>2. /\ Len(d.sent) = Len(c.sent) + 1 /\ Len(c.sent) \in Nat
        /\ \A i \in 1..Len(c.sent) : d.sent[i] = c.sent[i]
        /\ d.sent[Len(c.sent) + 1] = <<"connect", 0>>
    BY <1>1, <1>2, <1>4, <2>1, Appended
  <2>3. \A i \in 1..Len(d.sent) :
          d.sent[i][1] = "connect" \/ (i \in 1..Len(c.sent) /\ d.sent[i] = c.sent[i])
    BY <2>2
  <2> QED
    BY <1>2, <1>4, <2>3 DEF EngineInv, Guarded
<1>6. EngineInv(d)
  BY <1>1, <1>2, <1>3, <1>4, <1>5, OtherKeeps DEF FrameKinds
<1> QED
  BY <1>6 DEF d, r

\* The answer to an authentication request, of which method 0 needs none
LEMMA AuthKeeps ==
  ASSUME NEW c, EngineInv(c), c.at = "auth", NEW x \in KnownMethods
  PROVE  EngineInv([c EXCEPT !.sent = @ \o AuthFrames(x), !.at = "complete"])
<1>1. c \in Engine /\ c.sent \in Seq(FrameKinds \X Nat) /\ "complete" \in Stages
  BY EngineFields DEF EngineInv, Stages
<1> DEFINE new == c.sent \o AuthFrames(x)
           d == [c EXCEPT !.sent = new, !.at = "complete"]
<1>2. CASE x = 0
  <2>1. new = c.sent
    BY <1>1, <1>2 DEF AuthFrames
  <2> HIDE DEF new
  <2>2. /\ d \in Engine /\ d.sent = c.sent /\ d.version = c.version /\ d.done = c.done
        /\ d.tls = c.tls /\ d.at = "complete"
    BY <1>1, <2>1 DEF Engine
  <2> HIDE DEF d
  <2>3. EngineInv(d)
    BY <2>2, SilentKeeps
  <2> QED
    BY <2>3 DEF d, new
<1>3. CASE x # 0
  <2>1. <<"auth", x>> \in FrameKinds \X Nat
    BY DEF FrameKinds, KnownMethods
  <2>2. new = Append(c.sent, <<"auth", x>>) /\ new \in Seq(FrameKinds \X Nat)
    <3>1. AuthFrames(x) = <<<<"auth", x>>>>
      BY <1>3 DEF AuthFrames
    <3>2. Append(c.sent, <<"auth", x>>) = c.sent \o <<<<"auth", x>>>>
      BY <1>1, <2>1, AppendIsConcat
    <3> QED
      BY <1>1, <2>1, <3>1, <3>2, Appended
  <2> HIDE DEF new
  <2>3. /\ d \in Engine /\ d.sent = new /\ d.version = c.version /\ d.done = c.done
        /\ d.tls = c.tls /\ d.at = "complete"
    BY <1>1, <2>2 DEF Engine
  <2> HIDE DEF d
  <2>4. Guarded(d)
    BY <2>3 DEF EngineInv, Guarded
  <2>5. x \in Nat /\ "auth" \in FrameKinds
    BY DEF KnownMethods, FrameKinds
  <2>6. EngineInv(d)
    BY <2>2, <2>3, <2>4, <2>5, OtherKeeps
  <2> QED
    BY <2>6 DEF d, new
<1> QED
  BY <1>2, <1>3

LEMMA NegotiateKeeps ==
  ASSUME NEW c, EngineInv(c), c.at = "negotiate", NEW b, NEW x
  PROVE  EngineInv(SyncNegotiate(c, b, x))
<1>1. CASE b = "N"
  <2>1. SyncNegotiate(c, b, x) = Sends(c, <<"database", 0>>, "database")
    BY <1>1 DEF SyncNegotiate
  <2>2. "database" \in FrameKinds \ {"begin", "option", "auth"}
    BY DEF FrameKinds
  <2> QED
    BY <2>1, <2>2, NextStageKeeps
<1>2. CASE b = "M" /\ x \in 2..5 /\ Downgrade(c.version, x)
  <2> DEFINE r == Sends(c, <<"begin", x>>, "negotiate")
             d == [r EXCEPT !.version = x]
  <2>1. SyncNegotiate(c, b, x) = d
    BY <1>2 DEF SyncNegotiate
  <2>2. c \in Engine /\ <<"begin", x>> \in FrameKinds \X Nat /\ "negotiate" \in Stages
    BY <1>2 DEF EngineInv, FrameKinds, Stages
  <2>3. /\ r \in Engine /\ r.sent = Append(c.sent, <<"begin", x>>) /\ r.done = c.done
        /\ r.tls = c.tls /\ r.at = "negotiate"
    BY <2>2, SendsFacts
  <2> HIDE DEF r
  <2>7. x \in 2..6
    BY <1>2
  <2>4. /\ d \in Engine /\ d.sent = r.sent /\ d.version = x /\ d.done = r.done
        /\ d.tls = r.tls /\ d.at = r.at
    BY ONLY <2>3, <2>7 DEF Engine
  <2> HIDE DEF d
  <2>5. x < c.version
    BY <1>2 DEF Downgrade
  <2>6. EngineInv(d)
    BY <1>2, <2>3, <2>4, <2>5, OfferKeeps
  <2> QED
    BY <2>1, <2>6
<1>3. CASE b # "N" /\ ~(b = "M" /\ x \in 2..5 /\ Downgrade(c.version, x))
  <2>1. SyncNegotiate(c, b, x) = Failed(c)
    BY <1>3 DEF SyncNegotiate
  <2> QED
    BY <2>1, FailedKeeps
<1> QED
  BY <1>1, <1>2, <1>3

LEMMA SecureKeeps ==
  ASSUME NEW c, EngineInv(c), c.at = "security", NEW b
  PROVE  EngineInv(SyncSecure(c, b))
<1>1. CASE b = "N" /\ ~OnlySecured
  <2>1. SyncSecure(c, b) = SendsOption(c)
    BY <1>1 DEF SyncSecure
  <2> QED
    BY <1>1, <2>1, OptionKeeps
<1>2. CASE b = "S"
  <2>1. SyncSecure(c, b) = UpgradeTls(Sends(c, <<"connect", 0>>, "confirm"))
    BY <1>2 DEF SyncSecure
  <2> QED
    BY <2>1, UpgradeKeeps
<1>3. CASE b # "S" /\ ~(b = "N" /\ ~OnlySecured)
  <2>1. SyncSecure(c, b) = Failed(c)
    BY <1>3 DEF SyncSecure
  <2> QED
    BY <2>1, FailedKeeps
<1> QED
  BY <1>1, <1>2, <1>3

LEMMA CompleteKeeps ==
  ASSUME NEW c, EngineInv(c), c.at = "complete", NEW b
  PROVE  EngineInv(SyncComplete(c, b))
<1>1. c \in Engine
  BY DEF EngineInv
<1>2. CASE b \in {"nul", "N", "R"}
  BY <1>2 DEF SyncComplete
<1>3. CASE b = "K"
  <2> DEFINE d == [c EXCEPT !.key = TRUE]
  <2>1. SyncComplete(c, b) = d
    BY <1>3 DEF SyncComplete
  <2>2. /\ d \in Engine /\ d.sent = c.sent /\ d.version = c.version /\ d.done = c.done
        /\ d.tls = c.tls /\ d.at = c.at
    BY <1>1 DEF Engine
  <2> HIDE DEF d
  <2> QED
    BY <2>1, <2>2, SilentKeeps
<1>4. CASE b = "Z"
  <2> DEFINE d == [c EXCEPT !.at = "ok"]
  <2>1. SyncComplete(c, b) = d
    BY <1>4 DEF SyncComplete
  <2>2. /\ d \in Engine /\ d.sent = c.sent /\ d.version = c.version /\ d.done = c.done
        /\ d.tls = c.tls /\ d.at = "ok"
    BY <1>1 DEF Engine, Stages
  <2> HIDE DEF d
  <2> QED
    BY <2>1, <2>2, SilentKeeps
<1>5. CASE b \notin {"nul", "N", "R", "K", "Z"}
  <2>1. SyncComplete(c, b) = Failed(c)
    BY <1>5 DEF SyncComplete
  <2> QED
    BY <2>1, FailedKeeps
<1> QED
  BY <1>2, <1>3, <1>4, <1>5

\* The blocking engine keeps the invariant, whatever is answered.
LEMMA SyncKeeps ==
  ASSUME level \in 0..3, NEW c, EngineInv(c), NEW b, NEW x
  PROVE  EngineInv(SyncOn(c, b, x))
<1>1. c.at \in Stages
  BY EngineFields DEF EngineInv
<1>2. CASE c.at = "negotiate"
  BY <1>2, NegotiateKeeps DEF SyncOn
<1>3. CASE c.at = "database"
  <2>1. SyncOn(c, b, x) = SyncDatabase(c, b)
    BY <1>3 DEF SyncOn
  <2>2. EngineInv(Sends(c, <<"ssl", level>>, "security"))
    <3>1. "ssl" \in FrameKinds \ {"begin", "option", "auth"} /\ level \in Nat
      BY DEF FrameKinds
    <3> QED
      BY <1>3, <3>1, NextStageKeeps
  <2> QED
    BY <2>1, <2>2, FailedKeeps DEF SyncDatabase
<1>4. CASE c.at = "security"
  BY <1>4, SecureKeeps DEF SyncOn
<1>5. CASE c.at \in {"confirm", "options"}
  <2>1. SyncOn(c, b, x) = SyncAck(c, b)
    BY <1>5 DEF SyncOn
  <2>2. OnlySecured => c.tls
    BY <1>5 DEF EngineInv, Guarded
  <2>3. EngineInv(SendsOption(c))
    BY <1>5, <2>2, OptionKeeps
  <2> QED
    BY <2>1, <2>3, FailedKeeps DEF SyncAck
<1>6. CASE c.at = "auth"
  <2>1. SyncOn(c, b, x) = SyncAuth(c, b, x)
    BY <1>6 DEF SyncOn
  <2>2. x \in KnownMethods => EngineInv([c EXCEPT !.sent = @ \o AuthFrames(x), !.at = "complete"])
    BY <1>6, AuthKeeps
  <2> QED
    BY <2>1, <2>2, FailedKeeps DEF SyncAuth
<1>7. CASE c.at = "complete"
  BY <1>7, CompleteKeeps DEF SyncOn
<1>8. CASE c.at \in {"ok", "failed"}
  BY <1>8 DEF SyncOn
<1> QED
  BY <1>1, <1>2, <1>3, <1>4, <1>5, <1>6, <1>7, <1>8 DEF Stages

-----------------------------------------------------------------------------
(* The theorem *)

LEMMA InitShake ==
  ASSUME Levels \subseteq 0..3, Init
  PROVE  ShakeInv
<1> DEFINE first == <<"begin", 6>>
           s == <<first>>
<1>1. s \in Seq(FrameKinds \X Nat) /\ Len(s) = 1 /\ s[1] = first
  <2>1. first \in FrameKinds \X Nat
    BY DEF FrameKinds
  <2> HIDE DEF first
  <2> QED
    BY <2>1
<1>2. Started = [at |-> "negotiate", version |-> 6, done |-> 0, tls |-> FALSE, key |-> FALSE, sent |-> s]
  BY DEF Started
<1>3. first[1] = "begin" /\ first = <<"begin", 6>>
  OBVIOUS
<1> HIDE DEF s, first
<1>4. /\ Started \in Engine /\ Started.sent = s /\ Started.done = 0 /\ Started.version = 6
      /\ Started.at = "negotiate"
  BY <1>1, <1>2 DEF Engine, Stages
<1> DEFINE c == Started
<1>5. \A i \in 1..Len(c.sent) : i = 1 /\ c.sent[i] = first
  <2>1. \A i \in 1..Len(s) : i = 1 /\ s[i] = first
    BY ONLY <1>1
  <2>2. c.sent = s
    BY <1>4
  <2> HIDE DEF c
  <2> QED
    BY <2>1, <2>2
<1>6. Len(OptionPlan(6)) \in Nat
  BY PlanFacts
<1>7. Layout(c, 1, 1) /\ Progress(c, 1)
  <2> HIDE DEF c
  <2>1. /\ 1 \in 1..Len(c.sent) /\ c.sent[1] = <<"begin", c.version>> /\ Len(c.sent) = 1
    <3>1. c.sent = s /\ c.version = 6
      BY <1>4 DEF c
    <3>2. 1 \in 1..Len(s) /\ Len(s) = 1
      BY ONLY <1>1
    <3>3. s[1] = <<"begin", 6>>
      BY <1>1, <1>3
    <3> QED
      BY <3>1, <3>2, <3>3
  <2>2. c.done = 0 /\ c.version = 6 /\ c.at = "negotiate"
    BY <1>4 DEF c
  <2> QED
    BY <1>3, <1>5, <1>6, <2>1, <2>2 DEF Layout, Progress
<1>8. Guarded(c)
  BY <1>3, <1>4, <1>5 DEF Guarded
<1>9. EngineInv(c)
  BY <1>4, <1>7, <1>8 DEF EngineInv
<1> QED
  BY <1>9 DEF Init, ShakeInv

LEMMA NextShake ==
  ASSUME ShakeInv, [Next]_vars
  PROVE  ShakeInv'
<1>1. level \in 0..3 /\ native = sync /\ EngineInv(sync) /\ sync \in Engine
  BY DEF ShakeInv, EngineInv
<1>2. ASSUME NEW c, EngineInv(c), UNCHANGED level PROVE EngineInv(c)'
  BY <1>2 DEF EngineInv, Guarded, Layout, Progress, OnlySecured
<1>3. CASE Answer
  <2>1. PICK a \in Answers : /\ sync' = SyncOn(sync, a[1], a[2])
                             /\ native' = NativeOn(native, a[1], a[2]) /\ level' = level
    BY <1>3 DEF Answer
  <2>2. native' = sync'
    BY <1>1, <2>1, SameStep
  <2> DEFINE d == SyncOn(sync, a[1], a[2])
  <2>3. EngineInv(d)
    BY <1>1, SyncKeeps
  <2>4. d = sync'
    BY <2>1
  <2> HIDE DEF d
  <2>5. EngineInv(sync')
    BY <2>3, <2>4
  <2>6. (EngineInv(sync))'
    BY <2>1, <2>5 DEF EngineInv, Guarded, Layout, Progress, OnlySecured
  <2> QED
    BY <1>1, <2>1, <2>2, <2>6 DEF ShakeInv
<1>4. CASE TimesOut
  <2>1. sync' = Failed(sync) /\ native' = Failed(native) /\ level' = level
    BY <1>4 DEF TimesOut
  <2>2. EngineInv(sync')
    BY <1>1, <2>1, FailedKeeps
  <2>3. (EngineInv(sync))'
    BY <2>1, <2>2 DEF EngineInv, Guarded, Layout, Progress, OnlySecured
  <2> QED
    BY <1>1, <2>1, <2>3 DEF ShakeInv
<1>5. CASE UNCHANGED vars
  <2>1. sync' = sync /\ native' = native /\ level' = level
    BY <1>5 DEF vars
  <2>2. (EngineInv(sync))'
    BY <1>1, <2>1 DEF EngineInv, Guarded, Layout, Progress, OnlySecured
  <2> QED
    BY <1>1, <2>1, <2>2 DEF ShakeInv
<1> QED
  BY <1>3, <1>4, <1>5 DEF Next

LEMMA InvNegotiated ==
  ASSUME ShakeInv
  PROVE  WellNegotiated
<1> DEFINE s == sync.sent
<1>1. /\ sync \in Engine /\ s \in Seq(FrameKinds \X Nat) /\ DOMAIN s = 1..Len(s) /\ Len(s) \in Nat
      /\ sync.done \in Nat
  BY EngineFields, LenProperties DEF ShakeInv, EngineInv
<1>2. PICK o \in Nat, f \in Nat : Layout(sync, o, f) /\ Progress(sync, f)
  BY DEF ShakeInv, EngineInv
<1>3. /\ o \in 1..Len(s) /\ s[o] = <<"begin", sync.version>>
      /\ \A i \in 1..Len(s) : s[i][1] = "begin" => i <= o
      /\ f \in o..Len(s) /\ f + sync.done <= Len(s) /\ sync.done <= Len(OptionPlan(sync.version))
  BY <1>2 DEF Layout
<1>4. \A kind : Frames(sync, kind) = {i \in 1..Len(s) : s[i][1] = kind}
  BY <1>1 DEF Frames
<1>5. LastOffer(sync) = o
  <2>1. o \in Frames(sync, "begin") /\ \A j \in Frames(sync, "begin") : j <= o /\ j \in Nat
    BY <1>3, <1>4
  <2>2. \A i \in Frames(sync, "begin") : (\A j \in Frames(sync, "begin") : j <= i) => i = o
    BY <2>1
  <2> QED
    BY <2>1, <2>2 DEF LastOffer
<1>6. \A i, j \in Frames(sync, "begin") : i < j => s[j][2] < s[i][2]
  BY <1>2, <1>4 DEF Layout
<1> DEFINE plan == OptionPlan(sync.version)
<1>7. Frames(sync, "option") = {f + k : k \in 1..sync.done}
  <2>1. \A i \in 1..Len(s) : s[i][1] = "option" <=> f < i /\ i <= f + sync.done
    BY <1>2 DEF Layout
  <2>2. ASSUME NEW i \in 1..Len(s), f < i, i <= f + sync.done
        PROVE  \E k \in 1..sync.done : i = f + k
    <3>1. i - f \in 1..sync.done /\ i = f + (i - f)
      BY <1>1, <2>2
    <3> QED
      BY <3>1
  <2>3. ASSUME NEW k \in 1..sync.done
        PROVE  f + k \in 1..Len(s) /\ f < f + k /\ f + k <= f + sync.done
    <3>1. sync.done \in Nat /\ Len(s) \in Nat /\ f + sync.done <= Len(s)
      BY <1>1, <1>3
    <3>2. f + k \in 1..Len(s)
      BY <3>1, Within
    <3>3. \A m \in Nat : \A i \in 1..m : f < f + i /\ f + i <= f + m
      OBVIOUS
    <3> QED
      BY <3>1, <3>2, <3>3
  <2>4. \A i \in Frames(sync, "option") : i \in {f + k : k \in 1..sync.done}
    BY <1>4, <2>1, <2>2
  <2>5. \A i \in {f + k : k \in 1..sync.done} : i \in Frames(sync, "option")
    BY <1>4, <2>1, <2>3
  <2> QED
    BY <2>4, <2>5
<1>8. \A k \in 1..sync.done : s[f + k][2] = plan[k]
  BY <1>2 DEF Layout
<1>9. sync.at \in {"complete", "ok"} => sync.done = Len(plan)
  BY <1>2 DEF Progress
<1>10. s[LastOffer(sync)][2] = sync.version
  BY <1>3, <1>5
<1>11. sync.done \in 0..Len(plan)
  <2>1. sync.version \in 2..6
    BY <1>1, EngineFields
  <2>2. Len(plan) \in Nat
    BY <2>1, PlanFacts
  <2> HIDE DEF plan
  <2>3. sync.done <= Len(plan)
    BY <1>3 DEF plan
  <2> QED
    BY <1>1, <2>2, <2>3
<1>12. /\ \A i, j \in Frames(sync, "begin") : i < j => sync.sent[j][2] < sync.sent[i][2]
       /\ \E first \in LastOffer(sync)..Len(sync.sent), n \in 0..Len(plan) :
            /\ Frames(sync, "option") = {first + k : k \in 1..n}
            /\ \A k \in 1..n : sync.sent[first + k][2] = plan[k]
            /\ sync.at \in {"complete", "ok"} => n = Len(plan)
  <2> HIDE DEF plan
  <2>1. f \in LastOffer(sync)..Len(sync.sent)
    BY <1>3, <1>5
  <2> QED
    BY <1>6, <1>7, <1>8, <1>9, <1>11, <2>1
<1> QED
  <2>1. OptionPlan(sync.sent[LastOffer(sync)][2]) = plan
    BY <1>10
  <2> HIDE DEF plan, s
  <2> QED
    BY <1>12, <2>1, Zenon DEF WellNegotiated

LEMMA ShakeSound == ASSUME ShakeInv PROVE HandshakeSound
<1>1. level \in 0..3 /\ native = sync /\ EngineInv(sync) /\ sync \in Engine
  BY DEF ShakeInv, EngineInv
<1>2. SecuredFirst
  <2>1. DOMAIN sync.sent = 1..Len(sync.sent)
    BY <1>1, EngineFields, LenProperties
  <2> QED
    BY <1>1, <2>1 DEF SecuredFirst, EngineInv, Guarded
<1> QED
  BY <1>1, <1>2, InvNegotiated DEF HandshakeSound, TypeOK, EnginesAgree

\* For every security level, with and without TLS built in, and for every
\* sequence of answers of the server: handshake() and AsyncSession::handshake
\* send the same frames and come to the same end, with OnlySecuredSession
\* nothing of the user leaves before the socket is wrapped, versions are offered
\* in falling order, and the options are those of the plan, in order and in full.
THEOREM HandshakesAgree ==
  ASSUME Levels \subseteq 0..3
  PROVE  Spec => []HandshakeSound
<1>1. Init => ShakeInv
  BY InitShake
<1>2. ShakeInv /\ [Next]_vars => ShakeInv'
  BY NextShake
<1>3. ShakeInv => HandshakeSound
  BY ShakeSound
<1> QED
  BY <1>1, <1>2, <1>3, PTL DEF Spec

=============================================================================
