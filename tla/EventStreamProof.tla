---------------------------- MODULE EventStreamProof ----------------------------
(***************************************************************************)
(* Proofs about EventStream, for every size of blocks, budget, channel and *)
(* pool, and every response:                                               *)
(*   StreamResources  bytes, slots, buffers and retained rows are          *)
(*                    accounted for through failures and drops;            *)
(*   StreamHistory    so is every notice;                                  *)
(*   StreamFaithful   the caller is told of the response as it came;       *)
(*   StreamComplete   and of all of it, when a stream ends undisturbed.    *)
(*                                                                         *)
(* The last two follow one sequence of events, the script: its beginning   *)
(* is with the caller, what follows in the stream's block, the channel,    *)
(* the staged block and the awaits of the parser, in this order, unless    *)
(* the statement was given up, after which nothing enters the channel.     *)
(***************************************************************************)
EXTENDS EventStream, FiniteSetTheorems, FunctionTheorems, SequenceTheorems, TLAPS

-----------------------------------------------------------------------------
(* Sums *)

Pairs(s) == UNION {{i} \X (1..s[i]) : i \in DOMAIN s}

LEMMA PairsFacts ==
  ASSUME NEW s \in Seq(Nat)
  PROVE  /\ \A p : p \in Pairs(s) <=> \E i \in 1..Len(s) : \E k \in 1..s[i] : p = <<i, k>>
         /\ IsFiniteSet(Pairs(s))
         /\ Total(s) = Cardinality(Pairs(s))
         /\ Total(s) \in Nat
<1>1. DOMAIN s = 1..Len(s) /\ Len(s) \in Nat /\ \A i \in 1..Len(s) : s[i] \in Nat
  BY LenProperties, ElementOfSeq
<1>2. \A p : p \in Pairs(s) <=> \E i \in 1..Len(s) : \E k \in 1..s[i] : p = <<i, k>>
  BY <1>1 DEF Pairs
<1> DEFINE Column == [i \in 1..Len(s) |-> {i} \X (1..s[i])]
           Columns == {{i} \X (1..s[i]) : i \in DOMAIN s}
<1>3. IsFiniteSet(Columns)
  <2>1. Column \in Surjection(1..Len(s), Columns)
    BY <1>1 DEF Surjection
  <2>2. IsFiniteSet(1..Len(s))
    BY <1>1, FS_Interval
  <2> QED
    BY <2>1, <2>2, FS_Surjection
<1>4. ASSUME NEW C \in Columns PROVE IsFiniteSet(C)
  <2>1. PICK i \in 1..Len(s) : C = {i} \X (1..s[i])
    BY <1>1
  <2>2. IsFiniteSet({i})
    BY FS_Singleton
  <2>3. 1 \in Int /\ s[i] \in Int
    BY <1>1
  <2>4. IsFiniteSet(1..s[i])
    BY <2>3, FS_Interval
  <2> QED
    BY <2>1, <2>2, <2>4, FS_Product
<1>5. IsFiniteSet(Pairs(s))
  BY <1>3, <1>4, FS_UNION DEF Pairs
<1>6. Total(s) = Cardinality(Pairs(s))
  BY DEF Total, Pairs
<1> QED
  BY <1>2, <1>5, <1>6, FS_CardinalityType

\* The sum of a concatenation, given element by element
LEMMA TotalConcat ==
  ASSUME NEW s \in Seq(Nat), NEW t \in Seq(Nat), NEW u \in Seq(Nat),
         Len(u) = Len(s) + Len(t),
         \A i \in 1..Len(s) : u[i] = s[i],
         \A i \in 1..Len(t) : u[Len(s) + i] = t[i]
  PROVE  Total(u) = Total(s) + Total(t)
<1>1. Len(s) \in Nat /\ Len(t) \in Nat /\ Len(u) \in Nat
  BY LenProperties
<1>2. /\ \A i \in 1..Len(s) : s[i] \in Nat
      /\ \A i \in 1..Len(t) : t[i] \in Nat
      /\ \A i \in 1..Len(u) : u[i] \in Nat
  BY ElementOfSeq
<1>s. \A p : p \in Pairs(s) <=> \E i \in 1..Len(s) : \E k \in 1..s[i] : p = <<i, k>>
  BY PairsFacts
<1>t. \A p : p \in Pairs(t) <=> \E i \in 1..Len(t) : \E k \in 1..t[i] : p = <<i, k>>
  BY PairsFacts
<1>v. \A p \in Pairs(t) : \E i \in 1..Len(t), k \in Nat : k \in 1..t[i] /\ p = <<i, k>>
  BY <1>t
<1>u. \A p : p \in Pairs(u) <=> \E i \in 1..Len(u) : \E k \in 1..u[i] : p = <<i, k>>
  BY PairsFacts
<1> DEFINE Moved == {p \in Pairs(u) : p[1] > Len(s)}
           Move == [p \in Pairs(t) |-> <<Len(s) + p[1], p[2]>>]
<1>3. Pairs(u) = Pairs(s) \cup Moved
  <2>1. ASSUME NEW p \in Pairs(u) PROVE p \in Pairs(s) \cup Moved
    <3>1. PICK i \in 1..Len(u) : \E k \in 1..u[i] : p = <<i, k>>
      BY <1>u
    <3>2. CASE i <= Len(s)
      <4>1. i \in 1..Len(s) /\ u[i] = s[i]
        BY <1>1, <3>2
      <4> QED
        BY <3>1, <4>1, <1>s
    <3>3. CASE i > Len(s)
      BY <3>1, <3>3
    <3> QED
      BY <1>1, <3>2, <3>3
  <2>2. ASSUME NEW p \in Pairs(s) PROVE p \in Pairs(u)
    <3>1. PICK i \in 1..Len(s) : \E k \in 1..s[i] : p = <<i, k>>
      BY <1>s
    <3>2. i \in 1..Len(u) /\ u[i] = s[i]
      BY <1>1
    <3> QED
      BY <3>1, <3>2, <1>u
  <2> QED
    BY <2>1, <2>2
<1>4. Pairs(s) \cap Moved = {}
  <2> SUFFICES ASSUME NEW p \in Pairs(s), p[1] > Len(s) PROVE FALSE
    OBVIOUS
  <2>1. PICK i \in 1..Len(s) : \E k \in 1..s[i] : p = <<i, k>>
    BY <1>s
  <2> QED
    BY <1>1, <2>1
<1>5. Move \in Bijection(Pairs(t), Moved)
  <2>1. ASSUME NEW p \in Pairs(t) PROVE Move[p] \in Moved
    <3>1. PICK i \in 1..Len(t), k \in Nat : k \in 1..t[i] /\ p = <<i, k>>
      BY <1>t
    <3>2. Len(s) + i \in 1..Len(u) /\ u[Len(s) + i] = t[i] /\ Len(s) + i > Len(s)
      BY <1>1
    <3>3. Move[p] = <<Len(s) + i, k>>
      BY <3>1
    <3>4. <<Len(s) + i, k>> \in Pairs(u)
      <4>1. k \in 1..u[Len(s) + i]
        BY <3>1, <3>2
      <4> QED
        BY <3>2, <4>1, <1>u
    <3> QED
      BY <3>2, <3>3, <3>4
  <2>2. ASSUME NEW p \in Pairs(t), NEW q \in Pairs(t), Move[p] = Move[q] PROVE p = q
    <3>1. PICK i \in 1..Len(t), k \in Nat : k \in 1..t[i] /\ p = <<i, k>>
      BY <1>v
    <3>2. PICK j \in 1..Len(t), l \in Nat : l \in 1..t[j] /\ q = <<j, l>>
      BY <1>v
    <3>3. Move[p] = <<Len(s) + i, k>> /\ Move[q] = <<Len(s) + j, l>>
      BY <3>1, <3>2
    <3>4. Len(s) + i = Len(s) + j /\ k = l
      BY <2>2, <3>3
    <3> QED
      BY <1>1, <3>1, <3>2, <3>4
  <2>3. ASSUME NEW q \in Moved PROVE \E p \in Pairs(t) : Move[p] = q
    <3>1. PICK j \in 1..Len(u), k \in Nat : k \in 1..u[j] /\ q = <<j, k>>
      BY <1>u
    <3>2. j > Len(s)
      BY <3>1
    <3>3. j - Len(s) \in 1..Len(t) /\ Len(s) + (j - Len(s)) = j
      BY <1>1, <3>2
    <3>4. k \in 1..t[j - Len(s)]
      BY <3>1, <3>3
    <3>5. <<j - Len(s), k>> \in Pairs(t)
      BY <3>3, <3>4, <1>t
    <3> QED
      BY <3>1, <3>3, <3>5
  <2>4. Move \in [Pairs(t) -> Moved]
    BY <2>1
  <2> QED
    BY <2>2, <2>3, <2>4, Fun_IsBij
<1>6. IsFiniteSet(Moved) /\ Cardinality(Moved) = Cardinality(Pairs(t))
  BY <1>5, PairsFacts, FS_Bijection, Fun_ExistsBij
<1>7. Cardinality(Pairs(u)) = Cardinality(Pairs(s)) + Cardinality(Moved)
  <2>1. IsFiniteSet(Pairs(s))
    BY PairsFacts
  <2>2. Cardinality(Pairs(s) \cup Moved)
          = Cardinality(Pairs(s)) + Cardinality(Moved) - Cardinality(Pairs(s) \cap Moved)
    BY <1>6, <2>1, FS_Union
  <2>3. Cardinality(Pairs(s)) \in Nat /\ Cardinality(Moved) \in Nat
    BY <1>6, <2>1, FS_CardinalityType
  <2>4. Cardinality(Pairs(s) \cap Moved) = 0
    BY <1>4, FS_EmptySet
  <2>5. Cardinality(Pairs(u)) = Cardinality(Pairs(s) \cup Moved)
    BY <1>3
  <2> HIDE DEF Moved
  <2> QED
    BY <2>2, <2>3, <2>4, <2>5
<1> QED
  BY <1>6, <1>7, PairsFacts

LEMMA IntervalCount ==
  ASSUME NEW n \in Nat
  PROVE  IsFiniteSet(1..n) /\ Cardinality(1..n) = n
<1>1. 1 \in Int /\ n \in Int
  OBVIOUS
<1>2. IsFiniteSet(1..n) /\ Cardinality(1..n) = IF 1 > n THEN 0 ELSE n - 1 + 1
  BY <1>1, FS_Interval
<1> QED
  BY <1>2

LEMMA TotalOne ==
  ASSUME NEW n \in Nat
  PROVE  Total(<<n>>) = n
<1>1. Pairs(<<n>>) = {1} \X (1..n)
  BY DEF Pairs
<1>2. IsFiniteSet({1}) /\ Cardinality({1}) = 1
  BY FS_Singleton
<1>3. IsFiniteSet(1..n) /\ Cardinality(1..n) = n
  BY IntervalCount
<1>4. Cardinality({1} \X (1..n)) = 1 * n
  BY <1>2, <1>3, FS_Product
<1> QED
  BY <1>1, <1>4 DEF Total, Pairs

LEMMA TotalEmpty ==
  ASSUME NEW s, DOMAIN s = {}
  PROVE  Total(s) = 0
BY FS_EmptySet DEF Total

\* One element more at the end, one less at the front
LEMMA TotalLast ==
  ASSUME NEW s \in Seq(Nat), NEW u \in Seq(Nat), Len(u) = Len(s) + 1,
         \A i \in 1..Len(s) : u[i] = s[i]
  PROVE  Total(u) = Total(s) + u[Len(s) + 1]
<1>1. Len(s) \in Nat /\ u[Len(s) + 1] \in Nat
  BY LenProperties, ElementOfSeq
<1> DEFINE t == <<u[Len(s) + 1]>>
<1>2. t \in Seq(Nat) /\ Len(t) = 1 /\ t[1] = u[Len(s) + 1]
  BY <1>1
<1>3. Total(u) = Total(s) + Total(t)
  <2> HIDE DEF t
  <2>1. /\ \A i \in 1..Len(t) : u[Len(s) + i] = t[i]
        /\ Len(u) = Len(s) + Len(t)
    BY <1>1, <1>2
  <2> QED
    BY <1>2, <2>1, TotalConcat
<1> QED
  BY <1>1, <1>3, TotalOne

LEMMA TotalFirst ==
  ASSUME NEW t \in Seq(Nat), NEW u \in Seq(Nat), Len(u) = Len(t) + 1,
         \A i \in 1..Len(t) : u[i + 1] = t[i]
  PROVE  Total(u) = u[1] + Total(t)
<1>1. Len(t) \in Nat /\ u[1] \in Nat
  BY LenProperties, ElementOfSeq
<1> DEFINE s == <<u[1]>>
<1>2. s \in Seq(Nat) /\ Len(s) = 1 /\ s[1] = u[1]
  BY <1>1
<1>3. Total(u) = Total(s) + Total(t)
  <2> HIDE DEF s
  <2>1. /\ \A i \in 1..Len(s) : u[i] = s[i]
        /\ \A i \in 1..Len(t) : u[Len(s) + i] = t[i]
        /\ Len(u) = Len(s) + Len(t)
    BY <1>1, <1>2
  <2> QED
    BY <1>2, <2>1, TotalConcat
<1> QED
  BY <1>1, <1>3, TotalOne

\* As many as `limit` for each one counted by t
LEMMA TotalScales ==
  ASSUME NEW s \in Seq(Nat), NEW t \in Seq({0, 1}), Len(s) = Len(t), NEW limit \in Nat,
         \A i \in 1..Len(s) : s[i] > 0 => (s[i] <= limit /\ t[i] = 1)
  PROVE  Total(s) <= Total(t) * limit
<1>1. t \in Seq(Nat)
  BY SeqMonotonic
<1>2. Len(s) \in Nat /\ \A i \in 1..Len(s) : s[i] \in Nat
  BY LenProperties, ElementOfSeq
<1> DEFINE f == [p \in Pairs(s) |-> << <<p[1], 1>>, p[2]>>]
<1>3. ASSUME NEW p \in Pairs(s) PROVE f[p] \in Pairs(t) \X (1..limit)
  <2>1. PICK i \in 1..Len(s), k \in Nat : k \in 1..s[i] /\ p = <<i, k>>
    BY PairsFacts
  <2>2. t[i] = 1 /\ k \in 1..limit
    BY <1>2, <2>1
  <2>3. i \in 1..Len(t) /\ 1 \in 1..t[i]
    BY <2>2
  <2>4. <<i, 1>> \in Pairs(t)
    BY <1>1, <2>3, PairsFacts
  <2> QED
    BY <2>1, <2>2, <2>4
<1>4. ASSUME NEW p \in Pairs(s), NEW q \in Pairs(s), f[p] = f[q] PROVE p = q
  <2>1. PICK i \in 1..Len(s), k \in Nat : k \in 1..s[i] /\ p = <<i, k>>
    BY PairsFacts
  <2>2. PICK j \in 1..Len(s), l \in Nat : l \in 1..s[j] /\ q = <<j, l>>
    BY PairsFacts
  <2>3. f[p] = << <<i, 1>>, k>> /\ f[q] = << <<j, 1>>, l>>
    BY <2>1, <2>2
  <2>4. i = j /\ k = l
    BY <1>4, <2>3
  <2> QED
    BY <2>1, <2>2, <2>4
<1>5. f \in Injection(Pairs(s), Pairs(t) \X (1..limit))
  <2>1. f \in [Pairs(s) -> Pairs(t) \X (1..limit)]
    BY <1>3
  <2> QED
    BY <1>4, <2>1, Fun_IsInj
<1>6. IsFiniteSet(Pairs(t)) /\ IsFiniteSet(1..limit) /\ Cardinality(1..limit) = limit
  BY <1>1, PairsFacts, IntervalCount
<1>7. /\ IsFiniteSet(Pairs(t) \X (1..limit))
      /\ Cardinality(Pairs(t) \X (1..limit)) = Cardinality(Pairs(t)) * limit
  BY <1>6, FS_Product
<1>8. Cardinality(Pairs(s)) <= Cardinality(Pairs(t)) * limit
  BY <1>5, <1>7, FS_Injection
<1> QED
  BY <1>1, <1>8, PairsFacts

\* What MIN returns
LEMMA LeastNat ==
  ASSUME NEW T \in SUBSET Nat, T # {}
  PROVE  Min(T) \in T /\ \A y \in T : Min(T) <= y
<1> DEFINE R == {p \in Nat \X Nat : p[1] < p[2]}
<1>1. IsWellFoundedOn(R, Nat)
  BY NatLessThanWellFounded DEF OpToRel
<1>2. PICK x \in T : \A y \in T : ~(<<y, x>> \in R)
  BY <1>1, WFMin
<1>3. ASSUME NEW y \in T PROVE x <= y
  <2>1. y \in Nat /\ x \in Nat
    OBVIOUS
  <2>2. y < x => <<y, x>> \in R
    BY <2>1
  <2>3. ~(y < x)
    BY <1>2, <2>2
  <2> QED
    BY <2>1, <2>3
<1> QED
  BY <1>3 DEF Min

-----------------------------------------------------------------------------
(* The inductive invariant *)

\* What the parser still has to await for a frame: events to send, at most one
\* row to push, flushes.  Rows and notices name a frame that was sent.
Known(ev) == ev.k \in {"row", "notice"} => ev.n \in 1..Len(response)
Later ==
  {o \in Op : /\ o.op \in {"send", "push", "flush"}
              /\ o.permit = 0
              /\ o.op = "push" => o.ev.k = "row"
              /\ o.op = "send" => Eventful
              /\ Known(o.ev)}
\* ... and what it awaits now: only a send holds permits of its own.
Current ==
  {o \in Op : /\ o.op # "send" => o.permit = 0
              /\ o.op \in {"push", "charge", "add"} => o.ev.k = "row"
              /\ o.op \in {"send", "charge", "add"} => Eventful
              /\ Known(o.ev)}
TodoInv == todo # <<>> => Head(todo) \in Current /\ Tail(todo) \in Seq(Later)

\* A block that has left the parser, or is about to, is paid for.
Rows(b) == b.rows # <<>> /\ (Eventful => Len(b.rows) <= BatchRows /\ b.slot = 1)
Paid(b) ==
  /\ Rows(b) /\ b.staging = 0 /\ b.permit > 0
  /\ Eventful => b.bytes <= b.permit \/ b.permit = StreamBytes
  /\ ~Eventful => b.slot = 0

\* A block in the parser: acquired and not filled, staged within its bytes, one
\* row beyond them, or paid for and on its way into the channel
At_(op) == todo # <<>> /\ Now.op = op
Acquired ==
  /\ batch.rows = <<>> /\ batch.bytes = 0 /\ batch.permit = 0 /\ batch.slot = 1
  /\ \/ At_("charge") /\ batch.staging = 0 /\ RowBytes(Now.ev) <= BatchBytes
     \/ At_("add") /\ batch.staging = 0 /\ RowBytes(Now.ev) > BatchBytes
     \/ At_("add") /\ batch.staging = BatchBytes /\ RowBytes(Now.ev) <= BatchBytes
Staged ==
  /\ Rows(batch) /\ batch.permit = 0
  /\ Eventful => batch.staging = BatchBytes /\ batch.bytes <= BatchBytes
  /\ ~Eventful => batch.slot = 0 /\ batch.staging = 0
Outsized ==
  /\ Eventful /\ At_("flush") /\ Rows(batch) /\ Len(batch.rows) = 1
  /\ batch.permit = 0 /\ batch.staging = 0 /\ batch.bytes > BatchBytes
BatchInv ==
  IF At_("charge") \/ At_("add") THEN Acquired
  ELSE batch = NoBlock \/ Staged \/ Outsized \/ (At_("flush") /\ Paid(batch))

\* What is in the channel and with the caller
Sound ==
  {item \in Item : IF item.rows THEN item.permit = 0 /\ Paid(item.block)
                   ELSE Eventful /\ item.block = NoBlock}
QueueInv ==
  /\ queue \in Seq(Sound)
  /\ pending = NoBlock \/ (Eventful /\ Paid(pending))

\* Every slot and every buffer is free, with a block, or between the two.
Used == batch.slot + pending.slot + SumSlots(queue)
SlotInv == free + Used = PoolSize /\ slots + releasing + Used = PoolSize

\* The history knows its size.
HistoryInv ==
  /\ history.items \in Seq(1..Len(response))
  /\ history.bytes = NoticeBytes(history.items)

StreamInv ==
  TypeOK /\ TodoInv /\ BatchInv /\ QueueInv /\ SlotInv /\ BudgetConserved /\ HistoryInv

-----------------------------------------------------------------------------
(* Facts about the data *)

LEMMA FunctionIsSeq ==
  ASSUME NEW S, NEW n \in Nat, NEW f \in [1..n -> S]
  PROVE  f \in Seq(S) /\ Len(f) = n
<1>1. f \in Seq(S)
  BY SeqDef
<1>2. DOMAIN f = 1..Len(f) /\ Len(f) \in Nat
  BY <1>1, LenProperties
<1>3. DOMAIN f = 1..n
  OBVIOUS
<1> QED
  BY <1>1, <1>2, <1>3

LEMMA ItemFacts ==
  ASSUME NEW item \in Item
  PROVE  ItemCharge(item) \in Nat /\ Charge(item.block) \in Nat /\ item.block.slot \in {0, 1}
BY DEF Item, Block, ItemCharge, Charge

\* The sums over the channel, their types, and how they change
LEMMA SumFacts ==
  ASSUME NEW q \in Seq(Item)
  PROVE  /\ [i \in DOMAIN q |-> ItemCharge(q[i])] \in Seq(Nat)
         /\ [i \in DOMAIN q |-> q[i].block.slot] \in Seq({0, 1})
         /\ [i \in DOMAIN q |-> q[i].block.slot] \in Seq(Nat)
         /\ Len([i \in DOMAIN q |-> ItemCharge(q[i])]) = Len(q)
         /\ Len([i \in DOMAIN q |-> q[i].block.slot]) = Len(q)
         /\ SumCharge(q) \in Nat /\ SumSlots(q) \in Nat
<1>1. DOMAIN q = 1..Len(q) /\ Len(q) \in Nat /\ \A i \in 1..Len(q) : q[i] \in Item
  BY LenProperties, ElementOfSeq
<1>2. /\ [i \in DOMAIN q |-> ItemCharge(q[i])] \in [1..Len(q) -> Nat]
      /\ [i \in DOMAIN q |-> q[i].block.slot] \in [1..Len(q) -> {0, 1}]
  BY <1>1, ItemFacts
<1>3. /\ [i \in DOMAIN q |-> ItemCharge(q[i])] \in Seq(Nat)
      /\ Len([i \in DOMAIN q |-> ItemCharge(q[i])]) = Len(q)
  BY <1>1, <1>2, FunctionIsSeq
<1>4. /\ [i \in DOMAIN q |-> q[i].block.slot] \in Seq({0, 1})
      /\ Len([i \in DOMAIN q |-> q[i].block.slot]) = Len(q)
  BY <1>1, <1>2, FunctionIsSeq
<1>5. [i \in DOMAIN q |-> q[i].block.slot] \in Seq(Nat)
  BY <1>4, SeqMonotonic
<1>6. SumCharge(q) \in Nat
  BY <1>3, PairsFacts DEF SumCharge
<1>7. SumSlots(q) \in Nat
  BY <1>5, PairsFacts DEF SumSlots
<1> QED
  BY <1>3, <1>4, <1>5, <1>6, <1>7

LEMMA SumEmpty == SumCharge(<<>>) = 0 /\ SumSlots(<<>>) = 0
BY TotalEmpty DEF SumCharge, SumSlots

LEMMA SumAppend ==
  ASSUME NEW q \in Seq(Item), NEW item \in Item
  PROVE  /\ SumCharge(Append(q, item)) = SumCharge(q) + ItemCharge(item)
         /\ SumSlots(Append(q, item)) = SumSlots(q) + item.block.slot
<1> DEFINE r == Append(q, item)
           qc == [i \in DOMAIN q |-> ItemCharge(q[i])]
           rc == [i \in DOMAIN r |-> ItemCharge(r[i])]
           qs == [i \in DOMAIN q |-> q[i].block.slot]
           rs == [i \in DOMAIN r |-> r[i].block.slot]
<1>1. /\ r \in Seq(Item) /\ Len(r) = Len(q) + 1 /\ r[Len(q) + 1] = item
      /\ \A i \in 1..Len(q) : r[i] = q[i]
      /\ DOMAIN q = 1..Len(q) /\ DOMAIN r = 1..Len(r) /\ Len(q) \in Nat
  BY AppendProperties, LenProperties
<1> HIDE DEF r
<1>2. qc \in Seq(Nat) /\ rc \in Seq(Nat) /\ Len(rc) = Len(qc) + 1 /\ Len(qc) = Len(q)
  BY <1>1, SumFacts
<1>3. (\A i \in 1..Len(q) : rc[i] = qc[i]) /\ rc[Len(q) + 1] = ItemCharge(item)
  BY <1>1
<1>4. qs \in Seq(Nat) /\ rs \in Seq(Nat) /\ Len(rs) = Len(qs) + 1 /\ Len(qs) = Len(q)
  BY <1>1, SumFacts
<1>5. (\A i \in 1..Len(q) : rs[i] = qs[i]) /\ rs[Len(q) + 1] = item.block.slot
  BY <1>1
<1> HIDE DEF qc, rc, qs, rs
<1>6. Total(rc) = Total(qc) + ItemCharge(item)
  BY <1>2, <1>3, TotalLast
<1>7. Total(rs) = Total(qs) + item.block.slot
  BY <1>4, <1>5, TotalLast
<1> QED
  BY <1>6, <1>7 DEF SumCharge, SumSlots, r, qc, rc, qs, rs

LEMMA SumTail ==
  ASSUME NEW q \in Seq(Item), q # <<>>
  PROVE  /\ SumCharge(q) = ItemCharge(Head(q)) + SumCharge(Tail(q))
         /\ SumSlots(q) = Head(q).block.slot + SumSlots(Tail(q))
<1> DEFINE r == Tail(q)
           qc == [i \in DOMAIN q |-> ItemCharge(q[i])]
           rc == [i \in DOMAIN r |-> ItemCharge(r[i])]
           qs == [i \in DOMAIN q |-> q[i].block.slot]
           rs == [i \in DOMAIN r |-> r[i].block.slot]
<1>1. /\ r \in Seq(Item) /\ Len(q) = Len(r) + 1 /\ q[1] = Head(q)
      /\ \A i \in 1..Len(r) : q[i + 1] = r[i]
      /\ DOMAIN q = 1..Len(q) /\ DOMAIN r = 1..Len(r) /\ Len(r) \in Nat
  BY HeadTailProperties, LenProperties
<1> HIDE DEF r
<1>2. qc \in Seq(Nat) /\ rc \in Seq(Nat) /\ Len(qc) = Len(rc) + 1 /\ Len(rc) = Len(r)
  BY <1>1, SumFacts
<1>3. (\A i \in 1..Len(r) : qc[i + 1] = rc[i]) /\ qc[1] = ItemCharge(Head(q))
  BY <1>1
<1>4. qs \in Seq(Nat) /\ rs \in Seq(Nat) /\ Len(qs) = Len(rs) + 1 /\ Len(rs) = Len(r)
  BY <1>1, SumFacts
<1>5. (\A i \in 1..Len(r) : qs[i + 1] = rs[i]) /\ qs[1] = Head(q).block.slot
  BY <1>1
<1> HIDE DEF qc, rc, qs, rs
<1>6. Total(qc) = ItemCharge(Head(q)) + Total(rc)
  BY <1>2, <1>3, TotalFirst
<1>7. Total(qs) = Head(q).block.slot + Total(rs)
  BY <1>4, <1>5, TotalFirst
<1> QED
  BY <1>6, <1>7 DEF SumCharge, SumSlots, r, qc, rc, qs, rs

\* The bytes of a list of frames: their type, and how they add up
LEMMA NoticeFacts ==
  ASSUME response \in Seq([kind : Kinds, size : Nat]), NEW items \in Seq(1..Len(response))
  PROVE  /\ [i \in DOMAIN items |-> response[items[i]].size] \in Seq(Nat)
         /\ Len([i \in DOMAIN items |-> response[items[i]].size]) = Len(items)
         /\ NoticeBytes(items) \in Nat
<1>1. /\ DOMAIN items = 1..Len(items) /\ Len(items) \in Nat
      /\ \A i \in 1..Len(items) : items[i] \in 1..Len(response)
  BY LenProperties, ElementOfSeq
<1>2. ASSUME NEW p \in 1..Len(response) PROVE response[p].size \in Nat
  <2>1. response[p] \in [kind : Kinds, size : Nat]
    BY ElementOfSeq
  <2> QED
    BY <2>1
<1>3. [i \in DOMAIN items |-> response[items[i]].size] \in [1..Len(items) -> Nat]
  BY <1>1, <1>2
<1> QED
  BY <1>1, <1>3, FunctionIsSeq, PairsFacts DEF NoticeBytes

LEMMA NoticeSplit ==
  ASSUME response \in Seq([kind : Kinds, size : Nat]), NEW items \in Seq(1..Len(response)),
         NEW k \in 0..Len(items)
  PROVE  /\ SubSeq(items, 1, k) \in Seq(1..Len(response))
         /\ SubSeq(items, k + 1, Len(items)) \in Seq(1..Len(response))
         /\ NoticeBytes(items) = NoticeBytes(SubSeq(items, 1, k))
                                  + NoticeBytes(SubSeq(items, k + 1, Len(items)))
<1> DEFINE S == 1..Len(response)
           a == SubSeq(items, 1, k)
           b == SubSeq(items, k + 1, Len(items))
           ms == [i \in DOMAIN items |-> response[items[i]].size]
           ma == [i \in DOMAIN a |-> response[a[i]].size]
           mb == [i \in DOMAIN b |-> response[b[i]].size]
<1>1. /\ DOMAIN items = 1..Len(items) /\ Len(items) \in Nat /\ k \in Nat
      /\ \A i \in 1..Len(items) : items[i] \in S
  BY LenProperties, ElementOfSeq
<1>2. /\ a \in Seq(S) /\ Len(a) = k /\ \A i \in 1..k : a[i] = items[i]
  <2>1. \A i \in 1..k : items[i] \in S
    BY <1>1
  <2>2. /\ a \in Seq(S) /\ Len(a) = IF 1 <= k THEN k - 1 + 1 ELSE 0
        /\ \A i \in 1..(k - 1 + 1) : a[i] = items[1 + i - 1]
    BY <1>1, <2>1, SubSeqProperties
  <2> HIDE DEF a, S
  <2> QED
    BY <1>1, <2>2
<1>3. /\ b \in Seq(S) /\ Len(b) = Len(items) - k
      /\ \A i \in 1..(Len(items) - k) : b[i] = items[k + i]
  <2>1. \A i \in (k + 1)..Len(items) : items[i] \in S
    BY <1>1
  <2>2. /\ b \in Seq(S) /\ Len(b) = IF k + 1 <= Len(items) THEN Len(items) - (k + 1) + 1 ELSE 0
        /\ \A i \in 1..(Len(items) - (k + 1) + 1) : b[i] = items[k + 1 + i - 1]
    BY <1>1, <2>1, SubSeqProperties
  <2>3. Len(b) = IF k + 1 <= Len(items) THEN Len(items) - (k + 1) + 1 ELSE 0
    BY <2>2
  <2> HIDE DEF b, S
  <2>4. Len(b) = Len(items) - k
    <3> DEFINE n == Len(items)
    <3>1. n \in Nat /\ k \in 0..n
      BY <1>1
    <3>2. Len(b) = IF k + 1 <= n THEN n - (k + 1) + 1 ELSE 0
      BY <2>3
    <3> HIDE DEF n
    <3>3. Len(b) = n - k
      BY <3>1, <3>2
    <3> QED
      BY <3>3 DEF n
  <2>5. ASSUME NEW i \in 1..(Len(items) - k) PROVE b[i] = items[k + i]
    <3>1. i \in 1..(Len(items) - (k + 1) + 1) /\ k + 1 + i - 1 = k + i
      BY <1>1
    <3> QED
      BY <2>2, <3>1
  <2> QED
    BY <2>2, <2>4, <2>5
<1>4. DOMAIN a = 1..k /\ DOMAIN b = 1..(Len(items) - k)
  BY <1>2, <1>3, LenProperties
<1>5. /\ ms \in Seq(Nat) /\ Len(ms) = Len(items) /\ ma \in Seq(Nat) /\ Len(ma) = k
      /\ mb \in Seq(Nat) /\ Len(mb) = Len(items) - k
  BY <1>2, <1>3, NoticeFacts
<1> HIDE DEF a, b, S
<1>6. ASSUME NEW i \in 1..k PROVE ms[i] = ma[i]
  <2>1. i \in DOMAIN items /\ i \in DOMAIN a /\ a[i] = items[i]
    BY <1>1, <1>2, <1>4
  <2> QED
    BY <2>1
<1>7. ASSUME NEW i \in 1..(Len(items) - k) PROVE ms[k + i] = mb[i]
  <2>1. k + i \in DOMAIN items /\ i \in DOMAIN b /\ b[i] = items[k + i]
    BY <1>1, <1>3, <1>4
  <2> QED
    BY <2>1
<1> HIDE DEF ms, ma, mb
<1>8. Total(ms) = Total(ma) + Total(mb)
  <2>1. Len(ms) = Len(ma) + Len(mb)
    BY <1>1, <1>5
  <2>2. \A i \in 1..Len(ma) : ms[i] = ma[i]
    BY <1>5, <1>6
  <2>3. \A i \in 1..Len(mb) : ms[Len(ma) + i] = mb[i]
    BY <1>5, <1>7
  <2> QED
    BY <1>5, <2>1, <2>2, <2>3, TotalConcat
<1> QED
  BY <1>2, <1>3, <1>8 DEF NoticeBytes, a, b, S, ms, ma, mb

LEMMA NoticeAppend ==
  ASSUME response \in Seq([kind : Kinds, size : Nat]), NEW items \in Seq(1..Len(response)),
         NEW n \in 1..Len(response)
  PROVE  /\ Append(items, n) \in Seq(1..Len(response))
         /\ NoticeBytes(Append(items, n)) = NoticeBytes(items) + response[n].size
<1> DEFINE r == Append(items, n)
           ms == [i \in DOMAIN items |-> response[items[i]].size]
           mr == [i \in DOMAIN r |-> response[r[i]].size]
<1>1. /\ r \in Seq(1..Len(response)) /\ Len(r) = Len(items) + 1 /\ r[Len(items) + 1] = n
      /\ \A i \in 1..Len(items) : r[i] = items[i]
      /\ DOMAIN items = 1..Len(items) /\ DOMAIN r = 1..Len(r) /\ Len(items) \in Nat
  BY AppendProperties, LenProperties
<1> HIDE DEF r
<1>2. ms \in Seq(Nat) /\ mr \in Seq(Nat) /\ Len(mr) = Len(ms) + 1 /\ Len(ms) = Len(items)
  BY <1>1, NoticeFacts
<1>3. (\A i \in 1..Len(items) : mr[i] = ms[i]) /\ mr[Len(items) + 1] = response[n].size
  BY <1>1
<1> HIDE DEF ms, mr
<1>4. Total(mr) = Total(ms) + response[n].size
  BY <1>2, <1>3, TotalLast
<1> QED
  BY <1>1, <1>4 DEF NoticeBytes, r, ms, mr

\* NoticeHistory::push keeps `bytes` in step with the notices it holds.
LEMMA PushKeepsHistory ==
  ASSUME TypeOK, HistoryInv, NEW n \in 1..Len(response)
  PROVE  LET h == NoticePush(history, n)
         IN /\ h \in [items : Seq(Nat), bytes : Nat, dropped : Nat]
            /\ h.items \in Seq(1..Len(response))
            /\ h.bytes = NoticeBytes(h.items)
<1> DEFINE size == response[n].size
           items == history.items
           fits(k) == /\ Len(items) - k < HistoryItems
                      /\ Evict(history, k).bytes + size <= HistoryBytes
           room == {k \in 0..Len(items) : fits(k)}
           k0 == IF room = {} THEN Len(items) ELSE Min(room)
           e == Evict(history, k0)
<1>1. /\ response \in Seq([kind : Kinds, size : Nat]) /\ items \in Seq(1..Len(response))
      /\ history.dropped \in Nat /\ history.bytes = NoticeBytes(items)
      /\ Len(items) \in Nat /\ size \in Nat
      /\ history = [items |-> items, bytes |-> history.bytes, dropped |-> history.dropped]
  <2>1. /\ response \in Seq([kind : Kinds, size : Nat]) /\ items \in Seq(1..Len(response))
        /\ history.bytes = NoticeBytes(items)
    BY DEF TypeOK, HistoryInv
  <2>2. response[n] \in [kind : Kinds, size : Nat]
    BY <2>1, ElementOfSeq
  <2>3. Len(items) \in Nat
    BY <2>1, LenProperties
  <2>4. history \in [items : Seq(Nat), bytes : Nat, dropped : Nat]
    BY DEF TypeOK
  <2> QED
    BY <2>1, <2>2, <2>3, <2>4
<1>2. k0 \in 0..Len(items)
  <2>1. room \in SUBSET Nat /\ room \subseteq 0..Len(items)
    BY <1>1
  <2> HIDE DEF room
  <2>2. room # {} => Min(room) \in room
    BY <2>1, LeastNat
  <2> QED
    BY <1>1, <2>1, <2>2
<1> HIDE DEF k0
<1>3. /\ e.items \in Seq(1..Len(response)) /\ e.bytes = NoticeBytes(e.items)
      /\ e.dropped \in Nat /\ e.bytes \in Nat
      /\ e = [items |-> e.items, bytes |-> e.bytes, dropped |-> e.dropped]
  <2> DEFINE a == SubSeq(items, 1, k0)
             b == SubSeq(items, k0 + 1, Len(items))
  <2>1. /\ a \in Seq(1..Len(response)) /\ b \in Seq(1..Len(response))
        /\ NoticeBytes(items) = NoticeBytes(a) + NoticeBytes(b)
    BY <1>1, <1>2, NoticeSplit
  <2>2. NoticeBytes(a) \in Nat /\ NoticeBytes(b) \in Nat
    BY <1>1, <2>1, NoticeFacts
  <2>3. e = [items |-> b, bytes |-> history.bytes - NoticeBytes(a), dropped |-> history.dropped + k0]
    BY DEF Evict
  <2> HIDE DEF a, b, e, items
  <2>4. history.bytes - NoticeBytes(a) = NoticeBytes(b) /\ history.dropped + k0 \in Nat
    BY <1>1, <1>2, <2>1, <2>2
  <2> QED
    BY <2>1, <2>2, <2>3, <2>4
<1>4. NoticePush(history, n) = IF size > HistoryBytes THEN TooLong(history)
                              ELSE [e EXCEPT !.items = Append(@, n), !.bytes = @ + size]
  BY DEF NoticePush, k0
<1> HIDE DEF e, size
<1>5. /\ Append(e.items, n) \in Seq(1..Len(response))
      /\ NoticeBytes(Append(e.items, n)) = NoticeBytes(e.items) + size
  BY <1>1, <1>3, NoticeAppend DEF size
<1>6. \A s \in Seq(1..Len(response)) : s \in Seq(Nat)
  <2>1. 1..Len(response) \subseteq Nat
    BY <1>1, LenProperties
  <2> QED
    BY <2>1, SeqMonotonic
<1>7. CASE size > HistoryBytes
  <2>1. NoticePush(history, n) =
          [items |-> items, bytes |-> history.bytes, dropped |-> history.dropped + 1]
    BY <1>1, <1>4, <1>7 DEF TooLong
  <2>2. history.bytes \in Nat
    BY DEF TypeOK
  <2> QED
    BY <1>1, <1>6, <2>1, <2>2
<1>8. CASE ~(size > HistoryBytes)
  <2>1. NoticePush(history, n) =
          [items |-> Append(e.items, n), bytes |-> e.bytes + size, dropped |-> e.dropped]
    BY <1>3, <1>4, <1>8
  <2> QED
    BY <1>1, <1>3, <1>5, <1>6, <2>1
<1> QED
  BY <1>7, <1>8

-----------------------------------------------------------------------------
(* Facts about the parts of the invariant *)

Held == IF todo = <<>> THEN 0 ELSE Now.permit
Same == mode' = mode /\ response' = response

LEMMA SameSets ==
  ASSUME Same
  PROVE  Later' = Later /\ Current' = Current /\ Sound' = Sound
BY DEF Same, Later, Current, Sound, Known, Eventful, Paid, Rows

LEMMA Subsets == Later \subseteq Current /\ Later \subseteq Op /\ Current \subseteq Op /\ Sound \subseteq Item
BY DEF Later, Current, Sound

\* When what is left are awaits that hold nothing
LEMMA RestKeeps ==
  ASSUME Same, todo' \in Seq(Later)
  PROVE  TodoInv' /\ Held' = 0 /\ ~At_("charge")' /\ ~At_("add")' /\ todo' \in Seq(Op)
<1>1. Later' = Later /\ Current' = Current
  BY SameSets
<1>2. todo' # <<>> => Head(todo') \in Later /\ Tail(todo') \in Seq(Later)
  BY HeadTailProperties
<1>3. TodoInv'
  BY <1>1, <1>2, Subsets DEF TodoInv
<1>4. todo' \in Seq(Op)
  BY Subsets, SeqMonotonic
<1>5. todo' # <<>> => Head(todo').permit = 0 /\ Head(todo').op \notin {"charge", "add"}
  BY <1>2 DEF Later
<1> QED
  BY <1>3, <1>4, <1>5 DEF Held, At_, Now

\* When an await is exchanged for another one
LEMMA ExchangeKeeps ==
  ASSUME Same, TodoInv, todo # <<>>, NEW o \in Current, todo' = <<o>> \o Tail(todo)
  PROVE  /\ TodoInv' /\ todo' \in Seq(Op) /\ todo' # <<>> /\ Now' = o
         /\ Held' = o.permit
<1>1. Later' = Later /\ Current' = Current
  BY SameSets
<1>2. Tail(todo) \in Seq(Later) /\ Tail(todo) \in Seq(Op) /\ <<o>> \in Seq(Op)
  BY Subsets, SeqMonotonic DEF TodoInv
<1>3. todo' \in Seq(Op) /\ todo' # <<>> /\ Head(todo') = o /\ Tail(todo') = Tail(todo)
  BY <1>2
<1> QED
  BY <1>1, <1>2, <1>3 DEF TodoInv, Now, Held

\* When a flush comes before the rest
LEMMA FlushFirst ==
  ASSUME Same, NEW t \in Seq(Later), todo' = <<Flush>> \o t
  PROVE  /\ TodoInv' /\ todo' \in Seq(Op) /\ Held' = 0 /\ At_("flush")'
         /\ ~At_("charge")' /\ ~At_("add")' /\ todo' \in Seq(Later)
<1>1. Flush \in Later
  BY DEF Flush, Await, Ev, Later, Op, Event, Known
<1>2. todo' \in Seq(Later) /\ Head(todo') = Flush /\ todo' # <<>>
  BY <1>1
<1>3. Head(todo').op = "flush"
  BY <1>2 DEF Flush, Await
<1> QED
  BY <1>2, <1>3, RestKeeps DEF At_, Now

LEMMA ClampFacts ==
  ASSUME NEW n \in Nat
  PROVE  /\ Clamp(n) \in Nat /\ Clamp(n) > 0 /\ Clamp(n) <= StreamBytes
         /\ n <= Clamp(n) \/ Clamp(n) = StreamBytes
BY StreamAssumption DEF Clamp

LEMMA SizeFacts ==
  ASSUME TypeOK, NEW ev \in Event, Known(ev)
  PROVE  /\ EventBytes(ev) \in Nat /\ EventBytes(ev) > 0
         /\ ev.k = "row" => RowBytes(ev) \in Nat
<1>1. ev.k \in {"row", "notice"} => response[ev.n].size \in Nat
  <2> SUFFICES ASSUME ev.k \in {"row", "notice"} PROVE response[ev.n].size \in Nat
    OBVIOUS
  <2>1. response[ev.n] \in [kind : Kinds, size : Nat]
    BY ElementOfSeq DEF TypeOK, Known
  <2> QED
    BY <2>1
<1> QED
  BY <1>1, ClampFacts DEF EventBytes, RowBytes

LEMMA BlockFacts ==
  ASSUME NEW b \in Block
  PROVE  Charge(b) \in Nat /\ b.slot \in {0, 1} /\ b.slot \in Nat
BY DEF Block, Charge

LEMMA NoBlockFacts == NoBlock \in Block /\ Charge(NoBlock) = 0 /\ NoBlock.slot = 0
<1>1. <<>> \in Seq(Event)
  OBVIOUS
<1> QED
  BY <1>1 DEF NoBlock, Block, Charge

Parses == [cur : BOOLEAN, cached : BOOLEAN, tup : BOOLEAN, started : BOOLEAN,
           index : Nat, count : Nat, error : BOOLEAN, extra : BOOLEAN]
Resources == TodoInv /\ BatchInv /\ QueueInv /\ SlotInv /\ BudgetConserved

\* A step of the parser leaves the rest of the state alone.
LEMMA ParserTypes ==
  ASSUME TypeOK, UNCHANGED <<mode, backendVars, driveVars, callerVars>>,
         read' \in 0..Len(response), parse' \in Parses, todo' \in Seq(Op), batch' \in Block,
         result' \in Results \cup {"none"},
         history' \in [items : Seq(Nat), bytes : Nat, dropped : Nat],
         queue' \in Seq(Item), budget' \in Nat, slots' \in Nat, free' \in Nat, releasing' \in Nat
  PROVE  TypeOK'
BY DEF TypeOK, Parses, backendVars, driveVars, callerVars

LEMMA AwaitTypes ==
  ASSUME TypeOK, UNCHANGED <<mode, backendVars, driveVars, callerVars, read, parse, result, history>>,
         todo' \in Seq(Op), batch' \in Block,
         queue' \in Seq(Item), budget' \in Nat, slots' \in Nat, free' \in Nat, releasing' \in Nat
  PROVE  TypeOK' /\ Same
<1>1. /\ read \in 0..Len(response) /\ parse \in Parses
      /\ result \in Results \cup {"none"}
      /\ history \in [items : Seq(Nat), bytes : Nat, dropped : Nat]
  BY DEF TypeOK, Parses
<1> QED
  BY <1>1, ParserTypes DEF Same, backendVars

LEMMA HistorySame ==
  ASSUME HistoryInv, UNCHANGED <<response, history>>
  PROVE  HistoryInv'
BY DEF HistoryInv, NoticeBytes

LEMMA StagedKeeps ==
  ASSUME Same, batch' = batch, batch = NoBlock \/ Staged, ~At_("charge")', ~At_("add")'
  PROVE  BatchInv'
BY DEF Same, Staged, Rows, BatchInv, Eventful

LEMMA QueueSame ==
  ASSUME Same, QueueInv, UNCHANGED <<queue, pending>>
  PROVE  QueueInv'
<1>1. Sound' = Sound
  BY SameSets
<1> QED
  BY <1>1 DEF Same, QueueInv, Paid, Rows, Eventful

LEMMA SlotsSame ==
  ASSUME SlotInv, batch'.slot = batch.slot, UNCHANGED <<queue, pending, poolVars>>
  PROVE  SlotInv'
BY DEF SlotInv, Used, poolVars

LEMMA BudgetBalance ==
  /\ BudgetConserved <=>
       budget + SumCharge(queue) + Charge(pending) + Charge(batch) + Held = StreamBytes
  /\ BudgetConserved' <=>
       budget' + SumCharge(queue') + Charge(pending') + Charge(batch') + Held' = StreamBytes
BY DEF BudgetConserved, Held, SumCharge, ItemCharge, Charge, Total

LEMMA HeldFacts ==
  ASSUME TypeOK, TodoInv
  PROVE  Held \in Nat /\ (todo # <<>> /\ Now.op # "send" => Held = 0)
<1>1. todo # <<>> => Now \in Op
  BY HeadTailProperties DEF TypeOK, Now
<1> QED
  BY <1>1 DEF Held, TodoInv, Current, Now, Op

\* A frame is read: nothing is held, and what is left holds nothing.
LEMMA ReadKeeps ==
  ASSUME TypeOK, Resources, todo = <<>>, NEW ops \in Seq(Later), NEW p, Then(ops, p)
  PROVE  Resources'
<1>1. Same /\ todo' \in Seq(Later)
  BY DEF Same, Then, backendVars
<1>2. TodoInv' /\ Held' = 0 /\ ~At_("charge")' /\ ~At_("add")'
  BY <1>1, RestKeeps
<1>3. BatchInv'
  <2>1. batch = NoBlock \/ Staged
    BY DEF Resources, BatchInv, At_, Outsized
  <2> QED
    BY <1>1, <1>2, <2>1, StagedKeeps DEF Then
<1>4. QueueInv'
  BY <1>1, QueueSame DEF Resources, Then, callerVars
<1>5. SlotInv'
  BY SlotsSame DEF Resources, Then, callerVars
<1>6. BudgetConserved'
  <2>1. Held = 0 /\ UNCHANGED <<budget, queue, pending, batch>>
    BY DEF Held, Then, callerVars
  <2> QED
    BY <1>2, <2>1, BudgetBalance DEF Resources
<1> QED
  BY <1>2, <1>3, <1>4, <1>5, <1>6 DEF Resources

-----------------------------------------------------------------------------
(* The parser reads a frame *)

LEMMA SendIsLater ==
  ASSUME Eventful, NEW ev \in Event, Known(ev)
  PROVE  Send(ev) \in Later
BY DEF Send, Await, Later, Op

LEMMA FlushIsLater == Flush \in Later
BY DEF Flush, Await, Ev, Later, Op, Event, Known

LEMMA OpsFacts ==
  ASSUME NEW p \in Parses
  PROVE  /\ StartOps(p) \in Seq(Later) /\ FinishOps(p) \in Seq(Later)
         /\ Started(p) \in Parses /\ Finished(p) \in Parses
<1>1. ASSUME Eventful
      PROVE  Send(Ev("start", p.index, 0)) \in Later /\ Send(Ev("end", p.index, p.count)) \in Later
  <2>1. /\ Ev("start", p.index, 0) \in Event /\ Known(Ev("start", p.index, 0))
        /\ Ev("end", p.index, p.count) \in Event /\ Known(Ev("end", p.index, p.count))
    BY DEF Ev, Event, Parses, Known
  <2> QED
    BY <1>1, <2>1, SendIsLater
<1>2. StartOps(p) \in Seq(Later)
  BY <1>1 DEF StartOps
<1> DEFINE close == IF Eventful /\ p.cur THEN StartOps(p) \o <<Send(Ev("end", p.index, p.count))>> ELSE <<>>
<1>3. close \in Seq(Later)
  <2>1. CASE Eventful /\ p.cur
    <3>1. <<Send(Ev("end", p.index, p.count))>> \in Seq(Later)
      BY <1>1, <2>1
    <3>2. StartOps(p) \o <<Send(Ev("end", p.index, p.count))>> \in Seq(Later)
      BY <1>2, <3>1, ConcatProperties
    <3> QED
      BY <2>1, <3>2
  <2>2. CASE ~(Eventful /\ p.cur)
    BY <2>2
  <2> QED
    BY <2>1, <2>2
<1>4. FinishOps(p) = <<Flush>> \o close
  BY DEF FinishOps
<1>5. FinishOps(p) \in Seq(Later)
  <2>1. <<Flush>> \in Seq(Later)
    BY FlushIsLater
  <2> HIDE DEF close
  <2> QED
    BY <1>3, <1>4, <2>1, ConcatProperties
<1>6. Started(p) \in Parses /\ Finished(p) \in Parses
  <2>1. (p.started \/ (Eventful /\ p.cur)) \in BOOLEAN /\ p.index + 1 \in Nat
    BY DEF Parses, Eventful
  <2>2. Started(p) \in Parses
    BY <2>1 DEF Started, Parses
  <2>3. Finished(p) \in Parses
    BY <2>1 DEF Finished, Parses
  <2> QED
    BY <2>2, <2>3
<1> QED
  BY <1>2, <1>5, <1>6

\* The frame that is read is one that was sent.
LEMMA ArrivedFacts ==
  ASSUME TypeOK, NEW kind, Arrived(kind)
  PROVE  todo = <<>> /\ read + 1 \in 1..Len(response) /\ parse \in Parses
<1>1. Len(response) \in Nat /\ read \in 0..Len(response) /\ read < Len(response)
  BY LenProperties DEF TypeOK, Arrived
<1> QED
  BY <1>1 DEF TypeOK, Arrived, Parses

LEMMA ThenTypes ==
  ASSUME TypeOK, read + 1 \in 1..Len(response), NEW ops \in Seq(Later), NEW p \in Parses,
         Then(ops, p), result' \in Results \cup {"none"},
         history' \in [items : Seq(Nat), bytes : Nat, dropped : Nat]
  PROVE  TypeOK'
<1>1. ops \in Seq(Op)
  BY Subsets, SeqMonotonic
<1>2. read' \in 0..Len(response)
  BY DEF Then, TypeOK
<1> QED
  BY <1>1, <1>2, ParserTypes DEF Then, TypeOK, poolVars

\* A frame that is read without touching result or history
LEMMA PlainRead ==
  ASSUME StreamInv, NEW kind, Arrived(kind), NEW ops \in Seq(Later), NEW p \in Parses,
         Then(ops, p), result' \in Results \cup {"none"}, UNCHANGED history
  PROVE  StreamInv'
<1>1. todo = <<>> /\ read + 1 \in 1..Len(response)
  BY ArrivedFacts DEF StreamInv
<1>2. TypeOK'
  BY <1>1, ThenTypes DEF StreamInv, TypeOK
<1>3. Resources'
  BY <1>1, ReadKeeps DEF StreamInv, Resources
<1>4. HistoryInv'
  BY HistorySame DEF StreamInv, Then, backendVars
<1> QED
  BY <1>2, <1>3, <1>4 DEF StreamInv, Resources

LEMMA ReadsKeep ==
  ASSUME StreamInv,
         ReadDesc \/ ReadStd \/ ReadRow \/ ReadComplete \/ ReadNotice \/ ReadError
           \/ ReadReady \/ ReadFatal
  PROVE  StreamInv'
<1>1. TypeOK /\ parse \in Parses /\ <<>> \in Seq(Later) /\ result \in Results \cup {"none"}
  BY DEF StreamInv, TypeOK, Parses
<1>2. ASSUME ReadDesc PROVE StreamInv'
  <2> DEFINE p == Finished(parse)
             q == [p EXCEPT !.cur = TRUE, !.cached = TRUE, !.tup = FALSE, !.extra = @ \/ SecondSet(p)]
  <2>1. p \in Parses /\ FinishOps(parse) \in Seq(Later)
    BY <1>1, OpsFacts
  <2>2. q \in Parses
    <3> HIDE DEF p
    <3>1. (p.extra \/ SecondSet(p)) \in BOOLEAN
      BY <2>1 DEF Parses, SecondSet, Eventful
    <3> QED
      BY <2>1, <3>1 DEF Parses
  <2>3. Arrived("desc") /\ Then(FinishOps(parse), q) /\ UNCHANGED <<result, history>>
    BY <1>2 DEF ReadDesc
  <2> HIDE DEF p, q
  <2> QED
    BY <1>1, <2>1, <2>2, <2>3, PlainRead
<1>3. ASSUME ReadStd PROVE StreamInv'
  <2>1. [parse EXCEPT !.tup = TRUE, !.cur = TRUE] \in Parses
    BY <1>1 DEF Parses
  <2> QED
    BY <1>1, <1>3, <2>1, PlainRead DEF ReadStd
<1>4. ASSUME ReadRow PROVE StreamInv'
  <2> DEFINE p == [parse EXCEPT !.cur = TRUE, !.count = @ + 1]
             push == IF parse.extra THEN <<>> ELSE <<Await("push", Ev("row", 0, read + 1))>>
  <2>1. PICK kind \in {"row", "dbos"} :
          /\ Arrived(kind) /\ Then(StartOps(p) \o push, Started(p)) /\ UNCHANGED <<result, history>>
    BY <1>4 DEF ReadRow
  <2>2. read + 1 \in 1..Len(response)
    BY <1>1, <2>1, ArrivedFacts
  <2>3. Await("push", Ev("row", 0, read + 1)) \in Later
    BY <2>2 DEF Await, Ev, Later, Op, Event, Known
  <2>4. push \in Seq(Later)
    BY <2>3
  <2>5. p \in Parses
    <3>1. parse.count + 1 \in Nat
      BY <1>1 DEF Parses
    <3> QED
      BY <1>1, <3>1 DEF Parses
  <2> HIDE DEF p, push
  <2>6. StartOps(p) \o push \in Seq(Later) /\ Started(p) \in Parses
    BY <2>4, <2>5, OpsFacts, ConcatProperties
  <2> QED
    BY <1>1, <2>1, <2>6, PlainRead
<1>5. ASSUME ReadComplete PROVE StreamInv'
  <2> DEFINE p == Started(parse)
             told == IF Eventful
                     THEN StartOps(parse) \o <<Flush, Send(Ev("complete", 0, read + 1))>>
                     ELSE <<>>
  <2>1. Arrived("complete") /\ Then(told \o FinishOps(p), Finished(p)) /\ UNCHANGED <<result, history>>
    BY <1>5 DEF ReadComplete
  <2>2. read + 1 \in 1..Len(response)
    BY <1>1, <2>1, ArrivedFacts
  <2>3. told \in Seq(Later)
    <3>1. CASE Eventful
      <4>1. Ev("complete", 0, read + 1) \in Event /\ Known(Ev("complete", 0, read + 1))
        BY <2>2 DEF Ev, Event, Known
      <4>2. <<Flush, Send(Ev("complete", 0, read + 1))>> \in Seq(Later)
        BY <3>1, <4>1, SendIsLater, FlushIsLater
      <4>3. StartOps(parse) \in Seq(Later)
        BY <1>1, OpsFacts
      <4>4. StartOps(parse) \o <<Flush, Send(Ev("complete", 0, read + 1))>> \in Seq(Later)
        BY <4>2, <4>3, ConcatProperties
      <4> QED
        BY <3>1, <4>4
    <3>2. CASE ~Eventful
      BY <1>1, <3>2
    <3> QED
      BY <3>1, <3>2
  <2>4. p \in Parses
    BY <1>1, OpsFacts
  <2> HIDE DEF p, told
  <2>5. told \o FinishOps(p) \in Seq(Later) /\ Finished(p) \in Parses
    BY <2>3, <2>4, OpsFacts, ConcatProperties
  <2> QED
    BY <1>1, <2>1, <2>5, PlainRead
<1>6. ASSUME ReadNotice PROVE StreamInv'
  <2> DEFINE ops == IF Eventful THEN NoticeOps ELSE <<>>
  <2>1. Arrived("notice") /\ Then(ops, parse) /\ history' = NoticePush(history, read + 1)
        /\ UNCHANGED result
    BY <1>6 DEF ReadNotice
  <2>2. read + 1 \in 1..Len(response) /\ todo = <<>>
    BY <1>1, <2>1, ArrivedFacts
  <2>3. ops \in Seq(Later)
    <3>1. CASE Eventful
      <4>1. Ev("notice", 0, read + 1) \in Event /\ Known(Ev("notice", 0, read + 1))
        BY <2>2 DEF Ev, Event, Known
      <4>2. <<Flush, Send(Ev("notice", 0, read + 1))>> \in Seq(Later)
        BY <3>1, <4>1, SendIsLater, FlushIsLater
      <4> QED
        BY <3>1, <4>2 DEF NoticeOps
    <3>2. CASE ~Eventful
      BY <1>1, <3>2
    <3> QED
      BY <3>1, <3>2
  <2>4. /\ history' \in [items : Seq(Nat), bytes : Nat, dropped : Nat]
        /\ history'.items \in Seq(1..Len(response))
        /\ history'.bytes = NoticeBytes(history'.items)
    BY <2>1, <2>2, PushKeepsHistory DEF StreamInv
  <2> HIDE DEF ops
  <2>5. TypeOK'
    BY <1>1, <2>1, <2>2, <2>3, <2>4, ThenTypes
  <2>6. Resources'
    BY <1>1, <2>1, <2>2, <2>3, ReadKeeps DEF StreamInv, Resources
  <2>7. HistoryInv'
    <3>1. response' = response
      BY <2>1 DEF Then, backendVars
    <3> QED
      BY <2>4, <3>1 DEF HistoryInv, NoticeBytes
  <2> QED
    BY <2>5, <2>6, <2>7 DEF StreamInv, Resources
<1>7. ASSUME ReadError PROVE StreamInv'
  <2>1. [parse EXCEPT !.error = TRUE] \in Parses
    BY <1>1 DEF Parses
  <2> QED
    BY <1>1, <1>7, <2>1, PlainRead DEF ReadError
<1>8. ASSUME ReadReady PROVE StreamInv'
  <2>1. FinishOps(parse) \in Seq(Later) /\ Finished(parse) \in Parses
    BY <1>1, OpsFacts
  <2>2. result' \in Results \cup {"none"}
    BY <1>8 DEF ReadReady, Results
  <2> QED
    BY <1>8, <2>1, <2>2, PlainRead DEF ReadReady
<1>9. ASSUME ReadFatal PROVE StreamInv'
  <2>1. \E kind \in {"torn", "row", "dbos"} : Arrived(kind)
    BY <1>9 DEF ReadFatal
  <2>2. result' \in Results \cup {"none"}
    BY <1>9 DEF ReadFatal, Results
  <2> QED
    BY <1>1, <1>9, <2>1, <2>2, PlainRead DEF ReadFatal
<1> QED
  BY <1>2, <1>3, <1>4, <1>5, <1>6, <1>7, <1>8, <1>9

-----------------------------------------------------------------------------
(* The awaits of the parser *)

Aside == <<mode, backendVars, driveVars, callerVars, read, parse, result, history>>

LEMMA AtFacts ==
  ASSUME StreamInv, NEW op, At(op)
  PROVE  /\ todo # <<>> /\ Now.op = op /\ Now \in Current /\ Now \in Op
         /\ Now = [op |-> Now.op, ev |-> Now.ev, permit |-> Now.permit]
         /\ Tail(todo) \in Seq(Later) /\ Known(Now.ev) /\ Now.ev \in Event /\ Now.permit \in Nat
         /\ EventBytes(Now.ev) \in Nat /\ EventBytes(Now.ev) > 0
         /\ Now.ev.k = "row" => RowBytes(Now.ev) \in Nat
         /\ Held = Now.permit
<1>1. todo # <<>> /\ Now.op = op /\ Now \in Current /\ Tail(todo) \in Seq(Later)
  BY DEF At, StreamInv, TodoInv, Now
<1>2. Now \in Op /\ Known(Now.ev)
  BY <1>1 DEF Current
<1>3. /\ Now.ev \in Event /\ Now.permit \in Nat
      /\ Now = [op |-> Now.op, ev |-> Now.ev, permit |-> Now.permit]
  BY <1>2 DEF Op
<1> QED
  BY <1>1, <1>2, <1>3, SizeFacts DEF StreamInv, Held

LEMMA StateFacts ==
  ASSUME TypeOK
  PROVE  /\ budget \in Nat /\ SumCharge(queue) \in Nat /\ SumSlots(queue) \in Nat
         /\ Charge(pending) \in Nat /\ Charge(batch) \in Nat
         /\ batch.slot \in {0, 1} /\ pending.slot \in {0, 1} /\ batch \in Block /\ pending \in Block
         /\ queue \in Seq(Item) /\ slots \in Nat /\ free \in Nat /\ releasing \in Nat
BY SumFacts, BlockFacts DEF TypeOK

LEMMA StateHolds ==
  ASSUME StreamInv
  PROVE  /\ budget \in Nat /\ SumCharge(queue) \in Nat /\ SumSlots(queue) \in Nat
         /\ Charge(pending) \in Nat /\ Charge(batch) \in Nat
         /\ batch.slot \in {0, 1} /\ pending.slot \in {0, 1} /\ batch \in Block /\ pending \in Block
         /\ queue \in Seq(Item) /\ slots \in Nat /\ free \in Nat /\ releasing \in Nat
         /\ batch.slot \in Nat /\ pending.slot \in Nat
<1>1. TypeOK
  BY DEF StreamInv
<1>2. \A n \in {0, 1} : n \in Nat
  OBVIOUS
<1> QED
  BY <1>1, <1>2, StateFacts

LEMMA AwaitKeeps ==
  ASSUME StreamInv, UNCHANGED Aside, Resources', todo' \in Seq(Op), batch' \in Block,
         queue' \in Seq(Item), budget' \in Nat, slots' \in Nat, free' \in Nat, releasing' \in Nat
  PROVE  StreamInv'
<1>1. UNCHANGED <<mode, backendVars, driveVars, callerVars, read, parse, result, history>>
  BY DEF Aside
<1>2. TypeOK'
  BY <1>1, AwaitTypes DEF StreamInv
<1>3. HistoryInv'
  BY <1>1, HistorySame DEF StreamInv, backendVars
<1> QED
  BY <1>2, <1>3 DEF StreamInv, Resources

LEMMA SendBudgetKeeps ==
  ASSUME StreamInv, SendBudget
  PROVE  StreamInv'
<1> DEFINE need == EventBytes(Now.ev)
<1>1. /\ At("send") /\ Now.permit = 0 /\ budget >= need /\ budget' = budget - need
      /\ todo' = <<Granted(need)>> \o Tail(todo)
      /\ UNCHANGED Aside /\ UNCHANGED <<batch, queue, poolVars>>
  BY DEF SendBudget, Aside
<1>2. /\ todo # <<>> /\ Now.op = "send" /\ Now \in Current /\ Held = 0
      /\ need \in Nat /\ Now = [op |-> Now.op, ev |-> Now.ev, permit |-> Now.permit]
  BY <1>1, AtFacts
<1>3. Same /\ UNCHANGED <<pending>>
  BY <1>1 DEF Same, Aside, backendVars, callerVars
<1> HIDE DEF need
<1>4. Granted(need) \in Current /\ Granted(need).permit = need /\ Granted(need).op = "send"
  BY <1>2 DEF Granted, Current, Op, Known
<1>5. TodoInv' /\ todo' \in Seq(Op) /\ todo' # <<>> /\ Now'.op = "send" /\ Held' = need
  BY <1>1, <1>2, <1>3, <1>4, ExchangeKeeps DEF StreamInv
<1>6. BatchInv'
  <2>1. batch = NoBlock \/ Staged
    BY <1>2 DEF StreamInv, BatchInv, At_, Outsized
  <2>2. ~At_("charge")' /\ ~At_("add")'
    BY <1>5 DEF At_
  <2> QED
    BY <1>1, <1>3, <2>1, <2>2, StagedKeeps
<1>7. QueueInv' /\ SlotInv'
  BY <1>1, <1>3, QueueSame, SlotsSame DEF StreamInv
<1>8. BudgetConserved' /\ budget' \in Nat
  <2>1. budget + SumCharge(queue) + Charge(pending) + Charge(batch) + 0 = StreamBytes
    BY <1>2, BudgetBalance DEF StreamInv
  <2>2. budget' + SumCharge(queue') + Charge(pending') + Charge(batch') + Held' = StreamBytes
    BY <1>1, <1>2, <1>3, <1>5, <2>1, StateFacts DEF StreamInv
  <2> QED
    BY <1>1, <1>2, <2>2, BudgetBalance, StateFacts DEF StreamInv
<1> QED
  BY <1>1, <1>5, <1>6, <1>7, <1>8, StateFacts, AwaitKeeps DEF StreamInv, Resources, poolVars

\* The first await of todo is done, and nothing else about the parser changes.
LEMMA DoneKeeps ==
  ASSUME StreamInv, Same, todo # <<>>, todo' = Tail(todo)
  PROVE  /\ TodoInv' /\ Held' = 0 /\ ~At_("charge")' /\ ~At_("add")' /\ todo' \in Seq(Op)
         /\ todo' \in Seq(Later)
BY RestKeeps DEF StreamInv, TodoInv

LEMMA SendChannelKeeps ==
  ASSUME StreamInv, SendChannel
  PROVE  StreamInv'
<1> DEFINE item == [rows |-> FALSE, ev |-> Now.ev, permit |-> Now.permit, block |-> NoBlock]
<1>1. /\ At("send") /\ queue' = Append(queue, item) /\ todo' = Tail(todo)
      /\ UNCHANGED Aside /\ UNCHANGED <<batch, budget, poolVars>>
  BY DEF SendChannel, Aside
<1>2. /\ todo # <<>> /\ Now.op = "send" /\ Now \in Current /\ Held = Now.permit
      /\ Now.permit \in Nat /\ Now.ev \in Event
  BY <1>1, AtFacts
<1>3. Same /\ UNCHANGED <<pending>>
  BY <1>1 DEF Same, Aside, backendVars, callerVars
<1>4. TodoInv' /\ Held' = 0 /\ ~At_("charge")' /\ ~At_("add")' /\ todo' \in Seq(Op)
  BY <1>1, <1>2, <1>3, DoneKeeps
<1>5. BatchInv'
  <2>1. batch = NoBlock \/ Staged
    BY <1>2 DEF StreamInv, BatchInv, At_, Outsized
  <2> QED
    BY <1>1, <1>3, <1>4, <2>1, StagedKeeps
<1>6. item \in Item /\ item \in Sound /\ ItemCharge(item) = Now.permit /\ item.block.slot = 0
  <2>1. item \in Item
    BY <1>2, NoBlockFacts DEF Item
  <2>2. Eventful
    BY <1>2 DEF Current
  <2>3. item.block = NoBlock /\ item.permit = Now.permit /\ ~item.rows
    OBVIOUS
  <2> HIDE DEF item
  <2> QED
    BY <1>2, <2>1, <2>2, <2>3, NoBlockFacts DEF Sound, ItemCharge
<1> HIDE DEF item
<1>7. queue' \in Seq(Item) /\ QueueInv'
  <2>1. Sound' = Sound
    BY <1>3, SameSets
  <2>2. queue' \in Seq(Sound)
    BY <1>1, <1>6, AppendProperties DEF StreamInv, QueueInv
  <2>3. queue' \in Seq(Item)
    BY <2>2, Subsets, SeqMonotonic
  <2> QED
    BY <1>3, <2>1, <2>2, <2>3 DEF StreamInv, QueueInv, Paid, Rows, Eventful, Same
<1>8. /\ SumCharge(queue') = SumCharge(queue) + Now.permit
      /\ SumSlots(queue') = SumSlots(queue) + 0
  BY <1>1, <1>6, SumAppend, StateFacts DEF StreamInv
<1>9. SlotInv'
  <2>1. SumSlots(queue') = SumSlots(queue)
    BY <1>8, StateFacts DEF StreamInv
  <2>2. (SumSlots(queue))' = SumSlots(queue')
    BY DEF SumSlots, Total
  <2> QED
    BY <1>1, <1>3, <2>1, <2>2 DEF StreamInv, SlotInv, Used, poolVars
<1>10. BudgetConserved'
  <2>1. budget + SumCharge(queue) + Charge(pending) + Charge(batch) + Now.permit = StreamBytes
    BY <1>2, BudgetBalance DEF StreamInv
  <2>2. budget' + SumCharge(queue') + Charge(pending') + Charge(batch') + 0 = StreamBytes
    <3>1. /\ budget' = budget /\ Charge(pending') = Charge(pending) /\ Charge(batch') = Charge(batch)
          /\ SumCharge(queue') = SumCharge(queue) + Now.permit
      BY <1>1, <1>3, <1>8
    <3>2. /\ budget \in Nat /\ SumCharge(queue) \in Nat /\ Charge(pending) \in Nat
          /\ Charge(batch) \in Nat
      BY StateHolds
    <3>3. Now.permit \in Nat
      BY <1>2
    <3> QED
      BY ONLY <2>1, <3>1, <3>2, <3>3
  <2> QED
    BY <1>4, <2>2, BudgetBalance
<1> QED
  BY <1>1, <1>4, <1>5, <1>7, <1>9, <1>10, StateFacts, AwaitKeeps DEF StreamInv, Resources, poolVars

LEMMA SendFailsKeeps ==
  ASSUME StreamInv, SendFails
  PROVE  StreamInv'
<1>1. /\ At("send") /\ budget' = budget + Now.permit /\ todo' = Tail(todo)
      /\ UNCHANGED Aside /\ UNCHANGED <<batch, queue, poolVars>>
  BY DEF SendFails, Aside, Returned
<1>2. todo # <<>> /\ Now.op = "send" /\ Held = Now.permit /\ Now.permit \in Nat
  BY <1>1, AtFacts
<1>3. Same /\ UNCHANGED <<pending>>
  BY <1>1 DEF Same, Aside, backendVars, callerVars
<1>4. TodoInv' /\ Held' = 0 /\ ~At_("charge")' /\ ~At_("add")' /\ todo' \in Seq(Op)
  BY <1>1, <1>2, <1>3, DoneKeeps
<1>5. BatchInv'
  <2>1. batch = NoBlock \/ Staged
    BY <1>2 DEF StreamInv, BatchInv, At_, Outsized
  <2> QED
    BY <1>1, <1>3, <1>4, <2>1, StagedKeeps
<1>6. QueueInv' /\ SlotInv'
  BY <1>1, <1>3, QueueSame, SlotsSame DEF StreamInv
<1>7. BudgetConserved' /\ budget' \in Nat
  <2>1. budget + SumCharge(queue) + Charge(pending) + Charge(batch) + Now.permit = StreamBytes
    BY <1>2, BudgetBalance DEF StreamInv
  <2>2. /\ SumCharge(queue') = SumCharge(queue) /\ Charge(pending') = Charge(pending)
        /\ Charge(batch') = Charge(batch)
    BY <1>1, <1>3
  <2>3. /\ budget \in Nat /\ SumCharge(queue) \in Nat /\ Charge(pending) \in Nat
        /\ Charge(batch) \in Nat
    BY StateHolds
  <2>4. budget' + SumCharge(queue') + Charge(pending') + Charge(batch') + 0 = StreamBytes
    BY <1>1, <1>2, <2>1, <2>2, <2>3
  <2> QED
    BY <1>1, <1>2, <1>4, <2>3, <2>4, BudgetBalance
<1> QED
  BY <1>1, <1>4, <1>5, <1>6, <1>7, StateFacts, AwaitKeeps DEF StreamInv, Resources, poolVars

\* The balance is kept when what is gained in one place is lost in another.
LEMMA BalanceMoves ==
  ASSUME TypeOK, BudgetConserved, Held \in Nat,
         budget' + SumCharge(queue') + Charge(pending') + Charge(batch') + Held'
           = budget + SumCharge(queue) + Charge(pending) + Charge(batch) + Held
  PROVE  BudgetConserved'
BY BudgetBalance

LEMMA PushFlushesKeeps ==
  ASSUME StreamInv, PushFlushes
  PROVE  StreamInv'
<1>1. /\ At("push") /\ todo' = <<Flush>> \o todo
      /\ UNCHANGED Aside /\ UNCHANGED <<batch, queue, budget, poolVars>>
  BY DEF PushFlushes, Aside
<1>2. /\ todo # <<>> /\ Now.op = "push" /\ Held = Now.permit
      /\ Now \in Current /\ Tail(todo) \in Seq(Later)
  BY <1>1, AtFacts
<1>3. Same /\ UNCHANGED <<pending>>
  BY <1>1 DEF Same, Aside, backendVars, callerVars
<1>4. todo \in Seq(Later)
  <2>1. Now \in Later
    BY <1>2 DEF Current, Later
  <2>2. todo = <<Now>> \o Tail(todo)
    BY <1>2 DEF StreamInv, TypeOK, Now
  <2>3. <<Now>> \in Seq(Later)
    BY <2>1
  <2> QED
    BY <1>2, <2>2, <2>3, ConcatProperties
<1>5. TodoInv' /\ Held' = 0 /\ ~At_("charge")' /\ ~At_("add")' /\ todo' \in Seq(Op)
  BY <1>1, <1>3, <1>4, FlushFirst
<1>6. BatchInv'
  <2>1. batch = NoBlock \/ Staged
    BY <1>2 DEF StreamInv, BatchInv, At_, Outsized
  <2> QED
    BY <1>1, <1>3, <1>5, <2>1, StagedKeeps
<1>7. QueueInv' /\ SlotInv'
  BY <1>1, <1>3, QueueSame, SlotsSame DEF StreamInv
<1>8. BudgetConserved'
  <2>1. Held = 0
    BY <1>2 DEF Current
  <2> QED
    BY <1>1, <1>3, <1>5, <2>1, BalanceMoves DEF StreamInv
<1> QED
  BY <1>1, <1>5, <1>6, <1>7, <1>8, StateFacts, AwaitKeeps DEF StreamInv, Resources, poolVars

LEMMA PushAcquiresKeeps ==
  ASSUME StreamInv, PushAcquires
  PROVE  StreamInv'
<1> DEFINE what == IF RowBytes(Now.ev) <= BatchBytes THEN "charge" ELSE "add"
           o == Await(what, Now.ev)
<1>1. /\ At("push") /\ Eventful /\ batch = NoBlock /\ slots > 0
      /\ slots' = slots - 1 /\ free' = free - 1 /\ releasing' = releasing
      /\ batch' = [NoBlock EXCEPT !.slot = 1]
      /\ todo' = <<o>> \o Tail(todo)
      /\ UNCHANGED Aside /\ UNCHANGED <<queue, budget>>
  BY DEF PushAcquires, Aside, SlotFree
<1>2. /\ todo # <<>> /\ Now.op = "push" /\ Held = Now.permit
      /\ Now \in Current /\ Now.ev \in Event /\ Known(Now.ev)
      /\ Now.ev.k = "row" => RowBytes(Now.ev) \in Nat
  BY <1>1, AtFacts
<1>3. Same /\ UNCHANGED <<pending>>
  BY <1>1 DEF Same, Aside, backendVars, callerVars
<1>4. Held = 0 /\ Now.ev.k = "row" /\ RowBytes(Now.ev) \in Nat
  BY <1>2 DEF Current
<1>5. o \in Current /\ o.ev = Now.ev /\ o.op = what /\ o.permit = 0
  <2>1. what \in {"charge", "add"}
    OBVIOUS
  <2> HIDE DEF what
  <2> QED
    BY <1>1, <1>2, <1>4, <2>1 DEF Await, Current, Op
<1> HIDE DEF o
<1>6. TodoInv' /\ todo' \in Seq(Op) /\ todo' # <<>> /\ Now' = o /\ Held' = 0
  BY <1>1, <1>2, <1>3, <1>5, ExchangeKeeps DEF StreamInv
<1>7. /\ batch'.rows = <<>> /\ batch'.bytes = 0 /\ batch'.permit = 0 /\ batch'.slot = 1
      /\ batch'.staging = 0 /\ batch' \in Block /\ Charge(batch') = 0
  BY <1>1, NoBlockFacts DEF NoBlock, Block, Charge
<1>8. BatchInv'
  <2>1. (RowBytes(Now.ev))' = RowBytes(Now.ev)
    BY <1>3, <1>5, <1>6 DEF RowBytes, Same, Eventful
  <2>2. Now'.op = what
    BY <1>5, <1>6
  <2>3. CASE RowBytes(Now.ev) <= BatchBytes
    BY <1>6, <1>7, <2>1, <2>2, <2>3 DEF BatchInv, Acquired, At_
  <2>4. CASE ~(RowBytes(Now.ev) <= BatchBytes)
    <3>1. RowBytes(Now.ev) > BatchBytes
      BY <1>4, <2>4, StreamAssumption
    <3> QED
      BY <1>6, <1>7, <2>1, <2>2, <2>4, <3>1 DEF BatchInv, Acquired, At_
  <2> QED
    BY <2>3, <2>4
<1>9. QueueInv'
  BY <1>1, <1>3, QueueSame DEF StreamInv
<1>10. SlotInv' /\ free' \in Nat /\ slots' \in Nat
  <2>1. Used = 0 + pending.slot + SumSlots(queue) /\ Used' = 1 + pending.slot + SumSlots(queue)
    BY <1>1, <1>3, <1>7, NoBlockFacts DEF Used
  <2>2. free + Used = PoolSize /\ slots + releasing + Used = PoolSize
    BY DEF StreamInv, SlotInv
  <2>3. /\ pending.slot \in Nat /\ SumSlots(queue) \in Nat /\ slots \in Nat /\ free \in Nat
        /\ releasing \in Nat
    BY StateHolds
  <2>4. slots' = slots - 1 /\ free' = free - 1 /\ releasing' = releasing /\ slots > 0
    BY <1>1
  <2>5. free' + Used' = PoolSize /\ slots' + releasing' + Used' = PoolSize
    BY <2>1, <2>2, <2>3, <2>4
  <2>6. free' \in Nat /\ slots' \in Nat
    BY <2>1, <2>2, <2>3, <2>4
  <2> QED
    BY <2>5, <2>6 DEF SlotInv
<1>11. BudgetConserved'
  <2>1. Charge(batch) = 0
    BY <1>1, NoBlockFacts
  <2> QED
    BY <1>1, <1>3, <1>4, <1>6, <1>7, <2>1, BalanceMoves DEF StreamInv
<1> QED
  BY <1>1, <1>6, <1>7, <1>8, <1>9, <1>10, <1>11, StateFacts, AwaitKeeps DEF StreamInv, Resources

LEMMA PushChargesKeeps ==
  ASSUME StreamInv, PushCharges
  PROVE  StreamInv'
<1> DEFINE o == Await("add", Now.ev)
<1>1. /\ At("charge") /\ budget >= BatchBytes /\ budget' = budget - BatchBytes
      /\ batch' = [batch EXCEPT !.staging = BatchBytes]
      /\ todo' = <<o>> \o Tail(todo)
      /\ UNCHANGED Aside /\ UNCHANGED <<queue, poolVars>>
  BY DEF PushCharges, Aside
<1>2. /\ todo # <<>> /\ Now.op = "charge" /\ Held = Now.permit
      /\ Now \in Current /\ Now.ev \in Event /\ Known(Now.ev)
  BY <1>1, AtFacts
<1>3. Same /\ UNCHANGED <<pending>>
  BY <1>1 DEF Same, Aside, backendVars, callerVars
<1>4. Held = 0 /\ Now.ev.k = "row" /\ Eventful
  BY <1>2 DEF Current
<1>5. o \in Current /\ o.ev = Now.ev /\ o.op = "add" /\ o.permit = 0
  BY <1>2, <1>4 DEF Await, Current, Op
<1> HIDE DEF o
<1>6. TodoInv' /\ todo' \in Seq(Op) /\ todo' # <<>> /\ Now' = o /\ Held' = 0
  BY <1>1, <1>2, <1>3, <1>5, ExchangeKeeps DEF StreamInv
<1>7. Acquired /\ batch.staging = 0 /\ RowBytes(Now.ev) <= BatchBytes
  BY <1>2 DEF StreamInv, BatchInv, Acquired, At_
<1>8. /\ batch'.rows = <<>> /\ batch'.bytes = 0 /\ batch'.permit = 0 /\ batch'.slot = 1
      /\ batch'.staging = BatchBytes /\ batch' \in Block
      /\ Charge(batch) = 0 /\ Charge(batch') = BatchBytes /\ batch.slot = 1
  <2>1. batch \in Block /\ BatchBytes \in Nat
    BY StateFacts, StreamAssumption DEF StreamInv
  <2> QED
    BY <1>1, <1>7, <2>1 DEF Acquired, Block, Charge
<1>9. BatchInv'
  <2>1. (RowBytes(Now.ev))' = RowBytes(Now.ev)
    BY <1>3, <1>5, <1>6 DEF RowBytes, Same, Eventful
  <2> QED
    BY <1>5, <1>6, <1>7, <1>8, <2>1 DEF BatchInv, Acquired, At_
<1>10. QueueInv' /\ SlotInv'
  BY <1>1, <1>3, <1>8, QueueSame, SlotsSame DEF StreamInv
<1>11. BudgetConserved' /\ budget' \in Nat
  <2>1. budget \in Nat /\ SumCharge(queue) \in Nat /\ Charge(pending) \in Nat /\ BatchBytes \in Nat
    BY StateFacts, StreamAssumption DEF StreamInv
  <2>2. budget' + SumCharge(queue') + Charge(pending') + Charge(batch') + Held'
          = budget + SumCharge(queue) + Charge(pending) + Charge(batch) + Held
    BY <1>1, <1>3, <1>4, <1>6, <1>8, <2>1
  <2> QED
    BY <1>1, <1>4, <2>1, <2>2, BalanceMoves DEF StreamInv
<1> QED
  BY <1>1, <1>6, <1>8, <1>9, <1>10, <1>11, StateFacts, AwaitKeeps DEF StreamInv, Resources, poolVars

\* A block is dropped: its slot goes over to the drop, its bytes to the budget.
LEMMA RecycleKeeps ==
  ASSUME StreamInv, batch' = NoBlock, Recycle(batch.slot), UNCHANGED <<queue, pending>>
  PROVE  SlotInv' /\ free' \in Nat /\ slots' \in Nat /\ releasing' \in Nat
<1>1. Used = batch.slot + pending.slot + SumSlots(queue) /\ Used' = 0 + pending.slot + SumSlots(queue)
  BY NoBlockFacts DEF Used
<1>2. free + Used = PoolSize /\ slots + releasing + Used = PoolSize
  BY DEF StreamInv, SlotInv
<1>3. /\ pending.slot \in Nat /\ SumSlots(queue) \in Nat /\ slots \in Nat /\ free \in Nat
      /\ releasing \in Nat /\ batch.slot \in Nat
  BY StateHolds
<1>4. free' = free + batch.slot /\ releasing' = releasing + batch.slot /\ slots' = slots
  BY DEF Recycle
<1>5. free' + Used' = PoolSize /\ slots' + releasing' + Used' = PoolSize
  BY <1>1, <1>2, <1>3, <1>4, StreamAssumption
<1> QED
  BY <1>3, <1>4, <1>5 DEF SlotInv

LEMMA PushFailsKeeps ==
  ASSUME StreamInv, PushFails
  PROVE  StreamInv'
<1>1. /\ At("charge") \/ (At("push") /\ batch = NoBlock)
      /\ batch' = NoBlock /\ Recycle(batch.slot) /\ todo' = Tail(todo)
      /\ UNCHANGED Aside /\ UNCHANGED <<queue, budget>>
  BY DEF PushFails, Aside
<1>2. todo # <<>> /\ Now.op \in {"charge", "push"} /\ Held = Now.permit /\ Now \in Current
  BY <1>1, AtFacts
<1>3. Same /\ UNCHANGED <<pending>>
  BY <1>1 DEF Same, Aside, backendVars, callerVars
<1>4. Held = 0
  BY <1>2 DEF Current
<1>5. TodoInv' /\ Held' = 0 /\ ~At_("charge")' /\ ~At_("add")' /\ todo' \in Seq(Op)
  BY <1>1, <1>2, <1>3, DoneKeeps
<1>6. BatchInv' /\ batch' \in Block
  BY <1>1, <1>5, NoBlockFacts DEF BatchInv
<1>7. QueueInv'
  BY <1>1, <1>3, QueueSame DEF StreamInv
<1>8. SlotInv' /\ free' \in Nat /\ slots' \in Nat /\ releasing' \in Nat
  BY <1>1, <1>3, RecycleKeeps
<1>9. BudgetConserved'
  <2>1. Charge(batch) = 0
    <3>1. CASE batch = NoBlock
      BY <3>1, NoBlockFacts
    <3>2. CASE At("charge")
      <4>1. Acquired /\ batch.staging = 0 /\ batch.permit = 0
        <5>1. Now.op = "charge"
          BY <3>2, AtFacts
        <5> QED
          BY <1>2, <5>1 DEF StreamInv, BatchInv, Acquired, At_
      <4> QED
        BY <4>1 DEF Charge
    <3> QED
      BY <1>1, <3>1, <3>2
  <2>2. Charge(batch') = 0
    BY <1>1, NoBlockFacts
  <2> QED
    BY <1>1, <1>3, <1>4, <1>5, <2>1, <2>2, BalanceMoves DEF StreamInv
<1> QED
  BY <1>1, <1>5, <1>6, <1>7, <1>8, <1>9, StateFacts, AwaitKeeps DEF StreamInv, Resources

LEMMA PushAddsKeeps ==
  ASSUME StreamInv, PushAdds
  PROVE  StreamInv'
<1> DEFINE size == RowBytes(Now.ev)
           t == (IF Full(batch') THEN <<Flush>> ELSE <<>>) \o Tail(todo)
<1>1. /\ At("add") \/ (At("push") /\ HasRoom(Now.ev))
      /\ batch' = [batch EXCEPT !.rows = Append(@, Now.ev), !.bytes = @ + size]
      /\ todo' = t
      /\ UNCHANGED Aside /\ UNCHANGED <<queue, budget, poolVars>>
  BY DEF PushAdds, Aside
<1>2. /\ todo # <<>> /\ Now.op \in {"add", "push"} /\ Held = Now.permit /\ Now \in Current
      /\ Now.ev \in Event /\ Tail(todo) \in Seq(Later) /\ (Now.ev.k = "row" => size \in Nat)
  BY <1>1, AtFacts
<1>3. Same /\ UNCHANGED <<pending>>
  BY <1>1 DEF Same, Aside, backendVars, callerVars
<1>4. Held = 0 /\ size \in Nat /\ (Now.op = "add" => Eventful)
  BY <1>2 DEF Current
<1> HIDE DEF size
<1>5. /\ batch \in Block /\ batch.rows \in Seq(Event) /\ batch.bytes \in Nat /\ batch.slot \in {0, 1}
      /\ batch = [rows |-> batch.rows, bytes |-> batch.bytes, staging |-> batch.staging,
                  permit |-> batch.permit, slot |-> batch.slot]
  BY StateFacts DEF StreamInv, Block
<1>6. /\ batch' \in Block /\ batch'.rows = Append(batch.rows, Now.ev)
      /\ batch'.bytes = batch.bytes + size /\ batch'.staging = batch.staging
      /\ batch'.permit = batch.permit /\ batch'.slot = batch.slot
      /\ Charge(batch') = Charge(batch)
  <2>1. batch' = [batch EXCEPT !.rows = Append(@, Now.ev), !.bytes = @ + size]
    BY <1>1
  <2>2. Append(batch.rows, Now.ev) \in Seq(Event) /\ batch.bytes + size \in Nat
    BY <1>2, <1>4, <1>5, AppendProperties
  <2>3. batch' = [rows |-> Append(batch.rows, Now.ev), bytes |-> batch.bytes + size,
                  staging |-> batch.staging, permit |-> batch.permit, slot |-> batch.slot]
    BY <1>5, <2>1
  <2>4. batch.staging \in Nat /\ batch.permit \in Nat
    BY <1>5 DEF Block
  <2> QED
    BY <1>5, <2>2, <2>3, <2>4 DEF Block, Charge
<1>7. Len(batch'.rows) = Len(batch.rows) + 1 /\ batch'.rows # <<>> /\ Len(batch.rows) \in Nat
  BY <1>2, <1>5, <1>6, AppendProperties, LenProperties
<1>8. todo' \in Seq(Later) /\ (Full(batch') => At_("flush")')
  <2>1. CASE Full(batch')
    <3>1. todo' = <<Flush>> \o Tail(todo)
      BY <1>1, <2>1
    <3> QED
      BY <1>2, <1>3, <3>1, FlushFirst
  <2>2. CASE ~Full(batch')
    <3>1. todo' = Tail(todo)
      BY <1>1, <1>2, <2>2, ConcatEmptySeq
    <3> QED
      BY <1>2, <2>2, <3>1
  <2> QED
    BY <2>1, <2>2
<1>9. TodoInv' /\ Held' = 0 /\ ~At_("charge")' /\ ~At_("add")' /\ todo' \in Seq(Op)
  BY <1>3, <1>8, RestKeeps
<1>10. BatchInv'
  <2> SUFFICES Staged' \/ Outsized'
    BY <1>9 DEF BatchInv
  <2>1. Eventful' <=> Eventful
    BY <1>3 DEF Same, Eventful
  <2>2. CASE Now.op = "add"
    <3>1. Acquired /\ Eventful /\ At_("add")
      BY <1>2, <1>4, <2>2 DEF StreamInv, BatchInv, At_
    <3>2. /\ batch.rows = <<>> /\ batch.bytes = 0 /\ batch.permit = 0 /\ batch.slot = 1
          /\ \/ batch.staging = 0 /\ size > BatchBytes
             \/ batch.staging = BatchBytes /\ size <= BatchBytes
      BY <2>2, <3>1 DEF Acquired, At_, size
    <3>3. Len(batch'.rows) = 1 /\ batch'.bytes = size
      BY <1>4, <1>6, <1>7, <3>2
    <3>4. Rows(batch)'
      BY <1>6, <1>7, <2>1, <3>2, <3>3, StreamAssumption DEF Rows
    <3>5. CASE batch.staging = 0 /\ size > BatchBytes
      <4>1. Full(batch')
        BY <1>4, <3>3, <3>5, StreamAssumption DEF Full
      <4> QED
        BY <1>6, <1>8, <2>1, <3>1, <3>2, <3>3, <3>4, <3>5, <4>1 DEF Outsized
    <3>6. CASE batch.staging = BatchBytes /\ size <= BatchBytes
      BY <1>6, <2>1, <3>1, <3>2, <3>3, <3>4, <3>6 DEF Staged
    <3> QED
      BY <3>2, <3>5, <3>6
  <2>3. CASE Now.op = "push"
    <3>1. HasRoom(Now.ev)
      BY <1>1, <2>3, AtFacts
    <3>2. batch = NoBlock \/ Staged
      BY <1>2, <2>3 DEF StreamInv, BatchInv, At_, Outsized
    <3>3. CASE Eventful
      <4>1. Staged /\ batch.rows # <<>>
        BY <3>1, <3>2, <3>3 DEF HasRoom, Staged, Rows
      <4>2. Len(batch.rows) < BatchRows /\ batch.bytes + size <= BatchBytes
        <5>1. ~(Len(batch.rows) >= BatchRows) /\ ~(batch.bytes + size > BatchBytes)
          BY <3>1, <4>1 DEF HasRoom, Overflows, size
        <5> QED
          BY <1>4, <1>5, <1>7, <5>1, StreamAssumption
      <4>3. Len(batch'.rows) <= BatchRows /\ batch'.bytes <= BatchBytes
        BY <1>6, <1>7, <4>2, StreamAssumption
      <4> QED
        BY <1>6, <1>7, <2>1, <3>3, <4>1, <4>3 DEF Staged, Rows
    <3>4. CASE ~Eventful
      <4>1. batch.permit = 0 /\ batch.slot = 0 /\ batch.staging = 0
        BY <3>2, <3>4 DEF Staged, NoBlock
      <4> QED
        BY <1>6, <1>7, <2>1, <3>4, <4>1 DEF Staged, Rows
    <3> QED
      BY <3>3, <3>4
  <2> QED
    BY <1>2, <2>2, <2>3
<1>11. QueueInv' /\ SlotInv'
  BY <1>1, <1>3, <1>6, QueueSame, SlotsSame DEF StreamInv
<1>12. BudgetConserved'
  <2>1. UNCHANGED <<budget, queue, pending>>
    BY <1>1, <1>3
  <2> QED
    BY <1>4, <1>6, <1>9, <2>1, BalanceMoves DEF StreamInv
<1> QED
  BY <1>1, <1>6, <1>9, <1>10, <1>11, <1>12, StateFacts, AwaitKeeps DEF StreamInv, Resources, poolVars

LEMMA FlushNothingKeeps ==
  ASSUME StreamInv, FlushNothing
  PROVE  StreamInv'
<1>1. /\ At("flush") /\ batch = NoBlock /\ todo' = Tail(todo)
      /\ UNCHANGED Aside /\ UNCHANGED <<batch, queue, budget, poolVars>>
  BY DEF FlushNothing, Aside
<1>2. todo # <<>> /\ Now.op = "flush" /\ Held = Now.permit /\ Now \in Current
  BY <1>1, AtFacts
<1>3. Same /\ UNCHANGED <<pending>>
  BY <1>1 DEF Same, Aside, backendVars, callerVars
<1>4. Held = 0
  BY <1>2 DEF Current
<1>5. TodoInv' /\ Held' = 0 /\ ~At_("charge")' /\ ~At_("add")' /\ todo' \in Seq(Op)
  BY <1>1, <1>2, <1>3, DoneKeeps
<1>6. BatchInv'
  BY <1>1, <1>3, <1>5, StagedKeeps
<1>7. QueueInv' /\ SlotInv'
  BY <1>1, <1>3, QueueSame, SlotsSame DEF StreamInv
<1>8. BudgetConserved'
  BY <1>1, <1>3, <1>4, <1>5, BalanceMoves DEF StreamInv
<1> QED
  BY <1>1, <1>5, <1>6, <1>7, <1>8, StateFacts, AwaitKeeps DEF StreamInv, Resources, poolVars

LEMMA FlushBudgetKeeps ==
  ASSUME StreamInv, FlushBudget
  PROVE  StreamInv'
<1> DEFINE need == FlushBytes(batch)
<1>1. /\ At("flush") /\ batch # NoBlock /\ batch.permit = 0 /\ budget >= need
      /\ budget' = budget - need + batch.staging
      /\ batch' = [batch EXCEPT !.permit = need, !.staging = 0]
      /\ UNCHANGED Aside /\ UNCHANGED <<todo, queue, poolVars>>
  BY DEF FlushBudget, Aside
<1>2. todo # <<>> /\ Now.op = "flush" /\ Held = Now.permit /\ Now \in Current
  BY <1>1, AtFacts
<1>3. Same /\ UNCHANGED <<pending>>
  BY <1>1 DEF Same, Aside, backendVars, callerVars
<1>4. /\ batch \in Block /\ batch.rows \in Seq(Event) /\ batch.bytes \in Nat /\ batch.staging \in Nat
      /\ batch = [rows |-> batch.rows, bytes |-> batch.bytes, staging |-> batch.staging,
                  permit |-> batch.permit, slot |-> batch.slot]
  BY StateFacts DEF StreamInv, Block
<1>5. need \in Nat /\ need > 0 /\ (Eventful => batch.bytes <= need \/ need = StreamBytes)
  <2>1. Len(batch.rows) \in Nat
    BY <1>4, LenProperties
  <2>2. CASE Eventful
    <3>1. need = Clamp(batch.bytes)
      BY <1>4, <2>2 DEF FlushBytes
    <3> QED
      BY <1>4, <3>1, ClampFacts
  <2>3. CASE ~Eventful
    <3>1. need = Clamp(batch.bytes + Len(batch.rows)) /\ batch.bytes + Len(batch.rows) \in Nat
      BY <1>4, <2>1, <2>3 DEF FlushBytes
    <3> HIDE DEF need
    <3> QED
      BY <2>3, <3>1, ClampFacts
  <2> QED
    BY <2>2, <2>3
<1> HIDE DEF need
<1>6. /\ batch' \in Block /\ batch'.rows = batch.rows /\ batch'.bytes = batch.bytes
      /\ batch'.slot = batch.slot /\ batch'.permit = need /\ batch'.staging = 0
      /\ Charge(batch) = batch.staging /\ Charge(batch') = need
  <2>1. batch' = [batch EXCEPT !.permit = need, !.staging = 0] /\ batch.permit = 0
    BY <1>1
  <2>2. batch' = [rows |-> batch.rows, bytes |-> batch.bytes, staging |-> 0,
                  permit |-> need, slot |-> batch.slot]
    BY <1>4, <2>1
  <2>3. batch.slot \in {0, 1}
    BY <1>4 DEF Block
  <2> QED
    BY <1>4, <1>5, <2>1, <2>2, <2>3 DEF Block, Charge
<1>7. Staged \/ Outsized
  BY <1>1, <1>2 DEF StreamInv, BatchInv, At_, Paid
<1>8. TodoInv' /\ Held' = Held /\ Held = 0 /\ todo' \in Seq(Op)
  <2>1. Later' = Later /\ Current' = Current
    BY <1>3, SameSets
  <2> QED
    BY <1>1, <1>2, <2>1 DEF StreamInv, TodoInv, TypeOK, Held, Now, Current
<1>9. BatchInv'
  <2>1. Paid(batch)'
    BY <1>3, <1>5, <1>6, <1>7 DEF Paid, Rows, Staged, Outsized, Same, Eventful
  <2>2. At_("flush")' /\ ~At_("charge")' /\ ~At_("add")'
    BY <1>1, <1>2 DEF At_, Now
  <2> QED
    BY <2>1, <2>2 DEF BatchInv
<1>10. QueueInv' /\ SlotInv'
  BY <1>1, <1>3, <1>6, QueueSame, SlotsSame DEF StreamInv
<1>11. BudgetConserved' /\ budget' \in Nat
  <2>1. budget \in Nat /\ SumCharge(queue) \in Nat /\ Charge(pending) \in Nat
    BY StateHolds
  <2>2. budget' + SumCharge(queue') + Charge(pending') + Charge(batch') + Held'
          = budget + SumCharge(queue) + Charge(pending) + Charge(batch) + Held
    BY <1>1, <1>3, <1>4, <1>5, <1>6, <1>8, <2>1
  <2> QED
    BY <1>1, <1>4, <1>5, <1>8, <2>1, <2>2, BalanceMoves DEF StreamInv
<1> QED
  BY <1>1, <1>6, <1>8, <1>9, <1>10, <1>11, StateFacts, AwaitKeeps DEF StreamInv, Resources, poolVars

LEMMA FlushChannelKeeps ==
  ASSUME StreamInv, FlushChannel
  PROVE  StreamInv'
<1> DEFINE item == [rows |-> TRUE, ev |-> Now.ev, permit |-> 0, block |-> batch]
<1>1. /\ At("flush") /\ batch.permit > 0 /\ queue' = Append(queue, item) /\ batch' = NoBlock
      /\ todo' = Tail(todo) /\ UNCHANGED Aside /\ UNCHANGED <<budget, poolVars>>
  BY DEF FlushChannel, Aside
<1>2. /\ todo # <<>> /\ Now.op = "flush" /\ Now \in Current /\ Held = Now.permit /\ Now.ev \in Event
  BY <1>1, AtFacts
<1>3. Same /\ UNCHANGED <<pending>>
  BY <1>1 DEF Same, Aside, backendVars, callerVars
<1>4. TodoInv' /\ Held' = 0 /\ Held = 0 /\ ~At_("charge")' /\ ~At_("add")' /\ todo' \in Seq(Op)
  <2>1. Held = 0
    BY <1>2 DEF Current
  <2> QED
    BY <1>1, <1>2, <1>3, <2>1, DoneKeeps
<1>5. BatchInv' /\ batch' \in Block /\ Charge(batch') = 0 /\ batch'.slot = 0
  BY <1>1, <1>4, NoBlockFacts DEF BatchInv
<1>6. Paid(batch) /\ batch \in Block
  <2>1. batch.permit # 0 /\ batch \in Block
    BY <1>1, StateFacts DEF StreamInv, Block
  <2> QED
    BY <1>1, <1>2, <2>1 DEF StreamInv, BatchInv, At_, Staged, Outsized, NoBlock
<1>7. item \in Sound /\ item \in Item /\ ItemCharge(item) = Charge(batch) /\ item.block = batch
  <2>1. item \in Item
    BY <1>2, <1>6 DEF Item
  <2>2. item.rows /\ item.permit = 0 /\ item.block = batch
    OBVIOUS
  <2> HIDE DEF item
  <2> QED
    BY <1>6, <2>1, <2>2, BlockFacts DEF Sound, ItemCharge
<1> HIDE DEF item
<1>8. queue' \in Seq(Item) /\ QueueInv'
  <2>1. Sound' = Sound
    BY <1>3, SameSets
  <2>2. queue' \in Seq(Sound)
    BY <1>1, <1>7, AppendProperties DEF StreamInv, QueueInv
  <2>3. queue' \in Seq(Item)
    BY <2>2, Subsets, SeqMonotonic
  <2> QED
    BY <1>3, <2>1, <2>2, <2>3 DEF StreamInv, QueueInv, Paid, Rows, Eventful, Same
<1>9. /\ SumCharge(queue') = SumCharge(queue) + Charge(batch)
      /\ SumSlots(queue') = SumSlots(queue) + batch.slot
  BY <1>1, <1>7, SumAppend, StateFacts DEF StreamInv
<1>10. SlotInv'
  <2>1. Used' = 0 + pending.slot + SumSlots(queue')
    BY <1>3, <1>5 DEF Used
  <2>2. /\ batch.slot \in Nat /\ pending.slot \in Nat /\ SumSlots(queue) \in Nat
    BY StateHolds
  <2>3. Used' = Used
    BY <1>9, <2>1, <2>2 DEF Used
  <2> QED
    BY <1>1, <2>3 DEF StreamInv, SlotInv, poolVars
<1>11. BudgetConserved'
  <2>1. budget \in Nat /\ SumCharge(queue) \in Nat /\ Charge(pending) \in Nat /\ Charge(batch) \in Nat
    BY StateHolds
  <2>2. budget' = budget /\ Charge(pending') = Charge(pending)
    BY <1>1, <1>3
  <2>3. budget' + SumCharge(queue') + Charge(pending') + Charge(batch') + Held'
          = budget + SumCharge(queue) + Charge(pending) + Charge(batch) + Held
    BY <1>4, <1>5, <1>9, <2>1, <2>2
  <2> QED
    BY <1>4, <2>3, BalanceMoves DEF StreamInv
<1> QED
  BY <1>1, <1>4, <1>5, <1>8, <1>10, <1>11, StateFacts, AwaitKeeps DEF StreamInv, Resources, poolVars

LEMMA FlushFailsKeeps ==
  ASSUME StreamInv, FlushFails
  PROVE  StreamInv'
<1> DEFINE rest == Tail(todo)
<1>1. /\ At("flush") /\ batch' = NoBlock /\ Recycle(batch.slot) /\ budget' = budget + Charge(batch)
      /\ todo' = IF rest # <<>> /\ Head(rest).op = "push" THEN Tail(rest) ELSE rest
      /\ UNCHANGED Aside /\ UNCHANGED <<queue>>
  BY DEF FlushFails, Aside
<1>2. /\ todo # <<>> /\ Now.op = "flush" /\ Now \in Current /\ Held = Now.permit
      /\ rest \in Seq(Later)
  BY <1>1, AtFacts
<1>3. Same /\ UNCHANGED <<pending>>
  BY <1>1 DEF Same, Aside, backendVars, callerVars
<1>4. todo' \in Seq(Later) /\ Held = 0
  <2>1. rest # <<>> => Tail(rest) \in Seq(Later)
    BY <1>2, HeadTailProperties
  <2> QED
    BY <1>1, <1>2, <2>1 DEF Current
<1>5. TodoInv' /\ Held' = 0 /\ ~At_("charge")' /\ ~At_("add")' /\ todo' \in Seq(Op)
  BY <1>3, <1>4, RestKeeps
<1>6. BatchInv' /\ batch' \in Block /\ Charge(batch') = 0
  BY <1>1, <1>5, NoBlockFacts DEF BatchInv
<1>7. QueueInv'
  BY <1>1, <1>3, QueueSame DEF StreamInv
<1>8. SlotInv' /\ free' \in Nat /\ slots' \in Nat /\ releasing' \in Nat
  BY <1>1, <1>3, RecycleKeeps
<1>9. BudgetConserved' /\ budget' \in Nat
  <2>1. budget \in Nat /\ SumCharge(queue) \in Nat /\ Charge(pending) \in Nat /\ Charge(batch) \in Nat
    BY StateHolds
  <2>2. budget' = budget + Charge(batch) /\ queue' = queue /\ Charge(pending') = Charge(pending)
    BY <1>1, <1>3
  <2>3. budget' + SumCharge(queue') + Charge(pending') + Charge(batch') + Held'
          = budget + SumCharge(queue) + Charge(pending) + Charge(batch) + Held
    BY <1>4, <1>5, <1>6, <2>1, <2>2
  <2> QED
    BY <1>4, <2>1, <2>2, <2>3, BalanceMoves DEF StreamInv
<1> QED
  BY <1>1, <1>5, <1>6, <1>7, <1>8, <1>9, StateFacts, AwaitKeeps DEF StreamInv, Resources

-----------------------------------------------------------------------------
(* drive_operation, the backend and the caller *)

LEMMA ParserSame ==
  ASSUME Same, TodoInv, BatchInv, UNCHANGED <<todo, batch>>
  PROVE  TodoInv' /\ BatchInv' /\ Held' = Held
<1>1. Later' = Later /\ Current' = Current
  BY SameSets
<1>2. TodoInv' /\ Held' = Held
  BY <1>1 DEF TodoInv, Held, Now
<1>3. BatchInv'
  <2>1. /\ At_("charge")' <=> At_("charge")
        /\ At_("add")' <=> At_("add")
        /\ At_("flush")' <=> At_("flush")
        /\ Eventful' <=> Eventful
        /\ (RowBytes(Now.ev))' = RowBytes(Now.ev)
    BY DEF Same, At_, Now, Eventful, RowBytes
  <2> QED
    BY <2>1 DEF BatchInv, Acquired, Staged, Outsized, Paid, Rows
<1> QED
  BY <1>2, <1>3

LEMMA QuietKeeps ==
  ASSUME StreamInv, Same, TypeOK', UNCHANGED <<todo, batch, history, queue, budget, poolVars, pending>>
  PROVE  StreamInv'
<1>1. TodoInv' /\ BatchInv' /\ Held' = Held
  BY ParserSame DEF StreamInv
<1>2. QueueInv' /\ SlotInv'
  BY QueueSame, SlotsSame DEF StreamInv
<1>3. BudgetConserved'
  BY <1>1, BudgetBalance DEF StreamInv
<1>4. HistoryInv'
  BY HistorySame DEF StreamInv, Same
<1> QED
  BY <1>1, <1>2, <1>3, <1>4 DEF StreamInv

LEMMA EndKeeps ==
  ASSUME StreamInv, NEW how \in Outcomes \cup {"none"}, End(how)
  PROVE  StreamInv'
<1>1. /\ drive' = "done" /\ terminal' = how /\ todo' = <<>> /\ batch' = NoBlock
      /\ budget' = budget + Charge(batch) + Held /\ Recycle(batch.slot)
      /\ UNCHANGED <<mode, backendVars, cause, cancelled, closing, read, parse, result, history, queue,
                     callerVars>>
  BY DEF End, Held
<1>2. Same /\ UNCHANGED <<pending, history>> /\ todo' \in Seq(Later)
  BY <1>1 DEF Same, backendVars, callerVars
<1>3. TodoInv' /\ Held' = 0 /\ ~At_("charge")' /\ ~At_("add")' /\ todo' \in Seq(Op)
  BY <1>2, RestKeeps
<1>4. BatchInv' /\ batch' \in Block /\ Charge(batch') = 0
  BY <1>1, <1>3, NoBlockFacts DEF BatchInv
<1>5. QueueInv'
  BY <1>1, <1>2, QueueSame DEF StreamInv
<1>6. SlotInv' /\ free' \in Nat /\ slots' \in Nat /\ releasing' \in Nat
  BY <1>1, <1>2, RecycleKeeps
<1>7. BudgetConserved' /\ budget' \in Nat
  <2>1. /\ budget \in Nat /\ SumCharge(queue) \in Nat /\ Charge(pending) \in Nat
        /\ Charge(batch) \in Nat /\ Held \in Nat
    BY StateFacts, HeldFacts DEF StreamInv
  <2>2. budget' = budget + Charge(batch) + Held /\ queue' = queue /\ Charge(pending') = Charge(pending)
    BY <1>1, <1>2
  <2>3. budget' + SumCharge(queue') + Charge(pending') + Charge(batch') + Held'
          = budget + SumCharge(queue) + Charge(pending) + Charge(batch) + Held
    BY <1>3, <1>4, <2>1, <2>2
  <2> QED
    BY <2>1, <2>2, <2>3, BalanceMoves DEF StreamInv
<1>8. HistoryInv'
  BY <1>2, HistorySame DEF StreamInv, Same
<1>9. TypeOK'
  BY <1>1, <1>3, <1>4, <1>6, <1>7 DEF StreamInv, TypeOK, backendVars, callerVars
<1> QED
  BY <1>3, <1>4, <1>5, <1>6, <1>7, <1>8, <1>9 DEF StreamInv

LEMMA DriveKeeps ==
  ASSUME StreamInv, Drive \/ Deadline \/ CleanupTimeout \/ DropDriver \/ Cancel \/ Close
  PROVE  StreamInv'
<1>1. /\ cause \in Outcomes \cup {"none"} /\ result \in Outcomes \cup {"none"}
      /\ "closed" \in Outcomes
  BY DEF StreamInv, TypeOK, Outcomes, Results
<1>2. ASSUME Start \/ SendCancel \/ Cancel \/ Close \/ (\E why \in {"timeout", "cancelled"} : GiveUp(why))
      PROVE  StreamInv'
  <2>1. /\ UNCHANGED <<mode, response, terminal, parserVars, queue, budget, poolVars, callerVars>>
        /\ drive' \in {"queued", "run", "cancel", "cleanup", "done"}
        /\ cause' \in {"none", "cancelled", "timeout"}
        /\ cancelled' \in BOOLEAN /\ closing' \in BOOLEAN /\ packet' \in BOOLEAN
    BY <1>2 DEF Start, SendCancel, Cancel, Close, GiveUp, StreamInv, TypeOK, backendVars
  <2>2. TypeOK'
    BY <2>1 DEF StreamInv, TypeOK, parserVars, poolVars, callerVars
  <2> QED
    BY <2>1, <2>2, QuietKeeps DEF Same, parserVars, callerVars
<1>3. ASSUME SkipRequest \/ DropDriver PROVE StreamInv'
  BY <1>1, <1>3, EndKeeps DEF SkipRequest, DropDriver
<1>4. ASSUME Return \/ CleanupTimeout PROVE StreamInv'
  BY <1>1, <1>4, EndKeeps DEF Return, CleanupTimeout
<1> QED
  BY <1>2, <1>3, <1>4 DEF Drive, Deadline, NoticeInterrupt, NoticeClosed

LEMMA ReleaseKeeps ==
  ASSUME StreamInv, ReleaseSlot
  PROVE  StreamInv'
<1>1. /\ releasing > 0 /\ releasing' = releasing - 1 /\ slots' = slots + 1 /\ free' = free
      /\ UNCHANGED <<mode, backendVars, driveVars, parserVars, queue, budget, callerVars>>
  BY DEF ReleaseSlot
<1>2. Same /\ UNCHANGED <<todo, batch, pending, history>>
  BY <1>1 DEF Same, backendVars, parserVars, callerVars
<1>3. TodoInv' /\ BatchInv' /\ Held' = Held
  BY <1>2, ParserSame DEF StreamInv
<1>4. QueueInv'
  BY <1>1, <1>2, QueueSame DEF StreamInv
<1>5. slots \in Nat /\ releasing \in Nat /\ free \in Nat
  BY StateHolds
<1>6. SlotInv' /\ slots' \in Nat /\ releasing' \in Nat
  <2>1. Used' = Used
    BY <1>1, <1>2 DEF Used
  <2>2. free + Used = PoolSize /\ slots + releasing + Used = PoolSize
    BY DEF StreamInv, SlotInv
  <2>3. slots' + releasing' = slots + releasing
    BY <1>1, <1>5
  <2> QED
    BY <1>1, <1>5, <2>1, <2>2, <2>3 DEF SlotInv
<1>7. BudgetConserved'
  BY <1>1, <1>2, <1>3, BudgetBalance DEF StreamInv
<1>8. HistoryInv'
  BY <1>2, HistorySame DEF StreamInv, Same
<1>9. TypeOK'
  BY <1>1, <1>5, <1>6 DEF StreamInv, TypeOK, backendVars, driveVars, parserVars, callerVars
<1> QED
  BY <1>3, <1>4, <1>6, <1>7, <1>8, <1>9 DEF StreamInv

\* What was sent stays, so what the parser knows stays known.
LEMMA RespondKeeps ==
  ASSUME StreamInv, NEW frames \in Seq([kind : Kinds, size : Nat]), Respond(frames), packet' \in BOOLEAN
  PROVE  StreamInv'
<1>1. /\ response' = response \o frames
      /\ UNCHANGED <<mode, driveVars, parserVars, queue, budget, poolVars, callerVars>>
  BY DEF Respond
<1>2. UNCHANGED <<todo, batch, pending, history, read>>
  BY <1>1 DEF parserVars, callerVars
<1>3. /\ response \in Seq([kind : Kinds, size : Nat]) /\ response' \in Seq([kind : Kinds, size : Nat])
      /\ Len(response) \in Nat /\ Len(response') \in Nat /\ Len(response') >= Len(response)
      /\ \A p \in 1..Len(response) : response'[p] = response[p]
  <2>1. response \in Seq([kind : Kinds, size : Nat])
    BY DEF StreamInv, TypeOK
  <2>2. Len(response) \in Nat /\ Len(frames) \in Nat
    BY <2>1, LenProperties
  <2>3. /\ response' \in Seq([kind : Kinds, size : Nat])
        /\ Len(response') = Len(response) + Len(frames)
        /\ \A p \in 1..(Len(response) + Len(frames)) :
             response'[p] = IF p <= Len(response) THEN response[p] ELSE frames[p - Len(response)]
    BY <1>1, <2>1, ConcatProperties
  <2> QED
    BY <2>1, <2>2, <2>3
<1>4. 1..Len(response) \subseteq 1..Len(response')
  BY <1>3
<1>5. Later \subseteq Later' /\ Current \subseteq Current'
  BY <1>1, <1>4 DEF Later, Current, Known, Eventful
<1>6. TodoInv' /\ Held' = Held
  <2>1. Tail(todo) \in Seq(Later) => Tail(todo) \in Seq(Later')
    BY <1>5, SeqMonotonic
  <2> QED
    BY <1>2, <1>5, <2>1 DEF StreamInv, TodoInv, Held, Now
<1>7. BatchInv'
  <2>1. /\ At_("charge")' <=> At_("charge")
        /\ At_("add")' <=> At_("add")
        /\ At_("flush")' <=> At_("flush")
        /\ Eventful' <=> Eventful
    BY <1>1, <1>2 DEF At_, Now, Eventful
  <2>2. ASSUME At_("charge") \/ At_("add") PROVE (RowBytes(Now.ev))' = RowBytes(Now.ev)
    <3>1. Now.ev.n \in 1..Len(response)
      BY <2>2 DEF StreamInv, TodoInv, Current, Known, At_, Now
    <3>2. response'[Now.ev.n] = response[Now.ev.n] /\ Now' = Now
      BY <1>2, <1>3, <3>1 DEF Now
    <3> QED
      BY <2>1, <3>2 DEF RowBytes, Clamp
  <2>3. CASE At_("charge") \/ At_("add")
    BY <1>2, <2>1, <2>2, <2>3 DEF StreamInv, BatchInv, Acquired
  <2>4. CASE ~(At_("charge") \/ At_("add"))
    BY <1>2, <2>1, <2>4 DEF StreamInv, BatchInv, Staged, Outsized, Paid, Rows
  <2> QED
    BY <2>3, <2>4
<1>8. QueueInv'
  <2>1. Sound' = Sound
    BY <1>1 DEF Sound, Eventful, Paid, Rows
  <2> QED
    BY <1>1, <1>2, <2>1 DEF StreamInv, QueueInv, Eventful, Paid, Rows
<1>9. SlotInv'
  BY <1>1, <1>2, SlotsSame DEF StreamInv
<1>10. BudgetConserved'
  BY <1>1, <1>2, <1>6, BudgetBalance DEF StreamInv
<1>11. HistoryInv'
  <2> DEFINE items == history.items
  <2>1. items \in Seq(1..Len(response)) /\ history.bytes = NoticeBytes(items)
    BY DEF StreamInv, HistoryInv
  <2>2. items \in Seq(1..Len(response'))
    BY <1>4, <2>1, SeqMonotonic
  <2>3. ASSUME NEW i \in DOMAIN items PROVE response'[items[i]] = response[items[i]]
    <3>1. items[i] \in 1..Len(response)
      BY <2>1, ElementOfSeq, LenProperties
    <3> QED
      BY <1>3, <3>1
  <2>4. [i \in DOMAIN items |-> response'[items[i]].size] = [i \in DOMAIN items |-> response[items[i]].size]
    BY <2>3
  <2>5. history.bytes = Total([i \in DOMAIN items |-> response'[items[i]].size])
    BY <2>1, <2>4 DEF NoticeBytes
  <2>6. NoticeBytes(history.items)' = Total([i \in DOMAIN items |-> response'[items[i]].size])
    BY <1>2 DEF NoticeBytes, Total
  <2> QED
    BY <1>2, <2>2, <2>5, <2>6 DEF HistoryInv
<1>12. TypeOK'
  <2>1. read' \in 0..Len(response')
    BY <1>2, <1>3 DEF StreamInv, TypeOK
  <2> QED
    BY <1>1, <1>3, <2>1 DEF StreamInv, TypeOK, driveVars, parserVars, poolVars, callerVars
<1> QED
  BY <1>6, <1>7, <1>8, <1>9, <1>10, <1>11, <1>12 DEF StreamInv

LEMMA BackendKeeps ==
  ASSUME StreamInv, Backend
  PROVE  StreamInv'
<1>1. packet \in BOOLEAN
  BY DEF StreamInv, TypeOK
<1>2. Ready \in [kind : Kinds, size : Nat] /\ Error \in [kind : Kinds, size : Nat]
  BY DEF Ready, Error, Kinds
<1>3. ASSUME SendFrame PROVE StreamInv'
  <2>1. PICK f \in Frames : Respond(<<f>>) /\ UNCHANGED packet
    BY <1>3 DEF SendFrame
  <2>2. f \in [kind : Kinds, size : Nat]
    BY StreamAssumption
  <2>3. <<f>> \in Seq([kind : Kinds, size : Nat])
    BY <2>2
  <2> QED
    BY <1>1, <2>1, <2>3, RespondKeeps
<1>4. ASSUME SendReady PROVE StreamInv'
  <2>1. <<Ready>> \in Seq([kind : Kinds, size : Nat])
    BY <1>2
  <2> QED
    BY <1>1, <1>4, <2>1, RespondKeeps DEF SendReady
<1>5. ASSUME StopStatement PROVE StreamInv'
  <2>1. <<Error, Ready>> \in Seq([kind : Kinds, size : Nat])
    BY <1>2
  <2> QED
    BY <1>5, <2>1, RespondKeeps DEF StopStatement
<1> QED
  BY <1>3, <1>4, <1>5 DEF Backend

\* The caller takes from the channel or from its block, and the parser does not
\* notice.
LEMMA CallerKeeps ==
  ASSUME StreamInv, UNCHANGED <<mode, backendVars, driveVars, parserVars>>,
         QueueInv', SlotInv', queue' \in Seq(Item), pending' \in Block,
         budget' + SumCharge(queue') + Charge(pending') = budget + SumCharge(queue) + Charge(pending),
         budget' \in Nat, slots' \in Nat, free' \in Nat, releasing' \in Nat,
         rx' \in {"open", "closed", "dropped"}, refused' \in BOOLEAN, seen' \in Seq(Event),
         UNCHANGED ended
  PROVE  StreamInv'
<1>1. Same /\ UNCHANGED <<todo, batch, history>>
  BY DEF Same, backendVars, parserVars
<1>2. TodoInv' /\ BatchInv' /\ Held' = Held
  BY <1>1, ParserSame DEF StreamInv
<1>3. BudgetConserved'
  <2>1. Held \in Nat /\ Charge(batch) \in Nat /\ Charge(batch') = Charge(batch)
    BY <1>1, HeldFacts, StateHolds DEF StreamInv
  <2>2. budget' + SumCharge(queue') + Charge(pending') + Charge(batch') + Held'
          = budget + SumCharge(queue) + Charge(pending) + Charge(batch) + Held
    BY <1>2, <2>1
  <2> QED
    BY <2>1, <2>2, BalanceMoves DEF StreamInv
<1>4. HistoryInv'
  BY <1>1, HistorySame DEF StreamInv, Same
<1>5. TypeOK'
  BY DEF StreamInv, TypeOK, backendVars, driveVars, parserVars
<1> QED
  BY <1>2, <1>3, <1>4, <1>5 DEF StreamInv

LEMMA SlotsOf ==
  ASSUME StreamInv, UNCHANGED batch, NEW n \in Nat,
         Recycle(n), pending'.slot + SumSlots(queue') + n = pending.slot + SumSlots(queue),
         pending'.slot \in Nat, SumSlots(queue') \in Nat
  PROVE  SlotInv' /\ free' \in Nat /\ slots' \in Nat /\ releasing' \in Nat
<1>1. /\ pending.slot \in Nat /\ SumSlots(queue) \in Nat /\ slots \in Nat /\ free \in Nat
      /\ releasing \in Nat /\ batch.slot \in Nat
  BY StateHolds
<1>2. free' = free + n /\ releasing' = releasing + n /\ slots' = slots
  BY DEF Recycle
<1>3. Used' = batch.slot + pending'.slot + SumSlots(queue')
  BY DEF Used
<1>4. Used = Used' + n /\ Used' \in Nat
  BY <1>1, <1>3 DEF Used
<1>5. free + Used = PoolSize /\ slots + releasing + Used = PoolSize
  BY DEF StreamInv, SlotInv
<1>6. free' + Used' = PoolSize /\ slots' + releasing' + Used' = PoolSize
  BY <1>1, <1>2, <1>4, <1>5
<1> QED
  BY <1>1, <1>2, <1>6 DEF SlotInv

\* poll_event hands out a row of block b; q is the channel it leaves behind.
LEMMA Regroup ==
  ASSUME NEW x \in Nat, NEW a \in Nat, NEW b \in Nat, NEW c \in Nat, NEW d \in Nat, a + b = c + d
  PROVE  /\ x + a + b = x + d + c /\ x + b + a = x + d + c
         /\ x + a + b = x + c + d /\ b + a = c + d /\ x + a \in Nat
  OBVIOUS

\* The rows left in a block when its first one is handed out
LEMMA RestFacts ==
  ASSUME NEW s \in Seq(Event), s # <<>>
  PROVE  /\ Head(s) \in Event /\ Tail(s) \in Seq(Event) /\ Len(s) \in Nat
         /\ Len(Tail(s)) <= Len(s) /\ (Len(s) # 1 => Tail(s) # <<>>)
<1>1. /\ Head(s) \in Event /\ Tail(s) \in Seq(Event)
  BY HeadTailProperties
<1>5. Len(Tail(s)) = Len(s) - 1
  BY HeadTailProperties
<1>2. Len(s) \in Nat /\ Len(<<>>) = 0
  BY LenProperties, EmptySeq
<1>3. Len(Tail(s)) <= Len(s)
  BY <1>2, <1>5
<1> DEFINE n == Len(s)
<1>4. ASSUME Tail(s) = <<>> PROVE n = 1
  <2>1. n - 1 = 0 /\ n \in Nat
    BY <1>2, <1>4, <1>5
  <2> HIDE DEF n
  <2> QED
    BY <2>1
<1> QED
  BY <1>1, <1>2, <1>3, <1>4

LEMMA YieldKeeps ==
  ASSUME StreamInv, NEW b \in Block, Paid(b), Eventful, YieldRow(b), NEW q \in Seq(Sound), queue' = q,
         Charge(b) + SumCharge(q) = Charge(pending) + SumCharge(queue),
         b.slot + SumSlots(q) = pending.slot + SumSlots(queue)
  PROVE  StreamInv'
<1>1. /\ UNCHANGED <<mode, backendVars, driveVars, parserVars, rx, refused, ended>>
      /\ seen' = IF refused THEN seen ELSE Append(seen, Head(b.rows))
  BY DEF YieldRow
<1>2. Same /\ UNCHANGED batch
  BY <1>1 DEF Same, backendVars, parserVars
<1>3. /\ b.rows \in Seq(Event) /\ b.rows # <<>> /\ Len(b.rows) <= BatchRows
      /\ Charge(b) \in Nat /\ b.slot \in Nat
      /\ b = [rows |-> b.rows, bytes |-> b.bytes, staging |-> b.staging, permit |-> b.permit,
              slot |-> b.slot]
  BY BlockFacts DEF Block, Paid, Rows
<1>4. /\ Head(b.rows) \in Event /\ Tail(b.rows) \in Seq(Event) /\ Len(b.rows) \in Nat
      /\ Len(Tail(b.rows)) <= Len(b.rows) /\ (Len(b.rows) # 1 => Tail(b.rows) # <<>>)
  BY <1>3, RestFacts
<1>5. /\ seen' \in Seq(Event) /\ rx' \in {"open", "closed", "dropped"} /\ refused' \in BOOLEAN
  BY <1>1, <1>4, AppendProperties DEF StreamInv, TypeOK
<1>6. queue' \in Seq(Item) /\ queue' \in Seq(Sound')
  BY <1>2, SameSets, Subsets, SeqMonotonic
<1>a. q \in Seq(Item)
  BY <1>6
<1>b. SumCharge(q) \in Nat /\ SumSlots(q) \in Nat
  BY <1>a, SumFacts
<1>c. TypeOK
  BY DEF StreamInv
<1>7. /\ budget \in Nat /\ SumCharge(queue) \in Nat /\ Charge(pending) \in Nat
      /\ SumSlots(queue) \in Nat /\ pending.slot \in Nat /\ batch.slot \in Nat
      /\ slots \in Nat /\ free \in Nat /\ releasing \in Nat
  BY <1>c, StateFacts
<1>d. /\ budget + Charge(b) + SumCharge(q) = budget + SumCharge(queue) + Charge(pending)
      /\ budget + SumCharge(q) + Charge(b) = budget + SumCharge(queue) + Charge(pending)
      /\ budget + Charge(b) \in Nat
  <2>1. Charge(b) \in Nat /\ SumCharge(q) \in Nat
    BY <1>3, <1>b
  <2>2. Charge(b) + SumCharge(q) = Charge(pending) + SumCharge(queue)
    OBVIOUS
  <2>3. budget \in Nat /\ SumCharge(queue) \in Nat /\ Charge(pending) \in Nat
    BY <1>7
  <2> QED
    BY ONLY <2>1, <2>2, <2>3, Regroup
<1>e. /\ SumSlots(q) + b.slot = pending.slot + SumSlots(queue)
      /\ batch.slot + b.slot + SumSlots(q) = batch.slot + pending.slot + SumSlots(queue)
  <2>1. b.slot \in Nat /\ SumSlots(q) \in Nat
    BY <1>3, <1>b
  <2>2. b.slot + SumSlots(q) = pending.slot + SumSlots(queue)
    OBVIOUS
  <2>3. batch.slot \in Nat /\ SumSlots(queue) \in Nat /\ pending.slot \in Nat
    BY <1>7
  <2> DEFINE x == batch.slot
             u == b.slot
             v == SumSlots(q)
             y == pending.slot
             z == SumSlots(queue)
  <2>4. x \in Nat /\ u \in Nat /\ v \in Nat /\ y \in Nat /\ z \in Nat /\ u + v = y + z
    BY <2>1, <2>2, <2>3
  <2>5. v + u = y + z /\ x + u + v = x + y + z
    <3> HIDE DEF x, u, v, y, z
    <3> QED
      BY ONLY <2>4
  <2> QED
    BY <2>5
<1>8. CASE Len(b.rows) = 1
  <2>1. pending' = NoBlock /\ Recycle(b.slot) /\ budget' = budget + Charge(b)
    BY <1>8 DEF YieldRow
  <2>2. pending' \in Block /\ Charge(pending') = 0 /\ pending'.slot = 0
    BY <2>1, NoBlockFacts
  <2>3. QueueInv'
    BY <1>6, <2>1 DEF QueueInv
  <2>4. SlotInv' /\ free' \in Nat /\ slots' \in Nat /\ releasing' \in Nat
    <3>1. SumSlots(queue') = SumSlots(q) /\ pending'.slot = 0
      BY <2>2
    <3>2. pending'.slot \in Nat /\ SumSlots(queue') \in Nat
      BY <1>b, <3>1
    <3>3. pending'.slot + SumSlots(queue') = SumSlots(q)
      BY <1>b, <3>1
    <3>4. pending'.slot + SumSlots(queue') + b.slot = pending.slot + SumSlots(queue)
      BY <1>e, <3>3
    <3> QED
      BY <1>2, <1>3, <2>1, <3>2, <3>4, SlotsOf
  <2>5. /\ budget' + SumCharge(queue') + Charge(pending') = budget + SumCharge(queue) + Charge(pending)
        /\ budget' \in Nat
    <3>1. /\ budget' = budget + Charge(b) /\ SumCharge(queue') = SumCharge(q)
          /\ Charge(pending') = 0
      BY <2>1, <2>2
    <3>2. budget' + SumCharge(queue') = budget + SumCharge(queue) + Charge(pending)
      BY <1>d, <3>1
    <3>3. budget + SumCharge(queue) + Charge(pending) \in Nat
      BY <1>7
    <3> QED
      BY <1>d, <3>1, <3>2, <3>3
  <2> QED
    BY <1>1, <1>5, <1>6, <2>2, <2>3, <2>4, <2>5, CallerKeeps
<1>9. CASE Len(b.rows) # 1
  <2>1. pending' = [b EXCEPT !.rows = Tail(@)] /\ UNCHANGED <<poolVars, budget>>
    BY <1>9 DEF YieldRow
  <2>2. pending' = [rows |-> Tail(b.rows), bytes |-> b.bytes, staging |-> b.staging,
                    permit |-> b.permit, slot |-> b.slot]
    BY <1>3, <2>1
  <2>3. Tail(b.rows) # <<>> /\ Len(Tail(b.rows)) <= BatchRows
    <3>1. Len(b.rows) <= BatchRows /\ Len(Tail(b.rows)) \in Nat /\ BatchRows \in Nat
      BY <1>3, <1>4, LenProperties, StreamAssumption
    <3>2. Len(Tail(b.rows)) <= BatchRows
      BY <1>4, <3>1
    <3> QED
      BY <1>4, <1>9, <3>2
  <2>4. pending' \in Block /\ Charge(pending') = Charge(b) /\ pending'.slot = b.slot
    BY <1>4, <2>2 DEF Block, Charge
  <2>5. Paid(pending)' /\ Eventful'
    BY <1>2, <2>2, <2>3 DEF Paid, Rows, Eventful, Same
  <2>6. QueueInv'
    BY <1>6, <2>5 DEF QueueInv
  <2>7. SlotInv' /\ free' \in Nat /\ slots' \in Nat /\ releasing' \in Nat
    <3>1. Used = batch.slot + pending.slot + SumSlots(queue)
      BY DEF Used
    <3>2. Used' = batch.slot + b.slot + SumSlots(q)
      BY <1>2, <2>4 DEF Used
    <3>4. Used' = Used
      BY <1>e, <3>1, <3>2
    <3> QED
      BY <1>7, <2>1, <3>4 DEF StreamInv, SlotInv, poolVars
  <2>8. /\ budget' + SumCharge(queue') + Charge(pending') = budget + SumCharge(queue) + Charge(pending)
        /\ budget' \in Nat
    <3>1. /\ budget' = budget /\ SumCharge(queue') = SumCharge(q)
          /\ Charge(pending') = Charge(b)
      BY <2>1, <2>4
    <3> QED
      BY <1>7, <1>d, <3>1
  <2> QED
    BY <1>1, <1>5, <1>6, <2>4, <2>6, <2>7, <2>8, CallerKeeps
<1> QED
  BY <1>8, <1>9

\* What is at the front of the channel
LEMMA FrontFacts ==
  ASSUME StreamInv, queue # <<>>
  PROVE  /\ Head(queue) \in Sound /\ Head(queue) \in Item /\ Tail(queue) \in Seq(Sound)
         /\ Tail(queue) \in Seq(Item)
         /\ Head(queue).block \in Block /\ Head(queue).ev \in Event
         /\ SumCharge(queue) = ItemCharge(Head(queue)) + SumCharge(Tail(queue))
         /\ SumSlots(queue) = Head(queue).block.slot + SumSlots(Tail(queue))
         /\ SumCharge(Tail(queue)) \in Nat /\ SumSlots(Tail(queue)) \in Nat
         /\ ItemCharge(Head(queue)) \in Nat
<1>1. Head(queue) \in Sound /\ Tail(queue) \in Seq(Sound)
  BY HeadTailProperties DEF StreamInv, QueueInv
<1>2. Head(queue) \in Item /\ Tail(queue) \in Seq(Item)
  BY <1>1, Subsets, SeqMonotonic
<1>3. Head(queue).block \in Block /\ Head(queue).ev \in Event
  BY <1>2 DEF Item
<1> QED
  BY <1>1, <1>2, <1>3, SumTail, SumFacts, ItemFacts, StateFacts DEF StreamInv

LEMMA PollPendingKeeps ==
  ASSUME StreamInv, PollPending
  PROVE  StreamInv'
<1>1. YieldRow(pending) /\ pending # NoBlock /\ queue' = queue
  BY DEF PollPending
<1>2. Eventful /\ Paid(pending) /\ pending \in Block /\ queue \in Seq(Sound)
  BY <1>1, StateFacts DEF StreamInv, QueueInv
<1> QED
  BY <1>1, <1>2, YieldKeeps

LEMMA PollRowsKeeps ==
  ASSUME StreamInv, PollRows
  PROVE  StreamInv'
<1> DEFINE b == Head(queue).block
<1>1. Eventful /\ pending = NoBlock /\ queue # <<>> /\ Head(queue).rows /\ YieldRow(b) /\ queue' = Tail(queue)
  BY DEF PollRows
<1>2. /\ Head(queue) \in Sound /\ Tail(queue) \in Seq(Sound) /\ b \in Block
      /\ SumCharge(queue) = ItemCharge(Head(queue)) + SumCharge(Tail(queue))
      /\ SumSlots(queue) = b.slot + SumSlots(Tail(queue))
      /\ SumCharge(Tail(queue)) \in Nat /\ SumSlots(Tail(queue)) \in Nat
  BY <1>1, FrontFacts
<1>3. Paid(b) /\ Head(queue).permit = 0
  BY <1>1, <1>2 DEF Sound
<1>4. ItemCharge(Head(queue)) = Charge(b) /\ Charge(b) \in Nat /\ b.slot \in Nat
  BY <1>2, <1>3, BlockFacts DEF ItemCharge
<1>5. Charge(pending) = 0 /\ pending.slot = 0
  BY <1>1, NoBlockFacts
<1> HIDE DEF b
<1>6. /\ Charge(b) + SumCharge(Tail(queue)) = Charge(pending) + SumCharge(queue)
      /\ b.slot + SumSlots(Tail(queue)) = pending.slot + SumSlots(queue)
  BY <1>2, <1>4, <1>5
<1> QED
  BY <1>1, <1>2, <1>3, <1>6, YieldKeeps

\* An item without a slot leaves the channel, and its bytes are given back.
LEMMA TakeKeeps ==
  ASSUME StreamInv, queue # <<>>, Head(queue).block.slot = 0,
         budget' = budget + ItemCharge(Head(queue)), queue' = Tail(queue),
         UNCHANGED <<mode, backendVars, driveVars, parserVars, poolVars, pending, ended>>,
         rx' \in {"open", "closed", "dropped"}, refused' \in BOOLEAN, seen' \in Seq(Event)
  PROVE  StreamInv'
<1>1. /\ Tail(queue) \in Seq(Sound) /\ Tail(queue) \in Seq(Item)
      /\ SumCharge(queue) = ItemCharge(Head(queue)) + SumCharge(Tail(queue))
      /\ SumSlots(queue) = Head(queue).block.slot + SumSlots(Tail(queue))
      /\ SumCharge(Tail(queue)) \in Nat /\ SumSlots(Tail(queue)) \in Nat
      /\ ItemCharge(Head(queue)) \in Nat
  BY FrontFacts
<1>2. Same /\ UNCHANGED batch
  BY DEF Same, backendVars, parserVars
<1>3. QueueInv'
  <2>1. Sound' = Sound
    BY <1>2, SameSets
  <2> QED
    BY <1>1, <1>2, <2>1 DEF StreamInv, QueueInv, Paid, Rows, Eventful, Same
<1>4. SlotInv'
  <2>1. Used' = batch.slot + pending.slot + SumSlots(Tail(queue))
    BY <1>2 DEF Used
  <2>2. SumSlots(Tail(queue)) = SumSlots(queue)
    BY <1>1
  <2>3. Used' = Used
    BY <2>1, <2>2 DEF Used
  <2> QED
    BY <2>3 DEF StreamInv, SlotInv, poolVars
<1>5. /\ budget \in Nat /\ Charge(pending) \in Nat /\ slots \in Nat /\ free \in Nat
      /\ releasing \in Nat /\ pending \in Block
  BY StateHolds
<1>6. /\ budget' + SumCharge(queue') + Charge(pending') = budget + SumCharge(queue) + Charge(pending)
      /\ budget' \in Nat
  <2>1. SumCharge(queue') = SumCharge(Tail(queue)) /\ Charge(pending') = Charge(pending)
    OBVIOUS
  <2> QED
    BY <1>1, <1>5, <2>1
<1> QED
  BY <1>1, <1>3, <1>4, <1>5, <1>6, CallerKeeps DEF poolVars

LEMMA PollsKeep ==
  ASSUME StreamInv, Poll
  PROVE  StreamInv'
<1>1. /\ rx \in {"open", "closed", "dropped"} /\ refused \in BOOLEAN /\ seen \in Seq(Event)
  BY DEF StreamInv, TypeOK
<1>2. ASSUME PollBatch PROVE StreamInv'
  <2>1. /\ ~Eventful /\ queue # <<>> /\ seen' = seen \o Head(queue).block.rows
        /\ budget' = budget + ItemCharge(Head(queue)) /\ queue' = Tail(queue)
        /\ UNCHANGED <<mode, backendVars, driveVars, parserVars, poolVars, rx, pending, refused, ended>>
    BY <1>2 DEF PollBatch
  <2>2. Head(queue).block.slot = 0 /\ Head(queue).block.rows \in Seq(Event)
    BY <2>1, FrontFacts DEF Sound, Paid, Block
  <2>3. seen' \in Seq(Event)
    BY <1>1, <2>1, <2>2, ConcatProperties
  <2> QED
    BY <1>1, <2>1, <2>2, <2>3, TakeKeeps
<1>3. ASSUME PollEvent PROVE StreamInv'
  <2> DEFINE ev == Head(queue).ev
             second == mode = "rows" /\ ev.k = "start" /\ ev.i > 0 /\ ~refused
  <2>1. /\ queue # <<>> /\ ~Head(queue).rows
        /\ seen' = IF mode = "events" THEN Append(seen, ev) ELSE seen
        /\ refused' = (refused \/ second)
        /\ rx' = IF second THEN "closed" ELSE rx
        /\ budget' = budget + ItemCharge(Head(queue)) /\ queue' = Tail(queue)
        /\ UNCHANGED <<mode, backendVars, driveVars, parserVars, poolVars, pending, ended>>
    BY <1>3 DEF PollEvent
  <2>2. Head(queue).block.slot = 0 /\ ev \in Event
    BY <2>1, FrontFacts, NoBlockFacts DEF Sound
  <2>3. seen' \in Seq(Event)
    BY <1>1, <2>1, <2>2, AppendProperties
  <2>4. refused' \in BOOLEAN
    BY <2>1
  <2>5. rx' \in {"open", "closed", "dropped"}
    BY <1>1, <2>1
  <2> QED
    BY <2>1, <2>2, <2>3, <2>4, <2>5, TakeKeeps
<1>4. ASSUME PollTerminal PROVE StreamInv'
  <2>1. /\ ended' \in {"no", "clean"} \cup Outcomes
        /\ UNCHANGED <<mode, backendVars, driveVars, parserVars, queue, budget, poolVars, rx,
                       pending, refused, seen>>
    BY <1>4 DEF PollTerminal, StreamInv, TypeOK
  <2>2. TypeOK'
    BY <2>1 DEF StreamInv, TypeOK, backendVars, driveVars, parserVars, poolVars
  <2> QED
    BY <2>1, <2>2, QuietKeeps DEF Same, backendVars, parserVars
<1> QED
  BY <1>2, <1>3, <1>4, PollPendingKeeps, PollRowsKeeps DEF Poll

LEMMA DropKeeps ==
  ASSUME StreamInv, DropStream
  PROVE  StreamInv'
<1> DEFINE n == SumSlots(queue) + pending.slot
<1>1. /\ rx' = "dropped" /\ queue' = <<>> /\ pending' = NoBlock
      /\ budget' = budget + SumCharge(queue) + Charge(pending) /\ Recycle(n)
      /\ UNCHANGED <<mode, backendVars, driveVars, parserVars, refused, seen, ended>>
  BY DEF DropStream
<1>2. /\ budget \in Nat /\ SumCharge(queue) \in Nat /\ Charge(pending) \in Nat
      /\ SumSlots(queue) \in Nat /\ pending.slot \in Nat
  BY StateHolds
<1>3. /\ pending' \in Block /\ Charge(pending') = 0 /\ pending'.slot = 0
      /\ SumCharge(queue') = 0 /\ SumSlots(queue') = 0
  BY <1>1, NoBlockFacts, SumEmpty
<1>4. QueueInv' /\ queue' \in Seq(Item)
  BY <1>1 DEF QueueInv
<1>5. n \in Nat /\ pending'.slot + SumSlots(queue') + n = pending.slot + SumSlots(queue)
  BY <1>2, <1>3
<1>6. SlotInv' /\ free' \in Nat /\ slots' \in Nat /\ releasing' \in Nat
  <2>1. UNCHANGED batch
    BY <1>1 DEF parserVars
  <2> QED
    BY <1>1, <1>3, <1>5, <2>1, SlotsOf
<1>7. /\ budget' + SumCharge(queue') + Charge(pending') = budget + SumCharge(queue) + Charge(pending)
      /\ budget' \in Nat
  <2>1. budget' = budget + SumCharge(queue) + Charge(pending)
    BY <1>1
  <2> QED
    BY <1>2, <1>3, <2>1
<1>8. rx' \in {"open", "closed", "dropped"} /\ refused' \in BOOLEAN /\ seen' \in Seq(Event)
  BY <1>1 DEF StreamInv, TypeOK
<1> QED
  BY <1>1, <1>3, <1>4, <1>6, <1>7, <1>8, CallerKeeps

-----------------------------------------------------------------------------
(* The theorems *)

LEMMA InitStream ==
  ASSUME Init
  PROVE  StreamInv
<1>1. TypeOK
  <2>1. /\ <<>> \in Seq([kind: Kinds, size: Nat]) /\ <<>> \in Seq(Op) /\ <<>> \in Seq(Item)
        /\ <<>> \in Seq(Event) /\ <<>> \in Seq(Nat)
    OBVIOUS
  <2>2. NewParse \in [cur: BOOLEAN, cached: BOOLEAN, tup: BOOLEAN, started: BOOLEAN,
                      index: Nat, count: Nat, error: BOOLEAN, extra: BOOLEAN]
    BY DEF NewParse
  <2>3. history \in [items: Seq(Nat), bytes: Nat, dropped: Nat]
    BY <2>1 DEF Init
  <2>4. read \in 0..Len(response)
    <3>1. read = 0 /\ Len(response) = 0
      BY DEF Init
    <3> QED
      BY <3>1
  <2>5. budget \in Nat /\ slots \in Nat /\ free \in Nat /\ releasing \in Nat
    BY StreamAssumption DEF Init
  <2>6. batch \in Block /\ pending \in Block
    BY NoBlockFacts DEF Init
  <2>7. /\ response \in Seq([kind: Kinds, size: Nat]) /\ todo \in Seq(Op) /\ queue \in Seq(Item)
        /\ seen \in Seq(Event)
    BY <2>1 DEF Init
  <2>8. parse \in [cur: BOOLEAN, cached: BOOLEAN, tup: BOOLEAN, started: BOOLEAN,
                   index: Nat, count: Nat, error: BOOLEAN, extra: BOOLEAN]
    BY <2>2 DEF Init
  <2>9. /\ mode \in Modes /\ packet \in BOOLEAN
        /\ drive \in {"queued", "run", "cancel", "cleanup", "done"}
        /\ cause \in {"none", "cancelled", "timeout"}
        /\ cancelled \in BOOLEAN /\ closing \in BOOLEAN
        /\ terminal \in Outcomes \cup {"none"} /\ result \in Results \cup {"none"}
        /\ rx \in {"open", "closed", "dropped"} /\ refused \in BOOLEAN
        /\ ended \in {"no", "clean"} \cup Outcomes
    BY DEF Init
  <2> QED
    BY <2>3, <2>4, <2>5, <2>6, <2>7, <2>8, <2>9 DEF TypeOK
<1>2. TodoInv /\ BatchInv /\ QueueInv
  BY DEF Init, TodoInv, BatchInv, QueueInv, At_
<1>3. SlotInv
  <2>1. Used = 0
    BY NoBlockFacts, SumEmpty DEF Init, Used
  <2> QED
    BY <2>1, StreamAssumption DEF Init, SlotInv
<1>4. BudgetConserved
  <2>1. Held = 0
    BY DEF Init, Held
  <2> QED
    BY <2>1, BudgetBalance, NoBlockFacts, SumEmpty, StreamAssumption DEF Init
<1>5. HistoryInv
  BY TotalEmpty DEF Init, HistoryInv, NoticeBytes
<1> QED
  BY <1>1, <1>2, <1>3, <1>4, <1>5 DEF StreamInv

LEMMA NextStream ==
  ASSUME StreamInv, [Next]_vars
  PROVE  StreamInv'
<1>1. CASE UNCHANGED vars
  <2>1. TypeOK'
    BY <1>1 DEF StreamInv, TypeOK, vars, backendVars, driveVars, parserVars, poolVars, callerVars
  <2> QED
    BY <1>1, <2>1, QuietKeeps DEF vars, Same, backendVars, parserVars, callerVars
<1>2. CASE Parser
  BY <1>2, ReadsKeep, SendBudgetKeeps, SendChannelKeeps, SendFailsKeeps, PushFlushesKeeps,
     PushAcquiresKeeps, PushChargesKeeps, PushFailsKeeps, PushAddsKeeps, FlushNothingKeeps,
     FlushBudgetKeeps, FlushChannelKeeps, FlushFailsKeeps DEF Parser
<1>3. CASE Drive \/ Deadline \/ CleanupTimeout \/ DropDriver \/ Cancel \/ Close
  BY <1>3, DriveKeeps
<1>4. CASE ReleaseSlot \/ Backend \/ Poll \/ DropStream
  BY <1>4, ReleaseKeeps, BackendKeeps, PollsKeep, DropKeeps
<1> QED
  BY <1>1, <1>2, <1>3, <1>4 DEF Next


-----------------------------------------------------------------------------
(* What the invariant says of the resources *)

\* A block in the parser or with the caller holds rows only with a slot, and
\* never more than a block has room for.
Roomy(b) == b.rows = <<>> \/ (Len(b.rows) <= BatchRows /\ b.slot = 1)

LEMMA BlocksRoomy ==
  ASSUME StreamInv, Eventful
  PROVE  /\ Roomy(batch) /\ Roomy(pending)
         /\ \A i \in DOMAIN queue : Roomy(queue[i].block)
<1>1. Roomy(NoBlock)
  BY DEF Roomy, NoBlock
<1>2. ASSUME NEW b, Rows(b) PROVE Roomy(b)
  BY <1>2 DEF Rows, Roomy
<1>3. Roomy(batch)
  <2>1. BatchInv
    BY DEF StreamInv
  <2>2. CASE Acquired
    BY <2>2 DEF Acquired, Roomy
  <2>3. CASE batch = NoBlock
    BY <1>1, <2>3
  <2>4. CASE Rows(batch)
    BY <1>2, <2>4
  <2> QED
    BY <2>1, <2>2, <2>3, <2>4 DEF BatchInv, Staged, Outsized, Paid
<1>4. Roomy(pending)
  BY <1>1, <1>2 DEF StreamInv, QueueInv, Paid
<1>5. ASSUME NEW i \in DOMAIN queue PROVE Roomy(queue[i].block)
  <2>1. queue[i] \in Sound
    BY ElementOfSeq, LenProperties DEF StreamInv, QueueInv
  <2> QED
    BY <1>1, <1>2, <2>1 DEF Sound, Paid
<1> QED
  BY <1>3, <1>4, <1>5

LEMMA ScaledSum ==
  ASSUME NEW a \in Nat, NEW b \in Nat, NEW c \in Nat, NEW u \in {0, 1}, NEW v \in {0, 1},
         NEW w \in Nat, NEW m \in Nat, NEW P \in Nat,
         a = 0 \/ (a <= m /\ u = 1), b = 0 \/ (b <= m /\ v = 1), c <= w * m, u + v + w <= P
  PROVE  a + b + c <= P * m
<1>1. PICK k \in Nat : P = u + v + w + k
  <2>1. P - (u + v + w) \in Nat /\ P = u + v + w + (P - (u + v + w))
    OBVIOUS
  <2> QED
    BY <2>1
<1>2. k * m \in Nat /\ w * m \in Nat
  OBVIOUS
<1>3. P * m = u * m + v * m + w * m + k * m
  BY <1>1
<1>4. /\ a <= u * m /\ b <= v * m /\ u * m \in Nat /\ v * m \in Nat
  OBVIOUS
<1> DEFINE um == u * m
           vm == v * m
           wm == w * m
           km == k * m
           pm == P * m
<1>5. /\ a <= um /\ b <= vm /\ c <= wm /\ pm = um + vm + wm + km
      /\ um \in Nat /\ vm \in Nat /\ wm \in Nat /\ km \in Nat
  BY <1>2, <1>3, <1>4
<1>6. a + b + c <= pm
  <2> HIDE DEF um, vm, wm, km, pm
  <2> QED
    BY <1>5
<1> QED
  BY <1>6

LEMMA RowsBounded ==
  ASSUME StreamInv, Eventful
  PROVE  Len(batch.rows) + Len(pending.rows)
           + Total([i \in DOMAIN queue |-> Len(queue[i].block.rows)]) <= PoolSize * BatchRows
<1>1. /\ batch.slot \in {0, 1} /\ pending.slot \in {0, 1} /\ SumSlots(queue) \in Nat
      /\ batch \in Block /\ pending \in Block /\ queue \in Seq(Item) /\ free \in Nat
  BY StateHolds
<1>2. Len(batch.rows) \in Nat /\ Len(pending.rows) \in Nat
  <2>1. batch.rows \in Seq(Event) /\ pending.rows \in Seq(Event)
    BY <1>1 DEF Block
  <2> QED
    BY <2>1, LenProperties
<1>3. BatchRows \in Nat /\ PoolSize \in Nat
  BY StreamAssumption
<1> DEFINE s == [i \in DOMAIN queue |-> Len(queue[i].block.rows)]
           t == [i \in DOMAIN queue |-> queue[i].block.slot]
<1>4. Total(s) \in Nat /\ Total(s) <= SumSlots(queue) * BatchRows
  <2>1. DOMAIN queue = 1..Len(queue) /\ Len(queue) \in Nat
    BY <1>1, LenProperties
  <2>2. ASSUME NEW i \in DOMAIN queue
        PROVE  /\ queue[i].block.rows \in Seq(Event) /\ queue[i].block.slot \in {0, 1}
    <3>1. queue[i] \in Item
      BY <1>1, <2>1, ElementOfSeq
    <3> QED
      BY <3>1 DEF Item, Block
  <2>3. \A i \in 1..Len(queue) : Len(queue[i].block.rows) \in Nat
    BY <2>1, <2>2, LenProperties
  <2>4. s \in Seq(Nat) /\ Len(s) = Len(queue)
    BY <2>1, <2>3, FunctionIsSeq
  <2>5. t \in Seq({0, 1}) /\ Len(t) = Len(queue)
    BY <2>1, <2>2, FunctionIsSeq
  <2>6. ASSUME NEW i \in 1..Len(s), s[i] > 0 PROVE s[i] <= BatchRows /\ t[i] = 1
    <3>1. i \in DOMAIN queue /\ s[i] = Len(queue[i].block.rows) /\ t[i] = queue[i].block.slot
      BY <2>1, <2>4
    <3>2. queue[i].block.rows # <<>>
      BY <2>6, <3>1, EmptySeq
    <3> QED
      BY <3>1, <3>2, BlocksRoomy DEF Roomy
  <2>7. SumSlots(queue) = Total(t)
    BY DEF SumSlots
  <2>8. Total(s) \in Nat
    BY <2>4, PairsFacts
  <2>9. Total(s) <= Total(t) * BatchRows
    <3> HIDE DEF s, t
    <3> QED
      BY <1>3, <2>4, <2>5, <2>6, TotalScales
  <2> QED
    BY <2>7, <2>8, <2>9
<1>5. batch.slot + pending.slot + SumSlots(queue) <= PoolSize
  <2>1. free + Used = PoolSize /\ Used = batch.slot + pending.slot + SumSlots(queue)
    BY DEF StreamInv, SlotInv, Used
  <2>2. batch.slot \in Nat /\ pending.slot \in Nat
    BY <1>1
  <2>3. batch.slot + pending.slot + SumSlots(queue) \in Nat
    BY <1>1, <2>2
  <2> QED
    BY <1>1, <1>3, <2>1, <2>3
<1>6. /\ Len(batch.rows) = 0 \/ (Len(batch.rows) <= BatchRows /\ batch.slot = 1)
      /\ Len(pending.rows) = 0 \/ (Len(pending.rows) <= BatchRows /\ pending.slot = 1)
  BY BlocksRoomy, EmptySeq DEF Roomy
<1> HIDE DEF s, t
<1>7. Len(batch.rows) + Len(pending.rows) + Total(s) <= PoolSize * BatchRows
  BY <1>1, <1>2, <1>3, <1>4, <1>5, <1>6, ScaledSum
<1> QED
  BY <1>7 DEF s

LEMMA RowsPaid ==
  ASSUME StreamInv
  PROVE  RowsArePaidFor
<1> SUFFICES ASSUME Eventful, NEW b \in Blocks
             PROVE  \/ b.bytes <= Charge(b) \/ Charge(b) = StreamBytes
                    \/ Len(b.rows) = 1 /\ b.bytes > BatchBytes /\ b = batch
                       /\ todo # <<>> /\ Now.op = "flush"
  BY DEF RowsArePaidFor
<1>1. batch \in Block /\ pending \in Block /\ queue \in Seq(Item)
  BY StateHolds
<1>2. ASSUME NEW c \in Block, c = NoBlock \/ Paid(c)
      PROVE  c.bytes <= Charge(c) \/ Charge(c) = StreamBytes
  <2>1. CASE c = NoBlock
    BY <2>1 DEF NoBlock, Charge
  <2>2. CASE Paid(c)
    <3>1. Charge(c) = c.permit
      BY <2>2 DEF Charge, Paid, Block
    <3> QED
      BY <2>2, <3>1 DEF Paid
  <2> QED
    BY <1>2, <2>1, <2>2
<1>3. CASE b = batch
  <2>1. BatchInv
    BY DEF StreamInv
  <2>2. CASE Acquired
    <3>1. b.bytes = 0 /\ Charge(b) \in Nat
      BY <1>1, <1>3, <2>2, BlockFacts DEF Acquired
    <3> QED
      BY <3>1
  <2>3. CASE batch = NoBlock \/ Paid(batch)
    BY <1>1, <1>2, <1>3, <2>3
  <2>4. CASE Staged
    <3>1. batch.permit = 0 /\ batch.staging = BatchBytes /\ batch.bytes <= BatchBytes
      BY <2>4 DEF Staged
    <3>2. Charge(batch) = BatchBytes
      BY <3>1, StreamAssumption DEF Charge
    <3> QED
      BY <1>3, <3>1, <3>2
  <2>5. CASE Outsized
    BY <1>3, <2>5 DEF Outsized, At_
  <2> QED
    BY <2>1, <2>2, <2>3, <2>4, <2>5 DEF BatchInv
<1>4. CASE b = pending
  BY <1>1, <1>2, <1>4 DEF StreamInv, QueueInv
<1>5. CASE \E i \in DOMAIN queue : b = queue[i].block
  <2>1. PICK i \in DOMAIN queue : b = queue[i].block
    BY <1>5
  <2>2. queue[i] \in Sound
    BY ElementOfSeq, LenProperties DEF StreamInv, QueueInv
  <2>3. b \in Block /\ (b = NoBlock \/ Paid(b))
    BY <2>1, <2>2 DEF Sound, Item
  <2> QED
    BY <1>2, <2>3
<1> QED
  BY <1>3, <1>4, <1>5 DEF Blocks

LEMMA InvResources ==
  ASSUME StreamInv
  PROVE  ResourcesConserved
<1>1. BufferForEverySlot
  <2>1. free + Used = PoolSize /\ slots + releasing + Used = PoolSize
    BY DEF StreamInv, SlotInv
  <2>2. /\ free \in Nat /\ slots \in Nat /\ releasing \in Nat
        /\ batch.slot \in {0, 1} /\ pending.slot \in {0, 1} /\ SumSlots(queue) \in Nat
    BY StateHolds
  <2>3. batch.slot \in Nat /\ pending.slot \in Nat
    BY <2>2
  <2>4. Used \in Nat
    BY <2>2, <2>3 DEF Used
  <2>5. slots <= free
    BY <2>1, <2>2, <2>4
  <2> QED
    BY <2>5 DEF BufferForEverySlot
<1>2. RetainedRowsBounded
  BY RowsBounded DEF RetainedRowsBounded
<1> QED
  BY <1>1, <1>2, RowsPaid DEF ResourcesConserved, StreamInv

\* Slots, buffers and bytes of a stream are conserved by every poll, send,
\* flush, failure, interruption and drop of EventSender, BatchSender,
\* StreamBatchPool and the stream: none leaks and none is returned twice, a
\* free slot comes with a buffer, the rows retained in the parser, the channel
\* and the stream together fit the pool, and every block is paid for.
THEOREM StreamResources == Spec => []ResourcesConserved
<1>1. Init => StreamInv
  BY InitStream
<1>2. StreamInv /\ [Next]_vars => StreamInv'
  BY NextStream
<1>3. StreamInv => ResourcesConserved
  BY InvResources
<1> QED
  BY <1>1, <1>2, <1>3, PTL DEF Spec

-----------------------------------------------------------------------------
(* What NoticeHistory keeps *)

\* The frames that were sent stay as they are
Grown ==
  /\ Len(response') \in Nat /\ Len(response) \in Nat /\ Len(response) <= Len(response')
  /\ \A p \in 1..Len(response) : response'[p] = response[p]

LEMMA ResponseGrows ==
  ASSUME StreamInv, [Next]_vars
  PROVE  Grown
<1>1. response \in Seq([kind : Kinds, size : Nat]) /\ Len(response) \in Nat
  BY LenProperties DEF StreamInv, TypeOK
<1>2. CASE response' = response
  BY <1>1, <1>2 DEF Grown
<1>3. ASSUME NEW frames \in Seq([kind : Kinds, size : Nat]), Respond(frames) PROVE Grown
  <2>1. Len(frames) \in Nat
    BY LenProperties
  <2>2. /\ Len(response') = Len(response) + Len(frames)
        /\ \A p \in 1..(Len(response) + Len(frames)) :
             response'[p] = IF p <= Len(response) THEN response[p] ELSE frames[p - Len(response)]
    BY <1>1, <1>3, ConcatProperties DEF Respond
  <2> QED
    BY <1>1, <2>1, <2>2 DEF Grown
<1>4. CASE Backend
  <2>1. ASSUME SendFrame PROVE Grown
    <3>1. PICK f \in Frames : Respond(<<f>>)
      BY <2>1 DEF SendFrame
    <3>2. f \in [kind : Kinds, size : Nat]
      BY StreamAssumption
    <3>3. <<f>> \in Seq([kind : Kinds, size : Nat])
      BY <3>2
    <3> QED
      BY <1>3, <3>1, <3>3
  <2>2. Ready \in [kind : Kinds, size : Nat] /\ Error \in [kind : Kinds, size : Nat]
    BY DEF Ready, Error, Kinds
  <2>3. <<Ready>> \in Seq([kind : Kinds, size : Nat]) /\ <<Error, Ready>> \in Seq([kind : Kinds, size : Nat])
    BY <2>2
  <2>4. ASSUME SendReady \/ StopStatement PROVE Grown
    BY <1>3, <2>3, <2>4 DEF SendReady, StopStatement
  <2> QED
    BY <1>4, <2>1, <2>4 DEF Backend
<1>5. CASE UNCHANGED vars
  BY <1>2, <1>5 DEF vars, backendVars
<1>6. CASE Parser
  BY <1>2, <1>6 DEF Parser, ReadDesc, ReadStd, ReadRow, ReadComplete, ReadNotice, ReadError,
     ReadReady, ReadFatal, Then, SendBudget, SendChannel, SendFails, PushFlushes, PushAcquires,
     PushCharges, PushFails, PushAdds, FlushNothing, FlushBudget, FlushChannel, FlushFails, backendVars
<1>7. CASE Drive \/ Deadline \/ CleanupTimeout \/ DropDriver \/ Cancel \/ Close
  BY <1>2, <1>7 DEF Drive, Start, SkipRequest, Return, NoticeInterrupt, NoticeClosed, SendCancel,
     Deadline, CleanupTimeout, DropDriver, Cancel, Close, GiveUp, End, backendVars
<1>8. CASE ReleaseSlot \/ Poll \/ DropStream
  BY <1>2, <1>8 DEF ReleaseSlot, Poll, PollPending, PollRows, PollBatch, PollEvent, PollTerminal,
     YieldRow, DropStream, backendVars
<1> QED
  BY <1>4, <1>5, <1>6, <1>7, <1>8 DEF Next

\* Steps that read no notice leave the history as it is.
LEMMA HistoryRests ==
  ASSUME StreamInv, StreamInv', HistoryAccounts, Grown, UNCHANGED history,
         \/ read' = read
         \/ read' = read + 1 /\ read + 1 \in 1..Len(response) /\ KindAt(read + 1) # "notice"
  PROVE  HistoryAccounts'
<1>1. read \in Nat /\ read' \in Nat /\ read <= Len(response) /\ Len(response) \in Nat
  BY DEF StreamInv, TypeOK, Grown
<1>2. ASSUME NEW p \in 1..read
      PROVE  p \in 1..read' /\ response'[p].kind = KindAt(p) /\ response'[p] = response[p]
  BY <1>1 DEF Grown, KindAt
<1>3. ASSUME NEW p \in 1..read', response'[p].kind = "notice"
      PROVE  p \in 1..read
  <2>1. CASE read' = read
    BY <2>1
  <2>2. CASE read' = read + 1 /\ read + 1 \in 1..Len(response) /\ KindAt(read + 1) # "notice"
    <3>1. response'[read + 1].kind # "notice"
      BY <2>2 DEF Grown, KindAt
    <3>2. p # read + 1
      BY <1>3, <2>2, <3>1
    <3> QED
      BY <1>1, <2>2, <3>2
  <2> QED
    BY <2>1, <2>2
<1>4. Notices' = Notices
  BY <1>2, <1>3 DEF Notices, KindAt
<1>5. Remembered' = Remembered
  BY DEF Remembered
<1>6. Evicted' = Evicted
  BY <1>2, <1>4, <1>5 DEF Evicted, Notices
<1>7. (NoticeBytes(history.items))' = NoticeBytes(history.items)
  BY DEF StreamInv, HistoryInv
<1>8. ASSUME NEW p \in Evicted PROVE response'[p] = response[p]
  BY <1>2 DEF Evicted, Notices
<1> QED
  BY <1>4, <1>5, <1>6, <1>7, <1>8 DEF HistoryAccounts

\* What NoticeHistory::push does: it gives up the k oldest notices, and no fewer
\* would have made room.
Cut(k) == SubSeq(history.items, k + 1, Len(history.items))
Fits(k, n) ==
  /\ Len(history.items) - k < HistoryItems
  /\ NoticeBytes(Cut(k)) + response[n].size <= HistoryBytes

LEMMA CutFacts ==
  ASSUME TypeOK, HistoryInv, NEW k \in 0..Len(history.items)
  PROVE  /\ Len(history.items) \in Nat /\ DOMAIN history.items = 1..Len(history.items)
         /\ Cut(k) \in Seq(1..Len(response)) /\ Len(Cut(k)) = Len(history.items) - k
         /\ \A i \in 1..(Len(history.items) - k) : Cut(k)[i] = history.items[k + i]
         /\ NoticeBytes(Cut(k)) \in Nat
         /\ Evict(history, k).bytes = NoticeBytes(Cut(k))
<1> DEFINE items == history.items
           n == Len(items)
<1>1. /\ response \in Seq([kind : Kinds, size : Nat]) /\ items \in Seq(1..Len(response))
      /\ history.bytes = NoticeBytes(items)
  BY DEF TypeOK, HistoryInv
<1>2. /\ n \in Nat /\ DOMAIN items = 1..n /\ k \in Nat /\ k <= n
      /\ \A i \in 1..n : items[i] \in 1..Len(response)
  BY <1>1, LenProperties, ElementOfSeq
<1>3. /\ SubSeq(items, 1, k) \in Seq(1..Len(response)) /\ Cut(k) \in Seq(1..Len(response))
      /\ NoticeBytes(items) = NoticeBytes(SubSeq(items, 1, k)) + NoticeBytes(Cut(k))
  BY <1>1, NoticeSplit DEF Cut
<1>4. NoticeBytes(SubSeq(items, 1, k)) \in Nat /\ NoticeBytes(Cut(k)) \in Nat
  BY <1>1, <1>3, NoticeFacts
<1>5. Evict(history, k).bytes = NoticeBytes(items) - NoticeBytes(SubSeq(items, 1, k))
  BY <1>1 DEF Evict
<1>6. Evict(history, k).bytes = NoticeBytes(Cut(k))
  <2> DEFINE a == NoticeBytes(SubSeq(items, 1, k))
             b == NoticeBytes(Cut(k))
  <2>1. a \in Nat /\ b \in Nat /\ NoticeBytes(items) = a + b
    BY <1>3, <1>4
  <2>2. Evict(history, k).bytes = NoticeBytes(items) - a
    BY <1>5
  <2> HIDE DEF a, b
  <2>3. Evict(history, k).bytes = b
    BY <2>1, <2>2
  <2> QED
    BY <2>3 DEF b
<1>7. /\ Len(Cut(k)) = IF k + 1 <= n THEN n - (k + 1) + 1 ELSE 0
      /\ \A i \in 1..(n - (k + 1) + 1) : Cut(k)[i] = items[k + 1 + i - 1]
  <2>1. \A i \in (k + 1)..n : items[i] \in 1..Len(response)
    BY <1>2
  <2>2. k + 1 \in 1..(n + 1)
    BY <1>2
  <2> QED
    BY <1>1, <2>1, <2>2, SubSeqProperties DEF Cut
<1> HIDE DEF n
<1>8. Len(Cut(k)) = n - k
  BY <1>2, <1>7
<1>9. ASSUME NEW i \in 1..(n - k) PROVE Cut(k)[i] = items[k + i]
  <2>1. i \in 1..(n - (k + 1) + 1) /\ k + 1 + i - 1 = k + i
    BY <1>2
  <2> QED
    BY <1>7, <2>1
<1> QED
  BY <1>2, <1>3, <1>4, <1>6, <1>8, <1>9 DEF n

LEMMA PushCuts ==
  ASSUME TypeOK, HistoryInv, NEW n \in 1..Len(response), response[n].size <= HistoryBytes
  PROVE  \E k \in 0..Len(history.items) :
           /\ Fits(k, n)
           /\ k > 0 => ~Fits(k - 1, n)
           /\ NoticePush(history, n).items = Append(Cut(k), n)
           /\ NoticePush(history, n).dropped = history.dropped + k
<1> DEFINE items == history.items
           size == response[n].size
           fits(k) == /\ Len(items) - k < HistoryItems
                      /\ Evict(history, k).bytes + size <= HistoryBytes
           room == {k \in 0..Len(items) : fits(k)}
           k0 == IF room = {} THEN Len(items) ELSE Min(room)
<1>1. Len(items) \in Nat /\ size \in Nat /\ response \in Seq([kind : Kinds, size : Nat])
  <2>1. response \in Seq([kind : Kinds, size : Nat]) /\ items \in Seq(1..Len(response))
    BY DEF TypeOK, HistoryInv
  <2>2. response[n] \in [kind : Kinds, size : Nat]
    BY <2>1, ElementOfSeq
  <2> QED
    BY <2>1, <2>2, LenProperties
<1>2. ASSUME NEW k \in 0..Len(items) PROVE fits(k) <=> Fits(k, n)
  <2>1. Evict(history, k).bytes = NoticeBytes(Cut(k))
    BY CutFacts
  <2> QED
    BY <2>1 DEF Fits
<1>3. Len(items) \in room
  <2>1. Len(items) \in 0..Len(items)
    BY <1>1
  <2>2. Cut(Len(items)) \in Seq(1..Len(response)) /\ Len(Cut(Len(items))) = Len(items) - Len(items)
    BY <2>1, CutFacts
  <2>3. Len(Cut(Len(items))) = 0
    BY <1>1, <2>2
  <2>4. DOMAIN Cut(Len(items)) = {}
    BY <2>2, <2>3, LenProperties
  <2>5. NoticeBytes(Cut(Len(items))) = 0
    <3> DEFINE f == [i \in DOMAIN Cut(Len(items)) |-> response[Cut(Len(items))[i]].size]
    <3>1. DOMAIN f = {}
      BY <2>4
    <3> QED
      BY <3>1, TotalEmpty DEF NoticeBytes
  <2>6. Fits(Len(items), n)
    BY <1>1, <2>5, StreamAssumption DEF Fits
  <2> QED
    BY <1>2, <2>1, <2>6
<1>4. room \in SUBSET Nat /\ room # {}
  BY <1>1, <1>3
<1>5. k0 \in room /\ \A k \in room : k0 <= k
  <2> HIDE DEF room
  <2>1. Min(room) \in room /\ \A k \in room : Min(room) <= k
    BY <1>4, LeastNat
  <2>2. k0 = Min(room)
    BY <1>4
  <2> QED
    BY <2>1, <2>2
<1>6. NoticePush(history, n) = IF size > HistoryBytes THEN TooLong(history)
        ELSE [Evict(history, k0) EXCEPT !.items = Append(@, n), !.bytes = @ + size]
  BY DEF NoticePush
<1> HIDE DEF k0
<1>7. k0 \in 0..Len(items) /\ Fits(k0, n)
  BY <1>2, <1>5
<1>8. k0 > 0 => ~Fits(k0 - 1, n)
  <2> SUFFICES ASSUME k0 > 0, Fits(k0 - 1, n) PROVE FALSE
    OBVIOUS
  <2>1. k0 - 1 \in 0..Len(items)
    BY <1>1, <1>7
  <2>2. k0 - 1 \in room
    BY <1>2, <2>1
  <2> HIDE DEF room
  <2> QED
    BY <1>5, <1>7, <2>2
<1>9. ~(size > HistoryBytes)
  BY <1>1, StreamAssumption
<1>10. Evict(history, k0) = [items |-> Cut(k0),
          bytes |-> Evict(history, k0).bytes, dropped |-> history.dropped + k0]
  BY DEF Evict, Cut
<1> DEFINE e == Evict(history, k0)
<1>11. NoticePush(history, n) = [e EXCEPT !.items = Append(@, n), !.bytes = @ + size]
  BY <1>6, <1>9
<1>12. e = [items |-> Cut(k0), bytes |-> e.bytes, dropped |-> history.dropped + k0]
  BY <1>10
<1> HIDE DEF e, size
<1>13. /\ NoticePush(history, n).items = Append(Cut(k0), n)
       /\ NoticePush(history, n).dropped = history.dropped + k0
  BY <1>11, <1>12
<1> QED
  BY <1>7, <1>8, <1>13

\* The bytes of a list: those of its first frame and of the others, and no
\* frame has more.
LEMMA NoticeFirst ==
  ASSUME response \in Seq([kind : Kinds, size : Nat]), NEW s \in Seq(1..Len(response)),
         NEW t \in Seq(1..Len(response)), Len(s) = Len(t) + 1,
         \A i \in 1..Len(t) : s[i + 1] = t[i]
  PROVE  NoticeBytes(s) = response[s[1]].size + NoticeBytes(t)
<1> DEFINE ms == [i \in DOMAIN s |-> response[s[i]].size]
           mt == [i \in DOMAIN t |-> response[t[i]].size]
<1>1. /\ ms \in Seq(Nat) /\ mt \in Seq(Nat) /\ Len(ms) = Len(s) /\ Len(mt) = Len(t)
      /\ Len(t) \in Nat /\ DOMAIN s = 1..Len(s) /\ DOMAIN t = 1..Len(t)
  BY NoticeFacts, LenProperties
<1>2. ms[1] = response[s[1]].size /\ \A i \in 1..Len(t) : ms[i + 1] = mt[i]
  <2>1. 1 \in DOMAIN s
    BY <1>1
  <2>2. ASSUME NEW i \in 1..Len(t) PROVE i + 1 \in DOMAIN s /\ i \in DOMAIN t
    BY <1>1
  <2> QED
    BY <2>1, <2>2
<1> HIDE DEF ms, mt
<1>3. Total(ms) = ms[1] + Total(mt)
  BY <1>1, <1>2, TotalFirst
<1> QED
  BY <1>2, <1>3 DEF NoticeBytes, ms, mt

LEMMA NoticeAmong ==
  ASSUME response \in Seq([kind : Kinds, size : Nat]), NEW s \in Seq(1..Len(response)),
         NEW k \in 1..Len(s)
  PROVE  response[s[k]].size <= NoticeBytes(s)
<1> DEFINE ms == [i \in DOMAIN s |-> response[s[i]].size]
<1>1. ms \in Seq(Nat) /\ Len(ms) = Len(s) /\ DOMAIN s = 1..Len(s)
  BY NoticeFacts, LenProperties
<1>2. ms[k] = response[s[k]].size
  BY <1>1
<1>3. NoticeBytes(s) = Total(ms)
  BY DEF NoticeBytes
<1> HIDE DEF ms
<1>4. ms[k] \in Nat
  BY <1>1, ElementOfSeq
<1> DEFINE col == {k} \X (1..ms[k])
<1>5. IsFiniteSet({k}) /\ Cardinality({k}) = 1 /\ IsFiniteSet(1..ms[k]) /\ Cardinality(1..ms[k]) = ms[k]
  BY <1>4, IntervalCount, FS_Singleton
<1>6. Cardinality(col) = 1 * ms[k]
  BY <1>5, FS_Product
<1>7. col \subseteq Pairs(ms)
  <2>1. k \in 1..Len(ms)
    BY <1>1
  <2>2. \A p : p \in Pairs(ms) <=> \E i \in 1..Len(ms) : \E j \in 1..ms[i] : p = <<i, j>>
    BY <1>1, PairsFacts
  <2> QED
    BY <2>1, <2>2
<1>8. IsFiniteSet(Pairs(ms)) /\ Total(ms) = Cardinality(Pairs(ms))
  BY <1>1, PairsFacts
<1>9. Cardinality(col) <= Cardinality(Pairs(ms))
  BY <1>7, <1>8, FS_Subset
<1> HIDE DEF col
<1> QED
  BY <1>2, <1>3, <1>4, <1>6, <1>8, <1>9

LEMMA NoticesGrow ==
  ASSUME TypeOK, read + 1 \in 1..Len(response), KindAt(read + 1) = "notice",
         read' = read + 1, response' = response
  PROVE  /\ Notices' = Notices \cup {read + 1} /\ read + 1 \notin Notices
         /\ Cardinality(Notices') = Cardinality(Notices) + 1 /\ Cardinality(Notices) \in Nat
         /\ Notices \in SUBSET (1..read) /\ read \in Nat
<1>1. read \in Nat
  BY DEF TypeOK
<1>2. Notices' = {p \in 1..(read + 1) : KindAt(p) = "notice"}
  BY DEF Notices, KindAt
<1>3. Notices' = Notices \cup {read + 1} /\ read + 1 \notin Notices
  BY <1>1, <1>2 DEF Notices
<1>4. IsFiniteSet(Notices)
  <2>1. IsFiniteSet(1..read)
    BY <1>1, IntervalCount
  <2> QED
    BY <2>1, FS_Subset DEF Notices
<1> QED
  BY <1>1, <1>3, <1>4, FS_AddElement, FS_CardinalityType DEF Notices

\* A notice that can never fit is counted.
LEMMA LongNotice ==
  ASSUME StreamInv, HistoryAccounts, read + 1 \in 1..Len(response),
         KindAt(read + 1) = "notice", read' = read + 1, response' = response,
         response[read + 1].size > HistoryBytes, history' = TooLong(history)
  PROVE  HistoryAccounts'
<1>1. history \in [items : Seq(Nat), bytes : Nat, dropped : Nat] /\ TypeOK
  BY DEF StreamInv, TypeOK
<1>2. history'.items = history.items /\ history'.dropped = history.dropped + 1
  BY <1>1 DEF TooLong
<1>3. history.dropped \in Nat /\ Len(history.items) \in Nat
  BY <1>1, LenProperties
<1>4. /\ Notices' = Notices \cup {read + 1} /\ read + 1 \notin Notices
      /\ Cardinality(Notices') = Cardinality(Notices) + 1 /\ Cardinality(Notices) \in Nat
  BY <1>1, NoticesGrow
<1>5. Remembered' = Remembered
  BY <1>2 DEF Remembered
<1>6. Evicted' = Evicted
  <2>1. ~(response[read + 1].size <= HistoryBytes)
    <3>1. response[read + 1] \in [kind : Kinds, size : Nat]
      BY <1>1, ElementOfSeq DEF TypeOK
    <3>2. response[read + 1].size \in Nat
      BY <3>1
    <3> QED
      BY <3>2, StreamAssumption
  <2> QED
    BY <1>4, <1>5, <2>1 DEF Evicted
<1>7. (NoticeBytes(history.items))' = NoticeBytes(history.items)
  BY <1>2 DEF NoticeBytes
<1>8. history'.dropped = Cardinality(Notices') - Len(history'.items)
  <2>1. history.dropped = Cardinality(Notices) - Len(history.items)
    BY DEF HistoryAccounts
  <2> QED
    BY <1>2, <1>3, <1>4, <2>1
<1>9. Remembered' \subseteq Notices'
  BY <1>4, <1>5 DEF HistoryAccounts
<1> QED
  BY <1>2, <1>5, <1>6, <1>7, <1>8, <1>9 DEF HistoryAccounts

\* One that fits takes the place of the oldest.
LEMMA FittingNotice ==
  ASSUME StreamInv, HistoryAccounts, read + 1 \in 1..Len(response),
         KindAt(read + 1) = "notice", read' = read + 1, response' = response,
         response[read + 1].size <= HistoryBytes, history' = NoticePush(history, read + 1)
  PROVE  HistoryAccounts'
<1> DEFINE n == read + 1
           items == history.items
           L == Len(items)
<1>1. TypeOK /\ HistoryInv /\ n \in 1..Len(response) /\ HistoryItems \in Nat /\ HistoryBytes \in Nat
  BY StreamAssumption DEF StreamInv
<1>2. PICK k \in 0..L : /\ Fits(k, n) /\ (k > 0 => ~Fits(k - 1, n))
                        /\ history'.items = Append(Cut(k), n)
                        /\ history'.dropped = history.dropped + k
  BY <1>1, PushCuts
<1> DEFINE rest == Cut(k)
           new == history'.items
<1>3. /\ L \in Nat /\ DOMAIN items = 1..L /\ rest \in Seq(1..Len(response)) /\ Len(rest) = L - k
      /\ \A i \in 1..(L - k) : rest[i] = items[k + i]
      /\ NoticeBytes(rest) \in Nat
  BY <1>1, CutFacts
<1>4. /\ new \in Seq(1..Len(response)) /\ Len(new) = L - k + 1 /\ DOMAIN new = 1..(L - k + 1)
      /\ new[L - k + 1] = n /\ \A i \in 1..(L - k) : new[i] = items[k + i]
  <2>1. new = Append(rest, n)
    BY <1>2
  <2>2. /\ new \in Seq(1..Len(response)) /\ Len(new) = Len(rest) + 1 /\ new[Len(rest) + 1] = n
        /\ \A i \in 1..Len(rest) : new[i] = rest[i]
    <3> DEFINE S == 1..Len(response)
    <3>1. rest \in Seq(S) /\ n \in S
      BY <1>1, <1>3
    <3> HIDE DEF rest, new, n, S
    <3>2. /\ Append(rest, n) \in Seq(S) /\ Len(Append(rest, n)) = Len(rest) + 1
          /\ Append(rest, n)[Len(rest) + 1] = n
          /\ \A i \in 1..Len(rest) : Append(rest, n)[i] = rest[i]
      BY <3>1, AppendProperties
    <3> QED
      BY <2>1, <3>2 DEF S
  <2>3. DOMAIN new = 1..Len(new)
    BY <2>2, LenProperties
  <2> HIDE DEF L, new, rest, n
  <2> QED
    BY <1>3, <2>2, <2>3
<1>5. NoticeBytes(new) = NoticeBytes(rest) + response[n].size
  <2>1. response \in Seq([kind : Kinds, size : Nat])
    BY <1>1 DEF TypeOK
  <2> QED
    BY <1>1, <1>2, <1>3, <2>1, NoticeAppend
<1>6. /\ Notices' = Notices \cup {n} /\ n \notin Notices
      /\ Cardinality(Notices') = Cardinality(Notices) + 1 /\ Cardinality(Notices) \in Nat
      /\ Notices \in SUBSET (1..read) /\ read \in Nat
  BY <1>1, NoticesGrow
<1>7. /\ \A i \in 1..L : items[i] \in Notices
      /\ \A i, j \in 1..L : i < j => items[i] < items[j]
  <2>1. \A i \in 1..L : items[i] \in Remembered
    BY <1>3 DEF Remembered
  <2> QED
    BY <1>3, <2>1 DEF HistoryAccounts
<1>n. \A p \in Notices : p \in Nat /\ p \in 1..Len(response) /\ p \in 1..read
  <2>1. read \in Nat /\ read <= Len(response) /\ Len(response) \in Nat
    BY <1>1, LenProperties DEF TypeOK
  <2> QED
    BY <1>6, <2>1
<1> HIDE DEF rest, new, L, n, items
<1>l. L \in Nat
  BY <1>3
<1>8. k \in Nat /\ k <= L
  BY <1>3
<1>9. Remembered' = {items[i] : i \in (k + 1)..L} \cup {n}
  <2>1. Remembered' = {new[i] : i \in 1..(L - k + 1)}
    BY <1>4 DEF Remembered, new
  <2>2. ASSUME NEW i \in (k + 1)..L PROVE \E j \in 1..(L - k + 1) : new[j] = items[i]
    <3>1. i - k \in 1..(L - k) /\ i - k \in 1..(L - k + 1) /\ k + (i - k) = i
      BY <1>3, <1>8
    <3> QED
      BY <1>4, <3>1
  <2>3. ASSUME NEW j \in 1..(L - k + 1)
        PROVE  new[j] = n \/ \E i \in (k + 1)..L : items[i] = new[j]
    <3>1. CASE j = L - k + 1
      BY <1>4, <3>1
    <3>2. CASE j # L - k + 1
      <4>1. j \in 1..(L - k) /\ k + j \in (k + 1)..L
        BY <1>3, <1>8, <3>2
      <4> QED
        BY <1>4, <4>1
    <3> QED
      BY <3>1, <3>2
  <2>4. L - k + 1 \in 1..(L - k + 1) /\ new[L - k + 1] = n
    BY <1>3, <1>4, <1>8
  <2> DEFINE S == {items[i] : i \in (k + 1)..L}
  <2>5. \A x : x \in S <=> \E i \in (k + 1)..L : x = items[i]
    OBVIOUS
  <2>6. \A x : x \in Remembered' <=> \E j \in 1..(L - k + 1) : x = new[j]
    BY <2>1
  <2> HIDE DEF S
  <2>7. \A x : x \in S \cup {n} => x \in Remembered'
    BY <2>2, <2>4, <2>5, <2>6
  <2>8. \A x : x \in Remembered' => x \in S \cup {n}
    BY <2>3, <2>5, <2>6
  <2>9. Remembered' = S \cup {n}
    BY <2>7, <2>8
  <2> QED
    BY <2>9 DEF S
<1>10. Remembered = {items[i] : i \in 1..L}
  BY <1>3 DEF Remembered, items
<1>11. Remembered' \subseteq Notices'
  <2>1. \A i \in (k + 1)..L : items[i] \in Notices
    BY <1>7, <1>8, <1>3
  <2> QED
    BY <1>6, <1>9, <2>1
<1>12. ASSUME NEW i \in DOMAIN new, NEW j \in DOMAIN new, i < j PROVE new[i] < new[j]
  <2>1. i \in 1..(L - k) /\ new[i] = items[k + i] /\ k + i \in 1..L
    <3>1. i \in 1..(L - k + 1) /\ j \in 1..(L - k + 1)
      BY <1>4
    <3>2. i \in 1..(L - k) /\ k + i \in 1..L
      BY ONLY <1>l, <1>8, <1>12, <3>1
    <3> QED
      BY <1>4, <3>2
  <2>2. CASE j = L - k + 1
    <3>1. items[k + i] \in 1..read
      BY <1>6, <1>7, <2>1
    <3>2. new[j] = n /\ n = read + 1
      BY <1>4, <2>2 DEF n
    <3> QED
      BY <1>6, <2>1, <3>1, <3>2
  <2>3. CASE j # L - k + 1
    <3>1. j \in 1..(L - k) /\ k + j \in 1..L /\ k + i < k + j
      <4>1. i \in 1..(L - k + 1) /\ j \in 1..(L - k + 1)
        BY <1>4
      <4>2. L \in Nat
        BY <1>3
      <4> QED
        BY ONLY <1>8, <1>12, <2>3, <4>1, <4>2
    <3>2. new[j] = items[k + j]
      BY <1>4, <3>1
    <3> QED
      BY <1>7, <2>1, <3>1, <3>2
  <2> QED
    BY <2>2, <2>3
<1>13. Fits(k, n) => L - k < HistoryItems /\ NoticeBytes(rest) + response[n].size <= HistoryBytes
  BY DEF Fits, L, rest, items
<1>14. Len(new) <= HistoryItems /\ NoticeBytes(new) <= HistoryBytes
  BY <1>1, <1>2, <1>3, <1>4, <1>5, <1>8, <1>13
<1>15. ASSUME NEW p \in Evicted'
       PROVE  p \in Evicted \/ \E i \in 1..k : p = items[i]
  <2>1. p \in Notices' /\ p \notin Remembered' /\ response[p].size <= HistoryBytes
    BY <1>15 DEF Evicted
  <2>2. p # n /\ p \in Notices
    BY <1>6, <1>9, <2>1
  <2>3. CASE p \in Remembered
    <3>1. PICK i \in 1..L : p = items[i]
      BY <1>10, <2>3
    <3>2. ~(i \in (k + 1)..L)
      BY <1>9, <2>1, <3>1
    <3>3. i \in 1..k
      BY <1>3, <1>8, <3>2
    <3> QED
      BY <3>1, <3>3
  <2>4. CASE p \notin Remembered
    BY <2>1, <2>2, <2>4 DEF Evicted
  <2> QED
    BY <2>3, <2>4
<1>e. ASSUME NEW p \in Evicted' PROVE p \in Notices
  <2>1. CASE p \in Evicted
    BY <2>1 DEF Evicted
  <2>2. CASE \E i \in 1..k : p = items[i]
    <3>1. \A i \in 1..k : i \in 1..L
      BY <1>8, <1>l
    <3> QED
      BY <1>7, <2>2, <3>1
  <2> QED
    BY <1>15, <2>1, <2>2
<1>16. ASSUME NEW p \in Evicted, NEW i \in 1..L PROVE p < items[i]
  BY <1>10 DEF HistoryAccounts
<1>17. ASSUME NEW p \in Evicted', NEW q \in Remembered' PROVE p < q
  <2>1. CASE q = n
    <3>1. p \in Notices
      BY <1>e
    <3>2. p \in 1..read
      BY <1>6, <3>1
    <3> QED
      BY <1>6, <2>1, <3>2 DEF n
  <2>2. CASE q # n
    <3>1. PICK j \in (k + 1)..L : q = items[j]
      BY <1>9, <2>2
    <3>2. j \in 1..L
      BY <1>3, <1>8
    <3>3. CASE p \in Evicted
      BY <1>16, <3>1, <3>2, <3>3
    <3>4. CASE \E i \in 1..k : p = items[i]
      <4>1. PICK i \in 1..k : p = items[i]
        BY <3>4
      <4>2. i \in 1..L /\ i < j
        BY <1>3, <1>8
      <4> QED
        BY <1>7, <3>1, <3>2, <4>1, <4>2
    <3> QED
      BY <1>15, <3>3, <3>4
  <2> QED
    BY <2>1, <2>2
<1>18. ASSUME NEW p \in Evicted', \A q \in Evicted' : q <= p
       PROVE  Len(new) = HistoryItems \/ NoticeBytes(new) + response[p].size > HistoryBytes
  <2>0. response[n].size \in Nat /\ response[p].size \in Nat
    <3>1. p \in Notices
      BY <1>e
    <3>2. p \in 1..Len(response)
      BY <1>n, <3>1
    <3>3. response[p] \in [kind : Kinds, size : Nat] /\ response[n] \in [kind : Kinds, size : Nat]
      BY <1>1, <3>2, ElementOfSeq DEF TypeOK
    <3> QED
      BY <3>3
  <2>1. CASE k = 0
    <3>1. p \in Evicted
      <4>1. 1..k = {}
        BY <2>1
      <4> QED
        BY <1>15, <4>1
    <3>2. Evicted \subseteq Evicted'
      <4> SUFFICES ASSUME NEW q \in Evicted PROVE q \in Evicted'
        OBVIOUS
      <4>1. q \in Notices /\ q \notin Remembered /\ response[q].size <= HistoryBytes
        BY DEF Evicted
      <4>2. q \in Notices' /\ q # n
        BY <1>6, <4>1
      <4>3. q \notin Remembered'
        <5>1. (k + 1)..L = 1..L
          BY <2>1
        <5> QED
          BY <1>9, <1>10, <4>1, <4>2, <5>1
      <4> QED
        BY <4>1, <4>2, <4>3 DEF Evicted
    <3>3. L = HistoryItems \/ NoticeBytes(items) + response[p].size > HistoryBytes
      BY <1>18, <3>1, <3>2 DEF HistoryAccounts, L, items
    <3>4. L < HistoryItems
      BY <1>2, <1>3, <1>13, <2>1
    <3>5. NoticeBytes(rest) = NoticeBytes(items)
      <4>1. \A i \in 1..L : rest[i] = items[i]
        BY <1>3, <2>1
      <4>2. items \in Seq(1..Len(response)) /\ Len(items) = L
        BY <1>1 DEF HistoryInv, items, L
      <4>3. DOMAIN rest = 1..L
        BY <1>3, <2>1, LenProperties
      <4>4. DOMAIN items = 1..L
        BY <1>3
      <4>5. [i \in DOMAIN rest |-> response[rest[i]].size] = [i \in DOMAIN items |-> response[items[i]].size]
        BY <4>1, <4>3, <4>4
      <4> QED
        BY <4>5 DEF NoticeBytes
    <3> DEFINE x == NoticeBytes(rest)
               y == response[n].size
               z == response[p].size
    <3>6. x \in Nat /\ y \in Nat /\ z \in Nat /\ x + z > HistoryBytes /\ NoticeBytes(new) = x + y
      BY <1>1, <1>3, <1>5, <2>0, <3>3, <3>4, <3>5
    <3> HIDE DEF x, y, z
    <3>7. NoticeBytes(new) + z > HistoryBytes
      BY <1>1, <3>6
    <3> QED
      BY <3>7 DEF z
  <2>2. CASE k > 0
    <3>1. k - 1 \in 0..L /\ k \in 1..L /\ k \in 1..k
      BY <1>3, <1>8, <2>2
    <3>2. items[k] \in Evicted'
      <4>1. items[k] \in Notices
        BY <1>7, <3>1
      <4>2. items[k] \notin Remembered'
        <5>1. items[k] # n
          BY <1>6, <4>1
        <5>2. ASSUME NEW i \in (k + 1)..L PROVE items[k] # items[i]
          <6>1. i \in 1..L /\ k < i
            BY <1>3, <1>8
          <6>2. items[k] < items[i] /\ items[k] \in Nat /\ items[i] \in Nat
            <7>1. items[i] \in Notices
              BY <1>7, <6>1
            <7> QED
              BY <1>n, <1>7, <3>1, <4>1, <6>1, <7>1
          <6> QED
            BY <6>2
        <5> QED
          BY <1>9, <5>1, <5>2
      <4>3. response[items[k]].size <= HistoryBytes
        <5>1. /\ response \in Seq([kind : Kinds, size : Nat]) /\ items \in Seq(1..Len(response))
              /\ NoticeBytes(items) <= HistoryBytes /\ L = Len(items)
          BY <1>1 DEF TypeOK, HistoryInv, HistoryAccounts, items, L
        <5>2. response[items[k]].size <= NoticeBytes(items)
          BY <3>1, <5>1, NoticeAmong
        <5>3. response[items[k]].size \in Nat /\ NoticeBytes(items) \in Nat
          <6>1. items[k] \in 1..Len(response)
            BY <3>1, <5>1, ElementOfSeq
          <6>2. response[items[k]] \in [kind : Kinds, size : Nat]
            BY <5>1, <6>1, ElementOfSeq
          <6> QED
            BY <5>1, <6>2, NoticeFacts
        <5> DEFINE u == response[items[k]].size
                   v == NoticeBytes(items)
        <5>4. u \in Nat /\ v \in Nat /\ u <= v /\ v <= HistoryBytes /\ HistoryBytes \in Nat
          BY <5>1, <5>2, <5>3, StreamAssumption
        <5> HIDE DEF u, v
        <5>5. u <= HistoryBytes
          BY <5>4
        <5> QED
          BY <5>5 DEF u
      <4> QED
        BY <1>6, <4>1, <4>2, <4>3 DEF Evicted
    <3>3. p = items[k]
      <4>1. items[k] <= p
        BY <1>18, <3>2
      <4>2. CASE p \in Evicted
        <5>1. p < items[k] /\ p \in Nat /\ items[k] \in Nat
          BY <1>n, <1>e, <1>7, <1>16, <3>1, <4>2
        <5> QED
          BY <4>1, <5>1
      <4>3. CASE \E i \in 1..k : p = items[i]
        <5>1. PICK i \in 1..k : p = items[i]
          BY <4>3
        <5>2. i \in 1..L /\ (i = k \/ i < k)
          BY <1>3, <1>8
        <5>3. items[i] \in Nat /\ items[k] \in Nat
          BY <1>n, <1>7, <3>1, <5>2
        <5>4. i < k => items[i] < items[k]
          BY <1>7, <3>1, <5>2
        <5> QED
          BY <4>1, <5>1, <5>2, <5>3, <5>4
      <4> QED
        BY <1>15, <4>2, <4>3
    <3>4. ~Fits(k - 1, n)
      BY <1>2, <2>2
    <3> DEFINE more == Cut(k - 1)
    <3>5. /\ more \in Seq(1..Len(response)) /\ Len(more) = L - (k - 1) /\ NoticeBytes(more) \in Nat
          /\ \A i \in 1..(L - (k - 1)) : more[i] = items[k - 1 + i]
      BY <1>1, <3>1, CutFacts DEF L, items
    <3>6. ~(L - (k - 1) < HistoryItems /\ NoticeBytes(more) + response[n].size <= HistoryBytes)
      BY <3>4 DEF Fits, L, items
    <3>7. NoticeBytes(more) = response[p].size + NoticeBytes(rest)
      <4> HIDE DEF more
      <4>0. response \in Seq([kind : Kinds, size : Nat])
        BY <1>1 DEF TypeOK
      <4>1. Len(more) = Len(rest) + 1
        BY <1>3, <1>8, <3>5
      <4>2. more[1] = p
        <5>1. 1 \in 1..(L - (k - 1)) /\ k - 1 + 1 = k
          BY <1>3, <1>8
        <5> QED
          BY <3>3, <3>5, <5>1
      <4>3. ASSUME NEW i \in 1..Len(rest) PROVE more[i + 1] = rest[i]
        <5>1. i \in 1..(L - k) /\ i + 1 \in 1..(L - (k - 1)) /\ k - 1 + (i + 1) = k + i
          BY <1>3, <1>8
        <5>2. rest[i] = items[k + i]
          BY <1>3, <5>1
        <5> QED
          BY <3>5, <5>1, <5>2
      <4> QED
        BY <1>3, <3>5, <4>0, <4>1, <4>2, <4>3, NoticeFirst
    <3> HIDE DEF more
    <3> DEFINE x == NoticeBytes(rest)
               y == response[n].size
               z == response[p].size
    <3>8. /\ x \in Nat /\ y \in Nat /\ z \in Nat /\ NoticeBytes(new) = x + y
          /\ NoticeBytes(more) = z + x /\ Len(new) = L - k + 1 /\ Len(new) <= HistoryItems
          /\ ~(L - (k - 1) < HistoryItems /\ NoticeBytes(more) + y <= HistoryBytes)
      BY <1>3, <1>4, <1>5, <1>14, <2>0, <3>6, <3>7
    <3> HIDE DEF x, y, z
    <3>9. Len(new) = HistoryItems \/ NoticeBytes(new) + z > HistoryBytes
      BY <1>1, <1>3, <1>8, <3>8
    <3> QED
      BY <3>9 DEF z
  <2> QED
    BY <1>8, <2>1, <2>2
<1>19. history'.dropped = Cardinality(Notices') - Len(new)
  <2>1. history.dropped = Cardinality(Notices) - L
    BY DEF HistoryAccounts, L, items
  <2>2. history.dropped \in Nat
    BY <1>1 DEF TypeOK
  <2> QED
    BY <1>2, <1>3, <1>4, <1>6, <1>8, <2>1, <2>2
<1>20. (NoticeBytes(history.items))' = NoticeBytes(new)
  BY DEF NoticeBytes, new
<1>21. \A p : response'[p] = response[p]
  OBVIOUS
<1> QED
  BY <1>11, <1>12, <1>14, <1>17, <1>18, <1>19, <1>20, <1>21 DEF HistoryAccounts, new

LEMMA NextHistory ==
  ASSUME StreamInv, StreamInv', HistoryAccounts, [Next]_vars
  PROVE  HistoryAccounts'
<1>1. Grown /\ TypeOK
  BY ResponseGrows DEF StreamInv
<1>2. CASE ReadNotice
  <2>1. /\ Arrived("notice") /\ read' = read + 1 /\ response' = response
        /\ history' = NoticePush(history, read + 1)
    BY <1>2 DEF ReadNotice, Then, backendVars
  <2>2. read + 1 \in 1..Len(response) /\ KindAt(read + 1) = "notice"
    BY <1>1, <2>1, ArrivedFacts DEF Arrived, KindAt
  <2>3. response[read + 1].size \in Nat /\ HistoryBytes \in Nat
    <3>1. response[read + 1] \in [kind : Kinds, size : Nat]
      BY <1>1, <2>2, ElementOfSeq DEF TypeOK
    <3> QED
      BY <3>1, StreamAssumption
  <2>4. CASE response[read + 1].size > HistoryBytes
    <3>1. history' = TooLong(history)
      BY <2>1, <2>4 DEF NoticePush
    <3> QED
      BY <2>1, <2>2, <2>4, <3>1, LongNotice
  <2>5. CASE response[read + 1].size <= HistoryBytes
    BY <2>1, <2>2, <2>5, FittingNotice
  <2> QED
    BY <2>3, <2>4, <2>5
<1>3. ASSUME NEW kind \in Kinds \ {"notice"}, Arrived(kind), read' = read + 1, UNCHANGED history
      PROVE  HistoryAccounts'
  <2>1. read + 1 \in 1..Len(response) /\ KindAt(read + 1) # "notice"
    BY <1>1, <1>3, ArrivedFacts DEF Arrived, KindAt
  <2> QED
    BY <1>1, <1>3, <2>1, HistoryRests
<1>4. CASE ReadDesc \/ ReadStd \/ ReadRow \/ ReadComplete \/ ReadError \/ ReadReady \/ ReadFatal
  <2>1. \E kind \in {"desc", "std", "row", "dbos", "complete", "error", "ready", "torn"} : Arrived(kind)
    BY <1>4 DEF ReadDesc, ReadStd, ReadRow, ReadComplete, ReadError, ReadReady, ReadFatal
  <2>2. read' = read + 1 /\ UNCHANGED history
    BY <1>4 DEF ReadDesc, ReadStd, ReadRow, ReadComplete, ReadError, ReadReady, ReadFatal, Then
  <2> QED
    BY <1>3, <2>1, <2>2 DEF Kinds
<1>5. CASE read' = read /\ UNCHANGED history
  BY <1>1, <1>5, HistoryRests
<1>6. CASE UNCHANGED vars
  BY <1>5, <1>6 DEF vars, parserVars
<1>7. CASE Parser
  BY <1>2, <1>4, <1>5, <1>7 DEF Parser, SendBudget, SendChannel, SendFails, PushFlushes,
     PushAcquires, PushCharges, PushFails, PushAdds, FlushNothing, FlushBudget, FlushChannel, FlushFails
<1>8. CASE Drive \/ Deadline \/ CleanupTimeout \/ DropDriver \/ Cancel \/ Close
  BY <1>5, <1>8 DEF Drive, Start, SkipRequest, Return, NoticeInterrupt, NoticeClosed, SendCancel,
     Deadline, CleanupTimeout, DropDriver, Cancel, Close, GiveUp, End, parserVars
<1>9. CASE ReleaseSlot \/ Poll \/ DropStream \/ Backend
  BY <1>5, <1>9 DEF ReleaseSlot, Poll, PollPending, PollRows, PollBatch, PollEvent, PollTerminal,
     YieldRow, DropStream, Backend, SendFrame, SendReady, StopStatement, Respond, parserVars
<1> QED
  BY <1>6, <1>7, <1>8, <1>9 DEF Next

LEMMA InitHistory ==
  ASSUME Init, StreamInv
  PROVE  HistoryAccounts
<1>1. history.items = <<>> /\ history.dropped = 0 /\ read = 0 /\ history.bytes = 0
  BY DEF Init
<1>2. Notices = {} /\ Remembered = {} /\ Evicted = {} /\ Len(history.items) = 0
  BY <1>1 DEF Notices, Remembered, Evicted
<1>3. NoticeBytes(history.items) = 0 /\ Cardinality(Notices) = 0
  BY <1>1, <1>2, FS_EmptySet DEF StreamInv, HistoryInv
<1> QED
  BY <1>1, <1>2, <1>3, StreamAssumption DEF HistoryAccounts

\* After every NoticeHistory::push, for every limit on items and bytes:
\* notices() returns the newest of the notices read that fit one by one, in the
\* order they came, as many of them as fit together, and dropped_notices()
\* counts every other one, including those that could never fit.
THEOREM StreamHistory == Spec => []HistoryAccounts
<1>1. Init => StreamInv /\ HistoryAccounts
  BY InitStream, InitHistory
<1>2. StreamInv /\ HistoryAccounts /\ [Next]_vars => StreamInv' /\ HistoryAccounts'
  BY NextStream, NextHistory
<1> QED
  BY <1>1, <1>2, PTL DEF Spec

-----------------------------------------------------------------------------
(* Result sets on the wire *)

\* InSet and SetOf for any response r: what the first frames of a response say
\* does not change when it grows.
Inside(r, p) ==
  \E q \in 1..(p - 1) : r[q].kind = "desc" /\ \A x \in (q + 1)..(p - 1) : r[x].kind # "complete"
Ends(r, q) == r[q].kind \in {"desc", "complete"} /\ Inside(r, q)
SetNo(r, p) == Cardinality({q \in 1..(p - 1) : Ends(r, q)})

LEMMA SetsOnWire ==
  \A p : (InSet(p) <=> Inside(response, p)) /\ SetOf(p) = SetNo(response, p)
BY DEF InSet, Inside, SetOf, SetNo, Ends, KindAt

LEMMA InsideFirst == \A r : ~Inside(r, 1)
BY DEF Inside

LEMMA InsideNext ==
  ASSUME NEW r, NEW p \in Nat \ {0}
  PROVE  Inside(r, p + 1) <=>
           (r[p].kind = "desc" \/ (Inside(r, p) /\ r[p].kind # "complete"))
<1>1. ASSUME Inside(r, p + 1) PROVE r[p].kind = "desc" \/ (Inside(r, p) /\ r[p].kind # "complete")
  <2>1. PICK q \in 1..(p + 1 - 1) :
          r[q].kind = "desc" /\ \A x \in (q + 1)..(p + 1 - 1) : r[x].kind # "complete"
    BY <1>1 DEF Inside
  <2>2. CASE q = p
    BY <2>1, <2>2
  <2>3. CASE q # p
    <3>1. q \in 1..(p - 1) /\ p \in (q + 1)..(p + 1 - 1)
      BY <2>3
    <3>2. \A x \in (q + 1)..(p - 1) : x \in (q + 1)..(p + 1 - 1)
      BY <3>1
    <3> QED
      BY <2>1, <3>1, <3>2 DEF Inside
  <2> QED
    BY <2>2, <2>3
<1>2. ASSUME r[p].kind = "desc" PROVE Inside(r, p + 1)
  <2>1. p \in 1..(p + 1 - 1) /\ (p + 1)..(p + 1 - 1) = {}
    OBVIOUS
  <2> QED
    BY <1>2, <2>1 DEF Inside
<1>3. ASSUME Inside(r, p), r[p].kind # "complete" PROVE Inside(r, p + 1)
  <2>1. PICK q \in 1..(p - 1) :
          r[q].kind = "desc" /\ \A x \in (q + 1)..(p - 1) : r[x].kind # "complete"
    BY <1>3 DEF Inside
  <2>2. q \in 1..(p + 1 - 1) /\ \A x \in (q + 1)..(p + 1 - 1) : x = p \/ x \in (q + 1)..(p - 1)
    OBVIOUS
  <2> QED
    BY <1>3, <2>1, <2>2 DEF Inside
<1> QED
  BY <1>1, <1>2, <1>3

LEMMA SetNoType ==
  ASSUME NEW r, NEW p \in Nat \ {0}
  PROVE  /\ SetNo(r, p) \in Nat /\ IsFiniteSet({q \in 1..(p - 1) : Ends(r, q)})
         /\ p = 1 => SetNo(r, p) = 0
<1>1. IsFiniteSet(1..(p - 1))
  <2>1. p - 1 \in Nat
    OBVIOUS
  <2> QED
    BY <2>1, IntervalCount
<1>2. IsFiniteSet({q \in 1..(p - 1) : Ends(r, q)})
  BY <1>1, FS_Subset
<1>3. p = 1 => {q \in 1..(p - 1) : Ends(r, q)} = {}
  OBVIOUS
<1> QED
  BY <1>2, <1>3, FS_CardinalityType, FS_EmptySet DEF SetNo

LEMMA SetNoNext ==
  ASSUME NEW r, NEW p \in Nat \ {0}
  PROVE  SetNo(r, p + 1) = IF Ends(r, p) THEN SetNo(r, p) + 1 ELSE SetNo(r, p)
<1> DEFINE S == {q \in 1..(p - 1) : Ends(r, q)}
           T == {q \in 1..(p + 1 - 1) : Ends(r, q)}
<1>1. IsFiniteSet(S) /\ p \notin S
  BY SetNoType
<1>2. T = IF Ends(r, p) THEN S \cup {p} ELSE S
  <2>1. \A q : q \in 1..(p + 1 - 1) <=> q \in 1..(p - 1) \/ q = p
    OBVIOUS
  <2> QED
    BY <2>1
<1> HIDE DEF S, T
<1>3. Ends(r, p) => Cardinality(T) = Cardinality(S) + 1
  BY <1>1, <1>2, FS_AddElement
<1> QED
  BY <1>2, <1>3 DEF SetNo, S, T

LEMMA SetNoGrows ==
  ASSUME NEW r, NEW p \in Nat \ {0}, NEW q \in Nat \ {0}, p <= q
  PROVE  SetNo(r, p) <= SetNo(r, q)
<1> DEFINE S == {x \in 1..(p - 1) : Ends(r, x)}
           T == {x \in 1..(q - 1) : Ends(r, x)}
<1>1. IsFiniteSet(T)
  BY SetNoType
<1>2. S \subseteq T
  OBVIOUS
<1> HIDE DEF S, T
<1>3. Cardinality(S) <= Cardinality(T)
  BY <1>1, <1>2, FS_Subset
<1> QED
  BY <1>3 DEF SetNo, S, T

LEMMA SetsAgree ==
  ASSUME NEW r, NEW u, NEW n \in Nat, \A p \in 1..n : r[p] = u[p], NEW p \in 1..(n + 1)
  PROVE  /\ Inside(r, p) <=> Inside(u, p)
         /\ SetNo(r, p) = SetNo(u, p)
<1>1. ASSUME NEW z \in 1..(n + 1) PROVE Inside(r, z) <=> Inside(u, z)
  <2>1. \A q \in 1..(z - 1) : r[q] = u[q]
    BY SMTT(20)
  <2>2. \A q \in 1..(z - 1) : \A x \in (q + 1)..(z - 1) : r[x] = u[x]
    BY SMTT(20)
  <2> QED
    BY <2>1, <2>2 DEF Inside
<1>2. ASSUME NEW q \in 1..(p - 1) PROVE Ends(r, q) <=> Ends(u, q)
  <2>1. q \in 1..(n + 1) /\ q \in 1..n
    OBVIOUS
  <2> QED
    BY <1>1, <2>1 DEF Ends
<1>3. {q \in 1..(p - 1) : Ends(r, q)} = {q \in 1..(p - 1) : Ends(u, q)}
  BY <1>2
<1> QED
  BY <1>1, <1>3 DEF SetNo

-----------------------------------------------------------------------------
(* The script of a stream *)

\* What the parser has told or will tell, in the order it comes out: a sequence
\* F of events.  Its properties are stated for any mode m and response r of
\* which n frames are read, and position by position, so that they hold of a
\* prefix.
RowAt(r, p) == r[p].kind \in {"row", "dbos"}
Wanted(m, r, p) ==
  \/ RowAt(r, p) /\ (m # "batches" \/ SetNo(r, p) = 0)
  \/ r[p].kind \in {"notice", "complete"} /\ m # "batches"
ToldIn(F, h, p) == \E g \in 1..h : Tells(F[g]) /\ F[g].n = p
OfKind(r, ev) == r[ev.n].kind \in (IF ev.k = "row" THEN {"row", "dbos"} ELSE {ev.k})

\* A row, notice or tag comes after all that is wanted before it on the wire.
WireAt(m, r, n, F, h) ==
  Tells(F[h]) =>
    /\ F[h].n \in 1..n /\ Wanted(m, r, F[h].n) /\ OfKind(r, F[h])
    /\ \A g \in 1..(h - 1) : Tells(F[g]) => F[g].n < F[h].n
    /\ \A p \in 1..(F[h].n - 1) : Wanted(m, r, p) => ToldIn(F, h - 1, p)
\* The start of a set comes after the rows of the sets before it.
StartAt(r, n, F, h) ==
  F[h].k = "start" =>
    /\ F[h].i <= SetNo(r, n + 1)
    /\ \A g \in 1..(h - 1) : F[g].k = "start" => F[g].i < F[h].i
    /\ \A p \in 1..n : RowAt(r, p) /\ SetNo(r, p) < F[h].i => ToldIn(F, h - 1, p)
OpensIn(r, F, s, h) ==
  /\ F[s].k = "start"
  /\ \A x \in (s + 1)..(h - 1) : F[x].k \notin {"start", "end"}
  /\ F[h].k = "row" => F[s].i = SetNo(r, F[h].n)
  /\ F[h].k = "end" =>
       F[s].i = F[h].i /\ F[h].n = Cardinality({x \in s..h : F[x].k = "row"})
BracketAt(m, r, F, h) ==
  m # "batches" /\ F[h].k \in {"row", "end"} => \E s \in 1..(h - 1) : OpensIn(r, F, s, h)
EventAt(m, r, n, F, h) ==
  F[h] \in Event /\ WireAt(m, r, n, F, h) /\ StartAt(r, n, F, h) /\ BracketAt(m, r, F, h)
Good(m, r, n, F) == \A h \in 1..Len(F) : EventAt(m, r, n, F, h)

LEMMA ToldAgrees ==
  ASSUME NEW F, NEW G, NEW h \in Nat, \A i \in 1..h : F[i] = G[i], NEW p
  PROVE  ToldIn(F, h, p) <=> ToldIn(G, h, p)
BY DEF ToldIn

\* An event is judged by those before it.
LEMMA EventAgrees ==
  ASSUME NEW m, NEW r, NEW n, NEW F, NEW G, NEW h \in Nat \ {0},
         \A i \in 1..h : F[i] = G[i], EventAt(m, r, n, F, h)
  PROVE  EventAt(m, r, n, G, h)
<1>1. F[h] = G[h] /\ h - 1 \in Nat /\ \A i \in 1..(h - 1) : F[i] = G[i]
  OBVIOUS
<1>2. \A p : ToldIn(F, h - 1, p) <=> ToldIn(G, h - 1, p)
  BY <1>1, ToldAgrees
<1>3. WireAt(m, r, n, G, h)
  BY <1>1, <1>2 DEF EventAt, WireAt
<1>4. StartAt(r, n, G, h)
  BY <1>1, <1>2 DEF EventAt, StartAt
<1>5. BracketAt(m, r, G, h)
  <2> SUFFICES ASSUME m # "batches", G[h].k \in {"row", "end"}
               PROVE  \E s \in 1..(h - 1) : OpensIn(r, G, s, h)
    BY DEF BracketAt
  <2>1. PICK s \in 1..(h - 1) : OpensIn(r, F, s, h)
    BY <1>1 DEF EventAt, BracketAt
  <2>2. F[s] = G[s] /\ (\A x \in (s + 1)..(h - 1) : F[x] = G[x]) /\ (\A x \in s..h : F[x] = G[x])
    OBVIOUS
  <2>3. {x \in s..h : F[x].k = "row"} = {x \in s..h : G[x].k = "row"}
    BY <2>2
  <2>4. OpensIn(r, G, s, h)
    BY <1>1, <2>1, <2>2, <2>3 DEF OpensIn
  <2> QED
    BY <2>4
<1> QED
  BY <1>1, <1>3, <1>4, <1>5 DEF EventAt

LEMMA GoodPrefix ==
  ASSUME NEW m, NEW r, NEW n, NEW F \in Seq(Event), NEW G \in Seq(Event), Good(m, r, n, F),
         Len(G) <= Len(F), \A i \in 1..Len(G) : F[i] = G[i]
  PROVE  Good(m, r, n, G)
<1> SUFFICES ASSUME NEW h \in 1..Len(G) PROVE EventAt(m, r, n, G, h)
  BY DEF Good
<1>1. Len(F) \in Nat /\ Len(G) \in Nat
  BY LenProperties
<1>2. h \in 1..Len(F) /\ h \in Nat \ {0} /\ \A i \in 1..h : F[i] = G[i]
  BY <1>1
<1>3. EventAt(m, r, n, F, h)
  BY <1>2 DEF Good
<1> QED
  BY <1>2, <1>3, EventAgrees

LEMMA AppendFacts ==
  ASSUME NEW F \in Seq(Event), NEW ev \in Event
  PROVE  /\ Append(F, ev) \in Seq(Event) /\ Len(Append(F, ev)) = Len(F) + 1 /\ Len(F) \in Nat
         /\ Append(F, ev)[Len(F) + 1] = ev /\ \A i \in 1..Len(F) : Append(F, ev)[i] = F[i]
BY AppendProperties, LenProperties

LEMMA GoodAppend ==
  ASSUME NEW m, NEW r, NEW n, NEW F \in Seq(Event), NEW ev \in Event, Good(m, r, n, F),
         EventAt(m, r, n, Append(F, ev), Len(F) + 1)
  PROVE  Good(m, r, n, Append(F, ev))
<1> DEFINE G == Append(F, ev)
<1>1. /\ Len(G) = Len(F) + 1 /\ Len(F) \in Nat /\ \A i \in 1..Len(F) : G[i] = F[i]
  BY AppendFacts
<1> HIDE DEF G
<1>2. ASSUME NEW h \in 1..Len(G) PROVE EventAt(m, r, n, G, h)
  <2>1. CASE h = Len(F) + 1
    BY <2>1 DEF G
  <2>2. CASE h # Len(F) + 1
    <3>1. h \in 1..Len(F) /\ h \in Nat \ {0} /\ \A i \in 1..h : F[i] = G[i]
      BY <1>1, <2>2
    <3>2. EventAt(m, r, n, F, h)
      BY <3>1 DEF Good
    <3> QED
      BY <3>1, <3>2, EventAgrees
  <2> QED
    BY <2>1, <2>2
<1> QED
  BY <1>2 DEF Good, G

\* What is wanted of the frames that are read does not change when the response
\* grows or another frame is read.
LEMMA WantedAgrees ==
  ASSUME NEW m, NEW r, NEW u, NEW n \in Nat, \A p \in 1..n : r[p] = u[p], NEW p \in 1..n
  PROVE  (Wanted(m, r, p) <=> Wanted(m, u, p)) /\ SetNo(r, p) = SetNo(u, p)
<1>1. p \in 1..(n + 1) /\ r[p] = u[p]
  OBVIOUS
<1>2. SetNo(r, p) = SetNo(u, p)
  BY <1>1, SetsAgree
<1> QED
  BY <1>1, <1>2 DEF Wanted, RowAt

LEMMA GoodLater ==
  ASSUME NEW m, NEW r, NEW u, NEW n \in Nat, NEW l \in {n, n + 1}, \A p \in 1..n : r[p] = u[p],
         NEW F \in Seq(Event), Good(m, r, n, F)
  PROVE  Good(m, u, l, F)
<1> SUFFICES ASSUME NEW h \in 1..Len(F) PROVE EventAt(m, u, l, F, h)
  BY DEF Good
<1>1. EventAt(m, r, n, F, h) /\ F[h] \in Event /\ F[h].i \in Nat /\ F[h].n \in Nat
  BY DEF Good, EventAt, Event
<1>2. l \in Nat /\ n <= l /\ n + 1 \in Nat \ {0} /\ l + 1 \in Nat \ {0} /\ h \in Nat
  OBVIOUS
<1>3. WireAt(m, u, l, F, h)
  <2> SUFFICES ASSUME Tells(F[h]) PROVE WireAt(m, u, l, F, h)
    BY DEF WireAt
  <2>1. /\ F[h].n \in 1..n /\ Wanted(m, r, F[h].n) /\ OfKind(r, F[h])
        /\ \A g \in 1..(h - 1) : Tells(F[g]) => F[g].n < F[h].n
        /\ \A p \in 1..(F[h].n - 1) : Wanted(m, r, p) => ToldIn(F, h - 1, p)
    BY <1>1 DEF EventAt, WireAt
  <2>2. F[h].n \in 1..l /\ Wanted(m, u, F[h].n) /\ OfKind(u, F[h])
    <3>1. F[h].n \in 1..l
      BY <1>2, <2>1
    <3>2. Wanted(m, u, F[h].n)
      BY <2>1, WantedAgrees
    <3>3. OfKind(u, F[h])
      BY <2>1 DEF OfKind
    <3> QED
      BY <3>1, <3>2, <3>3
  <2>3. ASSUME NEW p \in 1..(F[h].n - 1), Wanted(m, u, p) PROVE ToldIn(F, h - 1, p)
    <3>1. p \in 1..n
      BY <2>1
    <3>2. Wanted(m, r, p)
      BY <2>3, <3>1, WantedAgrees
    <3> QED
      BY <2>1, <3>2
  <2> QED
    BY <2>1, <2>2, <2>3 DEF WireAt
<1>4. StartAt(u, l, F, h)
  <2> SUFFICES ASSUME F[h].k = "start" PROVE StartAt(u, l, F, h)
    BY DEF StartAt
  <2>1. /\ F[h].i <= SetNo(r, n + 1)
        /\ \A g \in 1..(h - 1) : F[g].k = "start" => F[g].i < F[h].i
        /\ \A p \in 1..n : RowAt(r, p) /\ SetNo(r, p) < F[h].i => ToldIn(F, h - 1, p)
    BY <1>1 DEF EventAt, StartAt
  <2>2. SetNo(r, n + 1) = SetNo(u, n + 1)
    <3>1. n + 1 \in 1..(n + 1)
      OBVIOUS
    <3> QED
      BY <3>1, SetsAgree
  <2>3. SetNo(u, n + 1) <= SetNo(u, l + 1) /\ SetNo(u, n + 1) \in Nat /\ SetNo(u, l + 1) \in Nat
    <3>1. n + 1 <= l + 1
      BY <1>2
    <3> QED
      BY <1>2, <3>1, SetNoGrows, SetNoType
  <2>4. F[h].i <= SetNo(u, l + 1)
    BY <1>1, <2>1, <2>2, <2>3
  <2>5. ASSUME NEW p \in 1..l, RowAt(u, p), SetNo(u, p) < F[h].i PROVE ToldIn(F, h - 1, p)
    <3>1. CASE p \in 1..n
      <4>1. RowAt(r, p) /\ SetNo(r, p) = SetNo(u, p)
        BY <2>5, <3>1, WantedAgrees DEF RowAt
      <4> QED
        BY <2>1, <2>5, <3>1, <4>1
    <3>2. CASE p \notin 1..n
      <4>1. p = n + 1
        BY <1>2, <3>2
      <4>2. SetNo(u, p) = SetNo(r, n + 1) /\ SetNo(u, p) \in Nat
        BY <2>2, <2>3, <4>1
      <4> QED
        BY <1>1, <2>1, <2>5, <4>2
    <3> QED
      BY <3>1, <3>2
  <2> QED
    BY <2>1, <2>4, <2>5 DEF StartAt
<1>5. BracketAt(m, u, F, h)
  <2> SUFFICES ASSUME m # "batches", F[h].k \in {"row", "end"}
               PROVE  \E s \in 1..(h - 1) : OpensIn(u, F, s, h)
    BY DEF BracketAt
  <2>1. PICK s \in 1..(h - 1) : OpensIn(r, F, s, h)
    BY <1>1 DEF EventAt, BracketAt
  <2>2. F[h].k = "row" => SetNo(r, F[h].n) = SetNo(u, F[h].n)
    <3> SUFFICES ASSUME F[h].k = "row" PROVE SetNo(r, F[h].n) = SetNo(u, F[h].n)
      OBVIOUS
    <3>1. F[h].n \in 1..n
      BY <1>1 DEF EventAt, WireAt, Tells
    <3> QED
      BY <3>1, WantedAgrees
  <2>3. OpensIn(u, F, s, h)
    BY <2>1, <2>2 DEF OpensIn
  <2> QED
    BY <2>3
<1> QED
  BY <1>1, <1>3, <1>4, <1>5 DEF EventAt

\* All that is wanted of the frames read is in the script.
Complete(m, r, n, F) == \A p \in 1..n : Wanted(m, r, p) => ToldIn(F, Len(F), p)

\* The set that is open at the end of the script, with its rows so far, and how
\* the parser's locals p know it
OpenSet(F, i, c) ==
  \E g \in 1..Len(F) :
    /\ F[g].k = "start" /\ F[g].i = i
    /\ \A h \in (g + 1)..Len(F) : F[h].k \notin {"start", "end"}
    /\ c = Cardinality({h \in g..Len(F) : F[h].k = "row"})
Second(F) == \E h \in 1..Len(F) : F[h].k = "start" /\ F[h].i > 0
Link(m, F, p) ==
  m # "batches" =>
    /\ p.started => OpenSet(F, p.index, p.count)
    /\ ~p.started => p.count = 0
    /\ \A h \in 1..Len(F) : F[h].k = "start" => F[h].i < p.index \/ (p.started /\ F[h].i = p.index)
    /\ p.index > 1 \/ (p.index = 1 /\ p.started) => Second(F)

LEMMA CompleteAppend ==
  ASSUME NEW m, NEW r, NEW n, NEW F \in Seq(Event), NEW ev \in Event, Complete(m, r, n, F)
  PROVE  Complete(m, r, n, Append(F, ev))
<1> DEFINE G == Append(F, ev)
<1>1. Len(G) = Len(F) + 1 /\ Len(F) \in Nat /\ \A i \in 1..Len(F) : G[i] = F[i]
  BY AppendFacts
<1> HIDE DEF G
<1>2. ASSUME NEW p, ToldIn(F, Len(F), p) PROVE ToldIn(G, Len(G), p)
  <2>1. PICK g \in 1..Len(F) : Tells(F[g]) /\ F[g].n = p
    BY <1>2 DEF ToldIn
  <2>2. g \in 1..Len(G) /\ G[g] = F[g]
    BY <1>1
  <2> QED
    BY <2>1, <2>2 DEF ToldIn
<1> QED
  BY <1>2 DEF Complete, G

LEMMA SecondAppend ==
  ASSUME NEW F \in Seq(Event), NEW ev \in Event, Second(F)
  PROVE  Second(Append(F, ev))
<1> DEFINE G == Append(F, ev)
<1>1. Len(G) = Len(F) + 1 /\ Len(F) \in Nat /\ \A i \in 1..Len(F) : G[i] = F[i]
  BY AppendFacts
<1> HIDE DEF G
<1>2. PICK h \in 1..Len(F) : F[h].k = "start" /\ F[h].i > 0
  BY DEF Second
<1>3. h \in 1..Len(G) /\ G[h] = F[h]
  BY <1>1
<1> QED
  BY <1>2, <1>3 DEF Second, G

\* emit_result_start
LEMMA StartStep ==
  ASSUME NEW m \in Modes, NEW r, NEW n \in Nat, NEW F \in Seq(Event), NEW p \in Parses, NEW q \in Parses,
         Good(m, r, n, F), Complete(m, r, n, F), Link(m, F, p),
         m # "batches", ~p.started, p.index = SetNo(r, n + 1),
         q.started, q.index = p.index, q.count = p.count
  PROVE  LET G == Append(F, Ev("start", p.index, 0))
         IN G \in Seq(Event) /\ Good(m, r, n, G) /\ Complete(m, r, n, G) /\ Link(m, G, q)
<1> DEFINE ev == Ev("start", p.index, 0)
           G == Append(F, ev)
           L == Len(F)
<1>0. p.index \in Nat /\ p.count \in Nat
  BY DEF Parses
<1>1. ev \in Event /\ ev.k = "start" /\ ev.i = p.index
  BY <1>0 DEF Ev, Event
<1> HIDE DEF ev
<1>2. /\ G \in Seq(Event) /\ Len(G) = L + 1 /\ L \in Nat /\ G[L + 1] = ev
      /\ \A i \in 1..L : G[i] = F[i]
  BY <1>1, AppendFacts
<1> HIDE DEF G
<1>3. /\ p.count = 0
      /\ \A h \in 1..L : F[h].k = "start" => F[h].i < p.index
      /\ p.index > 1 => Second(F)
  BY DEF Link
<1> DEFINE K == L + 1
<1>k. K = L + 1 /\ K - 1 = L /\ K \in Nat \ {0} /\ Len(G) = K /\ G[K] = ev /\ \A h : h \in 1..K <=> h \in 1..L \/ h = K
  BY <1>2
<1> HIDE DEF L, K
<1>4. EventAt(m, r, n, G, K)
  <2>1. G[K] \in Event /\ G[K].k = "start" /\ G[K].i = p.index
    BY <1>k, <1>1, <1>2
  <2>2. K - 1 = L
    BY <1>2, <1>k
  <2>3. WireAt(m, r, n, G, K) /\ BracketAt(m, r, G, K)
    BY <2>1 DEF WireAt, BracketAt, Tells
  <2>4. StartAt(r, n, G, K)
    <3>1. G[K].i <= SetNo(r, n + 1)
      BY <1>0, <2>1
    <3>2. \A g \in 1..L : G[g].k = "start" => G[g].i < G[K].i
      BY <1>2, <1>3, <2>1
    <3>3. ASSUME NEW x \in 1..n, RowAt(r, x), SetNo(r, x) < G[K].i PROVE ToldIn(G, L, x)
      <4>1. Wanted(m, r, x)
        BY <3>3 DEF Wanted
      <4>2. ToldIn(F, L, x)
        BY <4>1 DEF Complete, L
      <4> QED
        BY <1>2, <4>2, ToldAgrees
    <3> QED
      BY <2>2, <3>1, <3>2, <3>3 DEF StartAt
  <2> QED
    BY <2>1, <2>3, <2>4 DEF EventAt
<1>5. Good(m, r, n, G)
  BY <1>1, <1>4, GoodAppend DEF G, L, K
<1>6. Complete(m, r, n, G)
  BY <1>1, CompleteAppend DEF G
<1>7. OpenSet(G, q.index, q.count)
  <2>1. K \in 1..Len(G) /\ (K + 1)..Len(G) = {} /\ K..Len(G) = {K}
    BY <1>2, <1>k
  <2>2. {h \in K..Len(G) : G[h].k = "row"} = {}
    BY <1>k, <1>1, <1>2, <2>1
  <2>3. q.count = Cardinality({h \in K..Len(G) : G[h].k = "row"})
    BY <1>3, <2>2, FS_EmptySet
  <2> QED
    BY <1>k, <1>1, <1>2, <2>1, <2>3 DEF OpenSet
<1>8. \A h \in 1..Len(G) : G[h].k = "start" => G[h].i < q.index \/ G[h].i = q.index
  <2>1. \A h \in 1..Len(G) : h = K \/ h \in 1..L
    BY <1>2, <1>k
  <2> QED
    BY <1>k, <1>1, <1>2, <1>3, <2>1
<1>9. q.index > 1 \/ q.index = 1 => Second(G)
  <2> SUFFICES ASSUME p.index > 1 \/ p.index = 1 PROVE Second(G)
    OBVIOUS
  <2>1. K \in 1..Len(G) /\ G[K].k = "start" /\ G[K].i > 0
    BY <1>k, <1>0, <1>1, <1>2
  <2> QED
    BY <2>1 DEF Second
<1>10. Link(m, G, q)
  BY <1>7, <1>8, <1>9 DEF Link
<1> QED
  BY <1>2, <1>5, <1>6, <1>10 DEF G, ev

\* A row, a notice or a tag is told when it is read.
LEMMA TellStep ==
  ASSUME NEW m \in Modes, NEW r, NEW n \in Nat, NEW F \in Seq(Event), NEW p \in Parses, NEW q \in Parses,
         NEW ev \in Event, Tells(ev), ev.n = n + 1, Wanted(m, r, n + 1), OfKind(r, ev),
         Good(m, r, n, F), Complete(m, r, n, F), Link(m, F, p),
         m # "batches" /\ ev.k = "row" => p.started /\ p.index = SetNo(r, n + 1),
         q.started <=> p.started, q.index = p.index,
         q.count = IF ev.k = "row" THEN p.count + 1 ELSE p.count
  PROVE  LET G == Append(F, ev)
         IN G \in Seq(Event) /\ Good(m, r, n + 1, G) /\ Complete(m, r, n + 1, G) /\ Link(m, G, q)
<1> DEFINE G == Append(F, ev)
           L == Len(F)
<1>0. p.index \in Nat /\ p.count \in Nat
  BY DEF Parses
<1>1. /\ G \in Seq(Event) /\ Len(G) = L + 1 /\ L \in Nat /\ G[L + 1] = ev
      /\ \A i \in 1..L : G[i] = F[i]
  BY AppendFacts
<1> HIDE DEF G
<1>2. Good(m, r, n + 1, F)
  BY GoodLater
<1>3. ASSUME m # "batches", p.started
      PROVE  \E g \in 1..L :
               /\ F[g].k = "start" /\ F[g].i = p.index
               /\ \A h \in (g + 1)..L : F[h].k \notin {"start", "end"}
               /\ p.count = Cardinality({h \in g..L : F[h].k = "row"})
  BY <1>3 DEF Link, OpenSet
<1>4. \A x \in 1..n : Wanted(m, r, x) => ToldIn(F, L, x)
  BY DEF Complete
<1>5. \A h \in 1..L : EventAt(m, r, n, F, h)
  BY DEF Good
<1> DEFINE K == L + 1
<1>k. K = L + 1 /\ K - 1 = L /\ K \in Nat \ {0} /\ Len(G) = K /\ G[K] = ev /\ \A h : h \in 1..K <=> h \in 1..L \/ h = K
  BY <1>1
<1> HIDE DEF L, K
<1>6. EventAt(m, r, n + 1, G, K)
  <2>1. G[K] = ev /\ K - 1 = L 
    BY <1>1, <1>k
  <2>2. WireAt(m, r, n + 1, G, K)
    <3>1. ASSUME NEW g \in 1..L, Tells(G[g]) PROVE G[g].n < n + 1
      <4>1. Tells(F[g]) /\ F[g] = G[g]
        BY <1>1, <3>1
      <4>2. F[g].n \in 1..n
        BY <1>5, <4>1 DEF EventAt, WireAt
      <4> QED
        BY <4>1, <4>2
    <3>2. ASSUME NEW x \in 1..n, Wanted(m, r, x) PROVE ToldIn(G, L, x)
      <4>1. ToldIn(F, L, x)
        BY <1>4, <3>2
      <4> QED
        BY <1>1, <4>1, ToldAgrees
    <3> DEFINE N == n + 1
    <3>3. N \in 1..N /\ N - 1 = n /\ ev.n = N /\ Wanted(m, r, N)
      OBVIOUS
    <3>4. \A g \in 1..L : Tells(G[g]) => G[g].n < N
      BY <3>1
    <3> HIDE DEF N
    <3>5. WireAt(m, r, N, G, K)
      BY <2>1, <3>2, <3>3, <3>4 DEF WireAt
    <3> QED
      BY <3>5 DEF N
  <2>3. StartAt(r, n + 1, G, K)
    BY <2>1 DEF StartAt, Tells
  <2>4. BracketAt(m, r, G, K)
    <3> SUFFICES ASSUME m # "batches", ev.k = "row"
                 PROVE  \E s \in 1..L : OpensIn(r, G, s, K)
      BY <2>1 DEF BracketAt, Tells
    <3>1. PICK g \in 1..L :
            /\ F[g].k = "start" /\ F[g].i = p.index
            /\ \A h \in (g + 1)..L : F[h].k \notin {"start", "end"}
      BY <1>3
    <3>2. G[g] = F[g] /\ \A h \in (g + 1)..L : G[h] = F[h]
      BY <1>1, <1>k
    <3>3. OpensIn(r, G, g, K)
      BY <2>1, <3>1, <3>2 DEF OpensIn
    <3> QED
      BY <3>3
  <2> QED
    BY <2>1, <2>2, <2>3, <2>4 DEF EventAt
<1>7. Good(m, r, n + 1, G)
  BY <1>2, <1>6, GoodAppend DEF G, L, K
<1>8. Complete(m, r, n + 1, G)
  <2>1. ASSUME NEW x \in 1..(n + 1), Wanted(m, r, x) PROVE ToldIn(G, Len(G), x)
    <3>1. CASE x = n + 1
      <4>1. K \in 1..Len(G)
        BY <1>1, <1>k
      <4> QED
        BY <1>1, <1>k, <3>1, <4>1 DEF ToldIn
    <3>2. CASE x # n + 1
      <4>1. x \in 1..n
        BY <3>2
      <4>2. PICK g \in 1..L : Tells(F[g]) /\ F[g].n = x
        BY <1>4, <2>1, <4>1 DEF ToldIn
      <4>3. g \in 1..Len(G) /\ G[g] = F[g]
        BY <1>1, <1>k
      <4> QED
        BY <4>2, <4>3 DEF ToldIn
    <3> QED
      BY <3>1, <3>2
  <2> QED
    BY <2>1 DEF Complete
<1>9. Link(m, G, q)
  <2> SUFFICES ASSUME m # "batches" PROVE Link(m, G, q)
    BY DEF Link
  <2>1. ASSUME q.started PROVE OpenSet(G, q.index, q.count)
    <3>1. PICK g \in 1..L :
            /\ F[g].k = "start" /\ F[g].i = p.index
            /\ \A h \in (g + 1)..L : F[h].k \notin {"start", "end"}
            /\ p.count = Cardinality({h \in g..L : F[h].k = "row"})
      BY <1>3, <2>1
    <3> DEFINE A == {h \in g..L : F[h].k = "row"}
               B == {h \in g..Len(G) : G[h].k = "row"}
    <3>2. g \in 1..Len(G) /\ G[g] = F[g]
      BY <1>1, <1>k
    <3>3. \A h \in (g + 1)..Len(G) : G[h].k \notin {"start", "end"}
      <4>1. \A h \in (g + 1)..Len(G) : h = K \/ (h \in (g + 1)..L /\ h \in 1..L)
        BY <1>1, <1>k
      <4> QED
        BY <1>1, <1>k, <3>1, <4>1 DEF Tells
    <3>4. IsFiniteSet(A) /\ K \notin A
      <4>1. IsFiniteSet(1..L) /\ A \subseteq 1..L
        BY <1>1, IntervalCount
      <4>2. K \notin 1..L
        BY <1>1, <1>k
      <4> QED
        BY <4>1, <4>2, FS_Subset
    <3>5. B = IF ev.k = "row" THEN A \cup {K} ELSE A
      <4>1. \A h : h \in g..Len(G) <=> h \in g..L \/ h = K
        BY <1>1, <1>k
      <4>2. \A h \in g..L : G[h] = F[h]
        BY <1>1, <1>k
      <4>3. \A h \in g..L : h # K
        BY <1>1, <1>k
      <4> QED
        BY <1>1, <4>1, <4>2, <4>3
    <3> HIDE DEF A, B
    <3>6. Cardinality(B) = IF ev.k = "row" THEN Cardinality(A) + 1 ELSE Cardinality(A)
      BY <3>4, <3>5, FS_AddElement
    <3>7. q.count = Cardinality(B)
      BY <3>1, <3>6 DEF A
    <3> QED
      BY <3>1, <3>2, <3>3, <3>7 DEF OpenSet, B
  <2>2. ~q.started => q.count = 0
    BY DEF Link
  <2>3. \A h \in 1..Len(G) : G[h].k = "start" => G[h].i < q.index \/ (q.started /\ G[h].i = q.index)
    <3>1. \A h \in 1..Len(G) : h = K \/ h \in 1..L
      BY <1>1, <1>k
    <3>2. \A h \in 1..L : F[h].k = "start" => F[h].i < p.index \/ (p.started /\ F[h].i = p.index)
      BY DEF Link, L
    <3> QED
      BY <1>1, <1>k, <3>1, <3>2 DEF Tells
  <2>4. q.index > 1 \/ (q.index = 1 /\ q.started) => Second(G)
    BY SecondAppend DEF Link, G
  <2> QED
    BY <2>1, <2>2, <2>3, <2>4 DEF Link
<1> QED
  BY <1>1, <1>7, <1>8, <1>9 DEF G

\* finish_response_set
LEMMA EndStep ==
  ASSUME NEW m \in Modes, NEW r, NEW n \in Nat, NEW F \in Seq(Event), NEW p \in Parses, NEW q \in Parses,
         Good(m, r, n, F), Complete(m, r, n, F), Link(m, F, p),
         m # "batches", p.started,
         ~q.started, q.index = p.index + 1, q.count = 0
  PROVE  LET G == Append(F, Ev("end", p.index, p.count))
         IN G \in Seq(Event) /\ Good(m, r, n, G) /\ Complete(m, r, n, G) /\ Link(m, G, q)
<1> DEFINE ev == Ev("end", p.index, p.count)
           G == Append(F, ev)
           L == Len(F)
<1>0. p.index \in Nat /\ p.count \in Nat
  BY DEF Parses
<1>1. ev \in Event /\ ev.k = "end" /\ ev.i = p.index /\ ev.n = p.count
  BY <1>0 DEF Ev, Event
<1> HIDE DEF ev
<1>2. /\ G \in Seq(Event) /\ Len(G) = L + 1 /\ L \in Nat /\ G[L + 1] = ev
      /\ \A i \in 1..L : G[i] = F[i]
  BY <1>1, AppendFacts
<1> HIDE DEF G
<1>3. PICK g \in 1..L :
        /\ F[g].k = "start" /\ F[g].i = p.index
        /\ \A h \in (g + 1)..L : F[h].k \notin {"start", "end"}
        /\ p.count = Cardinality({h \in g..L : F[h].k = "row"})
  BY DEF Link, OpenSet
<1>4. \A h \in 1..L : F[h].k = "start" => F[h].i < p.index \/ F[h].i = p.index
  BY DEF Link
<1>5. \A h \in 1..L : F[h].i \in Nat
  <2>1. \A h \in 1..L : F[h] \in Event
    BY ElementOfSeq
  <2> QED
    BY <2>1 DEF Event
<1>6. p.index > 1 \/ p.index = 1 => Second(F)
  BY DEF Link
<1> DEFINE K == L + 1
<1>k. K = L + 1 /\ K - 1 = L /\ K \in Nat \ {0} /\ Len(G) = K /\ G[K] = ev /\ \A h : h \in 1..K <=> h \in 1..L \/ h = K
  BY <1>2
<1> HIDE DEF L, K
<1>7. EventAt(m, r, n, G, K)
  <2>1. G[K] = ev /\ K - 1 = L
    BY <1>2, <1>k
  <2>2. WireAt(m, r, n, G, K) /\ StartAt(r, n, G, K)
    BY <1>1, <2>1 DEF WireAt, StartAt, Tells
  <2>3. OpensIn(r, G, g, K)
    <3>1. G[g] = F[g] /\ \A h \in (g + 1)..L : G[h] = F[h]
      BY <1>2, <1>k
    <3>2. {h \in g..K : G[h].k = "row"} = {h \in g..L : F[h].k = "row"}
      <4>1. \A h : h \in g..K <=> h \in g..L \/ h = K
        BY <1>2, <1>k
      <4>2. \A h \in g..L : G[h] = F[h]
        BY <1>2, <1>k
      <4> QED
        BY <1>k, <1>1, <1>2, <4>1, <4>2
    <3> QED
      BY <1>k, <1>1, <1>3, <2>1, <3>1, <3>2 DEF OpensIn
  <2>4. BracketAt(m, r, G, K)
    BY <2>1, <2>3 DEF BracketAt
  <2> QED
    BY <1>1, <2>1, <2>2, <2>4 DEF EventAt
<1>8. Good(m, r, n, G)
  BY <1>1, <1>7, GoodAppend DEF G, L, K
<1>9. Complete(m, r, n, G)
  BY <1>1, CompleteAppend DEF G
<1>10. \A h \in 1..Len(G) : G[h].k = "start" => G[h].i < q.index
  <2>1. \A h \in 1..Len(G) : h = K \/ h \in 1..L
    BY <1>2, <1>k
  <2>2. \A h \in 1..L : F[h].k = "start" => F[h].i < p.index + 1
    BY <1>0, <1>4, <1>5
  <2> QED
    BY <1>k, <1>1, <1>2, <2>1, <2>2
<1>11. q.index > 1 => Second(G)
  <2> SUFFICES ASSUME q.index > 1 PROVE Second(G)
    OBVIOUS
  <2>1. p.index > 1 \/ p.index = 1
    BY <1>0
  <2> QED
    BY <1>1, <1>6, <2>1, SecondAppend DEF G
<1>12. Link(m, G, q)
  BY <1>10, <1>11 DEF Link
<1> QED
  BY <1>2, <1>8, <1>9, <1>12 DEF G, ev

-----------------------------------------------------------------------------
(* Where the parts of a script are *)

\* The events q, or a sequence of such parts, are those of F after x and up to y.
One(F, q, x, y) == y = x + Len(q) /\ \A j \in 1..Len(q) : F[x + j] = q[j]
Laid(F, parts, x, y) ==
  \E c \in [1..(Len(parts) + 1) -> 0..y] :
    /\ c[1] = x /\ c[Len(parts) + 1] = y
    /\ \A i \in 1..Len(parts) : One(F, parts[i], c[i], c[i + 1])

Parts == Seq(Seq(Event))

LEMMA PartFacts ==
  ASSUME NEW parts \in Parts
  PROVE  /\ Len(parts) \in Nat /\ DOMAIN parts = 1..Len(parts)
         /\ \A i \in 1..Len(parts) : parts[i] \in Seq(Event) /\ Len(parts[i]) \in Nat
<1>1. \A i \in 1..Len(parts) : parts[i] \in Seq(Event)
  BY ElementOfSeq DEF Parts
<1> QED
  BY <1>1, LenProperties DEF Parts

LEMMA LaidEmpty ==
  ASSUME NEW F, NEW x \in Nat
  PROVE  Laid(F, <<>>, x, x) /\ \A y \in Nat : Laid(F, <<>>, x, y) => y = x
<1>1. Len(<<>>) = 0 /\ 0 + 1 = 1 /\ 1..0 = {}
  OBVIOUS
<1>2. [i \in 1..1 |-> x] \in [1..1 -> 0..x] /\ [i \in 1..1 |-> x][1] = x
  OBVIOUS
<1> QED
  BY <1>1, <1>2 DEF Laid

LEMMA LaidTail ==
  ASSUME NEW F, NEW parts \in Parts, parts # <<>>, NEW x \in Nat, NEW y \in Nat, Laid(F, parts, x, y)
  PROVE  \E z \in Nat : One(F, Head(parts), x, z) /\ Laid(F, Tail(parts), z, y)
<1> DEFINE n == Len(parts)
           rest == Tail(parts)
<1>1. PICK c \in [1..(n + 1) -> 0..y] :
        /\ c[1] = x /\ c[n + 1] = y
        /\ \A i \in 1..n : One(F, parts[i], c[i], c[i + 1])
  BY DEF Laid
<1>2. /\ n \in Nat /\ n > 0 /\ Head(parts) = parts[1] /\ Len(rest) = n - 1
      /\ \A i \in 1..(n - 1) : rest[i] = parts[i + 1]
  <2>1. n \in Nat /\ n # 0
    BY PartFacts, EmptySeq DEF Parts
  <2>2. /\ Head(parts) = parts[1] /\ Len(rest) = n - 1
        /\ \A i \in 1..Len(rest) : rest[i] = parts[i + 1]
    BY HeadTailProperties DEF Parts
  <2> QED
    BY <2>1, <2>2
<1> HIDE DEF n, rest
<1> DEFINE d == [i \in 1..n |-> c[i + 1]]
<1>3. d \in [1..n -> 0..y]
  <2>1. \A i \in 1..n : i + 1 \in 1..(n + 1)
    BY <1>2
  <2> QED
    BY <2>1
<1>4. d[1] = c[2] /\ d[n] = y /\ c[2] \in Nat
  <2>1. 1 \in 1..n /\ n \in 1..n /\ 2 \in 1..(n + 1) /\ 1 + 1 = 2
    BY <1>2
  <2>2. d[1] = c[1 + 1]
    BY <2>1
  <2> QED
    BY <1>1, <2>1, <2>2
<1>5. One(F, Head(parts), x, c[2])
  <2>1. 1 \in 1..n /\ 1 + 1 = 2
    BY <1>2
  <2>2. One(F, parts[1], c[1], c[1 + 1])
    BY <1>1, <2>1
  <2> QED
    BY <1>1, <1>2, <2>1, <2>2
<1>6. ASSUME NEW i \in 1..(n - 1) PROVE One(F, rest[i], d[i], d[i + 1])
  <2>1. i \in 1..n /\ i + 1 \in 1..n
    BY <1>2
  <2>2. One(F, parts[i + 1], c[i + 1], c[i + 1 + 1])
    BY <1>1, <2>1
  <2>3. d[i] = c[i + 1] /\ d[i + 1] = c[i + 1 + 1]
    BY <2>1
  <2> QED
    BY <1>2, <2>2, <2>3
<1> HIDE DEF d
<1>7. Laid(F, rest, c[2], y)
  <2>1. Len(rest) + 1 = n
    BY <1>2
  <2>2. \A i \in 1..Len(rest) : One(F, rest[i], d[i], d[i + 1])
    BY <1>2, <1>6
  <2> QED
    BY <1>3, <1>4, <2>1, <2>2 DEF Laid
<1> QED
  BY <1>4, <1>5, <1>7 DEF rest

LEMMA LaidLast ==
  ASSUME NEW F, NEW parts \in Parts, NEW q \in Seq(Event), NEW x \in Nat, NEW y \in Nat, NEW z \in Nat,
         Laid(F, parts, x, y), One(F, q, y, z)
  PROVE  Laid(F, Append(parts, q), x, z)
<1> DEFINE n == Len(parts)
           more == Append(parts, q)
<1>1. PICK c \in [1..(n + 1) -> 0..y] :
        /\ c[1] = x /\ c[n + 1] = y
        /\ \A i \in 1..n : One(F, parts[i], c[i], c[i + 1])
  BY DEF Laid
<1>2. /\ n \in Nat /\ Len(more) = n + 1 /\ more[n + 1] = q
      /\ \A i \in 1..n : more[i] = parts[i]
  <2>1. n \in Nat
    BY PartFacts
  <2>2. Len(more) = n + 1 /\ more[n + 1] = q /\ \A i \in 1..n : more[i] = parts[i]
    BY AppendProperties DEF Parts
  <2> QED
    BY <2>1, <2>2
<1> HIDE DEF n, more
<1> DEFINE d == [i \in 1..(n + 1 + 1) |-> IF i = n + 1 + 1 THEN z ELSE c[i]]
<1>3. d \in [1..(n + 1 + 1) -> 0..z]
  <2>1. \A i \in 1..(n + 1 + 1) : i = n + 1 + 1 \/ i \in 1..(n + 1)
    BY <1>2
  <2>2. y <= z
    BY LenProperties DEF One
  <2>3. \A i \in 1..(n + 1) : c[i] \in 0..z
    BY <2>2
  <2>4. z \in 0..z
    OBVIOUS
  <2> QED
    BY <2>1, <2>3, <2>4
<1>4. d[1] = x /\ d[n + 1 + 1] = z /\ d[n + 1] = y
  <2>1. /\ 1 \in 1..(n + 1 + 1) /\ 1 # n + 1 + 1 /\ n + 1 \in 1..(n + 1 + 1) /\ n + 1 # n + 1 + 1
        /\ n + 1 + 1 \in 1..(n + 1 + 1)
    BY <1>2
  <2> QED
    BY <1>1, <2>1
<1>5. ASSUME NEW i \in 1..(n + 1) PROVE One(F, more[i], d[i], d[i + 1])
  <2>1. CASE i = n + 1
    BY <1>2, <1>4, <2>1
  <2>2. CASE i # n + 1
    <3>1. /\ i \in 1..n /\ i \in 1..(n + 1 + 1) /\ i # n + 1 + 1
          /\ i + 1 \in 1..(n + 1 + 1) /\ i + 1 # n + 1 + 1
      BY <1>2, <2>2
    <3>2. d[i] = c[i] /\ d[i + 1] = c[i + 1]
      BY <3>1
    <3> QED
      BY <1>1, <1>2, <3>1, <3>2
  <2> QED
    BY <2>1, <2>2
<1> HIDE DEF d
<1>6. Laid(F, more, x, z)
  BY <1>2, <1>3, <1>4, <1>5 DEF Laid
<1> QED
  BY <1>6 DEF more

LEMMA LaidFirst ==
  ASSUME NEW F, NEW parts \in Parts, NEW q \in Seq(Event), NEW x \in Nat, NEW y \in Nat, NEW z \in Nat,
         One(F, q, x, y), Laid(F, parts, y, z)
  PROVE  Laid(F, <<q>> \o parts, x, z)
<1> DEFINE n == Len(parts)
           more == <<q>> \o parts
<1>1. PICK c \in [1..(n + 1) -> 0..z] :
        /\ c[1] = y /\ c[n + 1] = z
        /\ \A i \in 1..n : One(F, parts[i], c[i], c[i + 1])
  BY DEF Laid
<1>2. n \in Nat /\ Len(more) = n + 1 /\ more[1] = q /\ \A i \in 1..n : more[i + 1] = parts[i]
  <2>1. n \in Nat
    BY PartFacts
  <2>2. <<q>> \in Seq(Seq(Event)) /\ Len(<<q>>) = 1 /\ <<q>>[1] = q
    OBVIOUS
  <2>3. /\ Len(more) = 1 + n
        /\ \A i \in 1..(1 + n) : more[i] = IF i <= 1 THEN <<q>>[i] ELSE parts[i - 1]
    BY <2>2, ConcatProperties DEF Parts
  <2> HIDE DEF n, more
  <2>4. more[1] = q
    <3>1. 1 \in 1..(1 + n)
      BY <2>1
    <3> QED
      BY <2>2, <2>3, <3>1
  <2>5. ASSUME NEW i \in 1..n PROVE more[i + 1] = parts[i]
    <3>1. i + 1 \in 1..(1 + n) /\ ~(i + 1 <= 1) /\ i + 1 - 1 = i
      BY <2>1
    <3> QED
      BY <2>3, <3>1
  <2> QED
    BY <2>1, <2>3, <2>4, <2>5
<1> HIDE DEF n, more
<1> DEFINE d == [i \in 1..(n + 1 + 1) |-> IF i = 1 THEN x ELSE c[i - 1]]
<1>3. d \in [1..(n + 1 + 1) -> 0..z]
  <2>1. \A i \in 1..(n + 1 + 1) : i = 1 \/ i - 1 \in 1..(n + 1)
    BY <1>2
  <2>2. x <= y
    BY LenProperties DEF One
  <2>3. y \in 0..z
    <3>1. 1 \in 1..(n + 1)
      BY <1>2
    <3> QED
      BY <1>1, <3>1
  <2>4. x \in 0..z
    BY <2>2, <2>3
  <2> QED
    BY <2>1, <2>4
<1>4. d[1] = x /\ (\A i \in 1..(n + 1) : d[i + 1] = c[i])
  <2>1. 1 \in 1..(n + 1 + 1)
    BY <1>2
  <2>2. ASSUME NEW i \in 1..(n + 1) PROVE d[i + 1] = c[i]
    <3>1. i + 1 \in 1..(n + 1 + 1) /\ i + 1 # 1 /\ i + 1 - 1 = i
      BY <1>2
    <3> QED
      BY <3>1
  <2> QED
    BY <2>1, <2>2
<1> HIDE DEF d
<1>5. d[n + 1 + 1] = z /\ d[1 + 1] = y
  <2>1. n + 1 \in 1..(n + 1) /\ 1 \in 1..(n + 1)
    BY <1>2
  <2> QED
    BY <1>1, <1>4, <2>1
<1>6. ASSUME NEW i \in 1..(n + 1) PROVE One(F, more[i], d[i], d[i + 1])
  <2>1. CASE i = 1
    BY <1>2, <1>4, <1>5, <2>1
  <2>2. CASE i # 1
    <3> DEFINE k == i - 1
    <3>1. k \in 1..n /\ k \in 1..(n + 1) /\ k + 1 \in 1..(n + 1) /\ i = k + 1
      BY <1>2, <2>2
    <3> HIDE DEF k
    <3>2. d[i] = c[k] /\ d[i + 1] = c[k + 1] /\ more[i] = parts[k]
      BY <1>2, <1>4, <3>1
    <3> QED
      BY <1>1, <3>1, <3>2
  <2> QED
    BY <2>1, <2>2
<1>7. Laid(F, more, x, z)
  BY <1>2, <1>3, <1>4, <1>5, <1>6 DEF Laid
<1> QED
  BY <1>7 DEF more

LEMMA OneAgrees ==
  ASSUME NEW F, NEW G, NEW q \in Seq(Event), NEW x \in Nat, NEW y \in Nat, One(F, q, x, y),
         NEW z \in Nat, y <= z, \A i \in 1..z : F[i] = G[i]
  PROVE  One(G, q, x, y)
<1>1. Len(q) \in Nat
  BY LenProperties
<1>2. ASSUME NEW j \in 1..Len(q) PROVE G[x + j] = q[j]
  <2>1. x + j \in 1..z
    BY <1>1 DEF One
  <2> QED
    BY <2>1 DEF One
<1> QED
  BY <1>2 DEF One

LEMMA LaidAgrees ==
  ASSUME NEW F, NEW G, NEW parts \in Parts, NEW x \in Nat, NEW y \in Nat, Laid(F, parts, x, y),
         \A i \in 1..y : F[i] = G[i]
  PROVE  Laid(G, parts, x, y) /\ x <= y
<1>1. PICK c \in [1..(Len(parts) + 1) -> 0..y] :
        /\ c[1] = x /\ c[Len(parts) + 1] = y
        /\ \A i \in 1..Len(parts) : One(F, parts[i], c[i], c[i + 1])
  BY DEF Laid
<1>2. ASSUME NEW i \in 1..Len(parts) PROVE One(G, parts[i], c[i], c[i + 1])
  <2>1. i \in 1..(Len(parts) + 1) /\ i + 1 \in 1..(Len(parts) + 1)
    BY PartFacts
  <2>2. c[i] \in Nat /\ c[i + 1] \in Nat /\ c[i + 1] <= y
    BY <2>1
  <2>3. parts[i] \in Seq(Event) /\ One(F, parts[i], c[i], c[i + 1])
    BY <1>1, PartFacts
  <2> QED
    BY <2>2, <2>3, OneAgrees
<1>3. x <= y
  <2>1. 1 \in 1..(Len(parts) + 1)
    BY PartFacts
  <2> QED
    BY <1>1, <2>1
<1> QED
  BY <1>1, <1>2, <1>3 DEF Laid

-----------------------------------------------------------------------------
(* The phases of a statement *)

\* Nothing enters the channel any more.
Halted == Interrupted \/ rx # "open" \/ (drive = "done" /\ terminal # "ok")

PhaseInv ==
  /\ drive \in {"cancel", "cleanup"} => cancelled /\ cause # "none"
  /\ terminal # "none" <=> drive = "done"
  /\ drive \in {"queued", "done"} => todo = <<>> /\ batch = NoBlock
  /\ terminal = "ok" => result = "ok"
  /\ rx = "closed" => refused
  /\ refused => mode = "rows" /\ rx # "open"
  /\ ended # "no" => drive = "done"

LEMMA NextPhase ==
  ASSUME StreamInv, PhaseInv, [Next]_vars
  PROVE  PhaseInv'
<1>0. TypeOK
  BY DEF StreamInv
<1>1. CASE UNCHANGED vars
  BY <1>1 DEF PhaseInv, vars, backendVars, driveVars, parserVars, poolVars, callerVars
<1>2. CASE Parser
  <2>1. drive \in {"run", "cleanup"}
    BY <1>2 DEF Parser, ReadDesc, ReadStd, ReadRow, ReadComplete, ReadNotice, ReadError,
       ReadReady, ReadFatal, Arrived, Parsing, SendBudget, SendChannel, SendFails, PushFlushes,
       PushAcquires, PushCharges, PushFails, PushAdds, FlushNothing, FlushBudget, FlushChannel,
       FlushFails, At
  <2>2. UNCHANGED <<mode, driveVars, callerVars>>
    BY <1>2 DEF Parser, ReadDesc, ReadStd, ReadRow, ReadComplete, ReadNotice, ReadError,
       ReadReady, ReadFatal, Then, SendBudget, SendChannel, SendFails, PushFlushes, PushAcquires,
       PushCharges, PushFails, PushAdds, FlushNothing, FlushBudget, FlushChannel, FlushFails
  <2>3. terminal = "none"
    BY <2>1 DEF PhaseInv
  <2> QED
    BY <2>1, <2>2, <2>3 DEF PhaseInv, driveVars, callerVars
<1>3. ASSUME NEW how, End(how), how \in Outcomes, how = "ok" => result = "ok" PROVE PhaseInv'
  <2>1. /\ drive' = "done" /\ terminal' = how /\ todo' = <<>> /\ batch' = NoBlock
        /\ UNCHANGED <<mode, result, callerVars>>
    BY <1>3 DEF End
  <2>2. how # "none"
    BY <1>3 DEF Outcomes, Results
  <2> QED
    BY <1>3, <2>1, <2>2 DEF PhaseInv, callerVars
<1>4. ASSUME drive \in {"cancel", "cleanup"} PROVE cause \in Outcomes /\ cause # "ok"
  <2>1. cause \in {"cancelled", "timeout"}
    BY <1>0, <1>4 DEF TypeOK, PhaseInv
  <2> QED
    BY <2>1 DEF Outcomes
<1>5. ASSUME Return PROVE PhaseInv'
  <2>1. CASE drive = "run"
    <3>1. result \in Results /\ result \in Outcomes
      BY <1>0, <1>5 DEF Return, TypeOK, Outcomes
    <3> QED
      BY <1>3, <1>5, <2>1, <3>1 DEF Return
  <2>2. CASE drive # "run"
    <3>1. End(cause) /\ drive = "cleanup"
      BY <1>5, <2>2 DEF Return
    <3> QED
      BY <1>3, <1>4, <3>1
  <2> QED
    BY <2>1, <2>2
<1>6. ASSUME SkipRequest \/ CleanupTimeout \/ DropDriver PROVE PhaseInv'
  <2>1. "closed" \in Outcomes /\ "closed" # "ok"
    BY DEF Outcomes
  <2> QED
    BY <1>3, <1>4, <1>6, <2>1 DEF SkipRequest, CleanupTimeout, DropDriver
<1>7. ASSUME Start \/ Cancel \/ Close PROVE PhaseInv'
  BY <1>7 DEF Start, Cancel, Close, PhaseInv, parserVars, callerVars
<1>8. ASSUME NEW why \in {"cancelled", "timeout"}, GiveUp(why) PROVE PhaseInv'
  BY <1>8 DEF GiveUp, PhaseInv, parserVars, callerVars
<1>9. ASSUME SendCancel PROVE PhaseInv'
  BY <1>9 DEF SendCancel, PhaseInv, parserVars, callerVars
<1>10. CASE Drive \/ Deadline \/ CleanupTimeout \/ DropDriver \/ Cancel \/ Close
  BY <1>5, <1>6, <1>7, <1>8, <1>9, <1>10 DEF Drive, NoticeInterrupt, NoticeClosed, Deadline
<1>11. CASE ReleaseSlot \/ Backend
  <2>1. UNCHANGED <<mode, driveVars, parserVars, callerVars>>
    BY <1>11 DEF ReleaseSlot, Backend, SendFrame, SendReady, StopStatement, Respond
  <2> QED
    BY <2>1 DEF PhaseInv, driveVars, parserVars, callerVars
<1>12. ASSUME DropStream PROVE PhaseInv'
  BY <1>12 DEF DropStream, PhaseInv, driveVars, parserVars
<1>13. ASSUME PollPending \/ PollRows \/ PollBatch PROVE PhaseInv'
  BY <1>13 DEF PollPending, PollRows, PollBatch, YieldRow, PhaseInv, driveVars, parserVars
<1>14. ASSUME PollEvent PROVE PhaseInv'
  <2> DEFINE second == mode = "rows" /\ Head(queue).ev.k = "start" /\ Head(queue).ev.i > 0 /\ ~refused
  <2>1. /\ refused' = (refused \/ second) /\ rx' = IF second THEN "closed" ELSE rx
        /\ UNCHANGED <<mode, driveVars, parserVars, ended>>
    BY <1>14 DEF PollEvent
  <2>2. CASE second
    BY <2>1, <2>2 DEF PhaseInv, driveVars, parserVars
  <2>3. CASE ~second
    BY <1>0, <2>1, <2>3 DEF PhaseInv, TypeOK, driveVars, parserVars
  <2> QED
    BY <2>2, <2>3
<1>15. ASSUME PollTerminal PROVE PhaseInv'
  BY <1>15 DEF PollTerminal, PhaseInv, driveVars, parserVars
<1>16. CASE Poll \/ DropStream
  BY <1>12, <1>13, <1>14, <1>15, <1>16 DEF Poll
<1> QED
  BY <1>1, <1>2, <1>10, <1>11, <1>16 DEF Next

-----------------------------------------------------------------------------
(* The parser and the wire *)

\* What the backend sends
WireInv ==
  \A p \in 1..Len(response) :
    /\ response[p].kind \in {"std", "row", "dbos"} => Inside(response, p)
    /\ response[p].kind \in {"ready", "torn"} => p = Len(response)

LEMMA RespondWire ==
  ASSUME StreamInv, WireInv, NEW frames \in Seq([kind : Kinds, size : Nat]), Respond(frames),
         \A j \in 1..Len(frames) :
           /\ frames[j].kind \in {"std", "row", "dbos"} => j = 1 /\ Inside(response, Len(response) + 1)
           /\ frames[j].kind \in {"ready", "torn"} => j = Len(frames)
  PROVE  WireInv'
<1> DEFINE n == Len(response)
           l == Len(frames)
<1>1. response \in Seq([kind : Kinds, size : Nat])
  BY DEF StreamInv, TypeOK
<1>2. /\ n \in Nat /\ l \in Nat /\ Len(response') = n + l
      /\ \A p \in 1..(n + l) : response'[p] = IF p <= n THEN response[p] ELSE frames[p - n]
  BY <1>1, LenProperties, ConcatProperties DEF Respond
<1>3. \A p \in 1..n : response[p].kind \notin {"ready", "torn"}
  <2> SUFFICES ASSUME NEW p \in 1..n, response[p].kind \in {"ready", "torn"} PROVE FALSE
    OBVIOUS
  <2>1. p = Len(response)
    BY DEF WireInv
  <2>2. response # <<>> /\ Last(response) = response[Len(response)]
    <3>1. response # <<>>
      BY <1>1, <1>2, EmptySeq
    <3> QED
      BY <3>1 DEF Last
  <2> QED
    BY <2>1, <2>2 DEF Respond, Answered
<1> HIDE DEF n, l
<1>4. ASSUME NEW p \in 1..(n + 1) PROVE Inside(response, p) <=> Inside(response', p)
  <2>1. \A x \in 1..n : response[x] = response'[x]
    BY <1>2
  <2> QED
    BY <1>2, <2>1, SetsAgree
<1>5. ASSUME NEW p \in 1..(n + l)
      PROVE  /\ response'[p].kind \in {"std", "row", "dbos"} => Inside(response', p)
             /\ response'[p].kind \in {"ready", "torn"} => p = n + l
  <2>1. CASE p <= n
    <3>1. p \in 1..n /\ p \in 1..(n + 1) /\ response'[p] = response[p]
      BY <1>2, <2>1
    <3>2. response[p].kind \in {"std", "row", "dbos"} => Inside(response, p)
      BY <3>1 DEF WireInv, n
    <3> QED
      BY <1>3, <1>4, <3>1, <3>2
  <2>2. CASE ~(p <= n)
    <3> DEFINE j == p - n
    <3>1. j \in 1..l /\ response'[p] = frames[j] /\ p = n + j
      BY <1>2, <2>2
    <3> HIDE DEF j
    <3>2. /\ frames[j].kind \in {"std", "row", "dbos"} => j = 1 /\ Inside(response, n + 1)
          /\ frames[j].kind \in {"ready", "torn"} => j = l
      BY <3>1 DEF n, l
    <3>3. n + 1 \in 1..(n + 1)
      BY <1>2
    <3> QED
      BY <1>4, <3>1, <3>2, <3>3
  <2> QED
    BY <2>1, <2>2
<1> QED
  BY <1>2, <1>5 DEF WireInv, n, l

LEMMA NextWire ==
  ASSUME StreamInv, WireInv, [Next]_vars
  PROVE  WireInv'
<1>1. CASE response' = response
  BY <1>1 DEF WireInv, Inside
<1>2. CASE SendFrame
  <2>1. PICK f \in Frames :
          (f.kind \in {"std", "row", "dbos"} => InSet(Len(response) + 1)) /\ Respond(<<f>>)
    BY <1>2 DEF SendFrame
  <2>2. f \in [kind : Kinds, size : Nat] /\ f.kind # "ready"
    BY StreamAssumption
  <2>3. <<f>> \in Seq([kind : Kinds, size : Nat]) /\ Len(<<f>>) = 1 /\ <<f>>[1] = f
    BY <2>2
  <2>4. f.kind \in {"std", "row", "dbos"} => Inside(response, Len(response) + 1)
    BY <2>1, SetsOnWire
  <2>5. \A j \in 1..Len(<<f>>) : j = 1 /\ j = Len(<<f>>) /\ <<f>>[j] = f
    BY <2>3
  <2> DEFINE frames == <<f>>
  <2>6. /\ frames \in Seq([kind : Kinds, size : Nat]) /\ Respond(frames)
        /\ \A j \in 1..Len(frames) : j = 1 /\ j = Len(frames) /\ frames[j] = f
    BY <2>1, <2>3, <2>5
  <2> HIDE DEF frames
  <2> QED
    BY <2>4, <2>6, RespondWire
<1>3. /\ Ready \in [kind : Kinds, size : Nat] /\ Error \in [kind : Kinds, size : Nat]
      /\ Ready.kind = "ready" /\ Error.kind = "error"
  BY DEF Ready, Error, Kinds
<1>4. CASE SendReady
  <2> DEFINE frames == <<Ready>>
  <2>1. frames \in Seq([kind : Kinds, size : Nat]) /\ Len(frames) = 1 /\ frames[1] = Ready
    BY <1>3
  <2>2. Respond(frames)
    BY <1>4 DEF SendReady
  <2> HIDE DEF frames
  <2>3. \A j \in 1..Len(frames) : j = 1 /\ frames[j] = Ready
    BY <2>1
  <2> QED
    BY <1>3, <2>1, <2>2, <2>3, RespondWire
<1>5. CASE StopStatement
  <2> DEFINE frames == <<Error, Ready>>
  <2>1. /\ frames \in Seq([kind : Kinds, size : Nat]) /\ Len(frames) = 2
        /\ frames[1] = Error /\ frames[2] = Ready
    BY <1>3
  <2>2. Respond(frames)
    BY <1>5 DEF StopStatement
  <2> HIDE DEF frames
  <2>3. \A j \in 1..Len(frames) : (j = 1 /\ frames[j] = Error) \/ (j = 2 /\ frames[j] = Ready)
    BY <2>1
  <2> QED
    BY <1>3, <2>1, <2>2, <2>3, RespondWire
<1>6. CASE UNCHANGED vars
  BY <1>1, <1>6 DEF vars, backendVars
<1>7. CASE Parser
  BY <1>1, <1>7 DEF Parser, ReadDesc, ReadStd, ReadRow, ReadComplete, ReadNotice, ReadError,
     ReadReady, ReadFatal, Then, SendBudget, SendChannel, SendFails, PushFlushes, PushAcquires,
     PushCharges, PushFails, PushAdds, FlushNothing, FlushBudget, FlushChannel, FlushFails, backendVars
<1>8. CASE Drive \/ Deadline \/ CleanupTimeout \/ DropDriver \/ Cancel \/ Close
  BY <1>1, <1>8 DEF Drive, Start, SkipRequest, Return, NoticeInterrupt, NoticeClosed, SendCancel,
     Deadline, CleanupTimeout, DropDriver, Cancel, Close, GiveUp, End, backendVars
<1>9. CASE ReleaseSlot \/ Poll \/ DropStream
  BY <1>1, <1>9 DEF ReleaseSlot, Poll, PollPending, PollRows, PollBatch, PollEvent, PollTerminal,
     YieldRow, DropStream, backendVars
<1> QED
  BY <1>2, <1>4, <1>5, <1>6, <1>7, <1>8, <1>9 DEF Next, Backend

\* A description that ends a result set, or comes after one
Again(r, p) == r[p].kind = "desc" /\ (Inside(r, p) \/ SetNo(r, p) > 0)

\* How the parser's locals know where the wire is
ParseInv ==
  /\ result = "none" => /\ parse.index = SetNo(response, read + 1)
                        /\ parse.cur <=> Inside(response, read + 1)
  /\ result \in {"ok", "db", "config"} => read > 0 /\ response[read].kind = "ready" /\ ~parse.cur
  /\ parse.started => parse.cur /\ Eventful
  /\ \A p \in 1..read : Again(response, p) =>
       /\ parse.index > 1 \/ (parse.index = 1 /\ parse.cur)
       /\ ~Eventful => parse.extra
  /\ parse.extra => ~Eventful /\ parse.index > 0
  /\ ~Eventful /\ parse.cur /\ parse.index > 0 => parse.extra
  /\ result = "ok" => ~parse.extra

\* What the locals q are once a frame of kind k is read
Follows(q, k) ==
  /\ q.index = IF parse.cur /\ k \in {"desc", "complete", "ready"} THEN parse.index + 1 ELSE parse.index
  /\ q.cur <=> (k = "desc" \/ (parse.cur /\ k \notin {"complete", "ready"}))
  /\ q.started => q.cur /\ Eventful
  /\ q.extra <=> (parse.extra \/ (k = "desc" /\ ~Eventful /\ q.index > 0))

LEMMA ParseStep ==
  ASSUME StreamInv, ParseInv, result = "none", read + 1 \in 1..Len(response),
         read' = read + 1, UNCHANGED <<mode, response>>,
         parse' \in Parses, Follows(parse', response[read + 1].kind),
         \/ result' = "none" /\ response[read + 1].kind # "ready"
         \/ result' \in {"ok", "db", "config"} /\ response[read + 1].kind = "ready"
            /\ (result' = "ok" => ~parse.extra)
         \/ result' = "fatal"
  PROVE  ParseInv'
<1> DEFINE n == read + 1
           k == response[n].kind
           q == parse'
<1>1. read \in Nat /\ n \in Nat \ {0} /\ n = read + 1 /\ parse \in Parses
  BY DEF StreamInv, TypeOK, Parses
<1>2. /\ parse.index \in Nat /\ parse.cur \in BOOLEAN /\ parse.extra \in BOOLEAN /\ parse.started \in BOOLEAN
      /\ q.index \in Nat /\ q.cur \in BOOLEAN /\ q.extra \in BOOLEAN /\ q.started \in BOOLEAN
  BY <1>1 DEF Parses
<1>3. /\ q.index = IF parse.cur /\ k \in {"desc", "complete", "ready"} THEN parse.index + 1 ELSE parse.index
      /\ q.cur <=> (k = "desc" \/ (parse.cur /\ k \notin {"complete", "ready"}))
      /\ q.started => q.cur /\ Eventful
      /\ q.extra <=> (parse.extra \/ (k = "desc" /\ ~Eventful /\ q.index > 0))
  BY DEF Follows
<1>4. /\ parse.index = SetNo(response, n) /\ (parse.cur <=> Inside(response, n))
      /\ parse.extra => ~Eventful /\ parse.index > 0
      /\ ~Eventful /\ parse.cur /\ parse.index > 0 => parse.extra
  BY DEF ParseInv
<1>5. /\ Inside(response, n + 1) <=> (k = "desc" \/ (Inside(response, n) /\ k # "complete"))
      /\ SetNo(response, n + 1) = IF Ends(response, n) THEN SetNo(response, n) + 1 ELSE SetNo(response, n)
      /\ Ends(response, n) <=> (k \in {"desc", "complete"} /\ Inside(response, n))
  BY <1>1, InsideNext, SetNoNext DEF Ends
<1>6. \A p \in 1..read : Again(response, p) =>
        /\ parse.index > 1 \/ (parse.index = 1 /\ parse.cur)
        /\ ~Eventful => parse.extra
  BY DEF ParseInv
<1>7. Again(response, n) <=> k = "desc" /\ (parse.cur \/ parse.index > 0)
  BY <1>4 DEF Again
<1>8. Eventful' = Eventful
  BY DEF Eventful
<1>9. /\ result' = "none" => k # "ready"
      /\ result' \in {"ok", "db", "config"} => k = "ready"
      /\ result' = "ok" => ~parse.extra
  OBVIOUS
<1>10. \A p \in 1..n : p = n \/ p \in 1..read
  BY <1>1
<1>11. read' = n /\ response'[read'] = response[n]
  BY <1>1
<1> HIDE DEF n, k, q
<1>12. result' = "none" => q.index = SetNo(response, n + 1) /\ (q.cur <=> Inside(response, n + 1))
  BY <1>3, <1>4, <1>5, <1>9
<1>13. result' \in {"ok", "db", "config"} => n > 0 /\ k = "ready" /\ ~q.cur
  BY <1>1, <1>3, <1>9
<1>14. ASSUME NEW p \in 1..n, Again(response, p)
       PROVE  /\ q.index > 1 \/ (q.index = 1 /\ q.cur)
              /\ ~Eventful => q.extra
  <2>1. CASE p = n
    <3>1. k = "desc" /\ (parse.cur \/ parse.index > 0)
      BY <1>7, <1>14, <2>1
    <3>2. q.index > 0 /\ q.cur
      BY <1>2, <1>3, <3>1
    <3> QED
      BY <1>2, <1>3, <3>1, <3>2
  <2>2. CASE p \in 1..read
    <3>1. parse.index > 1 \/ (parse.index = 1 /\ parse.cur)
      BY <1>6, <1>14, <2>2
    <3>2. ~Eventful => parse.extra
      BY <1>6, <1>14, <2>2
    <3> QED
      BY <1>2, <1>3, <3>1, <3>2
  <2> QED
    BY <1>10, <2>1, <2>2
<1>15. q.extra => ~Eventful /\ q.index > 0
  BY <1>2, <1>3, <1>4
<1>16. ~Eventful /\ q.cur /\ q.index > 0 => q.extra
  BY <1>2, <1>3, <1>4
<1>17. result' = "ok" => ~q.extra
  BY <1>3, <1>9
<1> QED
  BY <1>3, <1>8, <1>11, <1>12, <1>13, <1>14, <1>15, <1>16, <1>17 DEF ParseInv, q, k

\* The locals after emit_result_start and finish_response_set
LEMMA StartedFields ==
  ASSUME NEW p \in Parses
  PROVE  /\ Started(p) \in Parses
         /\ Started(p).started <=> (p.started \/ (Eventful /\ p.cur))
         /\ Started(p).cur = p.cur /\ Started(p).index = p.index /\ Started(p).count = p.count
         /\ Started(p).extra = p.extra
<1>1. (p.started \/ (Eventful /\ p.cur)) \in BOOLEAN
  BY DEF Parses, Eventful
<1> QED
  BY <1>1 DEF Started, Parses

LEMMA FinishedFields ==
  ASSUME NEW p \in Parses
  PROVE  /\ Finished(p) \in Parses
         /\ Finished(p).cur = FALSE
         /\ Finished(p).started = IF p.cur THEN FALSE ELSE p.started
         /\ Finished(p).index = IF p.cur THEN p.index + 1 ELSE p.index
         /\ Finished(p).count = IF p.cur THEN 0 ELSE p.count
         /\ Finished(p).extra = p.extra
<1>1. /\ p.cur \in BOOLEAN /\ p.index + 1 \in Nat
  BY DEF Parses
<1> QED
  BY <1>1 DEF Finished, Parses

LEMMA DescFields ==
  ASSUME NEW p \in Parses, NEW q,
         q = [p EXCEPT !.cur = TRUE, !.cached = TRUE, !.tup = FALSE, !.extra = @ \/ SecondSet(p)]
  PROVE  /\ q \in Parses /\ q.cur = TRUE /\ q.started = p.started /\ q.index = p.index
         /\ q.count = p.count /\ (q.extra <=> (p.extra \/ SecondSet(p)))
<1>1. (p.extra \/ SecondSet(p)) \in BOOLEAN
  BY DEF Parses, SecondSet, Eventful
<1> QED
  BY <1>1 DEF Parses

LEMMA RowFields ==
  ASSUME NEW p \in Parses, NEW q, q = [p EXCEPT !.cur = TRUE, !.count = @ + 1]
  PROVE  /\ q \in Parses /\ q.cur = TRUE /\ q.started = p.started /\ q.index = p.index
         /\ q.count = p.count + 1 /\ q.extra = p.extra
<1> DEFINE c == p.count + 1
<1>1. c \in Nat /\ q = [p EXCEPT !.cur = TRUE, !.count = c]
  BY DEF Parses
<1> HIDE DEF c
<1>2. /\ q \in Parses /\ q.cur = TRUE /\ q.started = p.started /\ q.index = p.index
      /\ q.count = c /\ q.extra = p.extra
  BY <1>1 DEF Parses
<1> QED
  BY <1>2 DEF c

\* Each frame that is read moves the locals as the wire moves.
LEMMA ReadsFollow ==
  ASSUME StreamInv, WireInv, ParseInv,
         \/ ReadDesc \/ ReadStd \/ ReadRow \/ ReadComplete \/ ReadNotice \/ ReadError
         \/ ReadReady \/ ReadFatal
  PROVE  ParseInv'
<1> DEFINE n == read + 1
           k == response[n].kind
<1>1. PICK kind : Arrived(kind)
  BY DEF ReadDesc, ReadStd, ReadRow, ReadComplete, ReadNotice, ReadError, ReadReady, ReadFatal
<1>2. /\ result = "none" /\ n \in 1..Len(response) /\ k = kind /\ parse \in Parses
      /\ k \in {"std", "row", "dbos"} => Inside(response, n)
  BY <1>1, ArrivedFacts DEF StreamInv, Arrived, Parsing, WireInv
<1>3. /\ read' = n /\ UNCHANGED <<mode, response>>
  BY DEF ReadDesc, ReadStd, ReadRow, ReadComplete, ReadNotice, ReadError, ReadReady, ReadFatal, Then,
     backendVars
<1>4. /\ parse.cur \in BOOLEAN /\ parse.started \in BOOLEAN /\ parse.index \in Nat /\ parse.extra \in BOOLEAN
      /\ parse.started => parse.cur /\ Eventful
      /\ parse.cur <=> Inside(response, n)
      /\ k \in {"std", "row", "dbos"} => parse.cur
  BY <1>2 DEF ParseInv, Parses
<1>5. SUFFICES /\ parse' \in Parses /\ Follows(parse', k)
               /\ \/ result' = "none" /\ k # "ready"
                  \/ result' \in {"ok", "db", "config"} /\ k = "ready" /\ (result' = "ok" => ~parse.extra)
                  \/ result' = "fatal"
  BY <1>2, <1>3, ParseStep
<1>6. CASE ReadDesc
  <2> DEFINE p == Finished(parse)
  <2>1. /\ k = "desc" /\ result' = "none"
        /\ parse' = [p EXCEPT !.cur = TRUE, !.cached = TRUE, !.tup = FALSE, !.extra = @ \/ SecondSet(p)]
    BY <1>2, <1>6 DEF ReadDesc, Arrived, Then
  <2>2. /\ p \in Parses /\ p.cur = FALSE /\ p.started = (IF parse.cur THEN FALSE ELSE parse.started)
        /\ p.index = (IF parse.cur THEN parse.index + 1 ELSE parse.index)
        /\ p.extra = parse.extra
    BY <1>2, FinishedFields
  <2> HIDE DEF p
  <2>3. /\ parse' \in Parses /\ parse'.cur = TRUE /\ parse'.started = p.started /\ parse'.index = p.index
        /\ (parse'.extra <=> (p.extra \/ SecondSet(p)))
    BY <2>1, <2>2, DescFields
  <2>4. ~parse'.started
    BY <1>4, <2>2, <2>3
  <2>5. SecondSet(p) <=> (~Eventful /\ parse'.index > 0)
    BY <2>3 DEF SecondSet
  <2>6. Follows(parse', k)
    BY <1>4, <2>1, <2>2, <2>3, <2>4, <2>5 DEF Follows
  <2> QED
    BY <2>1, <2>3, <2>6
<1>7. CASE ReadStd
  <2>1. /\ k = "std" /\ result' = "none" /\ parse' = [parse EXCEPT !.tup = TRUE, !.cur = TRUE]
    BY <1>2, <1>7 DEF ReadStd, Arrived, Then
  <2>2. /\ parse' \in Parses /\ parse'.cur = TRUE /\ parse'.started = parse.started
        /\ parse'.index = parse.index /\ parse'.extra = parse.extra
    BY <1>2, <2>1 DEF Parses
  <2>3. Follows(parse', k)
    BY <1>4, <2>1, <2>2 DEF Follows
  <2> QED
    BY <2>1, <2>2, <2>3
<1>8. CASE ReadRow
  <2> DEFINE p == [parse EXCEPT !.cur = TRUE, !.count = @ + 1]
  <2>1. /\ k \in {"row", "dbos"} /\ result' = "none" /\ parse' = Started(p)
    BY <1>2, <1>8 DEF ReadRow, Arrived, Then
  <2>2. /\ p \in Parses /\ p.cur = TRUE /\ p.started = parse.started /\ p.index = parse.index
        /\ p.extra = parse.extra
    BY <1>2, RowFields
  <2> HIDE DEF p
  <2>3. /\ parse' \in Parses /\ parse'.cur = p.cur /\ parse'.index = p.index /\ parse'.extra = p.extra
        /\ parse'.started <=> (p.started \/ (Eventful /\ p.cur))
    BY <2>1, <2>2, StartedFields
  <2>4. parse'.started => parse'.cur /\ Eventful
    BY <1>4, <2>2, <2>3
  <2>5. Follows(parse', k)
    BY <1>4, <2>1, <2>2, <2>3, <2>4 DEF Follows
  <2> QED
    BY <2>1, <2>3, <2>5
<1>9. CASE ReadComplete
  <2> DEFINE p == Started(parse)
  <2>1. /\ k = "complete" /\ result' = "none" /\ parse' = Finished(p)
    BY <1>2, <1>9 DEF ReadComplete, Arrived, Then
  <2>2. /\ p \in Parses /\ p.cur = parse.cur /\ p.index = parse.index /\ p.extra = parse.extra
        /\ p.started <=> (parse.started \/ (Eventful /\ parse.cur))
    BY <1>2, StartedFields
  <2> HIDE DEF p
  <2>3. /\ parse' \in Parses /\ parse'.cur = FALSE /\ parse'.started = (IF p.cur THEN FALSE ELSE p.started)
        /\ parse'.index = (IF p.cur THEN p.index + 1 ELSE p.index) /\ parse'.extra = p.extra
    BY <2>1, <2>2, FinishedFields
  <2>4. ~parse'.started
    BY <1>4, <2>2, <2>3
  <2>5. Follows(parse', k)
    BY <1>4, <2>1, <2>2, <2>3, <2>4 DEF Follows
  <2> QED
    BY <2>1, <2>3, <2>5
<1>10. CASE ReadNotice
  <2>1. k = "notice" /\ result' = "none" /\ parse' = parse
    BY <1>2, <1>10 DEF ReadNotice, Arrived, Then
  <2>2. Follows(parse', k)
    BY <1>4, <2>1 DEF Follows
  <2> QED
    BY <1>2, <2>1, <2>2
<1>11. CASE ReadError
  <2>1. k = "error" /\ result' = "none" /\ parse' = [parse EXCEPT !.error = TRUE]
    BY <1>2, <1>11 DEF ReadError, Arrived, Then
  <2>2. /\ parse' \in Parses /\ parse'.cur = parse.cur /\ parse'.started = parse.started
        /\ parse'.index = parse.index /\ parse'.extra = parse.extra
    BY <1>2, <2>1 DEF Parses
  <2>3. Follows(parse', k)
    BY <1>4, <2>1, <2>2 DEF Follows
  <2> QED
    BY <2>1, <2>2, <2>3
<1>12. CASE ReadReady
  <2>1. /\ k = "ready" /\ parse' = Finished(parse)
        /\ result' = IF parse.error THEN "db" ELSE IF parse.extra THEN "config" ELSE "ok"
    BY <1>2, <1>12 DEF ReadReady, Arrived, Then
  <2>2. /\ parse' \in Parses /\ parse'.cur = FALSE
        /\ parse'.started = (IF parse.cur THEN FALSE ELSE parse.started)
        /\ parse'.index = (IF parse.cur THEN parse.index + 1 ELSE parse.index)
        /\ parse'.extra = parse.extra
    BY <1>2, <2>1, FinishedFields
  <2>3. ~parse'.started
    BY <1>4, <2>2
  <2>4. Follows(parse', k)
    BY <1>4, <2>1, <2>2, <2>3 DEF Follows
  <2> QED
    BY <2>1, <2>2, <2>4
<1>13. CASE ReadFatal
  <2>1. /\ k \in {"torn", "row", "dbos"} /\ parse' = parse /\ result' = "fatal"
    BY <1>2, <1>13 DEF ReadFatal, Arrived, Then
  <2>2. Follows(parse', k)
    BY <1>4, <2>1 DEF Follows
  <2> QED
    BY <1>2, <2>1, <2>2
<1> QED
  BY <1>6, <1>7, <1>8, <1>9, <1>10, <1>11, <1>12, <1>13

\* What is read stays as it was sent.
LEMMA ParseRests ==
  ASSUME StreamInv, ParseInv, Grown, UNCHANGED <<mode, read, parse, result>>
  PROVE  ParseInv'
<1> DEFINE n == Len(response)
<1>1. n \in Nat /\ read \in 0..n /\ \A p \in 1..n : response[p] = response'[p]
  BY DEF StreamInv, TypeOK, Grown
<1> HIDE DEF n
<1>2. \A p \in 1..(n + 1) : /\ Inside(response, p) <=> Inside(response', p)
                            /\ SetNo(response, p) = SetNo(response', p)
  BY <1>1, SetsAgree
<1>3. read + 1 \in 1..(n + 1) /\ \A p \in 1..read : p \in 1..n /\ p \in 1..(n + 1)
  BY <1>1
<1>4. ASSUME NEW p \in 1..read PROVE Again(response, p) <=> Again(response', p)
  BY <1>1, <1>2, <1>3 DEF Again
<1>5. Eventful' = Eventful
  BY DEF Eventful
<1>6. read > 0 => response'[read] = response[read]
  BY <1>1
<1> QED
  BY <1>2, <1>3, <1>4, <1>5, <1>6 DEF ParseInv

LEMMA NextParse ==
  ASSUME StreamInv, WireInv, ParseInv, [Next]_vars
  PROVE  ParseInv'
<1>1. CASE \/ ReadDesc \/ ReadStd \/ ReadRow \/ ReadComplete \/ ReadNotice \/ ReadError
           \/ ReadReady \/ ReadFatal
  BY <1>1, ReadsFollow
<1>2. CASE UNCHANGED <<mode, read, parse, result>>
  BY <1>2, ResponseGrows, ParseRests
<1>3. CASE UNCHANGED vars
  BY <1>2, <1>3 DEF vars, parserVars
<1>4. CASE \/ SendBudget \/ SendChannel \/ SendFails \/ PushFlushes \/ PushAcquires \/ PushCharges
           \/ PushFails \/ PushAdds \/ FlushNothing \/ FlushBudget \/ FlushChannel \/ FlushFails
  BY <1>2, <1>4 DEF SendBudget, SendChannel, SendFails, PushFlushes, PushAcquires,
     PushCharges, PushFails, PushAdds, FlushNothing, FlushBudget, FlushChannel, FlushFails
<1>5. CASE Drive \/ Deadline \/ CleanupTimeout \/ DropDriver \/ Cancel \/ Close
  BY <1>2, <1>5 DEF Drive, Start, SkipRequest, Return, NoticeInterrupt, NoticeClosed, SendCancel,
     Deadline, CleanupTimeout, DropDriver, Cancel, Close, GiveUp, End, parserVars
<1>6. CASE ReleaseSlot \/ Poll \/ DropStream \/ Backend
  BY <1>2, <1>6 DEF ReleaseSlot, Poll, PollPending, PollRows, PollBatch, PollEvent, PollTerminal,
     YieldRow, DropStream, Backend, SendFrame, SendReady, StopStatement, Respond, parserVars
<1> QED
  BY <1>1, <1>3, <1>4, <1>5, <1>6 DEF Next, Parser

-----------------------------------------------------------------------------
(* What the parser awaits *)

\* Awaits s: the sends come when the batch is empty (e) or after a flush
Pushes == {"push", "charge", "add"}
NoPush(s) == \A j \in 1..Len(s) : s[j].op \notin Pushes
Flushes(s) == \E j \in 1..Len(s) : s[j].op = "flush"
Sends(s, e) ==
  \A j \in 1..Len(s) : s[j].op = "send" => e \/ \E h \in 1..(j - 1) : s[h].op = "flush"
PushLast(s) == \A j \in 1..Len(s) : s[j].op \in Pushes => j = Len(s)

\* A row is pushed last, for a set that was started, and what is staged is
\* flushed before an event is sent, a set ends, or the response does.
AwaitInv ==
  /\ PushLast(todo)
  /\ ~NoPush(todo) => result = "none" /\ (Eventful => parse.started)
  /\ Sends(todo, batch = NoBlock)
  /\ batch = NoBlock \/ Flushes(todo) \/ (result \in {"none", "fatal"} /\ (Eventful => parse.started))

LEMMA PairConcat == ASSUME NEW S, NEW a \in S, NEW b \in S PROVE <<a>> \o <<b>> = <<a, b>>
<1> DEFINE x == <<a>>
           y == <<b>>
           z == <<a, b>>
<1>1. /\ x \in Seq(S) /\ Len(x) = 1 /\ x[1] = a /\ y \in Seq(S) /\ Len(y) = 1 /\ y[1] = b
      /\ z \in Seq(S) /\ Len(z) = 2 /\ z[1] = a /\ z[2] = b
  OBVIOUS
<1> HIDE DEF x, y, z
<1>2. /\ x \o y \in Seq(S) /\ Len(x \o y) = Len(x) + Len(y)
      /\ \A i \in 1..(Len(x) + Len(y)) : (x \o y)[i] = IF i <= Len(x) THEN x[i] ELSE y[i - Len(x)]
  BY <1>1, ConcatProperties
<1>3. Len(x \o y) = 2 /\ (x \o y)[1] = a /\ (x \o y)[2] = b
  BY <1>1, <1>2
<1>4. \A i \in 1..2 : (x \o y)[i] = z[i]
  BY <1>1, <1>3
<1>5. x \o y = z
  BY <1>1, <1>2, <1>3, <1>4, SeqEqual
<1> QED
  BY <1>5 DEF x, y, z

LEMMA OpsConcat ==
  ASSUME NEW s \in Seq(Op), NEW t \in Seq(Op), NEW e \in BOOLEAN
  PROVE  /\ s \o t \in Seq(Op)
         /\ NoPush(s) /\ NoPush(t) => NoPush(s \o t)
         /\ NoPush(s) /\ PushLast(t) => PushLast(s \o t)
         /\ Flushes(s) \/ Flushes(t) => Flushes(s \o t)
         /\ Sends(s, e) /\ (Flushes(s) \/ Sends(t, e)) => Sends(s \o t, e)
<1> DEFINE a == Len(s)
           b == Len(t)
           u == s \o t
<1>1. /\ u \in Seq(Op) /\ a \in Nat /\ b \in Nat /\ Len(u) = a + b
      /\ \A i \in 1..(a + b) : u[i] = IF i <= a THEN s[i] ELSE t[i - a]
  BY ConcatProperties, LenProperties
<1> HIDE DEF u
<1>2. ASSUME NEW j \in 1..(a + b)
      PROVE  (j \in 1..a /\ u[j] = s[j]) \/ (j - a \in 1..b /\ u[j] = t[j - a] /\ (j - a = b => j = a + b))
  BY <1>1
<1>3. \A j \in 1..a : j \in 1..(a + b) /\ u[j] = s[j]
  BY <1>1
<1>4. \A j \in 1..b : a + j \in 1..(a + b) /\ u[a + j] = t[j]
  BY <1>1
<1>5. ASSUME NoPush(s), NoPush(t) PROVE NoPush(u)
  BY <1>1, <1>2, <1>5 DEF NoPush
<1>6. ASSUME NoPush(s), PushLast(t) PROVE PushLast(u)
  BY <1>1, <1>2, <1>6 DEF NoPush, PushLast
<1>7. ASSUME Flushes(s) \/ Flushes(t) PROVE Flushes(u)
  BY <1>1, <1>3, <1>4, <1>7 DEF Flushes
<1>8. ASSUME Sends(s, e), Flushes(s) \/ Sends(t, e), NEW j \in 1..(a + b), u[j].op = "send"
      PROVE  e \/ \E h \in 1..(j - 1) : u[h].op = "flush"
  <2>1. CASE j \in 1..a /\ u[j] = s[j]
    <3>1. e \/ \E h \in 1..(j - 1) : s[h].op = "flush"
      BY <1>8, <2>1 DEF Sends
    <3>2. \A h \in 1..(j - 1) : h \in 1..a
      BY <1>1, <2>1
    <3> QED
      BY <1>3, <3>1, <3>2
  <2>2. CASE j - a \in 1..b /\ u[j] = t[j - a]
    <3>1. CASE Flushes(s)
      <4>1. PICK h \in 1..a : s[h].op = "flush"
        BY <3>1 DEF Flushes
      <4>2. h \in 1..(j - 1)
        BY <1>1, <2>2, <4>1
      <4> QED
        BY <1>3, <4>1, <4>2
    <3>2. CASE Sends(t, e) /\ ~e
      <4>1. PICK h \in 1..(j - a - 1) : t[h].op = "flush"
        BY <1>8, <2>2, <3>2 DEF Sends
      <4>2. a + h \in 1..(j - 1) /\ h \in 1..b
        BY <1>1, <2>2, <4>1
      <4> QED
        BY <1>4, <4>1, <4>2
    <3> QED
      BY <1>8, <3>1, <3>2
  <2> QED
    BY <1>2, <2>1, <2>2
<1>9. ASSUME Sends(s, e), Flushes(s) \/ Sends(t, e) PROVE Sends(u, e)
  BY <1>1, <1>8, <1>9 DEF Sends
<1> QED
  BY <1>1, <1>5, <1>6, <1>7, <1>9 DEF u

LEMMA OpsOne ==
  ASSUME NEW o \in Op, NEW e
  PROVE  /\ <<o>> \in Seq(Op) /\ PushLast(<<o>>)
         /\ o.op \notin Pushes => NoPush(<<o>>)
         /\ o.op = "flush" => Flushes(<<o>>)
         /\ o.op # "send" \/ e => Sends(<<o>>, e)
<1> DEFINE s == <<o>>
<1>1. s \in Seq(Op) /\ Len(s) = 1 /\ s[1] = o
  OBVIOUS
<1> HIDE DEF s
<1>2. \A j \in 1..Len(s) : j = 1 /\ j = Len(s) /\ s[j] = o
  BY <1>1
<1>3. 1 \in 1..Len(s)
  BY <1>1
<1> QED
  BY <1>1, <1>2, <1>3 DEF PushLast, NoPush, Flushes, Sends, s

LEMMA OpsNone ==
  /\ <<>> \in Seq(Op) /\ PushLast(<<>>) /\ NoPush(<<>>) /\ ~Flushes(<<>>) /\ \A e : Sends(<<>>, e)
<1>1. Len(<<>>) = 0
  OBVIOUS
<1>2. 1..0 = {}
  OBVIOUS
<1> QED
  BY <1>1, <1>2 DEF PushLast, NoPush, Flushes, Sends

LEMMA OpsTail ==
  ASSUME NEW s \in Seq(Op), s # <<>>, PushLast(s), NEW e \in BOOLEAN
  PROVE  /\ Tail(s) \in Seq(Op) /\ PushLast(Tail(s))
         /\ NoPush(s) => NoPush(Tail(s))
         /\ Head(s).op \in Pushes => Tail(s) = <<>>
         /\ Head(s).op # "flush" /\ Sends(s, e) => Sends(Tail(s), e)
         /\ Head(s).op # "flush" /\ Flushes(s) => Flushes(Tail(s))
         /\ Sends(Tail(s), TRUE)
<1> DEFINE n == Len(s)
           t == Tail(s)
<1>1. /\ n \in Nat \ {0} /\ t \in Seq(Op) /\ Len(t) = n - 1 /\ Head(s) = s[1]
      /\ \A i \in 1..(n - 1) : t[i] = s[i + 1]
  BY HeadTailProperties, EmptySeq, LenProperties
<1> HIDE DEF n, t
<1>2. ASSUME n = 1 PROVE t = <<>>
  <2>1. Len(t) = 0
    BY <1>1, <1>2
  <2> QED
    BY <1>1, <2>1, EmptySeq
<1>3. \A i \in 1..(n - 1) : i + 1 \in 1..n /\ t[i] = s[i + 1] /\ (i + 1 = n => i = n - 1)
  BY <1>1
<1>4. n = Len(s)
  BY DEF n
<1>5. PushLast(t)
  BY <1>1, <1>3, <1>4 DEF PushLast
<1>6. NoPush(s) => NoPush(t)
  BY <1>1, <1>3, <1>4 DEF NoPush
<1>7. Head(s).op \in Pushes => t = <<>>
  <2>1. 1 \in 1..n
    BY <1>1
  <2> QED
    BY <1>1, <1>2, <1>4, <2>1 DEF PushLast
<1>8. ASSUME Head(s).op # "flush", Sends(s, e), NEW i \in 1..(n - 1), t[i].op = "send", ~e
      PROVE  \E h \in 1..(i - 1) : t[h].op = "flush"
  <2>1. PICK h \in 1..(i + 1 - 1) : s[h].op = "flush"
    BY <1>3, <1>4, <1>8 DEF Sends
  <2>2. h # 1
    BY <1>1, <1>8, <2>1
  <2>3. h - 1 \in 1..(i - 1) /\ h - 1 \in 1..(n - 1) /\ h - 1 + 1 = h
    BY <1>1, <2>1, <2>2
  <2> QED
    BY <1>1, <2>1, <2>3
<1>9. ASSUME Head(s).op # "flush", Sends(s, e) PROVE Sends(t, e)
  BY <1>1, <1>8, <1>9 DEF Sends
<1>10. ASSUME Head(s).op # "flush", Flushes(s) PROVE Flushes(t)
  <2>1. PICK h \in 1..n : s[h].op = "flush"
    BY <1>4, <1>10 DEF Flushes
  <2>2. h - 1 \in 1..(n - 1) /\ h - 1 + 1 = h
    BY <1>1, <1>10, <2>1
  <2> QED
    BY <1>1, <2>1, <2>2 DEF Flushes
<1>11. Sends(t, TRUE)
  BY DEF Sends
<1> QED
  BY <1>1, <1>5, <1>6, <1>7, <1>9, <1>10, <1>11 DEF t

LEMMA StartOpsFacts ==
  ASSUME NEW p \in Parses, NEW e \in BOOLEAN
  PROVE  /\ StartOps(p) \in Seq(Op) /\ NoPush(StartOps(p))
         /\ (Eventful /\ p.cur => p.started \/ e) => Sends(StartOps(p), e)
<1> DEFINE o == Send(Ev("start", p.index, 0))
<1>1. o \in Op /\ o.op = "send"
  BY DEF Send, Await, Ev, Op, Event, Parses
<1> HIDE DEF o
<1>2. <<o>> \in Seq(Op) /\ NoPush(<<o>>) /\ (e => Sends(<<o>>, e))
  BY <1>1, OpsOne DEF Pushes
<1>3. CASE Eventful /\ p.cur /\ ~p.started
  BY <1>2, <1>3 DEF StartOps, o
<1>4. CASE ~(Eventful /\ p.cur /\ ~p.started)
  BY <1>4, OpsNone DEF StartOps
<1> QED
  BY <1>3, <1>4

LEMMA FlushFacts ==
  /\ Flush \in Op /\ <<Flush>> \in Seq(Op) /\ NoPush(<<Flush>>) /\ Flushes(<<Flush>>)
  /\ \A e : Sends(<<Flush>>, e)
<1>1. Flush \in Op /\ Flush.op = "flush"
  BY DEF Flush, Await, Ev, Op, Event
<1> QED
  BY <1>1, OpsOne DEF Pushes

LEMMA FinishOpsFacts ==
  ASSUME NEW p \in Parses, NEW e \in BOOLEAN
  PROVE  /\ FinishOps(p) \in Seq(Op) /\ NoPush(FinishOps(p)) /\ Flushes(FinishOps(p))
         /\ Sends(FinishOps(p), e)
<1> DEFINE o == Send(Ev("end", p.index, p.count))
           s == StartOps(p)
           c == IF Eventful /\ p.cur THEN s \o <<o>> ELSE <<>>
<1>1. o \in Op /\ o.op = "send"
  BY DEF Send, Await, Ev, Op, Event, Parses
<1>2. s \in Seq(Op) /\ NoPush(s)
  BY StartOpsFacts
<1>3. FinishOps(p) = <<Flush>> \o c
  BY DEF FinishOps
<1> HIDE DEF o, s
<1>4. <<o>> \in Seq(Op) /\ NoPush(<<o>>)
  BY <1>1, OpsOne DEF Pushes
<1>5. s \o <<o>> \in Seq(Op) /\ NoPush(s \o <<o>>)
  BY <1>2, <1>4, OpsConcat
<1>6. c \in Seq(Op) /\ NoPush(c)
  BY <1>5, OpsNone
<1> HIDE DEF c
<1> QED
  BY <1>3, <1>6, FlushFacts, OpsConcat

LEMMA AwaitRests ==
  ASSUME AwaitInv, UNCHANGED <<mode, parse, result, todo>>, batch' = NoBlock <=> batch = NoBlock
  PROVE  AwaitInv'
<1>1. (batch' = NoBlock) = (batch = NoBlock) /\ Eventful' = Eventful
  BY DEF Eventful
<1> QED
  BY <1>1 DEF AwaitInv

\* Nothing is staged any more, and the awaits left are among those there were.
LEMMA AwaitEmptied ==
  ASSUME AwaitInv, UNCHANGED <<mode, parse, result>>, batch' = NoBlock,
         PushLast(todo'), NoPush(todo) => NoPush(todo')
  PROVE  AwaitInv'
<1>1. Eventful' = Eventful /\ Sends(todo', batch' = NoBlock)
  BY DEF Eventful, Sends
<1> QED
  BY <1>1 DEF AwaitInv

LEMMA ReadsAwait ==
  ASSUME StreamInv, WireInv, ParseInv, AwaitInv,
         \/ ReadDesc \/ ReadStd \/ ReadRow \/ ReadComplete \/ ReadNotice \/ ReadError
         \/ ReadReady \/ ReadFatal
  PROVE  AwaitInv'
<1> DEFINE e == batch = NoBlock
<1>1. PICK kind : Arrived(kind)
  BY DEF ReadDesc, ReadStd, ReadRow, ReadComplete, ReadNotice, ReadError, ReadReady, ReadFatal
<1>2. /\ result = "none" /\ todo = <<>> /\ parse \in Parses /\ response[read + 1].kind = kind
      /\ read + 1 \in 1..Len(response)
  BY <1>1, ArrivedFacts DEF StreamInv, Arrived, Parsing
<1>3. e \/ (Eventful => parse.started)
  BY <1>2, OpsNone DEF AwaitInv
<1>4. batch' = batch /\ Eventful' = Eventful /\ e \in BOOLEAN
  BY DEF ReadDesc, ReadStd, ReadRow, ReadComplete, ReadNotice, ReadError, ReadReady, ReadFatal, Then,
     Eventful
<1> HIDE DEF e
<1>5. ASSUME todo' \in Seq(Op), NoPush(todo'), Flushes(todo'), Sends(todo', e) PROVE AwaitInv'
  BY <1>4, <1>5 DEF AwaitInv, NoPush, PushLast, e
<1>6. ASSUME todo' = <<>>, result' \in {"none", "fatal"}, parse'.started = parse.started PROVE AwaitInv'
  BY <1>3, <1>4, <1>6, OpsNone DEF AwaitInv, e
<1>7. CASE ReadDesc
  BY <1>2, <1>4, <1>5, <1>7, FinishOpsFacts DEF ReadDesc, Then
<1>8. CASE ReadStd \/ ReadError \/ ReadFatal
  BY <1>2, <1>6, <1>8 DEF ReadStd, ReadError, ReadFatal, Then, Parses
<1>9. CASE ReadReady
  BY <1>2, <1>4, <1>5, <1>9, FinishOpsFacts DEF ReadReady, Then
<1>10. CASE ReadNotice
  <2>1. CASE Eventful
    <3> DEFINE o == Send(Ev("notice", 0, read + 1))
    <3>1. o \in Op
      BY <1>2 DEF Send, Await, Ev, Op, Event
    <3> HIDE DEF o
    <3>2. <<o>> \in Seq(Op)
      BY <3>1
    <3>3. NoPush(<<o>>)
      BY <3>1, OpsOne DEF Pushes, o, Send, Await
    <3>4. todo' = <<Flush>> \o <<o>>
      BY <1>10, <2>1 DEF ReadNotice, Then, NoticeOps, o
    <3> QED
      BY <1>4, <1>5, <3>2, <3>3, <3>4, FlushFacts, OpsConcat
  <2>2. CASE ~Eventful
    BY <1>2, <1>6, <1>10, <2>2 DEF ReadNotice, Then
  <2> QED
    BY <2>1, <2>2
<1>11. CASE ReadComplete
  <2> DEFINE p == Started(parse)
             o == Send(Ev("complete", 0, read + 1))
             s == StartOps(parse)
             f == FinishOps(p)
  <2>1. /\ p \in Parses /\ o \in Op /\ o.op = "send"
    BY <1>2, OpsFacts DEF Send, Await, Ev, Op, Event
  <2>2. f \in Seq(Op) /\ NoPush(f) /\ Flushes(f) /\ Sends(f, e)
    BY <1>4, <2>1, FinishOpsFacts
  <2>3. CASE ~Eventful
    <3>1. todo' = <<>> \o f
      BY <1>11, <2>3 DEF ReadComplete, Then
    <3>2. todo' = f
      BY <2>2, <3>1, ConcatEmptySeq
    <3> QED
      BY <1>5, <2>2, <3>2
  <2>4. CASE Eventful
    <3>1. s \in Seq(Op) /\ NoPush(s) /\ Sends(s, e)
      BY <1>2, <1>3, <1>4, <2>4, StartOpsFacts
    <3> HIDE DEF p, o, s, f
    <3>2. <<o>> \in Seq(Op) /\ NoPush(<<o>>)
      BY <2>1, OpsOne DEF Pushes
    <3> DEFINE g == <<Flush>> \o <<o>>
               h == s \o g
    <3>3. g \in Seq(Op) /\ NoPush(g) /\ Flushes(g) /\ Sends(g, e)
      BY <1>4, <3>2, FlushFacts, OpsConcat
    <3>4. g = <<Flush, o>>
      BY <2>1, FlushFacts, PairConcat
    <3>5. todo' = h \o f
      BY <1>11, <2>4, <3>4 DEF ReadComplete, Then, p, o, s, f
    <3> HIDE DEF g
    <3>6. h \in Seq(Op) /\ NoPush(h) /\ Flushes(h) /\ Sends(h, e)
      BY <1>4, <3>1, <3>3, OpsConcat
    <3> HIDE DEF h
    <3>7. h \o f \in Seq(Op) /\ NoPush(h \o f) /\ Flushes(h \o f) /\ Sends(h \o f, e)
      BY <1>4, <2>2, <3>6, OpsConcat
    <3> QED
      BY <1>5, <3>5, <3>7
  <2> QED
    BY <2>3, <2>4
<1>12. CASE ReadRow
  <2> DEFINE p == [parse EXCEPT !.cur = TRUE, !.count = @ + 1]
             s == StartOps(p)
             o == Await("push", Ev("row", 0, read + 1))
             t == IF parse.extra THEN <<>> ELSE <<o>>
  <2>1. todo' = s \o t /\ parse' = Started(p) /\ result' = "none"
    BY <1>2, <1>12 DEF ReadRow, Then
  <2>2. p \in Parses /\ p.cur /\ p.started = parse.started
    BY <1>2, RowFields
  <2>3. o \in Op /\ o.op = "push"
    BY <1>2 DEF Await, Ev, Op, Event
  <2> HIDE DEF p, o
  <2>4. Eventful => parse'.started
    BY <2>1, <2>2, StartedFields
  <2>5. s \in Seq(Op) /\ NoPush(s) /\ Sends(s, e)
    BY <1>3, <1>4, <2>2, StartOpsFacts
  <2>6. <<o>> \in Seq(Op) /\ PushLast(<<o>>) /\ Sends(<<o>>, e)
    BY <2>3, OpsOne
  <2>7. t \in Seq(Op) /\ PushLast(t) /\ Sends(t, e)
    BY <2>6, OpsNone
  <2> HIDE DEF s, t
  <2>8. PushLast(todo') /\ Sends(todo', e)
    BY <1>4, <2>1, <2>5, <2>7, OpsConcat
  <2> QED
    BY <1>4, <2>1, <2>4, <2>8 DEF AwaitInv, e
<1> QED
  BY <1>7, <1>8, <1>9, <1>10, <1>11, <1>12

LEMMA AwaitsAwait ==
  ASSUME StreamInv, AwaitInv,
         \/ SendBudget \/ SendChannel \/ SendFails \/ PushFlushes \/ PushAcquires \/ PushCharges
         \/ PushFails \/ PushAdds \/ FlushNothing \/ FlushBudget \/ FlushChannel \/ FlushFails
  PROVE  AwaitInv'
<1> DEFINE e == batch = NoBlock
           rest == Tail(todo)
<1>1. UNCHANGED <<mode, parse, result>> /\ Eventful' = Eventful /\ e \in BOOLEAN
  BY DEF SendBudget, SendChannel, SendFails, PushFlushes, PushAcquires,
     PushCharges, PushFails, PushAdds, FlushNothing, FlushBudget, FlushChannel, FlushFails, Eventful
<1>2. PICK op : At(op)
  BY DEF SendBudget, SendChannel, SendFails, PushFlushes, PushAcquires,
     PushCharges, PushFails, PushAdds, FlushNothing, FlushBudget, FlushChannel, FlushFails
<1>3. todo # <<>> /\ Now = Head(todo) /\ Now.op = op /\ Now \in Op /\ Now.ev \in Event /\ todo \in Seq(Op)
  BY <1>2, AtFacts DEF StreamInv, TypeOK, Now
<1>4. PushLast(todo) /\ Sends(todo, e)
  BY DEF AwaitInv
<1>5. /\ rest \in Seq(Op) /\ PushLast(rest) /\ (NoPush(todo) => NoPush(rest))
      /\ Now.op \in Pushes => rest = <<>>
      /\ Now.op # "flush" => Sends(rest, e)
      /\ Now.op # "flush" /\ Flushes(todo) => Flushes(rest)
  BY <1>1, <1>3, <1>4, OpsTail
<1>6. Now.op \in Pushes => ~NoPush(todo) /\ result = "none" /\ (Eventful => parse.started)
  <2>1. 1 \in 1..Len(todo) /\ Head(todo) = todo[1]
    BY <1>3, HeadTailProperties, EmptySeq, LenProperties
  <2> QED
    BY <1>3, <2>1 DEF AwaitInv, NoPush
<1>7. batch = NoBlock \/ Flushes(todo) \/ (result \in {"none", "fatal"} /\ (Eventful => parse.started))
  BY DEF AwaitInv
<1>8. ~NoPush(todo) => result = "none" /\ (Eventful => parse.started)
  BY DEF AwaitInv
<1> HIDE DEF rest
\* an operation that is exchanged for another
<1>9. ASSUME NEW o \in Op, todo' = <<o>> \o rest, o.op = "send", Now.op = "send", batch' = batch PROVE AwaitInv'
  <2>0. Len(todo) = 1 + Len(rest) /\ Len(rest) \in Nat /\ todo[1] = Now /\ \A i \in 1..Len(rest) : rest[i] = todo[i + 1]
    BY <1>3, HeadTailProperties, EmptySeq, LenProperties DEF rest
  <2>1. /\ todo' \in Seq(Op) /\ Len(todo') = 1 + Len(rest)
        /\ \A i \in 1..(1 + Len(rest)) : todo'[i] = IF i <= 1 THEN o ELSE rest[i - 1]
    <3>1. <<o>> \in Seq(Op) /\ Len(<<o>>) = 1 /\ <<o>>[1] = o
      OBVIOUS
    <3> DEFINE u == <<o>>
    <3> HIDE DEF u
    <3>2. u \in Seq(Op) /\ Len(u) = 1 /\ u[1] = o /\ todo' = u \o rest
      BY <1>9, <3>1 DEF u
    <3>3. /\ todo' \in Seq(Op) /\ Len(todo') = Len(u) + Len(rest)
          /\ \A i \in 1..(Len(u) + Len(rest)) : todo'[i] = IF i <= Len(u) THEN u[i] ELSE rest[i - Len(u)]
      BY <1>5, <3>2, ConcatProperties
    <3> QED
      BY <2>0, <3>2, <3>3
  <2>2. /\ Len(todo') = Len(todo) /\ Len(todo) \in Nat
        /\ \A i \in 1..Len(todo) : todo'[i].op = todo[i].op
    <3> SUFFICES ASSUME NEW i \in 1..Len(todo) PROVE todo'[i].op = todo[i].op
      BY <2>0, <2>1
    <3>1. CASE i = 1
      BY <1>3, <1>9, <2>0, <2>1, <3>1
    <3>2. CASE i # 1
      <4>1. i - 1 \in 1..Len(rest) /\ i - 1 + 1 = i
        BY <2>0, <3>2
      <4>2. todo'[i] = rest[i - 1]
        BY <2>0, <2>1, <3>2
      <4> QED
        BY <2>0, <4>1, <4>2
    <3> QED
      BY <3>1, <3>2
  <2>3. PushLast(todo') /\ (NoPush(todo) => NoPush(todo')) /\ (Flushes(todo) => Flushes(todo')) /\ Sends(todo', e)
    <3>1. \A j \in 1..Len(todo) : \A h \in 1..(j - 1) : h \in 1..Len(todo)
      BY <2>2
    <3> QED
      BY <1>4, <2>2, <3>1 DEF PushLast, NoPush, Flushes, Sends
  <2> QED
    BY <1>1, <1>7, <1>8, <1>9, <2>3 DEF AwaitInv, e
<1>10. ASSUME todo' = rest, batch' = NoBlock PROVE AwaitInv'
  BY <1>1, <1>5, <1>10, AwaitEmptied
<1>11. ASSUME todo' = rest, batch' = batch, Now.op = "send" PROVE AwaitInv'
  BY <1>1, <1>5, <1>7, <1>8, <1>11 DEF AwaitInv, e
<1>12. CASE SendBudget
  <2> DEFINE o == Granted(EventBytes(Now.ev))
  <2>1. todo' = <<o>> \o rest /\ batch' = batch /\ At("send")
    BY <1>12 DEF SendBudget, rest
  <2>2. EventBytes(Now.ev) \in Nat /\ Now.op = "send"
    BY <2>1, AtFacts
  <2>3. o \in Op /\ o.op = "send"
    BY <1>3, <2>2 DEF Granted, Op
  <2> HIDE DEF o
  <2> QED
    BY <1>9, <2>1, <2>2, <2>3
<1>13. CASE SendChannel \/ SendFails
  BY <1>11, <1>13, AtFacts DEF SendChannel, SendFails, rest
<1>14. CASE PushFlushes
  <2>1. todo' = <<Flush>> \o todo /\ batch' = batch /\ At("push")
    BY <1>14 DEF PushFlushes
  <2>2. Now.op = "push"
    BY <2>1, AtFacts
  <2>3. PushLast(todo') /\ Flushes(todo') /\ Sends(todo', e)
    BY <1>1, <1>3, <1>4, <2>1, FlushFacts, OpsConcat
  <2> QED
    BY <1>1, <1>6, <2>1, <2>2, <2>3 DEF AwaitInv, e, Pushes
<1>15. ASSUME NEW o \in Op, todo' = <<o>> \o rest, o.op \in {"charge", "add"}, Now.op \in Pushes PROVE AwaitInv'
  <2>1. todo' = <<o>>
    BY <1>5, <1>15, ConcatEmptySeq, OpsOne
  <2>2. \A b : PushLast(todo') /\ Sends(todo', b)
    BY <1>15, <2>1, OpsOne
  <2> QED
    BY <1>1, <1>6, <1>15, <2>2 DEF AwaitInv
<1>16. CASE PushAcquires \/ PushCharges
  <2>1. \A x \in {"charge", "add"} : Await(x, Now.ev) \in Op /\ Await(x, Now.ev).op = x
    BY <1>3 DEF Await, Op
  <2>2. PICK x \in {"charge", "add"} : todo' = <<Await(x, Now.ev)>> \o rest
    BY <1>16 DEF PushAcquires, PushCharges, rest
  <2>3. Now.op \in Pushes
    BY <1>16, AtFacts DEF PushAcquires, PushCharges, Pushes
  <2> QED
    BY <1>15, <2>1, <2>2, <2>3
<1>17. CASE PushFails \/ FlushNothing \/ FlushChannel
  BY <1>10, <1>17 DEF PushFails, FlushNothing, FlushChannel, rest
<1>18. CASE PushAdds
  <2>1. Now.op \in Pushes
    BY <1>18, AtFacts DEF PushAdds, Pushes
  <2>2. todo' = <<Flush>> \o <<>> \/ todo' = <<>> \o <<>>
    BY <1>5, <1>18, <2>1 DEF PushAdds, rest
  <2>3. todo' = <<Flush>> \/ todo' = <<>>
    BY <2>2, FlushFacts, OpsNone, ConcatEmptySeq
  <2>4. \A b : NoPush(todo') /\ PushLast(todo') /\ Sends(todo', b)
    BY <2>3, FlushFacts, OpsNone DEF PushLast, NoPush
  <2> QED
    BY <1>1, <1>6, <2>1, <2>4 DEF AwaitInv
<1>19. CASE FlushBudget
  <2>1. batch # NoBlock /\ todo' = todo /\ batch'.permit = FlushBytes(batch) /\ At("flush")
    <3>1. batch \in Block
      BY DEF StreamInv, TypeOK
    <3> QED
      BY <1>19, <3>1 DEF FlushBudget, Block
  <2>2. Flushes(todo)
    <3>1. 1 \in 1..Len(todo) /\ Head(todo) = todo[1]
      BY <1>3, HeadTailProperties, EmptySeq, LenProperties
    <3> QED
      BY <2>1, <3>1 DEF At, Flushes
  <2>3. Sends(todo, batch' = NoBlock)
    BY <1>4, <2>1 DEF Sends, e
  <2> QED
    BY <1>1, <1>4, <1>8, <2>1, <2>2, <2>3 DEF AwaitInv
<1>20. CASE FlushFails
  <2>1. batch' = NoBlock /\ todo' = IF rest # <<>> /\ Head(rest).op = "push" THEN Tail(rest) ELSE rest
    BY <1>20 DEF FlushFails, rest
  <2>2. PushLast(todo') /\ (NoPush(todo) => NoPush(todo'))
    BY <1>5, <2>1, OpsTail
  <2> QED
    BY <1>1, <2>1, <2>2, AwaitEmptied
<1> QED
  BY <1>12, <1>13, <1>14, <1>16, <1>17, <1>18, <1>19, <1>20

LEMMA NextAwait ==
  ASSUME StreamInv, WireInv, ParseInv, AwaitInv, [Next]_vars
  PROVE  AwaitInv'
<1>1. CASE \/ ReadDesc \/ ReadStd \/ ReadRow \/ ReadComplete \/ ReadNotice \/ ReadError
           \/ ReadReady \/ ReadFatal
  BY <1>1, ReadsAwait
<1>2. CASE \/ SendBudget \/ SendChannel \/ SendFails \/ PushFlushes \/ PushAcquires \/ PushCharges
           \/ PushFails \/ PushAdds \/ FlushNothing \/ FlushBudget \/ FlushChannel \/ FlushFails
  BY <1>2, AwaitsAwait
<1>3. CASE UNCHANGED <<mode, parse, result, todo, batch>>
  BY <1>3, AwaitRests
<1>4. CASE UNCHANGED vars
  BY <1>3, <1>4 DEF vars, parserVars
<1>5. ASSUME NEW how, End(how) PROVE AwaitInv'
  <2>1. UNCHANGED <<mode, parse, result>> /\ batch' = NoBlock /\ todo' = <<>>
    BY <1>5 DEF End
  <2> QED
    BY <2>1, AwaitEmptied, OpsNone
<1>6. CASE \/ Start \/ NoticeInterrupt \/ NoticeClosed \/ SendCancel \/ Deadline \/ Cancel \/ Close
           \/ ReleaseSlot \/ Poll \/ DropStream \/ Backend
  <2>1. CASE Start \/ NoticeInterrupt \/ NoticeClosed \/ SendCancel \/ Deadline \/ Cancel \/ Close
    BY <1>3, <2>1 DEF Start, NoticeInterrupt, NoticeClosed, SendCancel, Deadline, GiveUp, Cancel, Close,
       parserVars
  <2>2. CASE ReleaseSlot \/ Poll \/ DropStream \/ Backend
    BY <1>3, <2>2 DEF ReleaseSlot, Poll, PollPending, PollRows, PollBatch, PollEvent,
       PollTerminal, YieldRow, DropStream, Backend, SendFrame, SendReady, StopStatement, Respond, parserVars
  <2> QED
    BY <1>6, <2>1, <2>2
<1>7. CASE SkipRequest \/ Return \/ CleanupTimeout \/ DropDriver
  BY <1>5, <1>7 DEF SkipRequest, Return, CleanupTimeout, DropDriver
<1> QED
  BY <1>1, <1>2, <1>4, <1>6, <1>7 DEF Next, Parser, Drive

-----------------------------------------------------------------------------
(* Where the script is: with the caller, in the channel, in the parser *)

\* What the caller has made of the first a events: an event or batch stream
\* shows them, a row stream the rows of the first set among them.
Shows(m, r, s, x, F, a) ==
  /\ a <= Len(F)
  /\ m # "rows" => a = Len(s) /\ \A j \in 1..a : F[j] = s[j]
  /\ m = "rows" =>
       /\ \A j \in 1..Len(s) : s[j].k = "row" /\ SetNo(r, s[j].n) = 0 /\ \E h \in 1..a : F[h] = s[j]
       /\ \A i, j \in 1..Len(s) : i < j => s[i].n < s[j].n
       /\ \A h \in 1..a : F[h].k = "row" /\ SetNo(r, F[h].n) = 0 => \E j \in 1..Len(s) : s[j] = F[h]
       /\ x <=> \E h \in 1..a : F[h].k = "start" /\ F[h].i > 0
\* Then come the rows q the stream holds and the items of the channel ...
Ahead(m, r, s, x, q, parts, F, d) ==
  \E a, b \in Nat : Shows(m, r, s, x, F, a) /\ One(F, q, a, b) /\ Laid(F, parts, b, d)
\* ... and, unless they are lost, the staged rows q and what is to be awaited.
Behind(m, r, n, fatal, p, q, parts, F, d) ==
  /\ \E e \in Nat : One(F, q, d, e) /\ Laid(F, parts, e, Len(F))
  /\ Complete(m, r, IF fatal THEN n - 1 ELSE n, F)
  /\ ~fatal => Link(m, F, p)

OpTold(o) == IF o.op = "flush" THEN <<>> ELSE <<o.ev>>
ItemTold(item) == IF item.rows THEN item.block.rows ELSE <<item.ev>>
TodoTold(s) == [i \in 1..Len(s) |-> OpTold(s[i])]
QueueTold(s) == [i \in 1..Len(s) |-> ItemTold(s[i])]

Scripted ==
  \E F \in Seq(Event), d \in Nat :
    /\ Good(mode, response, read, F) /\ d <= Len(F)
    /\ Ahead(mode, response, seen, refused, pending.rows, QueueTold(queue), F, d)
    /\ IF Halted THEN d = Len(F)
       ELSE Behind(mode, response, read, result = "fatal", parse, batch.rows, TodoTold(todo), F, d)

LEMMA ShowsKept ==
  ASSUME NEW m, NEW r, NEW u, NEW n \in Nat, \A p \in 1..n : r[p] = u[p],
         NEW F \in Seq(Event), NEW G \in Seq(Event), Good(m, r, n, F),
         NEW a \in Nat, a <= Len(G), \A i \in 1..a : F[i] = G[i],
         NEW s \in Seq(Event), NEW x, Shows(m, r, s, x, F, a)
  PROVE  Shows(m, u, s, x, G, a)
<1>1. Len(F) \in Nat /\ Len(s) \in Nat /\ a <= Len(F)
  BY LenProperties DEF Shows
<1>2. ASSUME NEW h \in 1..a, F[h].k = "row" PROVE SetNo(r, F[h].n) = SetNo(u, F[h].n)
  <2>1. h \in 1..Len(F)
    BY <1>1
  <2>2. F[h].n \in 1..n
    BY <1>2, <2>1 DEF Good, EventAt, WireAt, Tells
  <2> QED
    BY <2>2, WantedAgrees
<1>3. CASE m # "rows"
  BY <1>3 DEF Shows
<1>4. CASE m = "rows"
  <2>1. /\ \A j \in 1..Len(s) : s[j].k = "row" /\ SetNo(r, s[j].n) = 0 /\ \E h \in 1..a : F[h] = s[j]
        /\ \A i, j \in 1..Len(s) : i < j => s[i].n < s[j].n
        /\ \A h \in 1..a : F[h].k = "row" /\ SetNo(r, F[h].n) = 0 => \E j \in 1..Len(s) : s[j] = F[h]
        /\ x <=> \E h \in 1..a : F[h].k = "start" /\ F[h].i > 0
    BY <1>4 DEF Shows
  <2>2. ASSUME NEW j \in 1..Len(s)
        PROVE  s[j].k = "row" /\ SetNo(u, s[j].n) = 0 /\ \E h \in 1..a : G[h] = s[j]
    BY <1>2, <2>1
  <2>3. ASSUME NEW h \in 1..a, G[h].k = "row", SetNo(u, G[h].n) = 0
        PROVE  \E j \in 1..Len(s) : s[j] = G[h]
    <3>1. F[h] = G[h]
      OBVIOUS
    <3> QED
      BY <1>2, <2>1, <2>3, <3>1
  <2>4. x <=> \E h \in 1..a : G[h].k = "start" /\ G[h].i > 0
    BY <2>1
  <2> QED
    BY <1>4, <2>1, <2>2, <2>3, <2>4 DEF Shows
<1> QED
  BY <1>3, <1>4

LEMMA AheadKept ==
  ASSUME NEW m, NEW r, NEW u, NEW n \in Nat, \A p \in 1..n : r[p] = u[p],
         NEW F \in Seq(Event), NEW G \in Seq(Event), Good(m, r, n, F),
         NEW d \in Nat, d <= Len(G), \A i \in 1..d : F[i] = G[i],
         NEW s \in Seq(Event), NEW x, NEW q \in Seq(Event), NEW parts \in Parts,
         Ahead(m, r, s, x, q, parts, F, d)
  PROVE  Ahead(m, u, s, x, q, parts, G, d)
<1>1. PICK a \in Nat, b \in Nat : Shows(m, r, s, x, F, a) /\ One(F, q, a, b) /\ Laid(F, parts, b, d)
  BY DEF Ahead
<1>2. Laid(G, parts, b, d) /\ b <= d
  BY <1>1, LaidAgrees
<1>3. Len(q) \in Nat /\ a <= b
  BY <1>1, LenProperties DEF One
<1>4. One(G, q, a, b)
  BY <1>1, <1>2, OneAgrees
<1>5. a <= Len(G) /\ \A i \in 1..a : F[i] = G[i]
  <2>1. Len(G) \in Nat
    BY LenProperties
  <2> QED
    BY <1>2, <1>3, <2>1
<1>6. Shows(m, u, s, x, G, a)
  BY <1>1, <1>5, ShowsKept
<1> QED
  BY <1>2, <1>4, <1>6 DEF Ahead

LEMMA PrefixFacts ==
  ASSUME NEW F \in Seq(Event), NEW d \in Nat, d <= Len(F)
  PROVE  \E G \in Seq(Event) : Len(G) = d /\ \A i \in 1..d : F[i] = G[i]
<1> DEFINE G == [i \in 1..d |-> F[i]]
<1>1. \A i \in 1..d : i \in 1..Len(F)
  BY LenProperties
<1>2. \A i \in 1..d : F[i] \in Event
  BY <1>1, ElementOfSeq
<1>3. G \in Seq(Event) /\ Len(G) = d
  BY <1>2, FunctionIsSeq
<1> QED
  BY <1>3

\* The parts are sequences of events.
LEMMA QueueParts ==
  ASSUME NEW s \in Seq(Item) PROVE QueueTold(s) \in Parts /\ Len(QueueTold(s)) = Len(s) /\ Len(s) \in Nat
<1>1. Len(s) \in Nat
  BY LenProperties
<1>2. ASSUME NEW i \in 1..Len(s) PROVE ItemTold(s[i]) \in Seq(Event)
  <2>1. s[i] \in Item
    BY ElementOfSeq
  <2>2. s[i].ev \in Event /\ s[i].block.rows \in Seq(Event)
    BY <2>1 DEF Item, Block
  <2>3. <<s[i].ev>> \in Seq(Event)
    BY <2>2
  <2> QED
    BY <2>2, <2>3 DEF ItemTold
<1> QED
  BY <1>1, <1>2, FunctionIsSeq DEF QueueTold, Parts

LEMMA TodoParts ==
  ASSUME NEW s \in Seq(Op) PROVE TodoTold(s) \in Parts /\ Len(TodoTold(s)) = Len(s) /\ Len(s) \in Nat
<1>1. Len(s) \in Nat
  BY LenProperties
<1>2. ASSUME NEW i \in 1..Len(s) PROVE OpTold(s[i]) \in Seq(Event)
  <2>1. s[i] \in Op
    BY ElementOfSeq
  <2>2. s[i].ev \in Event
    BY <2>1 DEF Op
  <2>3. <<s[i].ev>> \in Seq(Event) /\ <<>> \in Seq(Event)
    BY <2>2
  <2> QED
    BY <2>3 DEF OpTold
<1> QED
  BY <1>1, <1>2, FunctionIsSeq DEF TodoTold, Parts

LEMMA PartsFacts ==
  ASSUME TypeOK
  PROVE  /\ QueueTold(queue) \in Parts /\ TodoTold(todo) \in Parts /\ batch.rows \in Seq(Event)
         /\ pending.rows \in Seq(Event) /\ seen \in Seq(Event)
         /\ Len(response) \in Nat /\ read \in Nat /\ read <= Len(response)
         /\ mode \in Modes /\ parse \in Parses /\ batch \in Block /\ pending \in Block
         /\ todo \in Seq(Op) /\ queue \in Seq(Item)
<1>1. /\ queue \in Seq(Item) /\ todo \in Seq(Op) /\ batch \in Block /\ pending \in Block /\ seen \in Seq(Event)
      /\ Len(response) \in Nat /\ read \in Nat /\ read <= Len(response) /\ mode \in Modes /\ parse \in Parses
  <2>1. Len(response) \in Nat /\ read \in 0..Len(response)
    BY LenProperties DEF TypeOK
  <2> QED
    BY <2>1 DEF TypeOK, Parses
<1>2. batch.rows \in Seq(Event) /\ pending.rows \in Seq(Event)
  BY <1>1 DEF Block
<1> QED
  BY <1>1, <1>2, QueueParts, TodoParts

LEMMA PartsAfter ==
  ASSUME StreamInv'
  PROVE  QueueTold(queue') \in Parts /\ pending'.rows \in Seq(Event) /\ seen' \in Seq(Event)
<1>1. queue' \in Seq(Item) /\ pending' \in Block /\ seen' \in Seq(Event)
  BY DEF StreamInv, TypeOK
<1>2. pending'.rows \in Seq(Event)
  BY <1>1 DEF Block
<1> QED
  BY <1>1, <1>2, QueueParts

\* The script F, of which the first d events have left the parser
Script(F, d) ==
  /\ Good(mode, response, read, F) /\ d <= Len(F)
  /\ Ahead(mode, response, seen, refused, pending.rows, QueueTold(queue), F, d)
  /\ IF Halted THEN d = Len(F)
     ELSE Behind(mode, response, read, result = "fatal", parse, batch.rows, TodoTold(todo), F, d)

LEMMA GoodBoth ==
  ASSUME NEW m, NEW r, NEW u, NEW n \in Nat, \A p \in 1..n : r[p] = u[p],
         NEW F \in Seq(Event), Good(m, r, n, F)
  PROVE  Good(m, u, n, F) /\ Good(m, u, n + 1, F)
<1>1. n \in {n, n + 1} /\ n + 1 \in {n, n + 1}
  OBVIOUS
<1>2. Good(m, u, n, F)
  BY <1>1, GoodLater
<1>3. Good(m, u, n + 1, F)
  BY <1>1, GoodLater
<1> QED
  BY <1>2, <1>3

\* Once nothing enters the channel, the script ends with what left the parser.
LEMMA ScriptHalts ==
  ASSUME StreamInv, StreamInv', NEW F \in Seq(Event), NEW d \in Nat, d <= Len(F),
         Good(mode, response, read, F),
         Ahead(mode, response, seen', refused', pending'.rows, QueueTold(queue'), F, d),
         mode' = mode, Grown, read' \in {read, read + 1}, Halted'
  PROVE  Scripted'
<1>1. PICK G \in Seq(Event) : Len(G) = d /\ \A i \in 1..d : F[i] = G[i]
  BY PrefixFacts
<1>2. Good(mode, response, read, G)
  BY <1>1, GoodPrefix
<1>3. /\ QueueTold(queue') \in Parts /\ pending'.rows \in Seq(Event) /\ seen' \in Seq(Event)
      /\ read \in Nat /\ \A p \in 1..read : response[p] = response'[p]
  <2>1. QueueTold(queue') \in Parts /\ pending'.rows \in Seq(Event) /\ seen' \in Seq(Event)
    BY PartsAfter
  <2>2. read \in Nat /\ read <= Len(response) /\ Len(response) \in Nat
    BY PartsFacts DEF StreamInv
  <2> QED
    BY <2>1, <2>2 DEF Grown
<1>4. Good(mode, response', read', G)
  <2>1. /\ read \in Nat /\ read' \in {read, read + 1} /\ G \in Seq(Event) /\ Good(mode, response, read, G)
        /\ \A p \in 1..read : response[p] = response'[p]
    BY <1>2, <1>3
  <2>2. Good(mode, response', read, G) /\ Good(mode, response', read + 1, G)
    BY <2>1, GoodBoth
  <2> QED
    BY <2>1, <2>2
<1>5. Ahead(mode, response', seen', refused', pending'.rows, QueueTold(queue'), G, d)
  BY <1>1, <1>3, AheadKept
<1> QED
  BY <1>1, <1>4, <1>5 DEF Scripted

LEMMA CompleteLater ==
  ASSUME NEW m, NEW r, NEW u, NEW n \in Nat, \A p \in 1..n : r[p] = u[p], NEW F, Complete(m, r, n, F)
  PROVE  Complete(m, u, n, F)
BY WantedAgrees DEF Complete

\* The response may grow.
LEMMA ScriptRests ==
  ASSUME StreamInv, StreamInv', Scripted, Grown, Halted' <=> Halted,
         UNCHANGED <<mode, queue, pending, seen, refused, read, parse, todo, batch, result>>
  PROVE  Scripted'
<1>1. PICK F \in Seq(Event), d \in Nat : Script(F, d)
  BY DEF Scripted, Script
<1>2. /\ read \in Nat /\ \A p \in 1..read : response[p] = response'[p]
      /\ QueueTold(queue) \in Parts /\ pending.rows \in Seq(Event) /\ seen \in Seq(Event)
  <2>1. /\ read \in Nat /\ read <= Len(response) /\ Len(response) \in Nat
        /\ QueueTold(queue) \in Parts /\ pending.rows \in Seq(Event) /\ seen \in Seq(Event)
    BY PartsFacts DEF StreamInv
  <2> QED
    BY <2>1 DEF Grown
<1>3. Good(mode, response', read, F)
  BY <1>1, <1>2, GoodBoth DEF Script
<1>4. Ahead(mode, response', seen, refused, pending.rows, QueueTold(queue), F, d)
  BY <1>1, <1>2, AheadKept DEF Script
<1>5. ASSUME ~Halted
      PROVE  Behind(mode, response', read, result = "fatal", parse, batch.rows, TodoTold(todo), F, d)
  <2> DEFINE n == IF result = "fatal" THEN read - 1 ELSE read
  <2>1. n \in Int /\ n >= -1 /\ \A p \in 1..n : response[p] = response'[p]
    BY <1>2
  <2> HIDE DEF n
  <2>2. /\ \E e \in Nat : One(F, batch.rows, d, e) /\ Laid(F, TodoTold(todo), e, Len(F))
        /\ Complete(mode, response, n, F)
        /\ result # "fatal" => Link(mode, F, parse)
    BY <1>1, <1>5 DEF Script, Behind, n
  <2>3. Complete(mode, response', n, F)
    <3>1. CASE n \in Nat
      BY <2>1, <2>2, <3>1, CompleteLater
    <3>2. CASE n \notin Nat
      BY <2>1, <3>2 DEF Complete
    <3> QED
      BY <3>1, <3>2
  <2> QED
    BY <2>2, <2>3 DEF Behind, n
<1>6. d <= Len(F) /\ (Halted => d = Len(F))
  BY <1>1 DEF Script
<1> QED
  BY <1>3, <1>4, <1>5, <1>6 DEF Scripted

\* The caller takes what is ahead.
LEMMA ScriptAhead ==
  ASSUME StreamInv, StreamInv', NEW F \in Seq(Event), NEW d \in Nat, Script(F, d), Halted => Halted',
         UNCHANGED <<mode, response, read, parse, todo, batch, result>>,
         Ahead(mode, response, seen', refused', pending'.rows, QueueTold(queue'), F, d)
  PROVE  Scripted'
<1>1. CASE Halted'
  <2>1. Grown
    <3>1. Len(response) \in Nat
      BY PartsFacts DEF StreamInv
    <3> QED
      BY <3>1 DEF Grown
  <2> QED
    BY <1>1, <2>1, ScriptHalts DEF Script
<1>2. CASE ~Halted'
  BY <1>2 DEF Script, Scripted
<1> QED
  BY <1>1, <1>2

LEMMA LaidPaste ==
  ASSUME NEW F, NEW s \in Parts, NEW t \in Parts, NEW u \in Parts, Len(u) = Len(s) + Len(t),
         \A i \in 1..Len(s) : u[i] = s[i], \A i \in 1..Len(t) : u[Len(s) + i] = t[i],
         NEW x \in Nat, NEW y \in Nat, NEW z \in Nat, Laid(F, s, x, y), Laid(F, t, y, z)
  PROVE  Laid(F, u, x, z)
<1> DEFINE a == Len(s)
           b == Len(t)
<1>1. a \in Nat /\ b \in Nat /\ Len(u) = a + b
  BY PartFacts
<1>2. PICK f \in [1..(a + 1) -> 0..y] :
        f[1] = x /\ f[a + 1] = y /\ \A i \in 1..a : One(F, s[i], f[i], f[i + 1])
  BY DEF Laid
<1>3. PICK g \in [1..(b + 1) -> 0..z] :
        g[1] = y /\ g[b + 1] = z /\ \A i \in 1..b : One(F, t[i], g[i], g[i + 1])
  BY DEF Laid
<1>4. y <= z
  BY LaidAgrees
<1>5. /\ \A i \in 1..a : u[i] = s[i]
      /\ \A i \in 1..b : u[a + i] = t[i]
  OBVIOUS
<1> HIDE DEF a, b
<1> DEFINE h == [i \in 1..(a + b + 1) |-> IF i <= a + 1 THEN f[i] ELSE g[i - a]]
<1>6. ASSUME NEW i \in 1..(a + b + 1) PROVE h[i] \in 0..z /\ h[i] = IF i <= a + 1 THEN f[i] ELSE g[i - a]
  <2>1. CASE i <= a + 1
    <3>1. i \in 1..(a + 1)
      BY <1>1, <2>1
    <3>2. f[i] \in 0..y
      BY <3>1
    <3>3. f[i] \in 0..z
      BY <1>4, <3>2
    <3> QED
      BY <2>1, <3>3
  <2>2. CASE ~(i <= a + 1)
    <3>1. i - a \in 1..(b + 1)
      BY <1>1, <2>2
    <3>2. g[i - a] \in 0..z
      BY <3>1
    <3> QED
      BY <2>2, <3>2
  <2> QED
    BY <2>1, <2>2
<1>7. h \in [1..(a + b + 1) -> 0..z]
  BY <1>6
<1>11. ASSUME NEW j \in 2..(b + 1) PROVE h[a + j] = g[j]
  <2> DEFINE i == a + j
  <2>1. i \in 1..(a + b + 1) /\ ~(i <= a + 1) /\ i - a = j
    BY <1>1
  <2> HIDE DEF i, h
  <2>2. h[i] = g[i - a]
    BY <1>6, <2>1
  <2> QED
    BY <2>1, <2>2 DEF i
<1> HIDE DEF h
<1>8. h[1] = x
  <2>1. 1 \in 1..(a + b + 1) /\ 1 <= a + 1
    BY <1>1
  <2> QED
    BY <1>2, <1>6, <2>1
<1>9. h[a + b + 1] = z
  <2>1. a + b + 1 \in 1..(a + b + 1) /\ a + b + 1 - a = b + 1
    BY <1>1
  <2>2. CASE b = 0
    <3>1. a + b + 1 = a + 1
      BY <1>1, <2>2
    <3>2. h[a + b + 1] = f[a + 1]
      BY <1>6, <2>1, <3>1
    <3>3. y = z
      BY <1>3, <2>2
    <3> QED
      BY <1>2, <3>2, <3>3
  <2>3. CASE b # 0
    <3>1. b + 1 \in 2..(b + 1) /\ a + (b + 1) = a + b + 1
      BY <1>1, <2>3
    <3> QED
      BY <1>3, <1>11, <3>1
  <2> QED
    BY <2>2, <2>3
<1>10. ASSUME NEW i \in 1..(a + b) PROVE One(F, u[i], h[i], h[i + 1])
  <2>1. i \in 1..(a + b + 1) /\ i + 1 \in 1..(a + b + 1)
    BY <1>1
  <2>2. CASE i <= a
    <3>1. i \in 1..a /\ i <= a + 1 /\ i + 1 <= a + 1
      BY <1>1, <2>2
    <3> QED
      BY <1>2, <1>5, <1>6, <2>1, <3>1
  <2>3. CASE ~(i <= a)
    <3> DEFINE j == i - a
    <3>1. j \in 1..b /\ a + j = i /\ i + 1 - a = j + 1 /\ ~(i + 1 <= a + 1) /\ j \in 1..(b + 1)
          /\ (i <= a + 1 => i = a + 1 /\ j = 1)
      BY <1>1, <2>3
    <3> HIDE DEF j
    <3>2. u[i] = t[j] /\ One(F, t[j], g[j], g[j + 1])
      BY <1>3, <1>5, <3>1
    <3>3. h[i + 1] = g[j + 1]
      <4>1. j + 1 \in 2..(b + 1) /\ a + (j + 1) = i + 1
        BY <1>1, <3>1
      <4> QED
        BY <1>11, <4>1
    <3>4. h[i] = g[j]
      <4>1. CASE i <= a + 1
        BY <1>2, <1>3, <1>6, <2>1, <3>1, <4>1
      <4>2. CASE ~(i <= a + 1)
        <5>1. i - a = j
          BY <1>1, <3>1
        <5> QED
          BY <1>6, <2>1, <4>2, <5>1
      <4> QED
        BY <4>1, <4>2
    <3> QED
      BY <3>2, <3>3, <3>4
  <2> QED
    BY <2>2, <2>3
<1> QED
  BY <1>1, <1>7, <1>8, <1>9, <1>10 DEF Laid

\* How awaits and items are told
LEMMA TodoConcat ==
  ASSUME NEW F, NEW s \in Seq(Op), NEW t \in Seq(Op), NEW x \in Nat, NEW y \in Nat, NEW z \in Nat,
         Laid(F, TodoTold(s), x, y), Laid(F, TodoTold(t), y, z)
  PROVE  Laid(F, TodoTold(s \o t), x, z)
<1> DEFINE u == s \o t
<1>1. /\ u \in Seq(Op) /\ Len(u) = Len(s) + Len(t) /\ Len(s) \in Nat /\ Len(t) \in Nat
      /\ \A i \in 1..(Len(s) + Len(t)) : u[i] = IF i <= Len(s) THEN s[i] ELSE t[i - Len(s)]
  BY ConcatProperties, LenProperties
<1> HIDE DEF u
<1>2. /\ TodoTold(s) \in Parts /\ Len(TodoTold(s)) = Len(s) /\ TodoTold(t) \in Parts /\ Len(TodoTold(t)) = Len(t)
      /\ TodoTold(u) \in Parts /\ Len(TodoTold(u)) = Len(u)
  BY <1>1, TodoParts
<1>3. ASSUME NEW i \in 1..Len(s) PROVE TodoTold(u)[i] = TodoTold(s)[i]
  <2>1. i \in 1..Len(u) /\ u[i] = s[i]
    BY <1>1
  <2> QED
    BY <2>1 DEF TodoTold
<1>4. ASSUME NEW i \in 1..Len(t) PROVE TodoTold(u)[Len(s) + i] = TodoTold(t)[i]
  <2>1. Len(s) + i \in 1..Len(u) /\ Len(s) + i \in 1..(Len(s) + Len(t)) /\ ~(Len(s) + i <= Len(s)) /\ Len(s) + i - Len(s) = i
    BY <1>1
  <2>2. u[Len(s) + i] = t[i]
    BY <1>1, <2>1
  <2> QED
    BY <2>1, <2>2 DEF TodoTold
<1>5. Laid(F, TodoTold(u), x, z)
  BY <1>1, <1>2, <1>3, <1>4, LaidPaste
<1> QED
  BY <1>5 DEF u

LEMMA TodoOne ==
  ASSUME NEW F, NEW o \in Op, NEW x \in Nat, NEW y \in Nat, One(F, OpTold(o), x, y)
  PROVE  Laid(F, TodoTold(<<o>>), x, y)
<1> DEFINE s == <<o>>
           q == OpTold(o)
<1>1. s \in Seq(Op) /\ Len(s) = 1 /\ s[1] = o
  OBVIOUS
<1>2. q \in Seq(Event)
  <2>1. o.ev \in Event
    BY DEF Op
  <2>2. <<o.ev>> \in Seq(Event) /\ <<>> \in Seq(Event)
    BY <2>1
  <2> QED
    BY <2>2 DEF OpTold
<1> HIDE DEF s
<1>3. TodoTold(s) = [i \in 1..1 |-> q] /\ TodoTold(s) \in Parts /\ Len(TodoTold(s)) = 1
  <2>1. \A i \in 1..1 : i = 1
    OBVIOUS
  <2>2. TodoTold(s) = [i \in 1..1 |-> OpTold(s[i])]
    BY <1>1 DEF TodoTold
  <2>3. TodoTold(s) = [i \in 1..1 |-> q]
    BY <1>1, <2>1, <2>2
  <2> QED
    BY <1>1, <2>3, TodoParts
<1>4. Laid(F, <<>>, y, y)
  BY LaidEmpty
<1>5. <<>> \in Parts
  BY DEF Parts
<1> HIDE DEF q
<1>6. Laid(F, <<q>> \o <<>>, x, y)
  BY <1>2, <1>4, <1>5, LaidFirst DEF q
<1>7. <<q>> \o <<>> = <<q>>
  <2>1. <<q>> \in Seq(Seq(Event))
    BY <1>2
  <2> QED
    BY <2>1, ConcatEmptySeq
<1>8. TodoTold(s) = <<q>>
  <2>1. <<q>> \in Parts /\ Len(<<q>>) = 1 /\ <<q>>[1] = q
    BY <1>2 DEF Parts
  <2>2. TodoTold(s)[1] = q
    BY <1>3
  <2> DEFINE v == <<q>>
             w == TodoTold(s)
  <2> HIDE DEF v, w
  <2>3. v \in Parts /\ w \in Parts /\ Len(v) = Len(w) /\ \A i \in 1..Len(w) : v[i] = w[i]
    <3>1. \A i \in 1..1 : i = 1
      OBVIOUS
    <3> QED
      BY <1>3, <2>1, <2>2, <3>1 DEF v, w
  <2>4. v = w
    BY <2>3, SeqEqual DEF Parts
  <2> QED
    BY <2>4 DEF v, w
<1> QED
  BY <1>6, <1>7, <1>8 DEF s

LEMMA TodoNone ==
  ASSUME NEW F, NEW x \in Nat
  PROVE  Laid(F, TodoTold(<<>>), x, x) /\ \A y \in Nat : Laid(F, TodoTold(<<>>), x, y) => y = x
<1>1. TodoTold(<<>>) = <<>>
  <2>1. <<>> \in Seq(Op) /\ Len(<<>>) = 0
    OBVIOUS
  <2>2. TodoTold(<<>>) \in Parts /\ Len(TodoTold(<<>>)) = 0
    BY <2>1, TodoParts
  <2> QED
    BY <2>2, EmptySeq DEF Parts
<1> QED
  BY <1>1, LaidEmpty

LEMMA QueueNone ==
  ASSUME NEW F, NEW x \in Nat
  PROVE  Laid(F, QueueTold(<<>>), x, x) /\ \A y \in Nat : Laid(F, QueueTold(<<>>), x, y) => y = x
<1>1. QueueTold(<<>>) = <<>>
  <2>1. <<>> \in Seq(Item) /\ Len(<<>>) = 0
    OBVIOUS
  <2>2. QueueTold(<<>>) \in Parts /\ Len(QueueTold(<<>>)) = 0
    BY <2>1, QueueParts
  <2> QED
    BY <2>2, EmptySeq DEF Parts
<1> QED
  BY <1>1, LaidEmpty

LEMMA TodoTakes ==
  ASSUME NEW F, NEW s \in Seq(Op), s # <<>>, NEW x \in Nat, NEW y \in Nat, Laid(F, TodoTold(s), x, y)
  PROVE  \E z \in Nat : One(F, OpTold(Head(s)), x, z) /\ Laid(F, TodoTold(Tail(s)), z, y)
<1> DEFINE T == TodoTold(s)
           t == Tail(s)
<1>1. /\ T \in Parts /\ Len(T) = Len(s) /\ Len(s) \in Nat /\ Len(s) # 0
      /\ t \in Seq(Op) /\ Len(t) = Len(s) - 1 /\ Head(s) = s[1] /\ \A i \in 1..(Len(s) - 1) : t[i] = s[i + 1]
  BY TodoParts, HeadTailProperties, EmptySeq
<1>2. T # <<>> /\ T \in Seq(Seq(Event))
  BY <1>1, EmptySeq DEF Parts
<1>3. /\ Tail(T) \in Parts /\ Len(Tail(T)) = Len(T) - 1 /\ Head(T) = T[1]
      /\ \A i \in 1..(Len(T) - 1) : Tail(T)[i] = T[i + 1]
  BY <1>2, HeadTailProperties DEF Parts
<1>4. \A i \in 1..Len(s) : T[i] = OpTold(s[i])
  BY DEF TodoTold
<1>5. TodoTold(t) \in Parts /\ Len(TodoTold(t)) = Len(t) /\ \A i \in 1..Len(t) : TodoTold(t)[i] = OpTold(t[i])
  BY <1>1, TodoParts DEF TodoTold
<1> HIDE DEF T, t
<1>6. \A i \in 1..(Len(s) - 1) : i + 1 \in 1..Len(s)
  BY <1>1
<1>7. Len(Tail(T)) = Len(TodoTold(t)) /\ \A i \in 1..Len(Tail(T)) : Tail(T)[i] = TodoTold(t)[i]
  BY <1>1, <1>3, <1>4, <1>5, <1>6
<1>8. Tail(T) = TodoTold(t)
  BY <1>3, <1>5, <1>7, SeqEqual DEF Parts
<1>9. Head(T) = OpTold(Head(s))
  <2>1. 1 \in 1..Len(s)
    BY <1>1
  <2> QED
    BY <1>1, <1>3, <1>4, <2>1
<1>10. Laid(F, T, x, y)
  BY DEF T
<1> QED
  BY <1>1, <1>2, <1>8, <1>9, <1>10, LaidTail DEF t

LEMMA QueueTakes ==
  ASSUME NEW F, NEW s \in Seq(Item), s # <<>>, NEW x \in Nat, NEW y \in Nat, Laid(F, QueueTold(s), x, y)
  PROVE  \E z \in Nat : One(F, ItemTold(Head(s)), x, z) /\ Laid(F, QueueTold(Tail(s)), z, y)
<1> DEFINE T == QueueTold(s)
           t == Tail(s)
<1>1. /\ T \in Parts /\ Len(T) = Len(s) /\ Len(s) \in Nat /\ Len(s) # 0
      /\ t \in Seq(Item) /\ Len(t) = Len(s) - 1 /\ Head(s) = s[1] /\ \A i \in 1..(Len(s) - 1) : t[i] = s[i + 1]
  BY QueueParts, HeadTailProperties, EmptySeq
<1>2. T # <<>> /\ T \in Seq(Seq(Event))
  BY <1>1, EmptySeq DEF Parts
<1>3. /\ Tail(T) \in Parts /\ Len(Tail(T)) = Len(T) - 1 /\ Head(T) = T[1]
      /\ \A i \in 1..(Len(T) - 1) : Tail(T)[i] = T[i + 1]
  BY <1>2, HeadTailProperties DEF Parts
<1>4. \A i \in 1..Len(s) : T[i] = ItemTold(s[i])
  BY DEF QueueTold
<1>5. QueueTold(t) \in Parts /\ Len(QueueTold(t)) = Len(t) /\ \A i \in 1..Len(t) : QueueTold(t)[i] = ItemTold(t[i])
  BY <1>1, QueueParts DEF QueueTold
<1> HIDE DEF T, t
<1>6. \A i \in 1..(Len(s) - 1) : i + 1 \in 1..Len(s)
  BY <1>1
<1>7. Len(Tail(T)) = Len(QueueTold(t)) /\ \A i \in 1..Len(Tail(T)) : Tail(T)[i] = QueueTold(t)[i]
  BY <1>1, <1>3, <1>4, <1>5, <1>6
<1>8. Tail(T) = QueueTold(t)
  BY <1>3, <1>5, <1>7, SeqEqual DEF Parts
<1>9. Head(T) = ItemTold(Head(s))
  <2>1. 1 \in 1..Len(s)
    BY <1>1
  <2> QED
    BY <1>1, <1>3, <1>4, <2>1
<1>10. Laid(F, T, x, y)
  BY DEF T
<1> QED
  BY <1>1, <1>2, <1>8, <1>9, <1>10, LaidTail DEF t

LEMMA QueueLast ==
  ASSUME NEW F, NEW s \in Seq(Item), NEW it \in Item, NEW x \in Nat, NEW y \in Nat, NEW z \in Nat,
         Laid(F, QueueTold(s), x, y), One(F, ItemTold(it), y, z)
  PROVE  Laid(F, QueueTold(Append(s, it)), x, z)
<1> DEFINE u == Append(s, it)
           q == ItemTold(it)
           T == QueueTold(s)
<1>1. /\ u \in Seq(Item) /\ Len(u) = Len(s) + 1 /\ Len(s) \in Nat /\ u[Len(s) + 1] = it
      /\ \A i \in 1..Len(s) : u[i] = s[i]
  BY AppendProperties, LenProperties
<1>2. q \in Seq(Event)
  <2>1. it.ev \in Event /\ it.block.rows \in Seq(Event)
    BY DEF Item, Block
  <2>2. <<it.ev>> \in Seq(Event)
    BY <2>1
  <2> QED
    BY <2>1, <2>2 DEF ItemTold
<1> HIDE DEF u
<1>3. /\ T \in Parts /\ Len(T) = Len(s) /\ QueueTold(u) \in Parts /\ Len(QueueTold(u)) = Len(u)
      /\ \A i \in 1..Len(s) : T[i] = ItemTold(s[i])
      /\ \A i \in 1..Len(u) : QueueTold(u)[i] = ItemTold(u[i])
  BY <1>1, QueueParts DEF QueueTold
<1>4. Laid(F, T, x, y)
  OBVIOUS
<1>5. One(F, q, y, z)
  OBVIOUS
<1>6. ItemTold(u[Len(s) + 1]) = q
  BY <1>1
<1> HIDE DEF q, T
<1>7. Laid(F, Append(T, q), x, z)
  BY <1>2, <1>3, <1>4, <1>5, LaidLast
<1>8. /\ Append(T, q) \in Parts /\ Len(Append(T, q)) = Len(T) + 1 /\ Append(T, q)[Len(T) + 1] = q
      /\ \A i \in 1..Len(T) : Append(T, q)[i] = T[i]
  <2>1. T \in Seq(Seq(Event)) /\ q \in Seq(Event)
    BY <1>2, <1>3 DEF Parts
  <2> DEFINE S == Seq(Event)
  <2> HIDE DEF S
  <2>2. T \in Seq(S) /\ q \in S
    BY <2>1 DEF S
  <2>3. /\ Append(T, q) \in Seq(S) /\ Len(Append(T, q)) = Len(T) + 1 /\ Append(T, q)[Len(T) + 1] = q
        /\ \A i \in 1..Len(T) : Append(T, q)[i] = T[i]
    BY <2>2, AppendProperties
  <2> QED
    BY <2>3 DEF S, Parts
<1>9. ASSUME NEW i \in 1..(Len(s) + 1) PROVE Append(T, q)[i] = QueueTold(u)[i]
  <2>1. CASE i = Len(s) + 1
    BY <1>1, <1>3, <1>6, <1>8, <2>1
  <2>2. CASE i # Len(s) + 1
    <3>1. i \in 1..Len(s) /\ i \in 1..Len(u)
      BY <1>1, <2>2
    <3> QED
      BY <1>1, <1>3, <1>8, <3>1
  <2> QED
    BY <2>1, <2>2
<1>10. Append(T, q) = QueueTold(u)
  BY <1>1, <1>3, <1>8, <1>9, SeqEqual DEF Parts
<1> QED
  BY <1>7, <1>10 DEF u

LEMMA OneFacts ==
  ASSUME NEW F, NEW x \in Nat
  PROVE  /\ One(F, <<>>, x, x) /\ \A y \in Nat : One(F, <<>>, x, y) => y = x
         /\ \A ev \in Event, y \in Nat : One(F, <<ev>>, x, y) <=> (y = x + 1 /\ F[y] = ev)
<1>1. Len(<<>>) = 0 /\ 1..0 = {} /\ x + 0 = x
  OBVIOUS
<1>2. ASSUME NEW ev \in Event, NEW y \in Nat PROVE One(F, <<ev>>, x, y) <=> (y = x + 1 /\ F[y] = ev)
  <2> DEFINE q == <<ev>>
  <2>1. Len(q) = 1 /\ q[1] = ev /\ \A j \in 1..1 : j = 1
    OBVIOUS
  <2>2. 1 \in 1..1
    OBVIOUS
  <2> HIDE DEF q
  <2>3. One(F, q, x, y) <=> (y = x + 1 /\ F[x + 1] = ev)
    BY <2>1, <2>2 DEF One
  <2> QED
    BY <2>3 DEF q
<1> QED
  BY <1>1, <1>2 DEF One

LEMMA OneNone ==
  ASSUME NEW F, NEW q, q = <<>>, NEW x \in Nat, NEW y \in Nat, One(F, q, x, y)
  PROVE  y = x
BY OneFacts

LEMMA OneAppend ==
  ASSUME NEW F, NEW q \in Seq(Event), NEW ev \in Event, NEW x \in Nat, NEW y \in Nat, NEW z \in Nat,
         One(F, q, x, y), One(F, <<ev>>, y, z)
  PROVE  One(F, Append(q, ev), x, z)
<1> DEFINE u == Append(q, ev)
           l == Len(q)
<1>1. l \in Nat /\ Len(u) = l + 1 /\ u[l + 1] = ev /\ \A j \in 1..l : u[j] = q[j]
  BY AppendFacts
<1>2. z = y + 1 /\ F[z] = ev /\ y = x + l /\ \A j \in 1..l : F[x + j] = q[j]
  BY OneFacts DEF One
<1> HIDE DEF u, l
<1>3. ASSUME NEW j \in 1..(l + 1) PROVE F[x + j] = u[j]
  <2>1. CASE j = l + 1
    <3>1. x + j = z
      BY <1>1, <1>2, <2>1
    <3> QED
      BY <1>1, <1>2, <2>1, <3>1
  <2>2. CASE j # l + 1
    <3>1. j \in 1..l
      BY <1>1, <2>2
    <3> QED
      BY <1>1, <1>2, <3>1
  <2> QED
    BY <2>1, <2>2
<1>4. z = x + (l + 1)
  BY <1>1, <1>2
<1> QED
  BY <1>1, <1>3, <1>4 DEF One, u

LEMMA NothingStaged == NoBlock.rows = <<>> /\ NoBlock.rows \in Seq(Event)
BY DEF NoBlock

\* The steps of an await
LEMMA AwaitsTell ==
  ASSUME StreamInv, StreamInv', AwaitInv, Scripted,
         \/ SendBudget \/ SendChannel \/ SendFails \/ PushFlushes \/ PushAcquires \/ PushCharges
         \/ PushFails \/ PushAdds \/ FlushNothing \/ FlushBudget \/ FlushChannel \/ FlushFails
  PROVE  Scripted'
<1>1. /\ UNCHANGED <<mode, response, read, parse, result>>
      /\ UNCHANGED <<pending, refused, seen>> /\ (Halted' <=> Halted) /\ Grown
  <2>1. UNCHANGED <<mode, backendVars, driveVars, read, parse, result, callerVars>>
    BY DEF SendBudget, SendChannel, SendFails, PushFlushes, PushAcquires,
       PushCharges, PushFails, PushAdds, FlushNothing, FlushBudget, FlushChannel, FlushFails
  <2>2. Len(response) \in Nat
    BY PartsFacts DEF StreamInv
  <2> QED
    BY <2>1, <2>2 DEF Halted, Interrupted, Grown, backendVars, driveVars, callerVars
<1>2. PICK F \in Seq(Event), d \in Nat : Script(F, d)
  BY DEF Scripted, Script
<1>3. PICK op : At(op)
  BY DEF SendBudget, SendChannel, SendFails, PushFlushes, PushAcquires,
     PushCharges, PushFails, PushAdds, FlushNothing, FlushBudget, FlushChannel, FlushFails
<1>4. CASE Halted
  <2>1. ~SendChannel /\ ~FlushChannel
    BY <1>4 DEF SendChannel, FlushChannel, At, Halted
  <2>2. queue' = queue
    BY <2>1 DEF SendBudget, SendFails, PushFlushes, PushAcquires,
       PushCharges, PushFails, PushAdds, FlushNothing, FlushBudget, FlushFails
  <2> QED
    BY <1>1, <1>2, <1>4, <2>2, ScriptHalts DEF Script
<1>5. CASE ~Halted
  <2> DEFINE rest == Tail(todo)
             L == Len(F)
  <2>1. /\ todo # <<>> /\ Now = Head(todo) /\ Now.op = op /\ Now \in Op /\ Now.ev \in Event /\ todo \in Seq(Op)
        /\ Now = [op |-> Now.op, ev |-> Now.ev, permit |-> Now.permit]
        /\ rest \in Seq(Op) /\ L \in Nat /\ batch \in Block /\ batch.rows \in Seq(Event) /\ queue \in Seq(Item)
    <3>1. L \in Nat
      BY LenProperties
    <3>2. todo # <<>> /\ todo \in Seq(Op) /\ rest \in Seq(Op)
      BY <1>3, PartsFacts, AtFacts, HeadTailProperties DEF StreamInv
    <3> QED
      BY <1>3, <3>1, <3>2, PartsFacts, AtFacts DEF StreamInv, Now
  <2>2. /\ Good(mode, response, read, F) /\ d <= L
        /\ Ahead(mode, response, seen, refused, pending.rows, QueueTold(queue), F, d)
        /\ Complete(mode, response, IF result = "fatal" THEN read - 1 ELSE read, F)
        /\ result # "fatal" => Link(mode, F, parse)
    BY <1>2, <1>5 DEF Script, Behind
  <2>3. PICK e \in Nat : One(F, batch.rows, d, e) /\ Laid(F, TodoTold(todo), e, L)
    BY <1>2, <1>5 DEF Script, Behind
  <2>4. PICK z \in Nat : One(F, OpTold(Now), e, z) /\ Laid(F, TodoTold(rest), z, L)
    BY <2>1, <2>3, TodoTakes
  <2>5. OpTold(Now) = IF Now.op = "flush" THEN <<>> ELSE <<Now.ev>>
    BY DEF OpTold
  <2>6. z <= L
    BY <2>1, <2>4, TodoParts, LaidAgrees
  <2> HIDE DEF rest, L
  <2>7. ASSUME NEW x \in Nat, queue' = queue,
               One(F, batch'.rows, d, x), Laid(F, TodoTold(todo'), x, L) PROVE Scripted'
    <3>1. ~Halted'
      BY <1>1, <1>5
    <3>2. Behind(mode, response, read, result = "fatal", parse, batch'.rows, TodoTold(todo'), F, d)
      BY <2>2, <2>7 DEF Behind, L
    <3> QED
      BY <1>1, <2>2, <2>7, <3>1, <3>2 DEF Scripted, L
  <2>8. ASSUME NEW x \in Nat, NEW it \in Item, queue' = Append(queue, it), x <= L,
               One(F, ItemTold(it), d, x), batch' = NoBlock, Laid(F, TodoTold(todo'), x, L) PROVE Scripted'
    <3>1. PICK a \in Nat, b \in Nat : /\ Shows(mode, response, seen, refused, F, a) /\ One(F, pending.rows, a, b)
                                      /\ Laid(F, QueueTold(queue), b, d)
      BY <2>2 DEF Ahead
    <3>2. Laid(F, QueueTold(queue'), b, x)
      BY <2>1, <2>8, <3>1, QueueLast
    <3>3. Ahead(mode, response, seen, refused, pending.rows, QueueTold(queue'), F, x)
      BY <3>1, <3>2 DEF Ahead
    <3>4. One(F, batch'.rows, x, x)
      BY <2>8, NothingStaged, OneFacts
    <3>5. ~Halted'
      BY <1>1, <1>5
    <3>6. Behind(mode, response, read, result = "fatal", parse, batch'.rows, TodoTold(todo'), F, x)
      BY <2>2, <2>8, <3>4 DEF Behind, L
    <3> QED
      BY <1>1, <2>2, <2>8, <3>3, <3>5, <3>6 DEF Scripted, L
  <2>9. ASSUME NEW o \in Op, OpTold(o) = OpTold(Now), todo' = <<o>> \o rest
        PROVE  Laid(F, TodoTold(todo'), e, L)
    <3>1. Laid(F, TodoTold(<<o>>), e, z) /\ <<o>> \in Seq(Op)
      BY <2>4, <2>9, TodoOne, OpsOne
    <3> QED
      BY <2>1, <2>4, <2>9, <3>1, TodoConcat DEF L
  <2>10. CASE SendBudget
    <3> DEFINE o == Granted(EventBytes(Now.ev))
    <3>1. todo' = <<o>> \o rest /\ batch' = batch /\ queue' = queue
      BY <2>10 DEF SendBudget, rest
    <3>2. EventBytes(Now.ev) \in Nat
      BY <1>3, AtFacts
    <3>3. o \in Op /\ o.op = Now.op /\ o.ev = Now.ev
      BY <2>1, <3>2 DEF Granted, Op
    <3> HIDE DEF o
    <3>4. OpTold(o) = OpTold(Now)
      BY <3>3 DEF OpTold
    <3> QED
      BY <2>3, <2>7, <2>9, <3>1, <3>3, <3>4
  <2>11. CASE SendChannel
    <3> DEFINE it == [rows |-> FALSE, ev |-> Now.ev, permit |-> Now.permit, block |-> NoBlock]
    <3>1. queue' = Append(queue, it) /\ todo' = rest /\ batch' = batch /\ At("send")
      BY <2>11 DEF SendChannel, rest
    <3>2. Now.op = "send" /\ Now.permit \in Nat
      BY <3>1, AtFacts
    <3>3. it \in Item
      BY <2>1, <3>2, NoBlockFacts DEF Item
    <3>4. ItemTold(it) = <<Now.ev>>
      BY DEF ItemTold
    <3> HIDE DEF it
    <3>5. batch = NoBlock
      <4>1. 1 \in 1..Len(todo) /\ todo[1] = Now
        BY <2>1, EmptySeq, LenProperties
      <4> QED
        BY <3>2, <4>1 DEF AwaitInv, Sends
    <3>6. e = d
      <4>1. batch.rows = <<>>
        BY <3>5, NothingStaged
      <4> QED
        BY <2>3, <4>1, OneNone
    <3>7. One(F, ItemTold(it), d, z)
      BY <2>4, <2>5, <3>2, <3>4, <3>6
    <3> QED
      BY <2>4, <2>6, <2>8, <3>1, <3>3, <3>5, <3>7
  <2>12. CASE PushFlushes
    <3>1. todo' = <<Flush>> \o todo /\ batch' = batch /\ queue' = queue
      BY <2>12 DEF PushFlushes
    <3>2. OpTold(Flush) = <<>>
      BY DEF OpTold, Flush, Await
    <3>3. Laid(F, TodoTold(<<Flush>>), e, e)
      BY <3>2, FlushFacts, OneFacts, TodoOne
    <3>4. Laid(F, TodoTold(todo'), e, L)
      BY <2>1, <2>3, <3>1, <3>3, FlushFacts, TodoConcat
    <3> QED
      BY <2>3, <2>7, <3>1, <3>4
  <2>13. CASE PushAcquires \/ PushCharges
    <3>1. \A x \in {"charge", "add"} : Await(x, Now.ev) \in Op /\ OpTold(Await(x, Now.ev)) = <<Now.ev>>
      BY <2>1 DEF Await, Op, OpTold
    <3>2. PICK x \in {"charge", "add"} : todo' = <<Await(x, Now.ev)>> \o rest
      BY <2>13 DEF PushAcquires, PushCharges, rest
    <3>3. Now.op # "flush"
      BY <2>13, AtFacts DEF PushAcquires, PushCharges
    <3>4. OpTold(Now) = <<Now.ev>> /\ queue' = queue
      BY <2>5, <2>13, <3>3 DEF PushAcquires, PushCharges
    <3>5. batch'.rows = batch.rows
      BY <2>1, <2>13 DEF PushAcquires, PushCharges, NoBlock, Block
    <3>6. Laid(F, TodoTold(todo'), e, L)
      BY <2>9, <3>1, <3>2, <3>4
    <3> QED
      BY <2>3, <2>7, <3>4, <3>5, <3>6
  <2>14. CASE PushAdds
    <3>1. Now.op # "flush" /\ queue' = queue
      BY <2>14, AtFacts DEF PushAdds
    <3>2. One(F, <<Now.ev>>, e, z)
      BY <2>4, <2>5, <3>1
    <3>3. batch'.rows = Append(batch.rows, Now.ev)
      BY <2>1, <2>14 DEF PushAdds, Block
    <3>4. One(F, batch'.rows, d, z)
      BY <2>1, <2>3, <3>2, <3>3, OneAppend
    <3>5. todo' = (IF Full(batch') THEN <<Flush>> ELSE <<>>) \o rest
      BY <2>14 DEF PushAdds, rest
    <3>6. todo' = <<Flush>> \o rest \/ todo' = <<>> \o rest
      BY <3>5
    <3>7. OpTold(Flush) = <<>>
      BY DEF OpTold, Flush, Await
    <3>8. Laid(F, TodoTold(<<Flush>>), z, z)
      BY <3>7, FlushFacts, OneFacts, TodoOne
    <3>9. Laid(F, TodoTold(<<>>), z, z)
      BY TodoNone
    <3>10. Laid(F, TodoTold(todo'), z, L)
      <4>1. CASE todo' = <<Flush>> \o rest
        BY <2>1, <2>4, <3>8, <4>1, FlushFacts, TodoConcat
      <4>2. CASE todo' = <<>> \o rest
        BY <2>1, <2>4, <3>9, <4>2, OpsNone, TodoConcat
      <4> QED
        BY <3>6, <4>1, <4>2
    <3> QED
      BY <2>7, <3>1, <3>4, <3>10
  <2>15. ASSUME Now.op = "flush" PROVE z = e
    <3>1. OpTold(Now) = <<>>
      BY <2>5, <2>15
    <3> QED
      BY <2>4, <3>1, OneNone
  <2>16. CASE FlushNothing
    <3>1. todo' = rest /\ batch' = batch /\ queue' = queue /\ At("flush")
      BY <2>16 DEF FlushNothing, rest
    <3> QED
      BY <2>3, <2>4, <2>7, <2>15, <3>1, AtFacts
  <2>17. CASE FlushBudget
    <3>1. todo' = todo /\ queue' = queue /\ batch'.rows = batch.rows
      BY <2>1, <2>17 DEF FlushBudget, Block
    <3> QED
      BY <2>3, <2>7, <3>1
  <2>18. CASE FlushChannel
    <3> DEFINE it == [rows |-> TRUE, ev |-> Now.ev, permit |-> 0, block |-> batch]
    <3>1. queue' = Append(queue, it) /\ todo' = rest /\ batch' = NoBlock /\ At("flush")
      BY <2>18 DEF FlushChannel, rest
    <3>2. it \in Item /\ ItemTold(it) = batch.rows
      BY <2>1 DEF Item, ItemTold
    <3> HIDE DEF it
    <3>3. z = e
      BY <2>15, <3>1, AtFacts
    <3> QED
      BY <2>3, <2>4, <2>6, <2>8, <3>1, <3>2, <3>3
  <2>19. ~SendFails /\ ~PushFails /\ ~FlushFails
    BY <1>5 DEF SendFails, PushFails, FlushFails, FlushRefused, Halted
  <2> QED
    BY <2>10, <2>11, <2>12, <2>13, <2>14, <2>16, <2>17, <2>18, <2>19
<1> QED
  BY <1>4, <1>5

-----------------------------------------------------------------------------
(* What a frame adds to the script *)

\* F tells of n frames, and p are the locals then; awaiting ops makes it G.
Tale(m, r, n, p, F) == Good(m, r, n, F) /\ Complete(m, r, n, F) /\ Link(m, F, p)
Adds(F, ops, G) ==
  /\ Len(F) <= Len(G) /\ \A i \in 1..Len(F) : F[i] = G[i]
  /\ Laid(G, TodoTold(ops), Len(F), Len(G))

LEMMA AddsNothing ==
  ASSUME NEW F \in Seq(Event)
  PROVE  Adds(F, <<>>, F) /\ Adds(F, <<Flush>>, F)
<1>1. Len(F) \in Nat
  BY LenProperties
<1>2. OpTold(Flush) = <<>>
  BY DEF OpTold, Flush, Await
<1>3. Laid(F, TodoTold(<<Flush>>), Len(F), Len(F))
  BY <1>1, <1>2, FlushFacts, OneFacts, TodoOne
<1>4. Laid(F, TodoTold(<<>>), Len(F), Len(F))
  BY <1>1, TodoNone
<1> QED
  BY <1>1, <1>3, <1>4 DEF Adds

LEMMA AddsOne ==
  ASSUME NEW F \in Seq(Event), NEW o \in Op, o.op # "flush"
  PROVE  Adds(F, <<o>>, Append(F, o.ev))
<1> DEFINE G == Append(F, o.ev)
<1>1. o.ev \in Event /\ OpTold(o) = <<o.ev>>
  BY DEF OpTold, Op
<1>2. /\ G \in Seq(Event) /\ Len(G) = Len(F) + 1 /\ Len(F) \in Nat /\ G[Len(F) + 1] = o.ev
      /\ \A i \in 1..Len(F) : G[i] = F[i]
  BY <1>1, AppendFacts
<1> HIDE DEF G
<1>3. Len(G) \in Nat /\ Len(F) <= Len(G) /\ G[Len(G)] = o.ev
  BY <1>2
<1>4. One(G, OpTold(o), Len(F), Len(G))
  <2> DEFINE x == Len(F)
             y == Len(G)
  <2>1. x \in Nat /\ y \in Nat /\ y = x + 1 /\ G[y] = o.ev
    BY <1>2, <1>3
  <2> HIDE DEF x, y
  <2>2. One(G, <<o.ev>>, x, y)
    BY <1>1, <2>1, OneFacts
  <2> QED
    BY <1>1, <2>2 DEF x, y
<1>5. Laid(G, TodoTold(<<o>>), Len(F), Len(G))
  BY <1>2, <1>3, <1>4, TodoOne
<1>6. Adds(F, <<o>>, G)
  BY <1>2, <1>3, <1>5 DEF Adds
<1> QED
  BY <1>6 DEF G

LEMMA AddsConcat ==
  ASSUME NEW F \in Seq(Event), NEW G \in Seq(Event), NEW H \in Seq(Event),
         NEW s \in Seq(Op), NEW t \in Seq(Op), Adds(F, s, G), Adds(G, t, H)
  PROVE  Adds(F, s \o t, H)
<1>1. Len(F) \in Nat /\ Len(G) \in Nat /\ Len(H) \in Nat
  BY LenProperties
<1>2. /\ Len(F) <= Len(G) /\ \A i \in 1..Len(F) : F[i] = G[i]
      /\ Laid(G, TodoTold(s), Len(F), Len(G))
      /\ Len(G) <= Len(H) /\ \A i \in 1..Len(G) : G[i] = H[i]
      /\ Laid(H, TodoTold(t), Len(G), Len(H))
  BY DEF Adds
<1>3. Laid(H, TodoTold(s), Len(F), Len(G))
  BY <1>1, <1>2, TodoParts, LaidAgrees
<1>4. Laid(H, TodoTold(s \o t), Len(F), Len(H))
  BY <1>1, <1>2, <1>3, TodoConcat
<1>5. \A i \in 1..Len(F) : F[i] = H[i]
  BY <1>1, <1>2
<1> QED
  BY <1>1, <1>2, <1>4, <1>5 DEF Adds

LEMMA LinkSame ==
  ASSUME NEW m, NEW F, NEW p, NEW q, Link(m, F, p),
         q.started <=> p.started, q.index = p.index, q.count = p.count
  PROVE  Link(m, F, q)
BY DEF Link

LEMMA TaleNext ==
  ASSUME NEW m, NEW r, NEW n \in Nat, NEW F \in Seq(Event), NEW p, Tale(m, r, n, p, F), ~Wanted(m, r, n + 1)
  PROVE  Tale(m, r, n + 1, p, F)
<1>1. Good(m, r, n + 1, F)
  BY GoodBoth DEF Tale
<1>2. \A x \in 1..(n + 1) : x = n + 1 \/ x \in 1..n
  OBVIOUS
<1>3. Complete(m, r, n + 1, F)
  BY <1>2 DEF Tale, Complete
<1> QED
  BY <1>1, <1>3 DEF Tale

\* emit_result_start
LEMMA TaleStart ==
  ASSUME mode \in Modes, NEW r, NEW n \in Nat, NEW F \in Seq(Event), NEW p \in Parses, Tale(mode, r, n, p, F),
         Eventful /\ p.cur /\ ~p.started => p.index = SetNo(r, n + 1)
  PROVE  \E G \in Seq(Event) : Adds(F, StartOps(p), G) /\ Tale(mode, r, n, Started(p), G)
<1> DEFINE q == Started(p)
<1>1. /\ q \in Parses /\ q.index = p.index /\ q.count = p.count
      /\ q.started <=> (p.started \/ (Eventful /\ p.cur))
  BY StartedFields
<1> HIDE DEF q
<1>2. CASE Eventful /\ p.cur /\ ~p.started
  <2> DEFINE ev == Ev("start", p.index, 0)
             o == Send(ev)
             G == Append(F, ev)
  <2>1. o \in Op /\ o.op # "flush" /\ o.ev = ev /\ StartOps(p) = <<o>>
    BY <1>2 DEF Send, Await, Ev, Op, Event, Parses, StartOps
  <2>2. q.started /\ mode # "batches" /\ p.index = SetNo(r, n + 1)
    BY <1>1, <1>2 DEF Eventful
  <2>3. G \in Seq(Event) /\ Good(mode, r, n, G) /\ Complete(mode, r, n, G) /\ Link(mode, G, q)
    BY <1>1, <1>2, <2>2, StartStep DEF Tale
  <2>4. Adds(F, <<o>>, G)
    BY <2>1, AddsOne
  <2> QED
    BY <2>1, <2>3, <2>4 DEF Tale, q
<1>3. CASE ~(Eventful /\ p.cur /\ ~p.started)
  <2>1. StartOps(p) = <<>> /\ Adds(F, <<>>, F)
    BY <1>3, AddsNothing DEF StartOps
  <2>2. Link(mode, F, q)
    <3>1. q.started <=> p.started
      BY <1>1, <1>3
    <3> QED
      BY <1>1, <3>1, LinkSame DEF Tale
  <2> QED
    BY <2>1, <2>2 DEF Tale, q
<1> QED
  BY <1>2, <1>3

\* finish_response_set
LEMMA TaleFinish ==
  ASSUME mode \in Modes, NEW r, NEW n \in Nat, NEW F \in Seq(Event), NEW p \in Parses, Tale(mode, r, n, p, F),
         Eventful /\ p.cur /\ ~p.started => p.index = SetNo(r, n + 1)
  PROVE  \E G \in Seq(Event) : Adds(F, FinishOps(p), G) /\ Tale(mode, r, n, Finished(p), G)
<1> DEFINE q == Finished(p)
           s == Started(p)
           c == IF Eventful /\ p.cur THEN StartOps(p) \o <<Send(Ev("end", p.index, p.count))>> ELSE <<>>
<1>1. FinishOps(p) = <<Flush>> \o c /\ Adds(F, <<Flush>>, F) /\ <<Flush>> \in Seq(Op)
  BY AddsNothing, FlushFacts DEF FinishOps
<1>2. /\ q \in Parses /\ q.started = (IF p.cur THEN FALSE ELSE p.started)
      /\ q.index = (IF p.cur THEN p.index + 1 ELSE p.index) /\ q.count = (IF p.cur THEN 0 ELSE p.count)
  BY FinishedFields
<1>3. /\ s \in Parses /\ s.index = p.index /\ s.count = p.count
      /\ s.started <=> (p.started \/ (Eventful /\ p.cur))
  BY StartedFields
<1> HIDE DEF q, s
<1>4. CASE Eventful /\ p.cur
  <2> DEFINE ev == Ev("end", p.index, p.count)
             o == Send(ev)
             u == StartOps(p)
  <2>1. c = u \o <<o>> /\ o \in Op /\ o.op # "flush" /\ o.ev = ev
    BY <1>4 DEF Send, Await, Ev, Op, Event, Parses
  <2>2. PICK G \in Seq(Event) : Adds(F, u, G) /\ Tale(mode, r, n, s, G)
    BY TaleStart DEF s
  <2> DEFINE H == Append(G, ev)
  <2>3. mode # "batches" /\ s.started /\ ~q.started /\ q.index = s.index + 1 /\ q.count = 0
    BY <1>2, <1>3, <1>4 DEF Eventful
  <2>4. H \in Seq(Event) /\ Good(mode, r, n, H) /\ Complete(mode, r, n, H) /\ Link(mode, H, q)
    <3>1. H = Append(G, Ev("end", s.index, s.count))
      BY <1>3
    <3> QED
      BY <1>2, <1>3, <2>2, <2>3, <3>1, EndStep DEF Tale
  <2>5. Adds(G, <<o>>, H) /\ <<o>> \in Seq(Op) /\ u \in Seq(Op)
    <3>1. u \in Seq(Op)
      BY StartOpsFacts
    <3> QED
      BY <2>1, <3>1, AddsOne, OpsOne
  <2> HIDE DEF H, o, u, c
  <2>6. Adds(F, u \o <<o>>, H) /\ u \o <<o>> \in Seq(Op)
    BY <2>2, <2>4, <2>5, AddsConcat, OpsConcat
  <2>7. Adds(F, <<Flush>> \o c, H)
    BY <1>1, <2>1, <2>4, <2>6, AddsConcat
  <2> QED
    BY <1>1, <2>4, <2>7 DEF Tale, q
<1>5. CASE ~(Eventful /\ p.cur)
  <2>1. c = <<>> /\ <<Flush>> \o <<>> = <<Flush>>
    BY <1>1, <1>5, ConcatEmptySeq
  <2>2. Link(mode, F, q)
    <3>1. CASE p.cur
      BY <1>5, <3>1 DEF Link, Eventful
    <3>2. CASE ~p.cur
      BY <1>2, <3>2, LinkSame DEF Tale
    <3> QED
      BY <3>1, <3>2
  <2> QED
    BY <1>1, <2>1, <2>2 DEF Tale, q
<1> QED
  BY <1>4, <1>5

LEMMA ReadsTell ==
  ASSUME StreamInv, StreamInv', WireInv, ParseInv, Scripted,
         \/ ReadDesc \/ ReadStd \/ ReadRow \/ ReadComplete \/ ReadNotice \/ ReadError
         \/ ReadReady \/ ReadFatal
  PROVE  Scripted'
<1> DEFINE n == read + 1
           k == response[n].kind
<1>1. PICK kind : Arrived(kind)
  BY DEF ReadDesc, ReadStd, ReadRow, ReadComplete, ReadNotice, ReadError, ReadReady, ReadFatal
<1>2. /\ result = "none" /\ n \in 1..Len(response) /\ k = kind /\ parse \in Parses /\ todo = <<>>
      /\ k \in {"std", "row", "dbos"} => Inside(response, n)
  BY <1>1, ArrivedFacts DEF StreamInv, Arrived, Parsing, WireInv
<1>3. /\ read' = n /\ UNCHANGED <<mode, response, queue, pending, seen, refused, batch>>
      /\ (Halted' <=> Halted) /\ Grown
  <2>1. read' = n /\ UNCHANGED <<mode, backendVars, driveVars, queue, batch, callerVars>>
    BY DEF ReadDesc, ReadStd, ReadRow, ReadComplete, ReadNotice, ReadError, ReadReady, ReadFatal, Then
  <2>2. Len(response) \in Nat
    BY PartsFacts DEF StreamInv
  <2> QED
    BY <2>1, <2>2 DEF Halted, Interrupted, Grown, backendVars, driveVars, callerVars
<1>4. PICK F \in Seq(Event), d \in Nat : Script(F, d)
  BY DEF Scripted, Script
<1>5. CASE Halted
  <2>1. read' \in {read, read + 1} /\ d <= Len(F) /\ Good(mode, response, read, F)
    BY <1>3, <1>4 DEF Script
  <2>2. Ahead(mode, response, seen', refused', pending'.rows, QueueTold(queue'), F, d)
    BY <1>3, <1>4 DEF Script
  <2> QED
    BY <1>3, <1>5, <2>1, <2>2, ScriptHalts
<1>6. CASE ~Halted
  <2>1. /\ read \in Nat /\ mode \in Modes /\ seen \in Seq(Event) /\ pending.rows \in Seq(Event)
        /\ QueueTold(queue) \in Parts /\ batch.rows \in Seq(Event) /\ n \in Nat /\ Len(F) \in Nat
    BY PartsFacts, LenProperties DEF StreamInv
  <2>2. /\ Tale(mode, response, read, parse, F) /\ d <= Len(F)
        /\ Ahead(mode, response, seen, refused, pending.rows, QueueTold(queue), F, d)
        /\ One(F, batch.rows, d, Len(F))
    <3>1. /\ Good(mode, response, read, F) /\ d <= Len(F) /\ Complete(mode, response, read, F)
          /\ Link(mode, F, parse)
          /\ Ahead(mode, response, seen, refused, pending.rows, QueueTold(queue), F, d)
      BY <1>2, <1>4, <1>6 DEF Script, Behind
    <3>2. PICK e \in Nat : One(F, batch.rows, d, e) /\ Laid(F, TodoTold(<<>>), e, Len(F))
      BY <1>2, <1>4, <1>6 DEF Script, Behind
    <3>3. e = Len(F)
      BY <2>1, <3>2, TodoNone
    <3> QED
      BY <3>1, <3>2, <3>3 DEF Tale
  <2>3. ASSUME NEW G \in Seq(Event), Adds(F, todo', G), Good(mode, response, n, G),
               Complete(mode, response, IF result' = "fatal" THEN n - 1 ELSE n, G),
               result' # "fatal" => Link(mode, G, parse')
        PROVE  Scripted'
    <3>1. /\ Len(F) <= Len(G) /\ Len(G) \in Nat /\ \A i \in 1..Len(F) : F[i] = G[i]
          /\ Laid(G, TodoTold(todo'), Len(F), Len(G))
      BY <2>3, LenProperties DEF Adds
    <3>2. d <= Len(G) /\ \A i \in 1..d : F[i] = G[i]
      BY <2>1, <2>2, <3>1
    <3>3. Ahead(mode, response, seen, refused, pending.rows, QueueTold(queue), G, d)
      BY <2>1, <2>2, <3>2, AheadKept DEF Tale
    <3>4. One(G, batch.rows, d, Len(F))
      <4> DEFINE l == Len(F)
      <4>1. l \in Nat /\ l <= l /\ One(F, batch.rows, d, l) /\ \A i \in 1..l : F[i] = G[i]
        BY <2>1, <2>2, <3>1
      <4> HIDE DEF l
      <4>2. One(G, batch.rows, d, l)
        BY <2>1, <4>1, OneAgrees
      <4> QED
        BY <4>2 DEF l
    <3>5. Behind(mode, response, n, result' = "fatal", parse', batch.rows, TodoTold(todo'), G, d)
      BY <2>1, <2>3, <3>1, <3>4 DEF Behind
    <3>6. ~Halted'
      BY <1>3, <1>6
    <3> QED
      BY <1>3, <2>3, <3>2, <3>3, <3>5, <3>6 DEF Scripted
  <2>4. ASSUME NEW G \in Seq(Event), Adds(F, todo', G), Tale(mode, response, n, parse', G), result' # "fatal"
        PROVE  Scripted'
    BY <2>3, <2>4 DEF Tale
  <2>5. /\ parse.index = SetNo(response, n) /\ (parse.cur <=> Inside(response, n))
        /\ parse.index = SetNo(response, read + 1)
        /\ parse.extra => ~Eventful /\ parse.index > 0
        /\ ~Eventful /\ parse.cur /\ parse.index > 0 => parse.extra
        /\ k \in {"std", "row", "dbos"} => parse.cur
        /\ parse.cur \in BOOLEAN /\ parse.started \in BOOLEAN /\ parse.index \in Nat
        /\ parse.started => parse.cur /\ Eventful
    BY <1>2 DEF ParseInv, Parses
  <2>6. ASSUME k \notin {"row", "dbos", "notice", "complete"} \/ (k \in {"notice", "complete"} /\ ~Eventful)
        PROVE  ~Wanted(mode, response, n)
    BY <2>6 DEF Wanted, RowAt, Eventful
  <2>7. CASE ReadDesc \/ ReadReady
    <3> DEFINE p == Finished(parse)
    <3>1. /\ todo' = FinishOps(parse) /\ result' # "fatal" /\ k \in {"desc", "ready"}
      BY <1>2, <2>7 DEF ReadDesc, ReadReady, Arrived, Then
    <3>2. PICK G \in Seq(Event) : Adds(F, FinishOps(parse), G) /\ Tale(mode, response, read, p, G)
      BY <1>2, <2>1, <2>2, <2>5, TaleFinish
    <3>3. Tale(mode, response, n, p, G)
      BY <2>1, <2>6, <3>1, <3>2, TaleNext
    <3>4. p \in Parses
      BY <1>2, OpsFacts
    <3>5. parse'.started = p.started /\ parse'.index = p.index /\ parse'.count = p.count
      <4>1. CASE ReadReady
        BY <4>1 DEF ReadReady, Then
      <4>2. CASE ReadDesc
        <5> HIDE DEF p
        <5>1. parse' = [p EXCEPT !.cur = TRUE, !.cached = TRUE, !.tup = FALSE, !.extra = @ \/ SecondSet(p)]
          BY <4>2 DEF ReadDesc, Then, p
        <5> QED
          BY <3>4, <5>1, DescFields
      <4> QED
        BY <2>7, <4>1, <4>2
    <3> HIDE DEF p
    <3>6. Tale(mode, response, n, parse', G)
      BY <3>3, <3>5, LinkSame DEF Tale
    <3> QED
      BY <2>4, <3>1, <3>2, <3>6
  <2>8. CASE ReadStd \/ ReadError
    <3>1. todo' = <<>> /\ result' # "fatal" /\ k \in {"std", "error"}
      BY <1>2, <2>8 DEF ReadStd, ReadError, Arrived, Then
    <3>2. parse'.started = parse.started /\ parse'.index = parse.index /\ parse'.count = parse.count
      BY <1>2, <2>8 DEF ReadStd, ReadError, Then, Parses
    <3>3. Tale(mode, response, n, parse, F)
      BY <2>1, <2>2, <2>6, <3>1, TaleNext
    <3>4. Tale(mode, response, n, parse', F)
      BY <3>2, <3>3, LinkSame DEF Tale
    <3> QED
      BY <2>4, <3>1, <3>4, AddsNothing
  <2>9. CASE ReadFatal
    <3>1. todo' = <<>> /\ result' = "fatal"
      BY <2>9 DEF ReadFatal, Then
    <3>2. Good(mode, response, n, F)
      BY <2>1, <2>2, GoodBoth DEF Tale
    <3>3. n - 1 = read
      BY <2>1
    <3>4. Complete(mode, response, IF result' = "fatal" THEN n - 1 ELSE n, F)
      BY <2>2, <3>1, <3>3 DEF Tale
    <3> QED
      BY <2>3, <3>1, <3>2, <3>4, AddsNothing
  <2>10. CASE ReadNotice
    <3>1. parse' = parse /\ result' # "fatal" /\ k = "notice" /\ todo' = IF Eventful THEN NoticeOps ELSE <<>>
      BY <1>2, <2>10 DEF ReadNotice, Arrived, Then
    <3>2. CASE ~Eventful
      <4>1. Tale(mode, response, n, parse, F)
        BY <2>1, <2>2, <2>6, <3>1, <3>2, TaleNext
      <4> QED
        BY <2>4, <3>1, <3>2, <4>1, AddsNothing
    <3>3. CASE Eventful
      <4> DEFINE ev == Ev("notice", 0, n)
                 o == Send(ev)
                 G == Append(F, ev)
      <4>1. /\ o \in Op /\ o.op # "flush" /\ o.ev = ev /\ ev \in Event /\ Tells(ev) /\ ev.n = n /\ ev.k = "notice"
            /\ NoticeOps = <<Flush, o>>
        BY <2>1 DEF Send, Await, Ev, Op, Event, Tells, NoticeOps
      <4>2. NoticeOps = <<Flush>> \o <<o>>
        BY <4>1, FlushFacts, PairConcat
      <4>3. Wanted(mode, response, n) /\ OfKind(response, ev)
        BY <3>1, <3>3, <4>1 DEF Wanted, OfKind, Eventful
      <4> HIDE DEF ev, o
      <4>4. G \in Seq(Event) /\ Good(mode, response, n, G) /\ Complete(mode, response, n, G) /\ Link(mode, G, parse)
        BY <1>2, <2>1, <2>2, <4>1, <4>3, TellStep DEF Tale
      <4>5. Adds(F, <<o>>, G) /\ <<o>> \in Seq(Op)
        BY <4>1, AddsOne, OpsOne
      <4>6. Adds(F, <<Flush>> \o <<o>>, G)
        BY <4>4, <4>5, AddsNothing, FlushFacts, AddsConcat
      <4> QED
        BY <2>4, <3>1, <3>3, <4>2, <4>4, <4>6 DEF Tale
    <3> QED
      BY <3>2, <3>3
  <2>11. CASE ReadRow
    <3> DEFINE p == [parse EXCEPT !.cur = TRUE, !.count = @ + 1]
               s == StartOps(p)
               ev == Ev("row", 0, n)
               o == Await("push", ev)
               t == IF parse.extra THEN <<>> ELSE <<o>>
               q == Started(parse)
    <3>1. todo' = s \o t /\ parse' = Started(p) /\ result' # "fatal" /\ k \in {"row", "dbos"}
      BY <1>2, <2>11 DEF ReadRow, Arrived, Then
    <3>2. /\ p \in Parses /\ p.cur = TRUE /\ p.started = parse.started /\ p.index = parse.index
          /\ p.count = parse.count + 1
      BY <1>2, RowFields
    <3>3. /\ o \in Op /\ o.op # "flush" /\ o.ev = ev /\ ev \in Event /\ Tells(ev) /\ ev.n = n /\ ev.k = "row"
      BY <2>1 DEF Await, Ev, Op, Event, Tells
    <3>4. /\ q \in Parses /\ q.index = parse.index /\ q.count = parse.count
          /\ q.started <=> (parse.started \/ (Eventful /\ parse.cur))
      BY <1>2, StartedFields
    <3>5. parse.cur
      BY <2>5, <3>1
    <3>6. s = StartOps(parse)
      BY <3>2, <3>5 DEF StartOps
    <3>7. PICK G \in Seq(Event) : Adds(F, StartOps(parse), G) /\ Tale(mode, response, read, q, G)
      BY <1>2, <2>1, <2>2, <2>5, TaleStart
    <3>8. s \in Seq(Op) /\ <<o>> \in Seq(Op)
      BY <3>2, <3>3, StartOpsFacts, OpsOne
    <3> HIDE DEF p, o, q, ev, s
    <3>9. /\ parse' \in Parses /\ parse'.index = p.index /\ parse'.count = p.count
          /\ parse'.started <=> (p.started \/ (Eventful /\ p.cur))
      BY <3>1, <3>2, StartedFields
    <3>10. CASE parse.extra
      <4>1. ~Eventful /\ SetNo(response, n) # 0
        BY <2>5, <3>10
      <4>2. ~Wanted(mode, response, n)
        BY <3>1, <4>1 DEF Wanted, RowAt, Eventful
      <4>3. Tale(mode, response, n, q, G)
        BY <2>1, <3>7, <4>2, TaleNext
      <4>4. Tale(mode, response, n, parse', G)
        BY <4>1, <4>3 DEF Tale, Link, Eventful
      <4>5. todo' = s
        BY <3>1, <3>8, <3>10, ConcatEmptySeq
      <4> QED
        BY <2>4, <3>1, <3>6, <3>7, <4>4, <4>5
    <3>11. CASE ~parse.extra
      <4> DEFINE H == Append(G, ev)
      <4>1. Wanted(mode, response, n) /\ OfKind(response, ev)
        BY <2>5, <3>1, <3>3, <3>5, <3>11 DEF Wanted, RowAt, OfKind, Eventful
      <4>2. mode # "batches" => q.started /\ q.index = SetNo(response, n)
        BY <2>5, <3>4, <3>5 DEF Eventful
      <4>3. (parse'.started <=> q.started) /\ parse'.index = q.index /\ parse'.count = q.count + 1
        BY <3>2, <3>4, <3>5, <3>9
      <4>4. H \in Seq(Event) /\ Good(mode, response, n, H) /\ Complete(mode, response, n, H) /\ Link(mode, H, parse')
        BY <2>1, <3>3, <3>4, <3>7, <3>9, <4>1, <4>2, <4>3, TellStep DEF Tale
      <4>5. Adds(G, <<o>>, H)
        BY <3>3, AddsOne
      <4>6. todo' = s \o <<o>>
        BY <3>1, <3>11
      <4> HIDE DEF H
      <4>7. Adds(F, todo', H)
        BY <3>6, <3>7, <3>8, <4>4, <4>5, <4>6, AddsConcat
      <4> QED
        BY <2>4, <3>1, <4>4, <4>7 DEF Tale
    <3> QED
      BY <3>10, <3>11
  <2>12. CASE ReadComplete
    <3> DEFINE p == Started(parse)
               f == FinishOps(p)
    <3>1. /\ k = "complete" /\ result' # "fatal" /\ parse' = Finished(p)
      BY <1>2, <2>12 DEF ReadComplete, Arrived, Then
    <3>2. /\ p \in Parses /\ p.cur = parse.cur /\ p.index = parse.index /\ p.count = parse.count
          /\ p.started <=> (parse.started \/ (Eventful /\ parse.cur))
      BY <1>2, StartedFields
    <3>3. f \in Seq(Op)
      BY <3>2, FinishOpsFacts
    <3>4. ASSUME NEW G \in Seq(Event), Tale(mode, response, n, p, G)
          PROVE  \E H \in Seq(Event) : Adds(G, f, H) /\ Tale(mode, response, n, parse', H)
      <4>1. ~(Eventful /\ p.cur /\ ~p.started)
        BY <3>2
      <4> QED
        BY <2>1, <3>1, <3>2, <3>4, <4>1, TaleFinish
    <3>5. CASE ~Eventful
      <4>1. todo' = <<>> \o f
        BY <2>12, <3>5 DEF ReadComplete, Then
      <4>2. todo' = f
        BY <3>3, <4>1, ConcatEmptySeq
      <4>3. Tale(mode, response, n, parse, F)
        BY <2>1, <2>2, <2>6, <3>1, <3>5, TaleNext
      <4>4. Tale(mode, response, n, p, F)
        BY <3>5, <4>3 DEF Tale, Link, Eventful
      <4> QED
        BY <2>4, <3>1, <3>4, <4>2, <4>4
    <3>6. CASE Eventful
      <4> DEFINE ev == Ev("complete", 0, n)
                 o == Send(ev)
                 s == StartOps(parse)
      <4>1. /\ o \in Op /\ o.op # "flush" /\ o.ev = ev /\ ev \in Event /\ Tells(ev) /\ ev.n = n /\ ev.k = "complete"
        BY <2>1 DEF Send, Await, Ev, Op, Event, Tells
      <4>2. todo' = (s \o <<Flush, o>>) \o f
        BY <2>12, <3>6 DEF ReadComplete, Then
      <4>3. Wanted(mode, response, n) /\ OfKind(response, ev)
        BY <3>1, <3>6, <4>1 DEF Wanted, OfKind, Eventful
      <4>4. s \in Seq(Op)
        BY <1>2, StartOpsFacts
      <4> HIDE DEF ev, o
      <4>5. PICK G \in Seq(Event) : Adds(F, s, G) /\ Tale(mode, response, read, p, G)
        BY <1>2, <2>1, <2>2, <2>5, TaleStart
      <4> HIDE DEF s, f, p
      <4> DEFINE H == Append(G, ev)
                 w == <<Flush>> \o <<o>>
      <4>6. H \in Seq(Event) /\ Good(mode, response, n, H) /\ Complete(mode, response, n, H) /\ Link(mode, H, p)
        BY <2>1, <3>2, <4>1, <4>3, <4>5, TellStep DEF Tale
      <4>7. Adds(G, <<o>>, H) /\ <<o>> \in Seq(Op)
        BY <4>1, AddsOne, OpsOne
      <4>8. w = <<Flush, o>>
        BY <4>1, FlushFacts, PairConcat
      <4> HIDE DEF H
      <4>9. Adds(G, w, H) /\ w \in Seq(Op)
        BY <4>6, <4>7, AddsNothing, FlushFacts, OpsConcat, AddsConcat
      <4> HIDE DEF w
      <4>10. Adds(F, s \o w, H) /\ s \o w \in Seq(Op)
        BY <4>4, <4>5, <4>6, <4>9, OpsConcat, AddsConcat
      <4>11. Tale(mode, response, n, p, H)
        BY <4>6 DEF Tale
      <4>12. PICK I \in Seq(Event) : Adds(H, f, I) /\ Tale(mode, response, n, parse', I)
        BY <3>4, <4>6, <4>11
      <4>13. Adds(F, (s \o w) \o f, I)
        BY <3>3, <4>6, <4>10, <4>12, AddsConcat
      <4> QED
        BY <2>4, <3>1, <4>2, <4>8, <4>12, <4>13
    <3> QED
      BY <3>5, <3>6
  <2> QED
    BY <2>7, <2>8, <2>9, <2>10, <2>11, <2>12
<1> QED
  BY <1>5, <1>6

-----------------------------------------------------------------------------
(* Rows travel in blocks, other events alone *)

RowEvent == {ev \in Event : ev.k = "row"}
Quiet == {o \in Op : o.op = "send" => o.ev.k # "row"}
Sorted == {it \in Item : IF it.rows THEN it.block.rows \in Seq(RowEvent) ELSE it.ev.k # "row"}
KindInv ==
  /\ todo \in Seq(Quiet) /\ queue \in Seq(Sorted)
  /\ batch.rows \in Seq(RowEvent) /\ pending.rows \in Seq(RowEvent)

LEMMA QuietOps ==
  ASSUME NEW p \in Parses
  PROVE  StartOps(p) \in Seq(Quiet) /\ FinishOps(p) \in Seq(Quiet) /\ Flush \in Quiet
<1>1. Flush \in Quiet
  BY FlushFacts DEF Quiet, Flush, Await
<1> DEFINE s == Send(Ev("start", p.index, 0))
           o == Send(Ev("end", p.index, p.count))
<1>2. s \in Quiet /\ o \in Quiet
  BY DEF Send, Await, Ev, Op, Event, Parses, Quiet
<1> HIDE DEF s, o
<1>3. <<s>> \in Seq(Quiet) /\ <<o>> \in Seq(Quiet) /\ <<>> \in Seq(Quiet) /\ <<Flush>> \in Seq(Quiet)
  BY <1>1, <1>2
<1>4. StartOps(p) \in Seq(Quiet)
  BY <1>3 DEF StartOps, s
<1> DEFINE c == IF Eventful /\ p.cur THEN StartOps(p) \o <<o>> ELSE <<>>
<1>5. c \in Seq(Quiet)
  BY <1>3, <1>4, ConcatProperties
<1>6. FinishOps(p) = <<Flush>> \o c
  BY DEF FinishOps, o
<1> HIDE DEF c
<1> QED
  BY <1>1, <1>3, <1>4, <1>5, <1>6, ConcatProperties

LEMMA ReadsSort ==
  ASSUME StreamInv, KindInv,
         \/ ReadDesc \/ ReadStd \/ ReadRow \/ ReadComplete \/ ReadNotice \/ ReadError
         \/ ReadReady \/ ReadFatal
  PROVE  KindInv'
<1>1. PICK kind : Arrived(kind)
  BY DEF ReadDesc, ReadStd, ReadRow, ReadComplete, ReadNotice, ReadError, ReadReady, ReadFatal
<1>2. parse \in Parses /\ read + 1 \in Nat
  BY <1>1, ArrivedFacts DEF StreamInv
<1>3. UNCHANGED <<batch, queue, pending>>
  BY DEF ReadDesc, ReadStd, ReadRow, ReadComplete, ReadNotice, ReadError, ReadReady, ReadFatal, Then, callerVars
<1>4. SUFFICES todo' \in Seq(Quiet)
  BY <1>3 DEF KindInv
<1> DEFINE f == Send(Ev("notice", 0, read + 1))
           c == Send(Ev("complete", 0, read + 1))
           o == Await("push", Ev("row", 0, read + 1))
<1>5. f \in Quiet /\ c \in Quiet /\ o \in Quiet
  BY <1>2 DEF Send, Await, Ev, Op, Event, Quiet
<1> HIDE DEF f, c, o
<1>6. <<>> \in Seq(Quiet) /\ <<Flush, f>> \in Seq(Quiet) /\ <<Flush, c>> \in Seq(Quiet) /\ <<o>> \in Seq(Quiet)
  BY <1>2, <1>5, QuietOps
<1>7. CASE ReadDesc \/ ReadReady
  BY <1>2, <1>7, QuietOps DEF ReadDesc, ReadReady, Then
<1>8. CASE ReadStd \/ ReadError \/ ReadFatal
  BY <1>6, <1>8 DEF ReadStd, ReadError, ReadFatal, Then
<1>9. CASE ReadNotice
  BY <1>6, <1>9 DEF ReadNotice, Then, NoticeOps, f
<1>10. CASE ReadRow
  <2> DEFINE p == [parse EXCEPT !.cur = TRUE, !.count = @ + 1]
             t == IF parse.extra THEN <<>> ELSE <<o>>
  <2>1. p \in Parses
    BY <1>2, RowFields
  <2>2. todo' = StartOps(p) \o t
    BY <1>10 DEF ReadRow, Then, o
  <2>3. t \in Seq(Quiet)
    BY <1>6
  <2>4. StartOps(p) \in Seq(Quiet)
    BY <2>1, QuietOps
  <2> HIDE DEF p, t
  <2> QED
    BY <2>2, <2>3, <2>4, ConcatProperties
<1>11. CASE ReadComplete
  <2> DEFINE p == Started(parse)
             t == IF Eventful THEN StartOps(parse) \o <<Flush, c>> ELSE <<>>
  <2>1. p \in Parses
    BY <1>2, OpsFacts
  <2>2. todo' = t \o FinishOps(p)
    BY <1>11 DEF ReadComplete, Then, c
  <2>3. t \in Seq(Quiet)
    BY <1>2, <1>6, QuietOps, ConcatProperties
  <2>4. FinishOps(p) \in Seq(Quiet)
    BY <2>1, QuietOps
  <2> HIDE DEF p, t
  <2> QED
    BY <2>2, <2>3, <2>4, ConcatProperties
<1> QED
  BY <1>7, <1>8, <1>9, <1>10, <1>11

LEMMA AwaitsSort ==
  ASSUME StreamInv, KindInv,
         \/ SendBudget \/ SendChannel \/ SendFails \/ PushFlushes \/ PushAcquires \/ PushCharges
         \/ PushFails \/ PushAdds \/ FlushNothing \/ FlushBudget \/ FlushChannel \/ FlushFails
  PROVE  KindInv'
<1> DEFINE rest == Tail(todo)
<1>1. PICK op : At(op)
  BY DEF SendBudget, SendChannel, SendFails, PushFlushes, PushAcquires,
     PushCharges, PushFails, PushAdds, FlushNothing, FlushBudget, FlushChannel, FlushFails
<1>2. /\ todo # <<>> /\ Now = Head(todo) /\ Now.op = op /\ Now \in Op /\ Now.ev \in Event /\ Now.permit \in Nat
      /\ Now \in Current /\ EventBytes(Now.ev) \in Nat /\ batch \in Block
  BY <1>1, AtFacts, PartsFacts DEF StreamInv, Now
<1>3. todo \in Seq(Quiet) /\ queue \in Seq(Sorted) /\ batch.rows \in Seq(RowEvent) /\ pending.rows \in Seq(RowEvent)
  BY DEF KindInv
<1>4. rest \in Seq(Quiet) /\ Now \in Quiet
  BY <1>2, <1>3, HeadTailProperties
<1>5. NoBlock.rows \in Seq(RowEvent)
  BY NothingStaged
<1>6. pending' = pending
  BY DEF SendBudget, SendChannel, SendFails, PushFlushes, PushAcquires,
     PushCharges, PushFails, PushAdds, FlushNothing, FlushBudget, FlushChannel, FlushFails, callerVars
<1> HIDE DEF rest
<1>7. ASSUME NEW o \in Quiet, NEW s \in Seq(Quiet) PROVE <<o>> \o s \in Seq(Quiet)
  <2>1. <<o>> \in Seq(Quiet)
    OBVIOUS
  <2> QED
    BY <2>1, ConcatProperties
<1>8. Flush \in Quiet
  BY FlushFacts DEF Quiet, Flush, Await
<1>9. CASE SendBudget
  <2> DEFINE o == Granted(EventBytes(Now.ev))
  <2>1. todo' = <<o>> \o rest /\ UNCHANGED <<batch, queue>>
    BY <1>9 DEF SendBudget, rest
  <2>2. o \in Op /\ o.op = Now.op /\ o.ev = Now.ev
    BY <1>2 DEF Granted, Op
  <2>3. o \in Quiet
    BY <1>4, <2>2 DEF Quiet
  <2> HIDE DEF o
  <2> QED
    BY <1>3, <1>4, <1>6, <1>7, <2>1, <2>3 DEF KindInv
<1>10. CASE SendChannel
  <2> DEFINE it == [rows |-> FALSE, ev |-> Now.ev, permit |-> Now.permit, block |-> NoBlock]
  <2>1. queue' = Append(queue, it) /\ todo' = rest /\ batch' = batch /\ At("send")
    BY <1>10 DEF SendChannel, rest
  <2>2. Now.ev.k # "row"
    BY <1>4, <2>1, AtFacts DEF Quiet
  <2>3. it \in Sorted
    BY <1>2, <2>2, NoBlockFacts DEF Item, Sorted
  <2> HIDE DEF it
  <2>4. queue' \in Seq(Sorted)
    BY <1>3, <2>1, <2>3, AppendProperties
  <2> QED
    BY <1>3, <1>4, <1>6, <2>1, <2>4 DEF KindInv
<1>11. CASE SendFails \/ FlushNothing
  BY <1>3, <1>4, <1>6, <1>11 DEF SendFails, FlushNothing, rest, KindInv
<1>12. CASE PushFlushes
  BY <1>3, <1>6, <1>7, <1>8, <1>12 DEF PushFlushes, KindInv
<1>13. CASE PushAcquires \/ PushCharges
  <2>1. \A x \in {"charge", "add"} : Await(x, Now.ev) \in Quiet
    BY <1>2 DEF Await, Op, Quiet
  <2>2. PICK x \in {"charge", "add"} : todo' = <<Await(x, Now.ev)>> \o rest
    BY <1>13 DEF PushAcquires, PushCharges, rest
  <2>3. queue' = queue /\ batch'.rows = batch.rows
    BY <1>2, <1>13 DEF PushAcquires, PushCharges, NoBlock, Block
  <2> QED
    BY <1>3, <1>4, <1>6, <1>7, <2>1, <2>2, <2>3 DEF KindInv
<1>14. CASE PushFails
  BY <1>3, <1>4, <1>5, <1>6, <1>14 DEF PushFails, rest, KindInv
<1>15. CASE PushAdds
  <2>1. Now.ev \in RowEvent
    <3>1. Now.op \in {"push", "add"}
      BY <1>15, AtFacts DEF PushAdds
    <3> QED
      BY <1>2, <3>1 DEF Current, RowEvent
  <2>2. batch'.rows = Append(batch.rows, Now.ev) /\ queue' = queue
    BY <1>2, <1>15 DEF PushAdds, Block
  <2>3. batch'.rows \in Seq(RowEvent)
    BY <1>3, <2>1, <2>2, AppendProperties
  <2>4. todo' = <<Flush>> \o rest \/ todo' = <<>> \o rest
    BY <1>15 DEF PushAdds, rest
  <2>5. todo' \in Seq(Quiet)
    BY <1>4, <1>7, <1>8, <2>4, ConcatEmptySeq
  <2> QED
    BY <1>3, <1>6, <2>2, <2>3, <2>5 DEF KindInv
<1>16. CASE FlushBudget
  <2>1. batch'.rows = batch.rows /\ UNCHANGED <<todo, queue>>
    BY <1>2, <1>16 DEF FlushBudget, Block
  <2> QED
    BY <1>3, <1>6, <2>1 DEF KindInv
<1>17. CASE FlushChannel
  <2> DEFINE it == [rows |-> TRUE, ev |-> Now.ev, permit |-> 0, block |-> batch]
  <2>1. queue' = Append(queue, it) /\ todo' = rest /\ batch' = NoBlock
    BY <1>17 DEF FlushChannel, rest
  <2>2. it \in Sorted
    BY <1>2, <1>3 DEF Item, Sorted
  <2> HIDE DEF it
  <2>3. queue' \in Seq(Sorted)
    BY <1>3, <2>1, <2>2, AppendProperties
  <2> QED
    BY <1>3, <1>4, <1>5, <1>6, <2>1, <2>3 DEF KindInv
<1>18. CASE FlushFails
  <2>1. batch' = NoBlock /\ queue' = queue /\ todo' = IF rest # <<>> /\ Head(rest).op = "push" THEN Tail(rest) ELSE rest
    BY <1>18 DEF FlushFails, rest
  <2>2. todo' \in Seq(Quiet)
    BY <1>4, <2>1, HeadTailProperties
  <2> QED
    BY <1>3, <1>5, <1>6, <2>1, <2>2 DEF KindInv
<1> QED
  BY <1>9, <1>10, <1>11, <1>12, <1>13, <1>14, <1>15, <1>16, <1>17, <1>18

LEMMA YieldRest ==
  ASSUME StreamInv, NEW b \in Block, b.rows # <<>>, YieldRow(b)
  PROVE  pending'.rows = Tail(b.rows)
<1>1. b.rows \in Seq(Event)
  BY DEF Block
<1>2. CASE Len(b.rows) = 1
  <2>1. Tail(b.rows) \in Seq(Event) /\ Len(Tail(b.rows)) = 0
    BY <1>1, <1>2, HeadTailProperties
  <2>2. Tail(b.rows) = <<>>
    BY <2>1, EmptySeq
  <2> QED
    BY <1>2, <2>2, NothingStaged DEF YieldRow
<1>3. CASE Len(b.rows) # 1
  BY <1>3 DEF YieldRow, Block
<1> QED
  BY <1>2, <1>3

LEMMA PollsSort ==
  ASSUME StreamInv, KindInv, Poll \/ DropStream
  PROVE  KindInv'
<1>1. todo \in Seq(Quiet) /\ queue \in Seq(Sorted) /\ batch.rows \in Seq(RowEvent) /\ pending.rows \in Seq(RowEvent)
  BY DEF KindInv
<1>2. UNCHANGED <<todo, batch>>
  BY DEF Poll, PollPending, PollRows, PollBatch, PollEvent, PollTerminal, YieldRow, DropStream, parserVars
<1>3. queue # <<>> => Head(queue) \in Sorted /\ Tail(queue) \in Seq(Sorted)
  BY <1>1, HeadTailProperties
<1>4. NoBlock.rows \in Seq(RowEvent) /\ <<>> \in Seq(Sorted)
  BY NothingStaged
<1>5. ASSUME NEW b \in Block, b.rows # <<>>, b.rows \in Seq(RowEvent), YieldRow(b)
      PROVE  pending'.rows \in Seq(RowEvent)
  BY <1>5, YieldRest, HeadTailProperties
<1>6. CASE PollPending
  <2>1. pending # NoBlock /\ YieldRow(pending) /\ queue' = queue
    BY <1>6 DEF PollPending
  <2>2. pending \in Block /\ pending.rows # <<>>
    BY <2>1, StateFacts DEF StreamInv, QueueInv, Paid, Rows
  <2> QED
    BY <1>1, <1>2, <1>5, <2>1, <2>2 DEF KindInv
<1>7. CASE PollRows
  <2> DEFINE b == Head(queue).block
  <2>1. queue # <<>> /\ Head(queue).rows /\ YieldRow(b) /\ queue' = Tail(queue)
    BY <1>7 DEF PollRows
  <2>2. b \in Block /\ b.rows # <<>>
    BY <2>1, FrontFacts DEF Sound, Paid, Rows
  <2>3. b.rows \in Seq(RowEvent)
    BY <1>3, <2>1 DEF Sorted
  <2> QED
    BY <1>1, <1>2, <1>3, <1>5, <2>1, <2>2, <2>3 DEF KindInv
<1>8. CASE PollBatch \/ PollEvent
  BY <1>1, <1>2, <1>3, <1>8 DEF PollBatch, PollEvent, KindInv
<1>9. CASE PollTerminal
  BY <1>1, <1>2, <1>9 DEF PollTerminal, KindInv
<1>10. CASE DropStream
  BY <1>1, <1>2, <1>4, <1>10 DEF DropStream, KindInv
<1> QED
  BY <1>6, <1>7, <1>8, <1>9, <1>10 DEF Poll

LEMMA NextKind ==
  ASSUME StreamInv, KindInv, [Next]_vars
  PROVE  KindInv'
<1>1. CASE \/ ReadDesc \/ ReadStd \/ ReadRow \/ ReadComplete \/ ReadNotice \/ ReadError
           \/ ReadReady \/ ReadFatal
  BY <1>1, ReadsSort
<1>2. CASE \/ SendBudget \/ SendChannel \/ SendFails \/ PushFlushes \/ PushAcquires \/ PushCharges
           \/ PushFails \/ PushAdds \/ FlushNothing \/ FlushBudget \/ FlushChannel \/ FlushFails
  BY <1>2, AwaitsSort
<1>3. CASE UNCHANGED <<todo, batch, queue, pending>>
  BY <1>3 DEF KindInv
<1>4. CASE UNCHANGED vars
  BY <1>3, <1>4 DEF vars, parserVars, callerVars
<1>5. ASSUME NEW how, End(how) PROVE KindInv'
  <2>1. batch' = NoBlock /\ todo' = <<>> /\ UNCHANGED <<queue, pending>>
    BY <1>5 DEF End, callerVars
  <2>2. <<>> \in Seq(Quiet) /\ NoBlock.rows \in Seq(RowEvent)
    BY NothingStaged
  <2> QED
    BY <2>1, <2>2 DEF KindInv
<1>6. CASE \/ Start \/ NoticeInterrupt \/ NoticeClosed \/ SendCancel \/ Deadline \/ Cancel \/ Close
           \/ ReleaseSlot \/ Backend
  BY <1>3, <1>6 DEF Start, NoticeInterrupt, NoticeClosed, SendCancel, Deadline, GiveUp, Cancel, Close,
     ReleaseSlot, Backend, SendFrame, SendReady, StopStatement, Respond, parserVars, callerVars
<1>7. CASE SkipRequest \/ Return \/ CleanupTimeout \/ DropDriver
  BY <1>5, <1>7 DEF SkipRequest, Return, CleanupTimeout, DropDriver
<1>8. CASE Poll \/ DropStream
  BY <1>8, PollsSort
<1> QED
  BY <1>1, <1>2, <1>4, <1>6, <1>7, <1>8 DEF Next, Parser, Drive

-----------------------------------------------------------------------------
(* What poll_next does with the next event *)

LEMMA OneTail ==
  ASSUME NEW F, NEW q \in Seq(Event), q # <<>>, NEW x \in Nat, NEW y \in Nat, One(F, q, x, y)
  PROVE  F[x + 1] = Head(q) /\ One(F, Tail(q), x + 1, y) /\ x + 1 <= y
<1> DEFINE l == Len(q)
           t == Tail(q)
<1>1. /\ l \in Nat \ {0} /\ Len(t) = l - 1 /\ Head(q) = q[1] /\ \A i \in 1..(l - 1) : t[i] = q[i + 1]
  BY HeadTailProperties, EmptySeq, LenProperties
<1>2. y = x + l /\ \A j \in 1..l : F[x + j] = q[j]
  BY DEF One
<1> HIDE DEF l, t
<1>3. 1 \in 1..l
  BY <1>1
<1>4. ASSUME NEW j \in 1..(l - 1) PROVE F[x + 1 + j] = t[j]
  <2>1. j + 1 \in 1..l /\ x + (j + 1) = x + 1 + j
    BY <1>1
  <2>2. F[x + (j + 1)] = q[j + 1]
    BY <1>2, <2>1
  <2> QED
    BY <1>1, <2>1, <2>2
<1>5. y = x + 1 + (l - 1) /\ x + 1 <= y
  BY <1>1, <1>2
<1> QED
  BY <1>1, <1>2, <1>3, <1>4, <1>5 DEF One, t

\* A row: poll_event hands it out unless the stream refused a second set.
LEMMA ShowsRow ==
  ASSUME NEW m, m # "batches", NEW r, NEW n \in Nat, NEW F \in Seq(Event), Good(m, r, n, F),
         NEW s \in Seq(Event), NEW x \in BOOLEAN, x => m = "rows", NEW a \in Nat, Shows(m, r, s, x, F, a),
         a + 1 <= Len(F), F[a + 1].k = "row"
  PROVE  Shows(m, r, IF x THEN s ELSE Append(s, F[a + 1]), x, F, a + 1)
<1> DEFINE K == a + 1
           ev == F[K]
           l == Len(s)
           u == Append(s, ev)
<1>0. K \in Nat /\ K - 1 = a /\ K \in 1..Len(F) /\ Len(F) \in Nat /\ \A h \in 1..K : h = K \/ h \in 1..a
  BY LenProperties
<1>1. ev \in Event
  BY <1>0, ElementOfSeq
<1>2. l \in Nat /\ u \in Seq(Event) /\ Len(u) = l + 1 /\ u[l + 1] = ev /\ \A i \in 1..l : u[i] = s[i]
  BY <1>1, AppendFacts
<1>3. EventAt(m, r, n, F, K) /\ \A h \in 1..a : EventAt(m, r, n, F, h)
  BY <1>0 DEF Good
<1>4. /\ ev.k = "row" /\ Tells(ev) /\ ev.n \in 1..n /\ RowAt(r, ev.n)
      /\ \A g \in 1..a : Tells(F[g]) => F[g].n < ev.n
  BY <1>0, <1>3 DEF EventAt, WireAt, Tells, OfKind, RowAt
<1>5. K <= Len(F)
  BY <1>0
<1>6. \A h \in 1..a : h \in 1..K
  BY <1>0
<1>7. K \in 1..K /\ l + 1 \in 1..(l + 1) /\ \A j \in 1..(l + 1) : j = l + 1 \/ j \in 1..l
  BY <1>0, <1>2
<1>8. \A j \in 1..l : j \in 1..(l + 1) /\ j < l + 1
  BY <1>2
<1>9. CASE m # "rows"
  <2>1. a = l /\ \A j \in 1..a : F[j] = s[j]
    BY <1>9 DEF Shows
  <2>2. ~x /\ K = l + 1
    BY <1>9, <2>1
  <2> HIDE DEF K, ev, u, l
  <2>3. \A j \in 1..K : F[j] = u[j]
    BY <1>0, <1>2, <2>1, <2>2 DEF ev
  <2>4. Shows(m, r, u, x, F, K)
    BY <1>2, <1>5, <1>9, <2>2, <2>3 DEF Shows
  <2> QED
    BY <2>2, <2>4 DEF K, ev, u
<1>10. CASE m = "rows"
  <2>1. /\ \A j \in 1..l : s[j].k = "row" /\ SetNo(r, s[j].n) = 0 /\ \E h \in 1..a : F[h] = s[j]
        /\ \A i, j \in 1..l : i < j => s[i].n < s[j].n
        /\ \A h \in 1..a : F[h].k = "row" /\ SetNo(r, F[h].n) = 0 => \E j \in 1..l : s[j] = F[h]
        /\ x <=> \E h \in 1..a : F[h].k = "start" /\ F[h].i > 0
    BY <1>10 DEF Shows
  <2> HIDE DEF K, ev, u, l
  <2>2. F[K] = ev
    BY DEF ev
  <2>3. x <=> \E h \in 1..K : F[h].k = "start" /\ F[h].i > 0
    <3>1. F[K].k # "start"
      BY <1>4, <2>2
    <3> QED
      BY <1>0, <1>6, <2>1, <3>1
  <2>4. CASE x
    <3>1. PICK st \in 1..a : F[st].k = "start" /\ F[st].i > 0
      BY <2>1, <2>4
    <3>2. /\ F[st].i \in Nat /\ \A p \in 1..n : RowAt(r, p) /\ SetNo(r, p) < F[st].i => ToldIn(F, st - 1, p)
      BY <1>3, <3>1 DEF EventAt, StartAt, Event
    <3>3. SetNo(r, ev.n) # 0
      <4> SUFFICES ASSUME SetNo(r, ev.n) = 0 PROVE FALSE
        OBVIOUS
      <4>1. SetNo(r, ev.n) < F[st].i
        BY <3>1, <3>2
      <4>2. PICK g \in 1..(st - 1) : Tells(F[g]) /\ F[g].n = ev.n
        BY <1>4, <3>2, <4>1 DEF ToldIn
      <4>3. g \in 1..a
        BY <3>1, <4>2
      <4>4. F[g].n < ev.n /\ ev.n \in Nat
        BY <1>4, <4>2, <4>3
      <4> QED
        BY <4>2, <4>4
    <3>4. ASSUME NEW h \in 1..K, F[h].k = "row", SetNo(r, F[h].n) = 0 PROVE \E j \in 1..l : s[j] = F[h]
      <4>1. h \in 1..a
        BY <1>0, <2>2, <3>3, <3>4
      <4> QED
        BY <2>1, <3>4, <4>1
    <3>5. Shows(m, r, s, x, F, K)
      BY <1>5, <1>6, <1>10, <2>1, <2>3, <3>4 DEF Shows, l
    <3> QED
      BY <2>4, <3>5 DEF K
  <2>5. CASE ~x
    <3>1. PICK st \in 1..a : F[st].k = "start" /\ F[st].i = SetNo(r, ev.n)
      <4>1. BracketAt(m, r, F, K)
        BY <1>3 DEF EventAt
      <4>2. PICK st \in 1..(K - 1) : OpensIn(r, F, st, K)
        BY <1>4, <1>10, <2>2, <4>1 DEF BracketAt
      <4> QED
        BY <1>0, <1>4, <2>2, <4>2 DEF OpensIn
    <3>2. SetNo(r, ev.n) = 0
      <4>1. F[st].i \in Nat
        BY <1>3, <3>1 DEF EventAt, Event
      <4> QED
        BY <2>1, <2>5, <3>1, <4>1
    <3>3. ASSUME NEW j \in 1..(l + 1)
          PROVE  u[j].k = "row" /\ SetNo(r, u[j].n) = 0 /\ \E h \in 1..K : F[h] = u[j]
      <4>1. CASE j = l + 1
        BY <1>2, <1>4, <1>7, <2>2, <3>2, <4>1
      <4>2. CASE j \in 1..l
        <5>1. u[j] = s[j]
          BY <1>2, <4>2
        <5>2. PICK h \in 1..a : F[h] = s[j]
          BY <2>1, <4>2
        <5>3. h \in 1..K
          BY <1>6
        <5> QED
          BY <2>1, <4>2, <5>1, <5>2, <5>3
      <4> QED
        BY <1>7, <4>1, <4>2
    <3>4. ASSUME NEW i \in 1..(l + 1), NEW j \in 1..(l + 1), i < j PROVE u[i].n < u[j].n
      <4>1. i \in 1..l
        BY <1>2, <3>4
      <4>2. CASE j = l + 1
        <5>1. PICK h \in 1..a : F[h] = s[i]
          BY <2>1, <4>1
        <5>2. Tells(F[h])
          BY <2>1, <4>1, <5>1 DEF Tells
        <5> QED
          BY <1>2, <1>4, <4>1, <4>2, <5>1, <5>2
      <4>3. CASE j \in 1..l
        BY <1>2, <2>1, <3>4, <4>1, <4>3
      <4> QED
        BY <1>7, <4>2, <4>3
    <3>5. ASSUME NEW h \in 1..K, F[h].k = "row", SetNo(r, F[h].n) = 0 PROVE \E j \in 1..(l + 1) : u[j] = F[h]
      <4>1. CASE h = K
        BY <1>2, <1>7, <2>2, <4>1
      <4>2. CASE h \in 1..a
        <5>1. PICK j \in 1..l : s[j] = F[h]
          BY <2>1, <3>5, <4>2
        <5> QED
          BY <1>2, <1>8, <5>1
      <4> QED
        BY <1>0, <4>1, <4>2
    <3>6. Shows(m, r, u, x, F, K)
      BY <1>2, <1>5, <1>10, <2>3, <3>3, <3>4, <3>5 DEF Shows
    <3> QED
      BY <2>5, <3>6 DEF K, u, ev
  <2> QED
    BY <2>4, <2>5
<1> QED
  BY <1>9, <1>10

\* Another event: an event stream shows it, a row stream refuses a second set.
LEMMA ShowsEvent ==
  ASSUME NEW m, m # "batches", NEW r, NEW F \in Seq(Event),
         NEW s \in Seq(Event), NEW x \in BOOLEAN, NEW a \in Nat, Shows(m, r, s, x, F, a),
         a + 1 <= Len(F), F[a + 1].k # "row", m \in {"events", "rows", "batches"},
         NEW y \in BOOLEAN, y <=> (x \/ (m = "rows" /\ F[a + 1].k = "start" /\ F[a + 1].i > 0 /\ ~x))
  PROVE  Shows(m, r, IF m = "events" THEN Append(s, F[a + 1]) ELSE s, y, F, a + 1)
<1> DEFINE K == a + 1
           ev == F[K]
           l == Len(s)
           u == Append(s, ev)
<1>0. K \in Nat /\ K - 1 = a /\ K \in 1..Len(F) /\ Len(F) \in Nat /\ \A h \in 1..K : h = K \/ h \in 1..a
  BY LenProperties
<1>1. ev \in Event
  BY <1>0, ElementOfSeq
<1>2. l \in Nat /\ u \in Seq(Event) /\ Len(u) = l + 1 /\ u[l + 1] = ev /\ \A i \in 1..l : u[i] = s[i]
  BY <1>1, AppendFacts
<1>3. K <= Len(F) /\ K \in 1..K /\ \A h \in 1..a : h \in 1..K
  BY <1>0
<1>4. y <=> (x \/ (m = "rows" /\ ev.k = "start" /\ ev.i > 0 /\ ~x))
  OBVIOUS
<1>5. CASE m # "rows"
  <2>1. a = l /\ \A j \in 1..a : F[j] = s[j]
    BY <1>5 DEF Shows
  <2>2. m = "events" /\ K = l + 1
    BY <1>5, <2>1
  <2> HIDE DEF K, ev, u, l
  <2>3. \A j \in 1..K : F[j] = u[j]
    BY <1>0, <1>2, <2>1, <2>2 DEF ev
  <2>4. Shows(m, r, u, y, F, K)
    BY <1>2, <1>3, <1>5, <2>2, <2>3 DEF Shows
  <2> QED
    BY <2>2, <2>4 DEF K, ev, u
<1>6. CASE m = "rows"
  <2>1. /\ \A j \in 1..l : s[j].k = "row" /\ SetNo(r, s[j].n) = 0 /\ \E h \in 1..a : F[h] = s[j]
        /\ \A i, j \in 1..l : i < j => s[i].n < s[j].n
        /\ \A h \in 1..a : F[h].k = "row" /\ SetNo(r, F[h].n) = 0 => \E j \in 1..l : s[j] = F[h]
        /\ x <=> \E h \in 1..a : F[h].k = "start" /\ F[h].i > 0
    BY <1>6 DEF Shows
  <2>2. F[K] = ev /\ ev.k # "row"
    OBVIOUS
  <2> HIDE DEF K, ev, u, l
  <2>3. ASSUME NEW j \in 1..l PROVE s[j].k = "row" /\ SetNo(r, s[j].n) = 0 /\ \E h \in 1..K : F[h] = s[j]
    BY <1>3, <2>1
  <2>4. ASSUME NEW h \in 1..K, F[h].k = "row", SetNo(r, F[h].n) = 0 PROVE \E j \in 1..l : s[j] = F[h]
    <3>1. h \in 1..a
      BY <1>0, <2>2, <2>4
    <3> QED
      BY <2>1, <2>4, <3>1
  <2>5. y <=> \E h \in 1..K : F[h].k = "start" /\ F[h].i > 0
    <3>1. y <=> (x \/ (ev.k = "start" /\ ev.i > 0))
      BY <1>4, <1>6
    <3>2. (\E h \in 1..K : F[h].k = "start" /\ F[h].i > 0)
            <=> ((\E h \in 1..a : F[h].k = "start" /\ F[h].i > 0) \/ (ev.k = "start" /\ ev.i > 0))
      BY <1>0, <1>3, <2>2
    <3> QED
      BY <2>1, <3>1, <3>2
  <2>6. Shows(m, r, s, y, F, K)
    BY <1>3, <1>6, <2>1, <2>3, <2>4, <2>5 DEF Shows, l
  <2> QED
    BY <1>6, <2>6 DEF K
<1> QED
  BY <1>5, <1>6

\* A batch stream shows a whole block.
LEMMA ShowsBatch ==
  ASSUME NEW r, NEW F \in Seq(Event), NEW s \in Seq(Event), NEW q \in Seq(Event), NEW x,
         NEW a \in Nat, Shows("batches", r, s, x, F, a), NEW z \in Nat, One(F, q, a, z), z <= Len(F)
  PROVE  Shows("batches", r, s \o q, x, F, z)
<1> DEFINE u == s \o q
<1>1. a = Len(s) /\ \A j \in 1..a : F[j] = s[j]
  BY DEF Shows
<1>2. z = a + Len(q) /\ \A j \in 1..Len(q) : F[a + j] = q[j]
  BY DEF One
<1>3. /\ Len(q) \in Nat /\ Len(u) = Len(s) + Len(q)
      /\ \A i \in 1..(Len(s) + Len(q)) : u[i] = IF i <= Len(s) THEN s[i] ELSE q[i - Len(s)]
  BY ConcatProperties, LenProperties
<1> HIDE DEF u
<1>4. ASSUME NEW j \in 1..z PROVE F[j] = u[j]
  <2>1. CASE j <= a
    <3>1. j \in 1..a
      BY <2>1
    <3> QED
      BY <1>1, <1>2, <1>3, <2>1, <3>1
  <2>2. CASE ~(j <= a)
    <3>1. j - a \in 1..Len(q) /\ a + (j - a) = j
      BY <1>2, <1>3, <2>2
    <3>2. u[j] = q[j - a]
      BY <1>1, <1>2, <1>3, <2>2
    <3>3. F[a + (j - a)] = q[j - a]
      BY <1>2, <3>1
    <3> QED
      BY <3>1, <3>2, <3>3
  <2> QED
    BY <2>1, <2>2
<1>5. z = Len(u)
  BY <1>1, <1>2, <1>3
<1>6. Shows("batches", r, u, x, F, z)
  BY <1>4, <1>5 DEF Shows
<1> QED
  BY <1>6 DEF u

LEMMA PollsTell ==
  ASSUME StreamInv, StreamInv', PhaseInv, KindInv, Scripted, Poll \/ DropStream
  PROVE  Scripted'
<1>1. PICK F \in Seq(Event), d \in Nat : Script(F, d)
  BY DEF Scripted, Script
<1>2. /\ Good(mode, response, read, F) /\ d <= Len(F) /\ Len(F) \in Nat
      /\ mode \in Modes /\ mode \in {"events", "rows", "batches"} /\ read \in Nat
      /\ queue \in Seq(Item) /\ pending \in Block /\ pending.rows \in Seq(Event) /\ seen \in Seq(Event)
      /\ refused \in BOOLEAN /\ (refused => mode = "rows") /\ Len(response) \in Nat
  <2>1. refused \in BOOLEAN
    BY DEF StreamInv, TypeOK
  <2> QED
    BY <1>1, <2>1, PartsFacts, LenProperties, StreamAssumption DEF Script, StreamInv, PhaseInv
<1>3. PICK a \in Nat, b \in Nat : /\ Shows(mode, response, seen, refused, F, a) /\ One(F, pending.rows, a, b)
                                  /\ Laid(F, QueueTold(queue), b, d)
  BY <1>1 DEF Script, Ahead
<1>4. UNCHANGED <<mode, response, read, parse, todo, batch, result>> /\ (Halted => Halted')
  <2>1. UNCHANGED <<mode, backendVars, driveVars, parserVars>>
    BY DEF Poll, PollPending, PollRows, PollBatch, PollEvent, PollTerminal, YieldRow, DropStream
  <2>2. rx' = rx \/ rx' = "closed" \/ rx' = "dropped"
    BY DEF Poll, PollPending, PollRows, PollBatch, PollEvent, PollTerminal, YieldRow, DropStream
  <2> QED
    BY <2>1, <2>2 DEF Halted, Interrupted, backendVars, driveVars, parserVars
<1>5. ASSUME NEW x \in Nat, NEW y \in Nat, Shows(mode, response, seen', refused', F, x),
             One(F, pending'.rows, x, y), Laid(F, QueueTold(queue'), y, d)
      PROVE  Scripted'
  <2>1. Ahead(mode, response, seen', refused', pending'.rows, QueueTold(queue'), F, d)
    BY <1>5 DEF Ahead
  <2> QED
    BY <1>1, <1>4, <2>1, ScriptAhead
<1>6. ASSUME NEW y \in Nat, Laid(F, QueueTold(queue'), y, d), queue' \in Seq(Item) PROVE y <= Len(F)
  <2>1. QueueTold(queue') \in Parts
    BY <1>6, QueueParts
  <2>2. y <= d
    BY <1>6, <2>1, LaidAgrees
  <2> QED
    BY <1>2, <2>2
<1>7. queue # <<>> => /\ Head(queue) \in Sound /\ Head(queue) \in Sorted /\ Tail(queue) \in Seq(Item)
                      /\ Head(queue).ev \in Event /\ Head(queue).block \in Block
  <2>1. queue \in Seq(Sorted)
    BY DEF KindInv
  <2> QED
    BY <2>1, FrontFacts, HeadTailProperties
<1>8. pending = NoBlock => b = a
  BY <1>3, NothingStaged, OneNone
<1>9. ASSUME NEW w \in Block, w.rows # <<>>, w.rows \in Seq(RowEvent), Eventful, YieldRow(w), NEW z \in Nat,
             One(F, w.rows, a, z), Laid(F, QueueTold(queue'), z, d), queue' \in Seq(Item)
      PROVE  Scripted'
  <2>1. w.rows \in Seq(Event)
    BY <1>9 DEF Block
  <2>2. F[a + 1] = Head(w.rows) /\ One(F, Tail(w.rows), a + 1, z) /\ a + 1 <= z
    BY <1>9, <2>1, OneTail
  <2>3. pending'.rows = Tail(w.rows)
    BY <1>9, YieldRest
  <2>4. F[a + 1].k = "row"
    BY <1>9, <2>2, HeadTailProperties DEF RowEvent
  <2>5. z <= Len(F)
    BY <1>6, <1>9
  <2>6. a + 1 <= Len(F) /\ a + 1 \in Nat
    BY <1>2, <2>2, <2>5
  <2>7. seen' = (IF refused THEN seen ELSE Append(seen, F[a + 1])) /\ refused' = refused
    BY <1>9, <2>2 DEF YieldRow
  <2>8. Shows(mode, response, IF refused THEN seen ELSE Append(seen, F[a + 1]), refused, F, a + 1)
    BY <1>2, <1>3, <1>9, <2>4, <2>6, ShowsRow DEF Eventful
  <2> QED
    BY <1>5, <1>9, <2>2, <2>3, <2>6, <2>7, <2>8
<1>10. CASE PollPending
  <2>1. pending # NoBlock /\ YieldRow(pending) /\ queue' = queue
    BY <1>10 DEF PollPending
  <2>2. Eventful /\ pending.rows # <<>> /\ pending.rows \in Seq(RowEvent)
    BY <2>1 DEF StreamInv, QueueInv, Paid, Rows, KindInv
  <2> QED
    BY <1>2, <1>3, <1>9, <2>1, <2>2
<1>11. CASE PollRows
  <2> DEFINE w == Head(queue).block
  <2>1. Eventful /\ pending = NoBlock /\ queue # <<>> /\ Head(queue).rows /\ YieldRow(w) /\ queue' = Tail(queue)
    BY <1>11 DEF PollRows
  <2>2. w \in Block /\ w.rows # <<>> /\ w.rows \in Seq(RowEvent) /\ ItemTold(Head(queue)) = w.rows
    BY <1>7, <2>1 DEF Sound, Sorted, Paid, Rows, ItemTold
  <2>3. PICK z \in Nat : One(F, ItemTold(Head(queue)), b, z) /\ Laid(F, QueueTold(Tail(queue)), z, d)
    BY <1>2, <1>3, <2>1, QueueTakes
  <2> HIDE DEF w
  <2> QED
    BY <1>7, <1>8, <1>9, <2>1, <2>2, <2>3
<1>12. CASE PollBatch
  <2>1. ~Eventful /\ queue # <<>> /\ queue' = Tail(queue) /\ seen' = seen \o Head(queue).block.rows
        /\ UNCHANGED <<pending, refused>>
    BY <1>12 DEF PollBatch
  <2>2. pending = NoBlock /\ mode = "batches"
    BY <2>1 DEF StreamInv, QueueInv, Eventful
  <2> DEFINE q == Head(queue).block.rows
  <2>3. ItemTold(Head(queue)) = q /\ q \in Seq(Event)
    BY <1>7, <2>1 DEF Sound, ItemTold, Block
  <2>4. PICK z \in Nat : One(F, ItemTold(Head(queue)), b, z) /\ Laid(F, QueueTold(Tail(queue)), z, d)
    BY <1>2, <1>3, <2>1, QueueTakes
  <2>5. z <= Len(F)
    BY <1>6, <1>7, <2>1, <2>4
  <2> HIDE DEF q
  <2>6. One(F, q, a, z)
    BY <1>8, <2>2, <2>3, <2>4
  <2>7. Shows(mode, response, seen \o q, refused, F, z)
    BY <1>2, <1>3, <2>2, <2>3, <2>5, <2>6, ShowsBatch
  <2>8. One(F, pending'.rows, z, z)
    BY <2>1, <2>2, NothingStaged, OneFacts
  <2> QED
    BY <1>5, <2>1, <2>4, <2>7, <2>8 DEF q
<1>13. CASE PollEvent
  <2> DEFINE ev == Head(queue).ev
             second == mode = "rows" /\ ev.k = "start" /\ ev.i > 0 /\ ~refused
  <2>1. /\ pending = NoBlock /\ queue # <<>> /\ ~Head(queue).rows /\ queue' = Tail(queue) /\ pending' = pending
        /\ seen' = (IF mode = "events" THEN Append(seen, ev) ELSE seen)
        /\ refused' = (refused \/ second)
    BY <1>13 DEF PollEvent
  <2>2. /\ Head(queue).rows \in BOOLEAN /\ Eventful /\ ev.k # "row" /\ ev \in Event /\ ItemTold(Head(queue)) = <<ev>>
    <3>1. Head(queue) \in Item
      BY <1>7, <2>1 DEF Sound
    <3> QED
      BY <1>7, <2>1, <3>1 DEF Sound, Sorted, ItemTold, Item
  <2>3. PICK z \in Nat : One(F, ItemTold(Head(queue)), b, z) /\ Laid(F, QueueTold(Tail(queue)), z, d)
    BY <1>2, <1>3, <2>1, QueueTakes
  <2>5. z <= Len(F)
    BY <1>6, <1>7, <2>1, <2>3
  <2> HIDE DEF ev
  <2>4. z = a + 1 /\ F[z] = ev
    <3>1. One(F, <<ev>>, a, z) /\ Len(<<ev>>) = 1 /\ <<ev>>[1] = ev
      BY <1>8, <2>1, <2>2, <2>3
    <3>2. a + 1 = z /\ 1 \in 1..1 /\ F[a + 1] = <<ev>>[1]
      BY <3>1 DEF One
    <3> QED
      BY <3>1, <3>2
  <2>6. second \in BOOLEAN /\ refused' \in BOOLEAN /\ (refused' <=> (refused \/ second))
    BY <1>2, <2>1
  <2>7. /\ mode # "batches" /\ a + 1 <= Len(F) /\ F[a + 1].k # "row" /\ F[a + 1] = ev
        /\ refused' <=> (refused \/ (mode = "rows" /\ F[a + 1].k = "start" /\ F[a + 1].i > 0 /\ ~refused))
    BY <2>2, <2>4, <2>5, <2>6 DEF Eventful
  <2> HIDE DEF second
  <2>8. Shows(mode, response, IF mode = "events" THEN Append(seen, F[a + 1]) ELSE seen, refused', F, a + 1)
    BY <1>2, <1>3, <2>6, <2>7, ShowsEvent
  <2>9. One(F, pending'.rows, z, z)
    BY <2>1, NothingStaged, OneFacts
  <2> QED
    BY <1>5, <2>1, <2>3, <2>4, <2>7, <2>8, <2>9
<1>14. CASE PollTerminal
  <2>1. UNCHANGED <<queue, pending, seen, refused>>
    BY <1>14 DEF PollTerminal
  <2> QED
    BY <1>3, <1>5, <2>1
<1>15. CASE DropStream
  <2>1. queue' = <<>> /\ pending' = NoBlock /\ UNCHANGED <<seen, refused>> /\ rx' = "dropped"
    BY <1>15 DEF DropStream
  <2>2. One(F, pending'.rows, a, a) /\ Laid(F, QueueTold(queue'), a, a)
    BY <2>1, NothingStaged, OneFacts, QueueNone
  <2>3. Ahead(mode, response, seen', refused', pending'.rows, QueueTold(queue'), F, a)
    BY <1>3, <2>1, <2>2 DEF Ahead
  <2>4. Halted' /\ a <= Len(F) /\ Grown /\ read' \in {read, read + 1}
    BY <1>2, <1>3, <1>4, <2>1 DEF Halted, Shows, Grown
  <2> QED
    BY <1>2, <1>4, <2>3, <2>4, ScriptHalts
<1> QED
  BY <1>10, <1>11, <1>12, <1>13, <1>14, <1>15 DEF Poll

-----------------------------------------------------------------------------
(* The steps of the driver, and the start *)

\* Who gives a statement up leaves what is in the channel.
LEMMA DriveHalts ==
  ASSUME StreamInv, StreamInv', Scripted, Halted', Grown,
         UNCHANGED <<mode, queue, pending, seen, refused, read>>
  PROVE  Scripted'
<1>1. PICK F \in Seq(Event), d \in Nat : Script(F, d)
  BY DEF Scripted, Script
<1>2. /\ d <= Len(F) /\ Good(mode, response, read, F)
      /\ Ahead(mode, response, seen', refused', pending'.rows, QueueTold(queue'), F, d)
  BY <1>1 DEF Script
<1>3. mode' = mode /\ read' \in {read, read + 1}
  OBVIOUS
<1> QED
  BY <1>1, <1>2, <1>3, ScriptHalts

LEMMA EndTells ==
  ASSUME StreamInv, StreamInv', PhaseInv, AwaitInv, Scripted,
         SkipRequest \/ Return \/ CleanupTimeout \/ DropDriver
  PROVE  Scripted'
<1>0. Len(response) \in Nat /\ cause \in {"none", "cancelled", "timeout"}
  BY PartsFacts DEF StreamInv, TypeOK
<1>1. ASSUME NEW how, End(how)
      PROVE  /\ UNCHANGED <<mode, response, queue, pending, seen, refused, read, parse, result>> /\ Grown
             /\ drive' = "done" /\ terminal' = how /\ todo' = <<>> /\ batch' = NoBlock
             /\ UNCHANGED <<rx, cancelled, closing>>
  BY <1>0, <1>1 DEF End, backendVars, callerVars, Grown
<1>2. ASSUME NEW how, End(how), how # "ok" PROVE Scripted'
  <2>1. Halted'
    BY <1>1, <1>2 DEF Halted
  <2> QED
    BY <1>1, <1>2, <2>1, DriveHalts
<1>3. CASE SkipRequest \/ DropDriver
  <2>1. End("closed") /\ "closed" # "ok"
    BY <1>3 DEF SkipRequest, DropDriver
  <2> QED
    BY <1>2, <2>1
<1>4. CASE CleanupTimeout
  <2>1. End(cause) /\ cause # "ok"
    BY <1>0, <1>4 DEF CleanupTimeout
  <2> QED
    BY <1>2, <2>1
<1>5. CASE Return
  <2>1. CASE drive = "run" /\ result = "ok"
    <3>1. todo = <<>> /\ End("ok")
      BY <1>5, <2>1 DEF Return
    <3>2. batch = NoBlock
      BY <2>1, <3>1, OpsNone DEF AwaitInv
    <3>3. UNCHANGED <<mode, queue, pending, seen, refused, read, parse, todo, batch, result>> /\ Grown
      BY <1>1, <3>1, <3>2
    <3>4. Halted' <=> Halted
      <4>1. UNCHANGED <<rx, cancelled, closing>> /\ terminal' = "ok"
        BY <1>1, <3>1
      <4> QED
        BY <2>1, <4>1 DEF Halted, Interrupted
    <3> QED
      BY <3>3, <3>4, ScriptRests
  <2>2. CASE drive = "run" /\ result # "ok"
    <3>1. End(result)
      BY <1>5, <2>2 DEF Return
    <3> QED
      BY <1>2, <2>2, <3>1
  <2>3. CASE drive # "run"
    <3>1. End(cause) /\ cause # "ok"
      BY <1>0, <1>5, <2>3 DEF Return
    <3> QED
      BY <1>2, <3>1
  <2> QED
    BY <2>1, <2>2, <2>3
<1> QED
  BY <1>3, <1>4, <1>5

LEMMA NextScript ==
  ASSUME StreamInv, StreamInv', PhaseInv, WireInv, ParseInv, AwaitInv, KindInv, Scripted, [Next]_vars
  PROVE  Scripted'
<1>0. Len(response) \in Nat
  BY PartsFacts DEF StreamInv
<1>1. CASE UNCHANGED vars
  <2>1. /\ UNCHANGED <<mode, queue, pending, seen, refused, read, parse, todo, batch, result>> /\ Grown
        /\ Halted' <=> Halted
    BY <1>0, <1>1 DEF vars, backendVars, driveVars, parserVars, callerVars, Grown, Halted, Interrupted
  <2> QED
    BY <2>1, ScriptRests
<1>2. CASE Parser
  BY <1>2, ReadsTell, AwaitsTell DEF Parser
<1>3. CASE SkipRequest \/ Return \/ CleanupTimeout \/ DropDriver
  BY <1>3, EndTells
<1>4. CASE NoticeInterrupt \/ NoticeClosed \/ Deadline \/ Cancel \/ Close
  <2>1. UNCHANGED <<mode, response, queue, pending, seen, refused, read>> /\ (cancelled' \/ closing')
    BY <1>4 DEF NoticeInterrupt, NoticeClosed, Deadline, Cancel, Close, GiveUp, backendVars,
       parserVars, callerVars
  <2>2. Halted' /\ Grown
    BY <1>0, <2>1 DEF Halted, Interrupted, Grown
  <2> QED
    BY <2>1, <2>2, DriveHalts
<1>5. CASE Start \/ SendCancel
  <2>1. /\ UNCHANGED <<mode, response, queue, pending, seen, refused, read, parse, todo, batch, result>>
        /\ UNCHANGED <<rx, cancelled, closing>> /\ drive # "done" /\ drive' # "done"
    BY <1>5 DEF Start, SendCancel, backendVars, parserVars, callerVars
  <2>2. Grown /\ (Halted' <=> Halted)
    BY <1>0, <2>1 DEF Halted, Interrupted, Grown
  <2> QED
    BY <2>1, <2>2, ScriptRests
<1>6. CASE ReleaseSlot
  <2>1. /\ UNCHANGED <<mode, response, queue, pending, seen, refused, read, parse, todo, batch, result>>
        /\ UNCHANGED <<rx, cancelled, closing, drive, terminal>>
    BY <1>6 DEF ReleaseSlot, backendVars, driveVars, parserVars, callerVars
  <2>2. Grown /\ (Halted' <=> Halted)
    BY <1>0, <2>1 DEF Halted, Interrupted, Grown
  <2> QED
    BY <2>1, <2>2, ScriptRests
<1>7. CASE Backend
  <2>1. PICK frames : Respond(frames)
    BY <1>7 DEF Backend, SendFrame, SendReady, StopStatement
  <2>2. /\ UNCHANGED <<mode, queue, pending, seen, refused, read, parse, todo, batch, result>>
        /\ UNCHANGED <<rx, cancelled, closing, drive, terminal>>
    BY <2>1 DEF Respond, driveVars, parserVars, callerVars
  <2>3. Halted' <=> Halted
    BY <2>2 DEF Halted, Interrupted
  <2>4. Grown
    BY <1>7, ResponseGrows DEF Next
  <2> QED
    BY <2>2, <2>3, <2>4, ScriptRests
<1>8. CASE Poll \/ DropStream
  BY <1>8, PollsTell
<1> QED
  BY <1>1, <1>2, <1>3, <1>4, <1>5, <1>6, <1>7, <1>8 DEF Next, Drive

\* The inductive invariant
DeliveryInv == PhaseInv /\ WireInv /\ ParseInv /\ AwaitInv /\ KindInv /\ Scripted

LEMMA NextDelivery ==
  ASSUME StreamInv, DeliveryInv, [Next]_vars
  PROVE  DeliveryInv'
<1>1. StreamInv'
  BY NextStream
<1>2. PhaseInv'
  BY NextPhase DEF DeliveryInv
<1>3. WireInv'
  BY NextWire DEF DeliveryInv
<1>4. ParseInv'
  BY NextParse DEF DeliveryInv
<1>5. AwaitInv'
  BY NextAwait DEF DeliveryInv
<1>6. KindInv'
  BY NextKind DEF DeliveryInv
<1>7. Scripted'
  BY <1>1, NextScript DEF DeliveryInv
<1> QED
  BY <1>2, <1>3, <1>4, <1>5, <1>6, <1>7 DEF DeliveryInv

LEMMA InitDelivery ==
  ASSUME Init, StreamInv
  PROVE  DeliveryInv
<1>0. /\ read = 0 /\ response = <<>> /\ todo = <<>> /\ batch = NoBlock /\ queue = <<>> /\ pending = NoBlock
      /\ seen = <<>> /\ refused = FALSE /\ result = "none" /\ parse = NewParse /\ rx = "open"
      /\ drive = "queued" /\ terminal = "none" /\ ended = "no" /\ Len(response) = 0
  BY DEF Init
<1>1. PhaseInv
  BY <1>0 DEF PhaseInv
<1>2. WireInv
  BY <1>0 DEF WireInv
<1>3. ~parse.cur /\ ~parse.started /\ ~parse.extra /\ parse.index = 0 /\ parse.count = 0
  BY <1>0 DEF NewParse
<1>4. ParseInv
  <2>1. SetNo(response, 1) = 0 /\ ~Inside(response, 1)
    <3>1. 1 \in Nat \ {0}
      OBVIOUS
    <3>2. SetNo(response, 1) = 0
      BY <3>1, SetNoType
    <3> QED
      BY <3>2, InsideFirst
  <2> QED
    BY <1>0, <1>3, <2>1 DEF ParseInv
<1>5. AwaitInv
  BY <1>0, OpsNone DEF AwaitInv
<1>6. NoBlock.rows = <<>> /\ <<>> \in Seq(RowEvent) /\ <<>> \in Seq(Quiet) /\ <<>> \in Seq(Sorted)
  BY NothingStaged
<1>7. KindInv
  BY <1>0, <1>6 DEF KindInv
<1>8. Scripted
  <2> DEFINE F == <<>>
  <2>1. F \in Seq(Event) /\ Len(F) = 0 /\ 1..Len(F) = {}
    OBVIOUS
  <2>2. Good(mode, response, read, F)
    BY <2>1 DEF Good
  <2>3. Shows(mode, response, seen, refused, F, 0)
    BY <1>0, <2>1 DEF Shows
  <2>4. /\ One(F, pending.rows, 0, 0) /\ One(F, batch.rows, 0, 0)
        /\ Laid(F, QueueTold(queue), 0, 0) /\ Laid(F, TodoTold(todo), 0, 0)
    BY <1>0, <1>6, OneFacts, QueueNone, TodoNone
  <2>5. Ahead(mode, response, seen, refused, pending.rows, QueueTold(queue), F, 0)
    BY <2>3, <2>4 DEF Ahead
  <2>6. Complete(mode, response, read, F)
    BY <1>0 DEF Complete
  <2>7. Link(mode, F, parse)
    BY <1>3, <2>1 DEF Link
  <2>8. Behind(mode, response, read, result = "fatal", parse, batch.rows, TodoTold(todo), F, 0)
    BY <1>0, <2>1, <2>4, <2>6, <2>7 DEF Behind
  <2> HIDE DEF F
  <2>9. 0 \in Nat /\ 0 <= Len(F) /\ Len(F) = 0
    BY <2>1
  <2>10. Script(F, 0)
    BY <2>2, <2>5, <2>8, <2>9 DEF Script
  <2> QED
    BY <2>1, <2>9, <2>10 DEF Scripted, Script
<1> QED
  BY <1>1, <1>2, <1>4, <1>5, <1>7, <1>8 DEF DeliveryInv

-----------------------------------------------------------------------------
(* What the script says of the caller *)

\* A stream owes what is wanted of its frames, a row stream only the rows of
\* the first set.
LEMMA OwedWanted ==
  ASSUME StreamInv, NEW p
  PROVE  /\ p \in Owed => p \in 1..Len(response) /\ Wanted(mode, response, p)
         /\ mode # "rows" /\ p \in 1..Len(response) /\ Wanted(mode, response, p) => p \in Owed
         /\ mode = "rows" =>
              (p \in Owed <=> (p \in 1..Len(response) /\ RowAt(response, p) /\ SetNo(response, p) = 0))
<1>1. DOMAIN response = 1..Len(response) /\ mode \in {"events", "rows", "batches"}
  <2>1. response \in Seq([kind : Kinds, size : Nat]) /\ mode \in Modes
    BY DEF StreamInv, TypeOK
  <2> QED
    BY <2>1, LenProperties, StreamAssumption
<1>2. SetOf(p) = SetNo(response, p)
  BY SetsOnWire
<1>3. p \in Owed <=>
        /\ p \in 1..Len(response)
        /\ \/ RowAt(response, p) /\ (mode = "events" \/ SetNo(response, p) = 0)
           \/ response[p].kind \in {"notice", "complete"} /\ mode = "events"
  BY <1>1, <1>2 DEF Owed, RowAt, KindAt
<1> QED
  BY <1>1, <1>3 DEF Wanted

\* A row frame is told of by a row.
LEMMA RowTold ==
  ASSUME NEW m, NEW r, NEW n, NEW F \in Seq(Event), Good(m, r, n, F), NEW g \in 1..Len(F),
         Tells(F[g]), RowAt(r, F[g].n)
  PROVE  F[g].k = "row"
<1>1. OfKind(r, F[g])
  BY DEF Good, EventAt, WireAt
<1> QED
  BY <1>1 DEF OfKind, Tells, RowAt

LEMMA SeenFacts ==
  ASSUME StreamInv
  PROVE  /\ seen \in Seq(Event) /\ Len(seen) \in Nat /\ DOMAIN seen = 1..Len(seen)
         /\ read \in Nat /\ Len(response) \in Nat /\ read <= Len(response)
<1>1. seen \in Seq(Event) /\ read \in Nat /\ Len(response) \in Nat /\ read <= Len(response)
  BY PartsFacts DEF StreamInv
<1> QED
  BY <1>1, LenProperties

\* What is owed and told of by what the caller was shown is delivered.
LEMMA ToldIsDelivered ==
  ASSUME StreamInv, NEW F \in Seq(Event), Good(mode, response, read, F), NEW a \in Nat,
         Shows(mode, response, seen, refused, F, a), NEW h \in Int, h <= a,
         NEW p, p \in Owed, ToldIn(F, h, p)
  PROVE  p \in Delivered
<1>1. PICK g \in 1..h : Tells(F[g]) /\ F[g].n = p
  BY DEF ToldIn
<1>2. g \in 1..a /\ g \in 1..Len(F)
  <2>1. a <= Len(F) /\ Len(F) \in Nat
    BY LenProperties DEF Shows
  <2> QED
    BY <2>1
<1>3. CASE mode # "rows"
  <2>1. g \in 1..Len(seen) /\ seen[g] = F[g]
    BY <1>2, <1>3 DEF Shows
  <2>2. g \in Telling
    BY <1>1, <2>1, SeenFacts DEF Telling
  <2> QED
    BY <1>1, <2>1, <2>2 DEF Delivered
<1>4. CASE mode = "rows"
  <2>1. RowAt(response, p) /\ SetNo(response, p) = 0
    BY <1>4, OwedWanted
  <2>2. F[g].k = "row"
    BY <1>1, <1>2, <2>1, RowTold
  <2>3. PICK j \in 1..Len(seen) : seen[j] = F[g]
    BY <1>1, <1>2, <1>4, <2>1, <2>2 DEF Shows
  <2>4. j \in Telling
    BY <1>1, <2>3, SeenFacts DEF Telling
  <2> QED
    BY <1>1, <2>3, <2>4 DEF Delivered
<1> QED
  BY <1>3, <1>4

LEMMA ScriptInOrder ==
  ASSUME StreamInv, NEW F \in Seq(Event), Good(mode, response, read, F), NEW a \in Nat,
         Shows(mode, response, seen, refused, F, a)
  PROVE  DeliveredInWireOrder
<1>0. a <= Len(F) /\ Len(F) \in Nat
  BY LenProperties DEF Shows
<1>1. ASSUME NEW j \in Telling
      PROVE  \E h \in 1..a : F[h] = seen[j] /\ (mode # "rows" => h = j)
  <2>1. j \in 1..Len(seen)
    BY SeenFacts DEF Telling
  <2> QED
    BY <2>1 DEF Shows
<1>2. ASSUME NEW j \in Telling
      PROVE  seen[j].n \in Owed /\ FromFrame(seen[j])
  <2>1. PICK h \in 1..a : F[h] = seen[j]
    BY <1>1
  <2>2. h \in 1..Len(F) /\ Tells(F[h])
    BY <1>0, <2>1 DEF Telling
  <2>3. F[h].n \in 1..read /\ Wanted(mode, response, F[h].n) /\ OfKind(response, F[h])
    BY <2>2 DEF Good, EventAt, WireAt
  <2>4. FromFrame(seen[j]) /\ seen[j].n \in 1..Len(response)
    BY <2>1, <2>3, SeenFacts DEF FromFrame, OfKind, KindAt
  <2>5. CASE mode # "rows"
    BY <2>1, <2>3, <2>4, <2>5, OwedWanted
  <2>6. CASE mode = "rows"
    <3>1. j \in 1..Len(seen)
      BY SeenFacts DEF Telling
    <3>2. seen[j].k = "row" /\ SetNo(response, seen[j].n) = 0
      BY <2>6, <3>1 DEF Shows
    <3>3. RowAt(response, seen[j].n)
      BY <2>1, <2>3, <3>2 DEF OfKind, RowAt
    <3> QED
      BY <2>4, <2>6, <3>2, <3>3, OwedWanted
  <2> QED
    BY <2>4, <2>5, <2>6
<1>3. Delivered \subseteq Owed
  BY <1>2 DEF Delivered
<1>4. ASSUME NEW p \in Owed, NEW q \in Delivered, p < q PROVE p \in Delivered
  <2>1. PICK j \in Telling : seen[j].n = q
    BY DEF Delivered
  <2>2. PICK h \in 1..a : F[h] = seen[j]
    BY <1>1
  <2>3. h \in 1..Len(F) /\ Tells(F[h]) /\ F[h].n = q
    BY <1>0, <2>1, <2>2 DEF Telling
  <2>4. q \in 1..read /\ \A x \in 1..(q - 1) : Wanted(mode, response, x) => ToldIn(F, h - 1, x)
    BY <2>3 DEF Good, EventAt, WireAt
  <2>5. p \in 1..Len(response) /\ Wanted(mode, response, p)
    BY OwedWanted
  <2>6. p \in 1..(q - 1)
    BY <1>4, <2>4, <2>5, SeenFacts
  <2>7. ToldIn(F, h - 1, p) /\ h - 1 \in Int /\ h - 1 <= a
    BY <2>4, <2>5, <2>6
  <2> QED
    BY <2>7, ToldIsDelivered
<1>5. ASSUME NEW i \in Telling, NEW j \in Telling, i < j PROVE seen[i].n < seen[j].n
  <2>1. CASE mode # "rows"
    <3>1. i \in 1..a /\ j \in 1..a /\ F[i] = seen[i] /\ F[j] = seen[j] /\ Tells(F[i]) /\ Tells(F[j])
      BY <1>1, <2>1 DEF Telling
    <3>2. j \in 1..Len(F) /\ i \in 1..(j - 1)
      BY <1>0, <1>5, <3>1
    <3>3. F[i].n < F[j].n
      BY <3>1, <3>2 DEF Good, EventAt, WireAt
    <3> QED
      BY <3>1, <3>3
  <2>2. CASE mode = "rows"
    <3>1. i \in 1..Len(seen) /\ j \in 1..Len(seen)
      BY SeenFacts DEF Telling
    <3> QED
      BY <1>5, <2>2, <3>1 DEF Shows
  <2> QED
    BY <2>1, <2>2
<1> QED
  BY <1>2, <1>3, <1>4, <1>5 DEF DeliveredInWireOrder

LEMMA ScriptBrackets ==
  ASSUME StreamInv, NEW F \in Seq(Event), Good(mode, response, read, F), NEW a \in Nat,
         Shows(mode, response, seen, refused, F, a)
  PROVE  SetsBracketed
<1> SUFFICES ASSUME mode = "events", NEW j \in DOMAIN seen, seen[j].k \in {"row", "end"}
             PROVE  \E s \in 1..(j - 1) : Opens(seen, s, j)
  BY DEF SetsBracketed, Bracketed
<1>1. /\ a <= Len(F) /\ Len(F) \in Nat /\ a = Len(seen) /\ j \in 1..a /\ j \in 1..Len(F)
      /\ \A x \in 1..a : F[x] = seen[x]
  BY SeenFacts, LenProperties DEF Shows
<1>2. BracketAt(mode, response, F, j) /\ F[j].k \in {"row", "end"}
  BY <1>1 DEF Good, EventAt
<1>3. PICK s \in 1..(j - 1) : OpensIn(response, F, s, j)
  BY <1>2 DEF BracketAt
<1>4. F[s] = seen[s] /\ F[j] = seen[j] /\ (\A x \in (s + 1)..(j - 1) : F[x] = seen[x]) /\ (\A x \in s..j : F[x] = seen[x])
  BY <1>1
<1>5. {x \in s..j : F[x].k = "row"} = {h \in s..j : seen[h].k = "row"}
  BY <1>4
<1>6. SetOf(seen[j].n) = SetNo(response, seen[j].n)
  BY SetsOnWire
<1>7. Opens(seen, s, j)
  BY <1>3, <1>4, <1>5, <1>6 DEF OpensIn, Opens
<1> QED
  BY <1>7

LEMMA ScriptFaithful ==
  ASSUME StreamInv, DeliveryInv
  PROVE  EventsFaithful
<1>1. PICK F \in Seq(Event), d \in Nat : Script(F, d)
  BY DEF DeliveryInv, Scripted, Script
<1>2. PICK a \in Nat : Shows(mode, response, seen, refused, F, a)
  BY <1>1 DEF Script, Ahead
<1>3. Good(mode, response, read, F)
  BY <1>1 DEF Script
<1> QED
  BY <1>2, <1>3, ScriptInOrder, ScriptBrackets DEF EventsFaithful

\* README: "rows and notices in wire order".  For every response, every split of
\* rows into blocks and every limit, and wherever cancel, close, deadline, drop
\* or a failing send strikes: what poll_next has returned is a gapless prefix of
\* what the backend sent, without duplicates, and ResultSetStart and
\* ResultSetEnd bracket exactly the rows of their set.
THEOREM StreamFaithful == Spec => []EventsFaithful
<1>1. Init => StreamInv /\ DeliveryInv
  BY InitStream, InitDelivery
<1>2. StreamInv /\ DeliveryInv /\ [Next]_vars => StreamInv' /\ DeliveryInv'
  BY NextStream, NextDelivery
<1>3. StreamInv /\ DeliveryInv => EventsFaithful
  BY ScriptFaithful
<1> QED
  BY <1>1, <1>2, <1>3, PTL DEF Spec

-----------------------------------------------------------------------------
(* The end of a stream *)

Accounted ==
  /\ Delivered = Owed
  /\ mode = "events" \/ refused \/ \A p \in DOMAIN response :
       KindAt(p) = "desc" => ~InSet(p) /\ SetOf(p) = 0

LEMMA EmptiedScript ==
  ASSUME StreamInv, DeliveryInv, queue = <<>>, pending = NoBlock
  PROVE  \E F \in Seq(Event), d \in Nat : Script(F, d) /\ Shows(mode, response, seen, refused, F, d)
<1>1. PICK F \in Seq(Event), d \in Nat : Script(F, d)
  BY DEF DeliveryInv, Scripted, Script
<1>2. PICK a \in Nat, b \in Nat :
        /\ Shows(mode, response, seen, refused, F, a) /\ One(F, pending.rows, a, b)
        /\ Laid(F, QueueTold(queue), b, d)
  BY <1>1 DEF Script, Ahead
<1>3. d = b
  BY <1>2, QueueNone
<1>4. b = a
  BY <1>2, NothingStaged, OneNone
<1> QED
  BY <1>1, <1>2, <1>3, <1>4

\* A row stream that met a second result set has shown all of the first one.
LEMMA RefusedIsComplete ==
  ASSUME StreamInv, DeliveryInv, queue = <<>>, pending = NoBlock, refused
  PROVE  Accounted
<1>1. PICK F \in Seq(Event), d \in Nat : Script(F, d) /\ Shows(mode, response, seen, refused, F, d)
  BY EmptiedScript
<1>2. mode = "rows" /\ Good(mode, response, read, F) /\ d <= Len(F) /\ Len(F) \in Nat
  BY <1>1, LenProperties DEF DeliveryInv, PhaseInv, Script
<1>3. PICK h \in 1..d : F[h].k = "start" /\ F[h].i > 0
  BY <1>1, <1>2 DEF Shows
<1>4. h \in 1..Len(F) /\ F[h] \in Event /\ F[h].i \in Nat
  <2>1. h \in 1..Len(F)
    BY <1>2
  <2>2. F[h] \in Event
    BY <2>1, ElementOfSeq
  <2> QED
    BY <2>1, <2>2 DEF Event
<1>5. /\ F[h].i <= SetNo(response, read + 1)
      /\ \A p \in 1..read : RowAt(response, p) /\ SetNo(response, p) < F[h].i => ToldIn(F, h - 1, p)
  BY <1>2, <1>3, <1>4 DEF Good, EventAt, StartAt
<1>6. ASSUME NEW p \in Owed PROVE p \in Delivered
  <2>1. p \in 1..Len(response) /\ RowAt(response, p) /\ SetNo(response, p) = 0
    BY <1>2, OwedWanted
  <2>2. p <= read
    <3> SUFFICES ASSUME ~(p <= read) PROVE FALSE
      OBVIOUS
    <3>1. read + 1 \in Nat \ {0} /\ p \in Nat \ {0} /\ read + 1 <= p
      BY <2>1, SeenFacts
    <3>2. SetNo(response, read + 1) <= SetNo(response, p) /\ SetNo(response, read + 1) \in Nat
      BY <3>1, SetNoGrows, SetNoType
    <3> QED
      BY <1>3, <1>4, <1>5, <2>1, <3>2
  <2>3. p \in 1..read /\ SetNo(response, p) < F[h].i
    BY <1>3, <1>4, <2>1, <2>2, SeenFacts
  <2>4. ToldIn(F, h - 1, p) /\ h - 1 \in Int /\ h - 1 <= d
    BY <1>5, <2>1, <2>3
  <2> QED
    BY <1>1, <1>2, <2>4, ToldIsDelivered
<1>7. Delivered \subseteq Owed
  BY ScriptFaithful DEF EventsFaithful, DeliveredInWireOrder
<1> QED
  BY <1>6, <1>7 DEF Accounted

\* A statement that ended with ReadyForQuery and without an error, and whose
\* channel the caller emptied, has shown all of its response.
LEMMA OkIsComplete ==
  ASSUME StreamInv, DeliveryInv, queue = <<>>, pending = NoBlock, rx # "dropped",
         terminal = "ok", ~refused, ~Interrupted
  PROVE  Accounted
<1>1. PICK F \in Seq(Event), d \in Nat : Script(F, d) /\ Shows(mode, response, seen, refused, F, d)
  BY EmptiedScript
<1>2. result = "ok" /\ todo = <<>> /\ batch = NoBlock /\ rx = "open" /\ ~Halted
  <2>1. result = "ok" /\ drive = "done" /\ rx # "closed"
    BY DEF DeliveryInv, PhaseInv
  <2>2. rx \in {"open", "closed", "dropped"}
    BY DEF StreamInv, TypeOK
  <2> QED
    BY <2>1, <2>2 DEF DeliveryInv, PhaseInv, Halted
<1>3. /\ Good(mode, response, read, F) /\ Complete(mode, response, read, F) /\ Link(mode, F, parse)
      /\ \E e \in Nat : One(F, batch.rows, d, e) /\ Laid(F, TodoTold(todo), e, Len(F))
  BY <1>1, <1>2 DEF Script, Behind
<1>4. d = Len(F)
  <2>1. PICK e \in Nat : One(F, batch.rows, d, e) /\ Laid(F, TodoTold(todo), e, Len(F))
    BY <1>3
  <2>2. Len(F) \in Nat
    BY LenProperties
  <2>3. e = d
    BY <1>2, <2>1, NothingStaged, OneNone
  <2>4. Len(F) = e
    BY <1>2, <2>1, <2>2, TodoNone
  <2> QED
    BY <2>3, <2>4
<1>5. read = Len(response) /\ ~parse.cur /\ ~parse.extra
  <2>1. read > 0 /\ response[read].kind = "ready" /\ ~parse.cur /\ ~parse.extra
    BY <1>2 DEF DeliveryInv, ParseInv
  <2>2. read \in 1..Len(response)
    BY <2>1, SeenFacts
  <2> QED
    BY <2>1, <2>2 DEF DeliveryInv, WireInv
<1>6. ASSUME NEW p \in Owed PROVE p \in Delivered
  <2>1. ToldIn(F, Len(F), p)
    BY <1>3, <1>5, OwedWanted DEF Complete
  <2>2. ToldIn(F, d, p) /\ d \in Int /\ d <= d
    BY <1>4, <2>1
  <2> QED
    BY <1>1, <1>3, <2>2, ToldIsDelivered
<1>7. Delivered \subseteq Owed
  BY ScriptFaithful DEF EventsFaithful, DeliveredInWireOrder
<1>8. ASSUME mode # "events", NEW p \in DOMAIN response, KindAt(p) = "desc" PROVE ~InSet(p) /\ SetOf(p) = 0
  <2>1. p \in 1..read /\ p \in Nat \ {0}
    <3>1. DOMAIN response = 1..Len(response)
      BY LenProperties DEF StreamInv, TypeOK
    <3> QED
      BY <1>5, <3>1, SeenFacts
  <2>2. SetOf(p) = SetNo(response, p) /\ (InSet(p) <=> Inside(response, p))
    BY SetsOnWire
  <2>3. SetNo(response, p) \in Nat
    BY <2>1, SetNoType
  <2> SUFFICES ASSUME Again(response, p) PROVE FALSE
    BY <1>8, <2>2, <2>3 DEF Again, KindAt
  <2>4. parse.index > 1 /\ (~Eventful => parse.extra)
    BY <1>5, <2>1 DEF DeliveryInv, ParseInv
  <2>5. mode = "rows"
    <3>1. mode \in {"events", "rows", "batches"}
      BY StreamAssumption DEF StreamInv, TypeOK
    <3> QED
      BY <1>5, <1>8, <2>4, <3>1 DEF Eventful
  <2>6. Second(F)
    BY <1>3, <2>4, <2>5 DEF Link
  <2>7. refused
    BY <1>1, <1>4, <2>5, <2>6 DEF Second, Shows
  <2> QED
    BY <2>7
<1> QED
  BY <1>6, <1>7, <1>8 DEF Accounted

LEMMA NextComplete ==
  ASSUME StreamInv, DeliveryInv, UninterruptedIsComplete, [Next]_vars
  PROVE  UninterruptedIsComplete'
<1>1. UninterruptedIsComplete <=> (ended = "clean" /\ ~Interrupted => Accounted)
  BY DEF UninterruptedIsComplete, Accounted
<1>2. ASSUME UNCHANGED <<mode, response, seen, refused>>
      PROVE  Accounted' <=> Accounted
  BY <1>2 DEF Accounted, Delivered, Telling, Owed, InSet, SetOf, KindAt
<1>3. CASE PollTerminal
  <2>1. /\ UNCHANGED <<mode, response, seen, refused, cancelled, closing>>
        /\ queue = <<>> /\ pending = NoBlock /\ rx # "dropped"
        /\ ended' = IF terminal = "ok" \/ (refused /\ terminal = "cancelled") THEN "clean" ELSE terminal
    BY <1>3 DEF PollTerminal, Polling, backendVars, driveVars
  <2>2. terminal # "clean"
    BY DEF StreamInv, TypeOK, Outcomes, Results
  <2> SUFFICES ASSUME ended' = "clean", ~Interrupted' PROVE Accounted'
    BY DEF UninterruptedIsComplete, Accounted
  <2>3. ~Interrupted
    BY <2>1 DEF Interrupted
  <2>4. refused \/ terminal = "ok"
    BY <2>1, <2>2
  <2>5. Accounted
    BY <2>1, <2>3, <2>4, RefusedIsComplete, OkIsComplete
  <2> QED
    BY <1>2, <2>1, <2>5
<1>4. ASSUME ended # "no", ended' = ended, UNCHANGED <<mode, response, seen, refused>>, Interrupted => Interrupted'
      PROVE  UninterruptedIsComplete'
  BY <1>1, <1>2, <1>4 DEF UninterruptedIsComplete, Accounted
<1>5. CASE ended = "no" /\ ended' = ended
  BY <1>5 DEF UninterruptedIsComplete
<1>6. CASE ended # "no" /\ ~PollTerminal
  <2>1. drive = "done"
    BY <1>6 DEF DeliveryInv, PhaseInv
  <2>2. CASE UNCHANGED vars
    BY <1>4, <1>6, <2>2 DEF vars, backendVars, driveVars, callerVars, Interrupted
  <2>3. CASE Parser \/ Poll \/ Backend
    <3>1. ~Parser
      BY <2>1 DEF Parser, ReadDesc, ReadStd, ReadRow, ReadComplete, ReadNotice, ReadError,
         ReadReady, ReadFatal, Arrived, Parsing, SendBudget, SendChannel, SendFails, PushFlushes,
         PushAcquires, PushCharges, PushFails, PushAdds, FlushNothing, FlushBudget, FlushChannel,
         FlushFails, At
    <3>2. ~Backend
      BY <2>1 DEF Backend, SendFrame, SendReady, StopStatement, Respond
    <3>3. ~Poll
      BY <1>6 DEF Poll, PollPending, PollRows, PollBatch, PollEvent, PollTerminal, Polling
    <3> QED
      BY <2>3, <3>1, <3>2, <3>3
  <2>4. CASE Drive \/ Deadline \/ CleanupTimeout \/ DropDriver \/ Cancel \/ Close
    BY <2>1, <2>4 DEF Drive, Start, SkipRequest, Return, NoticeInterrupt, NoticeClosed, SendCancel,
       Deadline, CleanupTimeout, DropDriver, Cancel, Close, GiveUp
  <2>5. CASE ReleaseSlot \/ DropStream
    <3>1. UNCHANGED <<mode, response, seen, refused, ended, cancelled, closing>>
      BY <2>5 DEF ReleaseSlot, DropStream, backendVars, driveVars, callerVars
    <3> QED
      BY <1>4, <1>6, <3>1 DEF Interrupted
  <2> QED
    BY <2>2, <2>3, <2>4, <2>5 DEF Next
<1>7. ended' = ended \/ PollTerminal
  <2>1. CASE UNCHANGED vars
    BY <2>1 DEF vars, callerVars
  <2>2. CASE Parser
    BY <2>2 DEF Parser, ReadDesc, ReadStd, ReadRow, ReadComplete, ReadNotice, ReadError,
       ReadReady, ReadFatal, Then, SendBudget, SendChannel, SendFails, PushFlushes, PushAcquires,
       PushCharges, PushFails, PushAdds, FlushNothing, FlushBudget, FlushChannel, FlushFails, callerVars
  <2>3. CASE Drive \/ Deadline \/ CleanupTimeout \/ DropDriver \/ Cancel \/ Close
    BY <2>3 DEF Drive, Start, SkipRequest, Return, NoticeInterrupt, NoticeClosed, SendCancel,
       Deadline, CleanupTimeout, DropDriver, Cancel, Close, GiveUp, End, callerVars
  <2>4. CASE ReleaseSlot \/ Poll \/ DropStream \/ Backend
    BY <2>4 DEF ReleaseSlot, Poll, PollPending, PollRows, PollBatch, PollEvent, YieldRow, DropStream,
       Backend, SendFrame, SendReady, StopStatement, Respond, callerVars
  <2> QED
    BY <2>1, <2>2, <2>3, <2>4 DEF Next
<1> QED
  BY <1>3, <1>5, <1>6, <1>7

\* A stream that ends without an error, and that nobody cancelled or closed, has
\* delivered every row (and to an event stream every notice and tag) that the
\* backend sent, for every limit and schedule; a row or batch stream has also
\* reported a second result set if there was one.
THEOREM StreamComplete == Spec => []UninterruptedIsComplete
<1>1. Init => StreamInv /\ DeliveryInv /\ UninterruptedIsComplete
  <2>1. Init => UninterruptedIsComplete
    BY DEF Init, UninterruptedIsComplete
  <2> QED
    BY <2>1, InitStream, InitDelivery
<1>2. StreamInv /\ DeliveryInv /\ UninterruptedIsComplete /\ [Next]_vars
      => StreamInv' /\ DeliveryInv' /\ UninterruptedIsComplete'
  BY NextStream, NextDelivery, NextComplete
<1> QED
  BY <1>1, <1>2, PTL DEF Spec
=============================================================================
