------------------------------ MODULE ReadBuffer ------------------------------
(***************************************************************************)
(* The growable read buffer of the synchronous engine (src/src/buffer.rs). *)
(* Unconsumed bytes lie in buf[start] .. buf[end - 1]; they are moved when *)
(* the buffer is compacted, grown or shrunk, and a read that fails half    *)
(* way must leave them alone.  The socket hands over what has arrived in   *)
(* pieces of any size; a read deadline may end any wait.                   *)
(*                                                                         *)
(* A byte is its position in the stream, so that ByteStream says what      *)
(* every operation has to return.                                          *)
(***************************************************************************)
EXTENDS Integers

CONSTANTS
  Nuls,     \* positions that hold the padding byte 0
  Steady,   \* 65536: initial length, and the length shrink_if_large leaves
  Limit,    \* 262144: shrink_if_large keeps what is not longer
  Chunk,    \* 4096: room pull_available asks for
  MaxLen,   \* MAX_PROTOCOL_PAYLOAD: longer requests are refused
  MaxSent   \* bound: bytes the peer sends

ASSUME BufferAssumption ==
  /\ Nuls \subseteq Nat
  /\ Steady \in Nat \ {0} /\ Limit \in Nat /\ Chunk \in Nat \ {0}
  /\ MaxLen \in Nat /\ MaxSent \in Nat

VARIABLES
  buf, len,    \* the allocation and its length
  start, end,
  op,          \* the operation that waits for bytes
  sent,        \* bytes the peer has sent
  arrived,     \* bytes read from the socket
  got          \* what the last read returned

bufferVars == <<buf, len, start, end>>
vars == <<bufferVars, op, sent, arrived, got>>

Junk == 0 \* vec![0; ..], or bytes left behind by copy_within

TypeOK ==
  /\ len \in Nat /\ buf \in [0..len - 1 -> Nat]
  /\ start \in Nat /\ end \in Nat /\ start <= end /\ end <= len
  /\ op \in [is : {"idle", "pull", "take", "look"}, n : Nat]
  /\ sent \in Nat /\ arrived \in Nat /\ arrived <= sent

Idle == [is |-> "idle", n |-> 0]

\* ReadBuffer::new, or what take() leaves: no allocation at all
Init ==
  /\ len \in {0, Steady} /\ buf = [i \in 0..len - 1 |-> Junk]
  /\ start = 0 /\ end = 0
  /\ op = Idle
  /\ sent = 0 /\ arrived = 0 /\ got = <<>>

-----------------------------------------------------------------------------
Max2(a, b) == IF a >= b THEN a ELSE b
Min2(a, b) == IF a <= b THEN a ELSE b

available == end - start

\* The bytes left, at the front of an allocation of n
Move_unshifted(n) == \* mutant: the front of the allocation is kept
  /\ len' = n
  /\ buf' = [i \in 0..n - 1 |-> IF i < available THEN buf[i] ELSE Junk]
  /\ start' = 0 /\ end' = available
Move(n) ==
  /\ len' = n
  /\ buf' = [i \in 0..n - 1 |-> IF i < available THEN buf[start + i] ELSE Junk]
  /\ start' = 0 /\ end' = available

\* ensure_capacity, when there is not enough room behind end
Grown(needed) == Max2(Max2(2 * len, available + needed), Steady)

EnsureCapacity(needed) ==
  \/ len - end >= needed /\ UNCHANGED bufferVars
  \/ len - end < needed /\ len - available >= needed /\ Move(len)
  \/ len - end < needed /\ len - available < needed /\ Move(Grown(needed))

\* k bytes are read into the room behind end
Fill(k) ==
  /\ buf' = [i \in 0..len - 1 |-> IF end <= i /\ i < end + k THEN arrived + (i - end) + 1
                                  ELSE buf[i]]
  /\ end' = end + k
  /\ arrived' = arrived + k
  /\ UNCHANGED <<len, start>>

-----------------------------------------------------------------------------
\* The peer
Send == /\ sent < MaxSent
        /\ sent' = sent + 1
        /\ UNCHANGED <<bufferVars, op, arrived, got>>

\* ensure_data for skip, read_byte, read_i32, read_bytes, read_bytes_into (take)
\* or peek_bytes (look): room for n bytes from start on, before the first read
MakeRoom_none(n) == UNCHANGED bufferVars \* mutant: no room is made
MakeRoom(n) == IF available < n /\ len - start < n THEN EnsureCapacity(start + n)
               ELSE UNCHANGED bufferVars

Ask(kind, n) ==
  /\ op = Idle
  /\ op' = [is |-> kind, n |-> n]
  /\ MakeRoom(n)
  /\ UNCHANGED <<sent, arrived, got>>

Waits == op.is \in {"take", "look"} /\ available < op.n

\* One read of its loop
ReadMore(k) ==
  /\ Waits
  /\ k <= Min2(len - end, sent - arrived)
  /\ Fill(k)
  /\ UNCHANGED <<op, sent, got>>

\* The socket ends, fails, or the deadline passes: an error, nothing consumed
ReadFails == /\ Waits
             /\ op' = Idle
             /\ UNCHANGED <<bufferVars, sent, arrived, got>>

Returned(n) == got' = [i \in 1..n |-> buf[start + i - 1]]

Done == op.is \in {"take", "look"} /\ available >= op.n /\ op' = Idle

Take == /\ op.is = "take" /\ Done
        /\ Returned(op.n)
        /\ start' = start + op.n
        /\ UNCHANGED <<buf, len, end, sent, arrived>>

Look == /\ op.is = "look" /\ Done
        /\ Returned(op.n)
        /\ UNCHANGED <<bufferVars, sent, arrived>>

\* advance: no further than end
Advance(n) ==
  /\ op = Idle
  /\ start' = Min2(start + n, end)
  /\ Returned(Min2(n, available))
  /\ UNCHANGED <<buf, len, end, op, sent, arrived>>

\* discard_leading_nulls
NulRun(n) == \A i \in start..start + n - 1 : buf[i] \in Nuls

DiscardLeadingNulls ==
  /\ op = Idle
  /\ \E n \in 0..available :
       /\ NulRun(n)
       /\ n < available => buf[start + n] \notin Nuls
       /\ start' = start + n
  /\ UNCHANGED <<buf, len, end, op, sent, arrived, got>>

\* pull_available: room is made before every read, the last one finds nothing
Pull == /\ op = Idle
        /\ op' = [is |-> "pull", n |-> 0]
        /\ EnsureCapacity(Chunk)
        /\ UNCHANGED <<sent, arrived, got>>

PullMore(k) == /\ op.is = "pull"
               /\ k <= Min2(len - end, sent - arrived)
               /\ Fill(k)
               /\ op' = [op EXCEPT !.n = 1]
               /\ UNCHANGED <<sent, got>>

PullRoom == /\ op.is = "pull" /\ op.n = 1
            /\ op' = [op EXCEPT !.n = 0]
            /\ EnsureCapacity(Chunk)
            /\ UNCHANGED <<sent, arrived, got>>

PullEnd == /\ op.is = "pull" /\ op.n = 0
           /\ op' = Idle
           /\ UNCHANGED <<bufferVars, sent, arrived, got>>

\* shrink_if_large, once per drained response
ShrinkIfLarge ==
  /\ op = Idle
  /\ len > Limit /\ available <= Steady
  /\ Move(Max2(Steady, available))
  /\ UNCHANGED <<op, sent, arrived, got>>

Next ==
  \/ Send
  \/ \E kind \in {"take", "look"}, n \in 0..MaxLen : Ask(kind, n)
  \/ \E k \in 1..MaxSent : ReadMore(k) \/ PullMore(k)
  \/ ReadFails \/ Take \/ Look
  \/ \E n \in 0..MaxLen : Advance(n)
  \/ DiscardLeadingNulls \/ Pull \/ PullRoom \/ PullEnd \/ ShrinkIfLarge

Spec == Init /\ [][Next]_vars

-----------------------------------------------------------------------------
(* Properties *)

\* Whatever is pulled, compacted, grown, shrunk or cut short by a failed read,
\* callers see the peer's bytes in order and each once.
Stream == INSTANCE ByteStream WITH taken <- arrived - available
StreamSpec == Stream!Spec

\* read() is never offered an empty slice, whose Ok(0) would be taken for the
\* end of the socket.
RoomToRead == /\ Waits => end < len
              /\ op.is = "pull" /\ op.n = 0 => end < len
===============================================================================
