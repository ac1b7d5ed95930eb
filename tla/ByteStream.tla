------------------------------ MODULE ByteStream ------------------------------
(***************************************************************************)
(* What the protocol code expects of its read buffer: the bytes the peer   *)
(* sent, in order, each consumed once.  A byte is its position in the      *)
(* stream, counted from 1.                                                 *)
(***************************************************************************)
EXTENDS Integers

CONSTANT Nuls  \* positions that hold the padding byte 0

VARIABLES
  sent,   \* bytes the peer has sent
  taken,  \* bytes consumed
  got     \* what the last read returned

vars == <<sent, taken, got>>

Init == sent = 0 /\ taken = 0 /\ got = <<>>

Send == sent' = sent + 1 /\ UNCHANGED <<taken, got>>

\* The next n bytes, consumed or only looked at
Next_n(n) == /\ taken + n <= sent
             /\ got' = [i \in 1..n |-> taken + i]
             /\ UNCHANGED sent
Take(n) == Next_n(n) /\ taken' = taken + n
Look(n) == Next_n(n) /\ taken' = taken

\* Some padding is passed over
Pad(n) == /\ taken + n <= sent
          /\ \A i \in 1..n : taken + i \in Nuls
          /\ taken' = taken + n
          /\ UNCHANGED <<sent, got>>

Next == Send \/ \E n \in 0..sent : Take(n) \/ Look(n) \/ Pad(n)

Spec == Init /\ [][Next]_vars
===============================================================================
