---------------------------- MODULE MCEventStream ----------------------------
(* Instances of EventStream for TLC: the frames a backend may send. *)
EXTENDS EventStream

Frame(k, n) == [kind |-> k, size |-> n]

\* With BatchBytes = 3 and StreamBytes = 6: a small row, and one larger than a
\* block and than the budget.
Small == Frame("row", 1)
Huge  == Frame("row", 7)
Desc  == Frame("desc", 0)
Done  == Frame("complete", 0)

\* Result sets, tags and notices, and a frame that cannot be read
EventFrames == {Desc, Small, Done, Frame("notice", 2), Frame("torn", 0)}

\* Sizes, and both row formats
SizeFrames == {Desc, Small, Huge, Frame("notice", 7), Frame("std", 0), Frame("dbos", 1)}
=============================================================================
