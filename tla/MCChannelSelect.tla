--------------------------- MODULE MCChannelSelect ---------------------------
(* Instances of ChannelSelect for TLC: two channels, one without a buffer and *)
(* one with a buffer for one item.                                            *)
EXTENDS ChannelSelect, TLC

CONSTANTS Direct, Buffered

Push(ch) == [channel |-> ch, opcode |-> "push"]
Pop(ch) == [channel |-> ch, opcode |-> "pop"]

TwoChannels == {Direct, Buffered}
Capacities == [ch \in TwoChannels |-> IF ch = Direct THEN 0 ELSE 1]

\* Selections that never name both sides of a channel.
OneSided == {<<Pop(Direct), Pop(Buffered)>>, <<Push(Buffered), Push(Direct)>>,
             <<Push(Direct), Pop(Buffered)>>}

\* Selections whose last request is on the channel that gets closed.
ClosedLast == {<<Pop(Buffered), Pop(Direct)>>, <<Push(Buffered), Push(Direct)>>,
               <<Pop(Buffered), Push(Direct)>>}

Symmetry == Permutations(Coroutines)
=============================================================================
