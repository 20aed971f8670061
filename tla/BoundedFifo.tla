------------------------------ MODULE BoundedFifo ------------------------------
(***************************************************************************)
(* What MpscRing promises its users: a first-in first-out queue of at most *)
(* Capacity values.  MpscRing is shown to implement this specification.    *)
(***************************************************************************)
EXTENDS Naturals, Sequences

CONSTANTS Capacity, Values

VARIABLES
    fifo,   \* the values in the queue, oldest first
    taken   \* the values taken from it so far

fifoVars == <<fifo, taken>>

FifoInit == fifo = <<>> /\ taken = <<>>

Put(v) ==
    /\ Len(fifo) < Capacity
    /\ fifo' = Append(fifo, v)
    /\ UNCHANGED taken

Take ==
    /\ fifo # <<>>
    /\ taken' = Append(taken, Head(fifo))
    /\ fifo' = Tail(fifo)

FifoNext == (\E v \in Values : Put(v)) \/ Take

FifoSpec == FifoInit /\ [][FifoNext]_fifoVars
=============================================================================
