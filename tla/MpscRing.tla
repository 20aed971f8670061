-------------------------------- MODULE MpscRing --------------------------------
(***************************************************************************)
(* MpscRing (cpp/include/infersched/concurrency/mpsc_ring.hpp): a bounded  *)
(* lock-free queue for many producers and one consumer.  Every atomic      *)
(* access and every access of a cell's value is a step of its own.         *)
(*                                                                         *)
(* A cell's value is a plain optional: the acquire load of the cell's      *)
(* sequence number that precedes each access and the release store that    *)
(* follows it order the accesses, provided they exclude each other, which  *)
(* SlotsAreExclusive states.  Abstracted: positions do not wrap (2^64      *)
(* pushes), so position & mask_ is position % Capacity.                    *)
(***************************************************************************)
EXTENDS Integers, Sequences

CONSTANTS
    Producers,  \* threads that call TryPush
    Capacity,   \* capacity_, a power of two
    MaxCalls,   \* bound: calls of TryPush by one producer
    None        \* an empty optional

ASSUME RingAssumption == Capacity \in Nat \ {0, 1} /\ MaxCalls \in Nat

Values == [producer : Producers, call : 1 .. MaxCalls]
Cells == 0 .. Capacity - 1

ASSUME NoneIsNoValue == None \notin Values

VARIABLES
    sequence,   \* [Cells -> Nat]: the sequence number of each cell
    value,      \* [Cells -> Values \cup {None}]
    enqueue,    \* enqueue_position_
    dequeue,    \* dequeue_position_
    pc,         \* where each producer is inside TryPush
    position,   \* its local of that name
    calls,      \* calls it has made so far
    consumer,   \* where the consumer is inside TryPop
    reserved,   \* history: values in the order their cells were claimed
    popped      \* history: what TryPop found in the cells it took

producerVars == <<pc, position, calls>>
ringVars == <<sequence, value, enqueue, dequeue, producerVars, consumer, reserved, popped>>

Cell(i) == i % Capacity
Argument(p) == [producer |-> p, call |-> calls[p]]

RingTypeOK ==
    /\ sequence \in [Cells -> Nat]
    /\ value \in [Cells -> Values \cup {None}]
    /\ enqueue \in Nat /\ dequeue \in Nat
    /\ pc \in [Producers -> {"idle", "sequence", "claim", "emplace", "publish"}]
    /\ position \in [Producers -> Nat]
    /\ calls \in [Producers -> 0 .. MaxCalls]
    /\ consumer \in {"idle", "take", "release"}
    /\ reserved \in Seq(Values) /\ popped \in Seq(Values \cup {None})

RingInit ==
    /\ sequence = [c \in Cells |-> c]
    /\ value = [c \in Cells |-> None]
    /\ enqueue = 0 /\ dequeue = 0
    /\ pc = [p \in Producers |-> "idle"]
    /\ position = [p \in Producers |-> 0]
    /\ calls = [p \in Producers |-> 0]
    /\ consumer = "idle"
    /\ reserved = <<>> /\ popped = <<>>

-----------------------------------------------------------------------------
(* TryPush. *)

CallPush(p) ==
    /\ pc[p] = "idle" /\ calls[p] < MaxCalls
    /\ calls' = [calls EXCEPT ![p] = @ + 1]
    /\ position' = [position EXCEPT ![p] = enqueue]
    /\ pc' = [pc EXCEPT ![p] = "sequence"]
    /\ UNCHANGED <<sequence, value, enqueue, dequeue, consumer, reserved, popped>>

\* The cell's sequence number minus the position this producer goes for.
Difference(p) == sequence[Cell(position[p])] - position[p]

CellIsFree(p) ==
    /\ pc[p] = "sequence" /\ Difference(p) = 0
    /\ pc' = [pc EXCEPT ![p] = "claim"]
    /\ UNCHANGED <<sequence, value, enqueue, dequeue, position, calls, consumer, reserved, popped>>

RingIsFull(p) ==
    /\ pc[p] = "sequence" /\ Difference(p) < 0
    /\ pc' = [pc EXCEPT ![p] = "idle"]
    /\ UNCHANGED <<sequence, value, enqueue, dequeue, position, calls, consumer, reserved, popped>>

CellIsTaken(p) ==
    /\ pc[p] = "sequence" /\ Difference(p) > 0
    /\ position' = [position EXCEPT ![p] = enqueue]
    /\ UNCHANGED <<sequence, value, enqueue, dequeue, pc, calls, consumer, reserved, popped>>

\* Mutant: the position is stored without comparing it first.
StoreWins(p) == TRUE
CompareExchangeWins(p) == enqueue = position[p]

Claim(p) ==
    /\ pc[p] = "claim" /\ CompareExchangeWins(p)
    /\ enqueue' = position[p] + 1
    /\ reserved' = Append(reserved, Argument(p))
    /\ pc' = [pc EXCEPT ![p] = "emplace"]
    /\ UNCHANGED <<sequence, value, dequeue, position, calls, consumer, popped>>

\* compare_exchange_weak may also fail although the position has not moved.
ClaimFails(p) ==
    /\ pc[p] = "claim"
    /\ position' = [position EXCEPT ![p] = enqueue]
    /\ pc' = [pc EXCEPT ![p] = "sequence"]
    /\ UNCHANGED <<sequence, value, enqueue, dequeue, calls, consumer, reserved, popped>>

Emplace(p) ==
    /\ pc[p] = "emplace"
    /\ value' = [value EXCEPT ![Cell(position[p])] = Argument(p)]
    /\ pc' = [pc EXCEPT ![p] = "publish"]
    /\ UNCHANGED <<sequence, enqueue, dequeue, position, calls, consumer, reserved, popped>>

\* The sequence number that publishes a cell; mutant: it is not advanced.
SameNumber(p) == position[p]
PublishedNumber(p) == position[p] + 1

Publish(p) ==
    /\ pc[p] = "publish"
    /\ sequence' = [sequence EXCEPT ![Cell(position[p])] = PublishedNumber(p)]
    /\ pc' = [pc EXCEPT ![p] = "idle"]
    /\ UNCHANGED <<value, enqueue, dequeue, position, calls, consumer, reserved, popped>>

-----------------------------------------------------------------------------
(* TryPop.  Finding the cell not yet published, it returns nothing. *)

\* Mutant: any cell that is not a lap behind.
CellIsNotBehind == sequence[Cell(dequeue)] >= dequeue
CellIsPublished == sequence[Cell(dequeue)] = dequeue + 1

CallPop ==
    /\ consumer = "idle" /\ CellIsPublished
    /\ consumer' = "take"
    /\ UNCHANGED <<sequence, value, enqueue, dequeue, producerVars, reserved, popped>>

TakeValue ==
    /\ consumer = "take"
    /\ popped' = Append(popped, value[Cell(dequeue)])
    /\ value' = [value EXCEPT ![Cell(dequeue)] = None]
    /\ consumer' = "release"
    /\ UNCHANGED <<sequence, enqueue, dequeue, producerVars, reserved>>

\* The cell's next sequence number, one lap on; mutant: off by one.
NextLapEarly == dequeue + Capacity - 1
NextLap == dequeue + Capacity

ReleaseCell ==
    /\ consumer = "release"
    /\ sequence' = [sequence EXCEPT ![Cell(dequeue)] = NextLap]
    /\ dequeue' = dequeue + 1
    /\ consumer' = "idle"
    /\ UNCHANGED <<value, enqueue, producerVars, reserved, popped>>

Push(p) ==
    \/ CallPush(p) \/ CellIsFree(p) \/ RingIsFull(p) \/ CellIsTaken(p) \/ Claim(p)
    \/ ClaimFails(p) \/ Emplace(p) \/ Publish(p)
TryPop == CallPop \/ TakeValue \/ ReleaseCell

RingNext == (\E p \in Producers : Push(p)) \/ TryPop

RingSpec == RingInit /\ [][RingNext]_ringVars

\* A producer that has claimed a cell goes on, and the consumer keeps calling
\* TryPop.  No producer is made to win a compare_exchange.
FairRingSpec ==
    /\ RingSpec
    /\ \A p \in Producers : WF_ringVars(Emplace(p)) /\ WF_ringVars(Publish(p))
    /\ WF_ringVars(TryPop)

-----------------------------------------------------------------------------
(* Properties. *)

Writing(p) == pc[p] \in {"emplace", "publish"}

\* Nobody touches a cell's value while another does: the producers that hold a
\* claim hold different cells, and none holds the cell the consumer is reading.
SlotsAreExclusive ==
    /\ \A p, q \in Producers :
           Writing(p) /\ Writing(q) /\ p # q => Cell(position[p]) # Cell(position[q])
    /\ \A p \in Producers :
           Writing(p) /\ consumer # "idle" => Cell(position[p]) # Cell(dequeue)

\* TryPush gives a value up only when the ring really is full, however stale the
\* position it started from.
RejectedOnlyWhenFull ==
    [][\A p \in Producers : RingIsFull(p) => enqueue - dequeue >= Capacity]_ringVars

\* The ring is a bounded FIFO in the order in which cells are claimed: nothing is
\* lost, duplicated, reordered or held beyond Capacity.
Fifo == INSTANCE BoundedFifo WITH
    fifo <- SubSeq(reserved, Len(popped) + 1, Len(reserved)),
    taken <- popped
ImplementsFifo == Fifo!FifoSpec

\* Every value whose cell was claimed is popped, although producers publish in
\* any order and the consumer sees nothing until the oldest claim is published.
ClaimedIsPopped ==
    \A v \in Values : (\E i \in 1 .. Len(reserved) : reserved[i] = v)
                          ~> (\E i \in 1 .. Len(popped) : popped[i] = v)
=============================================================================
