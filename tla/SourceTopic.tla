------------------------------ MODULE SourceTopic ------------------------------
(***************************************************************************)
(* Positions in the Kafka topic inference.requests.  Kafka is outside the  *)
(* repository; the code uses a record's (partition, offset) as its         *)
(* identity: KafkaMessage, OutboxRecord, RecoveredRequest and the          *)
(* SourcePosition of RequestIngestor all carry the pair.                   *)
(***************************************************************************)
EXTENDS Integers

CONSTANTS
    Partitions,  \* partition ids of inference.requests
    MaxOffset,   \* bound: every partition holds the offsets 0 .. MaxOffset
    None         \* SQL NULL, an empty optional, an absent map entry

ASSUME PartitionsAssumption == Partitions \subseteq Nat
ASSUME MaxOffsetAssumption == MaxOffset \in Nat
ASSUME NonePartition == None \notin Partitions

Offsets == 0 .. MaxOffset
Position == [partition : Partitions, offset : Offsets]
At(p, o) == [partition |-> p, offset |-> o]
=============================================================================
