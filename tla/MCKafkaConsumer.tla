--------------------------- MODULE MCKafkaConsumer ---------------------------
EXTENDS KafkaConsumer, TLC
Symmetry == Permutations(Members)
=============================================================================
