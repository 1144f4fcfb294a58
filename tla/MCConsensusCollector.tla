------------------------- MODULE MCConsensusCollector -------------------------
EXTENDS ConsensusCollector

CONSTANTS v1, v2
================================================================================
