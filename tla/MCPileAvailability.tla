------------------------- MODULE MCPileAvailability -------------------------
EXTENDS PileAvailability, TLC

CONSTANTS a

=============================================================================
