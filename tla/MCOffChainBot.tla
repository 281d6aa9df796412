--------------------------- MODULE MCOffChainBot ----------------------------
EXTENDS OffChainBot
=============================================================================
