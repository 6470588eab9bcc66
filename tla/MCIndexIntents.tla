--------------------------- MODULE MCIndexIntents ---------------------------
EXTENDS IndexIntents
CONSTANTS w1, w2
=============================================================================
