-------------------------- MODULE MCGraphProjection --------------------------
EXTENDS GraphProjection, TLC
=============================================================================
