----------------------------- MODULE MCGfsData -----------------------------
EXTENDS GfsData
=============================================================================
