------------------------- MODULE MCGlobusCallback -------------------------
EXTENDS GlobusCallback
=============================================================================
