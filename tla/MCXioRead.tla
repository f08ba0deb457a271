----------------------------- MODULE MCXioRead -----------------------------
EXTENDS XioRead
=============================================================================
