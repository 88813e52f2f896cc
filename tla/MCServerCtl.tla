----------------------------- MODULE MCServerCtl -----------------------------
EXTENDS ServerCtl
=============================================================================
