----------------------------- MODULE MCLocalSession -----------------------------
EXTENDS LocalSession
MCFileOrder == <<"db", "wal">>
=============================================================================
