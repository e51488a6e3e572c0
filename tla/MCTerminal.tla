----------------------------- MODULE MCTerminal ----------------------------
EXTENDS Terminal
=============================================================================
