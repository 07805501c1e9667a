----------------------------- MODULE MCBookFeed -----------------------------
\* Constants of the BookFeed run.
EXTENDS BookFeed

CONSTANT b1
=============================================================================
