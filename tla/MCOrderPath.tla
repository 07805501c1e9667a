----------------------------- MODULE MCOrderPath -----------------------------
\* Constants of the OrderPath runs.
EXTENDS OrderPath

CONSTANTS a1, a2
=============================================================================
