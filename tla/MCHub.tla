-------------------------------- MODULE MCHub --------------------------------
\* Constants of the Hub run.
EXTENDS Hub

CONSTANTS c1, c2
=============================================================================
