--------------------------- MODULE MCSessionStream ---------------------------
\* SessionStream for TLC: the constants come from the configurations.
EXTENDS SessionStream
=============================================================================
