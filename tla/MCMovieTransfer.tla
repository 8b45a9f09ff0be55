--------------------------- MODULE MCMovieTransfer ---------------------------
EXTENDS MovieTransfer
=============================================================================
