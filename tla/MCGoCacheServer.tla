--------------------------- MODULE MCGoCacheServer ---------------------------
EXTENDS GoCacheServer
=============================================================================
