--------------------------- MODULE MC_MmapSocket ---------------------------
EXTENDS MmapSocket

MCClients == {"c1", "c2"}

=============================================================================
