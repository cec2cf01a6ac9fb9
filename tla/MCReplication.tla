---------------------------- MODULE MCReplication ----------------------------
EXTENDS Replication, TLC
Clients == Permutations(Client)
=============================================================================
