-------------------------- MODULE MCNetworkServer --------------------------
EXTENDS NetworkServer, TLC

Symmetry == Permutations(Client) \cup Permutations(Peer)
=============================================================================
