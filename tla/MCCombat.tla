------------------------------ MODULE MCCombat ------------------------------
EXTENDS Combat, TLC

\* Ids of entities are interchangeable: any dead one may be taken.
Perms == Permutations(Entity)
=============================================================================
