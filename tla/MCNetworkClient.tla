-------------------------- MODULE MCNetworkClient --------------------------
EXTENDS NetworkClient

\* The end of main() is the only legal halt: any other one is a deadlock.
Done == main = "done" /\ UNCHANGED vars
FairSpecUntilDone == Init /\ [][Next \/ Done]_vars /\ Fairness
=============================================================================
