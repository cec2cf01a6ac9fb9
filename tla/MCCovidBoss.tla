---------------------------- MODULE MCCovidBoss ----------------------------
EXTENDS CovidBoss
=============================================================================
