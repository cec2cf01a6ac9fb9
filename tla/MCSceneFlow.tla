---------------------------- MODULE MCSceneFlow ----------------------------
EXTENDS SceneFlow

\* The constants of the code, in seconds (1.6 s, 2.5 s and 0.8 s are rounded up:
\* clocks that move by whole seconds do not see the difference).
MCSpawnTiming == [b \in Boss |-> IF b = "Shrimp" THEN 55 ELSE 63]
MCSceneTiming ==
    [w \in WaveAI |-> [l \in Level |->
        CASE l = "LevelTwo" -> 50
          [] l = "LevelOne" /\ w = "Robot" -> 58
          [] OTHER -> 60]]
MCEnemyTiming ==
    [w \in WaveAI |-> [l \in Level |->
        CASE l = "LevelOne" -> IF w = "Bydos" THEN 2 ELSE 3
          [] l = "LevelTwo" -> 2
          [] OTHER -> 1]]

\* Bound: the code has 300, 500 and 12.
MCBossHealth == [b \in Boss |-> IF b = "Gorgia" THEN 2 ELSE 1]
=============================================================================
