\* The timings of the code, in seconds, and frames of one and of two seconds; the fades
\* of the code last four, here five, since a frame must be shorter than half a fade.
SPECIFICATION FairSpec
CONSTANTS
    SpawnTiming <- MCSpawnTiming
    BossHealth <- MCBossHealth
    SceneTiming <- MCSceneTiming
    EnemyTiming <- MCEnemyTiming
    Approach = 9
    FADE_IN_TIME = 5
    FADE_OUT_TIME = 5
    TimeCap = 65
    MaxDt = 2
INVARIANTS
    FollowersAgree
    WavesRestart
PROPERTIES
    ImplementsProgress
    ImplementsFairProgress
    BossFightsAlone
    BossComes
