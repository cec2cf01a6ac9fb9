-------------------------- MODULE SceneFlowProofs --------------------------
(***************************************************************************)
(* Proofs about SceneFlow, for all timings, healths and lengths of frames  *)
(* that the assumptions allow.  FlowInv relates the scene, the level       *)
(* counter of the fade and the three bosses: a boss of an earlier level    *)
(* has fallen, the boss of this level stands or is still to come, and no   *)
(* later boss has been seen.  FollowInv adds what the systems that watch   *)
(* the scene know of it: how far behind the scene manager, the background  *)
(* and the waves may be at each place of the frame.                        *)
(***************************************************************************)
EXTENDS SceneFlow, TLAPS

Number(b) == CASE b = "Gorgia" -> 1 [] b = "Shrimp" -> 2 [] b = "Covid" -> 3

Fallen(b) == \/ Number(b) < _currentLevel
             \/ Number(b) = _currentLevel /\ currentScene = "SceneTransition"

\* The scene and the fade's counter agree.
ScenesAgree ==
    /\ currentScene = "LevelOne" => _currentLevel = 1
    /\ currentScene = "LevelTwo" => _currentLevel = 2
    /\ currentScene = "LevelThree" => _currentLevel = 3
    /\ currentScene = "CreditScene" <=> _currentLevel = 4
    /\ ~(_fadingIn /\ _fadingOut)

\* A boss stands only in its level; it leaves when it has fallen.
BossesInTurn ==
    \A b \in Boss :
        /\ Number(b) > _currentLevel => ~_bossSpawned[b]
        /\ Fallen(b) => _bossSpawned[b] /\ entity[b] # "visible"
        /\ ~Fallen(b) /\ _bossSpawned[b] => entity[b] = "visible"
        /\ ~_bossSpawned[b] => entity[b] = "none"

\* A standing boss has hits left, but for the shrimp in the frame of its last;
\* the shrimp is hit only in its place.
Hearts ==
    /\ \A b \in {"Gorgia", "Covid"} : entity[b] = "visible" => hp[b] > 0
    /\ hit["Shrimp"] => inPosition
    /\ inPosition => _bossSpawned["Shrimp"]

FlowInv == TypeOK /\ ScenesAgree /\ BossesInTurn /\ Hearts

-----------------------------------------------------------------------------

LEMMA FlowInit == Init => FlowInv
<1> USE TimingAssumption
<1>1. Init => TypeOK
  <2> SUFFICES ASSUME Init PROVE TypeOK
    OBVIOUS
  <2>1. _scenesStack \in Seq(SceneName)
    BY DEF Init
  <2>2. hp \in [Boss -> Nat] /\ entity \in [Boss -> {"none", "visible", "hidden"}]
    BY DEF Init
  <2>3. travel \in 0..Approach
    BY DEF Init
  <2>4. /\ hit \in [Boss -> BOOLEAN] /\ _bossSpawned \in [Boss -> BOOLEAN]
        /\ clock \in [Boss -> 0..TimeCap]
    BY DEF Init
  <2>5. _spawnTime \in [WaveAI -> 0..TimeCap] /\ _sceneTime \in [WaveAI -> 0..TimeCap]
    BY DEF Init
  <2>6. /\ currentScene \in SceneName /\ _lastSceneName \in SceneName \cup {"none"}
        /\ _parallaxScene \in SceneName \cup {"none"} /\ background \in Level \cup {"none"}
    BY DEF Init, SceneName, Level
  <2>7. _fadeTime \in 0..(FADE_IN_TIME + FADE_OUT_TIME) /\ dt \in 0..MaxDt
    BY DEF Init
  <2>8. /\ pc \in {"frame", "SceneManager", "CovBoss", "Shrimp", "Gorgia", "Collision",
                   "Bydos", "Robot", "Credit", "Parallax", "Fade"}
        /\ _currentLevel \in 1..4 /\ texts \in Nat
    BY DEF Init
  <2>9. /\ _fadingIn \in BOOLEAN /\ _fadingOut \in BOOLEAN
        /\ clientConnected \in BOOLEAN /\ isResetting \in BOOLEAN
        /\ inPosition \in BOOLEAN /\ _textSpawned \in BOOLEAN
    BY DEF Init
  <2> QED
    BY <2>1, <2>2, <2>3, <2>4, <2>5, <2>6, <2>7, <2>8, <2>9, Zenon DEF TypeOK
<1>2. Init => ScenesAgree /\ BossesInTurn /\ Hearts
  BY DEF Init, ScenesAgree, BossesInTurn, Hearts, Fallen, Number, Boss
<1> QED BY <1>1, <1>2 DEF FlowInv

-----------------------------------------------------------------------------
(* Preservation, group by group.                                            *)

\* The type of what a clock shows after a frame.
LEMMA AdvancedType ==
    ASSUME NEW t \in 0..TimeCap, dt \in 0..MaxDt
    PROVE  Advanced(t) \in 0..TimeCap
BY TimingAssumption DEF Advanced

LEMMA QuietSystems ==
    ASSUME FlowInv,
           BeginFrame \/ SceneManagerSystem \/ CollisionSystem
             \/ CreditSceneSystem \/ ParallaxSystem
    PROVE  FlowInv'
<1> USE TimingAssumption DEF FlowInv
<1>1. CASE BeginFrame
  <2>1. clientConnected' \in BOOLEAN
    BY <1>1, Zenon DEF BeginFrame, TypeOK
  <2>2. dt' \in 1..MaxDt \/ dt' = 0
    BY <1>1, Zenon DEF BeginFrame
  <2>3. TypeOK'
    BY <1>1, <2>1, <2>2 DEF BeginFrame, At, TypeOK, sceneVars, managerVars, fadeVars,
       bossVars, waveVars, shownVars
  <2>4. ScenesAgree' /\ BossesInTurn' /\ Hearts'
    BY <1>1 DEF BeginFrame, ScenesAgree, BossesInTurn, Hearts, Fallen,
       sceneVars, fadeVars, bossVars
  <2> QED BY <2>3, <2>4
<1>2. CASE SceneManagerSystem
  <2>1. _scenesStack' \in Seq(SceneName)
    BY <1>2 DEF SceneManagerSystem, TypeOK
  <2> QED
    BY <1>2, <2>1 DEF SceneManagerSystem, At, TypeOK, ScenesAgree, BossesInTurn, Hearts,
       Fallen, mainVars, fadeVars, bossVars, waveVars, shownVars
<1>3. CASE CollisionSystem
  BY <1>3 DEF CollisionSystem, At, TypeOK, ScenesAgree, BossesInTurn, Hearts, Fallen, Boss,
     bossStep, mainVars, managerVars, fadeVars, waveVars, shownVars
<1>4. CASE CreditSceneSystem
  BY <1>4 DEF CreditSceneSystem, At, TypeOK, ScenesAgree, BossesInTurn, Hearts, Fallen,
     mainVars, sceneVars, managerVars, fadeVars, bossVars, waveVars
<1>5. CASE ParallaxSystem
  BY <1>5 DEF ParallaxSystem, setLevel, At, TypeOK, ScenesAgree, BossesInTurn, Hearts,
     Fallen, SceneName, mainVars, sceneVars, managerVars, fadeVars, bossVars, waveVars
<1> QED BY <1>1, <1>2, <1>3, <1>4, <1>5

LEMMA Waves ==
    ASSUME FlowInv, BydosAI \/ RobotAI
    PROVE  FlowInv'
<1> USE TimingAssumption DEF FlowInv
<1> SUFFICES ASSUME NEW w \in WaveAI, NEW next \in {"Robot", "Credit"}, Wave(w, next)
             PROVE  FlowInv'
  BY DEF BydosAI, RobotAI, WaveAI
<1>1. _sceneTime' \in [WaveAI -> 0..TimeCap]
  BY DEF Wave, resetScene, TypeOK
<1>2. _spawnTime' \in [WaveAI -> 0..TimeCap]
  <2>1. Advanced(_spawnTime[w]) \in 0..TimeCap
    BY AdvancedType DEF TypeOK
  <2> QED BY <2>1 DEF Wave, TypeOK
<1>3. TypeOK'
  BY <1>1, <1>2 DEF Wave, At, TypeOK, mainVars, sceneVars, managerVars, fadeVars,
     bossVars, shownVars
<1>4. ScenesAgree' /\ BossesInTurn' /\ Hearts'
  BY DEF Wave, ScenesAgree, BossesInTurn, Hearts, Fallen, sceneVars, fadeVars, bossVars
<1> QED BY <1>3, <1>4

LEMMA FadeKeeps ==
    ASSUME FlowInv, Fade
    PROVE  FlowInv'
<1> USE TimingAssumption, FramesAssumption DEF FlowInv
<1>1. CASE FadeWaits
  <2>1. TypeOK'
    BY <1>1 DEF FadeWaits, At, TypeOK, fadeStep, mainVars, managerVars, fadeVars,
       bossVars, waveVars, shownVars
  <2>2. ScenesAgree' /\ BossesInTurn' /\ Hearts'
    BY <1>1 DEF FadeWaits, ScenesAgree, BossesInTurn, Hearts, Fallen, fadeStep,
       fadeVars, bossVars
  <2> QED BY <2>1, <2>2
<1>2. CASE FadeOut
  <2>1. UNCHANGED <<currentScene, _currentLevel, bossVars>>
    BY <1>2 DEF FadeOut, fadeStep
  <2>2. /\ _fadeTime' \in 0..(FADE_IN_TIME + FADE_OUT_TIME)
        /\ _fadingIn' \in BOOLEAN /\ _fadingOut' \in BOOLEAN
        /\ ~(_fadingIn' /\ _fadingOut')
    <3>1. CASE _fadeTime + dt >= FADE_OUT_TIME
      <4>1. /\ _fadingOut' = FALSE /\ _fadeTime' = 0 /\ _fadingIn' = (_currentLevel = 1)
        BY <1>2, <3>1 DEF FadeOut
      <4>2. _fadingIn' \in BOOLEAN /\ _fadingOut' \in BOOLEAN /\ ~_fadingOut'
        BY <4>1, Zenon
      <4>3. 0 \in 0..(FADE_IN_TIME + FADE_OUT_TIME)
        OBVIOUS
      <4> QED BY <4>1, <4>2, <4>3, Zenon
    <3>2. CASE ~(_fadeTime + dt >= FADE_OUT_TIME)
      BY <1>2, <3>2 DEF FadeOut, TypeOK
    <3> QED BY <3>1, <3>2
  <2>3. TypeOK'
    BY <1>2, <2>1, <2>2 DEF FadeOut, At, TypeOK, fadeStep, mainVars, managerVars,
       bossVars, waveVars, shownVars
  <2>4. ScenesAgree' /\ BossesInTurn' /\ Hearts'
    BY <2>1, <2>2 DEF ScenesAgree, BossesInTurn, Hearts, Fallen, bossVars
  <2> QED BY <2>3, <2>4
<1>3. CASE FadeIn
  <2> DEFINE time == IF _fadingIn THEN _fadeTime + dt ELSE dt
  <2>1. time \in Nat
    BY DEF TypeOK
  <2>4. /\ pc' = "frame"
        /\ UNCHANGED <<mainVars, isResetting, managerVars, bossVars, waveVars, shownVars>>
    BY <1>3 DEF FadeIn, At, fadeStep
  <2>5. IF time >= FADE_IN_TIME
        THEN _fadingIn' = FALSE /\ _fadingOut' = TRUE /\ _fadeTime' = 0 /\ changeScene
        ELSE /\ _fadingIn' = TRUE /\ _fadeTime' = time
             /\ UNCHANGED <<currentScene, _fadingOut, _currentLevel>>
    BY <1>3, Zenon DEF FadeIn
  <2> HIDE DEF time
  <2>2. CASE ~(time >= FADE_IN_TIME)
    <3>1. /\ UNCHANGED <<currentScene, _currentLevel, bossVars, _fadingOut>>
          /\ _fadingIn' = TRUE /\ _fadeTime' = time
      BY <2>2, <2>4, <2>5, Zenon
    <3>2. ~_fadingOut
      BY <1>3 DEF FadeIn, ScenesAgree
    <3>3. TypeOK'
      <4>1. /\ _fadingIn' \in BOOLEAN /\ _fadingOut' \in BOOLEAN
            /\ _currentLevel' \in 1..4 /\ currentScene' \in SceneName
        BY <3>1, Zenon DEF TypeOK
      <4>2. _fadeTime' \in 0..(FADE_IN_TIME + FADE_OUT_TIME)
        BY <2>1, <2>2, <3>1
      <4> QED
        BY <2>4, <4>1, <4>2 DEF TypeOK, mainVars, managerVars, bossVars, waveVars,
           shownVars
    <3>4. ScenesAgree' /\ BossesInTurn' /\ Hearts'
      BY <3>1, <3>2 DEF ScenesAgree, BossesInTurn, Hearts, Fallen, bossVars
    <3> QED BY <3>3, <3>4
  <2>3. CASE time >= FADE_IN_TIME
    <3>1. currentScene = "SceneTransition" /\ _fadingIn
      BY <1>3, <2>3 DEF FadeIn, ScenesAgree, TypeOK, time
    <3>2. _currentLevel \in 1..3
      BY <3>1 DEF ScenesAgree, TypeOK
    <3>3. /\ changeScene
          /\ _fadingIn' = FALSE /\ _fadingOut' = TRUE /\ _fadeTime' = 0
      BY <2>3, <2>5, Zenon
    <3>4. /\ _currentLevel' = _currentLevel + 1
          /\ _currentLevel = 1 => currentScene' = "LevelTwo"
          /\ _currentLevel = 2 => currentScene' = "LevelThree"
          /\ _currentLevel = 3 => currentScene' = "CreditScene"
      BY <3>2, <3>3 DEF changeScene
    <3>5. TypeOK'
      <4>1. currentScene' \in SceneName /\ _currentLevel' \in 1..4
        BY <3>2, <3>4 DEF SceneName, Level
      <4>2. /\ _fadingIn' \in BOOLEAN /\ _fadingOut' \in BOOLEAN
        BY <3>3, Zenon
      <4>3. _fadeTime' \in 0..(FADE_IN_TIME + FADE_OUT_TIME)
        BY <3>3
      <4> QED
        BY <2>4, <4>1, <4>2, <4>3 DEF TypeOK, mainVars, managerVars, bossVars, waveVars,
           shownVars
    <3>6. ScenesAgree'
      BY <3>2, <3>3, <3>4 DEF ScenesAgree
    <3>7. BossesInTurn' /\ Hearts'
      <4>1. \A b \in Boss : Number(b) \in 1..3
        BY DEF Number, Boss
      <4>2. currentScene' # "SceneTransition"
        BY <3>2, <3>4
      <4>3. \A b \in Boss : Fallen(b)' <=> Fallen(b)
        BY <3>1, <3>2, <3>4, <4>1, <4>2 DEF Fallen
      <4>4. UNCHANGED bossVars
        BY <1>3 DEF FadeIn, fadeStep
      <4> QED
        BY <3>2, <3>4, <4>1, <4>3, <4>4 DEF BossesInTurn, Hearts, bossVars
    <3> QED BY <3>5, <3>6, <3>7
  <2> QED BY <2>1, <2>2, <2>3
<1> QED BY <1>1, <1>2, <1>3 DEF Fade

-----------------------------------------------------------------------------
(* The bosses.                                                              *)

BossTypes ==
    /\ clock \in [Boss -> 0..TimeCap] /\ _bossSpawned \in [Boss -> BOOLEAN]
    /\ entity \in [Boss -> {"none", "visible", "hidden"}]
    /\ hp \in [Boss -> Nat] /\ hit \in [Boss -> BOOLEAN]
    /\ travel \in 0..Approach /\ inPosition \in BOOLEAN

AfterBoss == pc' \in {"Shrimp", "Gorgia", "Collision"}

LEMMA BossStepType ==
    ASSUME TypeOK, bossStep, AfterBoss, currentScene' \in SceneName, BossTypes'
    PROVE  TypeOK'
BY DEF TypeOK, BossTypes, bossStep, AfterBoss, mainVars, managerVars, fadeVars, waveVars,
   shownVars

\* A standing boss stands in its own level.
LEMMA OwnLevel ==
    ASSUME FlowInv, NEW b \in Boss, entity[b] = "visible"
    PROVE  /\ currentScene # "SceneTransition"
           /\ _currentLevel = Number(b)
           /\ _bossSpawned[b] /\ ~Fallen(b)
BY DEF FlowInv, TypeOK, BossesInTurn, Fallen, Number, Boss

\* A boss that was not seen has not fallen.
LEMMA Unseen ==
    ASSUME FlowInv, NEW b \in Boss, ~_bossSpawned[b]
    PROVE  /\ ~Fallen(b) /\ _currentLevel <= Number(b)
           /\ _currentLevel = Number(b) => currentScene # "SceneTransition"
BY DEF FlowInv, TypeOK, BossesInTurn, Fallen, Number, Boss

LEMMA TickType ==
    ASSUME FlowInv, NEW b \in Boss, Tick(b)
    PROVE  clock' \in [Boss -> 0..TimeCap]
<1>1. Advanced(clock[b]) \in 0..TimeCap
  BY AdvancedType DEF FlowInv, TypeOK
<1> QED BY <1>1 DEF FlowInv, TypeOK, Tick

\* Nothing about the boss changes but its clock.
LEMMA WaitStep ==
    ASSUME FlowInv, bossStep, AfterBoss, clock' \in [Boss -> 0..TimeCap],
           UNCHANGED <<currentScene, _bossSpawned, entity, hp, hit, travel, inPosition>>
    PROVE  FlowInv'
<1>1. TypeOK'
  BY BossStepType DEF FlowInv, TypeOK, BossTypes
<1>2. ScenesAgree' /\ BossesInTurn' /\ Hearts'
  BY DEF FlowInv, ScenesAgree, BossesInTurn, Hearts, Fallen, bossStep, fadeVars
<1> QED BY <1>1, <1>2 DEF FlowInv

LEMMA SpawnStep ==
    ASSUME FlowInv, bossStep, AfterBoss, NEW b \in Boss,
           ~_bossSpawned[b], Number(b) <= _currentLevel,
           Tick(b), Spawn(b), UNCHANGED currentScene,
           hit' \in [Boss -> BOOLEAN], travel' \in 0..Approach, inPosition' \in BOOLEAN,
           hit'["Shrimp"] => inPosition',
           inPosition' => inPosition \/ b = "Shrimp"
    PROVE  FlowInv'
<1>1. clock' \in [Boss -> 0..TimeCap]
  BY TickType
<1>2. /\ _bossSpawned' \in [Boss -> BOOLEAN]
      /\ entity' \in [Boss -> {"none", "visible", "hidden"}]
  BY DEF FlowInv, TypeOK, Spawn
<1>3. hp' \in [Boss -> Nat] /\ hp'[b] > 0
  <2>1. BossHealth[b] \in Nat /\ BossHealth[b] > 0
    BY TimingAssumption
  <2>2. hp \in [Boss -> Nat] /\ hp' = [hp EXCEPT ![b] = BossHealth[b]]
    BY DEF FlowInv, TypeOK, Spawn
  <2> QED BY <2>1, <2>2
<1>4. TypeOK'
  <2>1. BossTypes'
    BY <1>1, <1>2, <1>3 DEF BossTypes
  <2>2. currentScene' \in SceneName
    BY DEF FlowInv, TypeOK
  <2> QED BY <2>1, <2>2, BossStepType DEF FlowInv
<1>5. \A c \in Boss : Fallen(c)' = Fallen(c)
  BY DEF bossStep, fadeVars, Fallen
<1>6. ~Fallen(b)
  BY Unseen
<1>7. ScenesAgree'
  BY DEF FlowInv, ScenesAgree, bossStep, fadeVars
<1>8. BossesInTurn'
  <2>1. ASSUME NEW c \in Boss, c # b
        PROVE  _bossSpawned'[c] = _bossSpawned[c] /\ entity'[c] = entity[c]
    BY <2>1 DEF FlowInv, TypeOK, Spawn
  <2>2. _bossSpawned'[b] = TRUE /\ entity'[b] = "visible"
    BY DEF FlowInv, TypeOK, Spawn
  <2>3. _currentLevel' = _currentLevel
    BY DEF bossStep, fadeVars
  <2>4. Number(b) \in Nat /\ _currentLevel \in Nat
    BY DEF FlowInv, TypeOK, Number, Boss
  <2> QED
    BY <1>5, <1>6, <2>1, <2>2, <2>3, <2>4 DEF FlowInv, BossesInTurn
<1>9. Hearts'
  BY <1>3 DEF FlowInv, TypeOK, Hearts, Spawn, Boss
<1> QED BY <1>4, <1>7, <1>8, <1>9 DEF FlowInv

\* A boss falls in its own level.
LEMMA FallStep ==
    ASSUME FlowInv, bossStep, AfterBoss, NEW b \in Boss, entity[b] = "visible", Falls(b),
           UNCHANGED <<_bossSpawned, hit, travel, inPosition>>,
           clock' \in [Boss -> 0..TimeCap], hp' \in [Boss -> Nat],
           \A c \in Boss : c # b => hp'[c] = hp[c]
    PROVE  FlowInv'
<1>1. entity' \in [Boss -> {"none", "visible", "hidden"}] /\ currentScene' = "SceneTransition"
  BY DEF FlowInv, TypeOK, Falls
<1>2. TypeOK'
  <2>1. BossTypes'
    BY <1>1 DEF FlowInv, TypeOK, BossTypes
  <2> QED BY <1>1, <2>1, BossStepType DEF FlowInv, SceneName
<1>3. /\ currentScene # "SceneTransition" /\ _currentLevel = Number(b)
      /\ _bossSpawned[b] /\ ~Fallen(b) /\ _currentLevel' = _currentLevel
  BY OwnLevel DEF bossStep, fadeVars
<1>4. ScenesAgree'
  <2>1. _currentLevel \in 1..3
    BY <1>3 DEF Number, Boss
  <2> QED BY <1>1, <1>3, <2>1 DEF FlowInv, ScenesAgree, bossStep, fadeVars
<1>5. BossesInTurn'
  <2>1. entity'[b] = "hidden" /\ \A c \in Boss : c # b => entity'[c] = entity[c]
    BY DEF FlowInv, TypeOK, Falls
  <2>2. \A c \in Boss : c # b => (Fallen(c)' <=> Fallen(c))
    BY <1>1, <1>3 DEF Fallen, Number, Boss
  <2>3. Fallen(b)'
    BY <1>1, <1>3 DEF Fallen
  <2> QED BY <1>3, <2>1, <2>2, <2>3 DEF FlowInv, BossesInTurn
<1>6. Hearts'
  BY DEF FlowInv, TypeOK, Hearts, Falls, Boss
<1> QED BY <1>2, <1>4, <1>5, <1>6 DEF FlowInv

\* One frame of a fight of Gorgia or Covid.
LEMMA FightStep ==
    ASSUME FlowInv, bossStep, AfterBoss, NEW b \in {"Gorgia", "Covid"},
           NEW counts \in BOOLEAN, entity[b] = "visible", Tick(b), Fights(b, counts),
           UNCHANGED <<_bossSpawned, hit, travel, inPosition>>
    PROVE  FlowInv'
<1>1. clock' \in [Boss -> 0..TimeCap]
  BY TickType DEF Boss
<1>2. b \in Boss /\ hp[b] \in Nat /\ hp[b] > 0
  BY DEF FlowInv, TypeOK, Hearts, Boss
<1>3. hp' \in [Boss -> Nat] /\ \A c \in Boss : c # b => hp'[c] = hp[c]
  BY <1>2 DEF FlowInv, TypeOK, Fights
<1>4. CASE hp'[b] <= 0
  BY <1>1, <1>2, <1>3, <1>4, FallStep DEF Fights
<1>5. CASE ~(hp'[b] <= 0)
  <2>1. UNCHANGED <<entity, currentScene>>
    BY <1>5 DEF Fights
  <2>2. TypeOK'
    <3>1. BossTypes'
      BY <1>1, <1>3, <2>1 DEF FlowInv, TypeOK, BossTypes
    <3> QED BY <2>1, <3>1, BossStepType DEF FlowInv, TypeOK
  <2>3. ScenesAgree' /\ BossesInTurn'
    BY <2>1 DEF FlowInv, ScenesAgree, BossesInTurn, Fallen, bossStep, fadeVars
  <2>4. hp'[b] > 0
    BY <1>2, <1>3, <1>5
  <2>5. Hearts'
    BY <1>3, <2>1, <2>4 DEF FlowInv, Hearts, Boss
  <2> QED BY <2>2, <2>3, <2>5 DEF FlowInv
<1> QED BY <1>4, <1>5

LEMMA CovidKeeps ==
    ASSUME FlowInv, Covid
    PROVE  FlowInv'
<1>1. bossStep /\ AfterBoss
  BY DEF Covid, CovidElsewhere, CovidWaits, CovidSpawns, CovidFights, At, AfterBoss
<1>2. CASE CovidElsewhere
  BY <1>1, <1>2, WaitStep DEF CovidElsewhere, bossVars, FlowInv, TypeOK
<1>3. CASE CovidWaits
  BY <1>1, <1>3, WaitStep, TickType DEF CovidWaits, Boss
<1>4. CASE CovidSpawns
  <2>1. _currentLevel = 3 /\ ~_bossSpawned["Covid"]
    BY <1>4 DEF CovidSpawns, SpawnDue, FlowInv, ScenesAgree
  <2>2. Number("Covid") <= _currentLevel
    BY <2>1 DEF Number
  <2>3. /\ Tick("Covid") /\ Spawn("Covid") /\ "Covid" \in Boss
        /\ UNCHANGED <<currentScene, hit, travel, inPosition>>
    BY <1>4 DEF CovidSpawns, Boss
  <2>4. /\ hit' \in [Boss -> BOOLEAN] /\ travel' \in 0..Approach /\ inPosition' \in BOOLEAN
        /\ hit'["Shrimp"] => inPosition'
    BY <2>3 DEF FlowInv, TypeOK, Hearts
  <2> QED BY <1>1, <2>1, <2>2, <2>3, <2>4, SpawnStep
<1>5. CASE CovidFights
  <2>1. PICK shielded \in BOOLEAN : Fights("Covid", hit["Covid"] /\ ~shielded)
    BY <1>5 DEF CovidFights
  <2>2. /\ entity["Covid"] = "visible" /\ Tick("Covid")
        /\ UNCHANGED <<_bossSpawned, hit, travel, inPosition>>
    BY <1>5 DEF CovidFights
  <2>3. (hit["Covid"] /\ ~shielded) \in BOOLEAN
    OBVIOUS
  <2> QED BY <1>1, <2>1, <2>2, <2>3, FightStep
<1> QED BY <1>2, <1>3, <1>4, <1>5 DEF Covid

LEMMA GorgiaKeeps ==
    ASSUME FlowInv, Gorgia
    PROVE  FlowInv'
<1>1. bossStep /\ AfterBoss
  BY DEF Gorgia, GorgiaWaits, GorgiaSpawns, GorgiaFights, GorgiaRemoved, At, AfterBoss
<1>2. CASE GorgiaWaits
  BY <1>1, <1>2, WaitStep, TickType DEF GorgiaWaits, Boss
<1>3. CASE GorgiaSpawns
  <2>1. ~_bossSpawned["Gorgia"] /\ Number("Gorgia") <= _currentLevel
    BY <1>3 DEF GorgiaSpawns, SpawnDue, FlowInv, TypeOK, Number
  <2>2. /\ Tick("Gorgia") /\ Spawn("Gorgia") /\ "Gorgia" \in Boss
        /\ UNCHANGED <<currentScene, hit, travel, inPosition>>
    BY <1>3 DEF GorgiaSpawns, Boss
  <2>3. /\ hit' \in [Boss -> BOOLEAN] /\ travel' \in 0..Approach /\ inPosition' \in BOOLEAN
        /\ hit'["Shrimp"] => inPosition'
    BY <2>2 DEF FlowInv, TypeOK, Hearts
  <2> QED BY <1>1, <2>1, <2>2, <2>3, SpawnStep
<1>4. CASE GorgiaFights
  <2>1. /\ entity["Gorgia"] = "visible" /\ Tick("Gorgia") /\ Fights("Gorgia", hit["Gorgia"])
        /\ UNCHANGED <<_bossSpawned, hit, travel, inPosition>>
    BY <1>4 DEF GorgiaFights
  <2>2. hit["Gorgia"] \in BOOLEAN
    BY DEF FlowInv, TypeOK, Boss
  <2> QED BY <1>1, <2>1, <2>2, FightStep
<1>5. CASE GorgiaRemoved
  <2>1. /\ clock' \in [Boss -> 0..TimeCap]
        /\ UNCHANGED <<currentScene, _bossSpawned, hp, travel, inPosition>>
    BY <1>5, TickType DEF GorgiaRemoved, Boss
  <2>2. /\ hit' \in [Boss -> BOOLEAN] /\ hit'["Shrimp"] = hit["Shrimp"]
        /\ entity' \in [Boss -> {"none", "visible", "hidden"}]
        /\ entity["Gorgia"] = "hidden" /\ entity'["Gorgia"] = "none"
        /\ \A b \in Boss : b # "Gorgia" => entity'[b] = entity[b]
    BY <1>5 DEF GorgiaRemoved, FlowInv, TypeOK, Boss
  <2>3. TypeOK'
    <3>1. BossTypes'
      BY <2>1, <2>2 DEF FlowInv, TypeOK, BossTypes
    <3> QED BY <1>1, <2>1, <3>1, BossStepType DEF FlowInv, TypeOK
  <2>4. Fallen("Gorgia")
    BY <2>2 DEF FlowInv, BossesInTurn, Boss
  <2>5. ScenesAgree' /\ Hearts' /\ \A b \in Boss : Fallen(b)' <=> Fallen(b)
    BY <1>1, <2>1, <2>2 DEF FlowInv, ScenesAgree, Hearts, Fallen, bossStep, fadeVars, Boss
  <2>6. BossesInTurn'
    BY <1>1, <2>1, <2>2, <2>4, <2>5 DEF FlowInv, BossesInTurn, bossStep, fadeVars, Boss
  <2> QED BY <2>3, <2>5, <2>6 DEF FlowInv
<1> QED BY <1>2, <1>3, <1>4, <1>5 DEF Gorgia

LEMMA MovesType ==
    ASSUME FlowInv, Moves
    PROVE  /\ travel' \in 0..Approach /\ inPosition' \in BOOLEAN
           /\ hit' \in [Boss -> BOOLEAN] /\ ~hit'["Shrimp"]
<1>1. travel' \in 0..Approach
  BY TimingAssumption DEF Moves, FlowInv, TypeOK
<1>2. inPosition' \in BOOLEAN
  BY Zenon DEF Moves
<1>3. hit' \in [Boss -> BOOLEAN] /\ hit'["Shrimp"] = FALSE
  BY DEF Moves, FlowInv, TypeOK, Boss
<1> QED BY <1>1, <1>2, <1>3

LEMMA ShrimpKeeps ==
    ASSUME FlowInv, Shrimp
    PROVE  FlowInv'
<1>1. bossStep /\ AfterBoss
  BY DEF Shrimp, ShrimpElsewhere, ShrimpWaits, ShrimpSpawns, ShrimpFights, ShrimpFalls,
     At, AfterBoss
<1>2. CASE ShrimpElsewhere
  BY <1>1, <1>2, WaitStep DEF ShrimpElsewhere, bossVars, FlowInv, TypeOK
<1>3. CASE ShrimpWaits
  BY <1>1, <1>3, WaitStep, TickType DEF ShrimpWaits, Boss
<1>4. CASE ShrimpSpawns
  <2>1. _currentLevel = 2 /\ ~_bossSpawned["Shrimp"]
    BY <1>4 DEF ShrimpSpawns, FlowInv, ScenesAgree
  <2>2. Number("Shrimp") <= _currentLevel
    BY <2>1 DEF Number
  <2>3. /\ Tick("Shrimp") /\ Spawn("Shrimp") /\ "Shrimp" \in Boss
        /\ UNCHANGED currentScene /\ Moves
    BY <1>4 DEF ShrimpSpawns, Boss
  <2> QED BY <1>1, <2>1, <2>2, <2>3, MovesType, SpawnStep
<1>5. CASE ShrimpFights
  <2>1. /\ Tick("Shrimp") /\ Moves /\ _bossSpawned["Shrimp"]
        /\ UNCHANGED <<currentScene, _bossSpawned, entity>>
    BY <1>5 DEF ShrimpFights
  <2>2. hp["Shrimp"] \in Nat /\ (hit["Shrimp"] => hp["Shrimp"] > 0)
    BY <1>5 DEF ShrimpFights, FlowInv, TypeOK, Hearts, Boss
  <2>3. hp' \in [Boss -> Nat] /\ \A b \in {"Gorgia", "Covid"} : hp'[b] = hp[b]
    BY <1>5, <2>2 DEF ShrimpFights, FlowInv, TypeOK, Boss
  <2>4. /\ travel' \in 0..Approach /\ inPosition' \in BOOLEAN
        /\ hit' \in [Boss -> BOOLEAN] /\ ~hit'["Shrimp"]
    BY <2>1, MovesType
  <2>5. TypeOK'
    <3>1. clock' \in [Boss -> 0..TimeCap]
      BY <2>1, TickType DEF Boss
    <3>2. BossTypes'
      BY <2>1, <2>3, <2>4, <3>1 DEF FlowInv, TypeOK, BossTypes
    <3> QED BY <1>1, <2>1, <3>2, BossStepType DEF FlowInv, TypeOK
  <2>6. ScenesAgree' /\ BossesInTurn'
    BY <1>1, <2>1 DEF FlowInv, ScenesAgree, BossesInTurn, Fallen, bossStep, fadeVars
  <2>7. Hearts'
    BY <2>1, <2>3, <2>4 DEF FlowInv, Hearts
  <2> QED BY <2>5, <2>6, <2>7 DEF FlowInv
<1>6. CASE ShrimpFalls
  <2>1. /\ currentScene = "LevelTwo" /\ inPosition /\ Falls("Shrimp") /\ "Shrimp" \in Boss
        /\ UNCHANGED <<clock, _bossSpawned, hp, hit, travel, inPosition>>
    BY <1>6 DEF ShrimpFalls, Boss
  <2>2. entity["Shrimp"] = "visible"
    <3>1. ~Fallen("Shrimp") /\ _bossSpawned["Shrimp"]
      BY <2>1 DEF FlowInv, ScenesAgree, Hearts, Fallen, Number
    <3> QED BY <2>1, <3>1 DEF FlowInv, BossesInTurn
  <2>3. clock' \in [Boss -> 0..TimeCap] /\ hp' \in [Boss -> Nat]
    BY <2>1 DEF FlowInv, TypeOK
  <2> QED BY <1>1, <2>1, <2>2, <2>3, FallStep
<1> QED BY <1>2, <1>3, <1>4, <1>5, <1>6 DEF Shrimp

-----------------------------------------------------------------------------

LEMMA FlowStep == FlowInv /\ [Next]_vars => FlowInv'
<1> SUFFICES ASSUME FlowInv, [Next]_vars PROVE FlowInv'
  OBVIOUS
<1>1. CASE Next
  BY <1>1, QuietSystems, Waves, FadeKeeps, CovidKeeps, ShrimpKeeps, GorgiaKeeps DEF Next
<1>2. CASE UNCHANGED vars
  BY <1>2 DEF FlowInv, TypeOK, ScenesAgree, BossesInTurn, Hearts, Fallen, vars, mainVars,
     sceneVars, managerVars, fadeVars, bossVars, waveVars, shownVars
<1> QED BY <1>1, <1>2

\* In every reachable state the scene, the level counter of the fade and the three
\* bosses agree: an earlier boss has fallen, the boss of the level stands or is
\* still to come, and no later one has been seen.
THEOREM BossesTakeTurns == Spec => []FlowInv
BY FlowInit, FlowStep, PTL DEF Spec

\* Every variable keeps its type: the clocks, the level counter and the hits of
\* the bosses stay in their bounds, for all timings and lengths of frames.
THEOREM FlowTypeCorrect == Spec => []TypeOK
<1>1. FlowInv => TypeOK
  BY DEF FlowInv
<1> QED BY <1>1, BossesTakeTurns, PTL

-----------------------------------------------------------------------------
(* Every step is a step of LevelProgress or leaves level and phase alone.   *)

\* What the scene and the bosses show.
LEMMA Shown ==
    ASSUME NEW b \in Boss, NEW l \in Level, b = BossOf(l), currentScene = l
    PROVE  /\ LevelNumber = Number(b)
           /\ _bossSpawned[b] => Phase = "boss"
           /\ ~_bossSpawned[b] => Phase = "waves"
BY DEF LevelNumber, Phase, BossOf, Level, Number

LEMMA ShownTransition ==
    ASSUME currentScene = "SceneTransition"
    PROVE  LevelNumber = _currentLevel /\ Phase = "transition"
BY DEF LevelNumber, Phase

LEMMA SameProgress ==
    ASSUME UNCHANGED <<currentScene, _currentLevel, _bossSpawned>>
    PROVE  UNCHANGED Progress!vars
BY DEF Progress!vars, LevelNumber, Phase

\* The scene of a boss that stands or comes is its level.
LEMMA SceneOf ==
    ASSUME FlowInv, NEW b \in Boss, _currentLevel = Number(b),
           currentScene # "SceneTransition"
    PROVE  currentScene \in Level /\ b = BossOf(currentScene)
BY DEF FlowInv, TypeOK, ScenesAgree, SceneName, Level, Boss, BossOf, Number

LEMMA SpawnProgress ==
    ASSUME FlowInv, bossStep, NEW b \in Boss, ~_bossSpawned[b], Spawn(b),
           Number(b) <= _currentLevel, UNCHANGED currentScene
    PROVE  Progress!BossArrives
<1>1. _currentLevel = Number(b) /\ currentScene # "SceneTransition"
  BY Unseen DEF FlowInv, TypeOK, Number, Boss
<1>2. currentScene \in Level /\ b = BossOf(currentScene)
  BY <1>1, SceneOf
<1>3. Phase = "waves" /\ LevelNumber = Number(b)
  BY <1>2, Shown
<1>4. _bossSpawned'[b] = TRUE
  BY DEF Spawn, FlowInv, TypeOK
<1>5. Phase' = "boss" /\ LevelNumber' = LevelNumber
  BY <1>2, <1>4 DEF Phase, LevelNumber, Level
<1> QED BY <1>3, <1>5 DEF Progress!BossArrives

LEMMA FallProgress ==
    ASSUME FlowInv, bossStep, NEW b \in Boss, entity[b] = "visible", Falls(b)
    PROVE  Progress!BossFalls
<1>1. /\ _currentLevel = Number(b) /\ currentScene # "SceneTransition"
      /\ _bossSpawned[b]
  BY OwnLevel
<1>2. currentScene \in Level /\ b = BossOf(currentScene)
  BY <1>1, SceneOf
<1>3. Phase = "boss" /\ LevelNumber = Number(b)
  BY <1>1, <1>2, Shown
<1>4. currentScene' = "SceneTransition" /\ _currentLevel' = _currentLevel
  BY DEF Falls, bossStep, fadeVars
<1>5. Phase' = "transition" /\ LevelNumber' = Number(b)
  BY <1>1, <1>4 DEF Phase, LevelNumber
<1> QED BY <1>3, <1>5 DEF Progress!BossFalls

LEMMA FadeProgress ==
    ASSUME FlowInv, Fade
    PROVE  Progress!NextLevel \/ UNCHANGED Progress!vars
<1> USE TimingAssumption, FramesAssumption DEF FlowInv
<1>1. CASE FadeWaits \/ FadeOut
  <2>1. UNCHANGED <<currentScene, _currentLevel, _bossSpawned>>
    BY <1>1 DEF FadeWaits, FadeOut, fadeStep, fadeVars, bossVars
  <2> QED BY <2>1, SameProgress
<1>2. CASE FadeIn
  <2> DEFINE time == IF _fadingIn THEN _fadeTime + dt ELSE dt
  <2>1. IF time >= FADE_IN_TIME
        THEN _fadingIn' = FALSE /\ _fadingOut' = TRUE /\ _fadeTime' = 0 /\ changeScene
        ELSE /\ _fadingIn' = TRUE /\ _fadeTime' = time
             /\ UNCHANGED <<currentScene, _fadingOut, _currentLevel>>
    BY <1>2, Zenon DEF FadeIn
  <2>2. UNCHANGED _bossSpawned
    BY <1>2 DEF FadeIn, fadeStep, bossVars
  <2>3. CASE ~(time >= FADE_IN_TIME)
    <3>1. UNCHANGED <<currentScene, _currentLevel, _bossSpawned>>
      BY <2>1, <2>2, <2>3, Zenon
    <3> QED BY <3>1, SameProgress
  <2>4. CASE time >= FADE_IN_TIME
    <3>1. currentScene = "SceneTransition"
      BY <1>2, <2>4 DEF FadeIn, ScenesAgree, TypeOK
    <3>2. _currentLevel \in 1..3
      BY <3>1 DEF ScenesAgree, TypeOK
    <3>3. changeScene
      BY <2>1, <2>4, Zenon
    <3>4. Phase = "transition" /\ LevelNumber = _currentLevel
      BY <3>1, ShownTransition
    <3>5. CASE _currentLevel = 1
      <4>1. currentScene' = "LevelTwo" /\ ~_bossSpawned["Shrimp"]
        BY <3>3, <3>5 DEF changeScene, BossesInTurn, Boss, Number
      <4> QED
        BY <2>2, <3>4, <3>5, <4>1 DEF Progress!NextLevel, Phase, LevelNumber, BossOf
    <3>6. CASE _currentLevel = 2
      <4>1. currentScene' = "LevelThree" /\ ~_bossSpawned["Covid"]
        BY <3>3, <3>6 DEF changeScene, BossesInTurn, Boss, Number
      <4> QED
        BY <2>2, <3>4, <3>6, <4>1 DEF Progress!NextLevel, Phase, LevelNumber, BossOf
    <3>7. CASE _currentLevel = 3
      <4>1. currentScene' = "CreditScene"
        BY <3>3, <3>7 DEF changeScene
      <4> QED
        BY <3>4, <3>7, <4>1 DEF Progress!NextLevel, Phase, LevelNumber
    <3> QED BY <3>2, <3>5, <3>6, <3>7
  <2> QED BY <2>3, <2>4
<1> QED BY <1>1, <1>2 DEF Fade

\* Only a spawn or a fall shows in what a boss does.
LEMMA BossProgress ==
    ASSUME FlowInv, Covid \/ Shrimp \/ Gorgia
    PROVE  [Progress!Next]_Progress!vars
<1> DEFINE Same == UNCHANGED <<currentScene, _currentLevel, _bossSpawned>>
<1>1. bossStep /\ UNCHANGED _currentLevel
  BY DEF Covid, CovidElsewhere, CovidWaits, CovidSpawns, CovidFights, Shrimp,
     ShrimpElsewhere, ShrimpWaits, ShrimpSpawns, ShrimpFights, ShrimpFalls, Gorgia,
     GorgiaWaits, GorgiaSpawns, GorgiaFights, GorgiaRemoved, bossStep, fadeVars
<1>2. ASSUME NEW b \in Boss, NEW counts \in BOOLEAN, entity[b] = "visible",
             Fights(b, counts), UNCHANGED _bossSpawned
      PROVE  Progress!BossFalls \/ Same
  BY <1>1, <1>2, FallProgress DEF Fights
<1>3. CASE CovidSpawns
  <2>1. /\ _currentLevel = 3 /\ ~_bossSpawned["Covid"] /\ "Covid" \in Boss
        /\ Spawn("Covid") /\ UNCHANGED currentScene
    BY <1>3 DEF CovidSpawns, SpawnDue, FlowInv, ScenesAgree, Boss
  <2>2. Number("Covid") <= _currentLevel
    BY <2>1 DEF Number
  <2> QED BY <1>1, <2>1, <2>2, SpawnProgress DEF Progress!Next
<1>4. CASE ShrimpSpawns
  <2>1. /\ _currentLevel = 2 /\ ~_bossSpawned["Shrimp"] /\ "Shrimp" \in Boss
        /\ Spawn("Shrimp") /\ UNCHANGED currentScene
    BY <1>4 DEF ShrimpSpawns, FlowInv, ScenesAgree, Boss
  <2>2. Number("Shrimp") <= _currentLevel
    BY <2>1 DEF Number
  <2> QED BY <1>1, <2>1, <2>2, SpawnProgress DEF Progress!Next
<1>5. CASE GorgiaSpawns
  <2>1. /\ ~_bossSpawned["Gorgia"] /\ "Gorgia" \in Boss
        /\ Spawn("Gorgia") /\ UNCHANGED currentScene
    BY <1>5 DEF GorgiaSpawns, SpawnDue, Boss
  <2>2. Number("Gorgia") <= _currentLevel
    BY DEF Number, FlowInv, TypeOK
  <2> QED BY <1>1, <2>1, <2>2, SpawnProgress DEF Progress!Next
<1>6. CASE CovidFights
  <2>1. PICK shielded \in BOOLEAN : Fights("Covid", hit["Covid"] /\ ~shielded)
    BY <1>6 DEF CovidFights
  <2>2. entity["Covid"] = "visible" /\ UNCHANGED _bossSpawned /\ "Covid" \in Boss
    BY <1>6 DEF CovidFights, Boss
  <2>3. (hit["Covid"] /\ ~shielded) \in BOOLEAN
    OBVIOUS
  <2> QED BY <1>2, <2>1, <2>2, <2>3, SameProgress DEF Progress!Next
<1>7. CASE GorgiaFights
  <2>1. /\ entity["Gorgia"] = "visible" /\ UNCHANGED _bossSpawned /\ "Gorgia" \in Boss
        /\ Fights("Gorgia", hit["Gorgia"])
    BY <1>7 DEF GorgiaFights, Boss
  <2>2. hit["Gorgia"] \in BOOLEAN
    BY DEF FlowInv, TypeOK, Boss
  <2> QED BY <1>2, <2>1, <2>2, SameProgress DEF Progress!Next
<1>8. CASE ShrimpFalls
  <2>1. currentScene = "LevelTwo" /\ inPosition /\ Falls("Shrimp") /\ "Shrimp" \in Boss
    BY <1>8 DEF ShrimpFalls, Boss
  <2>2. ~Fallen("Shrimp") /\ _bossSpawned["Shrimp"]
    BY <2>1 DEF FlowInv, ScenesAgree, Hearts, Fallen, Number
  <2>3. entity["Shrimp"] = "visible"
    BY <2>1, <2>2 DEF FlowInv, BossesInTurn
  <2> QED BY <1>1, <2>1, <2>3, FallProgress DEF Progress!Next
<1>9. CASE \/ CovidElsewhere \/ CovidWaits \/ ShrimpElsewhere \/ ShrimpWaits
           \/ ShrimpFights \/ GorgiaWaits \/ GorgiaRemoved
  <2>1. Same
    BY <1>1, <1>9 DEF CovidElsewhere, CovidWaits, ShrimpElsewhere, ShrimpWaits,
       ShrimpFights, GorgiaWaits, GorgiaRemoved, bossVars
  <2> QED BY <2>1, SameProgress
<1> QED
  BY <1>3, <1>4, <1>5, <1>6, <1>7, <1>8, <1>9 DEF Covid, Shrimp, Gorgia

LEMMA ProgressInit == Init => Progress!Init
BY DEF Init, Progress!Init, LevelNumber, Phase, BossOf, Boss

LEMMA ProgressStep == FlowInv /\ [Next]_vars => [Progress!Next]_Progress!vars
<1> SUFFICES ASSUME FlowInv, [Next]_vars PROVE [Progress!Next]_Progress!vars
  OBVIOUS
<1>1. CASE Fade
  BY <1>1, FadeProgress DEF Progress!Next
<1>2. CASE Covid \/ Shrimp \/ Gorgia
  BY <1>2, BossProgress
<1>3. CASE \/ BeginFrame \/ SceneManagerSystem \/ CollisionSystem \/ BydosAI \/ RobotAI
           \/ CreditSceneSystem \/ ParallaxSystem \/ UNCHANGED vars
  <2>1. UNCHANGED <<currentScene, _currentLevel, _bossSpawned>>
    BY <1>3 DEF BeginFrame, SceneManagerSystem, CollisionSystem, BydosAI, RobotAI, Wave,
       CreditSceneSystem, ParallaxSystem, bossStep, vars, sceneVars, fadeVars, bossVars
  <2> QED BY <2>1, SameProgress
<1> QED BY <1>1, <1>2, <1>3 DEF Next

\* The systems that share the Scene component implement three levels in
\* order, each left only by the fall of its own boss and through one transition.
THEOREM FlowImplementsProgress == Spec => ImplementsProgress
<1>1. Spec => Progress!Init /\ [][Progress!Next]_Progress!vars
  BY ProgressInit, ProgressStep, BossesTakeTurns, PTL DEF Spec
<1> QED BY <1>1 DEF ImplementsProgress, Progress!Spec

-----------------------------------------------------------------------------
(* What the other systems know of the scene: the stack of the scene        *)
(* manager, the fade's timer, the background, the credits and the clocks    *)
(* of bosses and waves.                                                     *)

\* The scenes of the game, the place of the current one, and whether the scene
\* manager has seen it.
Story == <<"LevelOne", "SceneTransition", "LevelTwo", "SceneTransition",
           "LevelThree", "SceneTransition", "CreditScene">>
Place == IF currentScene = "SceneTransition" THEN 2 * _currentLevel ELSE 2 * _currentLevel - 1
Seen == Len(_scenesStack) = Place
Between == {"frame", "SceneManager"}

\* The manager is at most one scene behind, and only from a fall to its next turn.
StackFollows ==
    /\ Len(_scenesStack) \in {Place - 1, Place}
    /\ \A i \in 1..Len(_scenesStack) : _scenesStack[i] = Story[i]
    /\ _lastSceneName = IF Len(_scenesStack) = 0 THEN "none" ELSE Story[Len(_scenesStack)]
    /\ pc \notin Between =>
          Len(_scenesStack) # 0 /\ (Seen \/ currentScene = "SceneTransition")

\* A transition is not over before the manager has seen it and asked for a reset.
FadeSlow ==
    /\ _fadingIn /\ currentScene # "SceneTransition" => _fadeTime <= MaxDt
    /\ ~Seen /\ currentScene = "SceneTransition" /\ _fadingIn =>
          _fadeTime <= IF pc \in Between THEN 2 * MaxDt ELSE MaxDt
    /\ Seen /\ currentScene = "SceneTransition" => isResetting

LastLevel == CASE _currentLevel = 1 -> "LevelOne" [] _currentLevel = 2 -> "LevelTwo"
               [] OTHER -> "LevelThree"

\* The turn of a boss in the frame, and the places up to it.
Turn(b) == IF b = "Covid" THEN "CovBoss" ELSE b
UpTo(b) == Between \cup (CASE b = "Covid" -> {"CovBoss"} [] b = "Shrimp" -> {"CovBoss", "Shrimp"}
                           [] OTHER -> {"CovBoss", "Shrimp", "Gorgia"})

\* The background is behind only in the first frames of a level, before its boss.
BackgroundFollows ==
    /\ background # LastLevel =>
          /\ currentScene \in Level /\ _parallaxScene # currentScene
          /\ pc \in UpTo(BossOf(currentScene)) => ~_bossSpawned[BossOf(currentScene)]
    /\ pc = "Fade" => background = LastLevel /\ _parallaxScene = currentScene

CreditsOnce ==
    /\ texts = IF _textSpawned THEN 1 ELSE 0
    /\ _textSpawned => currentScene = "CreditScene"
    /\ currentScene = "CreditScene" /\ pc \in {"Parallax", "Fade"} => _textSpawned

ClocksRun ==
    /\ ~clientConnected => dt = 0 /\ \A b \in Boss : clock[b] = 0
    /\ clientConnected /\ pc # "frame" => dt > 0
    /\ \A b \in Boss : _bossSpawned[b] => clock[b] >= SpawnTiming[b]
    /\ \A b \in {"Shrimp", "Covid"} : Number(b) > _currentLevel => clock[b] = 0

\* The places of the frame after the turn of a wave, and the clock of the wave as
\* the boss sees it: once the boss has had its turn, with this frame counted.
Waved(w) == Between \cup {"Credit", "Parallax", "Fade"}
                    \cup (IF w = "Bydos" THEN {"Robot"} ELSE {})
Due(w, b) == IF pc \in UpTo(b) \cup Waved(w) THEN _sceneTime[w] ELSE Advanced(_sceneTime[w])

WavesFollow ==
    /\ \A w \in WaveAI : currentScene \in Level =>
          /\ clock[BossOf(currentScene)] <= Due(w, BossOf(currentScene))
          /\ currentScene # "LevelOne" =>
                Due(w, BossOf(currentScene)) <= clock[BossOf(currentScene)] + MaxDt
    /\ \A w \in WaveAI : currentScene = "SceneTransition" /\ Seen /\ pc \in Waved(w) =>
          _sceneTime[w] <= MaxDt

FollowInv == /\ FlowInv /\ StackFollows /\ FadeSlow /\ BackgroundFollows /\ CreditsOnce
             /\ ClocksRun /\ WavesFollow

LEMMA FollowInit == Init => FollowInv
<1> SUFFICES ASSUME Init PROVE FollowInv
  OBVIOUS
<1> USE TimingAssumption
<1>1. FlowInv
  BY FlowInit
<1>2. StackFollows /\ FadeSlow
  BY DEF Init, StackFollows, FadeSlow, Place, Seen, Between
<1>3. BackgroundFollows /\ CreditsOnce
  BY DEF Init, BackgroundFollows, CreditsOnce, LastLevel, Level, Boss, BossOf
<1>4. ClocksRun
  BY DEF Init, ClocksRun, Boss
<1>5. WavesFollow
  BY DEF Init, WavesFollow, Due, Waved, UpTo, Between, Level, Boss, BossOf, WaveAI
<1> QED BY <1>1, <1>2, <1>3, <1>4, <1>5 DEF FollowInv

-----------------------------------------------------------------------------
(* What a step may do.                                                      *)

\* The boss of the level has fallen at its turn.
BossLeaves ==
    /\ currentScene \in Level /\ _bossSpawned[BossOf(currentScene)]
    /\ pc = Turn(BossOf(currentScene))
    /\ currentScene' = "SceneTransition"

BossTurn == Covid \/ Shrimp \/ Gorgia \/ CollisionSystem

LEMMA BossPlaces ==
    ASSUME BossTurn
    PROVE  /\ \/ pc = "CovBoss" /\ pc' = "Shrimp"
              \/ pc = "Shrimp" /\ pc' = "Gorgia"
              \/ pc = "Gorgia" /\ pc' = "Collision"
              \/ pc = "Collision" /\ pc' = "Bydos"
           /\ bossStep
BY DEF BossTurn, Covid, CovidElsewhere, CovidWaits, CovidSpawns, CovidFights, Shrimp,
   ShrimpElsewhere, ShrimpWaits, ShrimpSpawns, ShrimpFights, ShrimpFalls, Gorgia,
   GorgiaWaits, GorgiaSpawns, GorgiaFights, GorgiaRemoved, CollisionSystem, At

LEMMA BossScene ==
    ASSUME FlowInv, BossTurn
    PROVE  UNCHANGED currentScene \/ BossLeaves
<1>1. ASSUME NEW b \in Boss, pc = Turn(b), entity[b] = "visible", Falls(b)
      PROVE  BossLeaves
  <2>1. currentScene \in Level /\ b = BossOf(currentScene) /\ _bossSpawned[b]
    BY <1>1, OwnLevel, SceneOf
  <2> QED BY <1>1, <2>1 DEF BossLeaves, Falls
<1>2. CASE CovidFights
  <2>1. PICK shielded \in BOOLEAN : Fights("Covid", hit["Covid"] /\ ~shielded)
    BY <1>2 DEF CovidFights
  <2>2. entity["Covid"] = "visible" /\ pc = Turn("Covid") /\ "Covid" \in Boss
    BY <1>2 DEF CovidFights, At, Turn, Boss
  <2> QED BY <1>1, <2>1, <2>2 DEF Fights
<1>3. CASE GorgiaFights
  <2>1. entity["Gorgia"] = "visible" /\ pc = Turn("Gorgia") /\ "Gorgia" \in Boss
    BY <1>3 DEF GorgiaFights, At, Turn, Boss
  <2> QED BY <1>1, <1>3, <2>1 DEF GorgiaFights, Fights
<1>4. CASE ShrimpFalls
  <2>1. /\ currentScene = "LevelTwo" /\ inPosition /\ Falls("Shrimp") /\ "Shrimp" \in Boss
        /\ pc = Turn("Shrimp")
    BY <1>4 DEF ShrimpFalls, Boss, At, Turn
  <2>2. ~Fallen("Shrimp") /\ _bossSpawned["Shrimp"]
    BY <2>1 DEF FlowInv, ScenesAgree, Hearts, Fallen, Number
  <2>3. entity["Shrimp"] = "visible"
    BY <2>1, <2>2 DEF FlowInv, BossesInTurn
  <2> QED BY <1>1, <2>1, <2>3
<1> QED
  BY <1>2, <1>3, <1>4 DEF BossTurn, Covid, CovidElsewhere, CovidWaits, CovidSpawns, Shrimp,
     ShrimpElsewhere, ShrimpWaits, ShrimpSpawns, ShrimpFights, Gorgia,
     GorgiaWaits, GorgiaSpawns, GorgiaRemoved, CollisionSystem

\* A boss is seen for the first time at its turn, when its time has come.
LEMMA BossSeen ==
    ASSUME FlowInv, BossTurn, NEW b \in Boss
    PROVE  /\ _bossSpawned[b] => _bossSpawned'[b]
           /\ ~_bossSpawned[b] /\ _bossSpawned'[b] =>
                 pc = Turn(b) /\ clock'[b] >= SpawnTiming[b]
<1> USE TimingAssumption
<1>1. ASSUME NEW c \in Boss, pc = Turn(c), Spawn(c), Tick(c),
             Advanced(clock[c]) >= SpawnTiming[c]
      PROVE  /\ _bossSpawned[b] => _bossSpawned'[b]
             /\ ~_bossSpawned[b] /\ _bossSpawned'[b] =>
                   pc = Turn(b) /\ clock'[b] >= SpawnTiming[b]
  BY <1>1 DEF Spawn, Tick, FlowInv, TypeOK
<1>2. CASE CovidSpawns
  BY <1>1, <1>2 DEF CovidSpawns, At, Turn, SpawnDue, Boss
<1>3. CASE GorgiaSpawns
  BY <1>1, <1>3 DEF GorgiaSpawns, At, Turn, SpawnDue, Boss
<1>4. CASE ShrimpSpawns
  <2>1. Advanced(clock["Shrimp"]) >= SpawnTiming["Shrimp"]
    <3>1. Advanced(clock["Shrimp"]) \in Int /\ SpawnTiming["Shrimp"] \in Int
      BY AdvancedType DEF FlowInv, TypeOK, Boss
    <3> QED BY <1>4, <3>1 DEF ShrimpSpawns, ShrimpDue
  <2> QED BY <1>1, <1>4, <2>1 DEF ShrimpSpawns, At, Turn, Boss
<1>5. CASE ~CovidSpawns /\ ~GorgiaSpawns /\ ~ShrimpSpawns
  <2>1. UNCHANGED _bossSpawned
    BY <1>5 DEF BossTurn, Covid, CovidElsewhere, CovidWaits, CovidFights, Shrimp,
       ShrimpElsewhere, ShrimpWaits, ShrimpFights, ShrimpFalls, Gorgia, GorgiaWaits,
       GorgiaFights, GorgiaRemoved, CollisionSystem, bossVars
  <2> QED BY <2>1
<1> QED BY <1>2, <1>3, <1>4, <1>5

\* A clock moves at the turn of its boss only, that of the shrimp and the covid in
\* their levels only; that of the boss of the level moves in every frame.
LEMMA BossClocks ==
    ASSUME FlowInv, BossTurn, NEW b \in Boss
    PROVE  /\ clock'[b] = clock[b] \/ (pc = Turn(b) /\ clock'[b] = Advanced(clock[b]))
           /\ b # "Gorgia" /\ clock'[b] # clock[b] =>
                 currentScene \in Level /\ b = BossOf(currentScene)
           /\ currentScene \in Level /\ b = BossOf(currentScene) /\ pc = Turn(b)
                 /\ UNCHANGED currentScene => clock'[b] = Advanced(clock[b])
<1>0. clock \in [Boss -> 0..TimeCap]
  BY DEF FlowInv, TypeOK
<1>1. CASE Covid
  <2>1. pc = "CovBoss" /\ (Tick("Covid") \/ UNCHANGED clock)
    BY <1>1 DEF Covid, CovidElsewhere, CovidWaits, CovidSpawns, CovidFights, At, bossVars
  <2>2. currentScene = "LevelThree" => Tick("Covid")
    BY <1>1 DEF Covid, CovidElsewhere, CovidWaits, CovidSpawns, CovidFights
  <2>3. currentScene # "LevelThree" => UNCHANGED clock
    BY <1>1 DEF Covid, CovidElsewhere, CovidWaits, CovidSpawns, CovidFights, bossVars
  <2> QED
    BY <1>0, <2>1, <2>2, <2>3 DEF Tick, Turn, BossOf, Level, Boss
<1>2. CASE Shrimp
  <2>1. pc = "Shrimp" /\ (Tick("Shrimp") \/ UNCHANGED clock)
    BY <1>2 DEF Shrimp, ShrimpElsewhere, ShrimpWaits, ShrimpSpawns, ShrimpFights,
       ShrimpFalls, At, bossVars
  <2>2. currentScene = "LevelTwo" /\ UNCHANGED currentScene => Tick("Shrimp")
    BY <1>2 DEF Shrimp, ShrimpElsewhere, ShrimpWaits, ShrimpSpawns, ShrimpFights,
       ShrimpFalls, Falls
  <2>3. currentScene # "LevelTwo" => UNCHANGED clock
    BY <1>2 DEF Shrimp, ShrimpElsewhere, ShrimpWaits, ShrimpSpawns, ShrimpFights,
       ShrimpFalls, bossVars
  <2> QED
    BY <1>0, <2>1, <2>2, <2>3 DEF Tick, Turn, BossOf, Level, Boss
<1>3. CASE Gorgia
  <2>1. pc = "Gorgia" /\ Tick("Gorgia")
    BY <1>3 DEF Gorgia, GorgiaWaits, GorgiaSpawns, GorgiaFights, GorgiaRemoved, At
  <2> QED
    BY <1>0, <2>1 DEF Tick, Turn, BossOf, Level, Boss
<1>4. CASE CollisionSystem
  BY <1>4 DEF CollisionSystem, At, Turn, Boss
<1> QED BY <1>1, <1>2, <1>3, <1>4 DEF BossTurn

\* The fade leaves scene and level alone or ends a transition of at least
\* FADE_IN_TIME.
FadeEnds ==
    /\ currentScene = "SceneTransition" /\ _fadingIn /\ _fadeTime + dt >= FADE_IN_TIME
    /\ _currentLevel \in 1..3 /\ _currentLevel' = _currentLevel + 1
    /\ currentScene' = Story[2 * _currentLevel + 1]
    /\ ~_fadingIn'

LEMMA FadeDoes ==
    ASSUME FlowInv, Fade
    PROVE  /\ pc = "Fade" /\ pc' = "frame" /\ fadeStep
           /\ \/ FadeEnds
              \/ /\ UNCHANGED <<currentScene, _currentLevel>>
                 /\ \/ ~_fadingIn'
                    \/ _fadingIn' /\ UNCHANGED _fadeTime /\ _fadingIn
                                  /\ currentScene # "SceneTransition"
                    \/ _fadingIn' /\ _fadeTime' <= MaxDt /\ ~_fadingIn
                    \/ _fadingIn' /\ _fadingIn /\ _fadeTime' = _fadeTime + dt
                                  /\ currentScene = "SceneTransition"
<1> USE TimingAssumption, FramesAssumption DEF FlowInv
<1>1. CASE FadeWaits
  BY <1>1 DEF FadeWaits, At, fadeVars
<1>2. CASE FadeOut
  <2>1. pc = "Fade" /\ pc' = "frame" /\ fadeStep /\ UNCHANGED <<currentScene, _currentLevel>>
        /\ ~_fadingIn /\ _fadingOut
    BY <1>2 DEF FadeOut, At
  <2>2. CASE _fadeTime + dt >= FADE_OUT_TIME
    <3>1. _fadeTime' = 0 /\ 0 <= MaxDt
      BY <1>2, <2>2 DEF FadeOut
    <3> QED BY <2>1, <3>1, Zenon
  <2>3. CASE ~(_fadeTime + dt >= FADE_OUT_TIME)
    <3>1. UNCHANGED _fadingIn
      BY <1>2, <2>3 DEF FadeOut
    <3> QED BY <2>1, <3>1, Zenon
  <2> QED BY <2>2, <2>3
<1>3. CASE FadeIn
  <2> DEFINE time == IF _fadingIn THEN _fadeTime + dt ELSE dt
  <2>1. time \in Nat /\ dt \in Nat /\ dt <= MaxDt /\ _fadeTime \in Nat
    BY DEF TypeOK
  <2>2. pc = "Fade" /\ pc' = "frame" /\ fadeStep
    BY <1>3 DEF FadeIn, At
  <2>3. IF time >= FADE_IN_TIME
        THEN _fadingIn' = FALSE /\ _fadingOut' = TRUE /\ _fadeTime' = 0 /\ changeScene
        ELSE /\ _fadingIn' = TRUE /\ _fadeTime' = time
             /\ UNCHANGED <<currentScene, _fadingOut, _currentLevel>>
    BY <1>3, Zenon DEF FadeIn
  <2>4. _fadingIn => currentScene = "SceneTransition"
    BY <1>3 DEF FadeIn, ScenesAgree
  <2>5. _fadingIn => time = _fadeTime + dt
    OBVIOUS
  <2>6. ~_fadingIn => time <= MaxDt
    BY <2>1
  <2> HIDE DEF time
  <2>7. CASE time >= FADE_IN_TIME
    <3>1. currentScene = "SceneTransition" /\ _fadingIn /\ _fadeTime + dt >= FADE_IN_TIME
      BY <2>1, <2>4, <2>5, <2>6, <2>7
    <3>2. _currentLevel \in 1..3
      BY <3>1 DEF ScenesAgree, TypeOK
    <3>3. changeScene /\ ~_fadingIn'
      BY <2>3, <2>7, Zenon
    <3>4. _currentLevel' = _currentLevel + 1 /\ currentScene' = Story[2 * _currentLevel + 1]
      BY <3>2, <3>3 DEF changeScene, Story
    <3>5. FadeEnds
      BY <3>1, <3>2, <3>3, <3>4 DEF FadeEnds
    <3> QED BY <2>2, <3>5
  <2>8. CASE ~(time >= FADE_IN_TIME)
    <3>1. _fadingIn' /\ _fadeTime' = time /\ UNCHANGED <<currentScene, _currentLevel>>
      BY <2>3, <2>8, Zenon
    <3> QED BY <2>2, <2>4, <2>5, <2>6, <3>1, Zenon
  <2> QED BY <2>7, <2>8
<1> QED BY <1>1, <1>2, <1>3 DEF Fade

-----------------------------------------------------------------------------
(* Each step keeps what the others know.                                    *)

Follows == /\ StackFollows /\ FadeSlow /\ BackgroundFollows /\ CreditsOnce
           /\ ClocksRun /\ WavesFollow

\* The current scene is the one at its place in the story.
LEMMA PlaceOf ==
    ASSUME FlowInv
    PROVE  /\ Place \in 1..7 /\ currentScene = Story[Place]
           /\ _currentLevel \in 1..4
           /\ currentScene \in Level => Number(BossOf(currentScene)) = _currentLevel
                                          /\ BossOf(currentScene) \in Boss
           /\ currentScene \in Level => LastLevel = currentScene
           /\ currentScene \in Level \cup {"SceneTransition", "CreditScene"}
<1>1. currentScene \in SceneName /\ _currentLevel \in 1..4
  BY DEF FlowInv, TypeOK
<1>2. currentScene \in Level \cup {"SceneTransition", "CreditScene"}
  BY <1>1 DEF SceneName
<1>3. CASE currentScene \in Level
  BY <1>1, <1>3 DEF FlowInv, ScenesAgree, Level, Place, Story, BossOf, Number, Boss,
     LastLevel
<1>4. CASE currentScene = "SceneTransition"
  BY <1>1, <1>4 DEF FlowInv, ScenesAgree, Level, Place, Story
<1>5. CASE currentScene = "CreditScene"
  BY <1>1, <1>5 DEF FlowInv, ScenesAgree, Level, Place, Story
<1> QED BY <1>1, <1>2, <1>3, <1>4, <1>5

\* Between two frames the boss and both waves stand before their turns.
LEMMA BetweenPlaces ==
    ASSUME pc \in Between
    PROVE  \A b, w : pc \in UpTo(b) /\ pc \in Waved(w) /\ Due(w, b) = _sceneTime[w]
BY DEF UpTo, Waved, Due

LEMMA BeginFollows ==
    ASSUME FollowInv, BeginFrame
    PROVE  Follows'
<1>1. /\ pc = "frame" /\ pc' = "SceneManager" /\ pc \in Between /\ pc' \in Between
      /\ UNCHANGED <<sceneVars, managerVars, fadeVars, bossVars, waveVars, shownVars>>
  BY DEF BeginFrame, At, Between
<1>2. StackFollows' /\ FadeSlow'
  BY <1>1 DEF FollowInv, StackFollows, FadeSlow, Place, Seen, sceneVars, managerVars,
     fadeVars
<1>3. BackgroundFollows' /\ CreditsOnce'
  BY <1>1 DEF FollowInv, BackgroundFollows, CreditsOnce, LastLevel, UpTo, sceneVars,
     fadeVars, bossVars, shownVars
<1>4. ClocksRun'
  <2>1. ~clientConnected' => dt' = 0 /\ ~clientConnected
    BY Zenon DEF BeginFrame
  <2>2. clientConnected' => dt' > 0
    BY TimingAssumption DEF BeginFrame
  <2> QED BY <1>1, <2>1, <2>2 DEF FollowInv, ClocksRun, fadeVars, bossVars
<1>5. WavesFollow'
  BY <1>1, BetweenPlaces DEF FollowInv, WavesFollow, Place, Seen, Due, Waved, UpTo,
     sceneVars, managerVars, fadeVars, bossVars, waveVars
<1> QED BY <1>2, <1>3, <1>4, <1>5 DEF Follows

LEMMA EmptyHasNone == Len(<< >>) = 0
OBVIOUS

\* The manager sees a scene exactly if it had not seen it.
LEMMA ManagerFollows ==
    ASSUME FollowInv, SceneManagerSystem
    PROVE  Follows'
<1> DEFINE changed == currentScene # _lastSceneName
<1>1. /\ pc = "SceneManager" /\ pc \in Between
      /\ pc' = IF _scenesStack = << >> THEN "frame" ELSE "CovBoss"
      /\ isResetting' = (changed \/ (isResetting /\ currentScene = "SceneTransition"))
      /\ _lastSceneName' = currentScene
      /\ _scenesStack' = IF changed THEN Append(_scenesStack, currentScene)
                                    ELSE _scenesStack
      /\ UNCHANGED <<dt, clientConnected, currentScene, fadeVars, bossVars, waveVars,
                     shownVars>>
  BY DEF SceneManagerSystem, At, Between, mainVars
<1>2. /\ _scenesStack \in Seq(SceneName) /\ currentScene \in SceneName
      /\ Len(_scenesStack) \in Nat
  BY DEF FollowInv, FlowInv, TypeOK
<1>3. /\ Place \in 1..7 /\ currentScene = Story[Place] /\ _currentLevel \in 1..4
  BY PlaceOf DEF FollowInv
<1>4. Place' = Place
  BY <1>1 DEF Place, fadeVars
<1>5. /\ Len(_scenesStack) \in {Place - 1, Place}
      /\ \A i \in 1..Len(_scenesStack) : _scenesStack[i] = Story[i]
      /\ _lastSceneName = IF Len(_scenesStack) = 0 THEN "none" ELSE Story[Len(_scenesStack)]
  BY DEF FollowInv, StackFollows
<1>6. changed <=> Len(_scenesStack) = Place - 1
  <2>1. CASE Len(_scenesStack) = 0
    BY <1>2, <1>3, <1>5, <2>1 DEF SceneName, Level
  <2>2. CASE Len(_scenesStack) # 0
    <3>1. _lastSceneName = Story[Len(_scenesStack)]
      BY <1>5, <2>2
    <3>2. Place > 1 => Story[Place - 1] # Story[Place]
      BY <1>3 DEF Story
    <3> QED BY <1>2, <1>3, <1>5, <2>2, <3>1, <3>2
  <2> QED BY <2>1, <2>2
<1> HIDE DEF changed
<1>7. /\ Len(_scenesStack') = Place
      /\ \A i \in 1..Len(_scenesStack') : _scenesStack'[i] = Story[i]
  <2>1. CASE changed
    <3>1. _scenesStack' = Append(_scenesStack, currentScene)
      BY <1>1, <2>1
    <3> QED BY <1>2, <1>3, <1>5, <1>6, <2>1, <3>1
  <2>2. CASE ~changed
    BY <1>1, <1>3, <1>5, <1>6, <2>2
  <2> QED BY <2>1, <2>2
<1>8. Seen' /\ (Seen <=> ~changed)
  BY <1>3, <1>4, <1>5, <1>6, <1>7 DEF Seen
<1>9. StackFollows'
  BY <1>1, <1>3, <1>4, <1>7, <1>8 DEF StackFollows, Between
<1>10. FadeSlow'
  <2>1. currentScene = "SceneTransition" => isResetting'
    BY <1>1, <1>8 DEF FollowInv, FadeSlow
  <2> QED BY <1>1, <1>8, <2>1 DEF FollowInv, FadeSlow, fadeVars
<1>11. BackgroundFollows' /\ CreditsOnce'
  <2>1. \A b : pc \in UpTo(b)
    BY <1>1, BetweenPlaces
  <2> QED
    BY <1>1, <2>1 DEF FollowInv, BackgroundFollows, CreditsOnce, LastLevel, fadeVars,
       bossVars, shownVars
<1>12. ClocksRun'
  BY <1>1 DEF FollowInv, ClocksRun, fadeVars, bossVars
<1>13. WavesFollow'
  <2>1. \A w, b : Due(w, b) = _sceneTime[w] /\ Due(w, b)' = _sceneTime[w]
    BY <1>1, BetweenPlaces DEF Due, UpTo, Between, waveVars
  <2>2. currentScene = "SceneTransition" => pc' = "CovBoss"
    <3>1. currentScene = "SceneTransition" => Place >= 2
      BY <1>3 DEF Place
    <3>2. currentScene = "SceneTransition" => _scenesStack # << >>
      BY <1>3, <1>5, <3>1, EmptyHasNone
    <3> QED BY <1>1, <3>2
  <2>3. pc' = "CovBoss" => \A w : pc' \notin Waved(w)
    BY DEF Waved, Between
  <2>4. \A w : Waved(w)' = Waved(w)
    BY DEF Waved
  <2> QED BY <1>1, <2>1, <2>2, <2>3, <2>4 DEF FollowInv, WavesFollow, bossVars
<1> QED BY <1>9, <1>10, <1>11, <1>12, <1>13 DEF Follows

\* The order of clocks is kept by a tick.
LEMMA AdvancedOrder ==
    ASSUME FlowInv, NEW s \in 0..TimeCap, NEW t \in 0..TimeCap
    PROVE  /\ s <= t => Advanced(s) <= Advanced(t)
           /\ s <= t + MaxDt => Advanced(s) <= Advanced(t) + MaxDt
           /\ s <= Advanced(s)
           /\ Advanced(s) <= s + MaxDt
           /\ dt = 0 => Advanced(s) = s
           /\ Advanced(s) \in 0..TimeCap
BY TimingAssumption DEF FlowInv, TypeOK, Advanced

LEMMA BossFollows ==
    ASSUME FollowInv, BossTurn
    PROVE  Follows'
<1> USE DEF FollowInv
<1>1. /\ pc \in {"CovBoss", "Shrimp", "Gorgia", "Collision"}
      /\ pc' \in {"Shrimp", "Gorgia", "Collision", "Bydos"}
      /\ UNCHANGED <<mainVars, isResetting, managerVars, fadeVars, waveVars, shownVars>>
      /\ Seen \/ currentScene = "SceneTransition"
      /\ Len(_scenesStack) # 0
  BY BossPlaces DEF bossStep, StackFollows, Between
<1>2. UNCHANGED currentScene \/ BossLeaves
  BY BossScene
<1>3. /\ Place \in 1..7 /\ _currentLevel \in 1..4
      /\ currentScene \in Level => Number(BossOf(currentScene)) = _currentLevel
                                     /\ BossOf(currentScene) \in Boss
      /\ currentScene \in Level => LastLevel = currentScene
  BY PlaceOf
<1>4. pc \notin Between /\ pc' \notin Between /\ \A w : pc' \notin Waved(w)
  BY <1>1 DEF Between, Waved
<1>5. BossLeaves => Place' = Place + 1 /\ Seen /\ ~Seen'
  <2> SUFFICES ASSUME BossLeaves PROVE Place' = Place + 1 /\ Seen /\ ~Seen'
    OBVIOUS
  <2>1. /\ currentScene # "SceneTransition" /\ currentScene' = "SceneTransition"
        /\ _currentLevel' = _currentLevel
    BY <1>1 DEF BossLeaves, Level, fadeVars
  <2>2. Place' = Place + 1
    BY <1>3, <2>1 DEF Place
  <2> QED BY <1>1, <1>3, <2>1, <2>2 DEF Seen, managerVars
<1>6. UNCHANGED currentScene => Place' = Place /\ (Seen' <=> Seen)
  BY <1>1 DEF Place, Seen, fadeVars, managerVars
<1>7. StackFollows'
  <2>1. Len(_scenesStack') \in {Place' - 1, Place'} /\ Len(_scenesStack') # 0
    BY <1>1, <1>2, <1>3, <1>5, <1>6 DEF StackFollows, Seen, managerVars
  <2>2. Seen' \/ currentScene' = "SceneTransition"
    BY <1>1, <1>2, <1>6 DEF BossLeaves
  <2> QED BY <1>1, <2>1, <2>2 DEF StackFollows, managerVars
<1>8. FadeSlow'
  <2>1. CASE UNCHANGED currentScene
    BY <1>1, <1>4, <1>6, <2>1 DEF FadeSlow, fadeVars
  <2>2. CASE BossLeaves
    <3>1. currentScene # "SceneTransition" /\ currentScene' = "SceneTransition"
      BY <2>2 DEF BossLeaves, Level
    <3> QED BY <1>1, <1>4, <1>5, <2>2, <3>1 DEF FadeSlow, fadeVars
  <2> QED BY <1>2, <2>1, <2>2
<1>9. BackgroundFollows'
  <2>1. /\ LastLevel' = LastLevel /\ background' = background
        /\ _parallaxScene' = _parallaxScene /\ pc' # "Fade"
    BY <1>1 DEF LastLevel, fadeVars, shownVars
  <2>2. CASE UNCHANGED currentScene
    <3>1. ASSUME NEW b \in Boss, pc' \in UpTo(b), pc \in UpTo(b) => ~_bossSpawned[b]
          PROVE  ~_bossSpawned'[b]
      <4>1. pc \in UpTo(b) /\ pc # Turn(b)
        BY <1>1, <3>1, BossPlaces DEF UpTo, Turn, Between, Boss
      <4> QED BY <3>1, <4>1, BossSeen
    <3>2. \A b : UpTo(b)' = UpTo(b)
      BY DEF UpTo
    <3> QED BY <1>3, <2>1, <2>2, <3>1, <3>2 DEF BackgroundFollows
  <2>3. CASE BossLeaves
    <3>1. pc \in UpTo(BossOf(currentScene))
      BY <1>3, <2>3 DEF BossLeaves, Turn, UpTo, Boss
    <3> QED BY <2>1, <2>3, <3>1 DEF BackgroundFollows, BossLeaves
  <2> QED BY <1>2, <2>2, <2>3
<1>10. CreditsOnce'
  <2>1. currentScene = "CreditScene" => UNCHANGED currentScene
    BY <1>2 DEF BossLeaves, Level
  <2> QED BY <1>1, <2>1 DEF CreditsOnce, shownVars
<1>11. ClocksRun'
  <2>1. clock \in [Boss -> 0..TimeCap] /\ SpawnTiming \in [Boss -> Nat]
    BY TimingAssumption DEF FlowInv, TypeOK
  <2>2. ASSUME NEW b \in Boss
        PROVE  /\ dt = 0 => clock'[b] = clock[b]
               /\ clock'[b] >= clock[b] /\ clock'[b] \in Int
    <3>1. clock[b] \in 0..TimeCap
      BY <2>1
    <3> QED BY <3>1, AdvancedOrder, BossClocks
  <2>3. ASSUME NEW b \in Boss, _bossSpawned'[b]
        PROVE  clock'[b] >= SpawnTiming[b]
    <3>1. clock[b] \in Int /\ SpawnTiming[b] \in Int
      BY <2>1
    <3> QED BY <2>2, <2>3, <3>1, BossSeen DEF ClocksRun
  <2>4. ASSUME NEW b \in {"Shrimp", "Covid"}, Number(b) > _currentLevel
        PROVE  clock'[b] = 0
    <3>1. b \in Boss /\ b # "Gorgia" /\ Number(b) \in Nat
      BY DEF Boss, Number
    <3>2. ~(currentScene \in Level /\ b = BossOf(currentScene))
      BY <1>3, <2>4, <3>1
    <3> QED BY <2>4, <3>1, <3>2, BossClocks DEF ClocksRun
  <2> QED BY <1>1, <2>2, <2>3, <2>4 DEF ClocksRun, mainVars, fadeVars
<1>12. WavesFollow'
  <2>1. ~(currentScene' = "SceneTransition" /\ Seen' /\ \E w : pc' \in Waved(w))
    BY <1>4
  <2>2. CASE BossLeaves
    <3>1. currentScene' \notin Level
      BY <2>2 DEF BossLeaves, Level
    <3> QED BY <1>4, <3>1 DEF WavesFollow, Waved
  <2>3. CASE UNCHANGED currentScene /\ currentScene \in Level
    <3> DEFINE b == BossOf(currentScene)
    <3>1. b \in Boss
      BY <1>3, <2>3
    <3>2. clock[b] \in 0..TimeCap
      BY <3>1 DEF FlowInv, TypeOK
    <3> SUFFICES ASSUME NEW w \in WaveAI
                 PROVE  /\ clock'[b] <= Due(w, b)'
                        /\ currentScene # "LevelOne" => Due(w, b)' <= clock'[b] + MaxDt
      BY <1>4, <2>3 DEF WavesFollow, Waved
    <3>3. _sceneTime[w] \in 0..TimeCap /\ _sceneTime' = _sceneTime /\ dt' = dt
      BY <1>1 DEF FlowInv, TypeOK, waveVars, mainVars
    <3>4. /\ clock[b] <= Due(w, b)
          /\ currentScene # "LevelOne" => Due(w, b) <= clock[b] + MaxDt
      BY <2>3 DEF WavesFollow
    <3>5. pc \notin Waved(w) /\ pc' \notin Waved(w)
      BY <1>1 DEF Waved, Between
    <3>6. Waved(w)' = Waved(w) /\ UpTo(b)' = UpTo(b) /\ b' = b
      BY <2>3 DEF Waved, UpTo
    <3>7. Advanced(_sceneTime[w])' = Advanced(_sceneTime[w])
      BY <3>3 DEF Advanced
    <3>8. CASE pc = Turn(b)
      <4>1. clock'[b] = Advanced(clock[b])
        BY <2>3, <3>1, <3>8, BossClocks
      <4>2. pc \in UpTo(b) /\ pc' \notin UpTo(b)
        BY <3>1, <3>8, BossPlaces DEF Turn, UpTo, Between, Boss
      <4>3. Due(w, b) = _sceneTime[w] /\ Due(w, b)' = Advanced(_sceneTime[w])
        BY <3>3, <3>5, <3>6, <3>7, <4>2 DEF Due
      <4> HIDE DEF b
      <4> QED BY <3>2, <3>3, <3>4, <4>1, <4>3, AdvancedOrder
    <3>9. CASE pc # Turn(b)
      <4>1. clock'[b] = clock[b]
        BY <3>1, <3>9, BossClocks
      <4>2. pc \in UpTo(b) <=> pc' \in UpTo(b)
        BY <3>1, <3>9, BossPlaces DEF Turn, UpTo, Between, Boss
      <4>3. Due(w, b)' = Due(w, b)
        BY <3>3, <3>5, <3>6, <3>7, <4>2 DEF Due
      <4> QED BY <3>4, <4>1, <4>3
    <3> QED BY <3>8, <3>9
  <2>4. CASE UNCHANGED currentScene /\ currentScene \notin Level
    BY <1>4, <2>4 DEF WavesFollow, Waved
  <2> QED BY <1>2, <2>2, <2>3, <2>4
<1> QED BY <1>7, <1>8, <1>9, <1>10, <1>11, <1>12 DEF Follows

\* A wave counts this frame at its turn; in a transition its clock starts again.
LEMMA WaveFollows ==
    ASSUME FollowInv, NEW v \in WaveAI, NEW next,
           <<v, next>> \in {<<"Bydos", "Robot">>, <<"Robot", "Credit">>}, Wave(v, next)
    PROVE  Follows'
<1> USE DEF FollowInv
<1>0. (v = "Bydos" /\ next = "Robot") \/ (v = "Robot" /\ next = "Credit")
  OBVIOUS
<1>1. /\ pc = v /\ pc' = next
      /\ UNCHANGED <<mainVars, sceneVars, managerVars, fadeVars, bossVars, shownVars>>
      /\ pc \notin Between /\ pc' \notin Between
  BY <1>0 DEF Wave, At, Between
<1>2. Place' = Place /\ (Seen' <=> Seen) /\ LastLevel' = LastLevel
  BY <1>1 DEF Place, Seen, LastLevel, sceneVars, managerVars, fadeVars
<1>3. StackFollows' /\ FadeSlow'
  BY <1>1, <1>2 DEF StackFollows, FadeSlow, sceneVars, managerVars, fadeVars
<1>4. BackgroundFollows'
  <2>1. pc' # "Fade" /\ \A b : pc' \notin UpTo(b)
    BY <1>0, <1>1 DEF UpTo, Between
  <2> QED
    BY <1>1, <1>2, <2>1 DEF BackgroundFollows, UpTo, sceneVars, bossVars, shownVars
<1>5. CreditsOnce'
  BY <1>0, <1>1 DEF CreditsOnce, sceneVars, shownVars
<1>6. ClocksRun'
  BY <1>0, <1>1 DEF ClocksRun, mainVars, fadeVars, bossVars
<1>7. _sceneTime' = [_sceneTime EXCEPT ![v] = Advanced(resetScene(v))]
  BY DEF Wave, Advanced
<1>8. _sceneTime \in [WaveAI -> 0..TimeCap]
  BY DEF FlowInv, TypeOK
<1>9. WavesFollow'
  <2>1. ASSUME NEW w \in WaveAI, currentScene \in Level
        PROVE  Due(w, BossOf(currentScene))' = Due(w, BossOf(currentScene))
    <3> DEFINE b == BossOf(currentScene)
    <3>1. UNCHANGED <<dt, currentScene>> /\ b' = b
      BY <1>1 DEF mainVars, sceneVars
    <3>2. pc \notin UpTo(b) /\ pc' \notin UpTo(b)
      BY <1>0, <1>1 DEF UpTo, Between
    <3>3. CASE w = v
      <4>1. pc \notin Waved(w) /\ pc' \in Waved(w)
        BY <1>0, <1>1, <3>3 DEF Waved, Between
      <4>2. _sceneTime'[w] = Advanced(_sceneTime[w])
        BY <1>7, <1>8, <2>1, <3>3 DEF resetScene, Level
      <4> QED BY <3>1, <3>2, <4>1, <4>2 DEF Due, Waved, UpTo
    <3>4. CASE w # v
      <4>1. pc \in Waved(w) <=> pc' \in Waved(w)
        BY <1>0, <1>1, <3>4 DEF Waved, Between, WaveAI
      <4>2. _sceneTime'[w] = _sceneTime[w]
        BY <1>7, <1>8, <3>4
      <4>3. Advanced(_sceneTime[w])' = Advanced(_sceneTime[w])
        BY <3>1, <4>2 DEF Advanced
      <4> QED BY <3>1, <3>2, <4>1, <4>2, <4>3 DEF Due, Waved, UpTo
    <3> QED BY <3>3, <3>4
  <2>2. ASSUME NEW w \in WaveAI, currentScene = "SceneTransition", Seen, pc' \in Waved(w)
        PROVE  _sceneTime'[w] <= MaxDt
    <3>1. CASE w = v
      <4>1. resetScene(w) = 0
        BY <2>2 DEF FadeSlow, resetScene
      <4>2. Advanced(0) <= 0 + MaxDt
        BY AdvancedOrder, TimingAssumption
      <4> QED BY <1>7, <1>8, <3>1, <4>1, <4>2, TimingAssumption
    <3>2. CASE w # v
      <4>1. pc \in Waved(w)
        BY <1>0, <1>1, <2>2, <3>2 DEF Waved, Between, WaveAI
      <4> QED BY <1>7, <1>8, <2>2, <3>2, <4>1 DEF WavesFollow
    <3> QED BY <3>1, <3>2
  <2>3. UNCHANGED <<currentScene, clock>> /\ \A w : Waved(w)' = Waved(w)
    BY <1>1 DEF sceneVars, bossVars, Waved
  <2>4. BossOf(currentScene)' = BossOf(currentScene)
    BY <2>3
  <2> QED BY <1>2, <2>1, <2>2, <2>3, <2>4 DEF WavesFollow
<1> QED BY <1>3, <1>4, <1>5, <1>6, <1>9 DEF Follows

\* After the waves the clocks stand still and the places mean the same.
LEMMA ShownFollows ==
    ASSUME FollowInv, CreditSceneSystem \/ ParallaxSystem
    PROVE  Follows'
<1> USE DEF FollowInv
<1>1. /\ UNCHANGED <<mainVars, sceneVars, managerVars, fadeVars, bossVars, waveVars>>
      /\ (pc = "Credit" /\ pc' = "Parallax") \/ (pc = "Parallax" /\ pc' = "Fade")
  BY DEF CreditSceneSystem, ParallaxSystem, At
<1>2. Place' = Place /\ (Seen' <=> Seen) /\ LastLevel' = LastLevel
  BY <1>1 DEF Place, Seen, LastLevel, sceneVars, managerVars, fadeVars
<1>3. pc \notin Between /\ pc' \notin Between /\ \A b : pc' \notin UpTo(b)
  BY <1>1 DEF Between, UpTo
<1>4. StackFollows' /\ FadeSlow'
  BY <1>1, <1>2, <1>3 DEF StackFollows, FadeSlow, sceneVars, managerVars, fadeVars
<1>5. ClocksRun'
  BY <1>1 DEF ClocksRun, mainVars, fadeVars, bossVars
<1>6. WavesFollow'
  <2>1. \A w : pc \in Waved(w) /\ pc' \in Waved(w)
    BY <1>1 DEF Waved
  <2> QED
    BY <1>1, <1>2, <2>1 DEF WavesFollow, Due, Waved, sceneVars, bossVars, waveVars
<1>7. BackgroundFollows' /\ CreditsOnce'
  <2>1. CASE CreditSceneSystem
    <3>1. /\ UNCHANGED <<currentScene, _bossSpawned, _parallaxScene, background>>
          /\ pc' = "Parallax"
      BY <2>1 DEF CreditSceneSystem, At, sceneVars, bossVars
    <3>2. BackgroundFollows'
      BY <1>2, <1>3, <3>1 DEF BackgroundFollows, UpTo
    <3>3. CreditsOnce'
      <4>1. _textSpawned' <=> currentScene = "CreditScene"
        BY <2>1, Zenon DEF CreditSceneSystem
      <4>2. texts' = IF currentScene = "CreditScene" /\ ~_textSpawned THEN texts + 1
                                                                     ELSE texts
        BY <2>1 DEF CreditSceneSystem
      <4> QED BY <3>1, <4>1, <4>2 DEF CreditsOnce
    <3> QED BY <3>2, <3>3
  <2>2. CASE ParallaxSystem
    <3>1. /\ UNCHANGED <<currentScene, _textSpawned, texts>>
          /\ pc = "Parallax" /\ pc' = "Fade"
      BY <2>2 DEF ParallaxSystem, At, sceneVars
    <3>2. CreditsOnce'
      BY <3>1 DEF CreditsOnce
    <3>3. background' = LastLevel /\ _parallaxScene' = currentScene
      <4>1. currentScene \in Level => LastLevel = currentScene
        BY PlaceOf
      <4> QED
        BY <2>2, <4>1 DEF ParallaxSystem, setLevel, BackgroundFollows
    <3>4. BackgroundFollows'
      BY <1>2, <3>1, <3>3 DEF BackgroundFollows
    <3> QED BY <3>2, <3>4
  <2> QED BY <2>1, <2>2
<1> QED BY <1>4, <1>5, <1>6, <1>7 DEF Follows

\* A transition ends seen by the manager, with the waves' clocks just started.
LEMMA FadeFollows ==
    ASSUME FollowInv, Fade
    PROVE  Follows'
<1> USE DEF FollowInv
<1>1. /\ pc = "Fade" /\ pc' = "frame" /\ pc \notin Between /\ pc' \in Between
      /\ UNCHANGED <<mainVars, isResetting, managerVars, bossVars, waveVars, shownVars>>
  BY FadeDoes DEF Between, fadeStep
<1>2. /\ background = LastLevel /\ _parallaxScene = currentScene
      /\ \A w : pc \in Waved(w) /\ pc' \in Waved(w)
      /\ \A w, b : Due(w, b) = _sceneTime[w] /\ Due(w, b)' = _sceneTime[w]
  BY <1>1 DEF BackgroundFollows, Waved, Due, waveVars
<1>3. /\ Len(_scenesStack) # 0 /\ (Seen \/ currentScene = "SceneTransition")
      /\ _fadeTime \in Nat /\ dt \in 0..MaxDt /\ MaxDt \in Nat
      /\ Len(_scenesStack) \in Nat
  BY <1>1, TimingAssumption DEF StackFollows, FlowInv, TypeOK
<1>4. /\ ~clientConnected => dt = 0 /\ \A b \in Boss : clock[b] = 0
      /\ \A b \in Boss : _bossSpawned[b] => clock[b] >= SpawnTiming[b]
      /\ \A b \in {"Shrimp", "Covid"} : Number(b) > _currentLevel => clock[b] = 0
  BY DEF ClocksRun
<1>5. CASE FadeEnds
  <2>1. /\ currentScene = "SceneTransition" /\ _fadingIn /\ _currentLevel \in 1..3
        /\ _currentLevel' = _currentLevel + 1 /\ ~_fadingIn'
        /\ currentScene' = Story[2 * _currentLevel + 1]
        /\ _fadeTime + dt >= FADE_IN_TIME
    BY <1>5 DEF FadeEnds
  <2>2. Seen
    BY <1>1, <1>3, <2>1, FramesAssumption, TimingAssumption DEF FadeSlow
  <2>3. /\ _currentLevel = 1 => currentScene' = "LevelTwo"
        /\ _currentLevel = 2 => currentScene' = "LevelThree"
        /\ _currentLevel = 3 => currentScene' = "CreditScene"
    BY <2>1 DEF Story
  <2>4. currentScene' # "SceneTransition" /\ currentScene' # "LevelOne"
    BY <2>1, <2>3
  <2>5. Place = 2 * _currentLevel /\ Place' = Place + 1
    BY <2>1, <2>4 DEF Place
  <2>6. StackFollows'
    BY <1>1, <1>3, <2>2, <2>5 DEF StackFollows, Seen, managerVars
  <2>7. FadeSlow'
    BY <2>1, <2>4 DEF FadeSlow
  <2>8. currentScene' \in Level =>
          /\ BossOf(currentScene)' \in {"Shrimp", "Covid"}
          /\ Number(BossOf(currentScene)') = _currentLevel + 1
    BY <2>1, <2>3 DEF Level, BossOf, Number
  <2>9. BackgroundFollows'
    <3>1. currentScene' \in Level => ~_bossSpawned[BossOf(currentScene)']
      BY <2>1, <2>8 DEF FlowInv, BossesInTurn, Boss
    <3>2. currentScene' \notin Level => LastLevel' = LastLevel
      BY <2>1, <2>3 DEF LastLevel, Level
    <3> QED
      BY <1>1, <1>2, <2>1, <2>4, <3>1, <3>2 DEF BackgroundFollows, bossVars, shownVars
  <2>10. CreditsOnce'
    BY <1>1, <2>1 DEF CreditsOnce, shownVars
  <2>11. ClocksRun'
    <3>1. \A b \in {"Shrimp", "Covid"} : Number(b) \in Nat
      BY DEF Number
    <3> QED BY <1>1, <1>4, <2>1, <3>1 DEF ClocksRun, mainVars, bossVars
  <2>12. WavesFollow'
    <3>1. \A w \in WaveAI : _sceneTime[w] <= MaxDt /\ _sceneTime[w] \in Nat
      BY <1>2, <2>1, <2>2 DEF WavesFollow, FlowInv, TypeOK
    <3>2. currentScene' \in Level => clock[BossOf(currentScene)'] = 0
      BY <1>4, <2>1, <2>8
    <3> QED BY <1>1, <1>2, <2>4, <3>1, <3>2, <1>3 DEF WavesFollow, bossVars
  <2> QED BY <2>6, <2>7, <2>9, <2>10, <2>11, <2>12 DEF Follows
<1>6. CASE UNCHANGED <<currentScene, _currentLevel>>
  <2>1. Place' = Place /\ (Seen' <=> Seen) /\ LastLevel' = LastLevel
    BY <1>1, <1>6 DEF Place, Seen, LastLevel, managerVars
  <2>2. StackFollows'
    BY <1>1, <1>6, <2>1 DEF StackFollows, managerVars
  <2>3. FadeSlow'
    <3>1. /\ _fadingIn' /\ currentScene # "SceneTransition" => _fadeTime' <= MaxDt
          /\ _fadingIn' /\ currentScene = "SceneTransition" /\ ~Seen =>
                _fadeTime' <= 2 * MaxDt
      <4>1. CASE ~_fadingIn'
        BY <4>1
      <4>2. CASE _fadingIn' /\ UNCHANGED _fadeTime /\ _fadingIn
                            /\ currentScene # "SceneTransition"
        BY <4>2 DEF FadeSlow
      <4>3. CASE _fadingIn' /\ _fadeTime' <= MaxDt /\ ~_fadingIn
        <5>1. _fadeTime' \in Nat
          BY FadeKeeps DEF FlowInv, TypeOK
        <5> QED BY <1>3, <4>3, <5>1
      <4>4. CASE _fadingIn' /\ _fadingIn /\ _fadeTime' = _fadeTime + dt
                            /\ currentScene = "SceneTransition"
        BY <1>1, <1>3, <4>4 DEF FadeSlow
      <4> QED BY <1>6, <4>1, <4>2, <4>3, <4>4, FadeDoes DEF FadeEnds
    <3>2. UNCHANGED <<currentScene, isResetting>>
      BY <1>1, <1>6
    <3>3. Seen /\ currentScene = "SceneTransition" => isResetting
      BY DEF FadeSlow
    <3> QED BY <1>1, <2>1, <3>1, <3>2, <3>3 DEF FadeSlow
  <2>4. BackgroundFollows' /\ CreditsOnce'
    BY <1>1, <1>2, <1>6, <2>1 DEF BackgroundFollows, CreditsOnce, shownVars
  <2>5. ClocksRun'
    BY <1>1, <1>4, <1>6 DEF ClocksRun, mainVars, bossVars
  <2>6. WavesFollow'
    BY <1>1, <1>2, <1>6, <2>1 DEF WavesFollow, bossVars, waveVars
  <2> QED BY <2>2, <2>3, <2>4, <2>5, <2>6 DEF Follows
<1> QED BY <1>5, <1>6, FadeDoes

LEMMA FollowStep == FollowInv /\ [Next]_vars => FollowInv'
<1> SUFFICES ASSUME FollowInv, [Next]_vars PROVE FollowInv'
  OBVIOUS
<1>1. FlowInv'
  BY FlowStep DEF FollowInv
<1>2. Follows'
  <2>1. CASE BeginFrame
    BY <2>1, BeginFollows
  <2>2. CASE SceneManagerSystem
    BY <2>2, ManagerFollows
  <2>3. CASE Covid \/ Shrimp \/ Gorgia \/ CollisionSystem
    BY <2>3, BossFollows DEF BossTurn
  <2>4. CASE BydosAI \/ RobotAI
    BY <2>4, WaveFollows DEF BydosAI, RobotAI, WaveAI
  <2>5. CASE CreditSceneSystem \/ ParallaxSystem
    BY <2>5, ShownFollows
  <2>6. CASE Fade
    BY <2>6, FadeFollows
  <2>7. CASE UNCHANGED vars
    BY <2>7 DEF FollowInv, Follows, StackFollows, FadeSlow, BackgroundFollows,
       CreditsOnce, ClocksRun, WavesFollow, Place, Seen, LastLevel, UpTo, Waved, Due,
       Advanced, vars, mainVars, sceneVars, managerVars, fadeVars, bossVars, waveVars,
       shownVars
  <2> QED BY <2>1, <2>2, <2>3, <2>4, <2>5, <2>6, <2>7 DEF Next
<1> QED BY <1>1, <1>2 DEF FollowInv, Follows

\* Scene manager, fade, background, credits, bosses and waves stay in step,
\* although each looks at the scene at its own place of the frame.
THEOREM FollowersInStep == Spec => []FollowInv
BY FollowInit, FollowStep, PTL DEF Spec

\* The scene manager sees every scene once, in the order of the game; at the end
\* of a frame the background is that of the last level and the credits are shown
\* exactly in their scene.
THEOREM FlowFollowersAgree == Spec => []FollowersAgree
<1>1. FollowInv => FollowersAgree
  <2> SUFFICES ASSUME FollowInv PROVE FollowersAgree
    OBVIOUS
  <2>1. /\ Place \in 1..7 /\ _currentLevel \in 1..4 /\ currentScene = Story[Place]
        /\ currentScene \in Level \cup {"SceneTransition", "CreditScene"}
    BY PlaceOf DEF FollowInv
  <2>2. /\ Len(_scenesStack) \in {Place - 1, Place}
        /\ \A i \in 1..Len(_scenesStack) : _scenesStack[i] = Story[i]
    BY DEF FollowInv, StackFollows
  <2>3. ASSUME pc = "Fade"
        PROVE  /\ \E i \in 1..Len(_scenesStack) :
                     /\ background = _scenesStack[i]
                     /\ \A j \in (i + 1)..Len(_scenesStack) : _scenesStack[j] \notin Level
               /\ texts = IF currentScene = "CreditScene" THEN 1 ELSE 0
    <3>1. background = LastLevel /\ (Seen \/ currentScene = "SceneTransition")
      BY <2>3 DEF FollowInv, BackgroundFollows, StackFollows, Between
    <3>2. texts = IF currentScene = "CreditScene" THEN 1 ELSE 0
      BY <2>3 DEF FollowInv, CreditsOnce
    <3> DEFINE i == IF _currentLevel = 4 THEN 5 ELSE 2 * _currentLevel - 1
    <3>3. i \in 1..Len(_scenesStack) /\ background = Story[i]
      BY <2>1, <2>2, <3>1 DEF Seen, Place, LastLevel, Story, FollowInv, FlowInv, ScenesAgree
    <3>4. ASSUME NEW j \in (i + 1)..Len(_scenesStack) PROVE Story[j] \notin Level
      <4>1. CASE _currentLevel = 4
        <5>1. j \in {6, 7}
          BY <2>1, <2>2, <3>4, <4>1
        <5> QED BY <5>1 DEF Story, Level
      <4>2. CASE _currentLevel # 4
        <5>1. Place <= 2 * _currentLevel
          BY <2>1 DEF Place
        <5>2. j = 2 * _currentLevel /\ _currentLevel \in 1..3
          BY <2>1, <2>2, <3>4, <4>2, <5>1
        <5> QED BY <5>2 DEF Story, Level
      <4> QED BY <4>1, <4>2
    <3> HIDE DEF i
    <3>5. \A j \in (i + 1)..Len(_scenesStack) : _scenesStack[j] \notin Level
      BY <2>1, <2>2, <3>3, <3>4
    <3> QED BY <2>2, <3>2, <3>3, <3>5
  <2>4. Len(_scenesStack) <= 7
    BY <2>1, <2>2
  <2> QED BY <2>2, <2>3, <2>4 DEF FollowersAgree, Story
<1> QED BY <1>1, FollowersInStep, PTL

\* Between two frames of a later level the waves' clocks are at most one frame
\* ahead of the boss's: each transition restarts them.
THEOREM FlowWavesRestart == Spec => []WavesRestart
<1>1. FollowInv => WavesRestart
  <2> SUFFICES ASSUME FollowInv, pc = "frame", currentScene \in Level \ {"LevelOne"},
                      NEW w \in WaveAI
               PROVE  _sceneTime[w] <= clock[BossOf(currentScene)] + MaxDt
    BY DEF WavesRestart
  <2>1. Due(w, BossOf(currentScene)) = _sceneTime[w]
    BY BetweenPlaces DEF Between
  <2> QED BY <2>1 DEF FollowInv, WavesFollow
<1> QED BY <1>1, FollowersInStep, PTL

\* No wave spawns an enemy once the boss of the level is there: its clock is at
\* least the boss's, which has passed the time of the wave.
THEOREM FlowBossFightsAlone == Spec => BossFightsAlone
<1> DEFINE Step == \A w \in WaveAI :
                     pc = w /\ currentScene \in Level /\ _bossSpawned[BossOf(currentScene)] =>
                         _spawnTime'[w] > 0
<1>1. FollowInv /\ [Next]_vars => [Step]_vars
  <2> SUFFICES ASSUME FollowInv, Next, NEW w \in WaveAI, pc = w, currentScene \in Level,
                      _bossSpawned[BossOf(currentScene)]
               PROVE  _spawnTime'[w] > 0
    OBVIOUS
  <2> DEFINE b == BossOf(currentScene)
  <2>1. PICK next : Wave(w, next)
    <3>1. CASE BossTurn \/ Fade
      BY <3>1, BossPlaces, FadeDoes DEF WaveAI, FollowInv
    <3>2. CASE BeginFrame \/ SceneManagerSystem \/ CreditSceneSystem \/ ParallaxSystem
      BY <3>2 DEF BeginFrame, SceneManagerSystem, CreditSceneSystem, ParallaxSystem, At,
         WaveAI
    <3>3. CASE BydosAI \/ RobotAI
      <4>1. PICK v \in WaveAI, next \in {"Robot", "Credit"} : Wave(v, next)
        BY <3>3 DEF BydosAI, RobotAI, WaveAI
      <4>2. v = w
        BY <4>1 DEF Wave, At
      <4> QED BY <4>1, <4>2
    <3> QED BY <3>1, <3>2, <3>3 DEF Next, BossTurn
  <2>2. /\ b \in Boss /\ b = BossOf(currentScene)
    BY PlaceOf DEF FollowInv
  <2>3. /\ clock[b] \in Nat /\ SpawnTiming[b] \in Nat
        /\ _sceneTime[w] \in 0..TimeCap /\ _spawnTime[w] \in 0..TimeCap
        /\ SceneTiming[w][currentScene] \in Nat
        /\ TimeCap \in Nat /\ SpawnTiming[b] < TimeCap
        /\ SceneTiming[w][currentScene] < SpawnTiming[b]
    BY <2>2, TimingAssumption, WavesAssumption DEF FollowInv, FlowInv, TypeOK
  <2>4. clock[b] >= SpawnTiming[b]
    BY <2>2 DEF FollowInv, ClocksRun
  <2>5. pc \notin UpTo(b) \cup Waved(w)
    BY DEF UpTo, Waved, Between, WaveAI
  <2>6. clock[b] <= Advanced(_sceneTime[w])
    BY <2>5 DEF FollowInv, WavesFollow, Due
  <2>7. dt \in 1..MaxDt
    <3>1. clientConnected
      <4>1. SpawnTiming[b] > 0
        BY <2>3
      <4> QED BY <2>2, <2>3, <2>4, <4>1 DEF FollowInv, ClocksRun
    <3> QED
      BY <3>1, TimingAssumption DEF FollowInv, ClocksRun, FlowInv, TypeOK, WaveAI
  <2>8. _sceneTime'[w] = Advanced(_sceneTime[w])
    BY <2>1, <2>3 DEF Wave, resetScene, Advanced, Level, FollowInv, FlowInv, TypeOK
  <2>9. ~(_sceneTime'[w] <= Timing(SceneTiming, w))
    <3>1. Advanced(_sceneTime[w]) \in Nat
      BY <2>3, AdvancedOrder DEF FollowInv
    <3> QED BY <2>3, <2>4, <2>6, <2>8, <3>1 DEF Timing
  <2>10. _spawnTime'[w] = Advanced(_spawnTime[w])
    BY <2>1, <2>9 DEF Wave, FollowInv, FlowInv, TypeOK
  <2> QED BY <2>3, <2>7, <2>10 DEF Advanced
<1>2. Spec => [][Step]_vars
  BY <1>1, FollowersInStep, PTL DEF Spec
<1> QED BY <1>2 DEF BossFightsAlone

=============================================================================
