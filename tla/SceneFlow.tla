----------------------------- MODULE SceneFlow -----------------------------
(***************************************************************************)
(* The flow of the game on the server: the scene manager, the fade, the    *)
(* three bosses, the waves, the credits and the background, which read and *)
(* write one Scene component.  Registry::runSystems calls them once a      *)
(* frame, in the order of registration (main.cpp, RTypeScenes.hpp), each   *)
(* with the same dt; pc is the system that is next.                        *)
(*                                                                         *)
(* Time is counted in units.  Clocks stop at TimeCap, above every value    *)
(* they are compared with.  What happens between a boss and the missiles   *)
(* is one choice per frame, hit.  Positions, sounds, scores and the fade's *)
(* colours are left out, and nextParallax, which ParallaxSystem never uses *)
(* (it waits for a name of one letter), and isPaused, which nothing sets.  *)
(***************************************************************************)
EXTENDS Integers, Sequences

Level == {"LevelOne", "LevelTwo", "LevelThree"}
SceneName == Level \cup {"SceneTransition", "CreditScene"}
Boss == {"Gorgia", "Shrimp", "Covid"}
WaveAI == {"Bydos", "Robot"}
BossOf(l) == CASE l = "LevelOne" -> "Gorgia" [] l = "LevelTwo" -> "Shrimp"
               [] l = "LevelThree" -> "Covid"

CONSTANTS
    SpawnTiming,     \* boss -> time after which it comes
    BossHealth,      \* boss -> hits it takes
    Approach,        \* time the shrimp takes to its place
    SceneTiming,     \* wave -> level -> time the wave lasts
    EnemyTiming,     \* wave -> level -> time between two enemies
    FADE_IN_TIME, FADE_OUT_TIME,
    TimeCap,         \* bound: where clocks stop
    MaxDt            \* bound: the longest frame

ASSUME TimingAssumption ==
    /\ SpawnTiming \in [Boss -> Nat] /\ BossHealth \in [Boss -> Nat \ {0}]
    /\ SceneTiming \in [WaveAI -> [Level -> Nat]]
    /\ EnemyTiming \in [WaveAI -> [Level -> Nat]]
    /\ Approach \in Nat /\ FADE_IN_TIME \in Nat /\ FADE_OUT_TIME \in Nat
    /\ TimeCap \in Nat /\ MaxDt \in Nat \ {0}
    /\ \A b \in Boss : SpawnTiming[b] < TimeCap
    /\ \A w \in WaveAI, l \in Level : SceneTiming[w][l] < TimeCap

\* The waves of a level end before its boss comes (Robot: 58 < 63, 50 < 55,
\* 60 < 63; Bydos: 60, 50, 60).
ASSUME WavesAssumption ==
    \A w \in WaveAI, l \in Level : SceneTiming[w][l] < SpawnTiming[BossOf(l)]

\* Two frames are shorter than a fade (4 s).  A longer frame may change the
\* scene twice behind the scene manager's back.
ASSUME FramesAssumption == 2 * MaxDt < FADE_IN_TIME

VARIABLES
    pc, dt, clientConnected,                      \* main
    currentScene, isResetting,                    \* Scene
    _lastSceneName, _scenesStack,                 \* SceneManager(System)
    _fadingIn, _fadingOut, _fadeTime, _currentLevel,   \* FadeTransitionSystem
    clock, _bossSpawned, entity, hp, hit,         \* bosses: functions on Boss
    travel, inPosition,                           \* ShrimpBoss
    _spawnTime, _sceneTime,                       \* waves: functions on WaveAI
    _textSpawned, texts,                          \* CreditSceneSystem
    _parallaxScene, background                    \* ParallaxSystem

mainVars == <<dt, clientConnected>>
sceneVars == <<currentScene, isResetting>>
managerVars == <<_lastSceneName, _scenesStack>>
fadeVars == <<_fadingIn, _fadingOut, _fadeTime, _currentLevel>>
bossVars == <<clock, _bossSpawned, entity, hp, hit, travel, inPosition>>
waveVars == <<_spawnTime, _sceneTime>>
shownVars == <<_textSpawned, texts, _parallaxScene, background>>
vars == <<pc, mainVars, sceneVars, managerVars, fadeVars, bossVars, waveVars,
          shownVars>>

Init ==
    /\ pc = "frame" /\ dt = 0 /\ clientConnected = FALSE
    /\ currentScene = "LevelOne" /\ isResetting = FALSE
    /\ _lastSceneName = "none" /\ _scenesStack = << >>
    /\ _fadingIn = FALSE /\ _fadingOut = FALSE /\ _fadeTime = 0 /\ _currentLevel = 1
    /\ clock = [b \in Boss |-> 0] /\ _bossSpawned = [b \in Boss |-> FALSE]
    /\ entity = [b \in Boss |-> "none"] /\ hp = [b \in Boss |-> 0]
    /\ hit = [b \in Boss |-> FALSE] /\ travel = Approach /\ inPosition = FALSE
    /\ _spawnTime = [w \in WaveAI |-> 0] /\ _sceneTime = [w \in WaveAI |-> 0]
    /\ _textSpawned = FALSE /\ texts = 0
    /\ _parallaxScene = "none" /\ background = "none"

At(system, next) == pc = system /\ pc' = next
Advanced(t) == IF t + dt <= TimeCap THEN t + dt ELSE TimeCap

-----------------------------------------------------------------------------
(* main() and SceneManagerSystem.                                           *)

\* Time stands still until a first client has connected.
BeginFrame ==
    /\ At("frame", "SceneManager")
    /\ clientConnected' \in {clientConnected, TRUE}
    /\ dt' \in IF clientConnected' THEN 1..MaxDt ELSE {0}
    /\ UNCHANGED <<sceneVars, managerVars, fadeVars, bossVars, waveVars, shownVars>>

\* The push of LevelOne registers the other systems; the loop of runSystems
\* that is under way does not see them.
Bug_PushEveryFrame ==
    /\ At("SceneManager", IF _scenesStack = << >> THEN "frame" ELSE "CovBoss")
    /\ isResetting' = (\/ currentScene # _lastSceneName
                       \/ isResetting /\ currentScene = "SceneTransition")
    /\ _lastSceneName' = currentScene
    /\ _scenesStack' = Append(_scenesStack, currentScene)
    /\ UNCHANGED <<mainVars, currentScene, fadeVars, bossVars, waveVars, shownVars>>
SceneManagerSystem ==
    LET changed == currentScene # _lastSceneName
    IN  /\ At("SceneManager", IF _scenesStack = << >> THEN "frame" ELSE "CovBoss")
        /\ isResetting' = (changed \/ (isResetting /\ currentScene = "SceneTransition"))
        /\ _lastSceneName' = currentScene
        /\ _scenesStack' = IF changed THEN Append(_scenesStack, currentScene)
                                      ELSE _scenesStack
        /\ UNCHANGED <<mainVars, currentScene, fadeVars, bossVars, waveVars, shownVars>>

-----------------------------------------------------------------------------
(* The bosses.  An entity is "none", "visible" or, once it has fallen,      *)
(* "hidden".                                                                *)

bossStep == UNCHANGED <<mainVars, isResetting, managerVars, fadeVars, waveVars,
                        shownVars>>

Tick(b) == clock' = [clock EXCEPT ![b] = Advanced(@)]

Bug_ExactTiming(b) == clock[b] + dt = SpawnTiming[b] /\ ~_bossSpawned[b]
SpawnDue(b) == Advanced(clock[b]) >= SpawnTiming[b] /\ ~_bossSpawned[b]

Spawn(b) ==
    /\ _bossSpawned' = [_bossSpawned EXCEPT ![b] = TRUE]
    /\ entity' = [entity EXCEPT ![b] = "visible"]
    /\ hp' = [hp EXCEPT ![b] = BossHealth[b]]

Falls(b) ==
    /\ entity' = [entity EXCEPT ![b] = "hidden"]
    /\ currentScene' = "SceneTransition"

\* One more hit, if it counts, and the fall at zero.
Fights(b, counts) ==
    /\ hp' = [hp EXCEPT ![b] = IF counts THEN @ - 1 ELSE @]
    /\ IF hp'[b] <= 0 THEN Falls(b) ELSE UNCHANGED <<entity, currentScene>>

CovidElsewhere ==
    /\ At("CovBoss", "Shrimp")
    /\ currentScene # "LevelThree"
    /\ UNCHANGED <<currentScene, bossVars>> /\ bossStep

CovidSpawns ==
    /\ At("CovBoss", "Shrimp")
    /\ currentScene = "LevelThree"
    /\ SpawnDue("Covid")
    /\ Tick("Covid") /\ Spawn("Covid")
    /\ UNCHANGED <<currentScene, hit, travel, inPosition>> /\ bossStep

CovidWaits ==
    /\ At("CovBoss", "Shrimp")
    /\ currentScene = "LevelThree"
    /\ ~SpawnDue("Covid") /\ entity["Covid"] = "none"
    /\ Tick("Covid")
    /\ UNCHANGED <<currentScene, _bossSpawned, entity, hp, hit, travel, inPosition>>
    /\ bossStep

\* A hit counts if no orb is visible.  A hidden boss is never met: the scene has
\* left LevelThree by then.
CovidFights ==
    /\ At("CovBoss", "Shrimp")
    /\ currentScene = "LevelThree"
    /\ entity["Covid"] = "visible"
    /\ Tick("Covid")
    /\ \E shielded \in BOOLEAN : Fights("Covid", hit["Covid"] /\ ~shielded)
    /\ UNCHANGED <<_bossSpawned, hit, travel, inPosition>> /\ bossStep

Bug_ShrimpClockRuns ==
    /\ At("Shrimp", "Gorgia")
    /\ currentScene # "LevelTwo"
    /\ Tick("Shrimp")
    /\ UNCHANGED <<currentScene, _bossSpawned, entity, hp, hit, travel, inPosition>>
    /\ bossStep
ShrimpElsewhere ==
    /\ At("Shrimp", "Gorgia")
    /\ currentScene # "LevelTwo"
    /\ UNCHANGED <<currentScene, bossVars>> /\ bossStep

\* killShrimp comes first: the shrimp falls one frame after its last hit.
ShrimpFalls ==
    /\ At("Shrimp", "Gorgia")
    /\ currentScene = "LevelTwo"
    /\ inPosition /\ hp["Shrimp"] <= 0
    /\ Falls("Shrimp")
    /\ UNCHANGED <<clock, _bossSpawned, hp, hit, travel, inPosition>> /\ bossStep

\* Its timing is exclusive, unlike that of the other bosses.
ShrimpDue == Advanced(clock["Shrimp"]) > SpawnTiming["Shrimp"]

ShrimpWaits ==
    /\ At("Shrimp", "Gorgia")
    /\ currentScene = "LevelTwo"
    /\ ~_bossSpawned["Shrimp"] /\ ~ShrimpDue
    /\ Tick("Shrimp")
    /\ UNCHANGED <<currentScene, _bossSpawned, entity, hp, hit, travel, inPosition>>
    /\ bossStep

\* moveShrimpToScreen: the Collidable is given, with isColliding false, in every
\* frame that begins in position.
Moves ==
    /\ travel' = IF travel > dt THEN travel - dt ELSE 0
    /\ inPosition' = (travel = 0)
    /\ hit' = [hit EXCEPT !["Shrimp"] = FALSE]

ShrimpSpawns ==
    /\ At("Shrimp", "Gorgia")
    /\ currentScene = "LevelTwo"
    /\ ~_bossSpawned["Shrimp"] /\ ShrimpDue
    /\ Tick("Shrimp") /\ Spawn("Shrimp") /\ Moves
    /\ UNCHANGED currentScene /\ bossStep

ShrimpFights ==
    /\ At("Shrimp", "Gorgia")
    /\ currentScene = "LevelTwo"
    /\ _bossSpawned["Shrimp"]
    /\ ~(inPosition /\ hp["Shrimp"] <= 0)
    /\ hp' = [hp EXCEPT !["Shrimp"] = IF hit["Shrimp"] THEN @ - 1 ELSE @]
    /\ Tick("Shrimp") /\ Moves
    /\ UNCHANGED <<currentScene, _bossSpawned, entity>> /\ bossStep

\* Gorgia's clock runs in every scene.
GorgiaWaits ==
    /\ At("Gorgia", "Collision")
    /\ entity["Gorgia"] = "none" /\ ~SpawnDue("Gorgia")
    /\ Tick("Gorgia")
    /\ UNCHANGED <<currentScene, _bossSpawned, entity, hp, hit, travel, inPosition>>
    /\ bossStep

GorgiaSpawns ==
    /\ At("Gorgia", "Collision")
    /\ SpawnDue("Gorgia")
    /\ Tick("Gorgia") /\ Spawn("Gorgia")
    /\ UNCHANGED <<currentScene, hit, travel, inPosition>> /\ bossStep

GorgiaFights ==
    /\ At("Gorgia", "Collision")
    /\ entity["Gorgia"] = "visible"
    /\ Tick("Gorgia")
    /\ Fights("Gorgia", hit["Gorgia"])
    /\ UNCHANGED <<_bossSpawned, hit, travel, inPosition>> /\ bossStep

\* killEntity, one frame after the fall.
GorgiaRemoved ==
    /\ At("Gorgia", "Collision")
    /\ entity["Gorgia"] = "hidden"
    /\ Tick("Gorgia")
    /\ entity' = [entity EXCEPT !["Gorgia"] = "none"]
    /\ hit' = [hit EXCEPT !["Gorgia"] = FALSE]
    /\ UNCHANGED <<currentScene, _bossSpawned, hp, travel, inPosition>> /\ bossStep

\* Every boss with a Collidable, a hidden one too, is hit by a missile or not.
CollisionSystem ==
    /\ At("Collision", "Bydos")
    /\ hit' \in [Boss -> BOOLEAN]
    /\ \A b \in Boss : hit'[b] => entity[b] # "none" /\ (b = "Shrimp" => inPosition)
    /\ UNCHANGED <<currentScene, clock, _bossSpawned, entity, hp, travel, inPosition>>
    /\ bossStep

-----------------------------------------------------------------------------
(* BydosAI and RobotAI.                                                     *)

Timing(table, w) == IF currentScene \in Level THEN table[w][currentScene] ELSE 0

Bug_NoReset(w) == _sceneTime[w]
resetScene(w) ==
    IF isResetting /\ currentScene = "SceneTransition" THEN 0 ELSE _sceneTime[w]

\* An enemy is spawned exactly if _spawnTime starts again.
Wave(w, next) ==
    /\ At(w, next)
    /\ _sceneTime' = [_sceneTime EXCEPT ![w] =
            IF resetScene(w) + dt <= TimeCap THEN resetScene(w) + dt ELSE TimeCap]
    /\ LET spawns == /\ Advanced(_spawnTime[w]) >= Timing(EnemyTiming, w)
                     /\ _sceneTime'[w] <= Timing(SceneTiming, w)
       IN  _spawnTime' = [_spawnTime EXCEPT ![w] = IF spawns THEN 0 ELSE Advanced(@)]
    /\ UNCHANGED <<mainVars, sceneVars, managerVars, fadeVars, bossVars, shownVars>>

BydosAI == Wave("Bydos", "Robot")
RobotAI == Wave("Robot", "Credit")

-----------------------------------------------------------------------------
(* Credits, background, fade.                                               *)

CreditSceneSystem ==
    /\ At("Credit", "Parallax")
    /\ texts' = IF currentScene = "CreditScene" /\ ~_textSpawned THEN texts + 1 ELSE texts
    /\ _textSpawned' = (currentScene = "CreditScene")
    /\ UNCHANGED <<mainVars, sceneVars, managerVars, fadeVars, bossVars, waveVars,
                   _parallaxScene, background>>

\* setLevel replaces all layers, if the scene has a background of its own.
setLevel(name) == background' = IF name \in Level THEN name ELSE background

ParallaxSystem ==
    /\ At("Parallax", "Fade")
    /\ _parallaxScene' = currentScene
    /\ IF _parallaxScene # currentScene THEN setLevel(currentScene)
                                        ELSE UNCHANGED background
    /\ UNCHANGED <<mainVars, sceneVars, managerVars, fadeVars, bossVars, waveVars,
                   _textSpawned, texts>>

fadeStep == UNCHANGED <<mainVars, isResetting, managerVars, bossVars, waveVars, shownVars>>

\* The fade-in has been prepared and waits for a transition.
FadeWaits ==
    /\ At("Fade", "frame")
    /\ currentScene # "SceneTransition" /\ _fadingIn /\ ~_fadingOut
    /\ UNCHANGED <<currentScene, fadeVars>> /\ fadeStep

\* The scene after _currentLevel; after the credits, none.
Bug_NoCredits ==
    CASE _currentLevel = 1 -> currentScene' = "LevelTwo" /\ _currentLevel' = 2
      [] _currentLevel = 2 -> currentScene' = "LevelThree" /\ _currentLevel' = 3
      [] OTHER -> UNCHANGED <<currentScene, _currentLevel>>
Bug_LevelNotCounted ==
    CASE _currentLevel = 1 -> currentScene' = "LevelTwo" /\ UNCHANGED _currentLevel
      [] OTHER -> currentScene' = "LevelThree" /\ UNCHANGED _currentLevel
changeScene ==
    CASE _currentLevel = 1 -> currentScene' = "LevelTwo" /\ _currentLevel' = 2
      [] _currentLevel = 2 -> currentScene' = "LevelThree" /\ _currentLevel' = 3
      [] _currentLevel = 3 -> currentScene' = "CreditScene" /\ _currentLevel' = 4
      [] OTHER -> UNCHANGED <<currentScene, _currentLevel>>

\* The frame that prepares a fade-in also counts for it.
FadeIn ==
    /\ At("Fade", "frame")
    /\ \/ _fadingIn /\ (currentScene = "SceneTransition" \/ _fadingOut)
       \/ ~_fadingIn /\ ~_fadingOut
    /\ LET time == IF _fadingIn THEN _fadeTime + dt ELSE dt
       IN  IF time >= FADE_IN_TIME
           THEN /\ _fadingIn' = FALSE /\ _fadingOut' = TRUE /\ _fadeTime' = 0
                /\ changeScene
           ELSE /\ _fadingIn' = TRUE /\ _fadeTime' = time
                /\ UNCHANGED <<currentScene, _fadingOut, _currentLevel>>
    /\ fadeStep

FadeOut ==
    /\ At("Fade", "frame")
    /\ ~_fadingIn /\ _fadingOut
    /\ IF _fadeTime + dt >= FADE_OUT_TIME
       THEN _fadingOut' = FALSE /\ _fadeTime' = 0 /\ _fadingIn' = (_currentLevel = 1)
       ELSE _fadeTime' = _fadeTime + dt /\ UNCHANGED <<_fadingIn, _fadingOut>>
    /\ UNCHANGED <<currentScene, _currentLevel>> /\ fadeStep

-----------------------------------------------------------------------------
Covid == CovidElsewhere \/ CovidWaits \/ CovidSpawns \/ CovidFights
Shrimp == ShrimpElsewhere \/ ShrimpWaits \/ ShrimpSpawns \/ ShrimpFights \/ ShrimpFalls
Gorgia == GorgiaWaits \/ GorgiaSpawns \/ GorgiaFights \/ GorgiaRemoved
Fade == FadeWaits \/ FadeIn \/ FadeOut

Next == \/ BeginFrame \/ SceneManagerSystem \/ Covid \/ Shrimp \/ Gorgia
        \/ CollisionSystem \/ BydosAI \/ RobotAI
        \/ CreditSceneSystem \/ ParallaxSystem \/ Fade

Spec == Init /\ [][Next]_vars

\* The main loop never waits: the next system always runs in the end.
FairSpec == Spec /\ WF_vars(Next)

-----------------------------------------------------------------------------
(* Properties.                                                              *)

\* Every variable keeps its type; no clock passes its bound, the fade's neither.
TypeOK ==
    /\ pc \in {"frame", "SceneManager", "CovBoss", "Shrimp", "Gorgia", "Collision",
               "Bydos", "Robot", "Credit", "Parallax", "Fade"}
    /\ dt \in 0..MaxDt /\ clientConnected \in BOOLEAN
    /\ currentScene \in SceneName /\ isResetting \in BOOLEAN
    /\ _lastSceneName \in SceneName \cup {"none"} /\ _scenesStack \in Seq(SceneName)
    /\ _fadingIn \in BOOLEAN /\ _fadingOut \in BOOLEAN /\ _currentLevel \in 1..4
    /\ _fadeTime \in 0..(FADE_IN_TIME + FADE_OUT_TIME)
    /\ clock \in [Boss -> 0..TimeCap] /\ _bossSpawned \in [Boss -> BOOLEAN]
    /\ entity \in [Boss -> {"none", "visible", "hidden"}]
    /\ hp \in [Boss -> Nat] /\ hit \in [Boss -> BOOLEAN]
    /\ travel \in 0..Approach /\ inPosition \in BOOLEAN
    /\ _spawnTime \in [WaveAI -> 0..TimeCap] /\ _sceneTime \in [WaveAI -> 0..TimeCap]
    /\ _textSpawned \in BOOLEAN /\ texts \in Nat
    /\ _parallaxScene \in SceneName \cup {"none"} /\ background \in Level \cup {"none"}

LevelNumber == CASE currentScene = "LevelOne" -> 1 [] currentScene = "LevelTwo" -> 2
                 [] currentScene = "LevelThree" -> 3 [] currentScene = "CreditScene" -> 4
                 [] OTHER -> _currentLevel
Phase == CASE currentScene = "SceneTransition" -> "transition"
           [] currentScene = "CreditScene" -> "end"
           [] OTHER -> IF _bossSpawned[BossOf(currentScene)] THEN "boss" ELSE "waves"

Progress == INSTANCE LevelProgress WITH level <- LevelNumber, phase <- Phase

\* Whichever systems write the scene in a frame, the levels come in order and
\* each is left only by the fall of its own boss.
ImplementsProgress == Progress!Spec

\* With fair frames, no transition lasts for ever.
ImplementsFairProgress == Progress!FairSpec

\* Three systems remember the last scene on their own and look at it at different
\* places of the frame, and agree all the same: the scene manager has seen every
\* scene once, in the order of the game; the background is that of the level it
\* saw last; and the credits are shown once, in their scene only.
FollowersAgree ==
    /\ Len(_scenesStack) <= 7
    /\ \A i \in 1..Len(_scenesStack) :
          _scenesStack[i] = <<"LevelOne", "SceneTransition", "LevelTwo", "SceneTransition",
                              "LevelThree", "SceneTransition", "CreditScene">>[i]
    /\ pc = "Fade" =>
          /\ \E i \in 1..Len(_scenesStack) :
                /\ background = _scenesStack[i]
                /\ \A j \in (i + 1)..Len(_scenesStack) : _scenesStack[j] \notin Level
          /\ texts = IF currentScene = "CreditScene" THEN 1 ELSE 0

\* The clocks of the waves start again in each transition: between two frames
\* they are at most one frame ahead of the clock of the level's boss.
WavesRestart ==
    pc = "frame" /\ currentScene \in Level \ {"LevelOne"} =>
        \A w \in WaveAI : _sceneTime[w] <= clock[BossOf(currentScene)] + MaxDt

\* No enemy of a wave is spawned once the boss of the level is there.
BossFightsAlone ==
    [][ \A w \in WaveAI :
            pc = w /\ currentScene \in Level /\ _bossSpawned[BossOf(currentScene)] =>
                _spawnTime'[w] > 0 ]_vars

Attackable(b) == entity[b] = "visible" /\ (b = "Shrimp" => inPosition)

\* Once a client has come, the boss of the level comes and can be attacked, for
\* frames of any length.
BossComes ==
    \A l \in Level : currentScene = l /\ clientConnected
                        ~> Attackable(BossOf(l)) \/ currentScene # l

=============================================================================
