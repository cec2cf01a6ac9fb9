------------------------------ MODULE Screens ------------------------------
(***************************************************************************)
(* The client's menu and options screens, before the game: which one is    *)
(* shown, how they are left, and how keys and controller buttons are       *)
(* given to actions.  The renderer keeps the assignments, the options      *)
(* screen the texts that show them.                                        *)
(*                                                                         *)
(* The options screen looks at its event also when pollEvent had none: it  *)
(* is uninitialised then, which is one more event of any kind.  Pov axes   *)
(* move as the keys Up and Down do.  Drawing is left out.                  *)
(***************************************************************************)
EXTENDS Integers, Sequences

CONSTANTS
    Action,         \* sequence of the actions in the order of their buttons
    Key,            \* of the keyboard; Up, Down, Enter and Escape are some
    Pad,            \* buttons of a controller
    Nameless,       \* keys and buttons that the tables of names leave out
    DefaultKey, DefaultPad,    \* assignments at the start
    Prompt, None    \* the text of a button that waits for a key; no action

\* The texts are made in the order of an unordered_map, the actions behind
\* the buttons are written down; the library that is used gives that order.
ASSUME ScreensAssumption ==
    /\ {"Up", "Down", "Enter", "Escape"} \subseteq Key
    /\ {"PadUp", "PadDown", "A", "B"} \subseteq Pad
    /\ DefaultKey \in [1..Len(Action) -> Key] /\ DefaultPad \in [{"Shoot", "Force"} -> Pad]
    /\ Nameless \subseteq Key \cup Pad
    /\ Nameless \cap {"Up", "Down", "Enter", "Escape", "PadUp", "PadDown", "A", "B"} = {}
    /\ Prompt \notin Key \cup Pad /\ None \notin 1..Len(Action)

\* Buttons of the options screen: sound, a heading, one per action, two for
\* the controller, return.
NumActions == Len(Action)
ActionButton(i) == i + 2
ShootButton == NumActions + 3
ForceButton == NumActions + 4
ReturnButton == NumActions + 5
LastButton == NumActions + 5
\* The names that the texts show.  Buttons 11 and 12, which move up and down
\* on both screens, bear the names of others.
keyToString(key) ==
    CASE key = "Enter" -> "Return" [] key \in Nameless -> "Unknown" [] OTHER -> key
controllerButtonToString(pad) ==
    CASE pad = "PadUp" -> "DPadDown"
      [] pad = "PadDown" -> "DPadLeft"
      [] pad \in Nameless -> "Unknown Button"
      [] OTHER -> pad

PadButton == [Shoot |-> ShootButton, Force |-> ForceButton]

UserEvent == ({"Key"} \X Key) \cup ({"Pad"} \X Pad) \cup {<<"Closed", "Closed">>, <<"Other", "Other">>}

VARIABLES
    screen,          \* Menu, Options, and then Game or Exit
    isOpen,          \* the window of the menus
    chosen,          \* the menu's button: 0 Play, 1 Options, 2 Quit
    _startGame, _optionsScene, _quitScene,
    _selectedButton, _returnToMenu, _awaitingRemap, _waitingForControllerInput,
    keyMappings, controllerButton,     \* the renderer's
    keyText, padText                   \* on the options screen

menuVars == <<chosen, _startGame, _optionsScene, _quitScene>>
assignments == <<keyMappings, controllerButton, keyText, padText>>
remapVars == <<_awaitingRemap, _waitingForControllerInput>>
optionsVars == <<_selectedButton, _returnToMenu, remapVars, assignments>>
screensVars == <<screen, isOpen, menuVars, optionsVars>>

ScreensInit ==
    /\ screen = "Menu" /\ isOpen = TRUE
    /\ chosen = 0 /\ _startGame = FALSE /\ _optionsScene = FALSE /\ _quitScene = FALSE
    /\ _selectedButton = 1 /\ _returnToMenu = FALSE
    /\ _awaitingRemap = None /\ _waitingForControllerInput = FALSE
    /\ keyMappings = DefaultKey /\ controllerButton = DefaultPad
    /\ keyText = [i \in 1..NumActions |-> keyToString(DefaultKey[i])]
    /\ padText = [a \in {"Shoot", "Force"} |-> controllerButtonToString(DefaultPad[a])]

Up == {<<"Key", "Up">>, <<"Pad", "PadUp">>}
Down == {<<"Key", "Down">>, <<"Pad", "PadDown">>}
Activate == {<<"Key", "Enter">>, <<"Pad", "A">>}

-----------------------------------------------------------------------------
(* The menu: all events that wait are handled, then the flags are looked at *)
(* in order.                                                                *)

MenuEvent(event) == screen = "Menu" /\ isOpen /\ UNCHANGED <<screen, optionsVars>>

MenuMove(event) ==
    /\ MenuEvent(event)
    /\ \/ event \in Up /\ chosen > 0 /\ chosen' = chosen - 1
       \/ event \in Down /\ chosen < 2 /\ chosen' = chosen + 1
    /\ UNCHANGED <<isOpen, _startGame, _optionsScene, _quitScene>>

MenuActivate(event) ==
    /\ MenuEvent(event) /\ event \in Activate
    /\ \/ chosen = 0 /\ _startGame' = TRUE /\ UNCHANGED <<_optionsScene, _quitScene, isOpen>>
       \/ chosen = 1 /\ _optionsScene' = TRUE /\ UNCHANGED <<_startGame, _quitScene, isOpen>>
       \/ chosen = 2 /\ _quitScene' = TRUE /\ isOpen' = FALSE
          /\ UNCHANGED <<_startGame, _optionsScene>>
    /\ UNCHANGED chosen

MenuClose(event) ==
    /\ MenuEvent(event)
    /\ event \in {<<"Key", "Escape">>, <<"Closed", "Closed">>}
    /\ isOpen' = FALSE
    /\ UNCHANGED menuVars

\* exit(0); the other ways to leave the menu lead to the game.
Quits == ~_startGame /\ ~_optionsScene /\ _quitScene

Bug_OptionsNeedNoWindow ==
    /\ screen = "Menu"
    /\ screen' = IF ~_startGame /\ _optionsScene THEN "Options"
                 ELSE IF Quits THEN "Exit" ELSE IF ~isOpen THEN "Game" ELSE "Menu"
    /\ isOpen' = (isOpen /\ ~_startGame /\ ~Quits)
    /\ UNCHANGED <<menuVars, optionsVars>>
\* The flag of the options screen is never reset: it comes before Quit, and
\* options.run is entered in every round, to return at once when the window is
\* closed or _returnToMenu is still set.
MenuRound ==
    /\ screen = "Menu"
    /\ screen' = IF ~_startGame /\ _optionsScene /\ isOpen /\ ~_returnToMenu THEN "Options"
                 ELSE IF Quits THEN "Exit"
                 ELSE IF ~isOpen \/ _startGame THEN "Game" ELSE "Menu"
    /\ isOpen' = (isOpen /\ ~_startGame /\ ~Quits)
    /\ UNCHANGED <<menuVars, optionsVars>>

-----------------------------------------------------------------------------
(* The options: one event per round.                                        *)

OptionsRound == screen = "Options" /\ isOpen /\ ~_returnToMenu
Navigating == OptionsRound /\ _awaitingRemap = None
NoPad(event) == event[1] = "Pad" => ~_waitingForControllerInput

OptionsReturn ==
    /\ screen = "Options" /\ (~isOpen \/ _returnToMenu)
    /\ screen' = "Menu"
    /\ UNCHANGED <<isOpen, menuVars, optionsVars>>

OptionsClose ==
    /\ OptionsRound
    /\ isOpen' = FALSE
    /\ UNCHANGED <<screen, menuVars, optionsVars>>

\* Any key is taken, Escape and Enter too, and no key is refused because
\* another action has it.  The text that changes is the selected button's.
KeyRemapped(key) ==
    /\ keyMappings' = [keyMappings EXCEPT ![_awaitingRemap] = key]
    /\ keyText' = [keyText EXCEPT ![_selectedButton - 2] = keyToString(key)]
    /\ _awaitingRemap' = None

OptionsRemap(event) ==
    /\ OptionsRound /\ _awaitingRemap # None /\ event[1] = "Key"
    /\ KeyRemapped(event[2])
    /\ UNCHANGED <<screen, isOpen, menuVars, _selectedButton, _returnToMenu,
                   _waitingForControllerInput, controllerButton, padText>>

\* The button the player has moved to, not the one that asked.
PadAction == CASE _selectedButton = ShootButton -> "Shoot"
               [] _selectedButton = ForceButton -> "Force"
               [] OTHER -> None

PadRemapped(pad) ==
    /\ IF PadAction = None THEN UNCHANGED <<controllerButton, padText>>
       ELSE /\ controllerButton' = [controllerButton EXCEPT ![PadAction] = pad]
            /\ padText' = [padText EXCEPT ![PadAction] = controllerButtonToString(pad)]
    /\ _waitingForControllerInput' = FALSE

OptionsPad(event) ==
    /\ Navigating /\ event[1] = "Pad" /\ _waitingForControllerInput
    /\ PadRemapped(event[2])
    /\ UNCHANGED <<screen, isOpen, menuVars, _selectedButton, _returnToMenu, _awaitingRemap,
                   keyMappings, keyText>>

Bug_MovesWhileAwaiting == OptionsRound
OptionsMoves == Navigating

\* At the ends it wraps around; the heading is passed as a button.
OptionsMove(event) ==
    /\ OptionsMoves /\ NoPad(event)
    /\ \/ event \in Up /\ _selectedButton' = IF _selectedButton > 1 THEN _selectedButton - 1 ELSE LastButton
       \/ event \in Down /\ _selectedButton' = IF _selectedButton < LastButton THEN _selectedButton + 1 ELSE 1
    /\ UNCHANGED <<screen, isOpen, menuVars, _returnToMenu, remapVars, assignments>>

\* Sound is a flag that nothing reads; the heading does nothing.
ActivateRemap ==
    \E i \in 1..NumActions :
        /\ _selectedButton = ActionButton(i)
        /\ keyText' = [keyText EXCEPT ![i] = Prompt] /\ _awaitingRemap' = i
        /\ UNCHANGED <<_returnToMenu, _waitingForControllerInput, padText>>
ActivatePad ==
    \E a \in {"Shoot", "Force"} :
        /\ _selectedButton = PadButton[a]
        /\ padText' = [padText EXCEPT ![a] = Prompt] /\ _waitingForControllerInput' = TRUE
        /\ UNCHANGED <<_returnToMenu, _awaitingRemap, keyText>>
ActivateReturn ==
    /\ _selectedButton = ReturnButton /\ _returnToMenu' = TRUE
    /\ UNCHANGED <<remapVars, keyText, padText>>

OptionsActivate(event) ==
    /\ Navigating /\ NoPad(event) /\ event \in Activate
    /\ ActivateRemap \/ ActivatePad \/ ActivateReturn
    /\ UNCHANGED <<screen, isOpen, menuVars, _selectedButton, keyMappings, controllerButton>>

OptionsLeave(event) ==
    /\ Navigating /\ NoPad(event) /\ event \in {<<"Key", "Escape">>, <<"Pad", "B">>}
    /\ _returnToMenu' = TRUE
    /\ UNCHANGED <<screen, isOpen, menuVars, _selectedButton, remapVars, assignments>>

-----------------------------------------------------------------------------
User == \/ \E event \in UserEvent :
             \/ MenuMove(event) \/ MenuActivate(event) \/ MenuClose(event)
             \/ OptionsRemap(event) \/ OptionsPad(event) \/ OptionsMove(event)
             \/ OptionsActivate(event) \/ OptionsLeave(event)
        \/ OptionsClose
Program == MenuRound \/ OptionsReturn

ScreensNext == User \/ Program

ScreensSpec == ScreensInit /\ [][ScreensNext]_screensVars

\* The screens' loops never wait: pollEvent returns without an event, too.
FairScreensSpec == ScreensSpec /\ WF_screensVars(Program)

-----------------------------------------------------------------------------
\* What a button shows is what the game will use, whichever events come between
\* the question and the answer.  The text of an action names its key, or is the
\* prompt exactly while its key is awaited.  A controller's text names its button
\* or is the prompt, which may stay after the answer was given to the other
\* button, or to none, but is there while an answer is awaited.
TextsTrue ==
    /\ \A i \in 1..NumActions :
          keyText[i] = IF _awaitingRemap = i THEN Prompt ELSE keyToString(keyMappings[i])
    /\ \A a \in {"Shoot", "Force"} :
          padText[a] \in {Prompt, controllerButtonToString(controllerButton[a])}
    /\ _waitingForControllerInput => \E a \in {"Shoot", "Force"} : padText[a] = Prompt

\* Once the window of the menus is closed, on whichever screen, they end.
ClosedMeansOver == ~isOpen ~> screen \in {"Game", "Exit"}
=============================================================================
