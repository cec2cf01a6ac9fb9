----------------------------- MODULE MCScreens -----------------------------
EXTENDS Screens

\* Two of the six actions; the others are handled alike.
MCAction == <<"MoveDown", "Shoot">>
MCKey == {"Up", "Down", "Enter", "Escape", "Menu"}
MCPad == {"PadUp", "PadDown", "A", "B"}
MCNameless == {"Menu"}
MCDefaultKey == <<"Down", "Up">>
MCDefaultPad == [Shoot |-> "A", Force |-> "B"]
=============================================================================
