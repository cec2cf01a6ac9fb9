--------------------------- MODULE Serialization ---------------------------
(***************************************************************************)
(* The messages that carry a component: Protocol::serializeGameState on    *)
(* one side, Protocol::handleMessage with deserialize on the other.        *)
(*                                                                         *)
(* A component is a function from its members to their values.  as_tuple   *)
(* gives the members in the order in which they are written, the           *)
(* constructor takes the values back in its own order.  A value is a       *)
(* sequence of bytes: the memory of a number or a bool, the characters of  *)
(* a string.  The entity number in front of a message is left out.         *)
(***************************************************************************)
EXTENDS Integers, Sequences, SequencesExt

CONSTANTS
    Lengths,     \* of strings that are sent
    Fill,        \* bytes the values are made of
    Garbage      \* what is read after the end of a message

ASSUME SerializationAssumption ==
    Lengths \subseteq Nat /\ Fill \subseteq 0..255 /\ Garbage \notin 0..255

-----------------------------------------------------------------------------
(* The components that ServerNetworkSystem broadcasts: the tag of DataType, *)
(* as_tuple, the constructor's order.  Members that are neither strings nor *)
(* bools take four bytes.                                                   *)

Color == [tag |-> 14, tuple |-> <<"r", "g", "b", "a">>, ctor |-> <<"r", "g", "b", "a">>]
Shape == [tag |-> 13,
          tuple |-> <<"shapeType", "sizeX", "sizeY", "radius", "isVisible">>,
          ctor |-> <<"shapeType", "sizeX", "sizeY", "radius", "isVisible">>]
Transformable == [tag |-> 1,
                  tuple |-> <<"positionX", "positionY", "rotation", "scaleX", "scaleY">>,
                  ctor |-> <<"positionX", "positionY", "rotation", "scaleX", "scaleY">>]
Velocity == [tag |-> 2, tuple |-> <<"vx", "vy">>, ctor |-> <<"vx", "vy">>]

\* lastAttack is not sent.
Controllable ==
    [tag |-> 3,
     tuple |-> <<"moveLeft", "moveRight", "moveUp", "moveDown", "attack", "clientId", "fKey">>,
     ctor |-> <<"moveLeft", "moveRight", "moveUp", "moveDown", "attack", "clientId", "fKey">>]
Score == [tag |-> 16, tuple |-> <<"totalScore", "score", "increase">>,
          ctor |-> <<"totalScore", "score", "increase">>]
Player == [tag |-> 4, tuple |-> <<"playerId">>, ctor |-> <<"playerId">>]
Renderable ==
    [tag |-> 6,
     tuple |-> <<"textureId", "width", "height", "originX", "originY", "zOrder", "visible",
                 "animated", "frameWidth", "frameHeight", "currFrame">>,
     ctor |-> <<"textureId", "width", "height", "originX", "originY", "zOrder", "visible",
                "animated", "frameWidth", "frameHeight", "currFrame">>]
TextRenderable ==
    [tag |-> 17,
     tuple |-> <<"GUItype", "text", "fontPath", "fontSize", "x", "y", "zOrder", "visible",
                 "a", "r", "g", "b">>,
     ctor |-> <<"GUItype", "text", "fontPath", "fontSize", "x", "y", "zOrder", "visible",
                "a", "r", "g", "b">>]
Bug_Audio ==
    [tag |-> 15,
     tuple |-> <<"audioPath", "isPlaying", "loop", "volume", "pitch", "isMusic">>,
     ctor |-> <<"audioPath", "loop", "isPlaying", "volume", "pitch", "isMusic">>]
Audio == [tag |-> 15,
          tuple |-> <<"audioPath", "isPlaying", "loop", "volume", "pitch", "isMusic">>,
          ctor |-> <<"audioPath", "isPlaying", "loop", "volume", "pitch", "isMusic">>]
ParallaxScroller ==
    [tag |-> 11,
     tuple |-> <<"textureId", "scrollSpeedX", "scrollSpeedY", "zLayer", "offsetX", "offsetY",
                 "rotation", "scale", "isVisible", "isAnimated", "currentFrame">>,
     ctor |-> <<"textureId", "scrollSpeedX", "scrollSpeedY", "zLayer", "offsetX", "offsetY",
                "rotation", "scale", "isVisible", "isAnimated", "currentFrame">>]
ClockComponent == [tag |-> 12, tuple |-> <<"dt">>, ctor |-> <<"dt">>]

Sent == {Color, Shape, Transformable, Velocity, Controllable, Score, Player, Renderable,
         TextRenderable, Audio, ParallaxScroller, ClockComponent}

Strings == {"shapeType", "textureId", "GUItype", "text", "fontPath", "audioPath"}
Bools == {"isVisible", "moveLeft", "moveRight", "moveUp", "moveDown", "attack", "fKey",
          "increase", "visible", "animated", "isPlaying", "loop", "isMusic", "isAnimated"}
Size(member) == IF member \in Bools THEN 1 ELSE 4

-----------------------------------------------------------------------------
(* serializeGameState.                                                      *)

\* The length of a string is sent in one byte.
Bug_LengthByte(string) == (Len(string) + 1) % 256
LengthByte(string) == Len(string) % 256

FieldBytes(member, value) ==
    IF member \in Strings THEN <<LengthByte(value)>> \o value ELSE value

serializeGameState(type, component) ==
    <<type.tag>> \o FlattenSeq([i \in 1..Len(type.tuple) |->
                                   FieldBytes(type.tuple[i], component[type.tuple[i]])])

-----------------------------------------------------------------------------
(* deserialize.                                                             *)

\* n bytes after offset; the code does not look at the length of the message.
Taken(data, offset, n) ==
    [i \in 1..n |-> IF offset + i <= Len(data) THEN data[offset + i] ELSE Garbage]

\* One field of the tuple: its value, and the offset of the next.
FieldRead(data, offset, member) ==
    LET length == Taken(data, offset, 1)[1]
    IN  IF member \notin Strings
        THEN [value |-> Taken(data, offset, Size(member)), offset |-> offset + Size(member)]
        ELSE IF length = Garbage THEN [value |-> <<Garbage>>, offset |-> offset + 1]
        ELSE [value |-> Taken(data, offset + 1, length), offset |-> offset + 1 + length]

\* The fields up to the i-th, as deserializeHelper reads them.
FieldsRead(type, data) ==
    LET read[i \in 0..Len(type.tuple)] ==
            IF i = 0 THEN [value |-> << >>, offset |-> 0]
            ELSE FieldRead(data, read[i - 1].offset, type.tuple[i])
    IN  read

\* The tuple's values become the constructor's arguments.
Index(members, member) == CHOOSE i \in 1..Len(members) : members[i] = member
deserialize(type, data) ==
    LET read == FieldsRead(type, data)
    IN  [member \in ToSet(type.ctor) |-> read[Index(type.ctor, member)].value]

\* The switch of handleMessage; scores and clocks have no case.
Cases == {type.tag : type \in Sent} \ {Score.tag, ClockComponent.tag}

-----------------------------------------------------------------------------
VARIABLES
    carried,        \* the component of the last message: its type and its members
    message,     \* on the way: bytes, or none
    received     \* what the registry was given, <<>> for nothing

wireVars == <<carried, message, received>>

NoComponent == [type |-> Color, members |-> << >>]

\* Characters are ASCII.  The members of a component differ in their bytes.
ValueOf(type, m, fill, length) ==
    LET byte == fill + 16 * Index(type.tuple, m)
    IN  IF m \in Strings THEN [i \in 1..length[m] |-> byte % 128]
        ELSE IF m \in Bools THEN <<(fill + Index(type.tuple, m)) % 2>>
        ELSE [i \in 1..4 |-> byte % 256]
Values(type) ==
    {[m \in ToSet(type.tuple) |-> ValueOf(type, m, fill, length)] :
        fill \in Fill, length \in [Strings \cap ToSet(type.tuple) -> Lengths]}

WireInit == carried = NoComponent /\ message = << >> /\ received = << >>

Send(type) ==
    /\ message = << >>
    /\ \E component \in Values(type) :
          /\ carried' = [type |-> type, members |-> component]
          /\ message' = serializeGameState(type, component)
    /\ received' = << >>

HandleMessage(type) ==
    /\ message # << >> /\ Head(message) = type.tag
    /\ received' = IF type.tag \in Cases THEN deserialize(type, Tail(message)) ELSE << >>
    /\ message' = << >>
    /\ UNCHANGED carried

WireNext == \E type \in Sent : Send(type) \/ HandleMessage(type)

WireSpec == WireInit /\ [][WireNext]_wireVars

-----------------------------------------------------------------------------
Short(member) == member \in Strings => Len(carried.members[member]) < 256

\* A component whose strings are shorter than 256 arrives as it was sent, each
\* value in its own member; a longer string spoils itself and what follows it,
\* but what comes before it arrives.
RoundTrip ==
    received # << >> =>
        \A i \in 1..Len(carried.type.tuple) :
            (\A j \in 1..i : Short(carried.type.tuple[j]))
                => received[carried.type.tuple[i]] = carried.members[carried.type.tuple[i]]

\* NoComponent is read after the end of a message, though deserialize never asks
\* where that is: a length byte that is too small, or a character taken for
\* one, leaves the reader behind the writer.
NothingOverread ==
    received # << >> => \A m \in DOMAIN received : Garbage \notin ToSet(received[m])
=============================================================================
