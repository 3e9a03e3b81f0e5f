-------------------------------- MODULE MCText --------------------------------
EXTENDS JsonText, ChatText, TLC

\* "", a, quotes around a blank and a backslash, a newline and the byte 1, a slash and
\* a byte of UTF-8.
MCWord == {<<>>, <<97>>, <<34, 32, 92, 34>>, <<10, 1>>, <<47, 200>>}

MCNumber == {0, IntMax + 1, -IntMax - 2}

\* An ASCII letter, the borders between the lengths of UTF-8, halves of pairs, no hex.
MCUnit == {Hex(0), Hex(65), Hex(127), Hex(128), Hex(2047), Hex(2048), Hex(55295), Hex(55296),
           Hex(56319), Hex(56320), Hex(57343), Hex(57344), Hex(65535), BadHex}

MCTyped == {Open("array"), Close("array"), Open("object"), Close("object"), Colon, Comma,
            Quote, Back, Space, Null, Mark}

-------------------------------------------------------------------------------
(* The texts of ChatText: all of a few symbols up to a length that is some symbols more
   than the limit, or than the shortest text that the code tells apart.               *)
MCTyping == BoundedSeq({"a", " ", "\n"}, 5)

MCMarking == BoundedSeq({"a", "_", "*"}, 8) \cup BoundedSeq({"a", "#", "~", "'", "<"}, 4)

MCLogin == BoundedSeq({"a", "_", "-", "A", "\n"}, 4)

MCFile == BoundedSeq({"n", "_", " ", ".png", ".gif"}, 3) \ {<<>>}

MCInfo == BoundedSeq({"a"}, 4)

\* Addresses and ports of all kinds; a host and a port, and more colons.
MCArgument == BoundedSeq({"1", "."}, 9) \cup BoundedSeq({"1", ":"}, 7) \cup BoundedSeq({"0", "x"}, 4)

-------------------------------------------------------------------------------
\* One state of JsonText, in which the properties of ChatText are looked at.
Once == text = <<>> /\ doc = Simple("array")

\* What people write reaches what it is for: a message is taken by the server and shown by
\* the label with each of its symbols, a file keeps its name, a profile is the same to its
\* user, in the table and to others, and the client connects to what its arguments name.
TextsArrive ==
    Once => TextsTaken /\ TextsShown /\ FilesNamed /\ ProfilesEqual /\ ArgumentsValid
===============================================================================
