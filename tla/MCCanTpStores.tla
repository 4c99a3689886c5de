--------------------------- MODULE MCCanTpStores ---------------------------
(* Two single frames that differ, a bad one of another sender, a first frame *)
(* and its consecutive frame.  A frame that replaces the first frame before  *)
(* the machine looks at it makes a first frame that is too long or too short.*)
EXTENDS CanTpStores

F(type, lo, b1, id, msg, pos) ==
    [type |-> type, lo |-> lo, b1 |-> b1, b2 |-> 0, id |-> id,
     data |-> [msg |-> msg, pos |-> pos]]

MCIds == {"tester", "other"}
MCMsgs == {"m", "n", "o"}
MCFrames == {F("SF", 3, 0, "tester", "m", 0), F("SF", 7, 0, "tester", "n", 0),
             F("SF", 0, 0, "other", "m", 0),
             F("FF", 0, 13, "tester", "o", 0), F("CF", 1, 0, "tester", "o", 6)}
Tester == {"tester"}
NoBytes == {0}
Nothing == {}
=============================================================================
