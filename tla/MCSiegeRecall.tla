---------------------------- MODULE MCSiegeRecall ----------------------------
EXTENDS SiegeRecall, TLC

CONSTANTS a1, a2

(* Object numbers. *)
Gate == 1   Tower == 2   Guard == 3

Head52 == <<Line("theme", 0, 0), Line("idx", 0, 0), Line("map", 52, 0), Line("step", 0, 0)>>

(* A gate whose death recalls two guards, one of them on the other map. *)
GateFalls == Head52 \o
  <<Line("object", 52, Gate), Line("command", 0, 0),
    Line("die_recall", 52, Guard), Line("die_recall", 81, Guard),
    Line("map", 81, 0), Line("step", 0, 0), Line("object", 81, Tower)>>

(* A tower that stands from the death of the gate on, and until an item is *)
(* used; its command has index 2.                                          *)
TowerRises == Head52 \o
  <<Line("object", 52, Gate), Line("step", 0, 0), Line("object", 81, Tower),
    Line("start", 0, 0), Line("check_die", 52, Gate),
    Line("end", 0, 0), Line("check_item", 0, 9),
    Line("command", 0, 0), Line("die_recall", 52, Guard)>>

(* Two themes, the second with one of the maps. *)
TwoThemes == GateFalls \o
  <<Line("theme", 0, 0), Line("idx", 1, 0), Line("map", 52, 0), Line("step", 0, 0),
    Line("object", 52, Guard), Line("start", 0, 0), Line("check_item", 0, 9)>>

(* Lines that are refused or skipped: a map twice, a map 0, a step and an  *)
(* object without a map, a child of a command that is not there.           *)
Slips == <<Line("object", 52, Gate), Line("theme", 0, 0), Line("idx", 0, 0),
           Line("step", 0, 0), Line("object", 52, Gate), Line("map", 52, 0),
           Line("step", 0, 0), Line("object", 52, Gate), Line("die_recall", 52, Guard),
           Line("end", 0, 0), Line("check_item", 0, 9),
           Line("map", 52, 0), Line("object", 52, Tower), Line("map", 0, 0),
           Line("step", 0, 0), Line("object", 81, Guard),
           Line("theme", 0, 0), Line("idx", 1, 0), Line("object", 52, Gate)>>

AllScripts == {GateFalls, TowerRises, TwoThemes, Slips}

AllLinked  == Agents \X Maps
EachItsOwn == {<<a1, 52>>, <<a2, 81>>}
=============================================================================
