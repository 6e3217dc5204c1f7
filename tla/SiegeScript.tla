----------------------------- MODULE SiegeScript -----------------------------
(***************************************************************************)
(* The script of a siege, SiegeRecall.bin, and the tree CSiegeRecallMgr    *)
(* makes of it when an agent starts: themes, their maps, the steps of a    *)
(* map, the objects of a step, and the terms and commands of an object.    *)
(*                                                                         *)
(* A command of the script goes to what was added last.  One that finds no *)
(* parent is skipped; the file is read on, so what follows it goes to what *)
(* was added last before it.                                               *)
(*                                                                         *)
(* The classes of the tree (CSiegeTheme, CSiegeMap, CSiegeStep,            *)
(* CSiege_AddObj, CSiegeTerm, CSiegeCommand) are not part of this program. *)
(* They are taken as the loader uses them: a child is found under the      *)
(* index it was inserted under, which is the number of children its parent *)
(* had, of all kinds.  Places in the sequences count from 1.               *)
(***************************************************************************)
EXTENDS Naturals, Sequences, FiniteSets, SequencesExt

(* A command of the script: its kind, the map or theme number and the      *)
(* object number that follow it, 0 where there is none.                    *)
Kids     == {"start", "end", "command"}
Checks   == {"check_die", "check_item"}
Commands == {"theme", "idx", "map", "step", "object", "die_recall"} \cup Kids \cup Checks

Line(k, n, id) == [k |-> k, n |-> n, id |-> id]

HasMap(ts)  == ts # <<>> /\ Last(ts).maps # <<>>
HasStep(ts) == HasMap(ts) /\ Last(Last(ts).maps).steps # <<>>
LastObjs(ts) == Last(Last(Last(ts).maps).steps)
HasObj(ts)  == HasStep(ts) /\ LastObjs(ts) # <<>>
LastKids(ts) == Last(LastObjs(ts)).kids
HasKid(ts, kinds) == HasObj(ts) /\ LastKids(ts) # <<>> /\ Last(LastKids(ts)).kind \in kinds

InLastTheme(ts, f(_)) == [ts EXCEPT ![Len(ts)] = f(@)]
InLastMap(ts, f(_)) ==
  LET G(t) == [t EXCEPT !.maps[Len(t.maps)] = f(@)] IN InLastTheme(ts, G)
InLastStep(ts, f(_)) ==
  LET G(m) == [m EXCEPT !.steps[Len(m.steps)] = f(@)] IN InLastMap(ts, G)
InLastObj(ts, f(_)) ==
  LET G(s) == [s EXCEPT ![Len(s)] = f(@)] IN InLastStep(ts, G)

-----------------------------------------------------------------------------
(* The commands. *)

(* The key of a theme is a byte: the 257th would have the key of the first. *)
AddTheme(ts) ==
  IF Len(ts) >= 256 THEN ts ELSE Append(ts, [idx |-> 0, maps |-> <<>>])

AddThemeIdx(ts, w) ==
  LET F(t) == [t EXCEPT !.idx = w] IN
  IF ts = <<>> THEN ts ELSE InLastTheme(ts, F)

(* AddMap, taking a map that the theme has. *)
AddMapAgain(ts, num) ==
  LET F(t) == [t EXCEPT !.maps = Append(@, [num |-> num, steps |-> <<>>])] IN
  IF num = 0 \/ ts = <<>> THEN ts ELSE InLastTheme(ts, F)

AddMap(ts, num) ==
  LET F(t) == [t EXCEPT !.maps = Append(@, [num |-> num, steps |-> <<>>])] IN
  IF num = 0 \/ ts = <<>> THEN ts
  ELSE IF \E i \in DOMAIN Last(ts).maps : Last(ts).maps[i].num = num THEN ts
  ELSE InLastTheme(ts, F)

AddStep(ts) ==
  LET F(m) == [m EXCEPT !.steps = Append(@, <<>>)] IN
  IF HasMap(ts) THEN InLastMap(ts, F) ELSE ts

AddObj(ts, map, id) ==
  LET F(s) == Append(s, [map |-> map, id |-> id, kids |-> <<>>]) IN
  IF HasStep(ts) THEN InLastStep(ts, F) ELSE ts

AddKid(ts, kind) ==
  LET F(o) == [o EXCEPT !.kids = Append(@, [kind |-> kind, kids |-> <<>>])] IN
  IF HasObj(ts) THEN InLastObj(ts, F) ELSE ts

AddStartTerm(ts) == AddKid(ts, "start")
AddEndTerm(ts)   == AddKid(ts, "end")
AddCommand(ts)   == AddKid(ts, "command")

(* A child of the term or command added last. *)
AddToKid(ts, what, map, id) ==
  LET F(o) == [o EXCEPT !.kids[Len(o.kids)].kids =
                 Append(@, [kind |-> what, map |-> map, id |-> id])] IN
  InLastObj(ts, F)

DieRecallObj(ts, map, id) ==
  IF HasKid(ts, {"command"}) THEN AddToKid(ts, "die_recall", map, id) ELSE ts

CheckDieObj(ts, map, id) ==
  IF HasObj(ts) THEN AddToKid(ts, "check_die", map, id) ELSE ts

CheckUseItem(ts, map, id) ==
  IF HasObj(ts) THEN AddToKid(ts, "check_item", map, id) ELSE ts

(* A check that follows no term of the last object is a call on a null     *)
(* pointer: the agent does not start with such a script.                   *)
Faults(ts, line) == line.k \in Checks /\ HasObj(ts) /\ ~HasKid(ts, {"start", "end"})

CommandProcess(ts, line) ==
  CASE line.k = "theme"      -> AddTheme(ts)
    [] line.k = "idx"        -> AddThemeIdx(ts, line.n)
    [] line.k = "map"        -> AddMap(ts, line.n)
    [] line.k = "step"       -> AddStep(ts)
    [] line.k = "object"     -> AddObj(ts, line.n, line.id)
    [] line.k = "start"      -> AddStartTerm(ts)
    [] line.k = "end"        -> AddEndTerm(ts)
    [] line.k = "command"    -> AddCommand(ts)
    [] line.k = "die_recall" -> DieRecallObj(ts, line.n, line.id)
    [] line.k = "check_die"  -> CheckDieObj(ts, line.n, line.id)
    [] line.k = "check_item" -> CheckUseItem(ts, line.n, line.id)

LoadRecallInfo(lines) == FoldLeft(CommandProcess, <<>>, lines)

Starts(lines) ==
  \A i \in DOMAIN lines : ~Faults(LoadRecallInfo(SubSeq(lines, 1, i - 1)), lines[i])

-----------------------------------------------------------------------------
(* Reading the tree.  A path names a theme, a map, a step and an object;   *)
(* longer ones name a term or command, and a child of it.                  *)

ObjAt(ts, p) == ts[p[1]].maps[p[2]].steps[p[3]][p[4]]
KidAt(ts, p) == ObjAt(ts, p).kids[p[5]]
SubAt(ts, p) == KidAt(ts, p).kids[p[6]]

Paths(ts) ==
  UNION {UNION {UNION {{<<t, m, s, o>> : o \in DOMAIN ts[t].maps[m].steps[s]} :
                       s \in DOMAIN ts[t].maps[m].steps} :
                m \in DOMAIN ts[t].maps} :
         t \in DOMAIN ts}

(* What f makes of the objects of a step, of a map, of all, in their order. *)
EachOfStep(ts, t, m, s, f(_)) ==
  FlattenSeq([o \in 1..Len(ts[t].maps[m].steps[s]) |-> f(<<t, m, s, o>>)])
EachOfMap(ts, t, m, f(_)) ==
  FlattenSeq([s \in 1..Len(ts[t].maps[m].steps) |-> EachOfStep(ts, t, m, s, f)])
EachOf(ts, f(_)) ==
  FlattenSeq([t \in 1..Len(ts) |->
    FlattenSeq([m \in 1..Len(ts[t].maps) |-> EachOfMap(ts, t, m, f)])])

(* CSiege_AddObj counts its children by kind. *)
KidCount(ts, p, kind) ==
  Cardinality({i \in DOMAIN ObjAt(ts, p).kids : ObjAt(ts, p).kids[i].kind = kind})

(* Get_StartTermInfo and its like: the child under this index, if it is of *)
(* this kind.                                                              *)
HasKidAt(ts, p, i, kind) ==
  i \in DOMAIN ObjAt(ts, p).kids /\ ObjAt(ts, p).kids[i].kind = kind

(* Get_ThemeInfoByThemeIdx: the first of the themes with this index.       *)
ThemesByIdx(ts, w) == {t \in DOMAIN ts : ts[t].idx = w}
ThemeByIdx(ts, w)  == CHOOSE t \in ThemesByIdx(ts, w) : \A x \in ThemesByIdx(ts, w) : t <= x

(* Get_SiegeMapByMapNum. *)
HasMapNum(ts, t, num) == \E m \in DOMAIN ts[t].maps : ts[t].maps[m].num = num
MapByNum(ts, t, num)  == CHOOSE m \in DOMAIN ts[t].maps : ts[t].maps[m].num = num
=============================================================================
