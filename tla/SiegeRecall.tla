----------------------------- MODULE SiegeRecall -----------------------------
(***************************************************************************)
(* The siege recall manager of the agents (CSiegeRecallMgr): it answers map*)
(* servers that load a siege, and tells map servers which objects to recall*)
(* when a step is executed, an object has died or a master orders it.      *)
(*                                                                         *)
(* Every message is handled in one step of the agent's loop.  The result of*)
(* the database comes back later, and map servers may have gone meanwhile. *)
(* Map servers are not part of this program: here they ask, report and     *)
(* remember what they were sent.  The answers an agent gives to a user are *)
(* left out, and with them the requests that are refused before anything   *)
(* is sent.                                                                *)
(*                                                                         *)
(* Left out too are the fields byAddObjIdx, byComKind, byComIndex and      *)
(* wParentMap that are written into the tree: each is written again before *)
(* the object is sent to be recalled.                                      *)
(***************************************************************************)
EXTENDS SiegeScript, FiniteSets, FiniteSetsExt

CONSTANTS
  Scripts,    \* the scripts the agents may have been started with
  Agents,     \* agent servers
  Maps,       \* map numbers with a server
  Linked,     \* which map servers are connected to which agents
  MaxEvents,  \* bound: requests that come to the agents
  MaxRows     \* bound: rows of one result

ASSUME SiegeAssumption ==
  /\ \A lines \in Scripts :
       /\ lines \in Seq([k : Commands, n : Nat, id : Nat])
       /\ Starts(lines)
       /\ LET ts == LoadRecallInfo(lines) IN
          \A t, u \in DOMAIN ts : ts[t].idx = ts[u].idx => t = u
  /\ Maps \subseteq Nat
  /\ Linked \subseteq Agents \X Maps
  /\ MaxEvents \in Nat /\ MaxRows \in Nat

VARIABLES
  script,   \* the script that was read
  themes,   \* m_Theme, the same on all agents
  up,       \* map servers that run
  inbox,    \* what each has been sent since it started
  queries,  \* loads the database has not answered, by agent and map
  relays,   \* orders on their way to each of the agents from the others
  ordered,  \* history: the objects masters gave orders for, with the servers then up
  events    \* requests so far

vars == <<script, themes, up, inbox, queries, relays, ordered, events>>

Kinds == {"addobj", "check", "command", "next", "loaded", "killed", "count",
          "remove", "remove_map"}

(* A message and the map it is for; 0 stands for all map servers. *)
Msg(to, what, path, n) == [to |-> to, what |-> what, path |-> path, n |-> n]

TypeOK ==
  /\ up \subseteq Maps
  /\ \A m \in Maps : \A i \in DOMAIN inbox[m] :
       inbox[m][i].what \in Kinds /\ inbox[m][i].to \in {0, m}
  /\ queries \in [Agents -> [Maps -> 0..MaxEvents]]
  /\ DOMAIN relays = Agents
  /\ events \in 0..MaxEvents

Init ==
  /\ script \in Scripts
  /\ themes = LoadRecallInfo(script)
  /\ up = Maps
  /\ inbox   = [m \in Maps |-> <<>>]
  /\ queries = [a \in Agents |-> [m \in Maps |-> 0]]
  /\ relays  = [a \in Agents |-> <<>>]
  /\ ordered = {}
  /\ events = 0

-----------------------------------------------------------------------------
(* Sending: Broadcast2MapServer and Send2Server. *)

Reaches(a, m) == m \in up /\ <<a, m>> \in Linked

SentTo(m, msgs) ==
  FlattenSeq([i \in 1..Len(msgs) |->
    IF msgs[i].to \in {0, m} THEN <<msgs[i]>> ELSE <<>>])

Deliver(a, msgs) ==
  inbox' = [m \in Maps |->
    IF Reaches(a, m) THEN inbox[m] \o SentTo(m, msgs) ELSE inbox[m]]

Event == events < MaxEvents /\ events' = events + 1

-----------------------------------------------------------------------------
(* What is said of an object. *)

(* Execute_TermsAndCommand: of the term or command number k only child     *)
(* number k, and terms are counted by kind but found by index.             *)
Announced(p, kind, what) ==
  FlattenSeq([k \in 1..KidCount(themes, p, kind) |->
    IF HasKidAt(themes, p, k, kind) /\ k \in DOMAIN ObjAt(themes, p).kids[k].kids
    THEN <<Msg(0, what, p \o <<k, k>>, 0)>> ELSE <<>>])

ExecuteTermsAndCommand(p) ==
  Announced(p, "start", "check") \o Announced(p, "end", "check")
    \o Announced(p, "command", "command")

(* Execute_AddObj, the terms first. *)
TermsThenObj(p) == ExecuteTermsAndCommand(p) \o <<Msg(0, "addobj", p, 0)>>

ExecuteAddObj(p) == <<Msg(0, "addobj", p, 0)>> \o ExecuteTermsAndCommand(p)

(* Execute_Step: every map with its steps, and the word that it is loaded. *)
ExecuteStep(t) ==
  FlattenSeq([m \in 1..Len(themes[t].maps) |->
    EachOfMap(themes, t, m, ExecuteAddObj)
      \o <<Msg(0, "loaded", <<>>, themes[t].maps[m].num)>>])

(* The objects that are recalled for the death of object p.                *)
DeathRecalls(p) ==
  FlattenSeq([k \in 1..KidCount(themes, p, "command") |->
    IF HasKidAt(themes, p, k, "command")
    THEN [j \in 1..Len(ObjAt(themes, p).kids[k].kids) |->
            Msg(0, "addobj", p \o <<k, j>>, ObjAt(themes, p).map)]
    ELSE <<>>])

-----------------------------------------------------------------------------
(* Messages of map servers. *)

StepSyn(a, m, w) ==
  /\ Event /\ Reaches(a, m)
  /\ ThemesByIdx(themes, w) # {}
  /\ Deliver(a, ExecuteStep(ThemeByIdx(themes, w)))
  /\ UNCHANGED <<script, themes, up, queries, relays, ordered>>

(* Ready_Execute_Command returns if one of the themes has not this map, and*)
(* looks the step up in the last theme.  Without any theme it follows a    *)
(* null pointer: that case is left out.                                    *)
DeadObject(num, s, o) ==
  IF themes # <<>> /\ \A t \in DOMAIN themes : HasMapNum(themes, t, num)
  THEN LET t == Len(themes) IN
       LET m == MapByNum(themes, t, num) IN
       IF s \in DOMAIN themes[t].maps[m].steps /\ o \in DOMAIN themes[t].maps[m].steps[s]
       THEN {<<t, m, s, o>>} ELSE {}
  ELSE {}

ReadyExecuteCommand(a, m, num, s, o) ==
  /\ Event /\ Reaches(a, m)
  /\ \E p \in DeadObject(num, s, o) : Deliver(a, DeathRecalls(p))
  /\ UNCHANGED <<script, themes, up, queries, relays, ordered>>

(* RequestRecallCount_Syn: the objects of the map, and of the command      *)
(* number k its child number k, if that is recalled there.                 *)
Counted(p, m) ==
  Cardinality({k \in 1..KidCount(themes, p, "command") :
                 /\ HasKidAt(themes, p, k, "command")
                 /\ k \in DOMAIN ObjAt(themes, p).kids[k].kids
                 /\ SubAt(themes, p \o <<k, k>>).map = m})
    + IF ObjAt(themes, p).map = m THEN 1 ELSE 0

RecallCount(m) == MapThenSumSet(LAMBDA p : Counted(p, m), Paths(themes))

RequestRecallCountSyn(a, m) ==
  /\ Event /\ Reaches(a, m)
  /\ Deliver(a, <<Msg(m, "count", <<>>, RecallCount(m))>>)
  /\ UNCHANGED <<script, themes, up, queries, relays, ordered>>

RequestObjInfoSyn(a, m) ==
  /\ Event /\ Reaches(a, m)
  /\ queries' = [queries EXCEPT ![a][m] = @ + 1]
  /\ UNCHANGED <<script, themes, up, inbox, relays, ordered>>

RemoveObject(a, id) ==
  /\ Event
  /\ Deliver(a, <<Msg(0, "remove", <<>>, id)>>)
  /\ UNCHANGED <<script, themes, up, queries, relays, ordered>>

RemoveObjectSpecifyMap(a, m) ==
  /\ Event
  /\ Deliver(a, <<Msg(0, "remove_map", <<>>, m)>>)
  /\ UNCHANGED <<script, themes, up, queries, relays, ordered>>

-----------------------------------------------------------------------------
(* The result of a load (Result_ObjInfo_Syn).  Rows are what map servers   *)
(* have written: an object of the script, the command of it that is due,   *)
(* and how far its recall has come.  They are read for the map that asks.  *)

Row(p, com, stage, request) ==
  [path |-> p, com |-> com, stage |-> stage, recall |-> ObjAt(themes, p).map,
   request |-> request]

RowsFor(m) ==
  {Row(p, com, stage, m % 256) : p \in Paths(themes), com \in {1, 2}, stage \in 0..4}

(* A child of the command that is due, if it is recalled on the map asked  *)
(* for: in stage 2 its own server is looked up.                            *)
FromChild(r, sub) ==
  IF SubAt(themes, sub).map # r.request THEN <<>>
  ELSE <<Msg(IF r.stage = 2 THEN SubAt(themes, sub).map ELSE r.recall,
             "addobj", sub, ObjAt(themes, r.path).map)>>

(* A row whose map has no server is passed over.                           *)
FromRow(a, r) ==
  IF ~Reaches(a, r.recall) THEN <<>>
  ELSE CASE r.stage = 1 /\ r.request = r.recall ->
              <<Msg(r.recall, "addobj", r.path, themes[r.path[1]].maps[r.path[2]].num)>>
                \o ExecuteTermsAndCommand(r.path)
         [] r.stage \in {2, 3} /\ HasKidAt(themes, r.path, r.com, "command") ->
              FlattenSeq([j \in 1..Len(ObjAt(themes, r.path).kids[r.com].kids) |->
                FromChild(r, r.path \o <<r.com, j>>)])
         [] OTHER -> <<>>

(* An empty table: the agent executes theme 0 if this is a siege map.      *)
SiegeMaps == {52, 81, 82, 83}

Killed(m, rows) == Cardinality({i \in DOMAIN rows : rows[i].recall = m /\ rows[i].stage = 4})

(* Answer, given only to a map that had rows. *)
AnswerToRows(m, rows) ==
  IF rows = <<>> THEN <<>> ELSE <<Msg(Last(rows).request, "loaded", <<>>, Last(rows).request)>>

(* The answer goes to the map of the last row. *)
Answer(m, rows) ==
  LET to == IF rows = <<>> THEN m ELSE Last(rows).request IN
  <<Msg(to, "loaded", <<>>, to)>>
    \o IF Killed(m, rows) = 0 THEN <<>> ELSE <<Msg(to, "killed", <<>>, Killed(m, rows))>>

WholeTheme(w) ==
  IF ThemesByIdx(themes, w) = {} THEN <<>> ELSE ExecuteStep(ThemeByIdx(themes, w))

Loaded(a, m, rows) ==
  IF rows # <<>>
  THEN FlattenSeq([i \in 1..Len(rows) |-> FromRow(a, rows[i])]) \o Answer(m, rows)
  ELSE IF m \in SiegeMaps THEN WholeTheme(0) \o Answer(m, rows) ELSE <<>>

ResultComes(a, m) ==
  /\ queries[a][m] > 0
  /\ queries' = [queries EXCEPT ![a][m] = @ - 1]

ResultObjInfoSyn(a, m) ==
  /\ ResultComes(a, m)
  /\ \E n \in 0..MaxRows : \E rows \in [1..n -> RowsFor(m)] : Deliver(a, Loaded(a, m, rows))
  /\ UNCHANGED <<script, themes, up, relays, ordered, events>>

-----------------------------------------------------------------------------
(* Orders of masters, which come from a user of the agent.                 *)

CheatExecuteStep(a, w, num, s) ==
  /\ Event
  /\ ThemesByIdx(themes, w) # {}
  /\ LET t == ThemeByIdx(themes, w) IN
     /\ HasMapNum(themes, t, num)
     /\ LET m == MapByNum(themes, t, num) IN
        /\ s \in DOMAIN themes[t].maps[m].steps
        /\ Deliver(a, EachOfStep(themes, t, m, s, ExecuteAddObj))
  /\ UNCHANGED <<script, themes, up, queries, relays, ordered>>

(* The object, and of its command number k child number k.                 *)
NextOf(p) ==
  <<Msg(0, "next", p, 0)>> \o
  FlattenSeq([k \in 1..KidCount(themes, p, "command") |->
    IF HasKidAt(themes, p, k, "command") /\ k \in DOMAIN ObjAt(themes, p).kids[k].kids
    THEN <<Msg(0, "next", p \o <<k, k>>, ObjAt(themes, p).map)>> ELSE <<>>])

NextStepMsgs(p, stage) == IF stage = 1 THEN <<Msg(0, "next", p, 0)>> ELSE NextOf(p)

(* The other agents are told first. *)
Relay(a, order) ==
  relays' = [b \in Agents |-> IF b = a THEN relays[b] ELSE Append(relays[b], order)]

CheatExecuteNextStep(a, p, stage) ==
  /\ Event
  /\ Relay(a, [p |-> p, stage |-> stage])
  /\ Deliver(a, NextStepMsgs(p, stage))
  /\ ordered' = ordered \cup {<<p, m>> : m \in up}
  /\ UNCHANGED <<script, themes, up, queries>>

EndStepMsgs(t, num) ==
  IF HasMapNum(themes, t, num)
  THEN EachOfMap(themes, t, MapByNum(themes, t, num), NextOf) ELSE <<>>

CheatExecuteEndStep(a, w, num) ==
  /\ Event
  /\ ThemesByIdx(themes, w) # {}
  /\ Relay(a, [p |-> <<w, num>>, stage |-> 0])
  /\ Deliver(a, EndStepMsgs(ThemeByIdx(themes, w), num))
  /\ UNCHANGED <<script, themes, up, queries, ordered>>

(* An order that another agent passes on comes as a message of a server,   *)
(* and ServerMsgPaser knows no such message.                               *)
ServerMsgPaser(a) ==
  /\ relays[a] # <<>>
  /\ relays' = [relays EXCEPT ![a] = Tail(@)]
  /\ UNCHANGED <<script, themes, up, inbox, queries, ordered, events>>

-----------------------------------------------------------------------------
(* Map servers come and go. *)

MapDown(m) ==
  /\ m \in up
  /\ up' = up \ {m}
  /\ inbox' = [inbox EXCEPT ![m] = <<>>]
  /\ ordered' = {x \in ordered : x[2] # m}
  /\ UNCHANGED <<script, themes, queries, relays, events>>

MapUp(m) ==
  /\ Event /\ m \notin up
  /\ up' = up \cup {m}
  /\ UNCHANGED <<script, themes, inbox, queries, relays, ordered>>

OrderOf(a) ==
  \/ \E p \in Paths(themes), stage \in {1, 2} : CheatExecuteNextStep(a, p, stage)
  \/ \E w \in {0, 1}, num \in Maps :
       CheatExecuteEndStep(a, w, num) \/ CheatExecuteStep(a, w, num, 1)

MapMsg(a, m) ==
  \/ \E w \in {0, 1} : StepSyn(a, m, w)
  \/ \E num \in Maps, s \in {1, 2}, o \in {1, 2} : ReadyExecuteCommand(a, m, num, s, o)
  \/ RequestRecallCountSyn(a, m)
  \/ RequestObjInfoSyn(a, m)

Next ==
  \/ \E a \in Agents, m \in Maps : MapMsg(a, m) \/ ResultObjInfoSyn(a, m)
  \/ \E a \in Agents : OrderOf(a) \/ ServerMsgPaser(a)
  \/ \E a \in Agents, id \in {0, 1} : RemoveObject(a, id)
  \/ \E a \in Agents, m \in Maps : RemoveObjectSpecifyMap(a, m)
  \/ \E m \in Maps : MapDown(m) \/ MapUp(m)

(* The database answers every query, and its result is handled: no other   *)
(* step takes one from queries.                                            *)
Spec == Init /\ [][Next]_vars
             /\ \A a \in Agents, m \in Maps : WF_queries(ResultComes(a, m))

-----------------------------------------------------------------------------
(* Properties. *)

(* CSiegeRecallMgr.h:96: the commands of the script make the tree, though  *)
(* each goes to whatever was added last and refused ones are skipped.  An  *)
(* object is kept if a step stands between it and the last map that was    *)
(* taken, in the last theme that was; it is kept under that map, in the    *)
(* order of the script.                                                    *)
Opens(lines, t) ==
  /\ lines[t].k = "theme"
  /\ Cardinality({x \in 1..(t - 1) : lines[x].k = "theme"}) < 256

Taken(lines, j) ==
  /\ lines[j].k = "map" /\ lines[j].n # 0
  /\ \E t \in 1..(j - 1) :
       /\ Opens(lines, t)
       /\ \A x \in (t + 1)..(j - 1) :
            ~Opens(lines, x) /\ ~(lines[x].k = "map" /\ lines[x].n = lines[j].n)

ParentOf(lines, i) ==
  {j \in 1..(i - 1) :
     /\ Taken(lines, j)
     /\ \A x \in (j + 1)..(i - 1) : ~Opens(lines, x) /\ ~Taken(lines, x)
     /\ \E s \in (j + 1)..(i - 1) : lines[s].k = "step"}

KeptAt(lines, i) ==
  IF lines[i].k # "object" \/ ParentOf(lines, i) = {} THEN <<>>
  ELSE <<<<lines[CHOOSE j \in ParentOf(lines, i) : TRUE].n, lines[i].id>>>>

Kept(lines) == FlattenSeq([i \in 1..Len(lines) |-> KeptAt(lines, i)])

ScriptKept ==
  Kept(script) =
    EachOf(themes, LAMBDA p : <<<<themes[p[1]].maps[p[2]].num, ObjAt(themes, p).id>>>>)

(* SiegeRecallMgr.cpp:1711-1731: a map server hears of the terms and of the*)
(* command of an object that belongs to its map only after it was told to  *)
(* recall the object, whichever of the agents and of its loads told it, and*)
(* also after it was started again.                                        *)
TermsFollowObject ==
  \A m \in Maps : \A j \in DOMAIN inbox[m] :
    LET x == inbox[m][j] IN
    x.what \in {"check", "command"} =>
      LET p == SubSeq(x.path, 1, 4) IN
      ObjAt(themes, p).map = m =>
        \E i \in 1..(j - 1) : inbox[m][i].what = "addobj" /\ inbox[m][i].path = p

(* Messages to a map server come in an order it can follow.                *)
MessagesFollow == TypeOK /\ TermsFollowObject

(* SiegeRecallMgr.cpp:2119-2158, 1580: a server of a siege map that loads  *)
(* its objects is told in the end that they are all there, if it does not  *)
(* stop: rows that cannot be used, and other servers that are gone, do not *)
(* keep the answer from it.                                                *)
LoadAnswered ==
  \A a \in Agents : \A m \in Maps \cap SiegeMaps :
    queries[a][m] > 0 ~>
      \/ m \notin up
      \/ \E i \in DOMAIN inbox[m] : inbox[m][i].what = "loaded" /\ inbox[m][i].n = m

(* SiegeRecallMgr.cpp:3719: the number of recalled objects of a map that is*)
(* given to its server is the number of the objects its agent may send it: *)
(* those of the script, and those recalled when one of them dies.          *)
CountAgrees ==
  LET Sent(p, m) ==
        Len(SelectSeq(DeathRecalls(p), LAMBDA x : SubAt(themes, x.path).map = m))
          + IF ObjAt(themes, p).map = m THEN 1 ELSE 0
  IN \A m \in Maps : RecallCount(m) = MapThenSumSet(LAMBDA p : Sent(p, m), Paths(themes))

(* SiegeRecallMgr.cpp:1409-1427: an order of a master to bring an object to*)
(* its next step is passed on to the other agents, so that it comes to all *)
(* map servers and not only to those of the agent the master is on.        *)
OrderReachesAll ==
  (\A a \in Agents : relays[a] = <<>>) =>
    \A x \in ordered :
      \E i \in DOMAIN inbox[x[2]] :
        inbox[x[2]][i].what = "next" /\ inbox[x[2]][i].path = x[1]

(* SiegeRecallMgr.h:107: when an object of a step has died, the objects of *)
(* its commands are recalled, whichever theme and map it belongs to.       *)
DeathIsFollowed ==
  \A p \in Paths(themes) :
    LET dead == DeadObject(themes[p[1]].maps[p[2]].num, p[3], p[4])
    IN \A k \in DOMAIN ObjAt(themes, p).kids :
         HasKidAt(themes, p, k, "command") =>
           \A j \in DOMAIN KidAt(themes, p \o <<k>>).kids :
             \E q \in dead : \E x \in DOMAIN DeathRecalls(q) :
               DeathRecalls(q)[x].path = p \o <<k, j>>
=============================================================================
