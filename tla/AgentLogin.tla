----------------------------- MODULE AgentLogin -----------------------------
(***************************************************************************)
(* The session tables of an agent server.  A session is one USERINFO block *)
(* of g_UserInfoPool; three hash tables point at it: g_pUserTable by       *)
(* connection index, g_pUserTableForUserID by account and                  *)
(* g_pUserTableForObjectID by character.  A block is reserved for an       *)
(* account when a distribute server announces the login, and a connection  *)
(* that has just been accepted gets a temporary block of its own, replaced *)
(* by the reserved one when the client names its account and key.          *)
(*                                                                         *)
(* Blocks are modelled as pointers, so that a table entry left behind by a *)
(* freed block, and its reuse for somebody else, are states of the model.  *)
(* An account plays one character, so the table by character is indexed by *)
(* the account it belongs to.                                              *)
(***************************************************************************)
EXTENDS LoginWires

CONSTANTS
  Slots,     \* the USERINFO blocks of one agent's pool
  NoSlot,    \* NULL
  NoConn     \* dwConnectionIndex = 0

ASSUME AgentAssumption ==
  /\ NoSlot \notin Slots
  /\ NoConn \notin AConns

VARIABLES
  slots,     \* slots[a][s]: the contents of block s
  free,      \* free[a]: the blocks the pool can hand out
  connTab,   \* connTab[c]: g_pUserTable of AgentOf[c]
  userTab,   \* userTab[a][u]: g_pUserTableForUserID
  charTab,   \* charTab[a][u]: g_pUserTableForObjectID
  anet,      \* the connection index in the network layer
  nextAKey,  \* the static ID of MakeAuthKey
  mapOut     \* mapOut[a][u]: leave notices for u at the map servers of agent a

agentVars == <<slots, free, connTab, userTab, charTab, anet, nextAKey, mapOut>>

(* user = dwUserID, dkey = DistAuthKey, key = dwUniqueConnectIdx,          *)
(* conn = dwConnectionIndex, char = (dwCharacterID # 0).                   *)
Info == [user : Users \cup {NoUser}, dkey : Nat, key : Nat,
         conn : AConns \cup {NoConn}, char : BOOLEAN]

Zero == [user |-> NoUser, dkey |-> 0, key |-> 0, conn |-> NoConn, char |-> FALSE]

AgentTypeOK ==
  /\ slots \in [Agents -> [Slots -> Info]]
  /\ free \in [Agents -> SUBSET Slots]
  /\ connTab \in [AConns -> Slots \cup {NoSlot}]
  /\ userTab \in [Agents -> [Users -> Slots \cup {NoSlot}]]
  /\ charTab \in [Agents -> [Users -> Slots \cup {NoSlot}]]
  /\ anet \in [AConns -> {"free", "open", "closing"}]
  /\ nextAKey \in [Agents -> Nat \ {0}]
  /\ mapOut \in [Agents -> [Users -> Nat]]

AgentInit ==
  /\ slots = [a \in Agents |-> [s \in Slots |-> Zero]]
  /\ free = [a \in Agents |-> Slots]
  /\ connTab = [c \in AConns |-> NoSlot]
  /\ userTab = [a \in Agents |-> [u \in Users |-> NoSlot]]
  /\ charTab = [a \in Agents |-> [u \in Users |-> NoSlot]]
  /\ anet = [c \in AConns |-> "free"]
  /\ nextAKey = [a \in Agents |-> 1]
  /\ mapOut = [a \in Agents |-> [u \in Users |-> 0]]

(* memset and g_UserInfoPool.Free, with the entry of the account removed.  *)
(* RemoveUser of an absent key does nothing.                               *)
FreeSession(a, s, u) ==
  /\ userTab' = IF u \in Users THEN [userTab EXCEPT ![a][u] = NoSlot] ELSE userTab
  /\ slots' = [slots EXCEPT ![a][s] = Zero]
  /\ free' = [free EXCEPT ![a] = @ \cup {s}]

-----------------------------------------------------------------------------
(* Connections. *)

(* OnAcceptUser: the connection gets a temporary block. *)
AAccept(c) ==
  LET a == AgentOf[c] IN
  /\ anet[c] = "free"
  /\ anet' = [anet EXCEPT ![c] = "open"]
  /\ \E s \in free[a] :
       /\ free' = [free EXCEPT ![a] = @ \ {s}]
       /\ slots' = [slots EXCEPT ![a][s] = [Zero EXCEPT !.conn = c]]
       /\ connTab' = [connTab EXCEPT ![c] = s]
  /\ UNCHANGED <<userTab, charTab, nextAKey, mapOut, dbVars, linkVars>>

(* CUserTable::OnDisconnectUser, without the network state.  A character   *)
(* on a map server that is up leaves the login row to the map server.      *)
OnDisconnectUser(c) ==
  LET a == AgentOf[c]
      s == connTab[c]
      r == slots[a][s] IN
  IF s = NoSlot
  THEN UNCHANGED <<slots, free, connTab, userTab, charTab, mapOut, deletes>>
  ELSE
    /\ connTab' = [connTab EXCEPT ![c] = NoSlot]
    /\ FreeSession(a, s, r.user)
    /\ charTab' = IF r.char THEN [charTab EXCEPT ![a][r.user] = NoSlot] ELSE charTab
    /\ \/ /\ r.char
          /\ mapOut' = [mapOut EXCEPT ![a][r.user] = @ + 1]
          /\ UNCHANGED deletes
       \/ /\ r.user # NoUser
          /\ LoginCheckDelete(r.user)
          /\ UNCHANGED mapOut
       \/ /\ r.user = NoUser
          /\ UNCHANGED <<deletes, mapOut>>

(* The client leaves, or the line fails. *)
AConnLost(c) ==
  /\ anet[c] = "open"
  /\ anet' = [anet EXCEPT ![c] = "closing"]
  /\ UNCHANGED <<slots, free, connTab, userTab, charTab, nextAKey, mapOut,
                 dbVars, linkVars>>

(* The disconnect callback of the network layer. *)
ADisconnected(c) ==
  /\ anet[c] = "closing"
  /\ anet' = [anet EXCEPT ![c] = "free"]
  /\ OnDisconnectUser(c)
  /\ UNCHANGED <<nextAKey, row, queries, results, linkVars>>

(* OnDisconnectUser followed by DisconnectUser: the client's own           *)
(* MP_USERCONN_DISCONNECT_SYN, a checksum mismatch, a map server's         *)
(* MP_USERCONN_GAMEIN_NACK, a client that ConnectionCheck gives up.        *)
ADrop(c) ==
  /\ anet[c] = "open"
  /\ anet' = [anet EXCEPT ![c] = "closing"]
  /\ OnDisconnectUser(c)
  /\ UNCHANGED <<nextAKey, row, queries, results, linkVars>>

(* ConnectionCheck, for a block of g_pUserTable without a connection       *)
(* index: its account is logged out and the block freed.                   *)
ReapUnconnected(c) ==
  LET a == AgentOf[c]
      s == connTab[c]
      u == slots[a][s].user IN
  /\ s # NoSlot
  /\ slots[a][s].conn = NoConn
  /\ IF u \in Users THEN LoginCheckDelete(u) ELSE UNCHANGED deletes
  /\ FreeSession(a, s, u)
  /\ UNCHANGED <<connTab, charTab, anet, nextAKey, mapOut, row, queries, results, linkVars>>

-----------------------------------------------------------------------------
(* Messages of a distribute server. *)

AReceives(d, a, type) ==
  /\ toAgent[d][a] # <<>>
  /\ Head(toAgent[d][a]).type = type
  /\ toAgent' = [toAgent EXCEPT ![d][a] = Tail(@)]

(* The rest of UserConn_Notify_UserLogin_Syn, with the blocks that are     *)
(* free and the contents of all: AGENTDISABLE is sent when no block is     *)
(* left, and the distribute server gets no answer then.                    *)
Reserve(d, a, m, pool, blocks) ==
  \/ /\ pool = {}
     /\ UNCHANGED <<slots, free, userTab, nextAKey, toDist>>
  \/ \E s \in pool :
       /\ free' = [free EXCEPT ![a] = pool \ {s}]
       /\ slots' = [slots EXCEPT ![a] = [blocks EXCEPT ![s] =
            [Zero EXCEPT !.user = m.user, !.dkey = m.key, !.key = nextAKey[a]]]]
       /\ userTab' = [userTab EXCEPT ![a][m.user] = s]
       /\ nextAKey' = [nextAKey EXCEPT ![a] = @ + 1]
       /\ SendToDist(a, d, UserLoginAck(m.user, m.key, nextAKey[a], m.dc))

(* g_bReady is set once, before the agent serves anybody. *)
NotReady(a) == free[a] = Slots /\ nextAKey[a] = 1

(* UserConn_Notify_UserLogin_Syn. *)
NotifyUserLoginSyn(d, a) ==
  LET m == Head(toAgent[d][a])
      s == userTab[a][m.user] IN
  /\ AReceives(d, a, "userlogin_syn")
  /\ \/ /\ NotReady(a)
        /\ SendToDist(a, d, UserLoginNack(m.user, m.key, m.dc))
        /\ UNCHANGED <<slots, free, userTab, nextAKey, anet>>
     \/ /\ s = NoSlot
        /\ Reserve(d, a, m, free[a], slots[a])
        /\ UNCHANGED anet
     \/ /\ s # NoSlot                       \* connected: out with the old, try later
        /\ slots[a][s].conn # NoConn
        /\ anet' = [anet EXCEPT ![slots[a][s].conn] = "closing"]
        /\ SendToDist(a, d, UserLoginNack(m.user, m.key, m.dc))
        /\ UNCHANGED <<slots, free, userTab, nextAKey>>
     \/ /\ s # NoSlot                       \* reserved: freed for the new login
        /\ slots[a][s].conn = NoConn
        /\ Reserve(d, a, m, free[a] \cup {s}, [slots[a] EXCEPT ![s] = Zero])
        /\ UNCHANGED anet
  /\ UNCHANGED <<connTab, charTab, mapOut, dbVars>>

(* The session of account u is dropped from the table by account only. *)
DropAccount(a, u) ==
  /\ LoginCheckDelete(u)
  /\ FreeSession(a, userTab[a][u], u)

(* UserConn_NotifyToAgent_AlreadyOut, without the dwUniqueConnectIdx test. *)
NotifyAlreadyOutAnyKey(d, a) ==
  LET m == Head(toAgent[d][a])
      s == userTab[a][m.user] IN
  /\ AReceives(d, a, "alreadyout")
  /\ IF s # NoSlot
     THEN DropAccount(a, m.user)
     ELSE UNCHANGED <<slots, free, userTab, deletes>>
  /\ UNCHANGED <<connTab, charTab, anet, nextAKey, mapOut, row, queries, results, toDist>>

(* UserConn_NotifyToAgent_AlreadyOut. *)
NotifyAlreadyOut(d, a) ==
  LET m == Head(toAgent[d][a])
      s == userTab[a][m.user] IN
  /\ AReceives(d, a, "alreadyout")
  /\ IF s # NoSlot /\ slots[a][s].key = m.key
     THEN DropAccount(a, m.user)
     ELSE UNCHANGED <<slots, free, userTab, deletes>>
  /\ UNCHANGED <<connTab, charTab, anet, nextAKey, mapOut, row, queries, results, toDist>>

(* UserConn_Disconnected_On_Login, without the DistAuthKey test. *)
DisconnectedDuringLoginAnyKey(d, a) ==
  LET m == Head(toAgent[d][a])
      s == userTab[a][m.user] IN
  /\ AReceives(d, a, "disconnected_on_login")
  /\ IF s # NoSlot
     THEN DropAccount(a, m.user)
     ELSE UNCHANGED <<slots, free, userTab, deletes>>
  /\ UNCHANGED <<connTab, charTab, anet, nextAKey, mapOut, row, queries, results, toDist>>

(* UserConn_Disconnected_On_Login: no test of dwConnectionIndex. *)
DisconnectedDuringLogin(d, a) ==
  LET m == Head(toAgent[d][a])
      s == userTab[a][m.user] IN
  /\ AReceives(d, a, "disconnected_on_login")
  /\ IF s # NoSlot /\ slots[a][s].dkey = m.key
     THEN DropAccount(a, m.user)
     ELSE UNCHANGED <<slots, free, userTab, deletes>>
  /\ UNCHANGED <<connTab, charTab, anet, nextAKey, mapOut, row, queries, results, toDist>>

(* UserConn_Force_Disconnect_OverlapLogin. *)
ForceDisconnectOverlapLogin(d, a) ==
  LET m == Head(toAgent[d][a])
      s == userTab[a][m.user]
      c == slots[a][s].conn IN
  /\ AReceives(d, a, "force")
  /\ \/ /\ s = NoSlot
        /\ UNCHANGED <<slots, free, connTab, userTab, charTab, anet, mapOut, deletes>>
     \/ /\ s # NoSlot
        /\ c # NoConn
        /\ OnDisconnectUser(c)
        /\ anet' = [anet EXCEPT ![c] = "closing"]
     \/ /\ s # NoSlot
        /\ c = NoConn
        /\ DropAccount(a, m.user)
        /\ UNCHANGED <<connTab, charTab, anet, mapOut>>
  /\ UNCHANGED <<nextAKey, row, queries, results, toDist>>

-----------------------------------------------------------------------------
(* Messages of the client and of the map servers. *)

(* The session of account u that was announced with this key. *)
HeldUnder(a, u, key) ==
  userTab[a][u] # NoSlot /\ slots[a][userTab[a][u]].dkey = key

(* UserConn_Characterlist_Syn with the account and key the client got from *)
(* the distribute server.                                                  *)
CharacterlistSyn(c, u, key) ==
  LET a == AgentOf[c]
      s == userTab[a][u]
      pre == connTab[c] IN
  /\ anet[c] = "open"
  /\ \/ /\ ~HeldUnder(a, u, key)
        /\ OnDisconnectUser(c)
        /\ anet' = [anet EXCEPT ![c] = "closing"]
     \/ /\ HeldUnder(a, u, key)
        /\ pre = NoSlot
        /\ UNCHANGED <<slots, free, connTab, userTab, charTab, mapOut, deletes, anet>>
     \/ /\ HeldUnder(a, u, key)
        /\ pre # NoSlot
        /\ slots' = [slots EXCEPT ![a][s].conn = c]
        /\ free' = [free EXCEPT ![a] = @ \cup {pre}]
        /\ connTab' = [connTab EXCEPT ![c] = s]
        /\ UNCHANGED <<userTab, charTab, mapOut, deletes, anet>>
  /\ UNCHANGED <<nextAKey, row, queries, results, linkVars>>

(* UserConn_CharacterSelect_Syn, for a map that is served. *)
CharacterSelect(c) ==
  LET a == AgentOf[c]
      s == connTab[c]
      u == slots[a][s].user IN
  /\ anet[c] = "open"
  /\ s # NoSlot
  /\ u # NoUser
  /\ charTab' = [charTab EXCEPT ![a][u] = s]
  /\ slots' = [slots EXCEPT ![a][s].char = TRUE]
  /\ UNCHANGED <<free, connTab, userTab, anet, nextAKey, mapOut, dbVars, linkVars>>

(* UserConn_BackToCharSel_Ack, from the map server of the character. *)
BackToCharSel(a, u) ==
  LET s == charTab[a][u] IN
  /\ s # NoSlot
  /\ charTab' = [charTab EXCEPT ![a][u] = NoSlot]
  /\ slots' = [slots EXCEPT ![a][s].char = FALSE]
  /\ UNCHANGED <<free, connTab, userTab, anet, nextAKey, mapOut, dbVars, linkVars>>

(* A map server has put the character of a player who left away and sends  *)
(* MP_USERCONN_LOGINCHECK_DELETE: UserConn_LoginCheck_Delete.              *)
LoginCheckDeleteFromMap(a, u) ==
  /\ mapOut[a][u] > 0
  /\ mapOut' = [mapOut EXCEPT ![a][u] = @ - 1]
  /\ IF userTab[a][u] = NoSlot THEN LoginCheckDelete(u) ELSE UNCHANGED deletes
  /\ UNCHANGED <<slots, free, connTab, userTab, charTab, anet, nextAKey,
                 row, queries, results, linkVars>>
=============================================================================
