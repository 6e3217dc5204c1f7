----------------------------- MODULE LoginService -----------------------------
(***************************************************************************)
(* What the login servers promise a client, without messages, queries and  *)
(* agents: a client asks for one account at a time; an answer is about the *)
(* account it asked for; a login that was granted is not taken back while  *)
(* the client stays, and is worth one ticket, which is the client's own.   *)
(***************************************************************************)
EXTENDS Naturals

CONSTANTS
  Conns,      \* connection indexes of clients
  Servers,
  Home,       \* the server a connection index belongs to
  Accounts,
  Nobody      \* no account

VARIABLES
  key,       \* of the client a connection index belongs to, 0 when there is none
  nextKey,   \* the key each server hands out next
  asked,     \* the account each client has asked for and not been told about
  login,     \* how far its login is
  account,   \* whose login it is
  tickets    \* the tickets that are held or in use

vars == <<key, nextKey, asked, login, account, tickets>>

Ticket(c) == [account |-> account[c], key |-> key[c], conn |-> c]

Init ==
  /\ key = [c \in Conns |-> 0]
  /\ nextKey = [s \in Servers |-> 1]
  /\ asked = [c \in Conns |-> {}]
  /\ login = [c \in Conns |-> "none"]
  /\ account = [c \in Conns |-> Nobody]
  /\ tickets = {}

(* A new client has a key its server has never handed out. *)
Arrive(c) ==
  /\ login[c] = "none"
  /\ key' = [key EXCEPT ![c] = nextKey[Home[c]]]
  /\ nextKey' = [nextKey EXCEPT ![Home[c]] = @ + 1]
  /\ login' = [login EXCEPT ![c] = "guest"]
  /\ UNCHANGED <<asked, account, tickets>>

Ask(c, u) ==
  /\ login[c] = "guest" /\ asked[c] = {}
  /\ asked' = [asked EXCEPT ![c] = {u}]
  /\ UNCHANGED <<key, nextKey, login, account, tickets>>

Refuse(c) ==
  /\ login[c] = "guest"
  /\ asked' = [asked EXCEPT ![c] = {}]
  /\ UNCHANGED <<key, nextKey, login, account, tickets>>

Grant(c) ==
  /\ login[c] = "guest"
  /\ \E u \in asked[c] : account' = [account EXCEPT ![c] = u]
  /\ asked' = [asked EXCEPT ![c] = {}]
  /\ login' = [login EXCEPT ![c] = "granted"]
  /\ UNCHANGED <<key, nextKey, tickets>>

(* A ticket, which a client that is leaving does not get. *)
GiveTicket(c) ==
  /\ login[c] = "granted"
  /\ login' = [login EXCEPT ![c] = "ticket"]
  /\ tickets' \in {tickets, tickets \cup {Ticket(c)}}
  /\ UNCHANGED <<key, nextKey, asked, account>>

(* A ticket is used up, or thrown away. *)
DropTicket ==
  /\ tickets' \subseteq tickets
  /\ UNCHANGED <<key, nextKey, asked, login, account>>

Depart(c) ==
  /\ login[c] # "none"
  /\ key' = [key EXCEPT ![c] = 0]
  /\ asked' = [asked EXCEPT ![c] = {}]
  /\ login' = [login EXCEPT ![c] = "none"]
  /\ account' = [account EXCEPT ![c] = Nobody]
  /\ tickets' \subseteq tickets
  /\ UNCHANGED nextKey

Next ==
  \/ \E c \in Conns :
       \/ Arrive(c) \/ Refuse(c) \/ Grant(c) \/ GiveTicket(c) \/ Depart(c)
       \/ \E u \in Accounts : Ask(c, u)
  \/ DropTicket

Spec == Init /\ [][Next]_vars
=============================================================================
