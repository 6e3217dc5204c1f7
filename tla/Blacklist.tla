------------------------------- MODULE Blacklist -------------------------------
(***************************************************************************)
(* The black and white lists of the gateway, the counters it learns from,  *)
(* and the file it keeps the lists in.                                     *)
(*                                                                         *)
(* Every method holds BlacklistManager.mu, so a method is one action; only *)
(* os.WriteFile, which truncates the file and then writes it, is two: the  *)
(* process may end in between.  Until the write is done nobody else gets   *)
(* the lock.                                                               *)
(***************************************************************************)
EXTENDS GatewayClock, Integers, Sequences

CONSTANTS
  BanTicks,        \* BanDuration, 0 for ever
  LearnWindow,     \* AutoLearnWindow
  Threshold,       \* AutoLearnThreshold
  StopsMidWrite,   \* whether the process may end between the two halves of a write
  AdminKeys,       \* bound: the keys the administrator bans and unbans
  LogUsers,        \* bound: the users an uploaded log may be full of
  MaxRejects       \* bound: calls of RecordReject remembered per counter

ASSUME BlacklistAssumption ==
  /\ BanTicks \in Nat
  /\ LearnWindow \in Nat \ {0}
  /\ Threshold \in Nat \ {0}
  /\ StopsMidWrite \in BOOLEAN
  /\ AdminKeys \subseteq FilterKeys
  /\ LogUsers \subseteq Uids
  /\ MaxRejects \in Nat

VARIABLES
  bans,       \* ipBlacklist, uidBlacklist and combinedBlacklist in one table
  white,      \* ipWhitelist
  learn,      \* autoLearnCounters
  file,       \* what persistFile holds
  writing,    \* the file is truncated and not written yet
  rejects     \* history: times of the calls of RecordReject, per counter

blackVars == <<bans, white, learn, file, writing, rejects>>

(* Log analysis bans the string "UserIdx:<n>", as if it were an address. *)
LogKey(u) == <<"ip", "UserIdx", u>>

BanKeys == FilterKeys \cup {LogKey(u) : u \in Uids}

Forever == 0
NoBan   == [until |-> 0, by |-> "none"]

Ban(by) == [until |-> IF BanTicks = 0 THEN Forever ELSE now + BanTicks, by |-> by]

NoCounter == [count |-> 0, start |-> 0]

(* json.Unmarshal refuses a file cut short: nothing is loaded from it. *)
Torn == [bans |-> [k \in BanKeys |-> NoBan], white |-> {}]

BlacklistTypeOK ==
  LET Bans == [BanKeys -> [until : Nat, by : {"none", "manual", "auto", "analysis"}]] IN
  /\ bans \in Bans
  /\ white \subseteq Ips
  /\ learn \in [FilterKeys -> [count : Nat, start : Nat]]
  /\ file \in [bans : Bans, white : SUBSET Ips]
  /\ writing \in BOOLEAN
  /\ rejects \in [FilterKeys -> Seq(Nat)]

BlacklistInit ==
  /\ bans    = [k \in BanKeys |-> NoBan]
  /\ white   = {}
  /\ learn   = [k \in FilterKeys |-> NoCounter]
  /\ file    = Torn
  /\ writing = FALSE
  /\ rejects = [k \in FilterKeys |-> <<>>]

Expired(b) == b.until # Forever /\ now > b.until

(* IsIPBlacklisted, IsUIDBlacklisted and IsCombinedBlacklisted: one lookup. *)
InForce(b) == b # NoBan /\ ~Expired(b)

Banned(k) == InForce(bans[k])

(* IsBlacklisted asks the three lists one after the other. *)
Blacklisted(i, u) == \E k \in KeysOf(i, u) : Banned(k)

-----------------------------------------------------------------------------
(* saveToFile, first half: the list in memory has changed, the file is     *)
(* truncated.  Save is the second half.                                    *)
TruncateFile == file' = Torn /\ writing' = TRUE

Save ==
  /\ writing
  /\ file' = [bans |-> bans, white |-> white]
  /\ writing' = FALSE
  /\ UNCHANGED <<bans, white, learn, rejects>>

(* AddIPBlacklist, AddUIDBlacklist, AddCombinedBlacklist. *)
AddBan(k) ==
  /\ ~writing
  /\ bans' = [bans EXCEPT ![k] = Ban("manual")]
  /\ TruncateFile
  /\ UNCHANGED <<white, learn, rejects>>

(* RemoveBan, without saving. *)
RemoveBanInMemory(k) ==
  /\ ~writing
  /\ bans' = [bans EXCEPT ![k] = NoBan]
  /\ UNCHANGED <<white, learn, file, writing, rejects>>

(* RemoveIPBlacklist, RemoveUIDBlacklist, RemoveCombinedBlacklist. *)
RemoveBan(k) ==
  /\ ~writing
  /\ bans' = [bans EXCEPT ![k] = NoBan]
  /\ TruncateFile
  /\ UNCHANGED <<white, learn, rejects>>

ClearAll ==
  /\ ~writing
  /\ bans'  = [k \in BanKeys |-> NoBan]
  /\ learn' = [k \in FilterKeys |-> NoCounter]
  /\ TruncateFile
  /\ UNCHANGED <<white, rejects>>

(* AddIPWhitelist does not save. *)
AddIPWhitelist(i) ==
  /\ ~writing
  /\ white' = white \cup {i}
  /\ UNCHANGED <<bans, learn, file, writing, rejects>>

-----------------------------------------------------------------------------
(* Learning from refused connections. *)

LearnKey(i, u) == IF u = NoUid THEN IpKey(i) ELSE PairKey(i, u)

(* CounterAfter, for ever in its first window. *)
CounterEndless(c) ==
  IF c.count = 0 THEN [count |-> 1, start |-> now] ELSE [c EXCEPT !.count = @ + 1]

CounterAfter(c) ==
  IF c.count = 0 \/ now - c.start > LearnWindow
  THEN [count |-> 1, start |-> now]
  ELSE [c EXCEPT !.count = @ + 1]

(* A counter that has just been made bans nobody, and neither does one     *)
(* whose address or pair has an entry, be it an expired one that the       *)
(* clean-up has not reached.                                               *)
BansNow(i, u, c) ==
  /\ c.count > 1
  /\ c.count >= Threshold
  /\ bans[IpKey(i)] = NoBan
  /\ u # NoUid => bans[PairKey(i, u)] = NoBan

(* RecordReject: what is banned is the address, whatever the UserIdx. *)
RecordReject(i, u) ==
  LET k == LearnKey(i, u)
      c == CounterAfter(learn[k]) IN
  /\ ~writing
  /\ learn'   = [learn EXCEPT ![k] = c]
  /\ rejects' = [rejects EXCEPT ![k] = Append(@, now)]
  /\ IF BansNow(i, u, c)
     THEN bans' = [bans EXCEPT ![IpKey(i)] = Ban("auto")] /\ TruncateFile
     ELSE UNCHANGED <<bans, file, writing>>
  /\ UNCHANGED white

(* AnalyzeLogAndBlock on a log in which the users us are at the threshold. *)
AnalyzeLogAndBlock(us) ==
  LET new == {LogKey(u) : u \in {v \in us : bans[LogKey(v)] = NoBan}} IN
  /\ ~writing
  /\ new # {}
  /\ bans' = [k \in BanKeys |-> IF k \in new THEN Ban("analysis") ELSE bans[k]]
  /\ TruncateFile
  /\ UNCHANGED <<white, learn, rejects>>

-----------------------------------------------------------------------------
(* The clean-up routine, and the end and start of the process. *)

(* The clean-up, a tick early. *)
CleanupEarly ==
  /\ ~writing
  /\ bans'  = [k \in BanKeys |-> IF bans[k].until # Forever /\ now >= bans[k].until
                                 THEN NoBan ELSE bans[k]]
  /\ learn' = [k \in FilterKeys |-> IF now - learn[k].start > 2 * LearnWindow
                                    THEN NoCounter ELSE learn[k]]
  /\ UNCHANGED <<white, file, writing, rejects>>

CleanupExpired ==
  /\ ~writing
  /\ bans'  = [k \in BanKeys |-> IF Expired(bans[k]) THEN NoBan ELSE bans[k]]
  /\ learn' = [k \in FilterKeys |-> IF now - learn[k].start > 2 * LearnWindow
                                    THEN NoCounter ELSE learn[k]]
  /\ UNCHANGED <<white, file, writing, rejects>>

(* NewBlacklistManager and loadFromFile. *)
Restart ==
  /\ writing => StopsMidWrite
  /\ bans'  = [k \in BanKeys |-> IF InForce(file.bans[k]) THEN file.bans[k] ELSE NoBan]
  /\ white' = file.white
  /\ learn' = [k \in FilterKeys |-> NoCounter]
  /\ writing' = FALSE
  /\ UNCHANGED <<file, rejects>>

AdminStep ==
  \/ \E k \in AdminKeys : AddBan(k) \/ RemoveBan(k)
  \/ ClearAll
  \/ \E i \in Ips : AddIPWhitelist(i)
  \/ \E us \in SUBSET LogUsers : AnalyzeLogAndBlock(us)

ServiceStep == Save \/ CleanupExpired \/ Restart
=============================================================================
