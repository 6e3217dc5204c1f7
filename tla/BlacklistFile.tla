----------------------------- MODULE BlacklistFile -----------------------------
(***************************************************************************)
(* The blacklist on its own: refused connections, the administrator, the   *)
(* clean-up and restarts of the gateway, with what they promise about bans.*)
(***************************************************************************)
EXTENDS Blacklist, FiniteSets

listVars == <<blackVars, now>>

Rejected(i, u) ==
  /\ Len(rejects[LearnKey(i, u)]) < MaxRejects
  /\ RecordReject(i, u)

ListInit == BlacklistInit /\ now = 0

Tick == Advance /\ UNCHANGED blackVars

ListNext ==
  \/ Tick
  \/ UNCHANGED now /\ \/ AdminStep
                      \/ ServiceStep
                      \/ \E i \in Ips, u \in Uids \cup {NoUid} : Rejected(i, u)

ListSpec == ListInit /\ [][ListNext]_listVars

-----------------------------------------------------------------------------
(* Properties. *)

(* README.md:43: the file holds exactly the bans that are in force, with   *)
(* their end and their source, whenever no write is under way: there is no *)
(* change of the lists that the next start would miss or undo.             *)
BansOnFile ==
  ~writing => \A k \in BanKeys :
    /\ InForce(bans[k]) => file.bans[k] = bans[k]
    /\ InForce(file.bans[k]) => bans[k] = file.bans[k]

(* README.md:42-43: a ban in force stays in force until its time is over   *)
(* or the administrator lifts it.  No other ban, no clean-up and no        *)
(* restart ends it or brings its end forward.                              *)
BanStands ==
  [][\A k \in BanKeys :
       Banned(k) =>
         \/ InForce(bans[k])' /\ (bans'[k].until = Forever \/ bans[k].until <= bans'[k].until)
         \/ bans[k].until # Forever /\ now' > bans[k].until
         \/ k \in FilterKeys /\ RemoveBan(k)
         \/ ClearAll]_listVars

(* The rejects counted towards a ban of i lie within one window. *)
Earned(i, rs) ==
  \E k \in {IpKey(i)} \cup {PairKey(i, u) : u \in Uids} :
    Cardinality({j \in DOMAIN rs[k] : rs[k][j] >= now - LearnWindow}) >= Threshold

(* README.md:40, config.go:47-50: the gateway bans an address of its own   *)
(* accord only when one counter of that address has reached the threshold  *)
(* within the window, and an automatic ban never replaces one in force.    *)
AutoBansAreEarned ==
  [][\A i \in Ips :
       LET k == IpKey(i) IN
       bans'[k] # bans[k] /\ bans'[k].by = "auto" /\ bans'[k] # file.bans[k] =>
         Earned(i, rejects') /\ ~Banned(k)]_listVars

(* README.md:40: a counter that reaches the threshold puts the address on  *)
(* the blacklist.                                                          *)
ThresholdBans ==
  [][\A i \in Ips, u \in Uids \cup {NoUid} :
       LET k == LearnKey(i, u) IN
       learn'[k] # learn[k] /\ learn'[k].count >= Threshold => Blacklisted(i, u)']_listVars

(* README.md:43: the bans survive a restart, whenever it comes. *)
BansSurviveRestart ==
  [][Restart => \A k \in BanKeys : Banned(k) => Banned(k)']_listVars

(* blacklist.go:444 and 502: the white list is written to the file and     *)
(* read back from it, so a white address is white after a restart.         *)
WhiteSurvivesRestart == [][Restart => white \subseteq white']_listVars

(* README.md:44, 495-498: a UserIdx found too often in the log is banned.  *)
LogBansBite ==
  \A u \in Uids, i \in Ips : Banned(LogKey(u)) => Blacklisted(i, u)
=============================================================================
