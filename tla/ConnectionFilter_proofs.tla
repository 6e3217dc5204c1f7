------------------------ MODULE ConnectionFilter_proofs ------------------------
(***************************************************************************)
(* The promises of the gateway's black list, of its limiter and of the     *)
(* filter that asks both, for any number of connections, addresses, users  *)
(* and administrators, any limits, windows and configuration.              *)
(*                                                                         *)
(* The black list first.  The end of a ban must be known to grow with the  *)
(* time it was set: EndsBounded.  Without it a second ban of the same key  *)
(* could end before the first.  And a counter must be known not to count   *)
(* more than was recorded since it began: CountersHonest.                  *)
(*                                                                         *)
(* Then that no standing ban is slipped past.  Its invariant follows a     *)
(* connection through its lookups: what it has been asked already is not   *)
(* among the keys banned ever since it began.                              *)
(*                                                                         *)
(* Last, that the limiter lets no more in than its windows allow and       *)
(* refuses nobody it has room for: the record of each key is tied to the   *)
(* admissions under it, of the open window and of the window before that.  *)
(***************************************************************************)
EXTENDS ConnectionFilter, BlacklistFile, FiniteSetTheorems, TLAPS

(* The black list: bans, counters and the file.                            *)

Entries == [until : Nat, by : {"none", "manual", "auto", "analysis"}]

(* The part of the types that time and the lists need. *)
ListsTypeOK ==
  /\ now \in Nat
  /\ bans \in [BanKeys -> Entries]
  /\ file.bans \in [BanKeys -> Entries]
  /\ DOMAIN file = {"bans", "white"}
  /\ writing \in BOOLEAN

EndFits(b) ==
  b # NoBan => IF BanTicks = 0 THEN b.until = Forever
               ELSE b.until # Forever /\ b.until <= now + BanTicks

EndsBounded == \A k \in BanKeys : EndFits(bans[k]) /\ EndFits(file.bans[k])

BansInv == ListsTypeOK /\ EndsBounded /\ BansOnFile

-----------------------------------------------------------------------------
(* What is no longer in force never is again. *)
LEMMA TimeEndsBans ==
  ASSUME now \in Nat, now' \in Nat, now <= now', NEW b \in Entries, b' = b, InForce(b)'
  PROVE  InForce(b)
BY DEF InForce, Expired, NoBan, Entries, Forever

LEMMA NewBanFits ==
  ASSUME now \in Nat, NEW by \in {"manual", "auto", "analysis"}
  PROVE  /\ Ban(by) \in Entries
         /\ Ban(by) # NoBan
         /\ EndFits(Ban(by))
         /\ InForce(Ban(by))
BY BlacklistAssumption DEF Ban, Entries, NoBan, EndFits, InForce, Expired, Forever

Sources == {"manual", "auto", "analysis"}

(* A key is left alone, freed, or banned anew. *)
Rewritten(k) == \/ bans'[k] = bans[k]
                \/ bans'[k] = NoBan
                \/ \E by \in Sources : bans'[k] = Ban(by)

(* Every method that changes a list and saves it. *)
LEMMA ListsRewritten ==
  ASSUME BansInv, now' = now, TruncateFile,
         bans' = [k \in BanKeys |-> bans'[k]],
         \A k \in BanKeys : Rewritten(k)
  PROVE  BansInv'
<1>1. \A k \in BanKeys : bans'[k] \in Entries /\ EndFits(bans[k])'
  <2> TAKE k \in BanKeys
  <2>1. CASE bans'[k] = bans[k]
    BY <2>1 DEF BansInv, ListsTypeOK, EndsBounded, EndFits
  <2>2. CASE bans'[k] = NoBan
    BY <2>2 DEF EndFits, NoBan, Entries
  <2>3. CASE \E by \in Sources : bans'[k] = Ban(by)
    BY <2>3, NewBanFits DEF Sources, BansInv, ListsTypeOK, EndFits
  <2> QED BY <2>1, <2>2, <2>3 DEF Rewritten
<1>2. bans' \in [BanKeys -> Entries]
  BY <1>1
<1>3. /\ file'.bans \in [BanKeys -> Entries]
      /\ DOMAIN file' = {"bans", "white"}
      /\ \A k \in BanKeys : EndFits(file.bans[k])'
  BY DEF TruncateFile, Torn, NoBan, Entries, EndFits
<1>4. ListsTypeOK'
  BY <1>2, <1>3 DEF BansInv, ListsTypeOK, TruncateFile
<1>5. EndsBounded'
  BY <1>1, <1>3 DEF EndsBounded
<1>6. BansOnFile'
  BY DEF BansOnFile, TruncateFile
<1> QED
  BY <1>4, <1>5, <1>6 DEF BansInv

LEMMA BansInitHold == ListInit => BansInv
<1> SUFFICES ASSUME ListInit PROVE BansInv
  OBVIOUS
<1>1. /\ bans = [k \in BanKeys |-> NoBan]
      /\ file = [bans |-> [k \in BanKeys |-> NoBan], white |-> {}]
      /\ writing = FALSE /\ now = 0
  BY DEF ListInit, BlacklistInit, Torn
<1>2. NoBan \in Entries
  BY DEF NoBan, Entries
<1>3. ListsTypeOK
  BY <1>1, <1>2 DEF ListsTypeOK
<1>4. EndsBounded
  BY <1>1 DEF EndsBounded, EndFits
<1>5. BansOnFile
  BY <1>1 DEF BansOnFile, InForce
<1> QED BY <1>3, <1>4, <1>5 DEF BansInv

LEMMA AdminHolds ==
  ASSUME BansInv, AdminStep, UNCHANGED now
  PROVE  BansInv'
<1>1. ASSUME NEW k \in FilterKeys, AddBan(k) PROVE BansInv'
  <2>1. \A x \in BanKeys : Rewritten(x)
    BY <1>1 DEF AddBan, Rewritten, Sources, BansInv, ListsTypeOK
  <2> QED BY <1>1, <2>1, ListsRewritten DEF AddBan, BansInv, ListsTypeOK
<1>2. ASSUME NEW k \in FilterKeys, RemoveBan(k) PROVE BansInv'
  <2>1. \A x \in BanKeys : Rewritten(x)
    BY <1>2 DEF RemoveBan, Rewritten, BansInv, ListsTypeOK
  <2> QED BY <1>2, <2>1, ListsRewritten DEF RemoveBan, BansInv, ListsTypeOK
<1>3. ASSUME ClearAll PROVE BansInv'
  <2>1. \A x \in BanKeys : Rewritten(x)
    BY <1>3 DEF ClearAll, Rewritten
  <2> QED BY <1>3, <2>1, ListsRewritten DEF ClearAll
<1>4. ASSUME NEW i \in Ips, AddIPWhitelist(i) PROVE BansInv'
  BY <1>4 DEF AddIPWhitelist, BansInv, ListsTypeOK, EndsBounded, EndFits, BansOnFile,
              InForce, Expired
<1>5. ASSUME NEW us \in SUBSET LogUsers, AnalyzeLogAndBlock(us) PROVE BansInv'
  <2>1. \A x \in BanKeys : Rewritten(x)
    BY <1>5 DEF AnalyzeLogAndBlock, Rewritten, Sources
  <2> QED BY <1>5, <2>1, ListsRewritten DEF AnalyzeLogAndBlock
<1> QED
  BY <1>1, <1>2, <1>3, <1>4, <1>5, BlacklistAssumption DEF AdminStep

LEMMA LearningHolds ==
  ASSUME BansInv, NEW i \in Ips, NEW u \in Uids \cup {NoUid}, RecordReject(i, u), UNCHANGED now
  PROVE  BansInv'
<1> DEFINE c == CounterAfter(learn[LearnKey(i, u)])
<1>1. CASE BansNow(i, u, c)
  <2>1. bans' = [bans EXCEPT ![IpKey(i)] = Ban("auto")] /\ TruncateFile
    BY <1>1 DEF RecordReject
  <2>2. \A x \in BanKeys : Rewritten(x)
    BY <2>1 DEF Rewritten, Sources, BansInv, ListsTypeOK
  <2> QED BY <2>1, <2>2, ListsRewritten DEF BansInv, ListsTypeOK
<1>2. CASE ~BansNow(i, u, c)
  <2>1. UNCHANGED <<bans, file, writing, now>>
    BY <1>2 DEF RecordReject
  <2> QED BY <2>1 DEF BansInv, ListsTypeOK, EndsBounded, EndFits, BansOnFile, InForce, Expired
<1> QED BY <1>1, <1>2

LEMMA ServiceHolds ==
  ASSUME BansInv, ServiceStep, UNCHANGED now
  PROVE  BansInv'
<1>1. ASSUME Save PROVE BansInv'
  BY <1>1 DEF Save, BansInv, ListsTypeOK, EndsBounded, EndFits, BansOnFile, InForce, Expired
<1>2. ASSUME CleanupExpired PROVE BansInv'
  <2>1. /\ ListsTypeOK'
        /\ \A k \in BanKeys : bans'[k] = IF Expired(bans[k]) THEN NoBan ELSE bans[k]
        /\ UNCHANGED <<now, file, writing>>
    BY <1>2 DEF CleanupExpired, BansInv, ListsTypeOK, Entries, NoBan
  <2>2. EndsBounded'
    BY <2>1 DEF BansInv, EndsBounded, EndFits
  <2>3. BansOnFile'
    BY <2>1 DEF BansInv, BansOnFile, InForce, Expired
  <2> QED BY <2>1, <2>2, <2>3 DEF BansInv
<1>3. ASSUME Restart PROVE BansInv'
  <2>1. /\ ListsTypeOK'
        /\ \A k \in BanKeys :
             bans'[k] = IF InForce(file.bans[k]) THEN file.bans[k] ELSE NoBan
        /\ UNCHANGED <<now, file>>
    BY <1>3 DEF Restart, BansInv, ListsTypeOK, Entries, NoBan
  <2>2. EndsBounded'
    BY <2>1 DEF BansInv, EndsBounded, EndFits
  <2>3. BansOnFile'
    BY <2>1 DEF BansInv, BansOnFile, InForce, Expired
  <2> QED BY <2>1, <2>2, <2>3 DEF BansInv
<1> QED BY <1>1, <1>2, <1>3 DEF ServiceStep

LEMMA TickHolds ==
  ASSUME BansInv, Tick
  PROVE  BansInv'
<1>1. now \in Nat /\ now' = now + 1 /\ UNCHANGED <<bans, file, writing>>
  BY DEF Tick, Advance, blackVars, BansInv, ListsTypeOK
<1>2. ListsTypeOK'
  BY <1>1 DEF BansInv, ListsTypeOK
<1>3. EndsBounded'
  BY <1>1, BlacklistAssumption DEF BansInv, ListsTypeOK, EndsBounded, EndFits, Entries
<1>4. BansOnFile'
  BY <1>1 DEF BansInv, ListsTypeOK, BansOnFile, InForce, Expired, Entries
<1> QED BY <1>2, <1>3, <1>4 DEF BansInv

LEMMA BansStepHold == BansInv /\ [ListNext]_listVars => BansInv'
<1> SUFFICES ASSUME BansInv, [ListNext]_listVars PROVE BansInv'
  OBVIOUS
<1>1. CASE Tick
  BY <1>1, TickHolds
<1>2. CASE UNCHANGED now /\ AdminStep
  BY <1>2, AdminHolds
<1>3. CASE UNCHANGED now /\ ServiceStep
  BY <1>3, ServiceHolds
<1>4. ASSUME NEW i \in Ips, NEW u \in Uids \cup {NoUid}, UNCHANGED now, Rejected(i, u)
      PROVE  BansInv'
  BY <1>4, LearningHolds DEF Rejected
<1>5. CASE UNCHANGED listVars
  BY <1>5 DEF listVars, blackVars, BansInv, ListsTypeOK, EndsBounded, EndFits, BansOnFile,
              InForce, Expired
<1> QED BY <1>1, <1>2, <1>3, <1>4, <1>5 DEF ListNext

LEMMA ListsAlways == ListSpec => []BansInv
BY BansInitHold, BansStepHold, PTL DEF ListSpec

-----------------------------------------------------------------------------
(* What one step does to a ban in force. *)

(* The ban of k goes on, with its end where it was or later. *)
GoesOn(k) == InForce(bans[k])' /\ (bans'[k].until = Forever \/ bans[k].until <= bans'[k].until)

LEMMA SameBanGoesOn ==
  ASSUME ListsTypeOK, NEW k \in BanKeys, Banned(k), bans'[k] = bans[k], now' = now
  PROVE  GoesOn(k)
BY DEF GoesOn, Banned, InForce, Expired, ListsTypeOK, Entries

LEMMA NewBanGoesOn ==
  ASSUME BansInv, NEW k \in BanKeys, Banned(k), NEW by \in Sources, bans'[k] = Ban(by), now' = now
  PROVE  GoesOn(k)
<1>1. InForce(bans[k])'
  BY NewBanFits DEF BansInv, ListsTypeOK, Sources, InForce, Expired
<1>2. bans[k].until <= now + BanTicks \/ BanTicks = 0
  BY DEF BansInv, EndsBounded, EndFits, Banned, InForce
<1> QED BY <1>1, <1>2 DEF GoesOn, Ban, Forever

Stands(k) == \/ GoesOn(k)
             \/ bans[k].until # Forever /\ now' > bans[k].until
             \/ k \in FilterKeys /\ RemoveBan(k)
             \/ ClearAll

LEMMA AdminKeepsBans ==
  ASSUME BansInv, AdminStep, UNCHANGED now, NEW k \in BanKeys, Banned(k)
  PROVE  Stands(k)
<1>1. ASSUME NEW x \in FilterKeys, AddBan(x) PROVE Stands(k)
  <2>1. bans'[k] = bans[k] \/ bans'[k] = Ban("manual")
    BY <1>1 DEF AddBan, BansInv, ListsTypeOK
  <2> QED BY <2>1, SameBanGoesOn, NewBanGoesOn DEF Stands, Sources, BansInv
<1>2. ASSUME NEW x \in FilterKeys, RemoveBan(x) PROVE Stands(k)
  <2>1. k = x \/ bans'[k] = bans[k]
    BY <1>2 DEF RemoveBan, BansInv, ListsTypeOK
  <2> QED BY <1>2, <2>1, SameBanGoesOn DEF Stands, BansInv
<1>3. ASSUME NEW i \in Ips, AddIPWhitelist(i) PROVE Stands(k)
  BY <1>3, SameBanGoesOn DEF AddIPWhitelist, Stands, BansInv
<1>4. ASSUME NEW us \in SUBSET LogUsers, AnalyzeLogAndBlock(us) PROVE Stands(k)
  <2>1. bans'[k] = bans[k] \/ bans'[k] = Ban("analysis")
    BY <1>4 DEF AnalyzeLogAndBlock
  <2> QED BY <2>1, SameBanGoesOn, NewBanGoesOn DEF Stands, Sources, BansInv
<1> QED
  BY <1>1, <1>2, <1>3, <1>4, BlacklistAssumption DEF AdminStep, Stands

LEMMA ServiceKeepsBans ==
  ASSUME ~StopsMidWrite, BansInv, ServiceStep, UNCHANGED now, NEW k \in BanKeys, Banned(k)
  PROVE  GoesOn(k)
<1>1. CASE Save
  BY <1>1, SameBanGoesOn DEF Save, BansInv
<1>2. CASE CleanupExpired
  <2>1. bans'[k] = bans[k]
    BY <1>2 DEF CleanupExpired, Banned, InForce
  <2> QED BY <2>1, SameBanGoesOn DEF BansInv
<1>3. CASE Restart
  <2>1. ~writing
    BY <1>3 DEF Restart
  <2>2. file.bans[k] = bans[k]
    BY <2>1 DEF BansInv, BansOnFile, Banned
  <2>3. bans'[k] = bans[k]
    BY <1>3, <2>2 DEF Restart, Banned
  <2> QED BY <2>3, SameBanGoesOn DEF BansInv
<1> QED BY <1>1, <1>2, <1>3 DEF ServiceStep

LEMMA LearningKeepsBans ==
  ASSUME BansInv, NEW i \in Ips, NEW u \in Uids \cup {NoUid}, RecordReject(i, u),
         UNCHANGED now, NEW k \in BanKeys, Banned(k)
  PROVE  GoesOn(k)
<1>1. bans'[k] = bans[k] \/ bans'[k] = Ban("auto")
  BY DEF RecordReject, BansInv, ListsTypeOK
<1> QED BY <1>1, SameBanGoesOn, NewBanGoesOn DEF Sources, BansInv

LEMMA TimeKeepsBans ==
  ASSUME BansInv, Tick, NEW k \in BanKeys, Banned(k)
  PROVE  Stands(k)
BY DEF Tick, Advance, blackVars, Stands, GoesOn, Banned, InForce, Expired, BansInv,
       ListsTypeOK, Entries

LEMMA StepKeepsBans ==
  ASSUME ~StopsMidWrite, BansInv, [ListNext]_listVars, NEW k \in BanKeys, Banned(k)
  PROVE  Stands(k)
<1>1. CASE Tick
  BY <1>1, TimeKeepsBans
<1>2. CASE UNCHANGED now /\ AdminStep
  BY <1>2, AdminKeepsBans
<1>3. CASE UNCHANGED now /\ ServiceStep
  BY <1>3, ServiceKeepsBans DEF Stands
<1>4. ASSUME NEW i \in Ips, NEW u \in Uids \cup {NoUid}, UNCHANGED now, Rejected(i, u)
      PROVE  Stands(k)
  BY <1>4, LearningKeepsBans DEF Rejected, Stands
<1>5. CASE UNCHANGED listVars
  BY <1>5, SameBanGoesOn DEF listVars, blackVars, BansInv, Stands
<1> QED BY <1>1, <1>2, <1>3, <1>4, <1>5 DEF ListNext

-----------------------------------------------------------------------------
(* The file and the lists in memory agree on every ban in force, whenever  *)
(* no write is under way, and also when the process ends in a write: for   *)
(* all addresses, users, times and durations.                              *)
THEOREM BansAreOnFile == ListSpec => []BansOnFile
<1>1. BansInv => BansOnFile
  BY DEF BansInv
<1> QED BY <1>1, ListsAlways, PTL

(* When the process never ends in the middle of a write, a ban in force    *)
(* ends by its time or by the administrator and in no other way.           *)
THEOREM BansStand == ASSUME ~StopsMidWrite PROVE ListSpec => BanStands
<1>1. BansInv /\ [ListNext]_listVars =>
        [\A k \in BanKeys :
           Banned(k) =>
             \/ InForce(bans[k])' /\ (bans'[k].until = Forever \/ bans[k].until <= bans'[k].until)
             \/ bans[k].until # Forever /\ now' > bans[k].until
             \/ k \in FilterKeys /\ RemoveBan(k)
             \/ ClearAll]_listVars
  BY StepKeepsBans DEF Stands, GoesOn
<1> QED BY <1>1, ListsAlways, PTL DEF ListSpec, BanStands

-----------------------------------------------------------------------------
(* The rest of the types: the white list, the counters and the file. *)

RestTypeOK ==
  /\ white \subseteq Ips
  /\ learn \in [FilterKeys -> [count : Nat, start : Nat]]
  /\ file \in [bans : [BanKeys -> Entries], white : SUBSET Ips]
  /\ rejects \in [FilterKeys -> Seq(Nat)]

TInv == BansInv /\ RestTypeOK

LEMMA TornType == Torn \in [bans : [BanKeys -> Entries], white : SUBSET Ips]
BY DEF Torn, NoBan, Entries

LEMMA AdminTypes ==
  ASSUME TInv, AdminStep
  PROVE  RestTypeOK'
<1>1. CASE \E k \in AdminKeys : AddBan(k) \/ RemoveBan(k)
  BY <1>1, TornType DEF AddBan, RemoveBan, TruncateFile, TInv, RestTypeOK
<1>2. CASE ClearAll
  BY <1>2, TornType DEF ClearAll, TruncateFile, NoCounter, TInv, RestTypeOK
<1>3. ASSUME NEW i \in Ips, AddIPWhitelist(i) PROVE RestTypeOK'
  BY <1>3 DEF AddIPWhitelist, TInv, RestTypeOK
<1>4. ASSUME NEW us \in SUBSET LogUsers, AnalyzeLogAndBlock(us) PROVE RestTypeOK'
  BY <1>4, TornType DEF AnalyzeLogAndBlock, TruncateFile, TInv, RestTypeOK
<1> QED
  BY <1>1, <1>2, <1>3, <1>4 DEF AdminStep

LEMMA LearningTypes ==
  ASSUME TInv, NEW i \in Ips, NEW u \in Uids \cup {NoUid}, RecordReject(i, u)
  PROVE  RestTypeOK'
<1> DEFINE k == LearnKey(i, u)
           c == CounterAfter(learn[k])
<1>1. k \in FilterKeys /\ now \in Nat
  BY DEF LearnKey, FilterKeys, TInv, BansInv, ListsTypeOK
<1>2. c \in [count : Nat, start : Nat]
  <2>1. learn[k] \in [count : Nat, start : Nat]
    BY <1>1 DEF TInv, RestTypeOK
  <2> HIDE DEF k
  <2> QED BY <1>1, <2>1 DEF CounterAfter
<1> HIDE DEF k, c
<1>3. /\ learn' = [learn EXCEPT ![k] = c]
      /\ rejects' = [rejects EXCEPT ![k] = Append(@, now)]
      /\ file' = Torn \/ file' = file
      /\ white' = white
  BY DEF RecordReject, TruncateFile, k, c
<1>4. rejects' \in [FilterKeys -> Seq(Nat)]
  <2>1. rejects[k] \in Seq(Nat)
    BY <1>1 DEF TInv, RestTypeOK
  <2>2. Append(rejects[k], now) \in Seq(Nat)
    BY <1>1, <2>1
  <2> QED BY <1>3, <2>2 DEF TInv, RestTypeOK
<1> QED
  BY <1>1, <1>2, <1>3, <1>4, TornType DEF TInv, RestTypeOK

LEMMA ServiceTypes ==
  ASSUME TInv, ServiceStep
  PROVE  RestTypeOK'
<1>1. CASE Save
  BY <1>1 DEF Save, TInv, BansInv, ListsTypeOK, RestTypeOK
<1>2. CASE CleanupExpired
  BY <1>2 DEF CleanupExpired, NoCounter, TInv, RestTypeOK
<1>3. CASE Restart
  BY <1>3 DEF Restart, NoCounter, TInv, RestTypeOK
<1> QED
  BY <1>1, <1>2, <1>3 DEF ServiceStep

LEMMA TypesStep == TInv /\ [ListNext]_listVars => RestTypeOK'
<1> SUFFICES ASSUME TInv, [ListNext]_listVars PROVE RestTypeOK'
  OBVIOUS
<1>1. CASE Tick
  BY <1>1 DEF Tick, blackVars, TInv, RestTypeOK
<1>2. CASE AdminStep
  BY <1>2, AdminTypes
<1>3. CASE ServiceStep
  BY <1>3, ServiceTypes
<1>4. ASSUME NEW i \in Ips, NEW u \in Uids \cup {NoUid}, Rejected(i, u) PROVE RestTypeOK'
  BY <1>4, LearningTypes DEF Rejected
<1>5. CASE UNCHANGED listVars
  BY <1>5 DEF listVars, blackVars, TInv, RestTypeOK
<1> QED BY <1>1, <1>2, <1>3, <1>4, <1>5 DEF ListNext

LEMMA InitTypes == ListInit => TInv
<1>1. ListInit => RestTypeOK
  BY TornType DEF ListInit, BlacklistInit, RestTypeOK, NoCounter
<1> QED BY <1>1, BansInitHold DEF TInv

LEMMA TypesAlways == ListSpec => []TInv
<1>1. TInv /\ [ListNext]_listVars => TInv'
  BY BansStepHold, TypesStep DEF TInv
<1> QED BY <1>1, InitTypes, PTL DEF ListSpec

(* The lists, the counters and the file keep their shape, whatever         *)
(* administrators, learning, clean-ups and restarts do to them.            *)
THEOREM BlacklistTypes == ListSpec => []BlacklistTypeOK
<1>1. ListInit => RestTypeOK
  BY TornType DEF ListInit, BlacklistInit, RestTypeOK, NoCounter
<1>2. TInv => BlacklistTypeOK
  BY DEF TInv, BansInv, ListsTypeOK, RestTypeOK, BlacklistTypeOK, Entries
<1>3. TInv /\ [ListNext]_listVars => TInv'
  BY BansStepHold, TypesStep DEF TInv
<1>4. ListInit => TInv
  BY <1>1, BansInitHold DEF TInv
<1> QED BY <1>2, <1>3, <1>4, PTL DEF ListSpec

-----------------------------------------------------------------------------
(* What a counter is worth: a counter never counts more rejects than were  *)
(* recorded since it began.                                                *)

Since(p, t) == {j \in 1 .. Len(p) : p[j] >= t}

Worth(c, p, n) == c.count > 0 => c.start <= n /\ c.count <= Cardinality(Since(p, c.start))

CountersHonest == \A k \in FilterKeys : Worth(learn[k], rejects[k], now)

LEMMA SinceSmaller ==
  ASSUME NEW p \in Seq(Nat), NEW t \in Int, NEW s \in Int, s <= t
  PROVE  /\ IsFiniteSet(Since(p, t))
         /\ Cardinality(Since(p, t)) \in Nat /\ Cardinality(Since(p, s)) \in Nat
         /\ Cardinality(Since(p, t)) <= Cardinality(Since(p, s))
<1>1. \A j \in 1 .. Len(p) : p[j] \in Nat
  OBVIOUS
<1>2. Since(p, t) \subseteq Since(p, s)
  <2>1. ASSUME NEW j \in Since(p, t) PROVE j \in Since(p, s)
    <3>1. j \in 1 .. Len(p) /\ p[j] >= t /\ p[j] \in Nat
      BY <1>1, <2>1 DEF Since
    <3> QED BY <3>1 DEF Since
  <2> QED BY <2>1
<1>3. IsFiniteSet(1 .. Len(p))
  BY FS_Interval, 1 \in Int, Len(p) \in Int
<1>4. Since(p, s) \subseteq 1 .. Len(p) /\ Since(p, t) \subseteq 1 .. Len(p)
  BY DEF Since
<1>5. IsFiniteSet(Since(p, s)) /\ IsFiniteSet(Since(p, t))
  BY <1>3, <1>4, FS_Subset
<1>6. Cardinality(Since(p, t)) <= Cardinality(Since(p, s))
  BY <1>2, <1>5, FS_Subset
<1> QED BY <1>5, <1>6, FS_CardinalityType

LEMMA Appended ==
  ASSUME NEW p \in Seq(Nat), NEW n \in Nat
  PROVE  /\ Append(p, n) \in Seq(Nat)
         /\ Len(Append(p, n)) = Len(p) + 1
         /\ Append(p, n)[Len(p) + 1] = n
         /\ \A j \in 1 .. Len(p) : Append(p, n)[j] = p[j]
         /\ \A j \in 1 .. Len(p) : p[j] \in Nat
         /\ Len(p) \in Nat
OBVIOUS

LEMMA AppendSince ==
  ASSUME NEW p \in Seq(Nat), NEW n \in Nat, NEW t \in Int, t <= n
  PROVE  Cardinality(Since(Append(p, n), t)) = Cardinality(Since(p, t)) + 1
<1>1. Since(Append(p, n), t) = Since(p, t) \cup {Len(p) + 1}
  BY Appended DEF Since
<1>2. Len(p) + 1 \notin Since(p, t)
  BY Appended DEF Since
<1>3. IsFiniteSet(Since(p, t))
  BY SinceSmaller, t <= t
<1> QED BY <1>1, <1>2, <1>3, FS_AddElement

LEMMA CounterWorth ==
  ASSUME NEW c \in [count : Nat, start : Nat], NEW p \in Seq(Nat), now \in Nat,
         Worth(c, p, now)
  PROVE  /\ CounterAfter(c) \in [count : Nat, start : Nat]
         /\ CounterAfter(c).start \in Nat /\ CounterAfter(c).count \in Nat
         /\ CounterAfter(c).start >= now - LearnWindow
         /\ CounterAfter(c).start <= now
         /\ CounterAfter(c).count <= Cardinality(Since(Append(p, now), CounterAfter(c).start))
<1>1. CASE c.count = 0 \/ now - c.start > LearnWindow
  <2>1. CounterAfter(c) = [count |-> 1, start |-> now]
    BY <1>1 DEF CounterAfter
  <2>2. now \in Int /\ now <= now /\ Cardinality(Since(p, now)) \in Nat
    BY SinceSmaller
  <2>3. Cardinality(Since(Append(p, now), now)) = Cardinality(Since(p, now)) + 1
    BY <2>2, AppendSince
  <2> QED BY <2>1, <2>2, <2>3, BlacklistAssumption
<1>2. CASE ~(c.count = 0 \/ now - c.start > LearnWindow)
  <2>1. CounterAfter(c) = [count |-> c.count + 1, start |-> c.start]
    BY <1>2 DEF CounterAfter
  <2>2. c.count > 0 /\ c.start \in Int /\ c.start >= now - LearnWindow
    BY <1>2, BlacklistAssumption
  <2>3. c.start <= now /\ c.count <= Cardinality(Since(p, c.start))
    BY <2>2 DEF Worth
  <2>4. Cardinality(Since(Append(p, now), c.start)) = Cardinality(Since(p, c.start)) + 1
    BY <2>2, <2>3, AppendSince
  <2>5. Cardinality(Since(p, c.start)) \in Nat
    BY <2>2, SinceSmaller, c.start <= c.start
  <2> QED BY <2>1, <2>2, <2>3, <2>4, <2>5
<1> QED BY <1>1, <1>2

(* The counter a reject is counted under, before and after. *)
LEMMA CountedReject ==
  ASSUME TInv, CountersHonest, NEW i \in Ips, NEW u \in Uids \cup {NoUid}, RecordReject(i, u)
  PROVE  \E k \in FilterKeys, c \in [count : Nat, start : Nat] :
           /\ k = LearnKey(i, u)
           /\ c = CounterAfter(learn[k])
           /\ learn'[k] = c
           /\ rejects'[k] = Append(rejects[k], now)
           /\ rejects'[k] \in Seq(Nat)
           /\ c.start >= now - LearnWindow /\ c.start <= now
           /\ c.count <= Cardinality(Since(rejects'[k], c.start))
           /\ \A h \in FilterKeys : h # k => learn'[h] = learn[h] /\ rejects'[h] = rejects[h]
<1>1. PICK k \in FilterKeys : k = LearnKey(i, u)
  BY DEF LearnKey, FilterKeys
<1>2. /\ learn[k] \in [count : Nat, start : Nat] /\ rejects[k] \in Seq(Nat) /\ now \in Nat
      /\ learn \in [FilterKeys -> [count : Nat, start : Nat]]
      /\ rejects \in [FilterKeys -> Seq(Nat)]
      /\ Worth(learn[k], rejects[k], now)
  BY DEF TInv, BansInv, ListsTypeOK, RestTypeOK, CountersHonest
<1>3. PICK c \in [count : Nat, start : Nat] : c = CounterAfter(learn[k])
  BY <1>2, CounterWorth
<1>4. /\ learn' = [learn EXCEPT ![k] = c]
      /\ rejects' = [rejects EXCEPT ![k] = Append(@, now)]
  BY <1>1, <1>3 DEF RecordReject
<1>5. /\ c.start >= now - LearnWindow /\ c.start <= now
      /\ c.count <= Cardinality(Since(Append(rejects[k], now), c.start))
  BY <1>2, <1>3, CounterWorth
<1>6. learn'[k] = c /\ rejects'[k] = Append(rejects[k], now)
  BY <1>2, <1>4
<1>7. \A h \in FilterKeys : h # k => learn'[h] = learn[h] /\ rejects'[h] = rejects[h]
  BY <1>2, <1>4
<1>8. rejects'[k] \in Seq(Nat)
  BY <1>2, <1>6, Appended
<1> QED BY <1>1, <1>3, <1>5, <1>6, <1>7, <1>8

LEMMA LearningHonest ==
  ASSUME TInv, CountersHonest, NEW i \in Ips, NEW u \in Uids \cup {NoUid}, RecordReject(i, u),
         UNCHANGED now
  PROVE  CountersHonest'
<1>1. PICK k \in FilterKeys, c \in [count : Nat, start : Nat] :
        /\ learn'[k] = c
        /\ c.start <= now
        /\ c.count <= Cardinality(Since(rejects'[k], c.start))
        /\ \A h \in FilterKeys : h # k => learn'[h] = learn[h] /\ rejects'[h] = rejects[h]
  BY CountedReject
<1>2. ASSUME NEW h \in FilterKeys PROVE Worth(learn'[h], rejects'[h], now)
  <2>1. CASE h = k
    BY <1>1, <2>1 DEF Worth
  <2>2. CASE h # k
    BY <1>1, <2>2 DEF CountersHonest
  <2> QED BY <2>1, <2>2
<1> QED BY <1>2 DEF CountersHonest

(* Everything else leaves a counter alone or forgets it. *)
LEMMA ForgettingHonest ==
  ASSUME TInv, CountersHonest, now' = now \/ now' = now + 1, rejects' = rejects,
         \A k \in FilterKeys : learn'[k] = learn[k] \/ learn'[k] = NoCounter
  PROVE  CountersHonest'
<1>1. ASSUME NEW k \in FilterKeys PROVE Worth(learn'[k], rejects'[k], now')
  <2>1. CASE learn'[k] = NoCounter
    BY <2>1 DEF Worth, NoCounter
  <2>2. CASE learn'[k] = learn[k]
    <3>1. learn[k].start \in Nat /\ now \in Nat
      BY DEF TInv, BansInv, ListsTypeOK, RestTypeOK
    <3> QED BY <2>2, <3>1 DEF Worth, CountersHonest
  <2> QED BY <2>1, <2>2
<1> QED BY <1>1 DEF CountersHonest

LEMMA HonestStep == TInv /\ CountersHonest /\ [ListNext]_listVars => CountersHonest'
<1> SUFFICES ASSUME TInv, CountersHonest, [ListNext]_listVars PROVE CountersHonest'
  OBVIOUS
<1>1. CASE Tick
  BY <1>1, ForgettingHonest DEF Tick, Advance, blackVars
<1>2. CASE UNCHANGED now /\ AdminStep
  BY <1>2, ForgettingHonest DEF AdminStep, AddBan, RemoveBan, ClearAll, AddIPWhitelist,
                                AnalyzeLogAndBlock
<1>3. CASE UNCHANGED now /\ ServiceStep
  BY <1>3, ForgettingHonest DEF ServiceStep, Save, CleanupExpired, Restart
<1>4. ASSUME NEW i \in Ips, NEW u \in Uids \cup {NoUid}, UNCHANGED now, Rejected(i, u)
      PROVE  CountersHonest'
  BY <1>4, LearningHonest DEF Rejected
<1>5. CASE UNCHANGED listVars
  BY <1>5, ForgettingHonest DEF listVars, blackVars
<1> QED BY <1>1, <1>2, <1>3, <1>4, <1>5 DEF ListNext

LEMMA HonestAlways == ListSpec => [](TInv /\ CountersHonest)
<1>1. ListInit => CountersHonest
  BY DEF ListInit, BlacklistInit, CountersHonest, Worth, NoCounter
<1>2. ListInit => TInv
  BY InitTypes
<1> QED BY <1>1, <1>2, HonestStep, BansStepHold, TypesStep, PTL DEF ListSpec, TInv

(* A ban that appears, is automatic and does not come from the file was    *)
(* written by a reject of its own address.                                 *)
LEMMA OnlyRejectsBan ==
  ASSUME TInv, [ListNext]_listVars, NEW i \in Ips,
         bans'[IpKey(i)] # bans[IpKey(i)], bans'[IpKey(i)].by = "auto",
         bans'[IpKey(i)] # file.bans[IpKey(i)]
  PROVE  \E u \in Uids \cup {NoUid} :
           RecordReject(i, u) /\ BansNow(i, u, CounterAfter(learn[LearnKey(i, u)]))
<1>1. PICK x \in BanKeys : x = IpKey(i)
  BY DEF BanKeys, FilterKeys
<1>2. bans \in [BanKeys -> Entries]
  BY DEF TInv, BansInv, ListsTypeOK
<1>3. bans'[x] # bans[x] /\ bans'[x].by = "auto" /\ bans'[x] # file.bans[x]
  BY <1>1
<1>4. CASE Tick \/ UNCHANGED listVars
  BY <1>3, <1>4 DEF Tick, listVars, blackVars
<1>5. CASE AdminStep
  <2>1. CASE \E k \in AdminKeys : AddBan(k) \/ RemoveBan(k)
    BY <1>2, <1>3, <2>1 DEF AddBan, RemoveBan, Ban, NoBan
  <2>2. CASE ClearAll
    BY <1>3, <2>2 DEF ClearAll, NoBan
  <2>3. CASE \E j \in Ips : AddIPWhitelist(j)
    BY <1>3, <2>3 DEF AddIPWhitelist
  <2>4. CASE \E us \in SUBSET LogUsers : AnalyzeLogAndBlock(us)
    BY <1>3, <2>4 DEF AnalyzeLogAndBlock, Ban
  <2> QED BY <1>5, <2>1, <2>2, <2>3, <2>4 DEF AdminStep
<1>6. CASE ServiceStep
  <2>1. CASE Save
    BY <1>3, <2>1 DEF Save
  <2>2. CASE CleanupExpired
    BY <1>3, <2>2 DEF CleanupExpired, NoBan
  <2>3. CASE Restart
    BY <1>3, <2>3 DEF Restart, NoBan
  <2> QED BY <1>6, <2>1, <2>2, <2>3 DEF ServiceStep
<1>7. ASSUME NEW j \in Ips, NEW u \in Uids \cup {NoUid}, RecordReject(j, u)
      PROVE  j = i /\ BansNow(j, u, CounterAfter(learn[LearnKey(j, u)]))
  <2>1. BansNow(j, u, CounterAfter(learn[LearnKey(j, u)]))
    BY <1>3, <1>7 DEF RecordReject
  <2>2. bans' = [bans EXCEPT ![IpKey(j)] = Ban("auto")]
    BY <1>7, <2>1 DEF RecordReject
  <2>3. IpKey(j) = x
    BY <1>2, <1>3, <2>2
  <2> QED BY <1>1, <2>1, <2>3 DEF IpKey
<1> QED BY <1>4, <1>5, <1>6, <1>7 DEF ListNext, Rejected

(* An address the gateway bans of its own accord has one counter that      *)
(* reached the threshold with rejects of the last window, however rejects, *)
(* clean-ups, restarts and the administrator interleave, and for every     *)
(* threshold and window.                                                   *)
THEOREM BansAreEarned == ListSpec => AutoBansAreEarned
<1>1. TInv /\ CountersHonest /\ [ListNext]_listVars =>
        [\A i \in Ips :
           LET k == IpKey(i) IN
           bans'[k] # bans[k] /\ bans'[k].by = "auto" /\ bans'[k] # file.bans[k] =>
             Earned(i, rejects') /\ ~Banned(k)]_listVars
  <2> SUFFICES ASSUME TInv, CountersHonest, [ListNext]_listVars, NEW i \in Ips,
                      bans'[IpKey(i)] # bans[IpKey(i)], bans'[IpKey(i)].by = "auto",
                      bans'[IpKey(i)] # file.bans[IpKey(i)]
               PROVE  Earned(i, rejects') /\ ~Banned(IpKey(i))
    OBVIOUS
  <2>1. PICK u \in Uids \cup {NoUid} :
          RecordReject(i, u) /\ BansNow(i, u, CounterAfter(learn[LearnKey(i, u)]))
    BY OnlyRejectsBan
  <2>2. PICK k \in FilterKeys, c \in [count : Nat, start : Nat] :
          /\ k = LearnKey(i, u)
          /\ c = CounterAfter(learn[k])
          /\ rejects'[k] \in Seq(Nat)
          /\ c.start >= now - LearnWindow
          /\ c.count <= Cardinality(Since(rejects'[k], c.start))
    BY <2>1, CountedReject
  <2>3. c.count >= Threshold /\ bans[IpKey(i)] = NoBan
    BY <2>1, <2>2 DEF BansNow
  <2>4. now - LearnWindow \in Int /\ c.start \in Int
    BY BlacklistAssumption DEF TInv, BansInv, ListsTypeOK
  <2>5. /\ Cardinality(Since(rejects'[k], c.start)) <=
             Cardinality(Since(rejects'[k], now - LearnWindow))
        /\ Cardinality(Since(rejects'[k], c.start)) \in Nat
        /\ Cardinality(Since(rejects'[k], now - LearnWindow)) \in Nat
    BY <2>2, <2>4, SinceSmaller
  <2>6. Since(rejects'[k], now - LearnWindow) =
          {j \in DOMAIN rejects'[k] : rejects'[k][j] >= now - LearnWindow}
    BY <2>2 DEF Since
  <2>7. Cardinality({j \in DOMAIN rejects'[k] : rejects'[k][j] >= now - LearnWindow}) >= Threshold
    <3>1. Threshold \in Nat /\ c.count \in Nat /\ c.count >= Threshold
      BY <2>3, BlacklistAssumption
    <3>2. c.count <= Cardinality(Since(rejects'[k], c.start))
      BY <2>2
    <3>3. Cardinality(Since(rejects'[k], now - LearnWindow)) >= Threshold
      BY <3>1, <3>2, <2>5
    <3> QED BY <3>3, <2>6
  <2>8. k \in {IpKey(i)} \cup {PairKey(i, v) : v \in Uids}
    BY <2>2 DEF LearnKey
  <2> QED BY <2>3, <2>7, <2>8 DEF Earned, Banned, InForce
<1> QED BY <1>1, HonestAlways, PTL DEF ListSpec, AutoBansAreEarned

-----------------------------------------------------------------------------
(* Connections on their way through the lookups.                           *)

ConnRecords ==
  {NoConn} \cup [at : Stages, ip : Ips, uid : Uids \cup {NoUid},
                 by : {"none", "white", "ban", "limit", "all"}]

AskedAlready(c) ==
  /\ stood[c] \subseteq MyKeys(c)
  /\ conn[c].at = "uid" => conn[c].uid # NoUid /\ IpKey(conn[c].ip) \notin stood[c]
  /\ conn[c].at = "pair" => /\ conn[c].uid # NoUid
                            /\ IpKey(conn[c].ip) \notin stood[c]
                            /\ UidKey(conn[c].uid) \notin stood[c]
  /\ conn[c].at = "limit" \/ conn[c].by = "all" => stood[c] = {}
  /\ conn[c].at = "limit" => conn[c].by = "none"
  /\ conn[c].at = "admitted" => conn[c].by \in {"white", "all"}
  /\ conn[c].by = "ban" => seen[c] # {}

IInv ==
  /\ conn \in [Conns -> ConnRecords]
  /\ \A c \in Conns : AskedAlready(c)

-----------------------------------------------------------------------------
LEMMA FreeOrAtWork ==
  ASSUME NEW r \in ConnRecords
  PROVE  r.at = "free" <=> r = NoConn
BY DEF ConnRecords, NoConn, Stages, Lookups

(* A connection that does not move only loses standing bans. *)
LEMMA OthersKeep ==
  ASSUME IInv, Watch, NEW d \in Conns, conn'[d] = conn[d]
  PROVE  AskedAlready(d)'
<1>1. AskedAlready(d)
  BY DEF IInv
<1>2. CASE conn[d] = NoConn
  <2>1. stood'[d] = {}
    BY <1>2 DEF Watch
  <2> QED BY <1>2, <2>1 DEF AskedAlready, NoConn
<1>3. CASE conn[d] # NoConn
  <2>1. stood'[d] \subseteq stood[d] /\ seen[d] \subseteq seen'[d]
    BY <1>3 DEF Watch
  <2> QED BY <1>1, <2>1 DEF AskedAlready, MyKeys
<1> QED BY <1>2, <1>3

LEMMA EndedKeeps ==
  ASSUME Watch, NEW d \in Conns, conn'[d] = NoConn
  PROVE  AskedAlready(d)'
<1>1. stood'[d] = {}
  BY DEF Watch
<1> QED BY <1>1 DEF AskedAlready, NoConn

(* A connection that goes on: its standing bans shrink to those in force. *)
LEMMA StoodShrinks ==
  ASSUME Watch, NEW c \in Conns, conn[c] # NoConn, conn'[c] # NoConn
  PROVE  stood'[c] = stood[c] \cap BannedKeys(c)' /\ seen'[c] = seen[c] \cup BannedKeys(c)'
BY DEF Watch

(* Moving a connection keeps its address and its UserIdx. *)
LEMMA Moved ==
  ASSUME IInv, NEW c \in Conns, conn[c].at # "free",
         NEW stage \in Stages, NEW why \in {"none", "white", "ban", "limit", "all"},
         Goto(c, stage, why)
  PROVE  /\ conn' \in [Conns -> ConnRecords]
         /\ conn[c] # NoConn /\ conn'[c] # NoConn
         /\ conn'[c].at = stage /\ conn'[c].by = why
         /\ conn'[c].ip = conn[c].ip /\ conn'[c].uid = conn[c].uid
         /\ MyKeys(c)' = MyKeys(c)
         /\ \A d \in Conns \ {c} : conn'[d] = conn[d]
<1>1. conn[c] \in ConnRecords /\ conn[c] # NoConn
  BY DEF IInv, NoConn
<1>2. conn[c] \in [at : Stages, ip : Ips, uid : Uids \cup {NoUid},
                   by : {"none", "white", "ban", "limit", "all"}]
  BY <1>1 DEF ConnRecords
<1>3. conn' = [conn EXCEPT ![c] = [conn[c] EXCEPT !.at = stage, !.by = why]]
  BY <1>2 DEF Goto, IInv
<1>4. conn'[c] = [conn[c] EXCEPT !.at = stage, !.by = why]
  BY <1>3 DEF IInv
<1>5. conn'[c] \in [at : Stages, ip : Ips, uid : Uids \cup {NoUid},
                    by : {"none", "white", "ban", "limit", "all"}]
  BY <1>2, <1>4
<1>6. conn'[c] # NoConn
  BY <1>5 DEF NoConn, Stages, Lookups
<1>7. conn' \in [Conns -> ConnRecords] /\ \A d \in Conns \ {c} : conn'[d] = conn[d]
  BY <1>3, <1>5 DEF IInv, ConnRecords
<1>8. /\ conn'[c].at = stage /\ conn'[c].by = why
      /\ conn'[c].ip = conn[c].ip /\ conn'[c].uid = conn[c].uid
  BY <1>2, <1>4
<1> QED BY <1>1, <1>6, <1>7, <1>8 DEF MyKeys

-----------------------------------------------------------------------------
(* One lemma per step of a connection. *)

LEMMA SniffKeeps ==
  ASSUME IInv, Watch, NEW c \in Conns, NEW i \in Ips, NEW u \in Uids \cup {NoUid}, Sniff(c, i, u)
  PROVE  IInv'
<1>1. /\ conn[c] = NoConn
      /\ conn'[c] = [at |-> "white", ip |-> i, uid |-> u, by |-> "none"]
      /\ conn' \in [Conns -> ConnRecords]
      /\ \A d \in Conns \ {c} : conn'[d] = conn[d]
  BY FreeOrAtWork DEF Sniff, IInv, ConnRecords, Stages, Lookups
<1>2. stood'[c] = BannedKeys(c)'
  BY <1>1 DEF Watch, NoConn
<1>3. AskedAlready(c)'
  BY <1>1, <1>2 DEF AskedAlready, BannedKeys
<1> QED BY <1>1, <1>3, OthersKeep DEF IInv

LEMMA WhitelistKeeps ==
  ASSUME IInv, Watch, NEW c \in Conns, AskWhitelist(c)
  PROVE  IInv'
<1>1. PICK stage \in Stages, why \in {"none", "white"} :
        /\ Goto(c, stage, why)
        /\ (stage = "admitted" /\ why = "white") \/ stage = "ip"
  <2>1. "admitted" \in Stages /\ "ip" \in Stages
    BY DEF Stages, Lookups
  <2>2. CASE conn[c].ip \in white
    BY <2>1, <2>2 DEF AskWhitelist
  <2>3. CASE conn[c].ip \notin white
    BY <2>1, <2>3 DEF AskWhitelist
  <2> QED BY <2>2, <2>3
<1>2. AskedAlready(c)
  BY DEF IInv
<1>3. conn[c].at # "free"
  BY DEF AskWhitelist
<1>4. stood'[c] \subseteq stood[c]
  BY <1>1, <1>3, Moved, StoodShrinks
<1>5. AskedAlready(c)'
  BY <1>1, <1>2, <1>3, <1>4, Moved DEF AskedAlready
<1> QED BY <1>1, <1>3, <1>5, Moved, OthersKeep DEF IInv

LEMMA LookUpKeeps ==
  ASSUME IInv, Watch, NEW c \in Conns, LookUp(c), UNCHANGED now
  PROVE  IInv'
<1>1. AskedAlready(c) /\ conn[c].at \in Lookups /\ conn[c].at # "free"
  BY DEF IInv, AskedAlready, LookUp, Lookups
<1>2. CASE Banned(KeyAsked(c))
  <2>1. Goto(c, "refused", "ban") /\ "refused" \in Stages
    BY <1>2 DEF LookUp, Stages
  <2>2. stood'[c] \subseteq stood[c] /\ seen'[c] = seen[c] \cup BannedKeys(c)'
    BY <1>1, <2>1, Moved, StoodShrinks
  <2>3. seen'[c] # {}
    <3>1. KeyAsked(c) \in MyKeys(c)
      BY <1>1 DEF AskedAlready, Lookups, KeyAsked, MyKeys, KeysOf
    <3>2. bans' = bans /\ now' = now /\ MyKeys(c)' = MyKeys(c)
      BY <1>1, <2>1, Moved DEF LookUp, blackVars
    <3>3. PICK k \in MyKeys(c) : Banned(k)
      BY <1>2, <3>1
    <3>4. Banned(k)'
      BY <3>2, <3>3 DEF Banned, InForce, Expired
    <3>5. k \in BannedKeys(c)'
      BY <3>2, <3>3, <3>4 DEF BannedKeys
    <3> QED BY <2>2, <3>5
  <2>4. AskedAlready(c)'
    BY <1>1, <2>1, <2>2, <2>3, Moved DEF AskedAlready
  <2> QED BY <1>1, <2>1, <2>4, Moved, OthersKeep DEF IInv
<1>3. CASE ~Banned(KeyAsked(c))
  <2>1. Goto(c, NextLookup(c), "none") /\ NextLookup(c) \in {"limit", "uid", "pair"}
    BY <1>1, <1>3 DEF LookUp, NextLookup, Lookups
  <2>2. NextLookup(c) \in Stages
    BY <2>1 DEF Stages, Lookups
  <2>3. /\ stood'[c] = stood[c] \cap BannedKeys(c)'
        /\ conn'[c].at = NextLookup(c) /\ conn'[c].by = "none"
        /\ conn'[c].ip = conn[c].ip /\ conn'[c].uid = conn[c].uid
        /\ MyKeys(c)' = MyKeys(c)
    BY <1>1, <2>1, <2>2, Moved, StoodShrinks
  <2>4. KeyAsked(c) \notin stood'[c]
    <3>1. bans' = bans /\ now' = now
      BY DEF LookUp, blackVars
    <3>2. PICK k : k = KeyAsked(c)
      OBVIOUS
    <3>3. ~Banned(k)'
      BY <1>3, <3>1, <3>2 DEF Banned, InForce, Expired
    <3>4. k \notin BannedKeys(c)'
      BY <3>3 DEF BannedKeys
    <3> QED BY <2>3, <3>2, <3>4
  <2>5. AskedAlready(c)'
    <3>1. CASE conn[c].at = "ip"
      BY <1>1, <2>3, <2>4, <3>1 DEF AskedAlready, NextLookup, KeyAsked, MyKeys, KeysOf
    <3>2. CASE conn[c].at = "uid"
      BY <1>1, <2>3, <2>4, <3>2 DEF AskedAlready, NextLookup, KeyAsked
    <3>3. CASE conn[c].at = "pair"
      BY <1>1, <2>3, <2>4, <3>3 DEF AskedAlready, NextLookup, KeyAsked, MyKeys, KeysOf
    <3> QED BY <1>1, <3>1, <3>2, <3>3 DEF Lookups
  <2> QED BY <1>1, <2>1, <2>2, <2>5, Moved, OthersKeep DEF IInv
<1> QED BY <1>2, <1>3

LEMMA CheckAllKeeps ==
  ASSUME IInv, Watch, NEW c \in Conns, CheckAll(c)
  PROVE  IInv'
<1>1. PICK stage \in Stages, why \in {"all", "limit"} :
        /\ Goto(c, stage, why)
        /\ (stage = "admitted" /\ why = "all") \/ (stage = "learn" /\ why = "limit")
  <2>1. "admitted" \in Stages /\ "learn" \in Stages
    BY DEF Stages
  <2>2. CASE Goto(c, "admitted", "all")
    BY <2>1, <2>2
  <2>3. CASE Goto(c, "learn", "limit")
    BY <2>1, <2>3
  <2> QED BY <2>2, <2>3 DEF CheckAll
<1>2. AskedAlready(c) /\ conn[c].at = "limit" /\ stood[c] = {}
  BY DEF IInv, CheckAll, AskedAlready
<1>3. stood'[c] = {}
  BY <1>1, <1>2, Moved, StoodShrinks
<1>4. AskedAlready(c)'
  BY <1>1, <1>2, <1>3, Moved DEF AskedAlready
<1> QED BY <1>1, <1>2, <1>4, Moved, OthersKeep DEF IInv

LEMMA LearnKeeps ==
  ASSUME IInv, Watch, NEW c \in Conns, Learn(c)
  PROVE  IInv'
<1>1. Goto(c, "refused", "limit") /\ "refused" \in Stages /\ conn[c].at # "free"
  BY DEF Learn, Stages
<1>2. stood'[c] \subseteq stood[c]
  BY <1>1, Moved, StoodShrinks
<1>3. AskedAlready(c)'
  BY <1>1, <1>2, Moved DEF AskedAlready, IInv
<1> QED BY <1>1, <1>3, Moved, OthersKeep DEF IInv

LEMMA EndKeeps ==
  ASSUME IInv, Watch, NEW c \in Conns, End(c)
  PROVE  IInv'
<1>1. /\ conn' \in [Conns -> ConnRecords] /\ conn'[c] = NoConn
      /\ \A d \in Conns \ {c} : conn'[d] = conn[d]
  BY DEF End, IInv, ConnRecords
<1> QED BY <1>1, EndedKeeps, OthersKeep DEF IInv

-----------------------------------------------------------------------------
LEMMA InitHolds == Init => IInv
BY DEF Init, IInv, ConnRecords, AskedAlready, NoConn

LEMMA ConnStepKeeps ==
  ASSUME IInv, Watch, NEW c \in Conns, ConnStep(c), UNCHANGED now
  PROVE  IInv'
BY SniffKeeps, WhitelistKeeps, LookUpKeeps, CheckAllKeeps, LearnKeeps, EndKeeps DEF ConnStep

LEMMA StepHolds == IInv /\ [Next]_vars => IInv'
<1> SUFFICES ASSUME IInv, [Next]_vars PROVE IInv'
  OBVIOUS
<1>1. ASSUME Watch, NEW c \in Conns, ConnStep(c), UNCHANGED now PROVE IInv'
  BY <1>1, ConnStepKeeps
<1>2. CASE Watch /\ (Others \/ TimePasses)
  <2>1. conn' = conn
    BY <1>2 DEF Others, TimePasses
  <2> QED BY <1>2, <2>1, OthersKeep DEF IInv
<1>3. CASE Watch /\ RestartGateway
  <2>1. conn' \in [Conns -> ConnRecords] /\ \A d \in Conns : conn'[d] = NoConn
    BY <1>3 DEF RestartGateway, ConnRecords
  <2> QED BY <1>3, <2>1, EndedKeeps DEF IInv
<1>4. CASE UNCHANGED vars
  BY <1>4 DEF vars, watchVars, IInv, AskedAlready, MyKeys
<1> QED BY <1>1, <1>2, <1>3, <1>4 DEF Next

(* However the lookups of a connection interleave with bans, unbans,       *)
(* clean-ups and other connections, it is never let in past a ban that     *)
(* stood from its start: for any sets of connections, addresses and users. *)
THEOREM StandingBansHold == Spec => []AdmittedWasAllowed
<1>1. IInv => AdmittedWasAllowed
  BY DEF IInv, AskedAlready, AdmittedWasAllowed
<1>2. Spec => []IInv
  BY InitHolds, StepHolds, PTL DEF Spec
<1> QED BY <1>1, <1>2, PTL

(* Nobody is refused for a ban that is over: when the black list refuses a *)
(* connection, one of its keys was banned after it had been sniffed.       *)
THEOREM RefusalsWereBans == Spec => []RefusedWasBanned
<1>1. IInv => RefusedWasBanned
  BY DEF IInv, AskedAlready, RefusedWasBanned
<1>2. Spec => []IInv
  BY InitHolds, StepHolds, PTL DEF Spec
<1> QED BY <1>1, <1>2, PTL

-----------------------------------------------------------------------------
(***************************************************************************)
(* What the limiter remembers of a key, and what it has let in.            *)
(*                                                                         *)
(* The operators speak of a record r, a history p, a limit M and a time n  *)
(* rather than of the variables, so that an instance of them may be primed.*)
(***************************************************************************)
LimitRecords == [count : Nat, start : Nat, last : Nat]

Between(p, a, b) == {j \in 1 .. Len(p) : p[j] >= a /\ p[j] <= b}

(* Nothing is admitted after the record was last written, nor after the    *)
(* window has closed, and the window knows its own admissions.             *)
Follows(r, p, n) ==
  /\ r.start <= r.last /\ r.last <= n
  /\ \A j \in 1 .. Len(p) : p[j] <= r.last /\ p[j] <= r.start + Window
  /\ r.count = Cardinality(Since(p, r.start))

(* Neither it nor the stretch of one window before it holds more than M.   *)
Bounded(r, p, M) ==
  /\ r.count <= M
  /\ Cardinality(Between(p, r.start - Window, r.start - 1)) <= M

NeverTwice(p, M) == \A t \in Int : Cardinality(Between(p, t, t + Window)) <= 2 * M

Fits(r, p, M, n) ==
  /\ r.count = 0 => \A j \in 1 .. Len(p) : p[j] < n - Window
  /\ r.count > 0 => Follows(r, p, n)
  /\ r.count > 0 /\ M > 0 => Bounded(r, p, M)
  /\ M > 0 => NeverTwice(p, M)

LimiterInv ==
  /\ LimiterTypeOK
  /\ now \in Nat
  /\ \A k \in FilterKeys : Fits(records[k], passed[k], MaxConn[Kind(k)], now)

-----------------------------------------------------------------------------
LEMMA SubsetSmaller ==
  ASSUME NEW p \in Seq(Nat), NEW S \in SUBSET (1 .. Len(p)), NEW T \in SUBSET S
  PROVE  /\ IsFiniteSet(S) /\ Cardinality(S) \in Nat
         /\ IsFiniteSet(T) /\ Cardinality(T) \in Nat
         /\ Cardinality(T) <= Cardinality(S)
<1>1. IsFiniteSet(1 .. Len(p))
  BY FS_Interval, 1 \in Int, Len(p) \in Int
<1>2. IsFiniteSet(S)
  BY <1>1, FS_Subset
<1>3. IsFiniteSet(T) /\ Cardinality(T) <= Cardinality(S)
  BY <1>2, FS_Subset
<1> QED BY <1>2, <1>3, FS_CardinalityType

LEMMA BothSmaller ==
  ASSUME NEW p \in Seq(Nat), NEW S \in SUBSET (1 .. Len(p)), NEW T \in SUBSET (1 .. Len(p)),
         NEW U \in SUBSET (S \cup T)
  PROVE  Cardinality(U) <= Cardinality(S) + Cardinality(T)
<1>1. IsFiniteSet(S) /\ IsFiniteSet(T) /\ Cardinality(S) \in Nat /\ Cardinality(T) \in Nat
  BY SubsetSmaller
<1>2. S \cup T \in SUBSET (1 .. Len(p)) /\ S \cap T \in SUBSET (1 .. Len(p))
  OBVIOUS
<1>3. /\ Cardinality(U) <= Cardinality(S \cup T) /\ Cardinality(U) \in Nat
      /\ Cardinality(S \cup T) \in Nat /\ Cardinality(S \cap T) \in Nat
  BY <1>2, SubsetSmaller
<1>4. Cardinality(S \cup T) = Cardinality(S) + Cardinality(T) - Cardinality(S \cap T)
  BY <1>1, FS_Union
<1> QED BY <1>1, <1>3, <1>4

LEMMA SincesAreSmall ==
  ASSUME NEW p \in Seq(Nat), NEW a \in Int, NEW b \in Int
  PROVE  /\ Since(p, a) \in SUBSET (1 .. Len(p)) /\ Cardinality(Since(p, a)) \in Nat
         /\ Between(p, a, b) \in SUBSET (1 .. Len(p)) /\ Cardinality(Between(p, a, b)) \in Nat
<1>1. Since(p, a) \in SUBSET (1 .. Len(p)) /\ Between(p, a, b) \in SUBSET (1 .. Len(p))
  BY DEF Since, Between
<1> QED BY <1>1, SubsetSmaller

LEMMA AppendBetween ==
  ASSUME NEW p \in Seq(Nat), NEW n \in Nat, NEW a \in Int, NEW b \in Int, n < a \/ n > b
  PROVE  Between(Append(p, n), a, b) = Between(p, a, b)
BY Appended DEF Between

(* The interval that starts a window before the record, or later, is made  *)
(* of the admissions of the window before and of those since.              *)
LEMMA TwoWindows ==
  ASSUME NEW r \in LimitRecords, NEW p \in Seq(Nat), NEW M \in Nat, NEW t \in Int,
         Bounded(r, p, M), r.count = Cardinality(Since(p, r.start)), t >= r.start - Window
  PROVE  Cardinality(Between(p, t, t + Window)) <= 2 * M
<1>1. /\ Window \in Int /\ r.start \in Int /\ r.start - Window \in Int /\ r.start - 1 \in Int
      /\ t + Window \in Int /\ r.count \in Nat
  BY LimiterAssumption DEF LimitRecords
<1>2. Between(p, t, t + Window) \subseteq
        Between(p, r.start - Window, r.start - 1) \cup Since(p, r.start)
  <2>1. ASSUME NEW j \in Between(p, t, t + Window)
        PROVE  j \in Between(p, r.start - Window, r.start - 1) \/ j \in Since(p, r.start)
    <3>1. j \in 1 .. Len(p) /\ p[j] >= t /\ p[j] \in Nat
      BY <2>1, Appended DEF Between
    <3>2. CASE p[j] >= r.start
      BY <3>1, <3>2 DEF Since
    <3>3. CASE ~(p[j] >= r.start)
      <4>1. p[j] >= r.start - Window /\ p[j] <= r.start - 1
        BY <1>1, <3>1, <3>3
      <4> QED BY <3>1, <4>1 DEF Between
    <3> QED BY <3>2, <3>3
  <2> QED BY <2>1
<1>3. /\ Between(p, r.start - Window, r.start - 1) \in SUBSET (1 .. Len(p))
      /\ Since(p, r.start) \in SUBSET (1 .. Len(p))
      /\ Cardinality(Between(p, r.start - Window, r.start - 1)) \in Nat
      /\ Cardinality(Since(p, r.start)) \in Nat
      /\ Cardinality(Between(p, t, t + Window)) \in Nat
  BY <1>1, SincesAreSmall
<1>4. Cardinality(Between(p, t, t + Window)) <=
        Cardinality(Between(p, r.start - Window, r.start - 1)) + Cardinality(Since(p, r.start))
  BY <1>2, <1>3, BothSmaller
<1> QED BY <1>1, <1>3, <1>4 DEF Bounded

-----------------------------------------------------------------------------
LEMMA EmptyFits ==
  ASSUME NEW M \in Nat, NEW n \in Nat
  PROVE  Fits(NoRecord, <<>>, M, n)
<1>1. NeverTwice(<<>>, M)
  <2>1. ASSUME NEW t \in Int PROVE Between(<<>>, t, t + Window) = {}
    BY DEF Between
  <2> QED BY <2>1, FS_EmptySet DEF NeverTwice
<1> QED BY <1>1 DEF Fits, NoRecord

LEMMA TickFits ==
  ASSUME NEW r \in LimitRecords, NEW p \in Seq(Nat), NEW M \in Nat, NEW n \in Nat,
         Fits(r, p, M, n)
  PROVE  Fits(r, p, M, n + 1)
<1>1. r.count = 0 => \A j \in 1 .. Len(p) : p[j] < (n + 1) - Window
  BY Appended, LimiterAssumption DEF Fits
<1>2. r.count > 0 => Follows(r, p, n + 1)
  BY DEF Fits, Follows, LimitRecords
<1> QED BY <1>1, <1>2 DEF Fits

LEMMA CleanFits ==
  ASSUME NEW r \in LimitRecords, NEW p \in Seq(Nat), NEW M \in Nat, NEW n \in Nat,
         Fits(r, p, M, n), r.last < n - 3 * Window
  PROVE  Fits(NoRecord, p, M, n)
<1>1. \A j \in 1 .. Len(p) : p[j] < n - Window
  BY Appended, LimiterAssumption DEF Fits, Follows, LimitRecords
<1> QED BY <1>1 DEF Fits, NoRecord

(* Counted, spelt with the same parameters. *)
OpenAt(r, n) == r.count > 0 /\ n - r.start <= Window

CountedAt(r, n) ==
  IF OpenAt(r, n) THEN [r EXCEPT !.count = @ + 1, !.last = n]
                  ELSE [count |-> 1, start |-> n, last |-> n]

LEMMA CountedFollows ==
  ASSUME NEW r \in LimitRecords, NEW p \in Seq(Nat), NEW M \in Nat, NEW n \in Nat,
         Fits(r, p, M, n)
  PROVE  /\ CountedAt(r, n) \in LimitRecords
         /\ CountedAt(r, n).count > 0
         /\ CountedAt(r, n).start <= n
         /\ n <= CountedAt(r, n).start + Window
         /\ Follows(CountedAt(r, n), Append(p, n), n)
<1>1. CASE OpenAt(r, n)
  <2>1. CountedAt(r, n) = [count |-> r.count + 1, start |-> r.start, last |-> n]
    BY <1>1 DEF CountedAt, LimitRecords
  <2>2. Follows(r, p, n) /\ n <= r.start + Window
    BY <1>1, LimiterAssumption DEF OpenAt, Fits, LimitRecords
  <2>3. r.start <= n /\ r.start \in Nat /\ r.count \in Nat
    BY <2>2 DEF Follows, LimitRecords
  <2>4. Cardinality(Since(Append(p, n), r.start)) = r.count + 1
    BY <2>2, <2>3, AppendSince DEF Follows
  <2>5. \A j \in 1 .. Len(Append(p, n)) :
          Append(p, n)[j] <= n /\ Append(p, n)[j] <= r.start + Window
    <3>1. \A j \in 1 .. Len(p) : p[j] <= n /\ p[j] <= r.start + Window
      BY <2>2, Appended DEF Follows, LimitRecords
    <3> QED BY <2>2, <3>1, Appended
  <2> QED BY <2>1, <2>2, <2>3, <2>4, <2>5 DEF Follows, LimitRecords
<1>2. CASE ~OpenAt(r, n)
  <2>1. CountedAt(r, n) = [count |-> 1, start |-> n, last |-> n]
    BY <1>2 DEF CountedAt
  <2>2. \A j \in 1 .. Len(p) : p[j] < n
    BY <1>2, Appended, LimiterAssumption DEF OpenAt, Fits, Follows, LimitRecords
  <2>3. Since(p, n) = {}
    BY <2>2, Appended DEF Since
  <2>4. Cardinality(Since(Append(p, n), n)) = 1
    <3>1. n \in Int /\ n <= n /\ Cardinality(Since(p, n)) = 0
      BY <2>3, FS_EmptySet
    <3>2. Cardinality(Since(Append(p, n), n)) = Cardinality(Since(p, n)) + 1
      BY <3>1, AppendSince
    <3> QED BY <3>1, <3>2
  <2>5. \A j \in 1 .. Len(Append(p, n)) :
          Append(p, n)[j] <= n /\ Append(p, n)[j] <= n + Window
    BY <2>2, Appended, LimiterAssumption
  <2> QED BY <2>1, <2>4, <2>5, LimiterAssumption DEF Follows, LimitRecords
<1> QED BY <1>1, <1>2

LEMMA CountedBounded ==
  ASSUME NEW r \in LimitRecords, NEW p \in Seq(Nat), NEW M \in Nat, NEW n \in Nat,
         Fits(r, p, M, n), M > 0, OpenAt(r, n) => r.count < M
  PROVE  Bounded(CountedAt(r, n), Append(p, n), M)
<1>1. CASE OpenAt(r, n)
  <2>1. CountedAt(r, n) = [count |-> r.count + 1, start |-> r.start, last |-> n]
    BY <1>1 DEF CountedAt, LimitRecords
  <2>2. Bounded(r, p, M) /\ r.start <= n /\ r.start \in Nat /\ r.count \in Nat
    BY <1>1 DEF OpenAt, Fits, Follows, LimitRecords
  <2>3. Between(Append(p, n), r.start - Window, r.start - 1) =
          Between(p, r.start - Window, r.start - 1)
    <3>1. r.start - Window \in Int /\ r.start - 1 \in Int /\ n > r.start - 1
      BY <2>2, LimiterAssumption
    <3> QED BY <3>1, AppendBetween
  <2> QED BY <1>1, <2>1, <2>2, <2>3 DEF Bounded
<1>2. CASE ~OpenAt(r, n)
  <2>1. CountedAt(r, n) = [count |-> 1, start |-> n, last |-> n]
    BY <1>2 DEF CountedAt
  <2>2. n - Window \in Int /\ n - 1 \in Int /\ n > n - 1
    BY LimiterAssumption
  <2>3. Between(Append(p, n), n - Window, n - 1) = Between(p, n - Window, n - 1)
    BY <2>2, AppendBetween
  <2>4. Cardinality(Between(p, n - Window, n - 1)) <= M
    <3>1. CASE r.count = 0
      <4>1. \A j \in 1 .. Len(p) : p[j] < n - Window
        BY <3>1 DEF Fits
      <4>2. Between(p, n - Window, n - 1) = {}
        BY <4>1, <2>2, Appended DEF Between
      <4>3. Cardinality(Between(p, n - Window, n - 1)) = 0
        BY <4>2, FS_EmptySet
      <4> QED BY <4>3
    <3>2. CASE r.count > 0
      <4>1. r.start < n - Window /\ r.start \in Nat
        BY <1>2, <3>2, LimiterAssumption DEF OpenAt, LimitRecords
      <4>2. Between(p, n - Window, n - 1) \subseteq Since(p, r.start)
        BY <4>1, <2>2, Appended DEF Between, Since
      <4>3. Since(p, r.start) \in SUBSET (1 .. Len(p))
        BY <4>1, <2>2, SincesAreSmall, r.start \in Int
      <4>4. Cardinality(Between(p, n - Window, n - 1)) <= Cardinality(Since(p, r.start))
        BY <4>2, <4>3, SubsetSmaller
      <4>5. Cardinality(Since(p, r.start)) = r.count /\ r.count <= M
        BY <3>2 DEF Fits, Follows, Bounded
      <4>6. Cardinality(Between(p, n - Window, n - 1)) \in Nat
        BY <2>2, SincesAreSmall
      <4> QED BY <4>4, <4>5, <4>6 DEF LimitRecords
    <3> QED BY <3>1, <3>2 DEF LimitRecords
  <2> QED BY <2>1, <2>3, <2>4 DEF Bounded
<1> QED BY <1>1, <1>2

LEMMA CountFits ==
  ASSUME NEW r \in LimitRecords, NEW p \in Seq(Nat), NEW M \in Nat, NEW n \in Nat,
         Fits(r, p, M, n), M > 0 /\ OpenAt(r, n) => r.count < M
  PROVE  Fits(CountedAt(r, n), Append(p, n), M, n)
<1>1. PICK q \in LimitRecords : q = CountedAt(r, n)
  BY CountedFollows
<1>2. q.count > 0 /\ q.start <= n /\ n <= q.start + Window /\ Follows(q, Append(p, n), n)
  BY <1>1, CountedFollows
<1>3. M > 0 => Bounded(q, Append(p, n), M)
  BY <1>1, CountedBounded
<1>4. ASSUME M > 0, NEW t \in Int
      PROVE  Cardinality(Between(Append(p, n), t, t + Window)) <= 2 * M
  <2>1. Window \in Nat /\ t + Window \in Int /\ q.start \in Nat
    BY LimiterAssumption DEF LimitRecords
  <2>2. CASE n < t \/ n > t + Window
    BY <1>4, <2>1, <2>2, AppendBetween DEF Fits, NeverTwice
  <2>3. CASE ~(n < t \/ n > t + Window)
    <3>1. t >= q.start - Window
      BY <1>2, <2>1, <2>3
    <3>2. Append(p, n) \in Seq(Nat)
      BY Appended
    <3>3. Bounded(q, Append(p, n), M) /\ q.count = Cardinality(Since(Append(p, n), q.start))
      BY <1>2, <1>3, <1>4 DEF Follows
    <3> QED BY <3>1, <3>2, <3>3, TwoWindows
  <2> QED BY <2>2, <2>3
<1>5. q.count \in Nat
  BY DEF LimitRecords
<1>6. M > 0 => NeverTwice(Append(p, n), M)
  BY <1>4 DEF NeverTwice
<1>7. Fits(q, Append(p, n), M, n)
  BY <1>2, <1>3, <1>5, <1>6 DEF Fits
<1> QED BY <1>1, <1>7

-----------------------------------------------------------------------------
(* The steps of the limiter. *)

LEMMA KeyKinds == ASSUME NEW k \in FilterKeys PROVE Kind(k) \in Kinds
BY DEF FilterKeys, Kind, Kinds, IpKey, UidKey, PairKey

LEMMA KeyLimits == ASSUME NEW k \in FilterKeys PROVE MaxConn[Kind(k)] \in Nat
BY KeyKinds, LimiterAssumption

LEMMA LimiterTypes ==
  ASSUME LimiterInv, NEW k \in FilterKeys
  PROVE  /\ records[k] \in LimitRecords /\ passed[k] \in Seq(Nat) /\ now \in Nat
         /\ Fits(records[k], passed[k], MaxConn[Kind(k)], now)
         /\ Counted(k) = CountedAt(records[k], now)
         /\ InWindow(k) <=> OpenAt(records[k], now)
<1>1. InWindow(k) <=> OpenAt(records[k], now)
  BY DEF InWindow, OpenAt
<1>2. Counted(k) = CountedAt(records[k], now)
  BY <1>1 DEF Counted, CountedAt
<1> QED BY <1>1, <1>2 DEF LimiterInv, LimiterTypeOK, LimitRecords

LEMMA LimiterInitHolds == LimiterInit /\ now = 0 => LimiterInv
<1> SUFFICES ASSUME LimiterInit, now = 0 PROVE LimiterInv
  OBVIOUS
<1>1. NoRecord \in [count : Nat, start : Nat, last : Nat] /\ <<>> \in Seq(Nat)
  BY DEF NoRecord
<1>2. LimiterTypeOK
  BY <1>1 DEF LimiterTypeOK, LimiterInit
<1>3. ASSUME NEW k \in FilterKeys PROVE Fits(records[k], passed[k], MaxConn[Kind(k)], now)
  BY EmptyFits, KeyLimits DEF LimiterInit
<1> QED BY <1>2, <1>3 DEF LimiterInv

(* Not full, a key has room for one more in its window. *)
LEMMA RoomForOne ==
  ASSUME LimiterInv, NEW k \in FilterKeys, ~Full(k)
  PROVE  /\ Counted(k) \in LimitRecords
         /\ Append(passed[k], now) \in Seq(Nat)
         /\ Fits(Counted(k), Append(passed[k], now), MaxConn[Kind(k)], now)
<1>1. /\ records[k] \in LimitRecords /\ passed[k] \in Seq(Nat) /\ now \in Nat
      /\ Fits(records[k], passed[k], MaxConn[Kind(k)], now)
      /\ Counted(k) = CountedAt(records[k], now)
  BY LimiterTypes
<1>2. MaxConn[Kind(k)] \in Nat
  BY KeyLimits
<1>3. MaxConn[Kind(k)] > 0 /\ OpenAt(records[k], now) => records[k].count < MaxConn[Kind(k)]
  BY <1>1, <1>2, LimiterTypes DEF Full, LimitRecords
<1>4. /\ CountedAt(records[k], now) \in LimitRecords
      /\ Fits(CountedAt(records[k], now), Append(passed[k], now), MaxConn[Kind(k)], now)
  BY <1>1, <1>2, <1>3, CountedFollows, CountFits
<1> QED BY <1>1, <1>4, Appended

LEMMA PassFits ==
  ASSUME LimiterInv, NEW i \in Ips, NEW u \in Uids \cup {NoUid}, Pass(i, u), UNCHANGED now
  PROVE  LimiterInv'
<1>1. ASSUME NEW k \in FilterKeys
      PROVE  /\ records'[k] \in LimitRecords /\ passed'[k] \in Seq(Nat)
             /\ Fits(records'[k], passed'[k], MaxConn[Kind(k)], now)
  <2>1. CASE k \in Checked(i, u)
    <3>1. ~Full(k) /\ records'[k] = Counted(k) /\ passed'[k] = Append(passed[k], now)
      BY <2>1 DEF Pass
    <3> QED BY <3>1, RoomForOne
  <2>2. CASE k \notin Checked(i, u)
    <3>1. records'[k] = records[k] /\ passed'[k] = passed[k]
      BY <2>2 DEF Pass
    <3> QED BY <3>1, LimiterTypes
  <2> QED BY <2>1, <2>2
<1>2. \A k \in FilterKeys : records'[k] \in LimitRecords /\ passed'[k] \in Seq(Nat)
  BY <1>1
<1>3. LimiterTypeOK'
  <2>1. /\ records' = [k \in FilterKeys |-> records'[k]]
        /\ passed' = [k \in FilterKeys |-> passed'[k]]
    BY DEF Pass
  <2> QED BY <2>1, <1>2 DEF LimiterTypeOK, LimitRecords
<1> QED BY <1>1, <1>3 DEF LimiterInv

LEMMA SameLimits == LimiterInv /\ UNCHANGED <<limiterVars, now>> => LimiterInv'
BY DEF LimiterInv, limiterVars, LimiterTypeOK

LEMMA TickLimits == LimiterInv /\ Advance /\ UNCHANGED limiterVars => LimiterInv'
<1> SUFFICES ASSUME LimiterInv, Advance, UNCHANGED limiterVars PROVE LimiterInv'
  OBVIOUS
<1>1. ASSUME NEW k \in FilterKeys PROVE Fits(records[k], passed[k], MaxConn[Kind(k)], now + 1)
  BY LimiterTypes, KeyLimits, TickFits
<1>2. now' = now + 1 /\ now \in Nat /\ records' = records /\ passed' = passed
  BY DEF Advance, LimiterInv, limiterVars
<1> QED BY <1>1, <1>2 DEF LimiterInv, LimiterTypeOK

LEMMA ResetFits ==
  ASSUME LimiterInv, NEW h \in FilterKeys, ResetLimit(h), UNCHANGED now
  PROVE  LimiterInv'
<1>1. NoRecord \in [count : Nat, start : Nat, last : Nat] /\ <<>> \in Seq(Nat)
  BY DEF NoRecord
<1>2. LimiterTypeOK'
  BY <1>1 DEF LimiterInv, LimiterTypeOK, ResetLimit
<1>3. ASSUME NEW k \in FilterKeys PROVE Fits(records'[k], passed'[k], MaxConn[Kind(k)], now)
  <2>1. CASE k = h
    BY <2>1, EmptyFits, KeyLimits DEF ResetLimit, LimiterInv, LimiterTypeOK
  <2>2. CASE k # h
    BY <2>2 DEF ResetLimit, LimiterInv, LimiterTypeOK
  <2> QED BY <2>1, <2>2
<1> QED BY <1>2, <1>3 DEF LimiterInv

LEMMA CleanLimitsFits == LimiterInv /\ CleanLimits /\ UNCHANGED now => LimiterInv'
<1> SUFFICES ASSUME LimiterInv, CleanLimits, UNCHANGED now PROVE LimiterInv'
  OBVIOUS
<1>1. NoRecord \in [count : Nat, start : Nat, last : Nat]
  BY DEF NoRecord
<1>2. LimiterTypeOK'
  BY <1>1 DEF LimiterInv, LimiterTypeOK, CleanLimits, limiterVars
<1>3. ASSUME NEW k \in FilterKeys PROVE Fits(records'[k], passed'[k], MaxConn[Kind(k)], now)
  <2>1. passed'[k] = passed[k]
    BY DEF CleanLimits
  <2>2. CASE records[k].last < now - 3 * Window
    <3>1. records'[k] = NoRecord
      BY <2>2 DEF CleanLimits
    <3> QED BY <2>1, <2>2, <3>1, LimiterTypes, KeyLimits, CleanFits
  <2>3. CASE ~(records[k].last < now - 3 * Window)
    <3>1. records'[k] = records[k]
      BY <2>3 DEF CleanLimits
    <3> QED BY <2>1, <3>1, LimiterTypes
  <2> QED BY <2>2, <2>3
<1> QED BY <1>2, <1>3 DEF LimiterInv

LEMMA LimiterStepHolds == LimiterInv /\ [LimiterNext]_<<limiterVars, now>> => LimiterInv'
<1> SUFFICES ASSUME LimiterInv, [LimiterNext]_<<limiterVars, now>> PROVE LimiterInv'
  OBVIOUS
<1>1. CASE UNCHANGED <<limiterVars, now>>
  BY <1>1, SameLimits
<1>2. CASE LimiterTick
  BY <1>2, TickLimits DEF LimiterTick
<1>3. CASE LimiterStep /\ UNCHANGED now
  <2>1. ASSUME NEW i \in Ips, NEW u \in Uids \cup {NoUid}, Pass(i, u) PROVE LimiterInv'
    BY <1>3, <2>1, PassFits
  <2>2. ASSUME NEW i \in Ips, NEW u \in Uids \cup {NoUid}, Limit(i, u) PROVE LimiterInv'
    BY <1>3, <2>2, SameLimits DEF Limit
  <2>3. ASSUME NEW k \in FilterKeys, ResetLimit(k) PROVE LimiterInv'
    BY <1>3, <2>3, ResetFits
  <2>4. CASE CleanLimits
    BY <1>3, <2>4, CleanLimitsFits
  <2> QED BY <1>3, <2>1, <2>2, <2>3, <2>4 DEF LimiterStep
<1> QED BY <1>1, <1>2, <1>3 DEF LimiterNext

-----------------------------------------------------------------------------
(* PassedIn, and the admissions of CountsAdmissions, as Between and Since. *)
LEMMA PassedBetween ==
  ASSUME LimiterInv, NEW k \in FilterKeys, NEW t \in Int
  PROVE  /\ PassedIn(k, t) = Cardinality(Between(passed[k], t, t + Window))
         /\ Since(passed[k], t) = {j \in DOMAIN passed[k] : passed[k][j] >= t}
<1>1. passed[k] \in Seq(Nat) /\ Window \in Int
  BY LimiterTypes, LimiterAssumption
<1>2. DOMAIN passed[k] = 1 .. Len(passed[k]) /\ \A j \in 1 .. Len(passed[k]) : passed[k][j] \in Int
  BY <1>1
<1>3. {j \in DOMAIN passed[k] : passed[k][j] \in t .. (t + Window)} = Between(passed[k], t, t + Window)
  BY <1>1, <1>2 DEF Between
<1> QED BY <1>2, <1>3 DEF PassedIn, Since

LEMMA LimiterInvHolds == LimiterInv => WindowsHold
<1> SUFFICES ASSUME LimiterInv PROVE WindowsHold
  OBVIOUS
<1>1. ASSUME NEW k \in FilterKeys, InWindow(k)
      PROVE  records[k].count =
               Cardinality({j \in DOMAIN passed[k] : passed[k][j] >= records[k].start})
  <2>1. records[k].count > 0 /\ records[k].start \in Int
    BY <1>1, LimiterTypes DEF InWindow, LimitRecords
  <2>2. records[k].count = Cardinality(Since(passed[k], records[k].start))
    BY <2>1, LimiterTypes DEF Fits, Follows
  <2> QED BY <2>1, <2>2, PassedBetween
<1>2. ASSUME NEW k \in FilterKeys, records[k].count = 0
      PROVE  \A j \in DOMAIN passed[k] : passed[k][j] < now - Window
  BY <1>2, LimiterTypes DEF Fits
<1>3. ASSUME NEW k \in FilterKeys, NEW t \in 0 .. MaxNow, MaxConn[Kind(k)] > 0
      PROVE  PassedIn(k, t) <= 2 * MaxConn[Kind(k)]
  <2>1. t \in Int
    OBVIOUS
  <2>2. Cardinality(Between(passed[k], t, t + Window)) <= 2 * MaxConn[Kind(k)]
    BY <1>3, <2>1, LimiterTypes DEF Fits, NeverTwice
  <2> QED BY <2>1, <2>2, PassedBetween
<1>4. CountsAdmissions
  BY <1>1, <1>2 DEF CountsAdmissions
<1>5. AtMostTwice
  BY <1>3 DEF AtMostTwice
<1>6. LimiterTypeOK
  BY DEF LimiterInv
<1> QED BY <1>4, <1>5, <1>6 DEF WindowsHold

(* A full key has let its number in during the window that ends now. *)
LEMMA FullWasUsed ==
  ASSUME LimiterInv, NEW k \in FilterKeys, Full(k)
  PROVE  MaxConn[Kind(k)] > 0 /\ PassedIn(k, now - Window) >= MaxConn[Kind(k)]
<1>1. /\ MaxConn[Kind(k)] > 0 /\ records[k].count > 0
      /\ now - records[k].start <= Window /\ records[k].count >= MaxConn[Kind(k)]
  BY DEF Full, InWindow
<1>2. /\ records[k] \in LimitRecords /\ passed[k] \in Seq(Nat) /\ now \in Nat
      /\ Follows(records[k], passed[k], now)
  BY <1>1, LimiterTypes DEF Fits
<1>3. PICK s \in Nat : s = records[k].start
  BY <1>2 DEF LimitRecords
<1>4. now - Window \in Int /\ Window \in Nat /\ (now - Window) + Window = now
  BY <1>2, LimiterAssumption
<1>5. \A j \in 1 .. Len(passed[k]) : passed[k][j] <= now /\ passed[k][j] \in Nat
  BY <1>2, Appended DEF Follows, LimitRecords
<1>6. Since(passed[k], s) \subseteq Between(passed[k], now - Window, now)
  <2>1. ASSUME NEW j \in Since(passed[k], s)
        PROVE  j \in Between(passed[k], now - Window, now)
    <3>1. j \in 1 .. Len(passed[k]) /\ passed[k][j] >= s
      BY <2>1 DEF Since
    <3>2. passed[k][j] <= now /\ passed[k][j] \in Nat
      BY <3>1, <1>5
    <3>3. passed[k][j] >= now - Window
      BY <1>1, <1>2, <1>3, <1>4, <3>1, <3>2
    <3> QED BY <3>1, <3>2, <3>3 DEF Between
  <2> QED BY <2>1
<1>7. Between(passed[k], now - Window, now) \in SUBSET (1 .. Len(passed[k]))
  BY <1>2, <1>4, SincesAreSmall, now \in Int
<1>8. /\ Cardinality(Since(passed[k], s)) <= Cardinality(Between(passed[k], now - Window, now))
      /\ Cardinality(Since(passed[k], s)) \in Nat
      /\ Cardinality(Between(passed[k], now - Window, now)) \in Nat
  <2>1. passed[k] \in Seq(Nat)
    BY <1>2
  <2>2. Since(passed[k], s) \in SUBSET Between(passed[k], now - Window, now)
    BY <1>6
  <2> QED BY <2>1, <2>2, <1>7, SubsetSmaller
<1>9. PassedIn(k, now - Window) = Cardinality(Between(passed[k], now - Window, now))
  BY <1>4, PassedBetween
<1>10. Cardinality(Since(passed[k], s)) >= MaxConn[Kind(k)]
  BY <1>1, <1>2, <1>3 DEF Follows
<1> QED BY <1>1, <1>8, <1>9, <1>10, KeyLimits

(* For any window and any limits, a limiter that opens a window with the   *)
(* first admission after the last one, counts what it lets in and forgets  *)
(* what is three windows old lets in at most twice the limit of a key in   *)
(* any stretch of one window.                                              *)
THEOREM LimiterHoldsWindows == LimiterSpec => []WindowsHold
<1>1. LimiterSpec => []LimiterInv
  BY LimiterInitHolds, LimiterStepHolds, PTL DEF LimiterSpec, LimiterStart
<1> QED BY <1>1, LimiterInvHolds, PTL

-----------------------------------------------------------------------------
(* The limiter in the filter: only CheckAll, the resets, the clean-up, the *)
(* restart and the clock touch it.                                         *)
LEMMA ConnStepLimits ==
  ASSUME IInv, LimiterInv, NEW c \in Conns, ConnStep(c), UNCHANGED now
  PROVE  LimiterInv'
<1>1. CASE UNCHANGED limiterVars
  BY <1>1, SameLimits
<1>2. CASE CheckAll(c)
  <2>1. conn[c] \in ConnRecords /\ conn[c].at = "limit"
    BY <1>2 DEF CheckAll, IInv
  <2>2. conn[c].ip \in Ips /\ conn[c].uid \in Uids \cup {NoUid}
    BY <2>1 DEF ConnRecords, NoConn
  <2>3. CASE Pass(conn[c].ip, conn[c].uid)
    BY <2>2, <2>3, PassFits
  <2>4. CASE Limit(conn[c].ip, conn[c].uid)
    BY <2>4, SameLimits DEF Limit
  <2> QED BY <1>2, <2>3, <2>4 DEF CheckAll
<1> QED BY <1>1, <1>2 DEF ConnStep, Sniff, AskWhitelist, LookUp, Learn, End

LEMMA FilterLimits == IInv /\ LimiterInv /\ [Next]_vars => LimiterInv'
<1> SUFFICES ASSUME IInv, LimiterInv, [Next]_vars PROVE LimiterInv'
  OBVIOUS
<1>1. ASSUME NEW c \in Conns, ConnStep(c), UNCHANGED now PROVE LimiterInv'
  BY <1>1, ConnStepLimits
<1>2. CASE Others /\ UNCHANGED now
  <2>1. CASE UNCHANGED limiterVars
    BY <1>2, <2>1, SameLimits
  <2>2. ASSUME NEW k \in FilterKeys, ResetLimit(k) PROVE LimiterInv'
    BY <1>2, <2>2, ResetFits
  <2>3. CASE CleanLimits
    BY <1>2, <2>3, CleanLimitsFits
  <2> QED BY <1>2, <2>1, <2>2, <2>3 DEF Others
<1>3. CASE RestartGateway /\ UNCHANGED now
  <2>1. LimiterInit'
    BY <1>3 DEF RestartGateway, LimiterInit
  <2>2. NoRecord \in [count : Nat, start : Nat, last : Nat] /\ <<>> \in Seq(Nat)
    BY DEF NoRecord
  <2>3. LimiterTypeOK'
    BY <2>1, <2>2 DEF LimiterTypeOK, LimiterInit
  <2>4. ASSUME NEW k \in FilterKeys PROVE Fits(records'[k], passed'[k], MaxConn[Kind(k)], now)
    BY <2>1, EmptyFits, KeyLimits DEF LimiterInit, LimiterInv
  <2> QED BY <1>3, <2>3, <2>4 DEF LimiterInv
<1>4. CASE TimePasses
  BY <1>4, TickLimits DEF TimePasses
<1>5. CASE UNCHANGED vars
  BY <1>5, SameLimits DEF vars
<1> QED BY <1>1, <1>2, <1>3, <1>4, <1>5 DEF Next

LEMMA FilterAlwaysCounts == Spec => [](IInv /\ LimiterInv)
<1>1. Init => LimiterInv
  BY LimiterInitHolds DEF Init
<1> QED BY <1>1, InitHolds, StepHolds, FilterLimits, PTL DEF Spec

(* What the limiter bounds it bounds in the filter too, whatever the       *)
(* lookups before it decide, and across restarts.                          *)
THEOREM FilterHoldsWindows == Spec => []WindowsHold
BY FilterAlwaysCounts, LimiterInvHolds, PTL

(* Of the steps of a connection, only the limiter's refusal writes "limit" *)
(* over another verdict while the limiter is asked.                        *)
LEMMA OnlyLimitRefuses ==
  ASSUME IInv, [Next]_vars, NEW c \in Conns, conn[c].at = "limit", conn'[c].by = "limit"
  PROVE  Limit(conn[c].ip, conn[c].uid)
<1>1. conn[c] \in ConnRecords /\ conn[c].by = "none" /\ conn'[c] # conn[c]
  BY DEF IInv, AskedAlready
<1>2. conn'[c] # NoConn
  BY DEF NoConn
<1>3. PICK d \in Conns : ConnStep(d)
  <2>1. ~Others /\ ~TimePasses /\ ~RestartGateway /\ ~UNCHANGED vars
    BY <1>1, <1>2 DEF Others, TimePasses, RestartGateway, vars
  <2> QED BY <2>1 DEF Next
<1>4. CASE d # c
  <2>1. conn'[c] = conn[c]
    BY <1>3, <1>4 DEF IInv, ConnStep, Sniff, AskWhitelist, LookUp, CheckAll, Learn, End, Goto
  <2> QED BY <1>1, <2>1
<1>5. CASE d = c
  <2>1. CheckAll(c)
    BY <1>3, <1>5 DEF ConnStep, Sniff, AskWhitelist, LookUp, Learn, End, Lookups
  <2>2. ~Goto(c, "admitted", "all")
    BY <1>1 DEF Goto, IInv, ConnRecords, NoConn
  <2> QED BY <2>1, <2>2 DEF CheckAll
<1> QED BY <1>4, <1>5

(* The limiter refuses a connection only when one of its keys has let its  *)
(* full number in within the last window.                                  *)
THEOREM RefusedOnlyWhenFull == Spec => LimitedWasFull
<1>1. IInv /\ LimiterInv /\ [Next]_vars =>
        [\A c \in Conns :
           conn[c].at = "limit" /\ conn'[c].by = "limit" =>
             \E k \in Checked(conn[c].ip, conn[c].uid) :
               /\ MaxConn[Kind(k)] > 0
               /\ PassedIn(k, now - Window) >= MaxConn[Kind(k)]]_vars
  <2> SUFFICES ASSUME IInv, LimiterInv, [Next]_vars, NEW c \in Conns,
                      conn[c].at = "limit", conn'[c].by = "limit"
               PROVE  \E k \in Checked(conn[c].ip, conn[c].uid) :
                        /\ MaxConn[Kind(k)] > 0
                        /\ PassedIn(k, now - Window) >= MaxConn[Kind(k)]
    OBVIOUS
  <2>1. Limit(conn[c].ip, conn[c].uid)
    BY OnlyLimitRefuses
  <2>2. PICK k \in Checked(conn[c].ip, conn[c].uid) : Full(k)
    BY <2>1 DEF Limit
  <2>3. conn[c] \in ConnRecords /\ conn[c] # NoConn
    BY DEF IInv, NoConn
  <2>4. conn[c].ip \in Ips /\ conn[c].uid \in Uids \cup {NoUid}
    BY <2>3 DEF ConnRecords
  <2>5. k \in FilterKeys
    BY <2>2, <2>4 DEF Checked, KeysOf, FilterKeys
  <2> QED BY <2>2, <2>5, FullWasUsed
<1> QED BY <1>1, FilterAlwaysCounts, PTL DEF Spec, LimitedWasFull
=============================================================================
