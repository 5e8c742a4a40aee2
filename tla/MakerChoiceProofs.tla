--------------------------- MODULE MakerChoiceProofs ---------------------------
(***************************************************************************)
(* For any order book, wallet and penalties: the table of penalties keeps  *)
(* the policy, no commitment is used twice, no taker meets a maker it      *)
(* excludes, and the amounts of sweeps and payments fit the makers and the *)
(* coins that are chosen for them.                                         *)
(***************************************************************************)
EXTENDS MakerChoice, FiniteSetTheorems, WellFoundedInduction, NaturalsInduction, TLAPS

(***************************************************************************)
(* The table keeps the policy                                              *)
(***************************************************************************)

PenaltyInv == PenaltyTypeOK /\ now \in 1..MaxTime

(* What a row means to the policy: the two deadlines of its maker.         *)
CoolingEnd(row) == IF CoolingIn(row) THEN row.cooldown_until ELSE 0
BarredEnd(row) ==
  IF ~BannedIn(row) THEN 0
  ELSE IF row.banned_until = 0 THEN MaxTime + Cooldown + AutoBan + 2
  ELSE row.banned_until

(* Pruning a row clears what has lapsed, which means nothing any more.     *)
LEMMA PrunedMeans ==
  ASSUME PenaltyInv, NEW row \in Rows
  PROVE  /\ pruned(row) \in Rows
         /\ CoolingEnd(pruned(row)) = CoolingEnd(row)
         /\ BarredEnd(pruned(row)) = BarredEnd(row)
<1> USE DEF PenaltyInv, PenaltyTypeOK, Rows, pruned
<1>1. pruned(row) \in Rows
  OBVIOUS
<1>2. CoolingEnd(pruned(row)) = CoolingEnd(row)
  BY DEF CoolingEnd, CoolingIn
<1>3. BarredEnd(pruned(row)) = BarredEnd(row)
  <2>1. CASE row.banned /\ row.banned_until > 0 /\ row.banned_until <= now
    <3>1. ~pruned(row).banned
      BY <2>1
    <3>2. ~BannedIn(pruned(row)) /\ ~BannedIn(row)
      BY <2>1, <3>1 DEF BannedIn
    <3> QED
      BY <3>2 DEF BarredEnd
  <2>2. CASE ~(row.banned /\ row.banned_until > 0 /\ row.banned_until <= now)
    <3>1. /\ pruned(row).banned = row.banned
          /\ pruned(row).banned_until = row.banned_until
      BY <2>2
    <3> QED
      BY <3>1 DEF BarredEnd, BannedIn
  <2> QED
    BY <2>1, <2>2
<1> QED
  BY <1>1, <1>2, <1>3

(* A recorded failure: a cooldown from now on, and a ban if it is one too  *)
(* many; the upsert keeps any other ban.                                   *)
LEMMA RecordedMeans ==
  ASSUME PenaltyInv, NEW row \in Rows, Cooldown > 0
  PROVE  /\ record_single_stage2_cooldown(row) \in Rows
         /\ CoolingEnd(record_single_stage2_cooldown(row)) = now + Cooldown
         /\ BarredEnd(record_single_stage2_cooldown(row)) =
              IF ~Repeated(row) THEN BarredEnd(row)
              ELSE IF AutoBan = 0 THEN MaxTime + Cooldown + AutoBan + 2
              ELSE now + AutoBan
<1> USE PenaltyAssumption
    DEF PenaltyInv, PenaltyTypeOK, Rows, record_single_stage2_cooldown
<1>1. Repeated(row) \in BOOLEAN /\ Count(row) \in Nat
  BY DEF Repeated, Count
<1>2. record_single_stage2_cooldown(row) \in Rows
  BY <1>1
<1>3. CoolingEnd(record_single_stage2_cooldown(row)) = now + Cooldown
  BY DEF CoolingEnd, CoolingIn
<1>4. BarredEnd(record_single_stage2_cooldown(row)) =
        IF ~Repeated(row) THEN BarredEnd(row)
        ELSE IF AutoBan = 0 THEN MaxTime + Cooldown + AutoBan + 2
        ELSE now + AutoBan
  BY <1>1 DEF BarredEnd, BannedIn
<1> QED
  BY <1>2, <1>3, <1>4

(* The deadlines the policy sees in the table.                             *)
CoolingEnds == [m \in Makers |-> CoolingEnd(maker_penalties[m])]
BarredEnds == [m \in Makers |-> BarredEnd(maker_penalties[m])]

(* The policy's variables are those deadlines.                             *)
LEMMA PolicyVars ==
  Policy!pvars = <<now, CoolingEnds, BarredEnds>>
BY DEF Policy!pvars, CoolingEnds, BarredEnds, CoolingEnd, BarredEnd

(* A table that means the same is no step of the policy.                   *)
LEMMA MeansTheSame ==
  ASSUME now' = now,
         \A m \in Makers : /\ CoolingEnd(maker_penalties[m])' = CoolingEnd(maker_penalties[m])
                          /\ BarredEnd(maker_penalties[m])' = BarredEnd(maker_penalties[m])
  PROVE  Policy!pvars' = Policy!pvars
<1>1. CoolingEnds' = CoolingEnds /\ BarredEnds' = BarredEnds
  BY DEF CoolingEnds, BarredEnds
<1>2. Policy!pvars = <<now, CoolingEnds, BarredEnds>>
  BY PolicyVars
<1>3. Policy!pvars' = <<now', CoolingEnds', BarredEnds'>>
  BY DEF Policy!pvars, CoolingEnds, BarredEnds, CoolingEnd, BarredEnd
<1> QED
  BY <1>1, <1>2, <1>3

(* The daemon's prune, before it reads.                                    *)
LEMMA PruneIsStutter ==
  ASSUME PenaltyInv, now' = now, prune_stage2_maker_cooldowns
  PROVE  PenaltyInv' /\ Policy!pvars' = Policy!pvars
<1>1. maker_penalty_store' \in {"unopened", "open", "failed"}
  BY DEF prune_stage2_maker_cooldowns
<1>2. CASE maker_penalties' = prune(maker_penalties) /\ UNCHANGED stage2_maker_cooldowns
  <2>1. \A m \in Makers : maker_penalties'[m] = pruned(maker_penalties[m])
    BY <1>2 DEF prune
  <2>2. \A m \in Makers : maker_penalties[m] \in Rows
    BY DEF PenaltyInv, PenaltyTypeOK
  <2>3. PenaltyInv'
    BY <1>1, <1>2, <2>1, <2>2, PrunedMeans DEF PenaltyInv, PenaltyTypeOK, prune
  <2>4. \A m \in Makers : /\ CoolingEnd(maker_penalties[m])' = CoolingEnd(maker_penalties'[m])
                          /\ BarredEnd(maker_penalties[m])' = BarredEnd(maker_penalties'[m])
    BY DEF CoolingEnd, BarredEnd, CoolingIn, BannedIn
  <2> QED
    BY <2>1, <2>2, <2>3, <2>4, PrunedMeans, MeansTheSame
<1>3. CASE /\ UNCHANGED maker_penalties
           /\ stage2_maker_cooldowns' =
                [m \in Makers |-> IF stage2_maker_cooldowns[m] > now
                                  THEN stage2_maker_cooldowns[m] ELSE 0]
  <2>1. PenaltyInv'
    BY <1>1, <1>3 DEF PenaltyInv, PenaltyTypeOK
  <2> QED
    BY <1>3, <2>1, MeansTheSame DEF CoolingEnd, BarredEnd, CoolingIn, BannedIn
<1> QED
  BY <1>2, <1>3 DEF prune_stage2_maker_cooldowns

(* A stage 2 timeout that the table records is a failure of the policy.    *)
LEMMA RecordIsFail ==
  ASSUME PenaltyInv, now' = now, NEW ms \in SUBSET Makers, add_stage2_maker_cooldowns(ms)
  PROVE  PenaltyInv' /\ [Policy!PNext]_(Policy!pvars)
<1> USE PenaltyAssumption
<1>0. \A m \in Makers : maker_penalties[m] \in Rows
  BY DEF PenaltyInv, PenaltyTypeOK
<1>1. maker_penalty_store' \in {"unopened", "open", "failed"}
  BY DEF add_stage2_maker_cooldowns
<1>2. CASE UNCHANGED maker_penalties
  <2>1. stage2_maker_cooldowns' \in [Makers -> Nat]
    BY DEF add_stage2_maker_cooldowns, PenaltyInv, PenaltyTypeOK
  <2>2. PenaltyInv'
    BY <1>1, <1>2, <2>1 DEF PenaltyInv, PenaltyTypeOK
  <2> QED
    BY <1>2, <2>2, MeansTheSame DEF CoolingEnd, BarredEnd, CoolingIn, BannedIn
<1>3. CASE /\ Cooldown > 0
           /\ maker_penalties' =
                [m \in Makers |-> IF m \in ms
                                  THEN record_single_stage2_cooldown(maker_penalties[m])
                                  ELSE maker_penalties[m]]
           /\ UNCHANGED stage2_maker_cooldowns
  <2> DEFINE often == {m \in ms : Repeated(maker_penalties[m])}
  <2>1. PenaltyInv'
    BY <1>0, <1>1, <1>3, RecordedMeans DEF PenaltyInv, PenaltyTypeOK
  <2>2. \A m \in Makers :
          CoolingEnd(maker_penalties[m])' =
            IF m \in ms THEN now + Cooldown ELSE CoolingEnd(maker_penalties[m])
    <3>1. \A m \in Makers : CoolingEnd(maker_penalties[m])' = CoolingEnd(maker_penalties'[m])
      BY DEF CoolingEnd, CoolingIn
    <3> QED
      BY <1>0, <1>3, <3>1, RecordedMeans
  <2>3. \A m \in Makers :
          BarredEnd(maker_penalties[m])' =
            IF m \notin often THEN BarredEnd(maker_penalties[m])
            ELSE IF AutoBan = 0 THEN MaxTime + Cooldown + AutoBan + 2
            ELSE now + AutoBan
    <3>1. \A m \in Makers : BarredEnd(maker_penalties[m])' = BarredEnd(maker_penalties'[m])
      BY DEF BarredEnd, BannedIn
    <3> QED
      BY <1>0, <1>3, <3>1, RecordedMeans
  <2>4. CoolingEnds' = [m \in Makers |-> IF m \in ms THEN now + Cooldown ELSE CoolingEnds[m]]
    BY <2>2 DEF CoolingEnds
  <2>5. BarredEnds' = [m \in Makers |->
          IF m \in often
          THEN Policy!BanEnd(IF AutoBan = 0 THEN 0 ELSE now + AutoBan)
          ELSE BarredEnds[m]]
    <3>1. Policy!BanEnd(IF AutoBan = 0 THEN 0 ELSE now + AutoBan) =
            IF AutoBan = 0 THEN MaxTime + Cooldown + AutoBan + 2 ELSE now + AutoBan
      BY DEF Policy!BanEnd, Policy!Forever, PenaltyInv
    <3> QED
      BY <2>3, <3>1 DEF BarredEnds
  <2>6. Policy!Fail(ms, often)
    BY <1>3, <2>4, <2>5 DEF Policy!Fail, CoolingEnds, BarredEnds, CoolingEnd, BarredEnd
  <2>7. often \in SUBSET ms
    OBVIOUS
  <2>8. \E r \in SUBSET ms : Policy!Fail(ms, r)
    <3> HIDE DEF often
    <3> QED
      BY <2>6, <2>7 DEF Policy!Fail
  <2> QED
    BY <2>1, <2>8 DEF Policy!PNext
<1> QED
  BY <1>2, <1>3 DEF add_stage2_maker_cooldowns, record_stage2_cooldown

(* The operator bans a maker.                                              *)
LEMMA BanIsBan ==
  ASSUME PenaltyInv, NEW m \in Makers, NEW until \in {0, now + 1}, ban(m, until)
  PROVE  PenaltyInv' /\ [Policy!PNext]_(Policy!pvars)
<1> DEFINE row == [maker_penalties[m] EXCEPT !.known = TRUE, !.banned = TRUE,
                                             !.banned_until = until]
<1>0. maker_penalties[m] \in Rows /\ until \in Nat
  BY DEF PenaltyInv, PenaltyTypeOK
<1>1. row \in Rows /\ row.banned /\ row.banned_until = until
      /\ row.cooldown_until = maker_penalties[m].cooldown_until
  BY <1>0 DEF Rows
<1>2. maker_penalties' = [maker_penalties EXCEPT ![m] = row]
      /\ UNCHANGED <<now, maker_penalty_store, stage2_maker_cooldowns>>
  BY DEF ban
<1> HIDE DEF row
<1>3. PenaltyInv'
  BY <1>1, <1>2 DEF PenaltyInv, PenaltyTypeOK
<1>4. CoolingEnds' = CoolingEnds
  <2>1. \A n \in Makers : maker_penalties'[n].cooldown_until = maker_penalties[n].cooldown_until
    BY <1>1, <1>2 DEF PenaltyInv, PenaltyTypeOK
  <2> QED
    BY <1>2, <2>1 DEF CoolingEnds, CoolingEnd, CoolingIn
<1>5. BarredEnds' = [BarredEnds EXCEPT ![m] = Policy!BanEnd(until)]
  <2>1. BarredEnd(maker_penalties'[m]) = Policy!BanEnd(until)
    BY <1>1, <1>2, PenaltyAssumption
       DEF PenaltyInv, PenaltyTypeOK, BarredEnd, BannedIn, Policy!BanEnd, Policy!Forever
  <2>2. \A n \in Makers \ {m} : maker_penalties'[n] = maker_penalties[n]
    BY <1>2 DEF PenaltyInv, PenaltyTypeOK
  <2>3. \A n \in Makers : BarredEnd(maker_penalties[n])' = BarredEnd(maker_penalties'[n])
    BY <1>2 DEF BarredEnd, BannedIn
  <2> QED
    BY <2>1, <2>2, <2>3 DEF BarredEnds
<1>6. Policy!Ban(m, until)
  BY <1>2, <1>4, <1>5 DEF Policy!Ban, CoolingEnds, BarredEnds, CoolingEnd, BarredEnd
<1>7. until \in {0} \cup (now + 1)..(MaxTime + 1)
  BY PenaltyAssumption DEF PenaltyInv
<1> QED
  BY <1>3, <1>6, <1>7 DEF Policy!PNext

(* The operator lifts a ban.                                               *)
LEMMA UnbanIsUnban ==
  ASSUME PenaltyInv, NEW m \in Makers, unban(m)
  PROVE  PenaltyInv' /\ [Policy!PNext]_(Policy!pvars)
<1> DEFINE row == [maker_penalties[m] EXCEPT !.banned = FALSE, !.banned_until = 0]
<1>0. maker_penalties[m] \in Rows
  BY DEF PenaltyInv, PenaltyTypeOK
<1>1. row \in Rows /\ ~row.banned
      /\ row.cooldown_until = maker_penalties[m].cooldown_until
  BY <1>0 DEF Rows
<1>2. maker_penalties' = [maker_penalties EXCEPT ![m] = row]
      /\ UNCHANGED <<now, maker_penalty_store, stage2_maker_cooldowns>>
  BY DEF unban
<1> HIDE DEF row
<1>3. PenaltyInv'
  BY <1>1, <1>2 DEF PenaltyInv, PenaltyTypeOK
<1>4. CoolingEnds' = CoolingEnds
  <2>1. \A n \in Makers : maker_penalties'[n].cooldown_until = maker_penalties[n].cooldown_until
    BY <1>1, <1>2 DEF PenaltyInv, PenaltyTypeOK
  <2> QED
    BY <1>2, <2>1 DEF CoolingEnds, CoolingEnd, CoolingIn
<1>5. BarredEnds' = [BarredEnds EXCEPT ![m] = 0]
  <2>1. BarredEnd(maker_penalties'[m]) = 0
    BY <1>1, <1>2 DEF PenaltyInv, PenaltyTypeOK, BarredEnd, BannedIn
  <2>2. \A n \in Makers \ {m} : maker_penalties'[n] = maker_penalties[n]
    BY <1>2 DEF PenaltyInv, PenaltyTypeOK
  <2>3. \A n \in Makers : BarredEnd(maker_penalties[n])' = BarredEnd(maker_penalties'[n])
    BY <1>2 DEF BarredEnd, BannedIn
  <2> QED
    BY <2>1, <2>2, <2>3 DEF BarredEnds
<1>6. Policy!Unban(m)
  BY <1>2, <1>4, <1>5 DEF Policy!Unban, CoolingEnds, BarredEnds, CoolingEnd, BarredEnd
<1> QED
  BY <1>3, <1>6 DEF Policy!PNext

(* Time passes: a row whose deadline is over reads as none, as in the      *)
(* policy.                                                                 *)
LEMMA TickIsPasses ==
  ASSUME PenaltyInv, Tick
  PROVE  PenaltyInv' /\ [Policy!PNext]_(Policy!pvars)
<1> USE PenaltyAssumption DEF PenaltyInv, PenaltyTypeOK
<1>1. now' = now + 1 /\ now < MaxTime
      /\ UNCHANGED <<maker_penalties, maker_penalty_store, stage2_maker_cooldowns>>
  BY DEF Tick
<1>2. PenaltyInv'
  BY <1>1
<1>3. ASSUME NEW row \in Rows
      PROVE  /\ (IF row.cooldown_until > now + 1 THEN row.cooldown_until ELSE 0)
                  = IF CoolingEnd(row) <= now + 1 THEN 0 ELSE CoolingEnd(row)
             /\ (IF ~(row.banned /\ (row.banned_until = 0 \/ row.banned_until > now + 1)) THEN 0
                 ELSE IF row.banned_until = 0 THEN MaxTime + Cooldown + AutoBan + 2
                 ELSE row.banned_until)
                  = IF BarredEnd(row) <= now + 1 THEN 0 ELSE BarredEnd(row)
  BY <1>1 DEF Rows, CoolingEnd, CoolingIn, BarredEnd, BannedIn
<1>4. CoolingEnds' = Policy!Lapsed(CoolingEnds)
  BY <1>1, <1>3 DEF CoolingEnds, Policy!Lapsed, CoolingEnd, CoolingIn
<1>5. BarredEnds' = Policy!Lapsed(BarredEnds)
  BY <1>1, <1>3 DEF BarredEnds, Policy!Lapsed, BarredEnd, BannedIn
<1>6. Policy!Passes
  BY <1>1, <1>4, <1>5 DEF Policy!Passes, CoolingEnds, BarredEnds, CoolingEnd, BarredEnd
<1> QED
  BY <1>2, <1>6 DEF Policy!PNext

(* Every step of the taker is one of the policy, or none.                  *)
LEMMA NextIsPolicy ==
  ASSUME PenaltyInv, [Next]_vars
  PROVE  PenaltyInv' /\ [Policy!PNext]_(Policy!pvars)
<1>u. ASSUME UNCHANGED <<now, maker_penalties>>,
             maker_penalty_store' \in {"unopened", "open", "failed"},
             stage2_maker_cooldowns' \in [Makers -> Nat]
      PROVE  PenaltyInv' /\ [Policy!PNext]_(Policy!pvars)
  <2>1. PenaltyInv'
    BY <1>u DEF PenaltyInv, PenaltyTypeOK
  <2> QED
    BY <1>u, <2>1, MeansTheSame DEF CoolingEnd, BarredEnd, CoolingIn, BannedIn
<1>v. ASSUME UNCHANGED penaltyVars
      PROVE  PenaltyInv' /\ [Policy!PNext]_(Policy!pvars)
  BY <1>u, <1>v DEF penaltyVars, PenaltyInv, PenaltyTypeOK
<1>1. CASE \E swp \in BOOLEAN : docoinjoin(swp)
  BY <1>1, PruneIsStutter DEF docoinjoin
<1>2. CASE \/ \E o \in pool : ChooseOrder(o)
           \/ OrdersChosen \/ SweepOrdersChosen \/ NextPass
           \/ \E spendable \in SUBSET Coins : prepare_my_bitcoin_data(spendable)
           \/ \E old \in SUBSET (Coins \cup External) : make_commitment(old)
           \/ \E ms \in SUBSET Makers : prepare_maker_selection_retry(ms)
           \/ receive_utxos \/ Completed
           \/ UNCHANGED vars
  <2>1. UNCHANGED penaltyVars
    BY <1>2 DEF ChooseOrder, OrdersChosen, SweepOrdersChosen, NextPass,
       prepare_my_bitcoin_data, make_commitment, prepare_maker_selection_retry,
       receive_utxos, Completed, vars
  <2> QED
    BY <2>1, <1>v
<1>3. CASE \E ms \in SUBSET Makers : on_taker_stage2_timeout(ms)
  BY <1>3, RecordIsFail DEF on_taker_stage2_timeout
<1>4. CASE Restart
  <2>1. /\ UNCHANGED <<now, maker_penalties>> /\ maker_penalty_store' = "unopened"
        /\ stage2_maker_cooldowns' \in [Makers -> Nat]
    BY <1>4 DEF Restart, RestartPenalties
  <2> QED
    BY <2>1, <1>u
<1>5. CASE Tick
  BY <1>5, TickIsPasses
<1>6. CASE \E m \in Judged : unban(m) \/ \E until \in {0, now + 1} : ban(m, until)
  <2>1. Judged \subseteq Makers
    BY ChoiceAssumption
  <2> QED
    BY <1>6, <2>1, BanIsBan, UnbanIsUnban
<1> QED
  BY <1>1, <1>2, <1>3, <1>4, <1>5, <1>6 DEF Next

(* At the start no row is in the table and nobody is avoided.              *)
LEMMA InitIsPolicy == Init => PenaltyInv /\ Policy!PInit
<1> SUFFICES ASSUME Init PROVE PenaltyInv /\ Policy!PInit
  OBVIOUS
<1> USE PenaltyAssumption DEF Init, PenaltyInit
<1>1. NoRow \in Rows /\ NoRow.cooldown_until = 0 /\ ~NoRow.banned
  BY DEF NoRow, Rows
<1>2. PenaltyInv
  BY <1>1 DEF PenaltyInv, PenaltyTypeOK
<1>3. Policy!PInit
  BY <1>1 DEF Policy!PInit, CoolingIn, BannedIn
<1> QED
  BY <1>2, <1>3

(* The SQLite table, with rows that have lapsed, prunes in between and     *)
(* restarts of the process, is an implementation of the policy: nobody     *)
(* comes off a cooldown or a ban early, and nobody stays on it.            *)
THEOREM TableKeepsPolicy == Spec => ImplementsPolicy
<1>1. PenaltyInv /\ [Next]_vars => PenaltyInv' /\ [Policy!PNext]_(Policy!pvars)
  BY NextIsPolicy
<1> QED
  BY <1>1, InitIsPolicy, PTL DEF Spec, ImplementsPolicy, Policy!PSpec

(***************************************************************************)
(* No commitment twice                                                     *)
(***************************************************************************)

CommitInv ==
  /\ used \subseteq Commitments
  /\ commitments \in [Commitments -> 0..2]
  /\ \A c \in Commitments : commitments[c] > 0 => c \in used /\ commitments[c] = 1
  /\ \A c \in used : c.index < Tries

(* Among sets that are finite, some have no other within them.             *)
LEMMA HasMinimal ==
  ASSUME NEW S, NEW family, family # {},
         \A x \in family : x \subseteq S /\ IsFiniteSet(x)
  PROVE  \E x \in family : \A y \in family : y \subseteq x => y = x
<1>1. IsWellFoundedOn(StrictSubsetOrdering(S), FiniteSubsetsOf(S))
  BY FS_StrictSubsetOrderingWellFounded
<1>2. family \subseteq FiniteSubsetsOf(S)
  BY DEF FiniteSubsetsOf
<1>3. PICK x \in family : \A y \in family : ~(<<y, x>> \in StrictSubsetOrdering(S))
  BY <1>1, <1>2, WFMin
<1>4. ASSUME NEW y \in family, y \subseteq x, y # x
      PROVE  FALSE
  <2>1. <<y, x>> \in StrictSubsetOrdering(S)
    BY <1>4 DEF StrictSubsetOrdering
  <2> QED
    BY <2>1, <1>3
<1> QED
  BY <1>4

(* A set of indices below a bound has a highest one.                       *)
LEMMA Highest ==
  ASSUME NEW max \in Nat, NEW mine \in SUBSET (0..(max - 1)), mine # {}
  PROVE  \E i \in mine : \A j \in mine : j <= i
<1> DEFINE Above(i) == {j \in mine : j > i}
           family == {Above(i) : i \in mine}
<1>1. IsFiniteSet(0..(max - 1))
  <2>1. 0 \in Int /\ max - 1 \in Int
    OBVIOUS
  <2> QED
    BY <2>1, FS_Interval
<1>2. \A i \in mine : Above(i) \subseteq 0..(max - 1) /\ IsFiniteSet(Above(i))
  <2>1. \A i \in mine : Above(i) \in SUBSET (0..(max - 1))
    OBVIOUS
  <2> QED
    BY <1>1, <2>1, FS_Subset
<1>3. family # {} /\ \A x \in family : x \subseteq 0..(max - 1) /\ IsFiniteSet(x)
  BY <1>2
<1>4. \E x \in family : \A y \in family : y \subseteq x => y = x
  <2> HIDE DEF family
  <2> QED
    BY <1>3, HasMinimal
<1>5. PICK i \in mine : \A y \in family : y \subseteq Above(i) => y = Above(i)
  BY <1>4, Zenon
<1>6. ASSUME NEW j \in mine, j > i
      PROVE  FALSE
  <2>1. \A k \in mine : k \in Nat
    OBVIOUS
  <2>2. Above(j) \subseteq Above(i) /\ Above(j) \in family
    <3>1. ASSUME NEW k \in mine, k > j PROVE k > i
      BY <1>6, <2>1, <3>1
    <3> QED
      BY <3>1
  <2>3. j \in Above(i) /\ j \notin Above(j)
    BY <1>6, <2>1
  <2> QED
    BY <2>2, <2>3, <1>5
<1> QED
  BY <1>6

(* get_podle_tries: an index below the bound has not been used.            *)
LEMMA TriesAreFresh ==
  ASSUME NEW u, NEW max \in Nat \ {0}
  PROVE  /\ get_podle_tries(u, max) \in Nat
         /\ get_podle_tries(u, max) < max =>
              [utxo |-> u, index |-> get_podle_tries(u, max)] \notin used
<1> DEFINE mine == {i \in 0..(max - 1) : [utxo |-> u, index |-> i] \in used}
           top == CHOOSE i \in mine : \A j \in mine : j <= i
<1>1. CASE mine = {}
  <2>1. get_podle_tries(u, max) = 0
    BY <1>1 DEF get_podle_tries
  <2> QED
    BY <1>1, <2>1
<1>2. CASE mine # {}
  <2>1. get_podle_tries(u, max) = top + 1
    BY <1>2 DEF get_podle_tries
  <2>2. top \in mine /\ \A j \in mine : j <= top
    <3> HIDE DEF mine
    <3>1. mine \in SUBSET (0..(max - 1))
      BY DEF mine
    <3> QED
      BY <1>2, <3>1, Highest
  <2>3. top \in 0..(max - 1)
    BY <2>2
  <2> HIDE DEF top
  <2> QED
    BY <2>1, <2>2, <2>3
<1> QED
  BY <1>1, <1>2

(* A fresh commitment, written down before it is sent.                     *)
LEMMA UpdateIsFresh ==
  ASSUME CommitInv, NEW u \in Coins \cup External, NEW i \in 0..(Tries - 1),
         [utxo |-> u, index |-> i] \notin used,
         update_commitments([utxo |-> u, index |-> i])
  PROVE  CommitInv'
<1> DEFINE c == [utxo |-> u, index |-> i]
<1>1. c \in Commitments /\ c.index < Tries /\ c \notin used
  BY ChoiceAssumption DEF Commitments
<1>2. commitments[c] = 0
  BY <1>1 DEF CommitInv
<1>3. used' = used \cup {c} /\ commitments' = [commitments EXCEPT ![c] = 1]
  BY <1>2 DEF update_commitments, LeastOf
<1> HIDE DEF c
<1> QED
  BY <1>1, <1>3 DEF CommitInv

(* Every step keeps the commitments fresh: only make_commitment writes.    *)
LEMMA NextCommit ==
  ASSUME CommitInv, [Next]_vars
  PROVE  CommitInv'
<1>1. ASSUME NEW old \in SUBSET (Coins \cup External), make_commitment(old)
      PROVE  CommitInv'
  <2>0. Tries \in Nat \ {0} /\ Reveals \in Nat \ {0}
    BY ChoiceAssumption
  <2>1. CASE UNCHANGED commitVars
    BY <2>1 DEF commitVars, CommitInv
  <2>2. CASE \E u \in old \cap Coins :
               /\ get_podle_tries(u, Tries) < Tries
               /\ update_commitments([utxo |-> u, index |-> get_podle_tries(u, Tries)])
    <3>1. PICK u \in old \cap Coins :
               /\ get_podle_tries(u, Tries) < Tries
               /\ update_commitments([utxo |-> u, index |-> get_podle_tries(u, Tries)])
      BY <2>2
    <3> DEFINE i == get_podle_tries(u, Tries)
    <3>2. i \in 0..(Tries - 1) /\ [utxo |-> u, index |-> i] \notin used
      BY <2>0, <3>1, TriesAreFresh
    <3>3. update_commitments([utxo |-> u, index |-> i])
      BY <3>1
    <3> HIDE DEF i
    <3> QED
      BY <3>2, <3>3, UpdateIsFresh
  <2>3. CASE \E u \in old \cap External :
               LET i == get_podle_tries(u, LeastOf(Reveals, Tries))
               IN /\ i < LeastOf(Reveals, Tries)
                  /\ update_commitments([utxo |-> u, index |-> i])
    <3>1. LeastOf(Reveals, Tries) \in Nat \ {0} /\ LeastOf(Reveals, Tries) <= Tries
      BY <2>0 DEF LeastOf
    <3>2. PICK u \in old \cap External :
               LET i == get_podle_tries(u, LeastOf(Reveals, Tries))
               IN /\ i < LeastOf(Reveals, Tries)
                  /\ update_commitments([utxo |-> u, index |-> i])
      BY <2>3
    <3> DEFINE i == get_podle_tries(u, LeastOf(Reveals, Tries))
    <3>3. /\ i \in Nat /\ i < LeastOf(Reveals, Tries)
          /\ [utxo |-> u, index |-> i] \notin used
      BY <3>1, <3>2, TriesAreFresh
    <3>4. update_commitments([utxo |-> u, index |-> i])
      BY <3>2
    <3> HIDE DEF i
    <3>5. i \in 0..(Tries - 1)
      BY <2>0, <3>1, <3>3
    <3> QED
      BY <3>3, <3>4, <3>5, UpdateIsFresh
  <2>4. UNCHANGED commitVars
        \/ (\E u \in old \cap Coins :
               /\ get_podle_tries(u, Tries) < Tries
               /\ update_commitments([utxo |-> u, index |-> get_podle_tries(u, Tries)]))
        \/ (\E u \in old \cap External :
               LET i == get_podle_tries(u, LeastOf(Reveals, Tries))
               IN /\ i < LeastOf(Reveals, Tries)
                  /\ update_commitments([utxo |-> u, index |-> i]))
    <3>1. \A u : get_podle_tries(u, LeastOf(Reveals, Tries)) < Tries
                 /\ get_podle_tries(u, LeastOf(Reveals, Tries)) < Reveals
                 => get_podle_tries(u, LeastOf(Reveals, Tries)) < LeastOf(Reveals, Tries)
      BY DEF LeastOf
    <3> QED
      BY <1>1, <3>1 DEF make_commitment
  <2> QED
    BY <2>1, <2>2, <2>3, <2>4
<1>2. CASE UNCHANGED commitVars
  BY <1>2 DEF commitVars, CommitInv
<1>3. UNCHANGED commitVars \/ \E old \in SUBSET (Coins \cup External) : make_commitment(old)
  BY DEF Next, vars, docoinjoin, ChooseOrder, OrdersChosen, SweepOrdersChosen, NextPass,
     prepare_my_bitcoin_data, prepare_maker_selection_retry, on_taker_stage2_timeout,
     receive_utxos, Completed, Restart, takerUnchanged
<1> QED
  BY <1>1, <1>2, <1>3

(* A commitment is sent once at most, and at an index that makers accept,  *)
(* over every run and restart: what the file has is never taken again.     *)
THEOREM CommitmentsOnce == Spec => []CommitmentsFresh
<1>1. Init => CommitInv
  BY DEF Init, CommitInv
<1>2. CommitInv /\ [Next]_vars => CommitInv'
  BY NextCommit
<1>3. CommitInv => CommitmentsFresh
  BY DEF CommitInv, CommitmentsFresh
<1> QED
  BY <1>1, <1>2, <1>3, PTL DEF Spec

(***************************************************************************)
(* No excluded maker                                                       *)
(***************************************************************************)

(* The orders of this pass: chosen, or still to choose from.               *)
Picked == pool \cup chosen_orders

PassInv ==
  /\ sweep \in BOOLEAN
  /\ pass \in 1..Len(CurrentPasses)
  /\ failed \subseteq ignored_makers
  /\ pool \subseteq Offers /\ chosen_orders \subseteq Offers
  /\ \A o \in Picked : o.counterparty \notin CurrentPasses[pass]

OneEach ==
  /\ \A o, p \in Picked : o.counterparty = p.counterparty => o = p
  /\ Cardinality(chosen_orders) <= N
  /\ phase \in {"chosen", "prepared", "filled", "stage2"} => Cardinality(chosen_orders) = N

(* An amount gives no order up: every maker it suits is among them.        *)
AllLookedAt ==
  ~sweep /\ phase = "choosing" =>
    \A o \in Offers : Suitable(o, CurrentPasses[pass], FALSE) =>
      \E c \in Picked : c.counterparty = o.counterparty

RelaxedOnlyIf == ~sweep /\ pass = 2 => ~OthersSuffice

ChoiceInv == PassInv /\ OneEach /\ AllLookedAt /\ RelaxedOnlyIf

(* The first pass avoids everyone; the second, if there is one, takes      *)
(* those on cooldown back in.                                              *)
LEMMA PassesAre ==
  ASSUME NEW ignored, NEW hard, NEW cooling
  PROVE  LET passes == ExclusionPasses(ignored, hard, cooling)
         IN /\ Len(passes) \in {1, 2}
            /\ passes[1] = ignored \cup hard \cup cooling
            /\ Len(passes) = 2 => RelaxCooldowns /\ passes[2] = ignored \cup hard
BY DEF ExclusionPasses

(* Steps that leave the orders alone.                                      *)
LEMMA ChoiceFrame ==
  ASSUME ChoiceInv,
         UNCHANGED <<sweep, hard_excluded_makers, cooldown_makers, ignored_makers,
                     failed, pass, pool, chosen_orders>>,
         phase' = "choosing" => phase = "choosing",
         phase' \in {"chosen", "prepared", "filled", "stage2"} =>
           Cardinality(chosen_orders) = N
  PROVE  ChoiceInv'
<1>1. UNCHANGED <<CurrentPasses, Picked>> /\ (OthersSuffice' <=> OthersSuffice)
  BY DEF CurrentPasses, Picked, OthersSuffice
<1> QED
  BY <1>1 DEF ChoiceInv, PassInv, OneEach, AllLookedAt, RelaxedOnlyIf

(* Nothing is left of a run that has ended.                                *)
LEMMA ChoiceEnds ==
  ASSUME EndRun
  PROVE  ChoiceInv'
<1>1. /\ phase' = "idle" /\ pool' = {} /\ chosen_orders' = {} /\ pass' = 1
      /\ failed' = {} /\ sweep' = FALSE
  BY DEF EndRun
<1>2. pass' \in 1..Len(CurrentPasses')
  BY <1>1, PassesAre DEF CurrentPasses
<1>3. Cardinality({}) = 0 /\ N \in Nat
  BY FS_EmptySet, ChoiceAssumption
<1>4. PassInv'
  BY <1>1, <1>2 DEF PassInv, Picked
<1>5. OneEach'
  BY <1>1, <1>3 DEF OneEach, Picked
<1>6. AllLookedAt' /\ RelaxedOnlyIf'
  BY <1>1 DEF AllLookedAt, RelaxedOnlyIf
<1> QED
  BY <1>4, <1>5, <1>6 DEF ChoiceInv

(* A pass that begins has its own orders, of none that it excludes.        *)
LEMMA PassBegins ==
  ASSUME NEW i \in 1..Len(CurrentPasses'),
         EnterPass(i, CurrentPasses'[i], sweep'), sweep' \in BOOLEAN,
         phase' = "choosing", failed' \subseteq ignored_makers', RelaxedOnlyIf'
  PROVE  ChoiceInv'
<1>1. /\ pass' = i /\ chosen_orders' = {}
      /\ pool' \in CheapestPools(CurrentPasses'[i], sweep')
  BY DEF EnterPass
<1>2. /\ pool' \subseteq {o \in Offers : Suitable(o, CurrentPasses'[i], sweep')}
      /\ \A o \in Offers : Suitable(o, CurrentPasses'[i], sweep') =>
           \E c \in pool' : c.counterparty = o.counterparty
      /\ \A c, d \in pool' : c.counterparty = d.counterparty => c = d
  BY <1>1 DEF CheapestPools
<1>3. Picked' = pool'
  BY <1>1 DEF Picked
<1>4. \A o \in pool' : o.counterparty \notin CurrentPasses'[i]
  BY <1>2 DEF Suitable
<1>5. PassInv'
  BY <1>1, <1>2, <1>3, <1>4 DEF PassInv
<1>6. OneEach'
  <2>1. Cardinality({}) = 0 /\ N \in Nat
    BY FS_EmptySet, ChoiceAssumption
  <2> QED
    BY <1>1, <1>2, <1>3, <2>1 DEF OneEach
<1>7. AllLookedAt'
  <2>1. sweep' \/ sweep' = FALSE
    OBVIOUS
  <2>2. CASE sweep' = FALSE
    <3>1. \A o \in Offers : Suitable(o, CurrentPasses'[i], FALSE) =>
            \E c \in pool' : c.counterparty = o.counterparty
      BY <1>2, <2>2
    <3>2. \A o : Suitable(o, CurrentPasses[pass], FALSE)' <=> Suitable(o, CurrentPasses'[pass'], FALSE)
      BY DEF Suitable
    <3> QED
      BY <1>1, <1>3, <3>1, <3>2 DEF AllLookedAt
  <2> QED
    BY <2>1, <2>2 DEF AllLookedAt
<1> QED
  BY <1>5, <1>6, <1>7 DEF ChoiceInv

(* If the orders of the first pass are too few, so are any it could have   *)
(* come to.                                                                *)
LEMMA OthersAreTooFew ==
  ASSUME ChoiceInv, phase = "choosing", ~sweep, pass = 1, ShortOfOrders
  PROVE  ~OthersSuffice
<1>0. sweep = FALSE
  BY DEF ChoiceInv, PassInv
<1>1. IsFiniteSet(Picked) /\ Cardinality(Picked) < N
  <2>1. IsFiniteSet(pool) /\ IsFiniteSet(chosen_orders)
    BY ChoiceAssumption, FS_Subset DEF ChoiceInv, PassInv
  <2>2. /\ IsFiniteSet(Picked)
        /\ Cardinality(Picked) =
             Cardinality(pool) + Cardinality(chosen_orders) - Cardinality(pool \cap chosen_orders)
    BY <2>1, FS_Union DEF Picked
  <2>3. Cardinality(pool) \in Nat /\ Cardinality(chosen_orders) \in Nat
        /\ Cardinality(pool \cap chosen_orders) \in Nat
    BY <2>1, FS_CardinalityType, FS_Intersection
  <2>4. Cardinality(pool) < N - Cardinality(chosen_orders) /\ N \in Nat
    BY ChoiceAssumption DEF ShortOfOrders
  <2> QED
    BY <2>2, <2>3, <2>4
<1>2. ASSUME NEW p \in CheapestPools(CurrentPasses[1], FALSE)
      PROVE  ~(Cardinality(p) >= N)
  <2> DEFINE f == [c \in p |-> CHOOSE d \in Picked : d.counterparty = c.counterparty]
  <2>1. \A c \in p : \E d \in Picked : d.counterparty = c.counterparty
    BY <1>0 DEF CheapestPools, ChoiceInv, AllLookedAt
  <2>2. \A c \in p : f[c] \in Picked /\ f[c].counterparty = c.counterparty
    BY <2>1
  <2>3. \A c, d \in p : c.counterparty = d.counterparty => c = d
    BY DEF CheapestPools
  <2>4. f \in [p -> Picked]
    BY <2>2
  <2> HIDE DEF f
  <2>5. f \in Injection(p, Picked)
    BY <2>2, <2>3, <2>4 DEF Injection, IsInjective
  <2>6. IsFiniteSet(p) /\ Cardinality(p) <= Cardinality(Picked)
    BY <1>1, <2>5, FS_Injection
  <2>7. Cardinality(p) \in Nat /\ Cardinality(Picked) \in Nat /\ N \in Nat
    BY <1>1, <2>6, FS_CardinalityType, ChoiceAssumption
  <2> QED
    BY <1>1, <2>6, <2>7
<1> QED
  BY <1>0, <1>2 DEF OthersSuffice, CurrentPasses

(* An order is chosen: the other offers of its maker are none any more.    *)
LEMMA ChooseChoice ==
  ASSUME ChoiceInv, NEW o \in pool, ChooseOrder(o)
  PROVE  ChoiceInv'
<1>1. /\ phase = "choosing" /\ phase' = "choosing" /\ Cardinality(chosen_orders) < N
      /\ chosen_orders' = chosen_orders \cup {o}
      /\ pool' = {x \in pool : x.counterparty # o.counterparty}
      /\ UNCHANGED <<sweep, hard_excluded_makers, cooldown_makers, ignored_makers,
                     failed, pass>>
  BY DEF ChooseOrder, runVars
<1>2. UNCHANGED CurrentPasses /\ (OthersSuffice' <=> OthersSuffice)
  BY <1>1 DEF CurrentPasses, OthersSuffice
<1>3. Picked' \subseteq Picked
      /\ \A x \in Picked : \E y \in Picked' : y.counterparty = x.counterparty
  BY <1>1 DEF Picked
<1>4. PassInv'
  BY <1>1, <1>2, <1>3 DEF ChoiceInv, PassInv
<1>5. OneEach'
  <2>1. IsFiniteSet(chosen_orders) /\ chosen_orders \subseteq Offers
    BY ChoiceAssumption, FS_Subset DEF ChoiceInv, PassInv
  <2>2. Cardinality(chosen_orders) \in Nat /\ N \in Nat
    BY <2>1, FS_CardinalityType, ChoiceAssumption
  <2>3. Cardinality(chosen_orders') <= N
    <3>1. Cardinality(chosen_orders \cup {o}) =
            IF o \in chosen_orders THEN Cardinality(chosen_orders)
            ELSE Cardinality(chosen_orders) + 1
      BY <2>1, FS_AddElement
    <3> QED
      BY <1>1, <2>2, <3>1
  <2> QED
    BY <1>1, <1>3, <2>3 DEF ChoiceInv, OneEach
<1>6. AllLookedAt'
  <2>1. \A x : Suitable(x, CurrentPasses[pass], FALSE)' <=> Suitable(x, CurrentPasses[pass], FALSE)
    BY <1>1, <1>2 DEF Suitable
  <2> QED
    BY <1>1, <1>3, <2>1 DEF ChoiceInv, AllLookedAt
<1>7. RelaxedOnlyIf'
  BY <1>1, <1>2 DEF ChoiceInv, RelaxedOnlyIf
<1> QED
  BY <1>4, <1>5, <1>6, <1>7 DEF ChoiceInv

(* A sweep gives up the orders that do not allow its amount.               *)
LEMMA SweepChoice ==
  ASSUME ChoiceInv, SweepOrdersChosen
  PROVE  ChoiceInv'
<1>1. /\ sweep /\ Cardinality(chosen_orders) = N
      /\ chosen_orders' \subseteq chosen_orders
      /\ phase' = IF chosen_orders' = chosen_orders THEN "chosen" ELSE "choosing"
      /\ UNCHANGED <<sweep, hard_excluded_makers, cooldown_makers, ignored_makers,
                     failed, pass, pool>>
  BY DEF SweepOrdersChosen, runVars
<1>2. UNCHANGED CurrentPasses
  BY <1>1 DEF CurrentPasses
<1>3. Picked' \subseteq Picked
  BY <1>1 DEF Picked
<1>4. PassInv'
  BY <1>1, <1>2, <1>3 DEF ChoiceInv, PassInv
<1>5. OneEach'
  <2>1. IsFiniteSet(chosen_orders)
    BY ChoiceAssumption, FS_Subset DEF ChoiceInv, PassInv
  <2>2. Cardinality(chosen_orders') <= N
    BY <1>1, <2>1, FS_Subset
  <2> QED
    BY <1>1, <1>3, <2>2 DEF ChoiceInv, OneEach
<1>6. AllLookedAt' /\ RelaxedOnlyIf'
  BY <1>1 DEF AllLookedAt, RelaxedOnlyIf
<1> QED
  BY <1>4, <1>5, <1>6 DEF ChoiceInv

(* A taker begins, with the penalties as they are then.                    *)
LEMMA BeginChoice ==
  ASSUME NEW swp \in BOOLEAN, docoinjoin(swp)
  PROVE  ChoiceInv'
<1>1. /\ sweep' = swp /\ ignored_makers' = {} /\ failed' = {} /\ phase' = "choosing"
      /\ EnterPass(1, CurrentPasses'[1], sweep')
  BY DEF docoinjoin, CurrentPasses
<1>2. 1 \in 1..Len(CurrentPasses')
  BY PassesAre DEF CurrentPasses
<1>3. RelaxedOnlyIf'
  BY <1>1 DEF EnterPass, RelaxedOnlyIf
<1> QED
  BY <1>1, <1>2, <1>3, PassBegins

(* Makers that failed are ignored from now on, and all are chosen anew.    *)
LEMMA RetryChoice ==
  ASSUME ChoiceInv, NEW ms \in SUBSET Makers, prepare_maker_selection_retry(ms)
  PROVE  ChoiceInv'
<1>1. CASE EndRun
  BY <1>1, ChoiceEnds
<1>2. CASE /\ failed' = failed \cup ms
           /\ ignored_makers' = ignored_makers \cup ms
           /\ phase' = "choosing"
           /\ EnterPass(1, ExclusionPasses(ignored_makers', hard_excluded_makers, cooldown_makers)[1], sweep)
           /\ UNCHANGED runVars
  <2>1. EnterPass(1, CurrentPasses'[1], sweep') /\ sweep' = sweep
    BY <1>2 DEF runVars, CurrentPasses
  <2>2. 1 \in 1..Len(CurrentPasses')
    BY PassesAre DEF CurrentPasses
  <2>3. RelaxedOnlyIf'
    BY <2>1 DEF EnterPass, RelaxedOnlyIf
  <2>4. sweep' \in BOOLEAN /\ failed' \subseteq ignored_makers'
    BY <1>2, <2>1 DEF ChoiceInv, PassInv
  <2> QED
    BY <1>2, <2>1, <2>2, <2>3, <2>4, PassBegins
<1> QED
  BY <1>1, <1>2 DEF prepare_maker_selection_retry

(* The orders are too few: those on cooldown come back, or the run ends.   *)
LEMMA NextPassChoice ==
  ASSUME ChoiceInv, NextPass
  PROVE  ChoiceInv'
<1>1. CASE EndRun
  BY <1>1, ChoiceEnds
<1>2. CASE /\ pass < Len(CurrentPasses)
           /\ EnterPass(pass + 1, CurrentPasses[pass + 1], sweep)
           /\ UNCHANGED <<phase, runVars, ignored_makers, failed, retries>>
  <2>1. phase = "choosing" /\ ShortOfOrders
    BY DEF NextPass
  <2>2. UNCHANGED <<sweep, hard_excluded_makers, cooldown_makers, ignored_makers, failed, phase>>
    BY <1>2 DEF runVars
  <2>3. UNCHANGED CurrentPasses /\ (OthersSuffice' <=> OthersSuffice)
    BY <2>2 DEF CurrentPasses, OthersSuffice
  <2>4. Len(CurrentPasses) \in {1, 2} /\ pass \in 1..Len(CurrentPasses)
    BY PassesAre DEF CurrentPasses, ChoiceInv, PassInv
  <2>5. pass = 1 /\ pass + 1 \in 1..Len(CurrentPasses')
    BY <1>2, <2>3, <2>4
  <2>6. RelaxedOnlyIf'
    BY <2>1, <2>2, <2>3, <2>5, OthersAreTooFew DEF RelaxedOnlyIf
  <2>7. EnterPass(pass + 1, CurrentPasses'[pass + 1], sweep')
    BY <1>2, <2>2, <2>3
  <2>8. sweep' \in BOOLEAN /\ failed' \subseteq ignored_makers' /\ phase' = "choosing"
    BY <2>1, <2>2 DEF ChoiceInv, PassInv
  <2> QED
    BY <2>5, <2>6, <2>7, <2>8, PassBegins
<1> QED
  BY <1>1, <1>2 DEF NextPass

(* Every step of the taker keeps the excluded makers out.                  *)
LEMMA NextChoice ==
  ASSUME ChoiceInv, [Next]_vars
  PROVE  ChoiceInv'
<1>1. CASE UNCHANGED <<sweep, hard_excluded_makers, cooldown_makers, ignored_makers,
                       failed, pass, pool, chosen_orders, phase>>
  BY <1>1, ChoiceFrame DEF ChoiceInv, OneEach
<1>2. ASSUME NEW swp \in BOOLEAN, docoinjoin(swp) PROVE ChoiceInv'
  BY <1>2, BeginChoice
<1>3. ASSUME NEW o \in pool, ChooseOrder(o) PROVE ChoiceInv'
  BY <1>3, ChooseChoice
<1>4. CASE OrdersChosen
  BY <1>4, ChoiceFrame DEF OrdersChosen, runVars
<1>5. CASE SweepOrdersChosen
  BY <1>5, SweepChoice
<1>6. CASE NextPass
  BY <1>6, NextPassChoice
<1>7. ASSUME NEW spendable \in SUBSET Coins, prepare_my_bitcoin_data(spendable) PROVE ChoiceInv'
  <2>1. CASE EndRun
    BY <2>1, ChoiceEnds
  <2>2. CASE /\ phase' = "prepared"
             /\ UNCHANGED <<runVars, ignored_makers, failed, pass, pool, chosen_orders>>
    <3>1. Cardinality(chosen_orders) = N
      BY <1>7 DEF prepare_my_bitcoin_data, ChoiceInv, OneEach
    <3> QED
      BY <2>2, <3>1, ChoiceFrame DEF runVars
  <2> QED
    BY <1>7, <2>1, <2>2 DEF prepare_my_bitcoin_data
<1>8. ASSUME NEW old \in SUBSET (Coins \cup External), make_commitment(old) PROVE ChoiceInv'
  <2>1. CASE EndRun
    BY <2>1, ChoiceEnds
  <2>2. CASE Filled
    <3>1. Cardinality(chosen_orders) = N
      BY <1>8 DEF make_commitment, ChoiceInv, OneEach
    <3> QED
      BY <2>2, <3>1, ChoiceFrame DEF Filled, runVars, choiceVars
  <2> QED
    BY <1>8, <2>1, <2>2 DEF make_commitment
<1>9. ASSUME NEW ms \in SUBSET Makers, prepare_maker_selection_retry(ms) PROVE ChoiceInv'
  BY <1>9, RetryChoice
<1>10. CASE receive_utxos
  <2>1. Cardinality(chosen_orders) = N
    BY <1>10 DEF receive_utxos, ChoiceInv, OneEach
  <2> QED
    BY <1>10, <2>1, ChoiceFrame DEF receive_utxos, runVars, choiceVars
<1>11. ASSUME EndRun PROVE ChoiceInv'
  BY <1>11, ChoiceEnds
<1>12. ASSUME takerUnchanged \/ UNCHANGED vars PROVE ChoiceInv'
  BY <1>1, <1>12 DEF takerUnchanged, vars, runVars, choiceVars
<1>13. (\E ms \in SUBSET Makers : on_taker_stage2_timeout(ms)) \/ Completed \/ Restart => EndRun
  BY DEF on_taker_stage2_timeout, Completed, Restart
<1> QED
  BY <1>2, <1>3, <1>4, <1>5, <1>6, <1>7, <1>8, <1>9, <1>10, <1>11, <1>12, <1>13 DEF Next

(* What the invariant means for the makers that are asked.                 *)
LEMMA ChosenAreAllowed == ASSUME ChoiceInv PROVE ExcludedNotChosen
<1>1. \A m \in ChosenMakers : m \notin CurrentPasses[pass]
  BY DEF ChoiceInv, PassInv, Picked, ChosenMakers
<1>2. /\ Len(CurrentPasses) \in {1, 2} /\ pass \in 1..Len(CurrentPasses)
      /\ CurrentPasses[1] = ignored_makers \cup hard_excluded_makers \cup cooldown_makers
      /\ Len(CurrentPasses) = 2 =>
           RelaxCooldowns /\ CurrentPasses[2] = ignored_makers \cup hard_excluded_makers
  BY PassesAre DEF CurrentPasses, ChoiceInv, PassInv
<1>3. pass = 1 \/ (pass = 2 /\ Len(CurrentPasses) = 2)
  <2>1. CASE Len(CurrentPasses) = 1
    BY <1>2, <2>1
  <2>2. CASE Len(CurrentPasses) = 2
    BY <1>2, <2>2
  <2> QED
    BY <1>2, <2>1, <2>2
<1>4. ignored_makers \cup hard_excluded_makers \subseteq CurrentPasses[pass]
  BY <1>2, <1>3
<1>5. ASSUME NEW m \in ChosenMakers, m \in cooldown_makers
      PROVE  RelaxCooldowns /\ (~sweep => ~OthersSuffice)
  BY <1>1, <1>2, <1>3, <1>5 DEF ChoiceInv, RelaxedOnlyIf
<1>6. ExclusionsKept
  BY <1>1, <1>4, <1>5 DEF ExclusionsKept
<1>7. Cardinality(ChosenMakers) = Cardinality(chosen_orders)
  <2> DEFINE f == [o \in chosen_orders |-> o.counterparty]
  <2>1. IsFiniteSet(chosen_orders)
    BY ChoiceAssumption, FS_Subset DEF ChoiceInv, PassInv
  <2>2. \A o, p \in chosen_orders : o.counterparty = p.counterparty => o = p
    BY DEF ChoiceInv, OneEach, Picked
  <2>3. f \in Bijection(chosen_orders, ChosenMakers)
    BY <2>2 DEF Bijection, Injection, Surjection, IsInjective, ChosenMakers
  <2> HIDE DEF f
  <2> QED
    BY <2>1, <2>3, FS_Bijection DEF ExistsBijection
<1>8. FailedNotAgain
  BY <1>1, <1>4, <1>7 DEF FailedNotAgain, ChoiceInv, PassInv, OneEach
<1> QED
  BY <1>6, <1>8 DEF ExcludedNotChosen

LEMMA ChoiceStarts == ASSUME Init PROVE ChoiceInv
<1>1. Cardinality({}) = 0 /\ N \in Nat
  BY FS_EmptySet, ChoiceAssumption
<1>2. pass \in 1..Len(CurrentPasses)
  BY PassesAre DEF Init, CurrentPasses
<1>3. PassInv
  BY <1>2 DEF Init, PassInv, Picked
<1>4. OneEach
  BY <1>1 DEF Init, OneEach, Picked
<1>5. AllLookedAt /\ RelaxedOnlyIf
  BY DEF Init, AllLookedAt, RelaxedOnlyIf
<1> QED
  BY <1>3, <1>4, <1>5 DEF ChoiceInv

(* Whoever is asked to join was neither banned nor ignored, has not failed *)
(* this taker before, and is one of N different makers; one on cooldown is *)
(* asked only if the others could not make up the number.                  *)
THEOREM ChoiceKeepsExclusions == Spec => []ExcludedNotChosen
<1>1. Init => ChoiceInv
  BY ChoiceStarts
<1>2. ChoiceInv /\ [Next]_vars => ChoiceInv'
  BY NextChoice
<1>3. ChoiceInv => ExcludedNotChosen
  BY ChosenAreAllowed
<1> QED
  BY <1>1, <1>2, <1>3, PTL DEF Spec

(***************************************************************************)
(* Sums over finite sets                                                   *)
(***************************************************************************)

(* Any set of numbers has a least one.                                     *)
LEMMA LeastNat ==
  ASSUME NEW T \in SUBSET Nat, T # {}
  PROVE  \E n \in T : \A m \in T : n <= m
<1> DEFINE R == OpToRel(<, Nat)
<1>1. IsWellFoundedOn(R, Nat)
  BY NatLessThanWellFounded
<1>2. \A x, y \in Nat : y < x => <<y, x>> \in R
  BY DEF OpToRel
<1> HIDE DEF R
<1>3. PICK x \in T : \A y \in T : ~ (<<y, x>> \in R)
  BY <1>1, WFMin
<1>4. \A y \in T : ~(y < x)
  BY <1>2, <1>3
<1> QED
  BY <1>3, <1>4

(* Of finite sets with a property, one has the fewest elements.            *)
LEMMA SmallestSet ==
  ASSUME NEW F, F # {}, \A S \in F : IsFiniteSet(S)
  PROVE  \E S \in F : \A U \in F : Cardinality(S) <= Cardinality(U)
<1> DEFINE T == {Cardinality(S) : S \in F}
<1>1. T \in SUBSET Nat /\ T # {}
  BY FS_CardinalityType
<1>2. PICK n \in T : \A m \in T : n <= m
  BY <1>1, LeastNat
<1> QED
  BY <1>2

LEMMA OneLess ==
  ASSUME NEW S, IsFiniteSet(S), NEW x \in S
  PROVE  /\ IsFiniteSet(S \ {x})
         /\ Cardinality(S) \in Nat /\ Cardinality(S \ {x}) = Cardinality(S) - 1
         /\ Cardinality(S \ {x}) \in Nat /\ Cardinality(S \ {x}) < Cardinality(S)
<1>1. IsFiniteSet(S \ {x}) /\ Cardinality(S \ {x}) = Cardinality(S) - 1
  BY FS_RemoveElement
<1>2. Cardinality(S) \in Nat /\ Cardinality(S \ {x}) \in Nat
  BY <1>1, FS_CardinalityType
<1> QED
  BY <1>1, <1>2

(* Of sets with a property, one has it but no set with an element less.    *)
LEMMA MinimalSet ==
  ASSUME NEW S, IsFiniteSet(S), NEW F \in SUBSET SUBSET S, F # {}
  PROVE  \E s \in F : \A x \in s : s \ {x} \notin F
<1>1. \A s \in F : IsFiniteSet(s)
  BY FS_Subset
<1>2. PICK s \in F : \A r \in F : Cardinality(s) <= Cardinality(r)
  BY <1>1, SmallestSet
<1>3. ASSUME NEW x \in s, s \ {x} \in F PROVE FALSE
  <2>1. Cardinality(s) <= Cardinality(s \ {x})
    BY <1>2, <1>3
  <2>2. /\ Cardinality(s) \in Nat /\ Cardinality(s \ {x}) \in Nat
        /\ Cardinality(s \ {x}) < Cardinality(s)
    BY <1>1, OneLess
  <2> QED
    BY <2>1, <2>2
<1> QED
  BY <1>3


(* A fold over the subsets of a finite set, which takes out one element at *)
(* a time, has a solution, built up by their cardinality.                  *)
FoldsOver(f, S, base, H, pick) ==
  \A s \in S : f[s] = IF s = {} THEN base ELSE H[s][f[s \ {pick[s]}]]

LEMMA FoldExists ==
  ASSUME NEW S, IsFiniteSet(S), NEW R, NEW base \in R,
         NEW H, \A s \in SUBSET S : \A y \in R : H[s][y] \in R,
         NEW pick, \A s \in SUBSET S : s # {} => pick[s] \in s
  PROVE  \E f \in [SUBSET S -> R] : FoldsOver(f, SUBSET S, base, H, pick)
<1> DEFINE D(n) == {s \in SUBSET S : Cardinality(s) <= n}
           T == {n \in Nat : ~ \E f \in [D(n) -> R] : FoldsOver(f, D(n), base, H, pick)}
<1>1. \A s \in SUBSET S : IsFiniteSet(s) /\ Cardinality(s) \in Nat
  BY FS_Subset, FS_CardinalityType
<1>2. T = {}
  <2> SUFFICES ASSUME T # {} PROVE FALSE
    OBVIOUS
  <2>1. PICK n \in T : \A m \in T : n <= m
    BY LeastNat
  <2>2. CASE n = 0
    <3>1. \A s \in D(0) : s = {}
      BY <1>1, FS_EmptySet
    <3>2. PICK f : f = [s \in D(0) |-> base]
      OBVIOUS
    <3>3. f \in [D(0) -> R] /\ FoldsOver(f, D(0), base, H, pick)
      BY <3>1, <3>2 DEF FoldsOver
    <3> QED
      BY <2>1, <2>2, <3>3
  <2>3. CASE n # 0
    <3>1. n - 1 \in Nat /\ n - 1 \notin T /\ n \in Nat
      <4>1. T \in SUBSET Nat
        OBVIOUS
      <4> HIDE DEF T
      <4> QED
        BY <2>1, <2>3, <4>1
    <3>2. PICK f \in [D(n - 1) -> R] : FoldsOver(f, D(n - 1), base, H, pick)
      BY <3>1
    <3>3. PICK g : g = [s \in D(n) |-> IF s = {} THEN base ELSE H[s][f[s \ {pick[s]}]]]
      OBVIOUS
    <3>4. ASSUME NEW s \in D(n), s # {} PROVE s \ {pick[s]} \in D(n - 1)
      BY <1>1, <3>1, <3>4, OneLess
    <3>5. g \in [D(n) -> R]
      <4>1. ASSUME NEW s \in D(n), s # {} PROVE H[s][f[s \ {pick[s]}]] \in R
        <5>1. f[s \ {pick[s]}] \in R
          <6> HIDE DEF D
          <6> QED
            BY <3>2, <3>4, <4>1
        <5> QED
          BY <5>1
      <4> HIDE DEF D
      <4> QED
        BY <3>3, <4>1
    <3>6. \A s \in D(n - 1) : s \in D(n) /\ g[s] = f[s]
      <4>1. \A s \in D(n - 1) : s \in D(n)
        BY <1>1, <3>1
      <4>2. \A s \in D(n - 1) : f[s] = IF s = {} THEN base ELSE H[s][f[s \ {pick[s]}]]
        BY <3>2 DEF FoldsOver
      <4> HIDE DEF D
      <4> QED
        BY <3>3, <4>1, <4>2
    <3>7. FoldsOver(g, D(n), base, H, pick)
      <4> HIDE DEF D
      <4>1. \A s \in D(n) : s # {} => g[s \ {pick[s]}] = f[s \ {pick[s]}]
        BY <3>4, <3>6
      <4> QED
        BY <3>3, <4>1 DEF FoldsOver
    <3> QED
      BY <2>1, <3>5, <3>7
  <2> QED
    BY <2>2, <2>3
<1>3. Cardinality(S) \in Nat
  BY FS_CardinalityType
<1>4. D(Cardinality(S)) = SUBSET S
  BY FS_Subset
<1>5. \E f \in [D(Cardinality(S)) -> R] : FoldsOver(f, D(Cardinality(S)), base, H, pick)
  <2> HIDE DEF D
  <2> QED
    BY <1>2, <1>3
<1>6. PICK f \in [D(Cardinality(S)) -> R] : FoldsOver(f, D(Cardinality(S)), base, H, pick)
  BY <1>5
<1>7. f \in [SUBSET S -> R] /\ FoldsOver(f, SUBSET S, base, H, pick)
  <2> HIDE DEF D
  <2> QED
    BY <1>4, <1>6
<1> QED
  BY <1>7

(* The sum of a function over a set, as MapThenSumSet computes it.         *)
One(s) == CHOOSE x \in s : TRUE

SumsOver(f, v, S) ==
  f = [s \in SUBSET S |-> IF s = {} THEN 0 ELSE v[One(s)] + f[s \ {One(s)}]]

LEMMA OneOf ==
  ASSUME NEW s, s # {}
  PROVE  One(s) \in s
BY DEF One

LEMMA SumsExist ==
  ASSUME NEW S, IsFiniteSet(S), NEW R, R = Nat \/ R = Int,
         NEW v, \A x \in S : v[x] \in R
  PROVE  \E f \in [SUBSET S -> R] : SumsOver(f, v, S)
<1> DEFINE H == [s \in SUBSET S |-> [y \in R |-> IF s = {} THEN 0 ELSE v[One(s)] + y]]
           pick == [s \in SUBSET S |-> One(s)]
<1>1. ASSUME NEW s \in SUBSET S, s # {}
      PROVE  pick[s] \in s /\ v[One(s)] \in R
  <2>1. One(s) \in s
    BY <1>1, OneOf
  <2> QED
    BY <2>1
<1>2. \A s \in SUBSET S : \A y \in R : s # {} => H[s][y] = v[One(s)] + y
  OBVIOUS
<1>3. \E f \in [SUBSET S -> R] : FoldsOver(f, SUBSET S, 0, H, pick)
  <2>1. \A s \in SUBSET S : \A y \in R : H[s][y] \in R
    <3> SUFFICES ASSUME NEW s \in SUBSET S, NEW y \in R
                 PROVE  (IF s = {} THEN 0 ELSE v[One(s)] + y) \in R
      OBVIOUS
    <3>1. CASE s = {}
      BY <3>1
    <3>2. CASE s # {}
      <4>1. v[One(s)] \in R
        BY <1>1, <3>2
      <4> QED
        BY <3>2, <4>1
    <3> QED
      BY <3>1, <3>2
  <2>2. \A s \in SUBSET S : s # {} => pick[s] \in s
    <3> HIDE DEF pick
    <3> QED
      BY <1>1
  <2>3. 0 \in R
    OBVIOUS
  <2> HIDE DEF H, pick
  <2> QED
    BY <2>1, <2>2, <2>3, FoldExists, Zenon
<1>4. PICK f \in [SUBSET S -> R] : FoldsOver(f, SUBSET S, 0, H, pick)
  BY <1>3
<1>5. \A s \in SUBSET S : f[s] = IF s = {} THEN 0 ELSE v[One(s)] + f[s \ {One(s)}]
  <2> SUFFICES ASSUME NEW s \in SUBSET S, s # {}
               PROVE  f[s] = v[One(s)] + f[s \ {One(s)}]
    BY <1>4 DEF FoldsOver
  <2>1. f[s] = H[s][f[s \ {One(s)}]]
    BY <1>4 DEF FoldsOver
  <2>2. f[s \ {One(s)}] \in R
    OBVIOUS
  <2> QED
    BY <1>2, <2>1, <2>2
<1>6. f = [s \in SUBSET S |-> IF s = {} THEN 0 ELSE v[One(s)] + f[s \ {One(s)}]]
  BY <1>5
<1> QED
  BY <1>6 DEF SumsOver

LEMMA SumsAgree ==
  ASSUME NEW S, IsFiniteSet(S), NEW U \in SUBSET S, NEW f, NEW g, NEW v, NEW w,
         \A x \in U : v[x] = w[x],
         SumsOver(f, v, S), SumsOver(g, w, U)
  PROVE  f[U] = g[U]
<1> DEFINE F == {s \in SUBSET U : f[s] # g[s]}
<1>1. F = {}
  <2> SUFFICES ASSUME F # {} PROVE FALSE
    OBVIOUS
  <2>1. \A s \in SUBSET U : IsFiniteSet(s) /\ s \in SUBSET S
    BY FS_Subset
  <2>2. PICK s \in F : \A x \in s : s \ {x} \notin F
    <3>1. F \in SUBSET SUBSET U /\ IsFiniteSet(U)
      BY <2>1
    <3> HIDE DEF F
    <3> QED
      BY <3>1, MinimalSet
  <2>3. f[s] = (IF s = {} THEN 0 ELSE v[One(s)] + f[s \ {One(s)}])
        /\ g[s] = (IF s = {} THEN 0 ELSE w[One(s)] + g[s \ {One(s)}])
    BY <2>1, <2>2 DEF SumsOver
  <2>4. s # {}
    BY <2>2, <2>3
  <2>5. s \ {One(s)} \in SUBSET U /\ s \ {One(s)} \notin F /\ v[One(s)] = w[One(s)]
    BY <2>2, <2>4, OneOf
  <2>6. f[s \ {One(s)}] = g[s \ {One(s)}]
    BY <2>2, <2>5
  <2> QED
    BY <2>2, <2>3, <2>5, <2>6
<1> QED
  BY <1>1

(* Worth is such a sum.                                                    *)
Summable(S) == IsFiniteSet(S) /\ \A u \in S : u.value \in Int
Values(S) == [u \in S |-> u.value]

LEMMA WorthIs ==
  ASSUME NEW S, Summable(S)
  PROVE  Worth(S) \in Int /\ \E f : SumsOver(f, Values(S), S) /\ Worth(S) = f[S]
<1> DEFINE Solves(f) == f = [s \in SUBSET S |-> IF s = {} THEN 0
                                               ELSE One(s).value + f[s \ {One(s)}]]
<1>1. PICK f \in [SUBSET S -> Int] : SumsOver(f, Values(S), S)
  <2>1. IsFiniteSet(S) /\ \A x \in S : Values(S)[x] \in Int
    BY DEF Summable, Values
  <2> QED
    BY <2>1, SumsExist
<1>2. \A g : SumsOver(g, Values(S), S) <=> Solves(g)
  <2> SUFFICES ASSUME NEW g
               PROVE  [s \in SUBSET S |-> IF s = {} THEN 0 ELSE Values(S)[One(s)] + g[s \ {One(s)}]]
                    = [s \in SUBSET S |-> IF s = {} THEN 0 ELSE One(s).value + g[s \ {One(s)}]]
    BY DEF SumsOver
  <2>1. ASSUME NEW s \in SUBSET S, s # {} PROVE Values(S)[One(s)] = One(s).value
    BY <2>1, OneOf DEF Values
  <2> QED
    BY <2>1
<1>3. Solves(CHOOSE g : Solves(g))
  <2>1. Solves(f)
    BY <1>1, <1>2
  <2> HIDE DEF Solves
  <2> QED
    BY <2>1
<1>4. Worth(S) = (CHOOSE g : Solves(g))[S]
  BY DEF Worth, MapThenSumSet, MapThenFoldSet, One
<1> DEFINE g == CHOOSE h : Solves(h)
<1>5. SumsOver(g, Values(S), S) /\ Worth(S) = g[S]
  BY <1>2, <1>3, <1>4
<1> HIDE DEF g
<1>6. f[S] = g[S]
  BY <1>1, <1>5, SumsAgree DEF Summable
<1>7. f[S] \in Int
  OBVIOUS
<1> QED
  BY <1>5, <1>6, <1>7

(* What Worth is defined to do.                                            *)
LEMMA WorthStep ==
  /\ Worth({}) = 0
  /\ \A S : Summable(S) /\ S # {} => Worth(S) = One(S).value + Worth(S \ {One(S)})
<1>1. Worth({}) = 0
  <2>1. Summable({})
    BY FS_EmptySet DEF Summable
  <2>2. PICK f : SumsOver(f, Values({}), {}) /\ Worth({}) = f[{}]
    BY <2>1, WorthIs
  <2> QED
    BY <2>2 DEF SumsOver
<1>2. ASSUME NEW S, Summable(S), S # {}
      PROVE  Worth(S) = One(S).value + Worth(S \ {One(S)})
  <2> DEFINE U == S \ {One(S)}
  <2>1. Summable(U) /\ One(S) \in S /\ U \in SUBSET S
    BY <1>2, FS_Subset, OneOf DEF Summable
  <2>2. PICK f : SumsOver(f, Values(S), S) /\ Worth(S) = f[S]
    BY <1>2, WorthIs
  <2>3. PICK g : SumsOver(g, Values(U), U) /\ Worth(U) = g[U]
    BY <2>1, WorthIs
  <2>4. f[S] = Values(S)[One(S)] + f[U]
    BY <1>2, <2>2 DEF SumsOver
  <2>5. f[U] = g[U]
    <3>1. \A x \in U : Values(S)[x] = Values(U)[x]
      BY <2>1 DEF Values
    <3> HIDE DEF U
    <3> QED
      BY <1>2, <2>1, <2>2, <2>3, <3>1, SumsAgree DEF Summable
  <2>6. Values(S)[One(S)] = One(S).value
    BY <2>1 DEF Values
  <2> QED
    BY <2>2, <2>3, <2>4, <2>5, <2>6
<1> QED
  BY <1>1, <1>2

LEMMA PartIsSummable == ASSUME NEW S, Summable(S), NEW T \in SUBSET S PROVE Summable(T)
BY FS_Subset DEF Summable

(* Any element may be counted first.                                       *)
LEMMA WorthRemove ==
  ASSUME NEW S, Summable(S), NEW x \in S
  PROVE  Worth(S) = x.value + Worth(S \ {x})
<1> DEFINE Fine(s) == \A y \in s : Worth(s) = y.value + Worth(s \ {y})
           F == {s \in SUBSET S : ~Fine(s)}
<1>1. F = {}
  <2> SUFFICES ASSUME F # {} PROVE FALSE
    OBVIOUS
  <2>1. \A s \in SUBSET S : IsFiniteSet(s) /\ Summable(s)
    BY PartIsSummable DEF Summable
  <2>2. PICK s \in F : \A w \in s : s \ {w} \notin F
    <3>1. F \in SUBSET SUBSET S /\ IsFiniteSet(S)
      BY DEF Summable
    <3> HIDE DEF F
    <3> QED
      BY <3>1, MinimalSet
  <2>3. PICK y \in s : Worth(s) # y.value + Worth(s \ {y})
    OBVIOUS
  <2>4. PICK z \in s : Worth(s) = z.value + Worth(s \ {z})
    BY <2>1, <2>3, WorthStep, OneOf
  <2>5. y # z
    BY <2>3, <2>4
  <2>6. \A u \in s : Fine(s \ {u})
    <3> SUFFICES ASSUME NEW u \in s PROVE s \ {u} \notin F
      OBVIOUS
    <3> HIDE DEF F
    <3> QED
      BY <2>2
  <2>7. Worth(s \ {z}) = y.value + Worth((s \ {z}) \ {y})
    BY <2>5, <2>6
  <2>8. Worth(s \ {y}) = z.value + Worth((s \ {y}) \ {z})
    BY <2>5, <2>6
  <2>9. (s \ {z}) \ {y} = (s \ {y}) \ {z}
    OBVIOUS
  <2>10. Worth((s \ {z}) \ {y}) \in Int /\ y.value \in Int /\ z.value \in Int
    <3>1. Summable((s \ {z}) \ {y})
      BY <2>1
    <3> QED
      BY <3>1, WorthIs DEF Summable
  <2>11. Worth(s \ {y}) = z.value + Worth((s \ {z}) \ {y})
    BY <2>8, <2>9
  <2>12. Worth(s) = y.value + Worth(s \ {y})
    <3> DEFINE r == Worth((s \ {z}) \ {y})
    <3>1. Worth(s) = z.value + (y.value + r)
      BY <2>4, <2>7
    <3>2. Worth(s \ {y}) = z.value + r
      BY <2>11
    <3>3. r \in Int /\ y.value \in Int /\ z.value \in Int
      BY <2>10
    <3> HIDE DEF r
    <3>4. z.value + (y.value + r) = y.value + (z.value + r)
      BY <3>3
    <3> QED
      BY <3>1, <3>2, <3>4
  <2> QED
    BY <2>3, <2>12
<1>2. Fine(S)
  BY <1>1
<1> QED
  BY <1>2

LEMMA WorthOne ==
  ASSUME NEW x, x.value \in Int
  PROVE  Summable({x}) /\ Worth({x}) = x.value /\ Worth({}) = 0
<1>1. Summable({x})
  BY FS_Singleton DEF Summable
<1>2. Worth({x}) = x.value + Worth({x} \ {x})
  BY <1>1, WorthRemove
<1>3. {x} \ {x} = {}
  OBVIOUS
<1>4. Worth({x} \ {x}) = 0 /\ Worth({}) = 0
  BY <1>3, WorthStep
<1> QED
  BY <1>1, <1>2, <1>4

(***************************************************************************)
(* The coins in the order of their values                                  *)
(***************************************************************************)

LEMMA Largest ==
  ASSUME NEW S, Summable(S), S # {}
  PROVE  \E x \in S : \A y \in S : y.value <= x.value
<1> DEFINE F == {s \in SUBSET S : s # {} /\ ~ \E x \in s : \A y \in s : y.value <= x.value}
<1>1. F = {}
  <2> SUFFICES ASSUME F # {} PROVE FALSE
    OBVIOUS
  <2>1. PICK s \in F : \A x \in s : s \ {x} \notin F
    <3>1. F \in SUBSET SUBSET S /\ IsFiniteSet(S)
      BY DEF Summable
    <3> HIDE DEF F
    <3> QED
      BY <3>1, MinimalSet
  <2>2. s \in SUBSET S /\ s # {} /\ ~ \E x \in s : \A y \in s : y.value <= x.value
    BY <2>1
  <2>3. \A x \in s : x.value \in Int
    BY <2>2 DEF Summable
  <2>4. PICK x : x \in s
    BY <2>2
  <2>5. CASE s \ {x} = {}
    BY <2>2, <2>3, <2>4, <2>5
  <2>6. CASE s \ {x} # {}
    <3>1. PICK z \in s \ {x} : \A y \in s \ {x} : y.value <= z.value
      BY <2>1, <2>2, <2>4, <2>6
    <3>2. CASE x.value <= z.value
      BY <2>2, <3>1, <3>2
    <3>3. CASE ~(x.value <= z.value)
      <4>1. \A y \in s : y.value <= x.value
        BY <2>3, <2>4, <3>1, <3>3
      <4> QED
        BY <2>2, <2>4, <4>1
    <3> QED
      BY <3>2, <3>3
  <2> QED
    BY <2>5, <2>6
<1> QED
  BY <1>1

Sorted(q) == \A i, j \in DOMAIN q : i < j => q[i].value <= q[j].value

LEMMA SortedExists ==
  ASSUME NEW S, Summable(S)
  PROVE  \E q \in SetToSeqs(S) : Sorted(q)
<1> DEFINE F == {s \in SUBSET S : ~ \E q \in SetToSeqs(s) : Sorted(q)}
<1>1. F = {}
  <2> SUFFICES ASSUME F # {} PROVE FALSE
    OBVIOUS
  <2>1. PICK s \in F : \A x \in s : s \ {x} \notin F
    <3>1. F \in SUBSET SUBSET S /\ IsFiniteSet(S)
      BY DEF Summable
    <3> HIDE DEF F
    <3> QED
      BY <3>1, MinimalSet
  <2>2. s \in SUBSET S /\ ~ \E q \in SetToSeqs(s) : Sorted(q)
    BY <2>1
  <2>3. Summable(s) /\ IsFiniteSet(s) /\ \A x \in s : x.value \in Int
    BY <2>2, PartIsSummable DEF Summable
  <2>4. CASE s = {}
    <3> DEFINE q == [i \in 1..0 |-> 0]
    <3>1. Cardinality(s) = 0
      BY <2>4, FS_EmptySet
    <3>2. q \in [1..Cardinality(s) -> s] /\ DOMAIN q = {} /\ 1..Cardinality(s) = {}
      BY <3>1
    <3> HIDE DEF q
    <3>3. q \in SetToSeqs(s) /\ Sorted(q)
      BY <3>2 DEF SetToSeqs, Sorted
    <3> QED
      BY <2>2, <3>3
  <2>5. CASE s # {}
    <3> DEFINE n == Cardinality(s)
    <3>1. PICK x \in s : \A y \in s : y.value <= x.value
      BY <2>3, <2>5, Largest
    <3>2. n \in Nat /\ Cardinality(s \ {x}) = n - 1 /\ n - 1 \in Nat
      BY <2>3, OneLess
    <3> HIDE DEF n
    <3>3. PICK q \in SetToSeqs(s \ {x}) : Sorted(q)
      BY <2>1, <2>2
    <3>4. /\ q \in [1..(n - 1) -> s \ {x}]
          /\ \A i, j \in 1..(n - 1) : i # j => q[i] # q[j]
          /\ \A i, j \in 1..(n - 1) : i < j => q[i].value <= q[j].value
      BY <3>2, <3>3 DEF SetToSeqs, Sorted
    <3> DEFINE r == [i \in 1..n |-> IF i = n THEN x ELSE q[i]]
    <3>5. /\ \A i \in 1..n : i # n => i \in 1..(n - 1) /\ r[i] = q[i] /\ r[i] \in s \ {x}
          /\ n \in 1..n => r[n] = x
      BY <3>2, <3>4
    <3>6. r \in [1..n -> s] /\ DOMAIN r = 1..n
      BY <3>5
    <3> HIDE DEF r
    <3>7. ASSUME NEW i \in 1..n, NEW j \in 1..n, i # j PROVE r[i] # r[j]
      <4>1. CASE i # n /\ j # n
        BY <3>4, <3>5, <3>7, <4>1
      <4>2. CASE i = n \/ j = n
        BY <3>5, <3>7, <4>2
      <4> QED
        BY <4>1, <4>2
    <3>8. ASSUME NEW i \in 1..n, NEW j \in 1..n, i < j PROVE r[i].value <= r[j].value
      <4>1. i # n
        BY <3>2, <3>8
      <4>2. CASE j # n
        BY <3>4, <3>5, <3>8, <4>1, <4>2
      <4>3. CASE j = n
        <5>1. r[i] \in s /\ r[j] = x
          BY <3>5, <4>1, <4>3
        <5> QED
          BY <3>1, <5>1
      <4> QED
        BY <4>2, <4>3
    <3>9. r \in SetToSeqs(s) /\ Sorted(r)
      BY <3>6, <3>7, <3>8 DEF SetToSeqs, Sorted, n
    <3> QED
      BY <2>2, <3>9
  <2> QED
    BY <2>4, <2>5
<1> QED
  BY <1>1

LEMMA AscendingIs ==
  ASSUME NEW S, Summable(S)
  PROVE  LET q == Ascending(S)
             n == Cardinality(S)
         IN /\ n \in Nat /\ q \in [1..n -> S]
            /\ \A i, j \in 1..n : i # j => q[i] # q[j]
            /\ S = {q[i] : i \in 1..n}
            /\ \A i, j \in 1..n : i < j => q[i].value <= q[j].value
<1> DEFINE q == Ascending(S)
           n == Cardinality(S)
<1>1. q \in SetToSeqs(S) /\ Sorted(q)
  <2>1. \E r \in SetToSeqs(S) : Sorted(r)
    BY SortedExists
  <2>2. q = CHOOSE r \in SetToSeqs(S) : Sorted(r)
    BY DEF Ascending, Sorted
  <2> QED
    BY <2>1, <2>2
<1>2. IsFiniteSet(S) /\ n \in Nat
  BY FS_CardinalityType DEF Summable
<1> HIDE DEF q
<1>3. q \in [1..n -> S] /\ \A i, j \in 1..n : i # j => q[i] # q[j]
  BY <1>1 DEF SetToSeqs
<1>4. q \in Injection(1..n, S)
  BY <1>3 DEF Injection, IsInjective
<1>5. IsFiniteSet(1..n) /\ Cardinality(1..n) = n
  BY <1>2, FS_Interval
<1>6. q \in Surjection(1..n, S)
  BY <1>2, <1>4, <1>5, FS_Injection
<1>7. S = {q[i] : i \in 1..n}
  BY <1>3, <1>6 DEF Surjection
<1>8. \A i, j \in 1..n : i < j => q[i].value <= q[j].value
  BY <1>1, <1>3 DEF Sorted
<1> QED
  BY <1>2, <1>3, <1>7, <1>8 DEF q

(* All the elements of S, each once.                                       *)
Lists(q, n, S) ==
  /\ n \in Nat /\ Summable(S) /\ q \in [1..n -> S]
  /\ \A i, j \in 1..n : i # j => q[i] # q[j]
  /\ S = {q[i] : i \in 1..n}

(* A slice is worth its first or last coin and the rest.                   *)
LEMMA SliceSums ==
  ASSUME NEW q, NEW n, NEW S, Lists(q, n, S)
  PROVE  /\ Slice(q, 1, n) = S
         /\ Slice(q, 1, 0) = {} /\ Worth(Slice(q, 1, 0)) = 0
         /\ \A i \in 1..n : q[i].value \in Int
         /\ \A i \in 1..(n + 1) : \A k \in 0..n :
              Slice(q, i, k) \in SUBSET S /\ Summable(Slice(q, i, k)) /\ Worth(Slice(q, i, k)) \in Int
         /\ \A i \in 1..n : \A k \in i..n :
              /\ Worth(Slice(q, i, k)) = q[k].value + Worth(Slice(q, i, k - 1))
              /\ Worth(Slice(q, i, k)) = q[i].value + Worth(Slice(q, i + 1, k))
<1>0. n \in Nat /\ Summable(S) /\ q \in [1..n -> S]
  BY DEF Lists
<1>1. Slice(q, 1, n) = S
  BY DEF Slice, Lists
<1>2. Slice(q, 1, 0) = {} /\ Worth(Slice(q, 1, 0)) = 0
  <2>1. Slice(q, 1, 0) = {}
    BY DEF Slice
  <2> QED
    BY <2>1, WorthStep
<1>3. \A i \in 1..n : q[i].value \in Int
  BY <1>0 DEF Summable
<1>4. ASSUME NEW i \in 1..(n + 1), NEW k \in 0..n
      PROVE  Slice(q, i, k) \in SUBSET S /\ Summable(Slice(q, i, k)) /\ Worth(Slice(q, i, k)) \in Int
  <2>1. \A j \in i..k : j \in 1..n
    BY <1>0
  <2>2. Slice(q, i, k) \in SUBSET S
    BY <1>0, <2>1 DEF Slice
  <2> QED
    BY <1>0, <2>2, PartIsSummable, WorthIs
<1>5. ASSUME NEW i \in 1..n, NEW k \in i..n
      PROVE  /\ Worth(Slice(q, i, k)) = q[k].value + Worth(Slice(q, i, k - 1))
             /\ Worth(Slice(q, i, k)) = q[i].value + Worth(Slice(q, i + 1, k))
  <2>0. i \in Int /\ k \in Int /\ i \in i..k /\ k \in i..k
    BY <1>0
  <2>1. \A j \in i..k : j \in 1..n
    BY <1>0
  <2>2. \A a, c \in i..k : a # c => q[a] # q[c]
    BY <2>1 DEF Lists
  <2>3. Slice(q, i, k) \ {q[k]} = Slice(q, i, k - 1)
    <3>1. i..(k - 1) = (i..k) \ {k}
      BY <2>0
    <3> QED
      BY <2>0, <2>2, <3>1 DEF Slice
  <2>4. Slice(q, i, k) \ {q[i]} = Slice(q, i + 1, k)
    <3>1. (i + 1)..k = (i..k) \ {i}
      BY <2>0
    <3> QED
      BY <2>0, <2>2, <3>1 DEF Slice
  <2>5. q[k] \in Slice(q, i, k) /\ q[i] \in Slice(q, i, k)
    BY <2>0 DEF Slice
  <2>6. Summable(Slice(q, i, k))
    <3>1. i \in 1..(n + 1) /\ k \in 0..n
      BY <1>0
    <3> QED
      BY <1>4, <3>1
  <2> QED
    BY <2>3, <2>4, <2>5, <2>6, WorthRemove
<1> QED
  BY <1>1, <1>2, <1>3, <1>4, <1>5

(* A running sum that comes to the amount reaches it somewhere.            *)
LEMMA ReachingIs ==
  ASSUME NEW q, NEW n, NEW S, Lists(q, n, S),
         NEW amount \in Int, amount > 0, Worth(S) >= amount
  PROVE  /\ Reaching(q, amount) \in 1..n
         /\ Worth(Slice(q, 1, Reaching(q, amount))) >= amount
         /\ Worth(Slice(q, 1, Reaching(q, amount) - 1)) < amount
<1> DEFINE T == {k \in 0..n : Worth(Slice(q, 1, k)) >= amount}
           Right(k) == /\ Worth(Slice(q, 1, k)) >= amount
                       /\ Worth(Slice(q, 1, k - 1)) < amount
<1>0. n \in Nat /\ DOMAIN q = 1..n
  BY DEF Lists
<1>1. n \in T /\ T \in SUBSET Nat
  BY <1>0, SliceSums
<1>2. PICK k \in T : \A j \in T : k <= j
  <2> HIDE DEF T
  <2> QED
    BY <1>1, LeastNat
<1>3. k # 0
  BY <1>2, SliceSums
<1>4. k \in 1..n /\ k - 1 \in 0..n /\ k - 1 \notin T
  <2>1. k \in 0..n
    BY <1>2
  <2>2. k \in 1..n /\ k - 1 \in 0..n /\ ~(k <= k - 1)
    BY <1>0, <1>3, <2>1
  <2> HIDE DEF T
  <2> QED
    BY <1>2, <2>2
<1>5. Worth(Slice(q, 1, k - 1)) \in Int
  <2>1. 1 \in 1..(n + 1)
    BY <1>0
  <2> QED
    BY <1>4, <2>1, SliceSums
<1>6. Right(k)
  BY <1>2, <1>4, <1>5
<1>7. Reaching(q, amount) = CHOOSE j \in 1..n : Right(j)
  BY <1>0 DEF Reaching
<1> HIDE DEF Right
<1>8. Reaching(q, amount) \in 1..n /\ Right(Reaching(q, amount))
  BY <1>4, <1>6, <1>7
<1> QED
  BY <1>8 DEF Right

(***************************************************************************)
(* What the algorithms select                                              *)
(***************************************************************************)

Countable(S) == IsFiniteSet(S) /\ \A c \in S : c.value \in Nat

LEMMA CountableIs ==
  ASSUME NEW S, Countable(S)
  PROVE  /\ Summable(S) /\ \A T \in SUBSET S : Countable(T)
         /\ Worth(S) \in Nat
<1>1. \A T \in SUBSET S : Countable(T) /\ Summable(T)
  BY FS_Subset DEF Countable, Summable
<1> DEFINE F == {s \in SUBSET S : Worth(s) \notin Nat}
<1>2. F = {}
  <2> SUFFICES ASSUME F # {} PROVE FALSE
    OBVIOUS
  <2>1. PICK s \in F : \A x \in s : s \ {x} \notin F
    <3>1. F \in SUBSET SUBSET S /\ IsFiniteSet(S)
      BY DEF Countable
    <3> HIDE DEF F
    <3> QED
      BY <3>1, MinimalSet
  <2>2. s # {}
    <3>1. Worth({}) = 0 /\ Worth(s) \notin Nat
      BY <2>1, WorthStep
    <3> QED
      BY <3>1
  <2>3. PICK x : x \in s
    BY <2>2
  <2>4. Worth(s) = x.value + Worth(s \ {x})
    BY <1>1, <2>3, WorthRemove
  <2>5. x.value \in Nat /\ Worth(s \ {x}) \in Nat
    BY <2>1, <2>3 DEF Countable
  <2> QED
    BY <2>1, <2>4, <2>5
<1> QED
  BY <1>1, <1>2

(* The smaller and the larger coins.                                       *)
LEMMA HighAndLow ==
  ASSUME NEW S, Countable(S), NEW amount \in Int
  PROVE  /\ Countable(Low(S, amount)) /\ Countable(High(S, amount))
         /\ Low(S, amount) \in SUBSET S /\ High(S, amount) \in SUBSET S
         /\ High(S, amount) = {} => Low(S, amount) = S
         /\ Worth(S) < amount => High(S, amount) = {}
<1>1. Low(S, amount) \in SUBSET S /\ High(S, amount) \in SUBSET S
  BY DEF Low, High
<1>2. High(S, amount) = {} => Low(S, amount) = S
  BY DEF Low, High, Countable
<1>3. ASSUME Worth(S) < amount, NEW x \in High(S, amount) PROVE FALSE
  <2>1. x \in S /\ x.value \in Nat /\ x.value >= amount
    BY DEF High, Countable
  <2>2. Worth(S) = x.value + Worth(S \ {x})
    BY <2>1, CountableIs, WorthRemove
  <2>3. Worth(S \ {x}) \in Nat
    <3>1. Countable(S \ {x})
      BY CountableIs
    <3> QED
      BY <3>1, CountableIs
  <2> QED
    BY <1>3, <2>1, <2>2, <2>3
<1> QED
  BY <1>1, <1>2, <1>3, CountableIs

(* A single coin that is large enough.                                     *)
LEMMA SmallestFits ==
  ASSUME NEW S, Countable(S), NEW amount \in Int, amount > 0, High(S, amount) # {},
         NEW merge_algorithm
  PROVE  /\ Smallest(High(S, amount)) \in SUBSET S
         /\ Suffices(merge_algorithm, Smallest(High(S, amount)), amount)
<1> DEFINE H == High(S, amount)
           x == Ascending(H)[1]
<1>1. Countable(H) /\ H \in SUBSET S
  BY HighAndLow
<1>2. x \in H
  <2>1. Summable(H) /\ H # {}
    BY <1>1, CountableIs
  <2> HIDE DEF H
  <2>2. Cardinality(H) \in Nat /\ Ascending(H) \in [1..Cardinality(H) -> H]
        /\ H = {Ascending(H)[i] : i \in 1..Cardinality(H)}
    BY <2>1, AscendingIs
  <2>3. 1 \in 1..Cardinality(H)
    BY <2>1, <2>2
  <2> QED
    BY <2>2, <2>3
<1>3. x \in S /\ x.value \in Nat /\ x.value >= amount
  BY <1>2 DEF High, Countable
<1>4. Smallest(H) = {x}
  BY DEF Smallest
<1> HIDE DEF H, x
<1>5. Worth({x}) = x.value /\ Worth({x} \ {x}) = 0
  <2>1. {x} \ {x} = {} /\ x.value \in Int
    BY <1>3
  <2> QED
    BY <2>1, WorthOne
<1>6. Suffices(merge_algorithm, {x}, amount)
  BY <1>3, <1>5 DEF Suffices
<1> QED
  BY <1>3, <1>4, <1>6 DEF H

(* Enough, and the least coin cannot be spared.                            *)
LEMMA LeastIsNeeded ==
  ASSUME NEW T, Summable(T), NEW amount \in Int, Worth(T) >= amount,
         NEW m \in Int, \A c \in T : m <= c.value, Worth(T) < amount + m,
         NEW merge_algorithm
  PROVE  Suffices(merge_algorithm, T, amount)
<1>1. ASSUME NEW c \in T PROVE Worth(T \ {c}) < amount
  <2>1. Worth(T) = c.value + Worth(T \ {c}) /\ c.value \in Int
    BY WorthRemove DEF Summable
  <2>2. Worth(T \ {c}) \in Int
    <3>1. Summable(T \ {c})
      BY PartIsSummable
    <3> QED
      BY <3>1, WorthIs
  <2> QED
    BY <2>1, <2>2
<1> QED
  BY <1>1 DEF Suffices

(* The smaller coins in order.                                             *)
LEMMA AscendingLists ==
  ASSUME NEW S, Countable(S)
  PROVE  LET q == Ascending(S)
             n == Cardinality(S)
         IN /\ Lists(q, n, S) /\ n \in Nat
            /\ \A i, j \in 1..n : i <= j => q[i].value <= q[j].value
<1> DEFINE q == Ascending(S)
           n == Cardinality(S)
<1>1. Summable(S)
  BY CountableIs
<1> HIDE DEF q, n
<1>2. /\ n \in Nat /\ q \in [1..n -> S]
      /\ \A i, j \in 1..n : i # j => q[i] # q[j]
      /\ S = {q[i] : i \in 1..n}
      /\ \A i, j \in 1..n : i < j => q[i].value <= q[j].value
  BY <1>1, AscendingIs DEF q, n
<1>3. \A i \in 1..n : q[i].value \in Int
  BY <1>1, <1>2 DEF Summable
<1>4. \A i, j \in 1..n : i <= j => q[i].value <= q[j].value
  <2> SUFFICES ASSUME NEW i \in 1..n, NEW j \in 1..n, i <= j PROVE q[i].value <= q[j].value
    OBVIOUS
  <2>1. CASE i < j
    BY <1>2, <2>1
  <2>2. CASE i = j
    BY <1>3, <2>2
  <2> QED
    BY <1>2, <2>1, <2>2
<1>5. Lists(q, n, S)
  BY <1>1, <1>2 DEF Lists
<1> QED
  BY <1>2, <1>4, <1>5 DEF q, n

LEMMA SmallOnesAre ==
  ASSUME NEW S, Countable(S), NEW amount \in Int, amount > 0, NEW merge_algorithm, NEW run,
         amount <= Worth(Low(S, amount)) =>
           run \in SUBSET S /\ Suffices(merge_algorithm, run, amount)
  PROVE  IsSelection(merge_algorithm, S, amount, SmallOnes(S, amount, run))
<1>1. Worth(S) \in Nat /\ Worth(Low(S, amount)) \in Nat
  BY HighAndLow, CountableIs
<1>0. /\ High(S, amount) = {} => Worth(Low(S, amount)) = Worth(S)
      /\ Worth(S) < amount => High(S, amount) = {}
  <2>1. /\ High(S, amount) = {} => Low(S, amount) = S
        /\ Worth(S) < amount => High(S, amount) = {}
    BY HighAndLow
  <2> QED
    BY <2>1
<1>2. CASE amount <= Worth(Low(S, amount))
  <2>1. ~(Worth(S) < amount)
    BY <1>0, <1>1, <1>2
  <2>2. SmallOnes(S, amount, run) = run
    BY <1>2 DEF SmallOnes
  <2> QED
    BY <1>2, <2>1, <2>2 DEF IsSelection
<1>3. CASE ~(amount <= Worth(Low(S, amount))) /\ High(S, amount) = {}
  <2>1. Worth(S) < amount
    BY <1>0, <1>1, <1>3
  <2>2. SmallOnes(S, amount, run) = {}
    BY <1>3 DEF SmallOnes, NotEnough
  <2> QED
    BY <2>1, <2>2 DEF IsSelection, NotEnough
<1>4. CASE ~(amount <= Worth(Low(S, amount))) /\ High(S, amount) # {}
  <2>1. ~(Worth(S) < amount)
    BY <1>0, <1>4
  <2>2. SmallOnes(S, amount, run) = Smallest(High(S, amount))
    BY <1>4 DEF SmallOnes
  <2> QED
    BY <1>4, <2>1, <2>2, SmallestFits DEF IsSelection
<1> QED
  BY <1>2, <1>3, <1>4

LEMMA GreediestIs ==
  ASSUME NEW S, Countable(S), NEW amount \in Int, amount > 0
  PROVE  IsSelection("greediest", S, amount, select_greediest(S, amount))
<1> DEFINE L == Low(S, amount)
           q == Ascending(L)
           n == Cardinality(L)
           run == Slice(q, 1, Reaching(q, amount))
<1>1. Countable(L) /\ L \in SUBSET S
  BY HighAndLow
<1>2. Lists(q, n, L) /\ n \in Nat
  BY <1>1, AscendingLists
<1>3. Worth(L) \in Int
  BY <1>1, CountableIs
<1>4. ASSUME amount <= Worth(L) PROVE run \in SUBSET S /\ Suffices("greediest", run, amount)
  <2> HIDE DEF L, q, n
  <2>1. Reaching(q, amount) \in 1..n /\ Worth(run) >= amount
    BY <1>2, <1>3, <1>4, ReachingIs
  <2>2. run \in SUBSET L
    <3>1. 1 \in 1..(n + 1) /\ Reaching(q, amount) \in 0..n
      BY <1>2, <2>1
    <3> QED
      BY <1>2, <3>1, SliceSums
  <2> QED
    BY <1>1, <2>1, <2>2 DEF Suffices
<1>5. select_greediest(S, amount) = SmallOnes(S, amount, run)
  BY DEF select_greediest
<1> HIDE DEF L, q, n, run
<1> QED
  BY <1>4, <1>5, SmallOnesAre DEF L

LEMMA GradualIs ==
  ASSUME NEW S, Countable(S), NEW amount \in Int, amount > 0
  PROVE  IsSelection("gradual", S, amount, select_gradual(S, amount))
<1> DEFINE L == Low(S, amount)
           q == Ascending(L)
           n == Cardinality(L)
           end == Reaching(q, amount)
           total(k) == Worth(Slice(q, k, end))
           Right(i) == /\ total(i) < amount + q[i].value
                       /\ \A k \in 1..(i - 1) : total(k) >= amount + q[k].value
           start == CHOOSE i \in 1..end : Right(i)
           run == Slice(q, start, end)
<1>1. Countable(L) /\ L \in SUBSET S
  BY HighAndLow
<1>2. Lists(q, n, L) /\ n \in Nat /\ \A i, j \in 1..n : i <= j => q[i].value <= q[j].value
  BY <1>1, AscendingLists
<1>3. Worth(L) \in Int
  BY <1>1, CountableIs
<1>4. ASSUME amount <= Worth(L) PROVE run \in SUBSET S /\ Suffices("gradual", run, amount)
  <2> HIDE DEF L, q, n, Right
  <2>1. end \in 1..n /\ total(1) >= amount
    BY <1>2, <1>3, <1>4, ReachingIs
  <2> HIDE DEF end
  <2>2. \A i \in 1..end :
          /\ total(i) \in Int /\ total(i + 1) \in Int /\ q[i].value \in Int
          /\ total(i) = q[i].value + total(i + 1)
    <3> SUFFICES ASSUME NEW i \in 1..end
                 PROVE  /\ total(i) \in Int /\ total(i + 1) \in Int /\ q[i].value \in Int
                        /\ total(i) = q[i].value + total(i + 1)
      OBVIOUS
    <3>1. i \in 1..n /\ end \in i..n /\ end \in 0..n /\ i \in 1..(n + 1) /\ i + 1 \in 1..(n + 1)
      BY <1>2, <2>1
    <3> QED
      BY <1>2, <3>1, SliceSums
  <2>3. total(end + 1) = 0
    <3>1. Slice(q, end + 1, end) = {}
      BY <2>1, <1>2 DEF Slice
    <3> QED
      BY <3>1, WorthStep
  <2> DEFINE T == {i \in 1..end : total(i) < amount + q[i].value}
  <2>4. end \in T /\ T \in SUBSET Nat
    <3>1. end \in 1..end
      BY <1>2, <2>1
    <3> QED
      BY <2>2, <2>3, <3>1
  <2>5. PICK i \in T : \A j \in T : i <= j
    <3> HIDE DEF T
    <3> QED
      BY <2>4, LeastNat
  <2>6. i \in 1..end /\ Right(i)
    <3>1. i \in 1..end /\ total(i) < amount + q[i].value
      BY <2>5
    <3>2. ASSUME NEW k \in 1..(i - 1) PROVE total(k) >= amount + q[k].value
      <4>1. k \in 1..end /\ ~(i <= k)
        BY <1>2, <2>1, <3>1
      <4>2. k \notin T
        <5> HIDE DEF T
        <5> QED
          BY <2>5, <4>1
      <4> QED
        BY <2>2, <4>1, <4>2
    <3> QED
      BY <3>1, <3>2 DEF Right
  <2>7. start \in 1..end /\ Right(start)
    BY <2>6
  <2> HIDE DEF start
  <2>8. total(start) >= amount
    <3>1. CASE start = 1
      BY <2>1, <3>1
    <3>2. CASE start # 1
      <4>1. start - 1 \in 1..(start - 1) /\ start - 1 \in 1..end /\ (start - 1) + 1 = start
        BY <1>2, <2>1, <2>7, <3>2
      <4>2. total(start - 1) >= amount + q[start - 1].value
        BY <2>7, <4>1 DEF Right
      <4>3. /\ total(start - 1) \in Int /\ total(start) \in Int /\ q[start - 1].value \in Int
            /\ total(start - 1) = q[start - 1].value + total(start)
        BY <2>2, <4>1
      <4> HIDE DEF total
      <4> QED
        BY <4>2, <4>3
    <3> QED
      BY <3>1, <3>2
  <2>9. run \in SUBSET L /\ Summable(run)
    <3>1. start \in 1..(n + 1) /\ end \in 0..n
      BY <1>2, <2>1, <2>7
    <3> QED
      BY <1>2, <3>1, SliceSums
  <2>10. \A c \in run : q[start].value <= c.value
    <3>1. \A k \in start..end : k \in 1..n /\ start \in 1..n /\ start <= k
      BY <1>2, <2>1, <2>7
    <3> QED
      BY <1>2, <3>1 DEF Slice
  <2>11. Suffices("gradual", run, amount)
    <3>1. Worth(run) >= amount /\ Worth(run) < amount + q[start].value /\ q[start].value \in Int
      BY <2>2, <2>7, <2>8 DEF Right
    <3> HIDE DEF run
    <3> QED
      BY <2>9, <2>10, <3>1, LeastIsNeeded
  <2> QED
    BY <1>1, <2>9, <2>11
<1>5. select_gradual(S, amount) = SmallOnes(S, amount, run)
  BY DEF select_gradual
<1> HIDE DEF L, q, n, run
<1> QED
  BY <1>4, <1>5, SmallOnesAre DEF L

LEMMA DefaultIs ==
  ASSUME NEW S, Countable(S), NEW amount \in Int, amount > 0
  PROVE  IsSelection("default", S, amount, select(S, amount))
<1> DEFINE L == Low(S, amount)
           H == High(S, amount)
           q == Ascending(L)
           n == Cardinality(L)
           r == Reverse(q)
           k == Reaching(r, amount)
           run == Slice(r, 1, k)
<1>1. Countable(L) /\ L \in SUBSET S /\ (H = {} => L = S) /\ (Worth(S) < amount => H = {})
  BY HighAndLow
<1>2. Lists(q, n, L) /\ n \in Nat /\ \A i, j \in 1..n : i <= j => q[i].value <= q[j].value
  BY <1>1, AscendingLists
<1>3. Worth(S) \in Int
  BY CountableIs
<1>4. select(S, amount) = IF H # {} THEN Smallest(H)
                          ELSE IF Worth(S) < amount THEN {} ELSE run
  BY DEF select, NotEnough
<1>5. CASE H # {}
  BY <1>1, <1>4, <1>5, SmallestFits DEF IsSelection
<1>6. CASE Worth(S) < amount
  BY <1>1, <1>4, <1>6 DEF IsSelection, NotEnough
<1>7. CASE H = {} /\ ~(Worth(S) < amount)
  <2>1. L = S
    BY <1>1, <1>7
  <2> HIDE DEF H, L, q, n, r, k
  <2>2. /\ Lists(r, n, S)
        /\ \A i, j \in 1..n : i <= j => r[j].value <= r[i].value
    <3>1. q \in [1..n -> S] /\ Summable(S) /\ S = {q[i] : i \in 1..n}
          /\ \A i, j \in 1..n : i # j => q[i] # q[j]
      BY <1>2, <2>1 DEF Lists
    <3>2. Len(q) = n
      BY <1>2, <3>1
    <3>3. r \in [1..n -> S] /\ \A i \in 1..n : n - i + 1 \in 1..n /\ r[i] = q[n - i + 1]
      <4>1. r = [i \in 1..n |-> q[(n - i) + 1]]
        BY <3>2 DEF r, Reverse
      <4>2. \A i \in 1..n : (n - i) + 1 \in 1..n
        BY <1>2
      <4> QED
        BY <3>1, <4>1, <4>2
    <3>4. S = {r[i] : i \in 1..n}
      <4>1. ASSUME NEW i \in 1..n PROVE q[i] \in {r[j] : j \in 1..n}
        <5>1. n - i + 1 \in 1..n /\ n - (n - i + 1) + 1 = i
          BY <1>2
        <5>2. r[n - i + 1] = q[i]
          BY <3>3, <5>1
        <5> QED
          BY <5>1, <5>2
      <4> QED
        BY <3>1, <3>3, <4>1
    <3>5. \A i, j \in 1..n : i # j => r[i] # r[j]
      <4>1. \A i, j \in 1..n : i # j => n - i + 1 # n - j + 1
        BY <1>2
      <4> QED
        BY <3>1, <3>3, <4>1
    <3>6. ASSUME NEW i \in 1..n, NEW j \in 1..n, i <= j PROVE r[j].value <= r[i].value
      <4>1. n - j + 1 <= n - i + 1
        BY <1>2, <3>6
      <4> QED
        BY <1>2, <3>3, <4>1
    <3> QED
      BY <1>2, <3>1, <3>3, <3>4, <3>5, <3>6 DEF Lists
  <2>3. k \in 1..n /\ Worth(run) >= amount /\ Worth(Slice(r, 1, k - 1)) < amount
    BY <1>3, <1>7, <2>2, ReachingIs DEF k
  <2>4. /\ run \in SUBSET S /\ Summable(run) /\ Worth(run) \in Int
        /\ Worth(Slice(r, 1, k - 1)) \in Int /\ r[k].value \in Int
        /\ Worth(run) = r[k].value + Worth(Slice(r, 1, k - 1))
    <3>1. 1 \in 1..n /\ k \in 1..n /\ 1 \in 1..(n + 1) /\ k \in 0..n /\ k - 1 \in 0..n
      BY <1>2, <2>3
    <3> QED
      BY <2>2, <3>1, SliceSums
  <2>5. \A c \in run : r[k].value <= c.value
    <3>1. \A i \in 1..k : i \in 1..n /\ i <= k
      BY <1>2, <2>3
    <3> QED
      BY <2>2, <2>3, <3>1 DEF Slice
  <2> HIDE DEF run
  <2>6. Worth(run) < amount + r[k].value
    BY <2>3, <2>4
  <2>7. Suffices("default", run, amount)
    BY <2>3, <2>4, <2>5, <2>6, LeastIsNeeded
  <2> QED
    BY <1>4, <1>7, <2>4, <2>7 DEF IsSelection
<1> QED
  BY <1>5, <1>6, <1>7

(* The fold of select_greedy, for coins in order and those that the sum    *)
(* reaches the amount with.                                                *)
Dilute(c, acc) ==
  IF c.value <= acc.spare THEN [acc EXCEPT !.spare = @ - c.value]
                          ELSE [acc EXCEPT !.picked = @ \cup {c}]

Dilutes(f, p, start) ==
  f = [s \in SUBSET DOMAIN p |->
         IF s = {} THEN start ELSE Dilute(p[Min(s)], f[s \ {Min(s)}])]

LEMMA GreedyFolds ==
  ASSUME NEW S, NEW amount
  PROVE  LET utxos == Ascending(S)
             cursor == Reaching(utxos, amount)
             p == SubSeq(utxos, 1, cursor - 1)
             start == [picked |-> {utxos[cursor]},
                       spare |-> Worth(Slice(utxos, 1, cursor)) - amount]
         IN select_greedy(S, amount) =
              IF Worth(S) < amount THEN {}
              ELSE (CHOOSE f : Dilutes(f, p, start))[DOMAIN p].picked
BY DEF select_greedy, NotEnough, FoldRight, MapThenFoldSet, Dilutes, Dilute

LEMMA MinOf ==
  ASSUME NEW s \in SUBSET Nat, s # {}
  PROVE  Min(s) \in s /\ \A x \in s : Min(s) <= x
BY LeastNat DEF Min

(* Coins are kept only if the rest is worth too little without them.       *)
LEMMA DilutedIs ==
  ASSUME NEW S, Countable(S), NEW utxos, NEW n, Lists(utxos, n, S),
         NEW m \in 0..(n - 1), NEW p, DOMAIN p = 1..m, \A i \in 1..m : p[i] = utxos[i],
         NEW amount \in Int,
         Worth(Slice(utxos, 1, m + 1)) >= amount, Worth(Slice(utxos, 1, m)) < amount,
         NEW start,
         start = [picked |-> {utxos[m + 1]}, spare |-> Worth(Slice(utxos, 1, m + 1)) - amount],
         NEW f, Dilutes(f, p, start)
  PROVE  /\ f[1..m].picked \in SUBSET S /\ Worth(f[1..m].picked) >= amount
         /\ \A c \in f[1..m].picked : Worth(f[1..m].picked \ {c}) < amount
<1> DEFINE From(i) == f[i..m]
           Good(i) ==
             /\ From(i).picked \in SUBSET Slice(utxos, i, m + 1)
             /\ From(i).spare \in Nat
             /\ Worth(From(i).picked) + Worth(Slice(utxos, 1, i - 1)) = amount + From(i).spare
             /\ \A c \in From(i).picked : c.value > From(i).spare
<1>0. n \in Nat /\ m \in Nat /\ m + 1 \in 1..n /\ utxos \in [1..n -> S] /\ Summable(S)
  BY DEF Lists
<1>1. \A i \in 1..n : utxos[i] \in S /\ utxos[i].value \in Nat
  BY <1>0 DEF Countable
<1>2. \A i \in 0..n : Worth(Slice(utxos, 1, i)) \in Int
  <2>1. 1 \in 1..(n + 1)
    BY <1>0
  <2> QED
    BY <2>1, SliceSums
<1>3. \A i \in 1..n : Worth(Slice(utxos, 1, i)) = utxos[i].value + Worth(Slice(utxos, 1, i - 1))
  <2> SUFFICES ASSUME NEW i \in 1..n
               PROVE  Worth(Slice(utxos, 1, i)) = utxos[i].value + Worth(Slice(utxos, 1, i - 1))
    OBVIOUS
  <2>1. 1 \in 1..n /\ i \in 1..n
    BY <1>0
  <2> QED
    BY <2>1, SliceSums
<1>4. Good(m + 1)
  <2>1. (m + 1)..m = {}
    BY <1>0
  <2>2. From(m + 1) = start
    BY <2>1 DEF Dilutes
  <2>3. Worth(Slice(utxos, 1, m + 1)) = utxos[m + 1].value + Worth(Slice(utxos, 1, m))
    <3>1. (m + 1) - 1 = m
      BY <1>0
    <3> QED
      BY <1>0, <1>3, <3>1
  <2>4. Worth({utxos[m + 1]}) = utxos[m + 1].value
    <3>1. utxos[m + 1].value \in Int
      BY <1>0, <1>1
    <3> QED
      BY <3>1, WorthOne
  <2>5. utxos[m + 1] \in Slice(utxos, m + 1, m + 1)
    BY <1>0 DEF Slice
  <2>6. Worth(Slice(utxos, 1, m)) \in Int /\ utxos[m + 1].value \in Nat
    BY <1>0, <1>1, <1>2
  <2>7. (m + 1) - 1 = m
    BY <1>0
  <2>8. start.picked = {utxos[m + 1]} /\ start.spare = Worth(Slice(utxos, 1, m + 1)) - amount
    OBVIOUS
  <2>9. start.picked \in SUBSET Slice(utxos, m + 1, m + 1)
    BY <2>5, <2>8
  <2>10. start.spare \in Nat
    BY <2>3, <2>6, <2>8
  <2>11. Worth(start.picked) + Worth(Slice(utxos, 1, m)) = amount + start.spare
    BY <2>3, <2>4, <2>6, <2>8
  <2>12. \A c \in start.picked : c.value > start.spare
    BY <2>3, <2>6, <2>8
  <2> HIDE DEF From
  <2> QED
    BY <2>2, <2>7, <2>9, <2>10, <2>11, <2>12
<1>5. ASSUME NEW i \in 1..m, Good(i + 1) PROVE Good(i)
  <2> DEFINE x == utxos[i]
             acc == From(i + 1)
  <2>1. i \in 1..n /\ i \in Nat /\ x \in S /\ x.value \in Nat
    BY <1>0, <1>1
  <2>2. Min(i..m) = i /\ i..m # {} /\ (i..m) \ {i} = (i + 1)..m /\ i..m \in SUBSET DOMAIN p
    <3>1. i..m \in SUBSET Nat /\ i \in i..m
      BY <1>0, <2>1
    <3>2. Min(i..m) \in i..m /\ Min(i..m) <= i
      BY <3>1, MinOf
    <3>3. Min(i..m) = i
      BY <1>0, <2>1, <3>2
    <3>4. (i..m) \ {i} = (i + 1)..m /\ i..m \in SUBSET DOMAIN p
      BY <1>0, <2>1
    <3> QED
      BY <3>1, <3>3, <3>4
  <2>3. From(i) = Dilute(x, acc)
    <3>1. p[i] = x
      OBVIOUS
    <3>2. f[i..m] = IF i..m = {} THEN start
                    ELSE Dilute(p[Min(i..m)], f[(i..m) \ {Min(i..m)}])
      BY <2>2 DEF Dilutes
    <3> QED
      BY <2>2, <3>1, <3>2
  <2>4. Worth(Slice(utxos, 1, i)) = x.value + Worth(Slice(utxos, 1, i - 1))
        /\ Worth(Slice(utxos, 1, i)) \in Int /\ Worth(Slice(utxos, 1, i - 1)) \in Int
    <3>1. i \in 0..n /\ i - 1 \in 0..n
      BY <1>0, <2>1
    <3> QED
      BY <1>2, <1>3, <2>1, <3>1
  <2>5. /\ acc.picked \in SUBSET Slice(utxos, i + 1, m + 1)
        /\ acc.spare \in Nat
        /\ Worth(acc.picked) + Worth(Slice(utxos, 1, i)) = amount + acc.spare
        /\ \A c \in acc.picked : c.value > acc.spare
    <3>1. (i + 1) - 1 = i
      BY <2>1
    <3> QED
      BY <1>5, <3>1
  <2>6. /\ Slice(utxos, i + 1, m + 1) \in SUBSET S
        /\ Slice(utxos, i, m + 1) = {x} \cup Slice(utxos, i + 1, m + 1)
        /\ x \notin Slice(utxos, i + 1, m + 1)
    <3>1. \A j \in (i + 1)..(m + 1) : j \in 1..n /\ j # i
      BY <1>0, <2>1
    <3>2. i..(m + 1) = {i} \cup (i + 1)..(m + 1)
      BY <1>0, <2>1
    <3> QED
      BY <1>0, <2>1, <3>1, <3>2 DEF Slice, Lists
  <2>7. Summable(acc.picked) /\ Worth(acc.picked) \in Int
    <3>1. acc.picked \in SUBSET S
      BY <2>5, <2>6
    <3> QED
      BY <1>0, <3>1, PartIsSummable, WorthIs
  <2>8. CASE x.value <= acc.spare
    <3>1. From(i).picked = acc.picked /\ From(i).spare = acc.spare - x.value
      BY <2>3, <2>8 DEF Dilute
    <3>2. From(i).picked \in SUBSET Slice(utxos, i, m + 1) /\ From(i).spare \in Nat
      BY <2>1, <2>5, <2>6, <2>8, <3>1
    <3>3. Worth(From(i).picked) + Worth(Slice(utxos, 1, i - 1)) = amount + From(i).spare
      <4>1. Worth(From(i).picked) = Worth(acc.picked)
        BY <3>1
      <4> DEFINE a == Worth(acc.picked)
                 b == Worth(Slice(utxos, 1, i - 1))
                 w == Worth(Slice(utxos, 1, i))
                 v == x.value
                 r == acc.spare
      <4>2. a \in Int /\ b \in Int /\ w \in Int /\ v \in Int /\ r \in Int
        BY <2>1, <2>4, <2>5, <2>7
      <4>3. a + w = amount + r /\ w = v + b
        BY <2>4, <2>5
      <4>4. From(i).spare = r - v /\ Worth(From(i).picked) = a
        BY <3>1, <4>1
      <4> HIDE DEF From, a, b, w, v, r
      <4>5. a + b = amount + (r - v)
        BY <4>2, <4>3
      <4> QED
        BY <4>4, <4>5 DEF b
    <3>4. \A c \in From(i).picked : c.value > From(i).spare
      <4>1. \A c \in acc.picked : c.value \in Nat
        BY <2>5, <2>6 DEF Countable
      <4> QED
        BY <2>1, <2>5, <3>1, <4>1
    <3> HIDE DEF From
    <3> QED
      BY <3>2, <3>3, <3>4
  <2>9. CASE ~(x.value <= acc.spare)
    <3>1. From(i).picked = acc.picked \cup {x} /\ From(i).spare = acc.spare
      BY <2>3, <2>9 DEF Dilute
    <3>2. Worth(acc.picked \cup {x}) = x.value + Worth(acc.picked)
      <4>1. Summable(acc.picked \cup {x})
        <5>1. acc.picked \cup {x} \in SUBSET S
          BY <2>1, <2>5, <2>6
        <5> QED
          BY <1>0, <5>1, PartIsSummable
      <4>2. (acc.picked \cup {x}) \ {x} = acc.picked
        BY <2>5, <2>6
      <4>3. Worth(acc.picked \cup {x}) = x.value + Worth((acc.picked \cup {x}) \ {x})
        BY <4>1, WorthRemove
      <4> QED
        BY <4>2, <4>3
    <3>3. Worth(From(i).picked) + Worth(Slice(utxos, 1, i - 1)) = amount + From(i).spare
      BY <2>1, <2>4, <2>5, <2>7, <3>1, <3>2
    <3>4. \A c \in From(i).picked : c.value > From(i).spare
      BY <2>1, <2>5, <2>9, <3>1
    <3>5. From(i).picked \in SUBSET Slice(utxos, i, m + 1) /\ From(i).spare \in Nat
      BY <2>5, <2>6, <3>1
    <3> QED
      BY <3>3, <3>4, <3>5
  <2> QED
    BY <2>8, <2>9
<1>6. Good(1)
  <2> DEFINE T == {k \in 0..m : Good(m - k + 1)}
             F == {k \in 0..m : ~Good(m - k + 1)}
  <2> HIDE DEF Good
  <2>1. F = {}
    <3> SUFFICES ASSUME F # {} PROVE FALSE
      OBVIOUS
    <3>1. F \in SUBSET Nat
      BY <1>0
    <3>2. PICK k \in F : \A j \in F : k <= j
      <4> HIDE DEF F
      <4> QED
        BY <3>1, LeastNat
    <3>3. k \in 0..m /\ ~Good(m - k + 1)
      BY <3>2
    <3>4. k # 0
      <4>1. m - 0 + 1 = m + 1
        BY <1>0
      <4> QED
        BY <1>4, <3>3, <4>1
    <3>5. k - 1 \in 0..m /\ ~(k <= k - 1) /\ m - k + 1 \in 1..m
          /\ m - (k - 1) + 1 = (m - k + 1) + 1
      BY <1>0, <3>3, <3>4
    <3>6. k - 1 \notin F
      <4> HIDE DEF F
      <4> QED
        BY <3>2, <3>5
    <3>7. Good(m - (k - 1) + 1)
      BY <3>5, <3>6
    <3>8. Good((m - k + 1) + 1)
      BY <3>5, <3>7
    <3> QED
      BY <1>5, <3>3, <3>5, <3>8
  <2>2. m \in 0..m /\ m - m + 1 = 1
    BY <1>0
  <2>3. m \notin F
    BY <2>1
  <2>4. Good(m - m + 1)
    BY <2>2, <2>3
  <2> QED
    BY <2>2, <2>4
<1> DEFINE chosen == f[1..m].picked
           spare == f[1..m].spare
<1>7. /\ chosen \in SUBSET Slice(utxos, 1, m + 1) /\ spare \in Nat
      /\ Worth(chosen) + Worth(Slice(utxos, 1, 0)) = amount + spare
      /\ \A c \in chosen : c.value > spare
  BY <1>6
<1> HIDE DEF Good, From, chosen, spare
<1>8. Worth(Slice(utxos, 1, 0)) = 0 /\ Slice(utxos, 1, m + 1) \in SUBSET S
  <2>1. 1 \in 1..(n + 1) /\ m + 1 \in 0..n
    BY <1>0
  <2> QED
    BY <2>1, SliceSums
<1>9. chosen \in SUBSET S /\ Summable(chosen) /\ Worth(chosen) \in Int
  BY <1>0, <1>7, <1>8, PartIsSummable, WorthIs
<1>10. Worth(chosen) = amount + spare
  BY <1>7, <1>8, <1>9
<1>11. ASSUME NEW c \in chosen PROVE Worth(chosen \ {c}) < amount
  <2>1. Worth(chosen) = c.value + Worth(chosen \ {c})
    BY <1>9, WorthRemove
  <2>2. c.value \in Nat /\ Worth(chosen \ {c}) \in Int
    <3>1. Summable(chosen \ {c})
      BY <1>9, PartIsSummable
    <3> QED
      BY <1>9, <3>1, WorthIs DEF Countable
  <2> QED
    BY <1>7, <1>10, <2>1, <2>2
<1>12. chosen \in SUBSET S /\ Worth(chosen) >= amount
  BY <1>7, <1>9, <1>10
<1> QED
  BY <1>11, <1>12 DEF chosen

LEMMA GreedyIs ==
  ASSUME NEW S, Countable(S), NEW amount \in Int, amount > 0
  PROVE  IsSelection("greedy", S, amount, select_greedy(S, amount))
<1> DEFINE utxos == Ascending(S)
           n == Cardinality(S)
           cursor == Reaching(utxos, amount)
           p == SubSeq(utxos, 1, cursor - 1)
           start == [picked |-> {utxos[cursor]},
                     spare |-> Worth(Slice(utxos, 1, cursor)) - amount]
           f == CHOOSE g : Dilutes(g, p, start)
<1>1. select_greedy(S, amount) = IF Worth(S) < amount THEN {} ELSE f[DOMAIN p].picked
  BY GreedyFolds
<1>2. CASE Worth(S) < amount
  BY <1>1, <1>2 DEF IsSelection, NotEnough
<1>3. CASE ~(Worth(S) < amount)
  <2>1. Lists(utxos, n, S) /\ n \in Nat /\ Worth(S) \in Int
    BY AscendingLists, CountableIs
  <2>2. /\ cursor \in 1..n
        /\ Worth(Slice(utxos, 1, cursor)) >= amount
        /\ Worth(Slice(utxos, 1, cursor - 1)) < amount
    <3> HIDE DEF utxos, n
    <3> QED
      BY <1>3, <2>1, ReachingIs
  <2>3. utxos \in [1..n -> S] /\ Summable(S)
    BY <2>1 DEF Lists
  <2> DEFINE m == cursor - 1
  <2> HIDE DEF utxos, n, cursor
  <2>4. m \in 0..(n - 1) /\ m + 1 = cursor /\ m \in Nat /\ m + 1 \in 1..n /\ cursor \in 1..n
    BY <2>1, <2>2
  <2>5. DOMAIN p = 1..m /\ \A i \in 1..m : p[i] = utxos[i] /\ p[i] \in S
    <3>1. \A i \in 1..m : i \in 1..n
      BY <2>1, <2>4
    <3>2. p = [i \in 1..m |-> utxos[i]]
      BY <2>1, <2>3, <2>4
    <3> HIDE DEF p, m
    <3> QED
      BY <2>3, <3>1, <3>2
  <2> HIDE DEF m, p
  <2>6. Worth(Slice(utxos, 1, cursor)) \in Int
    <3>1. 1 \in 1..(n + 1) /\ cursor \in 0..n
      BY <2>1, <2>4
    <3> QED
      BY <2>1, <3>1, SliceSums
  <2>7. Dilutes(f, p, start)
    <3> DEFINE R == [picked : SUBSET S, spare : Int]
               D == 1..m
               pick == [s \in SUBSET D |-> Min(s)]
               H == [s \in SUBSET D |-> [y \in R |-> IF s = {} THEN start ELSE Dilute(p[Min(s)], y)]]
    <3>1. start \in R
      BY <2>3, <2>4, <2>6
    <3>2. ASSUME NEW s \in SUBSET D, s # {} PROVE Min(s) \in s /\ p[Min(s)] \in S
      <4>1. s \in SUBSET Nat
        BY <2>4
      <4>2. Min(s) \in s
        BY <3>2, <4>1, MinOf
      <4> QED
        BY <2>5, <4>2
    <3>3. ASSUME NEW c \in S, NEW y \in R PROVE Dilute(c, y) \in R
      BY <2>3, <3>3 DEF Dilute, Summable
    <3> HIDE DEF R, start
    <3>4. \A s \in SUBSET D : \A y \in R : H[s][y] \in R
      BY <3>1, <3>2, <3>3
    <3>5. \A s \in SUBSET D : s # {} => pick[s] \in s
      BY <3>2
    <3>6. IsFiniteSet(D)
      BY <2>4, FS_Interval
    <3>7. \A s \in SUBSET D : \A y \in R : s # {} => H[s][y] = Dilute(p[Min(s)], y)
      OBVIOUS
    <3>8. \A s \in SUBSET D : pick[s] = Min(s)
      OBVIOUS
    <3>9. \E g \in [SUBSET D -> R] : FoldsOver(g, SUBSET D, start, H, pick)
      <4> HIDE DEF H, pick, D
      <4> QED
        BY <3>1, <3>4, <3>5, <3>6, FoldExists, Zenon
    <3>10. PICK g \in [SUBSET D -> R] : FoldsOver(g, SUBSET D, start, H, pick)
      BY <3>9
    <3> HIDE DEF H, pick, D
    <3>11. \A s \in SUBSET D : g[s] = IF s = {} THEN start ELSE Dilute(p[Min(s)], g[s \ {Min(s)}])
      <4> SUFFICES ASSUME NEW s \in SUBSET D, s # {}
                   PROVE  g[s] = Dilute(p[Min(s)], g[s \ {Min(s)}])
        BY <3>10 DEF FoldsOver
      <4>1. g[s] = H[s][g[s \ {Min(s)}]]
        BY <3>8, <3>10 DEF FoldsOver
      <4>2. g[s \ {Min(s)}] \in R
        BY <3>10
      <4> QED
        BY <3>7, <4>1, <4>2
    <3>12. g = [s \in SUBSET D |-> IF s = {} THEN start ELSE Dilute(p[Min(s)], g[s \ {Min(s)}])]
      BY <3>11
    <3>13. Dilutes(g, p, start)
      BY <2>5, <3>12 DEF Dilutes, D
    <3> QED
      BY <3>13
  <2> DEFINE chosen == f[1..m].picked
  <2>8. start = [picked |-> {utxos[m + 1]}, spare |-> Worth(Slice(utxos, 1, m + 1)) - amount]
    BY <2>4
  <2>9. Worth(Slice(utxos, 1, m + 1)) >= amount /\ Worth(Slice(utxos, 1, m)) < amount
    BY <2>2, <2>4 DEF m
  <2>10. /\ chosen \in SUBSET S /\ Worth(chosen) >= amount
         /\ \A c \in chosen : Worth(chosen \ {c}) < amount
    <3>1. m \in 0..(n - 1) /\ DOMAIN p = 1..m /\ \A i \in 1..m : p[i] = utxos[i]
      BY <2>4, <2>5
    <3>2. amount \in Int /\ Countable(S) /\ Lists(utxos, n, S)
      BY <2>1
    <3> HIDE DEF f, start
    <3> QED
      BY <2>7, <2>8, <2>9, <3>1, <3>2, DilutedIs
  <2> HIDE DEF f, start
  <2>11. select_greedy(S, amount) = chosen
    BY <1>1, <1>3, <2>5
  <2> HIDE DEF chosen
  <2> QED
    BY <1>3, <2>10, <2>11 DEF IsSelection, Suffices
<1> QED
  BY <1>2, <1>3

(* Each of the algorithms selects coins that are there, enough of them,    *)
(* and (but for the one that is to spend many) none that could stay out;   *)
(* it finds none only when there are too few.                              *)
THEOREM SelectorsAreRight ==
  ASSUME NEW merge_algorithm \in MergeAlgorithms, NEW coins, IsFiniteSet(coins),
         \A c \in coins : c.value \in Nat, NEW amount \in Nat \ {0}
  PROVE  IsSelection(merge_algorithm, coins, amount, Selected(merge_algorithm, coins, amount))
<1>1. Countable(coins) /\ amount \in Int /\ amount > 0
  BY DEF Countable
<1>2. CASE merge_algorithm = "default"
  BY <1>1, <1>2, DefaultIs DEF Selected
<1>3. CASE merge_algorithm = "gradual"
  BY <1>1, <1>3, GradualIs DEF Selected
<1>4. CASE merge_algorithm = "greedy"
  BY <1>1, <1>4, GreedyIs DEF Selected
<1>5. CASE merge_algorithm = "greediest"
  BY <1>1, <1>5, GreediestIs DEF Selected
<1> QED
  BY <1>2, <1>3, <1>4, <1>5 DEF MergeAlgorithms

(***************************************************************************)
(* Amounts                                                                 *)
(***************************************************************************)

(* Sums of fees.                                                           *)
LEMMA FunctionSum ==
  ASSUME NEW S, IsFiniteSet(S), NEW R, R = Nat \/ R = Int, NEW v \in [S -> R]
  PROVE  SumFunction(v) \in R
<1> DEFINE Sum == CHOOSE f : SumsOver(f, v, S)
<1>1. PICK f \in [SUBSET S -> R] : SumsOver(f, v, S)
  BY SumsExist
<1>2. SumsOver(Sum, v, S)
  BY <1>1
<1>3. SumFunction(v) = Sum[S]
  <2>1. DOMAIN v = S
    OBVIOUS
  <2>2. SumFunction(v) = SumFunctionOnSet(v, S)
    BY <2>1 DEF SumFunction
  <2> QED
    BY <2>2 DEF SumFunctionOnSet, FoldFunctionOnSet, MapThenFoldSet, SumsOver, One
<1> HIDE DEF Sum
<1>4. Sum[S] = f[S]
  BY <1>1, <1>2, SumsAgree
<1>5. f[S] \in R
  OBVIOUS
<1> QED
  BY <1>3, <1>4, <1>5

(* Decimal.quantize(1) is off by a half at most.                           *)
LEMMA Rounds ==
  ASSUME NEW a \in Int, NEW b \in Nat \ {0}
  PROVE  LET c == Quantize(a, b)
         IN /\ c \in Int /\ 2 * (b * c) <= 2 * a + b /\ 2 * a - b <= 2 * (b * c)
<1> DEFINE q == a \div b
           r == a % b
<1>1. q \in Int /\ r \in Int /\ a = b * q + r /\ 0 <= r /\ r < b
  OBVIOUS
<1>2. Quantize(a, b) = IF 2 * r < b \/ (2 * r = b /\ q % 2 = 0) THEN q ELSE q + 1
  BY DEF Quantize
<1> HIDE DEF q, r
<1>3. b * q \in Int /\ b * (q + 1) = b * q + b
  BY <1>1
<1>4. CASE Quantize(a, b) = q /\ 2 * r <= b
  BY <1>1, <1>3, <1>4
<1>5. CASE Quantize(a, b) = q + 1 /\ 2 * r >= b
  BY <1>1, <1>3, <1>5
<1>6. (Quantize(a, b) = q /\ 2 * r <= b) \/ (Quantize(a, b) = q + 1 /\ 2 * r >= b)
  BY <1>1, <1>2
<1> QED
  BY <1>4, <1>5, <1>6

(* What is left of x after an amount and a share of it in percent.         *)
LEMMA NothingIsLeft ==
  ASSUME NEW x \in Int, NEW share \in 0..100
  PROVE  LET c == Quantize(x * 100, 100 + share)
         IN /\ c \in Int /\ (share * c) \div 100 \in Int
            /\ x - c - (share * c) \div 100 \in -1..1
<1> DEFINE b == 100 + share
           c == Quantize(x * 100, b)
           s == share * c
           d == s \div 100
<1>1. b \in Nat \ {0} /\ x * 100 \in Int
  OBVIOUS
<1>2. c \in Int /\ 2 * (b * c) <= 2 * (x * 100) + b /\ 2 * (x * 100) - b <= 2 * (b * c)
  <2> HIDE DEF b
  <2> QED
    BY <1>1, Rounds
<1> HIDE DEF c
<1>3. s \in Int /\ b * c = 100 * c + s
  BY <1>2
<1> HIDE DEF s
<1>4. d \in Int /\ 100 * d <= s /\ s < 100 * d + 100
  BY <1>3
<1> HIDE DEF d
<1>5. x - c - d \in -1..1
  BY <1>2, <1>3, <1>4
<1> QED
  BY <1>2, <1>4, <1>5 DEF c, d, s

LEMMA FeesAre ==
  ASSUME NEW os \in SUBSET Offers
  PROVE  /\ SumRel(os) \in Nat /\ SumAbs(os) \in Int /\ MyTxFee(os) \in Int
         /\ SumOfFees(os) \in Int
<1>1. IsFiniteSet(os)
  BY ChoiceAssumption, FS_Subset
<1>2. \A o \in os : o.rel \in BOOLEAN /\ o.cjfee \in Nat /\ o.txfee \in Nat
  BY ChoiceAssumption
<1>3. SumRel(os) \in Nat
  <2>1. [o \in os |-> IF o.rel THEN o.cjfee ELSE 0] \in [os -> Nat]
    BY <1>2
  <2> QED
    BY <1>1, <2>1, FunctionSum DEF SumRel
<1>4. SumAbs(os) \in Int
  <2>1. [o \in os |-> IF o.rel THEN 0 ELSE o.cjfee] \in [os -> Int]
    BY <1>2
  <2> QED
    BY <1>1, <2>1, FunctionSum DEF SumAbs
<1>5. MyTxFee(os) \in Int
  <2>1. [o \in os |-> o.txfee] \in [os -> Int]
    BY <1>2
  <2>2. SumFunction([o \in os |-> o.txfee]) \in Int
    BY <1>1, <2>1, FunctionSum
  <2> QED
    BY <2>2, ChoiceAssumption DEF MyTxFee
<1>6. SumOfFees(os) \in Int
  <2>1. ASSUME NEW o \in os PROVE RankFee(o, FALSE) \in Int
    <3>1. o.cjfee * Amount \in Int /\ 100 \in Nat \ {0}
      BY <1>2, ChoiceAssumption
    <3>2. Quantize(o.cjfee * Amount, 100) \in Int
      BY <3>1, Rounds
    <3>3. calc_cj_fee(o, Amount) \in Int
      BY <1>2, <3>2 DEF calc_cj_fee
    <3> QED
      BY <1>2, <3>3 DEF RankFee
  <2>2. [o \in os |-> RankFee(o, FALSE)] \in [os -> Int]
    BY <2>1
  <2> QED
    BY <1>1, <2>2, FunctionSum DEF SumOfFees
<1> QED
  BY <1>3, <1>4, <1>5, <1>6

LEMMA CoinsAre ==
  ASSUME NEW us \in SUBSET Coins
  PROVE  /\ IsFiniteSet(AsCoins(us)) /\ \A c \in AsCoins(us) : c.value \in Nat
         /\ \A t \in SUBSET AsCoins(us) : AsCoins({c.utxo : c \in t}) = t
<1>1. IsFiniteSet(us) /\ \A u \in us : Value[u] \in Nat
  BY ChoiceAssumption, FS_Subset
<1>2. IsFiniteSet(AsCoins(us))
  <2> DEFINE f == [u \in us |-> [utxo |-> u, value |-> Value[u]]]
  <2>1. f \in Surjection(us, AsCoins(us))
    BY DEF Surjection, AsCoins
  <2> HIDE DEF f
  <2> QED
    BY <1>1, <2>1, FS_Surjection
<1>3. \A c \in AsCoins(us) : c.value \in Nat /\ c = [utxo |-> c.utxo, value |-> Value[c.utxo]]
  BY <1>1 DEF AsCoins
<1>4. ASSUME NEW t \in SUBSET AsCoins(us) PROVE AsCoins({c.utxo : c \in t}) = t
  <2>1. AsCoins({c.utxo : c \in t}) = {[utxo |-> c.utxo, value |-> Value[c.utxo]] : c \in t}
    BY DEF AsCoins
  <2> QED
    BY <1>3, <2>1
<1> QED
  BY <1>2, <1>3, <1>4

Settled == {"chosen", "prepared", "filled", "stage2"}

(* A choice that is made has its amount and its fee, and coins if any were *)
(* taken for it.                                                           *)
AmountInv ==
  /\ SweepIsExact
  /\ phase \in Settled /\ ~sweep =>
       cj_amount = Amount /\ total_fee = SumOfFees(chosen_orders)
  /\ CoinsFitPayment

(* Steps that leave what was chosen alone.                                 *)
LEMMA AmountFrame ==
  ASSUME AmountInv,
         UNCHANGED <<sweep, chosen_orders, cj_amount, total_fee, input_utxos>>,
         phase' \in Settled => phase \in Settled,
         phase' \in Settled \ {"chosen"} => phase \in Settled \ {"chosen"}
  PROVE  AmountInv'
<1>1. /\ PaymentCost' = PaymentCost
      /\ \A us : AsCoins(us)' = AsCoins(us)
  BY DEF PaymentCost, AsCoins
<1>2. SweepIsExact'
  BY DEF AmountInv, SweepIsExact, Settled
<1>3. CoinsFitPayment'
  BY <1>1 DEF AmountInv, CoinsFitPayment, Settled
<1> QED
  BY <1>2, <1>3 DEF AmountInv

(* As long as nothing is chosen there is nothing to say.                   *)
LEMMA AmountOpen ==
  ASSUME phase' \notin Settled
  PROVE  AmountInv'
BY DEF AmountInv, SweepIsExact, CoinsFitPayment, Settled

(* A sweep's amount and fee use up what there is.                          *)
LEMMA SweepAmount ==
  ASSUME ModestFees, ChoiceInv, SweepOrdersChosen
  PROVE  AmountInv'
<1>1. CASE phase' = "choosing"
  BY <1>1, AmountOpen DEF Settled
<1>2. CASE phase' # "choosing"
  <2> DEFINE x == Total - MyTxFee(chosen_orders) - SumAbs(chosen_orders)
             share == SumRel(chosen_orders)
             c == Quantize(x * 100, 100 + share)
             d == (share * c) \div 100
  <2>1. /\ sweep' = sweep /\ sweep /\ phase' = "chosen" /\ chosen_orders' = chosen_orders
        /\ cj_amount' = c /\ total_fee' = SumAbs(chosen_orders) + d
        /\ \A o \in chosen_orders : o.minsize <= cj_amount' /\ cj_amount' <= o.maxsize
        /\ Cardinality(chosen_orders) = N
    <3>1. /\ chosen_orders' = {o \in chosen_orders : o.minsize <= cj_amount' /\ cj_amount' <= o.maxsize}
          /\ phase' = IF chosen_orders' = chosen_orders THEN "chosen" ELSE "choosing"
          /\ sweep' = sweep /\ sweep /\ Cardinality(chosen_orders) = N
          /\ cj_amount' = ZeroChangeAmount(chosen_orders)
          /\ total_fee' = ZeroChangeFee(chosen_orders, cj_amount')
      BY DEF SweepOrdersChosen, runVars
    <3>2. cj_amount' = c
      BY <3>1 DEF ZeroChangeAmount
    <3>3. total_fee' = SumAbs(chosen_orders) + d
      BY <3>1, <3>2 DEF ZeroChangeFee
    <3>4. phase' = "chosen" /\ chosen_orders' = chosen_orders
      BY <1>2, <3>1
    <3>5. \A o \in chosen_orders : o.minsize <= cj_amount' /\ cj_amount' <= o.maxsize
      BY <3>1, <3>4
    <3> QED
      BY <3>1, <3>2, <3>3, <3>4, <3>5
  <2>2. chosen_orders \in SUBSET Offers
    BY DEF ChoiceInv, PassInv
  <2>3. /\ share \in 0..100 /\ SumAbs(chosen_orders) \in Int /\ MyTxFee(chosen_orders) \in Int
    BY <2>1, <2>2, FeesAre DEF ModestFees
  <2>4. Total \in Int
    BY CoinsAre, CountableIs DEF Total, Countable
  <2>5. x \in Int
    BY <2>3, <2>4
  <2>6. c \in Int /\ d \in Int /\ x - c - d \in -1..1
    <3> HIDE DEF x, share
    <3> QED
      BY <2>3, <2>5, NothingIsLeft
  <2>7. MyTxFee(chosen_orders)' = MyTxFee(chosen_orders) /\ Total' = Total
    BY <2>1 DEF MyTxFee, Total, AsCoins
  <2>8. Total - MyTxFee(chosen_orders) - cj_amount' - total_fee' \in -1..1
    <3> HIDE DEF c, d
    <3> QED
      BY <2>1, <2>3, <2>4, <2>6
  <2>9. SweepIsExact'
    BY <2>1, <2>7, <2>8 DEF SweepIsExact
  <2> QED
    BY <2>1, <2>9 DEF AmountInv, CoinsFitPayment
<1> QED
  BY <1>1, <1>2

(* The coins for a payment.                                                *)
LEMMA PrepareAmount ==
  ASSUME ModestFees, ChoiceInv, AmountInv, NEW spendable \in SUBSET Coins,
         prepare_my_bitcoin_data(spendable)
  PROVE  AmountInv'
<1> DEFINE selected == Selected(MergeAlgorithm, AsCoins(spendable), PaymentCost)
<1>1. CASE EndRun
  BY <1>1, AmountOpen DEF EndRun, Settled
<1>2. CASE /\ sweep \/ selected # NotEnough
           /\ input_utxos' = IF sweep THEN Coins ELSE {c.utxo : c \in selected}
           /\ phase' = "prepared"
           /\ UNCHANGED <<runVars, ignored_makers, failed, pass, pool, chosen_orders,
                          cj_amount, total_fee, retries>>
  <2> HIDE DEF selected
  <2>1. phase = "chosen" /\ phase' = "prepared"
        /\ UNCHANGED <<sweep, chosen_orders, cj_amount, total_fee>>
    BY <1>2 DEF prepare_my_bitcoin_data, runVars
  <2>2. SweepIsExact'
    <3>1. MyTxFee(chosen_orders)' = MyTxFee(chosen_orders) /\ Total' = Total
      BY <2>1 DEF MyTxFee, Total, AsCoins
    <3> QED
      BY <2>1, <3>1 DEF AmountInv, SweepIsExact
  <2>3. ~sweep => cj_amount' = Amount /\ total_fee' = SumOfFees(chosen_orders)
    BY <2>1 DEF AmountInv, Settled
  <2>4. ASSUME ~sweep PROVE Suffices(MergeAlgorithm, AsCoins(input_utxos'), PaymentCost)
    <3>1. PaymentCost \in Nat \ {0}
      <4>1. chosen_orders \in SUBSET Offers /\ Cardinality(chosen_orders) = N
        BY <2>1 DEF ChoiceInv, PassInv, OneEach
      <4>2. SumOfFees(chosen_orders) \in Int /\ Amount + SumOfFees(chosen_orders) + TxFee > 0
        BY <4>1, FeesAre DEF ModestFees
      <4>3. PaymentCost = Amount + SumOfFees(chosen_orders) + TxFee
        BY <2>1, <2>3, <2>4 DEF PaymentCost
      <4> QED
        BY <4>2, <4>3, ChoiceAssumption
    <3>2. IsSelection(MergeAlgorithm, AsCoins(spendable), PaymentCost, selected)
      <4>1. MergeAlgorithm \in MergeAlgorithms
        BY ChoiceAssumption
      <4> QED
        BY <3>1, <4>1, CoinsAre, SelectorsAreRight DEF selected
    <3>3. selected # NotEnough /\ input_utxos' = {c.utxo : c \in selected}
      BY <1>2, <2>4
    <3>4. selected \in SUBSET AsCoins(spendable)
          /\ Suffices(MergeAlgorithm, selected, PaymentCost)
      BY <3>2, <3>3 DEF IsSelection
    <3>5. AsCoins(input_utxos') = selected
      BY <3>3, <3>4, CoinsAre
    <3> QED
      BY <3>4, <3>5
  <2>5. CoinsFitPayment'
    <3>1. PaymentCost' = PaymentCost /\ AsCoins(input_utxos)' = AsCoins(input_utxos')
      BY <2>1 DEF PaymentCost, AsCoins
    <3> QED
      BY <2>1, <2>4, <3>1 DEF CoinsFitPayment, Suffices
  <2>6. SumOfFees(chosen_orders)' = SumOfFees(chosen_orders)
    BY <2>1 DEF SumOfFees, RankFee, calc_cj_fee
  <2> QED
    BY <2>1, <2>2, <2>3, <2>5, <2>6 DEF AmountInv
<1> QED
  BY <1>1, <1>2 DEF prepare_my_bitcoin_data

LEMMA NextAmount ==
  ASSUME ModestFees, ChoiceInv, AmountInv, [Next]_vars
  PROVE  AmountInv'
<1>1. ASSUME NEW swp \in BOOLEAN, docoinjoin(swp) PROVE AmountInv'
  BY <1>1, AmountOpen DEF docoinjoin, Settled
<1>2. ASSUME NEW o \in pool, ChooseOrder(o) PROVE AmountInv'
  BY <1>2, AmountOpen DEF ChooseOrder, Settled
<1>3. CASE OrdersChosen
  <2>1. /\ phase' = "chosen" /\ sweep' = sweep /\ ~sweep /\ cj_amount' = Amount
        /\ total_fee' = SumOfFees(chosen_orders) /\ chosen_orders' = chosen_orders
    BY <1>3 DEF OrdersChosen, runVars
  <2>2. SumOfFees(chosen_orders)' = SumOfFees(chosen_orders)
    BY <2>1 DEF SumOfFees, RankFee, calc_cj_fee
  <2> QED
    BY <2>1, <2>2 DEF AmountInv, SweepIsExact, CoinsFitPayment
<1>4. CASE SweepOrdersChosen
  BY <1>4, SweepAmount
<1>5. CASE NextPass
  <2>1. phase' \notin Settled
    BY <1>5 DEF NextPass, EndRun, Settled
  <2> QED
    BY <2>1, AmountOpen
<1>6. ASSUME NEW spendable \in SUBSET Coins, prepare_my_bitcoin_data(spendable) PROVE AmountInv'
  BY <1>6, PrepareAmount
<1>7. ASSUME NEW old \in SUBSET (Coins \cup External), make_commitment(old) PROVE AmountInv'
  <2>1. CASE EndRun
    BY <2>1, AmountOpen DEF EndRun, Settled
  <2>2. CASE Filled
    <3>1. phase = "prepared" /\ phase' = "filled"
          /\ UNCHANGED <<sweep, chosen_orders, cj_amount, total_fee, input_utxos>>
      BY <1>7, <2>2 DEF make_commitment, Filled, runVars, choiceVars
    <3> QED
      BY <3>1, AmountFrame DEF Settled
  <2> QED
    BY <1>7, <2>1, <2>2 DEF make_commitment
<1>8. ASSUME NEW ms \in SUBSET Makers, prepare_maker_selection_retry(ms) PROVE AmountInv'
  <2>1. phase' \notin Settled
    BY <1>8 DEF prepare_maker_selection_retry, EndRun, Settled
  <2> QED
    BY <2>1, AmountOpen
<1>9. CASE receive_utxos
  <2>1. phase = "filled" /\ phase' = "stage2"
        /\ UNCHANGED <<sweep, chosen_orders, cj_amount, total_fee, input_utxos>>
    BY <1>9 DEF receive_utxos, runVars, choiceVars
  <2> QED
    BY <2>1, AmountFrame DEF Settled
<1>10. ASSUME EndRun PROVE AmountInv'
  BY <1>10, AmountOpen DEF EndRun, Settled
<1>11. ASSUME takerUnchanged \/ UNCHANGED vars PROVE AmountInv'
  <2>1. UNCHANGED <<phase, sweep, chosen_orders, cj_amount, total_fee, input_utxos>>
    BY <1>11 DEF takerUnchanged, vars, runVars, choiceVars
  <2> QED
    BY <2>1, AmountFrame
<1>12. (\E ms \in SUBSET Makers : on_taker_stage2_timeout(ms)) \/ Completed \/ Restart => EndRun
  BY DEF on_taker_stage2_timeout, Completed, Restart
<1> QED
  BY <1>1, <1>2, <1>3, <1>4, <1>5, <1>6, <1>7, <1>8, <1>9, <1>10, <1>11, <1>12 DEF Next

(* A sweep leaves no change but rounding, at an amount all its makers      *)
(* offer; the coins taken for a payment cover the choice it is made for,   *)
(* and none of them could have stayed out, whatever the algorithm (but for *)
(* the one that is to spend many).                                         *)
THEOREM AmountsAlwaysFit ==
  ASSUME ModestFees
  PROVE  Spec => []AmountsFit
<1>1. Init => AmountInv
  BY DEF Init, AmountInv, SweepIsExact, CoinsFitPayment, Settled
<1>2. Init => ChoiceInv
  BY ChoiceStarts
<1>3. ChoiceInv /\ AmountInv /\ [Next]_vars => ChoiceInv' /\ AmountInv'
  BY NextChoice, NextAmount
<1>4. AmountInv => AmountsFit
  BY DEF AmountInv, AmountsFit
<1> QED
  BY <1>1, <1>2, <1>3, <1>4, PTL DEF Spec
===============================================================================
