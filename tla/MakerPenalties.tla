---------------------------- MODULE MakerPenalties ----------------------------
(***************************************************************************)
(* The SQLite table of MakerPenaltyStore and the way JMWalletDaemon uses   *)
(* it, with the daemon's cooldowns in memory for when the store cannot be  *)
(* opened.  A nick without a row reads like a row of zeros, except for the *)
(* start of its window.                                                    *)
(***************************************************************************)
EXTENDS Naturals, FiniteSets

CONSTANTS
  Makers,
  Configured,  \* taker_persistent_maker_ban_list and _file
  MaxTime,     \* bound: the clock
  Cooldown,    \* taker_stage2_maker_cooldown_seconds
  Threshold,   \* taker_maker_cooldown_ban_threshold
  Window,      \* taker_maker_cooldown_ban_window_seconds
  AutoBan      \* taker_maker_auto_ban_seconds

ASSUME PenaltyAssumption ==
  /\ Configured \subseteq Makers
  /\ MaxTime \in Nat \ {0} /\ Cooldown \in Nat /\ Threshold \in Nat
  /\ Window \in Nat /\ AutoBan \in Nat

VARIABLES
  now,
  maker_penalties,           \* nick -> row
  maker_penalty_store,       \* "unopened", "open", "failed"
  stage2_maker_cooldowns     \* nick -> expiry in memory, 0: none

penaltyVars == <<now, maker_penalties, maker_penalty_store, stage2_maker_cooldowns>>

Rows == [known : BOOLEAN, cooldown_until : Nat, cooldown_count : Nat,
         cooldown_window_start : Nat, banned : BOOLEAN, banned_until : Nat]

NoRow == [known |-> FALSE, cooldown_until |-> 0, cooldown_count |-> 0,
          cooldown_window_start |-> 0, banned |-> FALSE, banned_until |-> 0]

PenaltyTypeOK ==
  /\ now \in Nat
  /\ maker_penalties \in [Makers -> Rows]
  /\ maker_penalty_store \in {"unopened", "open", "failed"}
  /\ stage2_maker_cooldowns \in [Makers -> Nat]

PenaltyInit ==
  /\ now = 1
  /\ maker_penalties = [m \in Makers |-> NoRow]
  /\ maker_penalty_store = "unopened"
  /\ stage2_maker_cooldowns = [m \in Makers |-> 0]

(***************************************************************************)
(* Queries of the store                                                    *)
(***************************************************************************)

CoolingIn(row) == row.cooldown_until > now
BannedIn(row) == row.banned /\ (row.banned_until = 0 \/ row.banned_until > now)

active_cooldowns(t) == {m \in Makers : CoolingIn(t[m])}
active_db_bans(t) == {m \in Makers : BannedIn(t[m])}
active_hard_bans(t) == Configured \cup active_db_bans(t)

(***************************************************************************)
(* Updates of the store                                                    *)
(***************************************************************************)

(* prune: what has expired is cleared.                                     *)
pruned(row) ==
  LET over == row.banned /\ row.banned_until > 0 /\ row.banned_until <= now
  IN [row EXCEPT !.cooldown_until = IF @ <= now THEN 0 ELSE @,
                 !.banned = @ /\ ~over,
                 !.banned_until = IF over THEN 0 ELSE @]

prune(t) == [m \in Makers |-> pruned(t[m])]

(* The failures counted in the present window, this one included.          *)
NewWindow(row) ==
  \/ ~row.known
  \/ Window > 0 /\ (row.cooldown_window_start = 0
                    \/ now - row.cooldown_window_start > Window)

Count(row) == (IF NewWindow(row) THEN 0 ELSE row.cooldown_count) + 1
Repeated(row) == Threshold > 0 /\ Count(row) >= Threshold

(* Mutant: a failure below the threshold lifts a ban.                      *)
record_single_stage2_cooldown_clears(row) ==
  [known |-> TRUE,
   cooldown_until |-> now + Cooldown,
   cooldown_count |-> Count(row),
   cooldown_window_start |-> IF NewWindow(row) THEN now ELSE row.cooldown_window_start,
   banned |-> Repeated(row),
   banned_until |-> IF Repeated(row) /\ AutoBan > 0 THEN now + AutoBan ELSE 0]

(* The upsert keeps a ban unless it sets one.                              *)
record_single_stage2_cooldown(row) ==
  [known |-> TRUE,
   cooldown_until |-> now + Cooldown,
   cooldown_count |-> Count(row),
   cooldown_window_start |-> IF NewWindow(row) THEN now ELSE row.cooldown_window_start,
   banned |-> row.banned \/ Repeated(row),
   banned_until |-> IF ~Repeated(row) THEN row.banned_until
                    ELSE IF AutoBan = 0 THEN 0 ELSE now + AutoBan]

record_stage2_cooldown(ms) ==
  maker_penalties' =
    IF Cooldown = 0 THEN maker_penalties
    ELSE [m \in Makers |-> IF m \in ms THEN record_single_stage2_cooldown(maker_penalties[m])
                           ELSE maker_penalties[m]]

(* ban and unban, for the operator; an unban keeps the count of failures.  *)
ban(m, until) ==
  /\ maker_penalty_store = "open"
  /\ maker_penalties' = [maker_penalties EXCEPT
       ![m] = [@ EXCEPT !.known = TRUE, !.banned = TRUE, !.banned_until = until]]
  /\ UNCHANGED <<now, maker_penalty_store, stage2_maker_cooldowns>>

unban(m) ==
  /\ maker_penalty_store = "open"
  /\ maker_penalties' = [maker_penalties EXCEPT
       ![m] = [@ EXCEPT !.banned = FALSE, !.banned_until = 0]]
  /\ UNCHANGED <<now, maker_penalty_store, stage2_maker_cooldowns>>

(***************************************************************************)
(* The daemon's use of it                                                  *)
(***************************************************************************)

(* get_maker_penalty_store: opened at its first use; a failure is final    *)
(* for the process.                                                        *)
get_maker_penalty_store ==
  IF maker_penalty_store = "unopened" THEN maker_penalty_store' \in {"open", "failed"}
  ELSE UNCHANGED maker_penalty_store

prune_stage2_maker_cooldowns ==
  /\ get_maker_penalty_store
  /\ \/ /\ maker_penalty_store' = "open"
        /\ maker_penalties' = prune(maker_penalties)
        /\ UNCHANGED stage2_maker_cooldowns
     \/ /\ maker_penalty_store' = "failed"
        /\ stage2_maker_cooldowns' =
             [m \in Makers |-> IF stage2_maker_cooldowns[m] > now
                               THEN stage2_maker_cooldowns[m] ELSE 0]
        /\ UNCHANGED maker_penalties

(* The two queries prune first: what they see is the primed state.         *)
get_active_stage2_maker_cooldowns ==
  IF maker_penalty_store' = "open" THEN active_cooldowns(maker_penalties')
  ELSE {m \in Makers : stage2_maker_cooldowns'[m] > 0}

get_active_taker_hard_bans ==
  IF maker_penalty_store' = "open" THEN active_hard_bans(maker_penalties') ELSE {}

add_stage2_maker_cooldowns(ms) ==
  /\ get_maker_penalty_store
  /\ \/ /\ maker_penalty_store' = "open"
        /\ record_stage2_cooldown(ms)
        /\ UNCHANGED stage2_maker_cooldowns
     \/ /\ maker_penalty_store' = "failed"
        /\ stage2_maker_cooldowns' =
             [m \in Makers |-> IF m \in ms /\ Cooldown > 0 THEN now + Cooldown
                               ELSE stage2_maker_cooldowns[m]]
        /\ UNCHANGED maker_penalties

Tick ==
  /\ now < MaxTime
  /\ now' = now + 1
  /\ UNCHANGED <<maker_penalties, maker_penalty_store, stage2_maker_cooldowns>>

(* The process ends and is started again: only the table remains.          *)
RestartPenalties ==
  /\ maker_penalty_store' = "unopened"
  /\ stage2_maker_cooldowns' = [m \in Makers |-> 0]
  /\ UNCHANGED <<now, maker_penalties>>

(***************************************************************************)
(* The table keeps the policy: a lapsed deadline that is still in it, and  *)
(* the prune that clears it, make no difference to anybody.                *)
(***************************************************************************)
Policy == INSTANCE PenaltyPolicy WITH
  clock <- now,
  cooling <- [m \in Makers |-> IF CoolingIn(maker_penalties[m])
                               THEN maker_penalties[m].cooldown_until ELSE 0],
  barred <- [m \in Makers |->
               IF ~BannedIn(maker_penalties[m]) THEN 0
               ELSE IF maker_penalties[m].banned_until = 0
                    THEN MaxTime + Cooldown + AutoBan + 2
                    ELSE maker_penalties[m].banned_until]
=============================================================================
