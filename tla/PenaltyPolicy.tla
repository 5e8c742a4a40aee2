---------------------------- MODULE PenaltyPolicy ----------------------------
(***************************************************************************)
(* What MakerPenaltyStore promises to the taker, without its table: each   *)
(* maker is avoided up to a deadline, or for good.  Deadlines pass with    *)
(* the time; otherwise only a recorded failure or the operator moves them. *)
(***************************************************************************)
EXTENDS Naturals

CONSTANTS Makers, MaxTime, Cooldown, AutoBan

VARIABLES
  clock,
  cooling,   \* maker -> end of its cooldown, 0: it is not on cooldown
  barred     \* maker -> end of its ban, 0: it is not banned

(* The end of a ban that never ends.                                       *)
Forever == MaxTime + Cooldown + AutoBan + 2
BanEnd(until) == IF until = 0 THEN Forever ELSE until

pvars == <<clock, cooling, barred>>

PInit ==
  /\ clock = 1
  /\ cooling = [m \in Makers |-> 0]
  /\ barred = [m \in Makers |-> 0]

Lapsed(f) == [m \in Makers |-> IF f[m] <= clock + 1 THEN 0 ELSE f[m]]

Passes ==
  /\ clock' = clock + 1
  /\ cooling' = Lapsed(cooling) /\ barred' = Lapsed(barred)

(* Failures put makers on cooldown; a repeated one bans, too.              *)
Fail(ms, repeated) ==
  /\ Cooldown > 0
  /\ repeated \subseteq ms
  /\ cooling' = [m \in Makers |-> IF m \in ms THEN clock + Cooldown ELSE cooling[m]]
  /\ barred' = [m \in Makers |->
       IF m \in repeated THEN BanEnd(IF AutoBan = 0 THEN 0 ELSE clock + AutoBan)
       ELSE barred[m]]
  /\ UNCHANGED clock

Ban(m, until) ==
  /\ barred' = [barred EXCEPT ![m] = BanEnd(until)]
  /\ UNCHANGED <<clock, cooling>>

Unban(m) ==
  /\ barred' = [barred EXCEPT ![m] = 0]
  /\ UNCHANGED <<clock, cooling>>

PNext ==
  \/ Passes
  \/ \E ms \in SUBSET Makers : \E repeated \in SUBSET ms : Fail(ms, repeated)
  \/ \E m \in Makers : \/ Unban(m)
                       \/ \E until \in {0} \cup (clock + 1)..(MaxTime + 1) : Ban(m, until)

PSpec == PInit /\ [][PNext]_pvars
=============================================================================
