---------------------------- MODULE TakerSession ----------------------------
(***************************************************************************)
(* A whole run of a taker: its client and its daemon, joined by the AMP    *)
(* connection, with the makers and the Bitcoin network around them.        *)
(***************************************************************************)
EXTENDS TakerDaemon, TakerClient

vars == <<linkVars, daemonVars, clientVars>>

Init == LinkInit /\ DaemonInit /\ ClientInit

Next ==
  \/ DaemonHandles /\ UNCHANGED clientVars
  \/ MakerReplies /\ UNCHANGED clientVars
  \/ ClientHandles /\ UNCHANGED daemonVars
  \/ NetworkSteps /\ UNCHANGED daemonVars
  \/ Tick /\ UNCHANGED <<daemonVars, clientVars>>

Spec == Init /\ [][Next]_vars

(* The reactor keeps delivering calls and firing delayed calls; makers,    *)
(* the wallet monitor and the network promise nothing.                     *)
Fairness ==
  /\ WF_vars(DaemonHandles /\ UNCHANGED clientVars)
  /\ WF_vars(ClientHandles /\ UNCHANGED daemonVars)
  /\ WF_vars(Tick /\ UNCHANGED <<daemonVars, clientVars>>)

FairSpec == Spec /\ Fairness

TypeOK == LinkTypeOK /\ DaemonTypeOK /\ ClientTypeOK

(***************************************************************************)
(* Safety                                                                  *)
(***************************************************************************)

(* Taker.on_sig asserts, when every input has a signature, that no maker   *)
(* is left in nonrespondants.  That holds because, while a transaction is  *)
(* being signed, nonrespondants are exactly the makers that still owe a    *)
(* signature.                                                              *)
OwingMakersTracked ==
  latest_tx # NoTx =>
    nonrespondants = {m \in maker_utxo_data :
                        \E i \in Inputs : <<m, i>> \in unsigned}

(* A call in q asks for transaction t to be broadcast.                     *)
AsksToPush(q, t) ==
  \E i \in 1..Len(q) : q[i].type = "JMPushTx" /\ q[i].tx = t

HandedOut(t) == net[t] # "none" \/ AsksToPush(up, t)

(* Nothing leaves the taker's hands before it is complete: a transaction   *)
(* that has a txid, or was handed to a node or a maker for broadcast, is   *)
(* signed by every maker, however sessions, restarts and late signatures   *)
(* interleave.                                                             *)
PushedIsComplete ==
  latest_tx # NoTx /\ (txid = latest_tx \/ HandedOut(latest_tx))
    => unsigned = {}

(* A signature that reaches the Taker is one for the transaction it is     *)
(* working on, although on_sig in the daemon never looks at its state: a   *)
(* late !sig of an abandoned transaction cannot meet the next one.         *)
SigIsForLatestTx ==
  ClientGets("JMSigReceived") => Head(down).tx = latest_tx

(* The un-cancelled stage-1 timeout of one fill never cuts short the stage *)
(* 1 of a later fill.                                                      *)
Stage1TimerIsOwn ==
  \A i \in 1..Len(timers) :
    Fires(i, "completeStage1") /\ jm_state = 2 => timers[i].arg = fill_no

(* The answer to JMFillResponse overtakes nothing and is overtaken by      *)
(* nothing: when JMMakeTx reaches the daemon the answer has been handled,  *)
(* so the transaction is not refused because of it (a refusal would stop   *)
(* the client).                                                            *)
MakeTxAfterAnswer ==
  DaemonGets("JMMakeTx") => jm_state # 3

(* A transaction that is sent out goes only to makers that answered this   *)
(* session's fill: each has set up encryption under the session's key.     *)
SignersReachable ==
  DaemonGets("JMMakeTx") /\ jm_state = 4
    => \A m \in Head(up).makers : crypto_boxes[m] # "none"

(* Sessions and fills do not reach into one another: no signature, timeout *)
(* or answer of an earlier one, nor a maker that answered only then, plays *)
(* a part in a later one.                                                  *)
AttemptsKeptApart ==
  SigIsForLatestTx /\ Stage1TimerIsOwn /\ MakeTxAfterAnswer /\ SignersReachable

(***************************************************************************)
(* Claims of comments and tests that the code does not keep                *)
(***************************************************************************)

(* retry_maker_selection asks for a new selection in the same session, as  *)
(* if the daemon would accept another fill.                                *)
FillAccepted ==
  DaemonGets("JMFill") => jm_state = 1

(* stallMonitor: "this *MUST* not trigger any action once the coinjoin     *)
(* transaction is seen on the network": an entry whose transaction our     *)
(* wallet has seen is not attempted again.                                 *)
SeenNotReattempted ==
  [][ ClientGets("JMOffers") /\ schedule_index' = schedule_index + 1
        /\ InRange(schedule_index')
      => \A t \in 1..Len(entryOf) :
           entryOf[t] = Entry(schedule_index') =>
             net[t] \notin {"seen", "confirmed"} ]_vars

(***************************************************************************)
(* Liveness                                                                *)
(***************************************************************************)

StartPending == \E i \in 1..Len(timers) : timers[i].kind = "clientStart"

AttemptOver(k) ==
  \/ starts # k \/ StartPending \/ ~Running
  \/ txid # NoTx \/ waiting_for_conf

(* A stall monitor watches the entry the Taker is working on.              *)
Watched == \E i \in 1..Len(timers) :
             timers[i].kind = "stallMonitor" /\ timers[i].arg = schedule_index

(* An attempt whose entry was read from the schedule while its stall       *)
(* monitor was still pending comes to an end, whatever the makers do: the  *)
(* transaction is pushed, or the attempt is abandoned and started again,   *)
(* or the run stops.                                                       *)
WatchedAttemptEnds ==
  \A k \in 1..MaxStarts :
    (starts = k /\ ~StartPending /\ Watched) ~> AttemptOver(k)

(* stallMonitor: "Diagnoses whether long wait is due to any kind of        *)
(* failure; if so, calls the taker on_finished_callback": every attempt    *)
(* comes to an end.                                                        *)
AttemptEnds ==
  \A k \in 1..MaxStarts :
    (starts = k /\ ~StartPending) ~> AttemptOver(k)
=============================================================================
