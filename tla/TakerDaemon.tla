---------------------------- MODULE TakerDaemon ----------------------------
(***************************************************************************)
(* JMDaemonServerProtocol in the TAKER role: it starts the message         *)
(* channels, sends the fills to the makers, collects their !ioauth replies *)
(* until all have answered or the stage-1 timeout fires, passes the        *)
(* transaction to the makers and their signatures to the client.           *)
(*                                                                         *)
(* jm_state: 0 initialised, 1 set up, 2 fills sent, 3 ioauth data passed   *)
(* to the client, 4 client may send the transaction.                       *)
(*                                                                         *)
(* The makers are external: `wire` holds the replies they owe; each may    *)
(* arrive late, in any order, or never.  !ioauth and !sig are encrypted to *)
(* the key pair kp that on_JM_SETUP creates afresh, so replies to an       *)
(* earlier kp are dropped by the message channel; the plaintext !pubkey of *)
(* an earlier fill is not ("oldpubkey"), and spoils the box.               *)
(***************************************************************************)
EXTENDS AmpLink

VARIABLES
  jm_state,
  mc,              \* message channels: "down", "starting", "up"
  active_orders,   \* makers that were sent a !fill
  ioauth_data,     \* makers whose !ioauth was accepted
  crypto_boxes,    \* nick -> "none", "good", "spoiled"
  fill_no,         \* number of fills accepted so far (identifies a fill)
  wire             \* replies the makers owe

daemonVars == <<jm_state, mc, active_orders, ioauth_data, crypto_boxes,
                fill_no, wire>>

WireRecs == [from : Makers, cmd : {"pubkey", "oldpubkey", "ioauth"}]
       \cup [from : Makers, cmd : {"sig"}, tx : Txs, input : Inputs]

Reply(m, c) == [from |-> m, cmd |-> c]

DaemonTypeOK ==
  /\ jm_state \in 0..4
  /\ mc \in {"down", "starting", "up"}
  /\ active_orders \in SUBSET Makers
  /\ ioauth_data \in SUBSET Makers
  /\ crypto_boxes \in [Makers -> {"none", "good", "spoiled"}]
  /\ fill_no \in Nat
  /\ wire \in SUBSET WireRecs

DaemonInit ==
  /\ jm_state = 0
  /\ mc = "down"
  /\ active_orders = {}
  /\ ioauth_data = {}
  /\ crypto_boxes = [m \in Makers |-> "none"]
  /\ fill_no = 0
  /\ wire = {}

(* The calls of the client that configure the session.  Every JMInit of    *)
(* one run carries the same chan_configs: only the first builds channels.  *)
on_JM_INIT ==
  /\ DaemonGets("JMInit")
  /\ up' = Tail(up)
  /\ down' = Append(down, [type |-> "JMInitProto"])
  /\ UNCHANGED <<timers, status, net, daemonVars>>

(* init_connections: jm_state is reset; with the channels already running  *)
(* the welcome is simulated at once.                                       *)
on_JM_START_MC ==
  /\ DaemonGets("JMStartMC")
  /\ up' = Tail(up)
  /\ jm_state' = 0
  /\ IF mc = "down"
       THEN mc' = "starting" /\ down' = down
       ELSE mc' = mc /\ down' = Append(down, [type |-> "JMUp"])
  /\ UNCHANGED <<timers, status, net, active_orders, ioauth_data, crypto_boxes,
                 fill_no, wire>>

on_welcome ==
  /\ Running
  /\ mc = "starting"
  /\ mc' = "up"
  /\ down' = Append(down, [type |-> "JMUp"])
  /\ UNCHANGED <<up, timers, status, net, jm_state, active_orders, ioauth_data,
                 crypto_boxes, fill_no, wire>>

(* A new key pair makes every encrypted reply in flight unreadable.        *)
Outdated(w) ==
  {Reply(r.from, "oldpubkey") : r \in {x \in w : x.cmd \in {"pubkey", "oldpubkey"}}}

NoBoxes == [m \in Makers |-> "none"]

(* Mutant: the key pair and the boxes of the previous session are kept.    *)
on_JM_SETUP_keeps_boxes ==
  /\ DaemonGets("JMSetup")
  /\ up' = Tail(up)
  /\ IF jm_state = 0
       THEN down' = Append(down, [type |-> "JMSetupDone"]) /\ jm_state' = 1
       ELSE UNCHANGED <<down, jm_state>>
  /\ UNCHANGED <<timers, status, net, mc, active_orders, ioauth_data,
                 crypto_boxes, fill_no, wire>>

(* `assert self.jm_state == 0` fails: the call is answered with an error   *)
(* that the client only logs, so the call is simply lost.                  *)
on_JM_SETUP ==
  /\ DaemonGets("JMSetup")
  /\ up' = Tail(up)
  /\ IF jm_state = 0
       THEN /\ crypto_boxes' = NoBoxes
            /\ wire' = Outdated(wire)
            /\ down' = Append(down, [type |-> "JMSetupDone"])
            /\ jm_state' = 1
       ELSE UNCHANGED <<crypto_boxes, wire, down, jm_state>>
  /\ UNCHANGED <<timers, status, net, mc, active_orders, ioauth_data, fill_no>>

on_JM_REQUEST_OFFERS ==
  /\ DaemonGets("JMRequestOffers")
  /\ up' = Tail(up)
  /\ down' = Append(down, [type |-> "JMOffers"])
  /\ UNCHANGED <<timers, status, net, daemonVars>>

(* A fill is accepted only in jm_state 1; the stage-1 timer it starts      *)
(* remembers, in the model only, which fill it belongs to.                 *)
on_JM_FILL ==
  /\ DaemonGets("JMFill")
  /\ up' = Tail(up)
  /\ IF jm_state # 1
       THEN /\ down' = Append(down, [type |-> "Rejected"])
            /\ UNCHANGED <<timers, jm_state, active_orders, ioauth_data,
                           fill_no, wire>>
       ELSE /\ active_orders' = Head(up).makers
            /\ ioauth_data' = {}
            /\ wire' = wire \cup {Reply(m, "pubkey") : m \in Head(up).makers}
            /\ fill_no' = fill_no + 1
            /\ timers' = Append(timers,
                 CallLater("completeStage1", MakerTimeout, fill_no + 1))
            /\ jm_state' = 2
            /\ down' = down
  /\ UNCHANGED <<status, net, mc, crypto_boxes>>

(* Stage 1: the makers' replies.                                           *)
on_pubkey(m, c) ==
  /\ Running
  /\ c \in {"pubkey", "oldpubkey"}
  /\ Reply(m, c) \in wire
  /\ IF m \in active_orders
       THEN /\ crypto_boxes' = [crypto_boxes EXCEPT ![m] =
                 IF c = "pubkey" THEN "good" ELSE "spoiled"]
            /\ wire' = (wire \ {Reply(m, c)}) \cup
                 (IF c = "pubkey" THEN {Reply(m, "ioauth")} ELSE {})
       ELSE wire' = wire \ {Reply(m, c)} /\ UNCHANGED crypto_boxes
  /\ UNCHANGED <<linkVars, jm_state, mc, active_orders, ioauth_data, fill_no>>

(* respondToIoauths: once per fill, whoever calls it first.                *)
respondToIoauths(accepted, data) ==
  IF jm_state # 2
    THEN UNCHANGED <<jm_state, down>>
    ELSE /\ jm_state' = 3
         /\ down' = Append(down, [type |-> "JMFillResponse",
                     success |-> accepted,
                     makers |-> IF accepted THEN data
                                            ELSE active_orders \ data])

on_ioauth(m) ==
  /\ Running
  /\ Reply(m, "ioauth") \in wire
  /\ wire' = wire \ {Reply(m, "ioauth")}
  /\ IF crypto_boxes[m] = "good" /\ m \in active_orders
       THEN /\ ioauth_data' = ioauth_data \cup {m}
            /\ IF ioauth_data' = active_orders
                 THEN respondToIoauths(TRUE, ioauth_data')
                 ELSE UNCHANGED <<jm_state, down>>
       ELSE UNCHANGED <<ioauth_data, jm_state, down>>
  /\ UNCHANGED <<up, timers, status, net, mc, active_orders, crypto_boxes, fill_no>>

(* The stage-1 timeout is not cancelled when stage 1 ends early.           *)
completeStage1 ==
  \E i \in 1..Len(timers) :
    /\ Fires(i, "completeStage1")
    /\ timers' = Without(timers, i)
    /\ respondToIoauths(Cardinality(ioauth_data) >= MinMakers, ioauth_data)
    /\ UNCHANGED <<up, status, net, mc, active_orders, ioauth_data, crypto_boxes,
                   fill_no, wire>>

(* The client's answer to JMFillResponse.  After a success the callback is *)
(* checkUtxosAccepted, which is given the answer's dictionary and not its  *)
(* 'accepted' entry, so any answer but an error moves to state 4; after a  *)
(* failure it is checkClientResponse.                                      *)
checkUtxosAccepted ==
  /\ DaemonGets("FillAnswer")
  /\ up' = Tail(up)
  /\ LET a == Head(up) IN
       /\ jm_state' = IF a.success /\ a.answer # "error" THEN 4 ELSE jm_state
       /\ status' = IF ~a.success /\ a.answer = "refused"
                      THEN "failed" ELSE status
  /\ UNCHANGED <<down, timers, net, mc, active_orders, ioauth_data, crypto_boxes,
                 fill_no, wire>>

(* Stage 2: the transaction goes to the makers, their signatures come back *)
on_JM_MAKE_TX ==
  /\ DaemonGets("JMMakeTx")
  /\ up' = Tail(up)
  /\ IF jm_state = 4
       THEN /\ wire' = wire \cup
                 {[from |-> m, cmd |-> "sig", tx |-> Head(up).tx, input |-> i] :
                     m \in {x \in Head(up).makers : crypto_boxes[x] = "good"},
                     i \in Inputs}
            /\ down' = down
       ELSE down' = Append(down, [type |-> "Rejected"]) /\ wire' = wire
  /\ UNCHANGED <<timers, status, net, jm_state, mc, active_orders, ioauth_data,
                 crypto_boxes, fill_no>>

(* mcc.push_tx: a maker is asked to broadcast; whether it does is up to it *)
on_JM_PushTx ==
  /\ DaemonGets("JMPushTx")
  /\ up' = Tail(up)
  /\ net' = [net EXCEPT ![Head(up).tx] = IF @ = "none" THEN "offered" ELSE @]
  /\ UNCHANGED <<down, timers, status, daemonVars>>

(* No state check at all: a signature is passed on whenever it decrypts.   *)
on_sig(r) ==
  /\ Running
  /\ r \in wire
  /\ r.cmd = "sig"
  /\ wire' = wire \ {r}
  /\ down' = IF crypto_boxes[r.from] = "good"
               THEN Append(down, [type |-> "JMSigReceived", nick |-> r.from,
                                  tx |-> r.tx, input |-> r.input])
               ELSE down
  /\ UNCHANGED <<up, timers, status, net, jm_state, mc, active_orders, ioauth_data,
                 crypto_boxes, fill_no>>

DaemonHandles ==
  \/ on_JM_INIT \/ on_JM_START_MC \/ on_welcome \/ on_JM_SETUP
  \/ on_JM_REQUEST_OFFERS \/ on_JM_FILL \/ checkUtxosAccepted
  \/ on_JM_MAKE_TX \/ on_JM_PushTx \/ completeStage1

MakerReplies ==
  \E r \in wire :
    \/ on_pubkey(r.from, r.cmd)
    \/ r.cmd = "ioauth" /\ on_ioauth(r.from)
    \/ on_sig(r)
============================================================================
