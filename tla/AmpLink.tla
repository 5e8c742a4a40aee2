------------------------------ MODULE AmpLink ------------------------------
(***************************************************************************)
(* What the taker client and the JoinMarket daemon share: the AMP          *)
(* connection, which delivers the calls of each side in order, and the     *)
(* Twisted reactor with its delayed calls.  With no_daemon = 1, the        *)
(* default, both sides run in one process and one reactor, so one          *)
(* reactor.stop() ends both: `status` is that reactor.                     *)
(*                                                                         *)
(* An AMP answer {'accepted': True} to a call changes nothing at the       *)
(* caller and is left out; the answers that do change something are        *)
(* messages of their own: "Rejected" (accepted False, sent to the client)  *)
(* and "FillAnswer" (the client's answer to JMFillResponse).               *)
(***************************************************************************)
EXTENDS Integers, Sequences, FiniteSets

CONSTANTS
  Makers,          \* nicks of the makers whose offers are in the orderbook
  Inputs,          \* the inputs each maker contributes
  MinMakers,       \* POLICY/minimum_makers
  MakerTimeout,    \* TIMEOUT/maker_timeout_sec, in ticks
  PromptLink,      \* TRUE: a local call takes less than a tick
  MaxTxs           \* bound: transactions built in one behaviour

ASSUME LinkAssumption ==
  /\ Makers # {} /\ IsFiniteSet(Makers)
  /\ Inputs # {} /\ IsFiniteSet(Inputs)
  /\ MinMakers \in Nat
  /\ MakerTimeout \in Nat \ {0}
  /\ PromptLink \in BOOLEAN
  /\ MaxTxs \in Nat \ {0}

VARIABLES
  up,       \* calls in flight from the client to the daemon
  down,     \* calls in flight from the daemon to the client
  timers,   \* delayed calls of the reactor, in the order they were made
  status,   \* "running", or why the reactor was stopped: "failed", "done"
  net       \* tx -> where it is: "none", "offered" to a maker to broadcast,
            \* in the "mempool", "seen" there by our wallet, "confirmed"

linkVars == <<up, down, timers, status, net>>

Txs == 1..MaxTxs
NoTx == 0

UpMessages ==
       [type : {"JMInit", "JMStartMC", "JMSetup", "JMRequestOffers"}]
  \cup [type : {"JMFill"}, makers : SUBSET Makers]
  \cup [type : {"JMMakeTx"}, makers : SUBSET Makers, tx : Txs]
  \cup [type : {"JMPushTx"}, tx : Txs]
  \cup [type : {"FillAnswer"}, answer : {"accepted", "refused", "error"},
        success : BOOLEAN]

DownMessages ==
       [type : {"JMInitProto", "JMUp", "JMSetupDone", "JMOffers", "Rejected"}]
  \cup [type : {"JMFillResponse"}, success : BOOLEAN, makers : SUBSET Makers]
  \cup [type : {"JMSigReceived"}, nick : Makers, tx : Txs, input : Inputs]

(***************************************************************************)
(* reactor.callLater(delay, kind, arg).  A delayed call is due when `left` *)
(* ticks have passed.  Two calls with the same delay fire in the order in  *)
(* which they were made, whatever tick they fall in; of two due calls with *)
(* different delays either may be the earlier one.                         *)
(***************************************************************************)
TxTimers == {"make_tx", "handle_unbroadcast"}      \* arg is a transaction
OtherTimers == {"clientStart", "stallMonitor", "get_offers", "completeStage1"}

TimerRecs ==
       [kind : TxTimers, delay : Nat, left : Nat, arg : Txs,
        makers : SUBSET Makers]
  \cup [kind : OtherTimers, delay : Nat, left : Nat, arg : Int,
        makers : SUBSET Makers]

CallLater(kind, delay, arg) ==
  [kind |-> kind, delay |-> delay, left |-> delay, arg |-> arg,
   makers |-> {}]

Running == status = "running"

Due(i) ==
  /\ timers[i].left = 0
  /\ \A j \in 1..(i - 1) :
        timers[j].left > 0 \/ timers[j].delay # timers[i].delay

Without(s, i) ==
  [j \in 1..(Len(s) - 1) |-> IF j < i THEN s[j] ELSE s[j + 1]]

(* The i-th delayed call is of this kind and may run now.                  *)
Fires(i, kind) ==
  /\ Running
  /\ timers[i].kind = kind
  /\ Due(i)

(* Time passes only while no delayed call is overdue and, if the link is   *)
(* prompt, no call is in flight.                                           *)
Tick ==
  /\ Running
  /\ PromptLink => up = <<>> /\ down = <<>>
  /\ timers # <<>>
  /\ \A i \in 1..Len(timers) : timers[i].left > 0
  /\ timers' = [i \in 1..Len(timers) |->
                  [timers[i] EXCEPT !.left = @ - 1]]
  /\ UNCHANGED <<up, down, status, net>>

(* The call at the head of a queue is the one its receiver handles next.   *)
DaemonGets(type) == Running /\ up # <<>> /\ Head(up).type = type
ClientGets(type) == Running /\ down # <<>> /\ Head(down).type = type

LinkTypeOK ==
  /\ up \in Seq(UpMessages)
  /\ down \in Seq(DownMessages)
  /\ timers \in Seq(TimerRecs)
  /\ status \in {"running", "failed", "done"}
  /\ net \in [Txs -> {"none", "offered", "mempool", "seen",
                     "confirmed"}]

LinkInit ==
  /\ up = <<>>
  /\ down = <<>>
  /\ timers = <<CallLater("clientStart", 0, 0)>>
  /\ status = "running"
  /\ net = [t \in Txs |-> "none"]
============================================================================
