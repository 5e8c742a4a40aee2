--------------------------- MODULE PayjoinSender ---------------------------
(***************************************************************************)
(* The sender of a payjoin (payjoin.py, sender part; BIP78ClientProtocol   *)
(* and the sender part of BIP78ServerProtocol): the original payment is    *)
(* made and kept, with a call in a minute that broadcasts it; the daemon   *)
(* posts it to the receiver; an answer is an error, which brings on the    *)
(* fallback at once, or a proposal, which is checked, signed and           *)
(* broadcast.                                                              *)
(*                                                                         *)
(* On the command line a program makes one payment and ends when it is     *)
(* over; in the GUI payments may overlap, as the form is cleared as soon   *)
(* as the first is on its way.                                             *)
(***************************************************************************)
EXTENDS PayjoinTx

CONSTANT RouteChoices   \* the routes that a behaviour may begin with

VARIABLES
  smode,        \* "command-line" or "gui"
  route,        \* Attempts -> which of the two ends is this program
  run,          \* Attempts -> life of the program that makes the payment
  coin,         \* Attempts -> the coin that the original spends
  st,           \* Attempts -> JMPayjoinManager.pj_state
  timer,        \* the attempts whose timeout_fallback_dc is active
  reply,        \* Attempts -> what the daemon has for the client
  \* History, for the properties:
  told,         \* attempts whose user was told that no payment was made
  paid,         \* attempts that got a transaction into the mempool
  cosigned      \* [by, tx]: proposals that were signed and broadcast

senderVars == <<smode, route, run, coin, st, timer, reply, told, paid, cosigned>>

\* "both": sender and receiver are this program; "server": the receiver is
\* another program; "wallet": the sender is.
Routes == {"both", "server", "wallet"}

ASSUME RouteAssumption == RouteChoices \subseteq [Attempts -> Routes]

NoReply == [kind |-> "none", tx |-> Nobody]
Waiting == [kind |-> "waiting", tx |-> Nobody]
Taken == [kind |-> "taken", tx |-> Nobody]
Failure == [kind |-> "error", tx |-> Nobody]
Proposal(t) == [kind |-> "proposal", tx |-> t]

SenderInit ==
  /\ smode \in {"command-line", "gui"}
  /\ route \in RouteChoices
  /\ run = [a \in Attempts |-> "no"]
  /\ coin = [a \in Attempts |-> Nobody]
  /\ st = [a \in Attempts |-> "init"]
  /\ timer = {}
  /\ reply = [a \in Attempts |-> NoReply]
  /\ told = {} /\ paid = {} /\ cosigned = {}

Ours(a) == route[a] \in {"both", "server"}
initial_psbt(a) == Original(a, coin[a])
Running(a) == run[a] = "yes"

\* The URI of another receiver may forbid output substitution.
disable_output_substitution(a) == route[a] = "server"

-----------------------------------------------------------------------------
\* make_payment_psbt: a coin is chosen among those the wallet has not yet
\* seen spent; nothing reserves it.
make_payment_psbt(a, c) ==
  /\ \A t \in pool : c \notin t.coins
  /\ coin' = [coin EXCEPT ![a] = c]
  /\ st' = [st EXCEPT ![a] = "created"]

send_payjoin(a, c) ==
  /\ Ours(a) /\ run[a] = "no"
  /\ smode = "command-line" => \A b \in Attempts : ~Running(b)
  /\ make_payment_psbt(a, c)
  /\ timer' = timer \cup {a}
  /\ run' = [run EXCEPT ![a] = "yes"]
  /\ UNCHANGED <<pool, smode, route, reply, told, paid, cosigned>>

GoesOn == smode = "gui"

\* quit, and the end of process_payjoin_proposal_from_server: the program
\* ends, and with it every call that is outstanding.
process_shutdown(a) ==
  run' = IF GoesOn THEN run ELSE [run EXCEPT ![a] = "ended"]

\* No answer is left for the attempt: it was handled, or the program ended.
Handled(a, answered) ==
  reply' = IF answered \/ ~GoesOn THEN [reply EXCEPT ![a] = Taken] ELSE reply

\* Mutant: nobody is told that the fallback failed.
fallback_unreported(a, ok, active) ==
  /\ pushtx(initial_psbt(a), ok)
  /\ st' = IF ok THEN [st EXCEPT ![a] = "failed"] ELSE st
  /\ paid' = IF ok THEN paid \cup {a} ELSE paid
  /\ timer' = active \ {a}
  /\ process_shutdown(a)
  /\ UNCHANGED told

\* fallback_nonpayjoin_broadcast(err, manager); the caller takes the call that
\* fires from the timers.
fallback_nonpayjoin_broadcast(a, ok, active) ==
  /\ pushtx(initial_psbt(a), ok)
  /\ st' = IF ok THEN [st EXCEPT ![a] = "failed"] ELSE st
  /\ paid' = IF ok THEN paid \cup {a} ELSE paid
  /\ told' = IF ok THEN told ELSE told \cup {a}
  /\ timer' = IF ok \/ ~GoesOn THEN active \ {a} ELSE active
  /\ process_shutdown(a)

SenderTimeout(a, ok) ==
  /\ Running(a) /\ a \in timer
  /\ fallback_nonpayjoin_broadcast(a, ok, timer \ {a})
  /\ Handled(a, FALSE)
  /\ UNCHANGED <<smode, route, coin, cosigned>>

-----------------------------------------------------------------------------
(* The request and its answer. *)

\* connectionMade to postRequest, on the way through both halves of the link.
PostRequest(a) ==
  /\ Running(a)
  /\ reply[a] = NoReply
  /\ reply' = [reply EXCEPT ![a] = Waiting]

\* noResponse: only some failures are trapped, after the others the client
\* hears nothing.
NoResponse(a) ==
  /\ Ours(a) /\ Running(a)
  /\ reply[a] = Waiting
  /\ reply' = [reply EXCEPT ![a] = Failure]
  /\ UNCHANGED <<pool, smode, route, run, coin, st, timer, told, paid, cosigned>>

\* Another receiver answers; which proposal it makes is of no matter before
\* the client looks at it.
OtherServerAnswers(a, r) ==
  /\ route[a] = "server"
  /\ Running(a)
  /\ reply[a] = Waiting
  /\ reply' = [reply EXCEPT ![a] = r]
  /\ UNCHANGED <<pool, smode, route, run, coin, st, timer, told, paid, cosigned>>

process_error_from_server(a, ok) ==
  /\ Running(a)
  /\ reply[a].kind = "error"
  /\ Handled(a, TRUE)
  /\ fallback_nonpayjoin_broadcast(a, ok, timer)
  /\ UNCHANGED <<smode, route, coin, cosigned>>

\* A proposal that cannot be parsed brings on the fallback.
UnreadableProposal(a, ok) ==
  /\ Running(a) /\ route[a] = "server"
  /\ reply[a].kind = "proposal"
  /\ Handled(a, TRUE)
  /\ fallback_nonpayjoin_broadcast(a, ok, timer)
  /\ UNCHANGED <<smode, route, coin, cosigned>>

\* sign_psbt: the result is final when all inputs are ours or signed.
is_final(a, p) == coin[a] \in p.coins

\* The fallback is called with its arguments in the wrong places, or the
\* assertion that the result is final fails: the handler raises, and what is
\* left is the call in a minute.
ProposalRefused(a, p) ==
  /\ ~(is_final(a, p) /\ check_receiver_proposal(initial_psbt(a), p,
                                                 disable_output_substitution(a)))
  /\ UNCHANGED <<pool, run, st, timer, told, paid, cosigned>>

BroadcastPayjoin(a, p) ==
  /\ pushtx(p, TRUE)
  /\ st' = [st EXCEPT ![a] = "broadcast"]
  /\ timer' = timer \ {a}
  /\ paid' = paid \cup {a}
  /\ cosigned' = cosigned \cup {[by |-> a, tx |-> p]}
  /\ process_shutdown(a)
  /\ UNCHANGED told

\* Mutant: a failed push ends the wait for the fallback.
PayjoinGivenUp(a, p) ==
  /\ pushtx(p, FALSE)
  /\ st' = [st EXCEPT ![a] = "cosigned"]
  /\ timer' = timer \ {a}
  /\ process_shutdown(a)
  /\ UNCHANGED <<told, paid, cosigned>>

\* The push fails: in the GUI the call in a minute is left, on the command
\* line the program ends all the same.
PayjoinNotBroadcast(a, p) ==
  /\ pushtx(p, FALSE)
  /\ st' = [st EXCEPT ![a] = "cosigned"]
  /\ timer' = IF GoesOn THEN timer ELSE timer \ {a}
  /\ process_shutdown(a)
  /\ UNCHANGED <<told, paid, cosigned>>

process_payjoin_proposal(a, p) ==
  \/ ProposalRefused(a, p)
  \/ /\ is_final(a, p)
     /\ check_receiver_proposal(initial_psbt(a), p, disable_output_substitution(a))
     /\ BroadcastPayjoin(a, p) \/ PayjoinNotBroadcast(a, p)

process_payjoin_proposal_from_server(a) ==
  /\ Running(a)
  /\ reply[a].kind = "proposal"
  /\ Handled(a, TRUE)
  /\ \E p \in IF route[a] = "server" THEN OtherProposals(initial_psbt(a))
                                     ELSE {reply[a].tx} :
       process_payjoin_proposal(a, p)
  /\ UNCHANGED <<smode, route, coin>>

\* The program is killed: in the GUI with all its payments.
SenderKilled ==
  /\ \E a \in Attempts : Ours(a) /\ Running(a)
  /\ run' = [a \in Attempts |-> IF Ours(a) /\ Running(a) THEN "killed" ELSE run[a]]
  /\ reply' = [a \in Attempts |-> IF Ours(a) /\ Running(a) THEN Taken ELSE reply[a]]
  /\ timer' = timer \ {a \in Attempts : Ours(a)}
  /\ UNCHANGED <<pool, smode, route, coin, st, told, paid, cosigned>>

-----------------------------------------------------------------------------
(* The other end, when it is another program. *)

\* Another receiver has a fallback of its own.
OtherServerPushes(a) ==
  /\ route[a] = "server" /\ reply[a].kind \in {"proposal", "taken"}
  /\ initial_psbt(a) \notin pool
  /\ pushtx(initial_psbt(a), TRUE)
  /\ UNCHANGED senderVars

OtherWalletStarts(a, c) ==
  /\ route[a] = "wallet" /\ run[a] = "no"
  /\ run' = [run EXCEPT ![a] = "yes"]
  /\ coin' = [coin EXCEPT ![a] = c]
  /\ UNCHANGED <<pool, smode, route, st, timer, reply, told, paid, cosigned>>

\* It may broadcast its payment, or the proposal it was given, at any time.
OtherWalletPushes(a, t) ==
  /\ route[a] = "wallet" /\ Running(a)
  /\ t \notin pool
  /\ pushtx(t, TRUE)
  /\ UNCHANGED senderVars

SenderTypeOK ==
  /\ smode \in {"command-line", "gui"}
  /\ route \in [Attempts -> Routes]
  /\ run \in [Attempts -> {"no", "yes", "ended", "killed"}]
  /\ st \in [Attempts -> {"init", "created", "cosigned", "broadcast", "failed"}]
  /\ timer \cup told \cup paid \subseteq Attempts
  /\ \A a \in Attempts :
       reply[a].kind \in {"none", "waiting", "error", "proposal", "taken"}
=============================================================================
