-------------------------- MODULE PayjoinReceiver --------------------------
(***************************************************************************)
(* The receiver of a payjoin: its client (PayjoinConverter and             *)
(* JMBIP78ReceiverManager in payjoin.py), its daemon (BIP78ReceiverResource*)
(* and the receiver part of BIP78ServerProtocol in daemon_protocol.py) and *)
(* the link between them.                                                  *)
(*                                                                         *)
(* One manager serves every request: the original, the change output and   *)
(* the fallback call it remembers are those of the last one.  The daemon   *)
(* remembers one HTTP request, to which it writes whatever answer comes.   *)
(* A handler that raises makes AMP close the link; the onion service is    *)
(* left open, also by the shutdown of a receiver in the GUI.               *)
(***************************************************************************)
EXTENDS PayjoinSender, Sequences, SequencesExt

VARIABLES
  rmode,        \* "command-line" or "gui"
  rup,          \* the receiving program runs
  link,         \* client and daemon are connected
  initial,      \* manager.initial_psbt: the attempt it came from
  change_out,   \* manager.change_out
  rtimers,      \* fallback calls that are active, the oldest first
  rtimer,       \* manager.timeout_fallback_dc: the attempt it was made for
  watch,        \* proposals with an end_receipt callback
  coinFree,     \* the wallet still has its coin
  post_request, \* the daemon's HTTP request
  finished,     \* requests that were answered
  inbox,        \* originals on the way from the daemon to the client
  outbox,       \* answers on the way back
  ending,       \* an end_failure call is due
  owed          \* History: a fallback was promised for the last original

receiverVars == <<rmode, rup, link, initial, change_out, rtimers, rtimer, watch,
                  coinFree, post_request, finished, inbox, outbox, ending, owed>>

NoChange == Tx(Nobody, {}, 0, 0, 0)

ReceiverInit ==
  /\ rmode \in {"command-line", "gui"}
  /\ rup = TRUE /\ link = TRUE
  /\ initial = Nobody /\ change_out = NoChange
  /\ rtimers = <<>> /\ rtimer = Nobody
  /\ watch = {} /\ coinFree = TRUE
  /\ post_request = Nobody /\ finished = {}
  /\ inbox = <<>> /\ outbox = <<>>
  /\ ending = FALSE /\ owed = FALSE

Without(s, a) == SelectSeq(s, LAMBDA b : b # a)

-----------------------------------------------------------------------------
(* The daemon. *)

\* render_POST and post_request_handler; without a link the request hangs.
render_POST(a) ==
  /\ route[a] \in {"both", "wallet"}
  /\ rup
  /\ PostRequest(a)
  /\ post_request' = a
  /\ inbox' = IF link THEN Append(inbox, a) ELSE inbox
  /\ UNCHANGED <<pool, smode, route, run, coin, st, timer, told, paid, cosigned,
                 rmode, rup, link, initial, change_out, rtimers, rtimer, watch,
                 coinFree, finished, outbox, ending, owed>>

LinkLost == link' = FALSE /\ inbox' = <<>> /\ outbox' = <<>>

\* on_BIP78_RECEIVER_SEND_PROPOSAL, on_BIP78_RECEIVER_SEND_ERROR: the answer
\* goes to the request that came last.  Some errors end the service later;
\* what another wallet makes of an error is of no matter here.
write(answer) ==
  /\ reply' = IF /\ reply[post_request] = Waiting
                 /\ Ours(post_request) \/ answer.reply # Failure
                THEN [reply EXCEPT ![post_request] = answer.reply] ELSE reply
  /\ finished' = finished \cup {post_request}
  /\ ending' = (ending \/ answer.ends)

SendAnswer ==
  /\ rup /\ outbox # <<>>
  /\ \/ /\ post_request \notin finished
        /\ write(Head(outbox))
        /\ outbox' = Tail(outbox)
        /\ UNCHANGED <<link, inbox>>
     \/ /\ post_request \in finished \/ ~Running(post_request)
        /\ LinkLost
        /\ ending' = (ending \/ Head(outbox).ends)
        /\ UNCHANGED <<reply, finished>>
  /\ UNCHANGED <<pool, smode, route, run, coin, st, timer, told, paid, cosigned,
                 rmode, rup, initial, change_out, rtimers, rtimer, watch,
                 coinFree, post_request, owed>>

-----------------------------------------------------------------------------
(* The client. *)

Reject == [reply |-> Failure, ends |-> TRUE]
Unavailable == [reply |-> Failure, ends |-> FALSE]
Propose(t) == [reply |-> Proposal(t), ends |-> FALSE]

Answer(ans) ==
  /\ inbox' = Tail(inbox)
  /\ outbox' = Append(outbox, ans)
  /\ UNCHANGED link

\* set_payment_tx_and_psbt: the original is kept before it is checked; the
\* change output of an earlier one stays if this one has none.
set_payment_tx_and_psbt(a) ==
  /\ initial' = a
  /\ change_out' = IF initial_psbt(a).chg = Nobody THEN change_out
                                                   ELSE initial_psbt(a)

\* The checks before the fallback call is made: the version, which only
\* another wallet may have wrong, then form, script types, parameters and
\* mempool.
RefuseOriginal(a) ==
  /\ Answer(Reject)
  /\ \/ ~Ours(a) /\ UNCHANGED <<initial, change_out>>
     \/ set_payment_tx_and_psbt(a)
  /\ UNCHANGED <<rtimers, rtimer, watch, owed>>

\* The original is accepted: a call in a minute will broadcast it.
ScheduleFallback(a) ==
  /\ rtimers' = Append(rtimers, a)
  /\ rtimer' = a
  /\ owed' = TRUE

\* The rest of request_to_psbt: there is no coin; or the name change_out is not
\* bound, or a stale one has the wrong index, and the handler raises; or the
\* fee rate is refused; or a proposal is made and its transaction awaited.
\* The fee is taken from the change if the sender asked for that.
ConvertOriginal(a) ==
  LET o == initial_psbt(a)
      made == IF o.chg # Nobody
                THEN {payjoin_psbt(o, FeeBump(allowed)) : allowed \in {TRUE, ~Ours(a)}}
                ELSE IF change_out # NoChange
                       THEN {payjoin_psbt_stale(o, change_out)} ELSE {}
  IN  \/ /\ ~coinFree
         /\ Answer(Unavailable)
         /\ UNCHANGED watch
      \/ /\ coinFree
         /\ Answer(Reject)
         /\ UNCHANGED watch
      \/ /\ coinFree
         /\ o.chg = Nobody
         /\ LinkLost
         /\ UNCHANGED watch
      \/ /\ coinFree
         /\ \E p \in made : Answer(Propose(p)) /\ watch' = watch \cup {p}

\* on_BIP78_RECEIVER_ORIGINAL_PSBT, receive_proposal_from_sender.
request_to_psbt ==
  /\ rup /\ inbox # <<>>
  /\ LET a == Head(inbox)
     IN  \/ RefuseOriginal(a)
         \/ /\ testmempoolaccept(initial_psbt(a))
            /\ set_payment_tx_and_psbt(a)
            /\ ScheduleFallback(a)
            /\ ConvertOriginal(a)
  /\ UNCHANGED <<pool, senderVars, rmode, rup, coinFree, post_request, finished,
                 ending>>

\* process_shutdown on the command line.
ReceiverEnds ==
  /\ rup' = FALSE /\ rtimers' = <<>> /\ owed' = FALSE
  /\ initial' = Nobody /\ change_out' = NoChange /\ rtimer' = Nobody
  /\ watch' = {} /\ coinFree' = FALSE
  /\ post_request' = Nobody /\ finished' = {}
  /\ LinkLost
  /\ ending' = FALSE

\* shutdown in the GUI: the last fallback call is cancelled, and nothing else.
shutdown ==
  /\ rtimers' = Without(rtimers, rtimer)
  /\ owed' = FALSE
  /\ UNCHANGED <<rup, initial, change_out, rtimer, post_request, finished>>

\* end_receipt: the wallet has seen the transaction of a proposal.
end_receipt(t) ==
  /\ rup
  /\ t \in watch \cap pool
  /\ \/ rmode = "command-line" /\ ReceiverEnds
     \/ /\ rmode = "gui"
        /\ shutdown
        /\ watch' = watch \ {t}
        /\ coinFree' = FALSE
        /\ UNCHANGED <<link, inbox, outbox, ending>>
  /\ UNCHANGED <<pool, senderVars, rmode>>

\* end_failure, two seconds after an error, and the message to the client,
\* which does not arrive without a link.
end_failure ==
  /\ rup /\ ending
  /\ \/ link /\ rmode = "command-line" /\ ReceiverEnds
     \/ /\ link /\ rmode = "gui"
        /\ shutdown
        /\ ending' = FALSE
        /\ UNCHANGED <<link, inbox, outbox, watch, coinFree>>
     \/ /\ ~link
        /\ ending' = FALSE
        /\ UNCHANGED <<rup, link, initial, change_out, rtimers, rtimer, watch,
                       coinFree, post_request, finished, inbox, outbox, owed>>
  /\ UNCHANGED <<pool, senderVars, rmode>>

\* The dialog is cancelled.
stopReceiver ==
  /\ rup /\ rmode = "gui"
  /\ rtimers # <<>>
  /\ shutdown
  /\ UNCHANGED <<pool, senderVars, rmode, link, watch, coinFree, inbox, outbox,
                 ending>>

\* fallback_nonpayjoin_broadcast at the receiver: whichever call is due, it is
\* the last original that is broadcast.
ReceiverTimeout(ok) ==
  /\ rup /\ rtimers # <<>>
  /\ pushtx(initial_psbt(initial), ok)
  /\ \/ rmode = "command-line" /\ ReceiverEnds
     \/ /\ rmode = "gui"
        /\ rtimers' = IF ok THEN Without(Tail(rtimers), rtimer) ELSE Tail(rtimers)
        /\ owed' = FALSE
        /\ UNCHANGED <<rup, link, initial, change_out, rtimer, watch, coinFree,
                       post_request, finished, inbox, outbox, ending>>
  /\ UNCHANGED <<senderVars, rmode>>

ReceiverKilled ==
  /\ rup
  /\ ReceiverEnds
  /\ UNCHANGED <<pool, senderVars, rmode>>

ReceiverTypeOK ==
  /\ rmode \in {"command-line", "gui"}
  /\ {rup, link, coinFree, ending, owed} \subseteq BOOLEAN
  /\ {initial, rtimer, post_request} \subseteq Attempts \cup {Nobody}
  /\ finished \subseteq Attempts
  /\ rtimers \in Seq(Attempts) /\ inbox \in Seq(Attempts)
=============================================================================
