------------------------------- MODULE OnionPeers -------------------------------
(***************************************************************************)
(* The onion message channel of a maker's daemon (src/jmdaemon/onionmc.py) *)
(* and its connections to the configured directory nodes: the onion        *)
(* service that must be up first (src/jmbase/twisted_utils.py), dialling   *)
(* and backing off, the handshake, the health ping, the wait for the first *)
(* directories, and the hook by which a directory that comes back is told  *)
(* the maker's offers.                                                     *)
(*                                                                         *)
(* One OnionDirectoryPeer object per directory exists for the life of the  *)
(* channel.  Around it act Twisted's ClientService (the dialling), the     *)
(* network and the directory itself, which are external: a dial may fail,  *)
(* a connection may end at any moment, or the other end may disappear      *)
(* without a sign.  Times are abstracted to what may happen in which       *)
(* order: a timer that runs may fire.                                      *)
(***************************************************************************)
EXTENDS Naturals, Sequences, FiniteSets

CONSTANTS
  Dirs,       \* the configured directory nodes
  PingDirs,   \* those whose handshake advertises the health ping
  Answers,    \* [Dirs -> SUBSET AnswerKinds]: how each answers a handshake
  WaitTicks   \* calls of wait_for_directories until its timeout

AnswerKinds == {"dn_ok", "dn_reject", "dn_network", "garbled"}

ASSUME DirsAssumption == IsFiniteSet(Dirs) /\ Dirs # {}
ASSUME PingDirsAssumption == PingDirs \subseteq Dirs
ASSUME AnswersAssumption == Answers \in [Dirs -> (SUBSET AnswerKinds) \ {{}}]
ASSUME WaitTicksAssumption == WaitTicks \in Nat /\ WaitTicks > 1

VARIABLES
  onion,          \* our onion service, and then our onion_hostname
  up,             \* a directory is reachable (environment)
  conn,           \* the TCP connection to it: "none", "open", or "dead"
  toDir, toUs,    \* messages on that connection, each way
  closing,        \* loseConnection was called, connectionLost not yet
  service,        \* reconnecting_service of the peer
  status,         \* OnionPeer._status
  connecting,     \* OnionPeer.connecting
  reconnect_call, \* OnionDirectoryPeer.reconnect_call is active
  awaiting_pong, health_check_closing,
  wait_loop, directory_wait_counter, directory_wait_failed,
  on_welcome_sent,
  welcome_calls,       \* calls of on_welcome so far (2: more than one)
  extra_peer,     \* a peer that is no directory is in self.peers
  hooks,          \* directories with a _fire_directory_peer_connected call due
  offerlist,      \* the daemon has the maker's offers
  sent,           \* the current ones were published on the connection
  give_up

peerVars == <<service, status, connecting, reconnect_call, awaiting_pong,
              health_check_closing>>
netVars == <<up, conn, toDir, toUs, closing>>
waitVars == <<wait_loop, directory_wait_counter, directory_wait_failed,
              on_welcome_sent, welcome_calls, extra_peer>>
offerVars == <<hooks, offerlist, sent>>
onionVars == <<onion, peerVars, netVars, waitVars, offerVars, give_up>>

OnionTypeOK ==
  /\ onion \in {"connecting", "creating", "failed", "named", "known"}
  /\ up \in [Dirs -> BOOLEAN]
  /\ conn \in [Dirs -> {"none", "open", "dead"}]
  /\ toDir \in [Dirs -> Seq({"handshake", "ping"})]
  /\ toUs \in [Dirs -> Seq(AnswerKinds \cup {"pong"})]
  /\ closing \in [Dirs -> BOOLEAN]
  /\ service \in [Dirs -> {"none", "dialing", "retrying", "up", "stopped"}]
  /\ status \in [Dirs -> {"UNCONNECTED", "CONNECTED", "HANDSHAKED", "DISCONNECTED"}]
  /\ connecting \in [Dirs -> BOOLEAN]
  /\ reconnect_call \in [Dirs -> BOOLEAN]
  /\ awaiting_pong \in [Dirs -> BOOLEAN]
  /\ health_check_closing \in [Dirs -> BOOLEAN]
  /\ wait_loop \in {"off", "running", "stopped"}
  /\ directory_wait_counter \in 0..WaitTicks
  /\ directory_wait_failed \in BOOLEAN /\ on_welcome_sent \in BOOLEAN
  /\ welcome_calls \in 0..2
  /\ extra_peer \in BOOLEAN
  /\ hooks \subseteq Dirs
  /\ offerlist \in BOOLEAN /\ sent \in [Dirs -> BOOLEAN]
  /\ give_up \in BOOLEAN

(* One OnionDirectoryPeer per configured directory *)
PeerInit ==
  /\ service = [d \in Dirs |-> "none"]
  /\ status = [d \in Dirs |-> "UNCONNECTED"]
  /\ connecting = [d \in Dirs |-> FALSE]
  /\ reconnect_call = [d \in Dirs |-> FALSE]
  /\ awaiting_pong = [d \in Dirs |-> FALSE]
  /\ health_check_closing = [d \in Dirs |-> FALSE]

(* The channel object is made: OnionMessageChannel.__init__.  One that     *)
(* serves calls start_tor; one that does not has a dummy name at once.     *)
OnionInit ==
  /\ PeerInit
  /\ onion \in {"connecting", "named"}
  /\ up \in [Dirs -> BOOLEAN]
  /\ conn = [d \in Dirs |-> "none"]
  /\ toDir = [d \in Dirs |-> <<>>] /\ toUs = [d \in Dirs |-> <<>>]
  /\ closing = [d \in Dirs |-> FALSE]
  /\ wait_loop = "off" /\ directory_wait_counter = 0
  /\ directory_wait_failed = FALSE /\ on_welcome_sent = FALSE
  /\ welcome_calls = 0 /\ extra_peer = FALSE
  /\ hooks = {} /\ offerlist = FALSE /\ sent = [d \in Dirs |-> FALSE]
  /\ give_up = FALSE

-----------------------------------------------------------------------------
(* Peers: helpers *)

get_connected_directory_peers == {d \in Dirs : status[d] = "HANDSHAKED"}

Peers == Cardinality(Dirs) + (IF extra_peer THEN 1 ELSE 0)

(* update_status: the updates that are ignored, and else the new status    *)
Ignored == {<<"HANDSHAKED", "CONNECTED">>, <<"DISCONNECTED", "DISCONNECTED">>}

update_status(d, s) ==
  status' = [status EXCEPT ![d] = IF <<@, s>> \in Ignored THEN @ ELSE s]

(* connect does nothing for a peer that is connected or being connected    *)
connect(ds) ==
  LET go == {d \in ds : ~connecting[d] /\ status[d] \notin {"CONNECTED", "HANDSHAKED"}}
  IN /\ connecting' = [d \in Dirs |-> connecting[d] \/ d \in go]
     /\ service' = [d \in Dirs |-> IF d \in go THEN "dialing" ELSE service[d]]

(* A directory's try_to_connect: the call it schedules, unless one is due  *)
try_to_connect(d) == reconnect_call' = [reconnect_call EXCEPT ![d] = TRUE]

(* A completed handshake cancels the call *)
reset_reconnect_delay(d) == reconnect_call' = [reconnect_call EXCEPT ![d] = FALSE]

(* The four fields register_disconnection and a new handshake clear        *)
clear_ping(d) ==
  /\ awaiting_pong' = [awaiting_pong EXCEPT ![d] = FALSE]
  /\ health_check_closing' = [health_check_closing EXCEPT ![d] = FALSE]

(* stopService of Twisted's ClientService: a dial is abandoned, and its    *)
(* whenConnected fails with an error respond_to_connection_failure does    *)
(* not trap; a connection is closed.                                       *)
stopService(ds) ==
  LET dialing == {d \in ds : service[d] \in {"dialing", "retrying"}}
      live == {d \in ds : service[d] = "up"}
  IN /\ service' = [d \in Dirs |-> IF d \in dialing THEN "stopped" ELSE service[d]]
     /\ connecting' = [d \in Dirs |-> connecting[d] /\ d \notin dialing]
     /\ closing' = [d \in Dirs |-> closing[d] \/ d \in live]

(* disconnect, for a peer with an outgoing connection; when it has ended,  *)
(* complete_disconnection finds the status DISCONNECTED already.           *)
disconnect(d) ==
  stopService({d} \ {e \in Dirs : status[e] \in {"UNCONNECTED", "DISCONNECTED"}})

(* What is sent to a peer goes to the protocol its factory holds, which is *)
(* there from connectionMade to connectionLost.                            *)
HasProtocol(d) == conn[d] # "none"

(* OnionPeer.send: handed to the transport, or reported unsendable         *)
send(d) == HasProtocol(d)

(* _pubmsg and pubmsg_to_directory: every directory with a connection,     *)
(* whether or not its handshake is complete, gets the line.                *)
publish(ds) == sent' = [d \in Dirs |-> IF d \in ds THEN send(d) ELSE sent[d]]

-----------------------------------------------------------------------------
(* The onion service.  When its setup fails the deferred goes on without   *)
(* an onion: the port is opened, and reading the hostname raises.          *)

otherVars == <<peerVars, netVars, waitVars, offerVars, give_up>>

create_onion_ep ==
  /\ onion = "connecting" /\ onion' = "creating"
  /\ UNCHANGED otherVars

setup_failed ==
  /\ onion \in {"connecting", "creating"} /\ onion' = "failed"
  /\ UNCHANGED otherVars

(* onion_listen, print_host and onion_hostname_callback *)
onion_listen ==
  /\ onion = "creating" /\ onion' = "named"
  /\ UNCHANGED otherVars

(* The loop that run starts: the name is there, and the directories are    *)
(* none of us; connect_to_directories is next.                             *)
check_onion_hostname ==
  /\ onion = "named" /\ onion' = "known"
  /\ UNCHANGED otherVars

-----------------------------------------------------------------------------
(* Start, dialling, and what the service reports *)

connect_to_directories ==
  /\ onion = "known" /\ wait_loop = "off"
  /\ connect(Dirs)
  /\ wait_loop' = "running" /\ directory_wait_counter' = 1
  /\ on_welcome_sent' = FALSE /\ directory_wait_failed' = FALSE
  /\ UNCHANGED <<netVars, offerVars, status, reconnect_call, awaiting_pong,
                 health_check_closing, welcome_calls, extra_peer, give_up, onion>>

reattempt_connection(d) ==
  /\ reconnect_call[d]
  /\ reconnect_call' = [reconnect_call EXCEPT ![d] = FALSE]
  /\ connect({d})
  /\ UNCHANGED <<netVars, waitVars, offerVars, status, awaiting_pong,
                 health_check_closing, give_up, onion>>

handshake_as_client(d) == toDir' = [toDir EXCEPT ![d] = Append(@, "handshake")]

(* The control message "connect" to ourselves: add_peer sets the status of *)
(* the peer, and that sends the handshake.                                 *)
process_connect(d) ==
  /\ update_status(d, "CONNECTED")
  /\ connecting' = [connecting EXCEPT ![d] = FALSE]
  /\ handshake_as_client(d)

(* connectionMade *)
register_connection(d) ==
  /\ service[d] \in {"dialing", "retrying"} /\ up[d]
  /\ conn' = [conn EXCEPT ![d] = "open"]
  /\ service' = [service EXCEPT ![d] = "up"]
  /\ process_connect(d)
  /\ UNCHANGED <<up, toUs, closing, waitVars, offerVars, reconnect_call,
                 awaiting_pong, health_check_closing, give_up, onion>>

(* mutant: a failed dial of a directory is not tried again                 *)
respond_to_connection_failure_giving_up(d, trapped) ==
  /\ service[d] = "dialing"
  /\ connecting' = [connecting EXCEPT ![d] = FALSE]
  /\ service' = [service EXCEPT ![d] = IF trapped THEN "stopped" ELSE "retrying"]
  /\ UNCHANGED <<netVars, waitVars, offerVars, status, reconnect_call,
                 awaiting_pong, health_check_closing, give_up, onion>>

(* The first failure of a dial.  The errors of an unreachable onion are    *)
(* trapped: the service is stopped and a directory gets a new attempt      *)
(* later.  Any other error passes through, and the service itself goes on. *)
respond_to_connection_failure(d, trapped) ==
  /\ service[d] = "dialing"
  /\ connecting' = [connecting EXCEPT ![d] = FALSE]
  /\ service' = [service EXCEPT ![d] = IF trapped THEN "stopped" ELSE "retrying"]
  /\ IF trapped THEN try_to_connect(d) ELSE UNCHANGED reconnect_call
  /\ UNCHANGED <<netVars, waitVars, offerVars, status, awaiting_pong,
                 health_check_closing, give_up, onion>>

(* The control message "disconnect": here a directory's loss changes its   *)
(* status.  The collection also hears that the directory's own nick has    *)
(* left, with which nobody trades.                                         *)
process_disconnect(d) == update_status(d, "DISCONNECTED")

(* connectionLost, for whatever reason the connection ended                *)
register_disconnection(d) ==
  /\ conn[d] # "none"
  /\ conn' = [conn EXCEPT ![d] = "none"]
  /\ closing' = [closing EXCEPT ![d] = FALSE]
  /\ toDir' = [toDir EXCEPT ![d] = <<>>] /\ toUs' = [toUs EXCEPT ![d] = <<>>]
  /\ service' = [service EXCEPT ![d] = "stopped"]
  /\ process_disconnect(d)
  /\ clear_ping(d)
  /\ try_to_connect(d)
  /\ sent' = [sent EXCEPT ![d] = FALSE]
  /\ UNCHANGED <<up, connecting, waitVars, hooks, offerlist, give_up, onion>>

-----------------------------------------------------------------------------
(* Messages of a directory *)

Received(d) ==
  /\ conn[d] # "none" /\ toUs[d] # <<>>
  /\ toUs' = [toUs EXCEPT ![d] = Tail(@)]

(* on_welcome of the collection; the flag keeps it from happening again    *)
Welcome ==
  /\ welcome_calls' = IF welcome_calls = 2 THEN 2 ELSE welcome_calls + 1
  /\ on_welcome_sent' = TRUE

(* mutant: the hook is left to the wait loop *)
after_handshake_no_hook(d) ==
  /\ UNCHANGED <<hooks, wait_loop, directory_wait_counter, extra_peer>>
  /\ IF directory_wait_failed
       THEN Welcome /\ directory_wait_failed' = FALSE
       ELSE UNCHANGED <<welcome_calls, on_welcome_sent, directory_wait_failed>>

(* mutant: the failed wait is final *)
after_handshake_final(d) ==
  /\ hooks' = IF on_welcome_sent THEN hooks \cup {d} ELSE hooks
  /\ UNCHANGED waitVars

(* What a completed handshake sets off: the hook once the channel is in    *)
(* use, the overdue welcome when the wait for directories had failed.      *)
after_handshake(d) ==
  IF on_welcome_sent
    THEN hooks' = hooks \cup {d} /\ UNCHANGED waitVars
    ELSE /\ UNCHANGED <<hooks, wait_loop, directory_wait_counter, extra_peer>>
         /\ IF directory_wait_failed
              THEN Welcome /\ directory_wait_failed' = FALSE
              ELSE UNCHANGED <<welcome_calls, on_welcome_sent, directory_wait_failed>>

(* A dn-handshake.  One that is not awaited is ignored, a rejecting one    *)
(* leads to disconnect, one of another network is dropped.                 *)
process_handshake(d) ==
  /\ Received(d) /\ Head(toUs[d]) \in AnswerKinds \ {"garbled"}
  /\ LET awaited == status[d] = "CONNECTED"
         ok == awaited /\ Head(toUs[d]) = "dn_ok"
     IN /\ IF ok
             THEN /\ update_status(d, "HANDSHAKED")
                  /\ reset_reconnect_delay(d)
                  /\ clear_ping(d)
                  /\ after_handshake(d)
             ELSE UNCHANGED <<status, reconnect_call, awaiting_pong,
                              health_check_closing, hooks, waitVars>>
        /\ IF awaited /\ Head(toUs[d]) = "dn_reject"
             THEN disconnect(d)
             ELSE UNCHANGED <<service, connecting, closing>>
  /\ UNCHANGED <<up, conn, toDir, offerlist, sent, give_up, onion>>

mark_pong_received(d) ==
  /\ Received(d) /\ Head(toUs[d]) = "pong"
  /\ IF awaiting_pong[d] THEN clear_ping(d)
                         ELSE UNCHANGED <<awaiting_pong, health_check_closing>>
  /\ UNCHANGED <<up, conn, toDir, closing, service, status, connecting,
                 reconnect_call, waitVars, offerVars, give_up, onion>>

(* A line that does not decode ends the connection *)
lineReceived_refused(d) ==
  /\ Received(d) /\ Head(toUs[d]) = "garbled"
  /\ closing' = [closing EXCEPT ![d] = TRUE]
  /\ UNCHANGED <<peerVars, up, conn, toDir, waitVars, offerVars, give_up, onion>>

(* A peerlist is taken from a directory only *)
peerlist(d) == status[d] = "HANDSHAKED" /\ conn[d] = "open"

(* It names a peer that is no directory: add_peer.  Only the wait for the  *)
(* directories counts the peers.                                           *)
add_peer(d) ==
  /\ wait_loop = "running"
  /\ peerlist(d) /\ ~extra_peer
  /\ extra_peer' = TRUE
  /\ UNCHANGED <<peerVars, netVars, wait_loop, directory_wait_counter,
                 directory_wait_failed, on_welcome_sent, welcome_calls, offerVars,
                 give_up, onion>>

-----------------------------------------------------------------------------
(* Health: check_directory_health over one directory of its loop           *)

check_health(d) == ~give_up /\ status[d] = "HANDSHAKED" /\ d \in PingDirs

(* Nothing has passed for the idle time *)
send_health_ping(d) ==
  /\ check_health(d) /\ ~awaiting_pong[d]
  /\ awaiting_pong' = [awaiting_pong EXCEPT ![d] = TRUE]
  /\ toDir' = [toDir EXCEPT ![d] = Append(@, "ping")]
  /\ UNCHANGED <<up, conn, toUs, closing, service, status, connecting,
                 reconnect_call, health_check_closing, waitVars, offerVars,
                 give_up, onion>>

(* mutant: the timeout is noted and the connection kept *)
close_for_health_timeout_noted(d) ==
  /\ check_health(d) /\ awaiting_pong[d] /\ ~health_check_closing[d]
  /\ health_check_closing' = [health_check_closing EXCEPT ![d] = TRUE]
  /\ UNCHANGED <<netVars, service, status, connecting, reconnect_call,
                 awaiting_pong, waitVars, offerVars, give_up, onion>>

(* No pong came in time *)
close_for_health_timeout(d) ==
  /\ check_health(d) /\ awaiting_pong[d] /\ ~health_check_closing[d]
  /\ health_check_closing' = [health_check_closing EXCEPT ![d] = TRUE]
  /\ closing' = [closing EXCEPT ![d] = TRUE]
  /\ UNCHANGED <<up, conn, toDir, toUs, service, status, connecting,
                 reconnect_call, awaiting_pong, waitVars, offerVars, give_up, onion>>

-----------------------------------------------------------------------------
(* The wait for directories, the welcome and the offers *)

wait_for_directories ==
  /\ wait_loop = "running"
  /\ LET handshaked == Cardinality(get_connected_directory_peers)
         short == handshaked < Peers
         count == directory_wait_counter + (IF short THEN 1 ELSE 0)
     IN /\ directory_wait_counter' = count
        /\ IF short /\ count < WaitTicks
             THEN UNCHANGED <<wait_loop, directory_wait_failed, on_welcome_sent, welcome_calls>>
             ELSE IF handshaked = 0
               THEN /\ wait_loop' = "stopped" /\ directory_wait_failed' = TRUE
                    /\ UNCHANGED <<on_welcome_sent, welcome_calls>>
               ELSE /\ UNCHANGED directory_wait_failed
                    /\ IF on_welcome_sent
                         THEN UNCHANGED <<wait_loop, on_welcome_sent, welcome_calls>>
                         ELSE wait_loop' = "stopped" /\ Welcome
  /\ UNCHANGED <<peerVars, netVars, extra_peer, offerVars, give_up, onion>>

(* JMSetup, once the client has heard of the welcome *)
on_JM_SETUP ==
  /\ on_welcome_sent /\ ~give_up /\ ~offerlist
  /\ offerlist' = TRUE /\ publish(Dirs)
  /\ UNCHANGED <<peerVars, netVars, waitVars, hooks, give_up, onion>>

(* New offers: what was published before is no longer current              *)
on_JM_ANNOUNCE_OFFERS ==
  /\ offerlist /\ ~give_up
  /\ publish(Dirs)
  /\ UNCHANGED <<peerVars, netVars, waitVars, hooks, offerlist, give_up, onion>>

(* The hook the daemon registers: the offers go to the directory that      *)
(* came back, if there are offers and it is still connected.               *)
on_directory_peer_connected(d) ==
  /\ d \in hooks
  /\ hooks' = hooks \ {d}
  /\ IF offerlist THEN publish({d}) ELSE UNCHANGED sent
  /\ UNCHANGED <<peerVars, netVars, waitVars, offerlist, give_up, onion>>

(* The collection shuts down the channels that are up: those welcomed      *)
shutdown ==
  /\ on_welcome_sent /\ ~give_up
  /\ give_up' = TRUE
  /\ stopService(Dirs)
  /\ UNCHANGED <<up, conn, toDir, toUs, status, reconnect_call, awaiting_pong,
                 health_check_closing, waitVars, offerVars, onion>>

-----------------------------------------------------------------------------
(* The directory and the network (external) *)

DirectoryAnswers(d) ==
  /\ conn[d] = "open" /\ toDir[d] # <<>>
  /\ toDir' = [toDir EXCEPT ![d] = Tail(@)]
  /\ \E a \in IF Head(toDir[d]) = "ping" THEN {"pong"} ELSE Answers[d] :
       toUs' = [toUs EXCEPT ![d] = Append(@, a)]
  /\ UNCHANGED <<peerVars, up, conn, closing, waitVars, offerVars, give_up, onion>>

(* The other end is gone and nobody says so *)
Vanishes(d) ==
  /\ conn[d] = "open"
  /\ conn' = [conn EXCEPT ![d] = "dead"]
  /\ UNCHANGED <<peerVars, up, toDir, toUs, closing, waitVars, offerVars, give_up, onion>>

Reachability(d) ==
  /\ up' = [up EXCEPT ![d] = ~@]
  /\ conn' = [conn EXCEPT ![d] = IF @ = "open" THEN "dead" ELSE @]
  /\ UNCHANGED <<peerVars, toDir, toUs, closing, waitVars, offerVars, give_up, onion>>

-----------------------------------------------------------------------------
OnionNext ==
  \/ create_onion_ep \/ setup_failed \/ onion_listen \/ check_onion_hostname
  \/ connect_to_directories
  \/ wait_for_directories
  \/ on_JM_SETUP
  \/ on_JM_ANNOUNCE_OFFERS
  \/ shutdown
  \/ \E d \in Dirs :
       \/ reattempt_connection(d)
       \/ register_connection(d)
       \/ \E trapped \in BOOLEAN : respond_to_connection_failure(d, trapped)
       \/ register_disconnection(d)
       \/ process_handshake(d)
       \/ mark_pong_received(d)
       \/ lineReceived_refused(d)
       \/ add_peer(d)
       \/ send_health_ping(d)
       \/ close_for_health_timeout(d)
       \/ on_directory_peer_connected(d)
       \/ DirectoryAnswers(d)
       \/ Vanishes(d)
       \/ Reachability(d)

OnionSpec == OnionInit /\ [][OnionNext]_onionVars

(* Timers and loops run; a connection that was closed, or that died before *)
(* its handshake, is reported lost; and a network that is given endless    *)
(* tries does not fail all of them.                                        *)
LossReported(d) ==
  register_disconnection(d) /\ (closing[d] \/ (conn[d] = "dead" /\ status[d] = "CONNECTED"))

Accepting(d) == d \in PingDirs /\ Answers[d] = {"dn_ok"}

Fairness ==
  /\ WF_onionVars(create_onion_ep \/ onion_listen \/ check_onion_hostname)
  /\ WF_onionVars(connect_to_directories) /\ WF_onionVars(wait_for_directories)
  /\ \A d \in Dirs :
       /\ WF_onionVars(reattempt_connection(d) \/ LossReported(d) \/ send_health_ping(d)
                    \/ close_for_health_timeout(d) \/ on_directory_peer_connected(d))
  /\ \A d \in {e \in Dirs : Accepting(e)} :
       /\ SF_onionVars(register_connection(d))
       /\ SF_onionVars(DirectoryAnswers(d))
       /\ SF_onionVars(process_handshake(d) /\ conn[d] = "open")

OnionFairSpec == OnionSpec /\ Fairness

-----------------------------------------------------------------------------
(* Properties *)

(* A directory is never given up and never courted twice: once the channel *)
(* runs, exactly one of a scheduled attempt, a dial and a connection       *)
(* exists for it, whatever failed, was rejected or was closed in between   *)
(* (try_to_connect after every failure and loss).  After shutdown there is *)
(* at most one.                                                            *)
Endeavours(d) == Cardinality(
  (IF reconnect_call[d] THEN {"scheduled"} ELSE {})
    \cup (IF service[d] \in {"dialing", "retrying"} THEN {"dialing"} ELSE {})
    \cup (IF conn[d] # "none" THEN {"connected"} ELSE {}))

OneEndeavour ==
  \A d \in Dirs :
    /\ Endeavours(d) <= 1
    /\ wait_loop # "off" /\ ~give_up => Endeavours(d) = 1

(* The status a message is routed by is that of the connection: CONNECTED  *)
(* or HANDSHAKED exactly while there is one, and connecting only during a  *)
(* dial, so that connect never refuses a directory that needs it.          *)
StatusIsConnection ==
  \A d \in Dirs :
    /\ status[d] \in {"CONNECTED", "HANDSHAKED"} <=> conn[d] # "none"
    /\ connecting[d] <=> service[d] = "dialing"

(* Every directory in use knows the maker's current offers: those present  *)
(* at the setup by the announcement to all, a late or a returning one by   *)
(* the hook its handshake sets off (unless that call is still due).        *)
OffersOnEveryDirectory ==
  \A d \in get_connected_directory_peers :
    offerlist /\ d \notin hooks => sent[d]

(* The health check waits for a pong only while one can come or the        *)
(* connection is on its way out: no wait is carried over to a later        *)
(* connection, which it would close for the silence of the former.         *)
PongCanCome ==
  \A d \in Dirs :
    awaiting_pong[d] =>
      \/ conn[d] = "dead" \/ closing[d]
      \/ conn[d] = "open" /\ ("ping" \in {toDir[d][i] : i \in DOMAIN toDir[d]}
                              \/ "pong" \in {toUs[d][i] : i \in DOMAIN toUs[d]})

(* The peer objects follow the network: one attempt at a connection, the   *)
(* status that belongs to it, and no wait for a pong that cannot come.     *)
PeersFollowNetwork == OneEndeavour /\ StatusIsConnection /\ PongCanCome

(* A directory that from some time on is reachable and accepts handshakes  *)
(* is in use again and again: neither failed dials of either kind nor a    *)
(* connection that died without a sign (found by the health ping) keep the *)
(* channel away from it for ever.                                          *)
DirectoryRegained ==
  \A d \in Dirs :
    Accepting(d) /\ <>[](up[d] /\ ~give_up /\ onion = "known")
      => []<>(status[d] = "HANDSHAKED" /\ conn[d] = "open")

(* The maker starts: if its onion service comes up and some accepting      *)
(* directory stays reachable, the channel is welcomed, even after the      *)
(* first wait has failed.                                                  *)
EventuallyWelcomed ==
  [](onion # "failed") /\ (\E d \in Dirs : Accepting(d) /\ <>[]up[d])
    => <>(welcome_calls > 0)

=============================================================================
