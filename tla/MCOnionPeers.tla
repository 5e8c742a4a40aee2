---------------------------- MODULE MCOnionPeers ----------------------------
(* OnionPeers on two directories: d1 answers health pings and accepts      *)
(* every handshake; d2 is of an older version without the ping and may     *)
(* also reject, or belong to another network.                              *)
EXTENDS OnionPeers, TLC

CONSTANTS d1, d2

MCDirs == {d1, d2}
MCPingDirs == {d1}
MCAnswers == (d1 :> {"dn_ok"}) @@ (d2 :> AnswerKinds)

=============================================================================
