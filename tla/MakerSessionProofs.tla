------------------------- MODULE MakerSessionProofs -------------------------
(***************************************************************************)
(* A maker never gives the same address to takers twice, for every wallet, *)
(* any number of takers, orders and crashes; its client, its daemon, the   *)
(* pit and the wallet agree on the offers once all is told; the wallet     *)
(* holds the coins that the network holds for it, and no step makes them   *)
(* worth less.                                                             *)
(***************************************************************************)
EXTENDS MakerSession, SequenceTheorems, FiniteSetTheorems, WellFoundedInduction,
        NaturalsInduction, TLAPS

indexVars == <<index_cache, saved_index, given_out>>

(* The addresses given out so far lie below the index in the wallet file,  *)
(* and the index in memory is never behind the file.  After a crash the    *)
(* file is all that is left, so the invariant speaks of the file: an       *)
(* address below the index in memory only could come up again.             *)
IndexInv ==
  /\ index_cache \in [Mixdepths -> Nat]
  /\ saved_index \in [Mixdepths -> Nat]
  /\ given_out \in Seq(Mixdepths \X Nat)
  /\ \A md \in Mixdepths : saved_index[md] <= index_cache[md]
  /\ \A i \in DOMAIN given_out :
       given_out[i][2] < saved_index[given_out[i][1]]
  /\ NoAddressReuse

(* Two new addresses, each at the index of its mixdepth in memory, with    *)
(* the indices moved on and saved.                                         *)
LEMMA NewAddresses ==
  ASSUME IndexInv, NEW md \in Mixdepths,
         given_out' = Append(Append(given_out, CjAddress(md)),
                             ChangeAddress(md)),
         index_cache' = AfterChange(md),
         saved_index' = SavedIndex(AfterChange(md))
  PROVE  IndexInv'
<1> DEFINE cm == CjMixdepth(md)
           n == Len(given_out)
           Below(i) == given_out[i][2] < index_cache[given_out[i][1]]
<1>1. MaxMixdepth \in Nat
  BY MakerAssumption
<1>2. cm \in Mixdepths
  BY <1>1 DEF Mixdepths, CjMixdepth
<1>3. /\ index_cache \in [Mixdepths -> Nat]
      /\ saved_index \in [Mixdepths -> Nat]
      /\ \A m \in Mixdepths : saved_index[m] <= index_cache[m]
      /\ given_out \in Seq(Mixdepths \X Nat)
  BY DEF IndexInv
<1>4. /\ AfterCj(md) \in [Mixdepths -> Nat]
      /\ \A m \in Mixdepths : AfterCj(md)[m] =
           IF m = cm THEN index_cache[m] + 1 ELSE index_cache[m]
  BY <1>2, <1>3 DEF AfterCj
<1>5. /\ AfterChange(md) \in [Mixdepths -> Nat]
      /\ \A m \in Mixdepths : AfterChange(md)[m] =
           IF m = md THEN AfterCj(md)[m] + 1 ELSE AfterCj(md)[m]
  BY <1>4 DEF AfterChange
<1>6. \A m \in Mixdepths : /\ index_cache[m] \in Nat
                           /\ index_cache[m] <= AfterCj(md)[m]
                           /\ AfterCj(md)[m] \in Nat
                           /\ AfterCj(md)[m] <= AfterChange(md)[m]
                           /\ AfterChange(md)[m] \in Nat
  <2> SUFFICES ASSUME NEW m \in Mixdepths
               PROVE  /\ index_cache[m] \in Nat
                      /\ index_cache[m] <= AfterCj(md)[m]
                      /\ AfterCj(md)[m] \in Nat
                      /\ AfterCj(md)[m] <= AfterChange(md)[m]
                      /\ AfterChange(md)[m] \in Nat
    OBVIOUS
  <2>1. index_cache[m] \in Nat
    BY <1>3
  <2>2. AfterCj(md)[m] \in {index_cache[m], index_cache[m] + 1}
    BY <1>4
  <2>3. AfterChange(md)[m] \in {AfterCj(md)[m], AfterCj(md)[m] + 1}
    BY <1>5
  <2> QED
    BY <2>1, <2>2, <2>3
<1>7. /\ CjAddress(md) = <<cm, index_cache[cm]>>
      /\ ChangeAddress(md) = <<md, AfterCj(md)[md]>>
      /\ CjAddress(md) \in Mixdepths \X Nat
      /\ ChangeAddress(md) \in Mixdepths \X Nat
      /\ CjAddress(md) # ChangeAddress(md)
      /\ index_cache[cm] < AfterChange(md)[cm]
      /\ AfterCj(md)[md] < AfterChange(md)[md]
  BY <1>2, <1>4, <1>5, <1>6 DEF CjAddress, ChangeAddress
<1>8. \A i \in 1..n : given_out[i] \in Mixdepths \X Nat /\ Below(i)
  <2> SUFFICES ASSUME NEW i \in 1..n
               PROVE  given_out[i] \in Mixdepths \X Nat /\ Below(i)
    OBVIOUS
  <2>1. given_out[i] \in Mixdepths \X Nat
    BY <1>3
  <2>2. given_out[i][2] < saved_index[given_out[i][1]]
    BY <1>3 DEF IndexInv
  <2>3. PICK m \in Mixdepths, k \in Nat : given_out[i] = <<m, k>>
    BY <2>1
  <2>4. k < saved_index[m] /\ saved_index[m] <= index_cache[m]
        /\ saved_index[m] \in Nat /\ index_cache[m] \in Nat
    BY <2>2, <2>3, <1>3
  <2>5. k < index_cache[m]
    BY <2>4
  <2> QED
    BY <2>1, <2>3, <2>5
<1>9. \A i \in 1..n : /\ given_out[i][2] < AfterChange(md)[given_out[i][1]]
                      /\ given_out[i] # CjAddress(md)
                      /\ given_out[i] # ChangeAddress(md)
  <2> SUFFICES ASSUME NEW i \in 1..n
               PROVE  /\ given_out[i][2] < AfterChange(md)[given_out[i][1]]
                      /\ given_out[i] # CjAddress(md)
                      /\ given_out[i] # ChangeAddress(md)
    OBVIOUS
  <2>1. PICK m \in Mixdepths, k \in Nat : given_out[i] = <<m, k>>
    BY <1>8
  <2>2. k < index_cache[m]
    BY <2>1, <1>8
  <2>3. k < AfterCj(md)[m] /\ k < AfterChange(md)[m]
    BY <2>2, <1>6
  <2>4. <<m, k>> # <<cm, index_cache[cm]>>
    BY <2>2
  <2>5. <<m, k>> # <<md, AfterCj(md)[md]>>
    BY <2>3
  <2> QED
    BY <2>1, <2>3, <2>4, <2>5, <1>7
<1>10. /\ n \in Nat
       /\ given_out' \in Seq(Mixdepths \X Nat)
       /\ DOMAIN given_out = 1..n
       /\ DOMAIN given_out' = 1..(n + 2)
       /\ \A i \in 1..n : given_out'[i] = given_out[i]
       /\ given_out'[n + 1] = CjAddress(md)
       /\ given_out'[n + 2] = ChangeAddress(md)
  BY <1>3, <1>7
<1>11. \A i \in 1..(n + 2) : i \in 1..n \/ i = n + 1 \/ i = n + 2
  BY <1>10
<1>12. \A i \in 1..(n + 2) :
         given_out'[i][2] < AfterChange(md)[given_out'[i][1]]
  <2>1. \A i \in 1..n : given_out'[i][2] < AfterChange(md)[given_out'[i][1]]
    BY <1>9, <1>10
  <2>2. given_out'[n + 1][2] < AfterChange(md)[given_out'[n + 1][1]]
    BY <1>7, <1>10
  <2>3. given_out'[n + 2][2] < AfterChange(md)[given_out'[n + 2][1]]
    BY <1>7, <1>10
  <2> QED
    BY <2>1, <2>2, <2>3, <1>11
<1>13. NoAddressReuse'
  <2> SUFFICES ASSUME NEW i \in 1..(n + 2), NEW j \in 1..(n + 2),
                      given_out'[i] = given_out'[j]
               PROVE  i = j
    BY <1>10 DEF NoAddressReuse
  <2>1. CASE i \in 1..n /\ j \in 1..n
    BY <2>1, <1>10 DEF IndexInv, NoAddressReuse
  <2>2. CASE i \in 1..n /\ j \in {n + 1, n + 2}
    BY <2>2, <1>9, <1>10
  <2>3. CASE j \in 1..n /\ i \in {n + 1, n + 2}
    BY <2>3, <1>9, <1>10
  <2>4. CASE i \in {n + 1, n + 2} /\ j \in {n + 1, n + 2}
    BY <2>4, <1>7, <1>10
  <2> QED
    BY <2>1, <2>2, <2>3, <2>4, <1>11
<1>14. index_cache' = AfterChange(md) /\ saved_index' = AfterChange(md)
  BY DEF SavedIndex
<1>15. \A m \in Mixdepths : AfterChange(md)[m] <= AfterChange(md)[m]
  BY <1>6
<1> QED
  BY <1>5, <1>10, <1>12, <1>13, <1>14, <1>15 DEF IndexInv

(* After a crash the indices start from the file or later.                 *)
LEMMA RestartKeepsIndex ==
  ASSUME IndexInv, ClientRestart
  PROVE  IndexInv'
<1>1. /\ index_cache' \in [Mixdepths -> Nat]
      /\ \A md \in Mixdepths : saved_index[md] <= index_cache'[md]
  BY DEF ClientRestart, SyncedIndices
<1> QED
  BY <1>1 DEF ClientRestart, IndexInv, NoAddressReuse

(* All other steps leave the indices alone.                                *)
LEMMA OthersKeepIndex ==
  ASSUME [Next]_vars, ~on_auth_accepted, ~Crash
  PROVE  UNCHANGED indexVars
<1> USE DEF indexVars, clientVars, walletVars
<1>1. CASE UNCHANGED vars
  BY <1>1 DEF vars
<1>2. CASE UNCHANGED clientVars
  BY <1>2
<1>3. CASE ClientHandles
  BY <1>3 DEF ClientHandles, on_JM_UP, on_auth_refused, on_tx_accepted,
              on_tx_refused, on_JM_TX_BROADCAST
<1>4. CASE Loops
  <2>1. CASE try_to_create_my_orders \/ submitOffers
    BY <2>1 DEF try_to_create_my_orders, submitOffers
  <2>2. CASE \E i \in DOMAIN net : monitor_unconfirmed(i) \/ monitor_confirmed(i)
    BY <2>2 DEF monitor_unconfirmed, monitor_confirmed
  <2>3. CASE \E c \in checks : check_callback_called(c)
    BY <2>3 DEF check_callback_called
  <2> QED
    BY <1>4, <2>1, <2>2, <2>3 DEF Loops
<1> QED
  BY <1>1, <1>2, <1>3, <1>4 DEF Next

LEMMA NextIndex == IndexInv /\ [Next]_vars => IndexInv'
<1> SUFFICES ASSUME IndexInv, [Next]_vars
             PROVE  IndexInv'
  OBVIOUS
<1>1. CASE on_auth_accepted
  <2>1. PICK md \in EnoughIn(Head(down).amount) :
          /\ given_out' = Append(Append(given_out, CjAddress(md)),
                                 ChangeAddress(md))
          /\ index_cache' = AfterChange(md)
          /\ saved_index' = SavedIndex(AfterChange(md))
    BY <1>1 DEF on_auth_accepted
  <2>2. md \in Mixdepths
    BY DEF EnoughIn
  <2> QED
    BY <2>1, <2>2, NewAddresses
<1>2. CASE Crash
  BY <1>2, RestartKeepsIndex DEF Crash
<1>3. CASE ~on_auth_accepted /\ ~Crash
  BY <1>3, OthersKeepIndex DEF IndexInv, NoAddressReuse, indexVars
<1> QED
  BY <1>1, <1>2, <1>3

(* Every address a maker hands to a taker is new: Maker.on_auth_received   *)
(* saves the wallet before the addresses leave, so that a crash at any     *)
(* later point cannot bring one of them back.                              *)
THEOREM AddressesAreNew == Spec => []NoAddressReuse
<1>1. Init => IndexInv
  BY DEF Init, ClientInit, IndexInv, NoAddressReuse
<1>2. IndexInv /\ [Next]_vars => IndexInv'
  BY NextIndex
<1>3. IndexInv => NoAddressReuse
  BY DEF IndexInv
<1> QED
  BY <1>1, <1>2, <1>3, PTL DEF Spec

(***************************************************************************)
(* The queues between client and daemon                                    *)
(***************************************************************************)

IsQueue(q) == q \in Seq({q[i] : i \in DOMAIN q})

(* A message is taken from the head, or put at the end.                    *)
Popped(q, p) ==
  /\ Len(q) \in Nat \ {0} /\ DOMAIN q = 1..Len(q)
  /\ Len(p) = Len(q) - 1 /\ DOMAIN p = 1..Len(p)
  /\ \A i \in DOMAIN p : i + 1 \in DOMAIN q /\ p[i] = q[i + 1]
  /\ 1 \in DOMAIN q /\ Head(q) = q[1]

Pushed(q, p, m) ==
  /\ Len(q) \in Nat /\ DOMAIN q = 1..Len(q)
  /\ Len(p) = Len(q) + 1 /\ DOMAIN p = 1..Len(p)
  /\ \A i \in DOMAIN p : \/ i \in DOMAIN q /\ p[i] = q[i]
                         \/ i = Len(q) + 1 /\ p[i] = m
  /\ \A i \in DOMAIN q : i \in DOMAIN p /\ p[i] = q[i]

LEMMA IsAQueue == ASSUME NEW S, NEW q \in Seq(S) PROVE IsQueue(q)
<1> DEFINE T == {q[i] : i \in DOMAIN q}
<1>1. /\ Len(q) \in Nat /\ DOMAIN q = 1..Len(q)
      /\ q \in [1..Len(q) -> S]
  BY LenProperties
<1>2. q \in [1..Len(q) -> T]
  BY <1>1
<1>3. q \in Seq(T)
  BY <1>1, <1>2, SeqDef
<1> QED
  BY <1>3 DEF IsQueue

LEMMA QueueIs ==
  ASSUME NEW q, IsQueue(q)
  PROVE  Len(q) \in Nat /\ DOMAIN q = 1..Len(q)
BY DEF IsQueue

LEMMA TailIs ==
  ASSUME NEW q, IsQueue(q), q # <<>>
  PROVE  Popped(q, Tail(q)) /\ IsQueue(Tail(q))
<1> DEFINE S == {q[i] : i \in DOMAIN q}
<1>1. q \in Seq(S)
  BY DEF IsQueue
<1>2. /\ Len(q) \in Nat \ {0} /\ DOMAIN q = 1..Len(q) /\ Tail(q) \in Seq(S)
      /\ Len(Tail(q)) = Len(q) - 1 /\ Head(q) = q[1]
      /\ \A i \in 1..(Len(q) - 1) : Tail(q)[i] = q[i + 1]
  BY <1>1, EmptySeq, HeadTailProperties
<1>3. DOMAIN Tail(q) = 1..Len(Tail(q))
  BY <1>2
<1>4. Popped(q, Tail(q))
  BY <1>2, <1>3 DEF Popped
<1>5. IsQueue(Tail(q))
  BY <1>2, IsAQueue
<1> QED
  BY <1>4, <1>5

LEMMA AppendIs ==
  ASSUME NEW q, IsQueue(q), NEW m
  PROVE  Pushed(q, Append(q, m), m) /\ IsQueue(Append(q, m))
<1> DEFINE S == {q[i] : i \in DOMAIN q} \cup {m}
<1>1. q \in Seq(S)
  <2>1. Len(q) \in Nat /\ DOMAIN q = 1..Len(q) /\ q \in Seq({q[i] : i \in DOMAIN q})
    BY DEF IsQueue
  <2> QED
    BY <2>1
<1>2. /\ Append(q, m) \in Seq(S) /\ Len(q) \in Nat /\ DOMAIN q = 1..Len(q)
      /\ Len(Append(q, m)) = Len(q) + 1
      /\ \A i \in 1..Len(q) : Append(q, m)[i] = q[i]
      /\ Append(q, m)[Len(q) + 1] = m
  BY <1>1, AppendProperties
<1>3. DOMAIN Append(q, m) = 1..Len(Append(q, m))
  BY <1>2
<1>4. Pushed(q, Append(q, m), m)
  <2> DEFINE p == Append(q, m)
  <2>1. \A i \in 1..(Len(q) + 1) : i \in 1..Len(q) \/ i = Len(q) + 1
    BY <1>2
  <2> HIDE DEF p
  <2>2. /\ Len(q) \in Nat /\ DOMAIN q = 1..Len(q) /\ Len(p) = Len(q) + 1
        /\ DOMAIN p = 1..(Len(q) + 1) /\ p[Len(q) + 1] = m
        /\ \A i \in 1..Len(q) : p[i] = q[i]
    BY <1>2, <1>3 DEF p
  <2>3. \A i \in DOMAIN q : i \in DOMAIN p
    BY <2>2
  <2>4. \A i \in DOMAIN p : \/ i \in DOMAIN q /\ p[i] = q[i]
                            \/ i = Len(q) + 1 /\ p[i] = m
    BY <2>1, <2>2
  <2>5. DOMAIN p = 1..Len(p)
    BY <2>2
  <2>6. Pushed(q, p, m)
    BY <2>2, <2>3, <2>4, <2>5 DEF Pushed
  <2> QED
    BY <2>6 DEF p
<1>5. IsQueue(Append(q, m))
  BY <1>2, IsAQueue
<1> QED
  BY <1>4, <1>5

(***************************************************************************)
(* Shapes: what a message, an order and the logs are made of               *)
(***************************************************************************)

IsOrder(o) ==
  /\ o = [fill |-> o.fill, amount |-> o.amount, commit |-> o.commit,
          authed |-> o.authed, proposed |-> o.proposed, grant |-> o.grant]
  /\ o.fill \in 1..fills /\ o.grant.fill \in 0..fills /\ o.amount \in Amounts
  /\ o.authed \in BOOLEAN /\ o.proposed \in BOOLEAN

UpFine(m) ==
  /\ m.type = "JMIOAuth" =>
       m.nick \in Takers /\ HasOrder(m.nick) /\ m.grant.fill \in 1..fills
  /\ m.type = "JMTXSigs" => m.nick \in Takers

DownFine(m) ==
  /\ m.type = "JMAuthReceived" =>
       m.nick \in Takers /\ HasOrder(m.nick) /\ m.fill \in 1..fills
  /\ m.type = "JMTXReceived" =>
       /\ m.nick \in Takers /\ m.tx \in ProposedTxs(m.offer)
       /\ m.offer.amount \in Amounts

QueueShapes ==
  /\ IsQueue(up) /\ IsQueue(down) /\ IsQueue(net)
  /\ fills \in Nat /\ crashes \in Nat /\ seen \in 0..Len(net)

OrderShapes ==
  /\ active_orders = [n \in Takers |-> active_orders[n]]
  /\ \A n \in Takers : HasOrder(n) => IsOrder(active_orders[n])
  /\ finalized_offers = [n \in Takers |-> finalized_offers[n]]
  /\ \A s \in sigs_sent : s.nick \in Takers

MessageShapes ==
  /\ \A i \in DOMAIN up : UpFine(up[i])
  /\ \A i \in DOMAIN down : DownFine(down[i])

Shapes == QueueShapes /\ OrderShapes /\ MessageShapes

orderVars == <<active_orders, fills, sigs_sent, finalized_offers>>

(* Messages stay fine as long as orders are kept.                          *)
LEMMA StaysFine ==
  ASSUME QueueShapes, fills' \in {fills, fills + 1},
         \A n \in Takers : HasOrder(n) => HasOrder(n)', NEW m
  PROVE  (UpFine(m) => UpFine(m)') /\ (DownFine(m) => DownFine(m)')
<1>1. fills \in Nat /\ \A k : k \in 1..fills => k \in 1..fills'
  BY DEF QueueShapes
<1> QED
  BY <1>1 DEF UpFine, DownFine

LEMMA UpStaysFine ==
  ASSUME Shapes, fills' \in {fills, fills + 1},
         \A n \in Takers : HasOrder(n) => HasOrder(n)',
         \/ up' = up
         \/ Popped(up, up')
         \/ \E m : Pushed(up, up', m) /\ UpFine(m)
  PROVE  \A i \in DOMAIN up' : UpFine(up[i])'
<1>1. \A i \in DOMAIN up' : UpFine(up'[i])
  BY DEF Shapes, MessageShapes, Popped, Pushed
<1> QED
  BY <1>1, StaysFine DEF Shapes, UpFine

LEMMA DownStaysFine ==
  ASSUME Shapes, fills' \in {fills, fills + 1},
         \A n \in Takers : HasOrder(n) => HasOrder(n)',
         \/ down' = down
         \/ Popped(down, down')
         \/ \E m : Pushed(down, down', m) /\ DownFine(m)
  PROVE  \A i \in DOMAIN down' : DownFine(down[i])'
<1>1. \A i \in DOMAIN down' : DownFine(down'[i])
  BY DEF Shapes, MessageShapes, Popped, Pushed
<1> QED
  BY <1>1, StaysFine DEF Shapes, DownFine

LEMMA QueueMoves ==
  ASSUME QueueShapes
  PROVE  /\ up # <<>> /\ up' = Tail(up) => Popped(up, up') /\ IsQueue(up')
         /\ down # <<>> /\ down' = Tail(down) => Popped(down, down') /\ IsQueue(down')
         /\ \A m : up' = Append(up, m) => Pushed(up, up', m) /\ IsQueue(up')
         /\ \A m : down' = Append(down, m) => Pushed(down, down', m) /\ IsQueue(down')
         /\ \A m : net' = Append(net, m) => Pushed(net, net', m) /\ IsQueue(net')
BY TailIs, AppendIs DEF QueueShapes

(* What a step leaves of the network: it grows, and is seen further.       *)
LEMMA NetMoves ==
  ASSUME QueueShapes, [Next]_vars
  PROVE  IsQueue(net)' /\ (seen \in 0..Len(net))'
<1> USE DEF QueueShapes
<1>1. Len(net) \in Nat /\ DOMAIN net = 1..Len(net)
  BY QueueIs
<1>2. CASE UNCHANGED <<net, seen>>
  BY <1>2
<1>3. CASE seen' = seen /\ \E m : net' = Append(net, m)
  <2>1. Len(net') = Len(net) + 1 /\ IsQueue(net')
    BY <1>3, QueueMoves DEF Pushed
  <2> QED
    BY <1>1, <1>3, <2>1
<1>4. CASE UNCHANGED net /\ \E i \in DOMAIN net : monitor_unconfirmed(i) \/ monitor_confirmed(i)
  <2>1. PICK i \in DOMAIN net : monitor_unconfirmed(i) \/ monitor_confirmed(i)
    BY <1>4
  <2>2. seen' = seen \/ (i = seen + 1 /\ seen' = seen + 1)
    <3>1. CASE monitor_unconfirmed(i)
      BY <3>1 DEF monitor_unconfirmed, IsNew
    <3>2. CASE monitor_confirmed(i)
      BY <3>2 DEF monitor_confirmed, IsNew
    <3> QED
      BY <2>1, <3>1, <3>2
  <2> QED
    BY <1>1, <1>4, <2>2
<1>5. CASE Crash
  BY <1>1, <1>5 DEF Crash, ClientRestart
<1>6. CASE Confirm /\ UNCHANGED seen
  <2>1. PICK i \in DOMAIN net : net' = [net EXCEPT ![i].conf = TRUE]
    BY <1>6 DEF Confirm
  <2>2. DOMAIN net' = 1..Len(net) /\ net' = [j \in 1..Len(net) |-> net'[j]]
    BY <1>1, <2>1
  <2> DEFINE T == {net'[j] : j \in DOMAIN net'}
  <2>3. net' \in [1..Len(net) -> T]
    BY <2>2
  <2>4. net' \in Seq(T) /\ Len(net') = Len(net)
    BY <1>1, <2>3
  <2> QED
    BY <1>1, <1>6, <2>4, IsAQueue
<1> QED
  <2> USE DEF clientVars, walletVars, linkVars
  <2>1. CASE UNCHANGED vars
    BY <1>2, <2>1 DEF vars
  <2>2. CASE DaemonHandles /\ UNCHANGED clientVars
    BY <1>2, <2>2 DEF DaemonHandles, on_JM_SETUP, on_JM_ANNOUNCE_OFFERS, on_JM_IOAUTH,
                      on_JM_TX_SIGS
  <2>3. CASE PitSpeaks /\ UNCHANGED clientVars
    BY <1>2, <1>3, <2>3
       DEF PitSpeaks, on_orderbook_requested, on_order_fill, on_seen_auth,
           on_commitment_seen, on_push_tx, TakerBroadcasts
  <2>4. CASE TakerProposes /\ UNCHANGED clientVars
    BY <1>2, <2>4 DEF TakerProposes, on_seen_tx
  <2>5. CASE ClientHandles
    BY <1>2, <1>3, <2>5
       DEF ClientHandles, on_JM_UP, on_auth_accepted, on_auth_refused, on_tx_accepted,
           on_tx_refused, on_JM_TX_BROADCAST
  <2>6. CASE Loops
    <3>1. CASE try_to_create_my_orders \/ submitOffers
      BY <1>2, <3>1 DEF try_to_create_my_orders, submitOffers
    <3>2. CASE \E c \in checks : check_callback_called(c)
      BY <1>2, <3>2 DEF check_callback_called
    <3>3. CASE \E i \in DOMAIN net : monitor_unconfirmed(i) \/ monitor_confirmed(i)
      BY <1>4, <3>3 DEF monitor_unconfirmed, monitor_confirmed
    <3> QED
      BY <2>6, <3>1, <3>2, <3>3 DEF Loops
  <2>7. CASE Confirm /\ UNCHANGED clientVars
    BY <1>6, <2>7
  <2> QED
    BY <1>5, <2>1, <2>2, <2>3, <2>4, <2>5, <2>6, <2>7 DEF Next

(* A step that leaves the orders alone.                                    *)
LEMMA OrdersKeepShape ==
  ASSUME Shapes, UNCHANGED orderVars
  PROVE  /\ OrderShapes' /\ (fills \in Nat)' /\ fills' \in {fills, fills + 1}
         /\ \A n \in Takers : HasOrder(n) => HasOrder(n)'
<1>1. UNCHANGED <<active_orders, fills, sigs_sent, finalized_offers>>
  BY DEF orderVars
<1>2. \A n \in Takers : HasOrder(n) <=> HasOrder(n)'
  BY <1>1 DEF HasOrder
<1>3. \A n \in Takers : IsOrder(active_orders[n]) => IsOrder(active_orders[n])'
  BY <1>1 DEF IsOrder
<1> QED
  BY <1>1, <1>2, <1>3 DEF Shapes, OrderShapes, QueueShapes

(* One entry of active_orders is set or changed.                           *)
WithGrant(o, g) ==
  [fill |-> o.fill, amount |-> o.amount, commit |-> o.commit,
   authed |-> o.authed, proposed |-> o.proposed, grant |-> g]

LEMMA OrderChanges ==
  ASSUME Shapes, fills' \in {fills, fills + 1}, NEW n \in Takers, NEW p, IsOrder(p)',
         active_orders' = [active_orders EXCEPT ![n] = p],
         UNCHANGED <<finalized_offers, sigs_sent>>
  PROVE  /\ OrderShapes' /\ (fills \in Nat)'
         /\ \A k \in Takers : HasOrder(k) => HasOrder(k)'
         /\ HasOrder(n)' /\ active_orders'[n] = p
         /\ \A k \in Takers \ {n} : active_orders'[k] = active_orders[k]
<1>1. fills \in Nat /\ fills' \in Nat
  BY DEF Shapes, QueueShapes
<1>2. /\ active_orders' = [k \in Takers |-> active_orders'[k]]
      /\ active_orders'[n] = p
      /\ \A k \in Takers \ {n} : active_orders'[k] = active_orders[k]
  BY DEF Shapes, OrderShapes
<1>3. HasOrder(n)'
  <2>1. p.fill \in 1..fills'
    BY DEF IsOrder
  <2>2. p # [fill |-> 0]
    BY <1>1, <2>1
  <2> QED
    BY <1>2, <2>2 DEF HasOrder, NoOrder
<1>4. \A k \in Takers \ {n} :
        /\ HasOrder(k) <=> HasOrder(k)'
        /\ IsOrder(active_orders[k]) => IsOrder(active_orders[k])'
  <2>1. \A i : (i \in 1..fills => i \in 1..fills') /\ (i \in 0..fills => i \in 0..fills')
    BY <1>1
  <2> QED
    BY <1>2, <2>1 DEF HasOrder, IsOrder
<1>5. \A k \in Takers : HasOrder(k)' => IsOrder(active_orders[k])'
  <2>1. IsOrder(active_orders[n])'
    BY <1>2 DEF IsOrder
  <2> QED
    BY <1>4, <2>1 DEF Shapes, OrderShapes
<1> QED
  BY <1>1, <1>2, <1>3, <1>4, <1>5 DEF Shapes, OrderShapes

LEMMA GrantStored ==
  ASSUME Shapes, NEW n \in Takers, HasOrder(n), NEW g, g.fill \in 1..fills,
         active_orders' = [active_orders EXCEPT ![n].grant = g], UNCHANGED fills
  PROVE  \E p : /\ p = WithGrant(active_orders[n], g) /\ IsOrder(p)'
                /\ active_orders' = [active_orders EXCEPT ![n] = p]
<1>1. IsOrder(active_orders[n]) /\ fills \in Nat
  BY DEF Shapes, OrderShapes, QueueShapes
<1>2. [active_orders[n] EXCEPT !.grant = g] = WithGrant(active_orders[n], g)
  <2>1. PICK o : o = active_orders[n]
    OBVIOUS
  <2>2. o = [fill |-> o.fill, amount |-> o.amount, commit |-> o.commit,
             authed |-> o.authed, proposed |-> o.proposed, grant |-> o.grant]
    BY <1>1, <2>1 DEF IsOrder
  <2>3. [o EXCEPT !.grant = g] = WithGrant(o, g)
    BY <2>2 DEF WithGrant
  <2> QED
    BY <2>1, <2>3
<1>3. active_orders' = [active_orders EXCEPT ![n] = [active_orders[n] EXCEPT !.grant = g]]
  OBVIOUS
<1>4. PICK p : p = WithGrant(active_orders[n], g)
  OBVIOUS
<1>5. IsOrder(p)
  <2>1. g.fill \in 0..fills
    BY <1>1
  <2> QED
    BY <1>1, <1>4, <2>1 DEF IsOrder, WithGrant
<1>6. IsOrder(p)'
  BY <1>5 DEF IsOrder
<1> QED
  BY <1>2, <1>3, <1>4, <1>6

LEMMA DaemonKeepsShape ==
  ASSUME Shapes, DaemonHandles, UNCHANGED clientVars
  PROVE  OrderShapes' /\ MessageShapes' /\ IsQueue(up)' /\ IsQueue(down)' /\ (fills \in Nat)'
<1>1. /\ up # <<>> /\ up' = Tail(up) /\ UNCHANGED <<down, fills, finalized_offers>>
      /\ Popped(up, up') /\ IsQueue(up') /\ IsQueue(down')
  <2>1. up # <<>> /\ up' = Tail(up) /\ UNCHANGED <<down, fills, finalized_offers>>
    BY DEF DaemonHandles, on_JM_SETUP, on_JM_ANNOUNCE_OFFERS, on_JM_IOAUTH, on_JM_TX_SIGS,
           DaemonGets, clientVars
  <2> QED
    BY <2>1, QueueMoves DEF Shapes, QueueShapes
<1>2. Head(up) = up[1] /\ UpFine(Head(up))
  BY <1>1 DEF Popped, Shapes, MessageShapes
<1>3. OrderShapes' /\ \A n \in Takers : HasOrder(n) => HasOrder(n)'
  <2>1. CASE on_JM_SETUP \/ on_JM_ANNOUNCE_OFFERS
    <3>1. UNCHANGED orderVars
      BY <1>1, <2>1 DEF on_JM_SETUP, on_JM_ANNOUNCE_OFFERS, orderVars
    <3> QED
      BY <3>1, OrdersKeepShape
  <2>2. CASE on_JM_TX_SIGS
    <3>1. UNCHANGED <<active_orders, fills, finalized_offers>>
          /\ \A s \in sigs_sent' : s \in sigs_sent \/ s.nick = Head(up).nick
      BY <1>1, <2>2 DEF on_JM_TX_SIGS
    <3>2. Head(up).nick \in Takers
      BY <1>2, <2>2 DEF on_JM_TX_SIGS, DaemonGets, UpFine
    <3>3. \A n \in Takers : HasOrder(n) <=> HasOrder(n)'
      BY <3>1 DEF HasOrder
    <3>4. \A n \in Takers : IsOrder(active_orders[n]) => IsOrder(active_orders[n])'
      BY <3>1 DEF IsOrder
    <3> QED
      BY <3>1, <3>2, <3>3, <3>4 DEF Shapes, OrderShapes
  <2>3. CASE on_JM_IOAUTH
    <3>1. PICK n, g : n = Head(up).nick /\ g = Head(up).grant
      OBVIOUS
    <3>2. n \in Takers /\ HasOrder(n) /\ g.fill \in 1..fills
      BY <1>2, <2>3, <3>1 DEF on_JM_IOAUTH, DaemonGets, UpFine
    <3>3. active_orders' = [active_orders EXCEPT ![n].grant = g]
          /\ UNCHANGED <<fills, finalized_offers, sigs_sent>>
      BY <1>1, <2>3, <3>1 DEF on_JM_IOAUTH
    <3>4. PICK p : IsOrder(p)' /\ active_orders' = [active_orders EXCEPT ![n] = p]
      BY <3>2, <3>3, GrantStored
    <3> QED
      BY <3>2, <3>3, <3>4, OrderChanges
  <2> QED
    BY <2>1, <2>2, <2>3 DEF DaemonHandles
<1>4. MessageShapes'
  BY <1>1, <1>3, UpStaysFine, DownStaysFine DEF MessageShapes
<1> QED
  BY <1>1, <1>3, <1>4 DEF Shapes, QueueShapes

LEMMA PitKeepsShape ==
  ASSUME Shapes, PitSpeaks \/ TakerProposes, UNCHANGED clientVars
  PROVE  OrderShapes' /\ MessageShapes' /\ IsQueue(up)' /\ IsQueue(down)' /\ (fills \in Nat)'
<1>1. UNCHANGED <<up, finalized_offers, sigs_sent>> /\ IsQueue(up')
  BY DEF PitSpeaks, TakerProposes, on_orderbook_requested, on_order_fill, on_seen_auth,
         on_commitment_seen, on_push_tx, TakerBroadcasts, on_seen_tx, clientVars, cbVars,
         linkVars, daemonVars, Shapes, QueueShapes
<1> DEFINE Kept == /\ OrderShapes' /\ (fills \in Nat)' /\ fills' \in {fills, fills + 1}
                   /\ \A n \in Takers : HasOrder(n) => HasOrder(n)'
           Sent == /\ IsQueue(down')
                   /\ \/ down' = down
                      \/ \E m : Pushed(down, down', m) /\ DownFine(m)
<1>2. (\E m : down' = Append(down, m) /\ DownFine(m)) => Sent
  BY QueueMoves DEF Shapes
<1>3. down' = down => Sent
  BY DEF Shapes, QueueShapes
<1>4. CASE on_orderbook_requested \/ \E c \in Commits : on_commitment_seen(c)
  <2>1. UNCHANGED <<down, orderVars>>
    BY <1>1, <1>4 DEF on_orderbook_requested, on_commitment_seen, linkVars, orderVars
  <2> QED
    BY <1>1, <1>3, <2>1, OrdersKeepShape, UpStaysFine, DownStaysFine DEF MessageShapes
<1>5. CASE \E t \in SignedTxs : on_push_tx(t) \/ TakerBroadcasts(t)
  <2>1. UNCHANGED orderVars
        /\ \/ down' = down
           \/ \E t : down' = Append(down, [type |-> "JMTXBroadcast", tx |-> t])
    <3>1. PICK t \in SignedTxs : on_push_tx(t) \/ TakerBroadcasts(t)
      BY <1>5
    <3>2. CASE on_push_tx(t)
      BY <1>1, <3>2 DEF on_push_tx, Send, daemonVars, orderVars
    <3>3. CASE TakerBroadcasts(t)
      BY <1>1, <3>3 DEF TakerBroadcasts, daemonVars, orderVars
    <3> QED
      BY <3>1, <3>2, <3>3
  <2>2. \A t : DownFine([type |-> "JMTXBroadcast", tx |-> t])
    BY DEF DownFine
  <2> QED
    BY <1>1, <1>2, <1>3, <2>1, <2>2, OrdersKeepShape, UpStaysFine, DownStaysFine
       DEF MessageShapes
<1>6. CASE \E n \in Takers, a \in Amounts, c \in Commits : on_order_fill(n, a, c)
  <2>1. PICK n \in Takers, a \in Amounts, c \in Commits : on_order_fill(n, a, c)
    BY <1>6
  <2>2. PICK p : p = Order(fills + 1, a, c)
    OBVIOUS
  <2>3. /\ UNCHANGED down /\ fills' = fills + 1
        /\ active_orders' = [active_orders EXCEPT ![n] = p]
    BY <2>1, <2>2 DEF on_order_fill
  <2>4. IsOrder(p)'
    <3>1. fills \in Nat
      BY DEF Shapes, QueueShapes
    <3> QED
      BY <2>2, <2>3, <3>1 DEF IsOrder, Order, NoGrant
  <2>5. Kept
    BY <1>1, <2>3, <2>4, OrderChanges
  <2> QED
    BY <1>1, <1>3, <2>3, <2>5, UpStaysFine, DownStaysFine DEF MessageShapes
<1>7. CASE \E n \in Takers : on_seen_auth(n)
  <2>1. PICK n \in Takers : on_seen_auth(n)
    BY <1>7
  <2>2. PICK o : o = active_orders[n]
    OBVIOUS
  <2>3. PICK p : p = [o EXCEPT !.authed = TRUE]
    OBVIOUS
  <2>4. /\ UNCHANGED fills /\ HasOrder(n)
        /\ active_orders' = [active_orders EXCEPT ![n] = p]
        /\ down' = Append(down, [type |-> "JMAuthReceived", nick |-> n, fill |-> o.fill,
                                 amount |-> o.amount, commit |-> o.commit])
    BY <2>1, <2>2, <2>3 DEF on_seen_auth, Send
  <2>5. IsOrder(o)
    BY <2>2, <2>4 DEF Shapes, OrderShapes
  <2>6. p = [fill |-> o.fill, amount |-> o.amount, commit |-> o.commit,
             authed |-> TRUE, proposed |-> o.proposed, grant |-> o.grant]
    <3>1. o = [fill |-> o.fill, amount |-> o.amount, commit |-> o.commit,
               authed |-> o.authed, proposed |-> o.proposed, grant |-> o.grant]
      BY <2>5 DEF IsOrder
    <3> QED
      BY <2>3, <3>1
  <2>7. IsOrder(p)'
    BY <2>4, <2>5, <2>6 DEF IsOrder
  <2>8. Kept
    BY <1>1, <2>4, <2>7, OrderChanges
  <2>9. DownFine([type |-> "JMAuthReceived", nick |-> n, fill |-> o.fill,
                  amount |-> o.amount, commit |-> o.commit])
    BY <2>4, <2>5 DEF DownFine, IsOrder
  <2> QED
    BY <1>1, <1>2, <2>4, <2>8, <2>9, UpStaysFine, DownStaysFine DEF MessageShapes
<1>8. CASE TakerProposes
  <2>1. PICK n \in Takers : HasOrder(n) /\ \E tx \in ProposedTxs(active_orders[n]) :
                                            on_seen_tx(n, tx, FreeToPropose(n))
    BY <1>8 DEF TakerProposes
  <2>2. PICK tx \in ProposedTxs(active_orders[n]) : on_seen_tx(n, tx, FreeToPropose(n))
    BY <2>1
  <2>3. PICK o : o = active_orders[n]
    OBVIOUS
  <2>4. PICK p : p = [o EXCEPT !.proposed = TRUE]
    OBVIOUS
  <2>5. /\ UNCHANGED fills
        /\ active_orders' = [active_orders EXCEPT ![n] = p]
        /\ down' = Append(down, [type |-> "JMTXReceived", nick |-> n, tx |-> tx, offer |-> o])
    BY <2>2, <2>3, <2>4 DEF on_seen_tx, Send
  <2>6. IsOrder(o)
    BY <2>1, <2>3 DEF Shapes, OrderShapes
  <2>7. p = [fill |-> o.fill, amount |-> o.amount, commit |-> o.commit,
             authed |-> o.authed, proposed |-> TRUE, grant |-> o.grant]
    <3>1. o = [fill |-> o.fill, amount |-> o.amount, commit |-> o.commit,
               authed |-> o.authed, proposed |-> o.proposed, grant |-> o.grant]
      BY <2>6 DEF IsOrder
    <3> QED
      BY <2>4, <3>1
  <2>8. IsOrder(p)'
    BY <2>5, <2>6, <2>7 DEF IsOrder
  <2>9. Kept
    BY <1>1, <2>5, <2>8, OrderChanges
  <2>10. DownFine([type |-> "JMTXReceived", nick |-> n, tx |-> tx, offer |-> o])
    BY <2>2, <2>3, <2>6 DEF DownFine, IsOrder
  <2> QED
    BY <1>1, <1>2, <2>5, <2>9, <2>10, UpStaysFine, DownStaysFine DEF MessageShapes
<1> QED
  BY <1>4, <1>5, <1>6, <1>7, <1>8 DEF PitSpeaks

LEMMA ClientKeepsShape ==
  ASSUME Shapes, ClientHandles \/ Loops, UNCHANGED daemonVars
  PROVE  OrderShapes' /\ MessageShapes' /\ IsQueue(up)' /\ IsQueue(down)' /\ (fills \in Nat)'
<1>1. UNCHANGED <<active_orders, sigs_sent, fills>>
  BY DEF daemonVars, ClientHandles, Loops, on_JM_UP, on_auth_accepted, on_auth_refused,
         on_tx_accepted, on_tx_refused, on_JM_TX_BROADCAST, try_to_create_my_orders,
         submitOffers, monitor_unconfirmed, monitor_confirmed, check_callback_called, linkVars
<1>2. \/ down' = down
      \/ down # <<>> /\ down' = Tail(down)
  BY DEF ClientHandles, Loops, on_JM_UP, on_auth_accepted, on_auth_refused,
         on_tx_accepted, on_tx_refused, on_JM_TX_BROADCAST, try_to_create_my_orders,
         submitOffers, monitor_unconfirmed, monitor_confirmed, check_callback_called,
         ClientGets, linkVars
<1>3. down # <<>> => DownFine(Head(down))
  <2>1. down # <<>> => Popped(down, Tail(down))
    BY TailIs DEF Shapes, QueueShapes
  <2> QED
    BY <2>1 DEF Popped, Shapes, MessageShapes
<1>4. \/ up' = up
      \/ \E m : up' = Append(up, m) /\ UpFine(m)
  <2>1. CASE on_auth_accepted
    <3>1. PICK m : m = Head(down)
      OBVIOUS
    <3>2. m.nick \in Takers /\ HasOrder(m.nick) /\ m.fill \in 1..fills
      BY <1>3, <2>1, <3>1 DEF on_auth_accepted, ClientGets, DownFine
    <3>3. PICK g : g.fill = m.fill
                   /\ up' = Append(up, [type |-> "JMIOAuth", nick |-> m.nick, grant |-> g])
      BY <2>1, <3>1 DEF on_auth_accepted
    <3>4. UpFine([type |-> "JMIOAuth", nick |-> m.nick, grant |-> g])
      BY <3>2, <3>3 DEF UpFine
    <3> QED
      BY <3>3, <3>4
  <2>2. CASE on_tx_accepted
    <3>1. PICK m : m = Head(down)
      OBVIOUS
    <3>2. m.nick \in Takers
      BY <1>3, <2>2, <3>1 DEF on_tx_accepted, ClientGets, DownFine
    <3>3. up' = Append(up, [type |-> "JMTXSigs", nick |-> m.nick, tx |-> m.tx])
      BY <2>2, <3>1 DEF on_tx_accepted
    <3>4. UpFine([type |-> "JMTXSigs", nick |-> m.nick, tx |-> m.tx])
      BY <3>2 DEF UpFine
    <3> QED
      BY <3>3, <3>4
  <2>3. CASE submitOffers
    <3>1. \/ up' = up
          \/ up' = Append(up, [type |-> "JMSetup", offers |-> offerlist])
      BY <2>3 DEF submitOffers
    <3> QED
      BY <3>1 DEF UpFine
  <2>4. CASE \E i \in DOMAIN net : monitor_unconfirmed(i) \/ monitor_confirmed(i)
    <3>1. \/ up' = up
          \/ \E w : UpdateOffers(w)
      BY <2>4 DEF monitor_unconfirmed, monitor_confirmed, CallbackRaises
    <3>2. ASSUME NEW w, UpdateOffers(w) PROVE \E m : up' = Append(up, m) /\ UpFine(m)
      <4>1. PICK m : /\ m = [type |-> "JMAnnounceOffers", to_announce |-> ToAnnounce(w),
                             to_cancel |-> ToCancel(w), offers |-> offerlist']
                     /\ up' = Append(up, m)
        BY <3>2 DEF UpdateOffers
      <4>2. UpFine(m)
        BY <4>1 DEF UpFine
      <4> QED
        BY <4>1, <4>2
    <3> QED
      BY <3>1, <3>2
  <2>5. CASE \/ on_JM_UP \/ on_auth_refused \/ on_tx_refused \/ on_JM_TX_BROADCAST
             \/ try_to_create_my_orders \/ \E c \in checks : check_callback_called(c)
    BY <2>5 DEF on_JM_UP, on_auth_refused, on_tx_refused, on_JM_TX_BROADCAST,
                try_to_create_my_orders, check_callback_called, linkVars
  <2> QED
    BY <2>1, <2>2, <2>3, <2>4, <2>5 DEF ClientHandles, Loops
<1>5. finalized_offers' = [n \in Takers |-> finalized_offers'[n]]
  <2>1. \/ finalized_offers' = finalized_offers
        \/ \E n, t : finalized_offers' = [finalized_offers EXCEPT ![n] = t]
    BY DEF ClientHandles, Loops, on_JM_UP, on_auth_accepted, on_auth_refused,
           on_tx_accepted, on_tx_refused, on_JM_TX_BROADCAST, try_to_create_my_orders,
           submitOffers, monitor_unconfirmed, monitor_confirmed, check_callback_called,
           UpdateOffers, CallbackRaises, clientVars, cbVars
  <2> QED
    BY <2>1 DEF Shapes, OrderShapes
<1>6. \A n \in Takers : /\ HasOrder(n) <=> HasOrder(n)'
                        /\ IsOrder(active_orders[n]) => IsOrder(active_orders[n])'
  BY <1>1 DEF HasOrder, IsOrder
<1>7. OrderShapes' /\ (fills \in Nat)'
  BY <1>1, <1>5, <1>6 DEF Shapes, OrderShapes, QueueShapes
<1>8. /\ IsQueue(up') /\ IsQueue(down')
      /\ \/ up' = up
         \/ \E m : Pushed(up, up', m) /\ UpFine(m)
      /\ down' = down \/ Popped(down, down')
  BY <1>2, <1>4, QueueMoves DEF Shapes, QueueShapes
<1> QED
  BY <1>1, <1>6, <1>7, <1>8, UpStaysFine, DownStaysFine DEF MessageShapes

LEMMA OnlyCrashesCount ==
  ASSUME [Next]_vars, ~Crash
  PROVE  crashes' = crashes
BY DEF Next, vars, linkVars, Confirm, DaemonHandles, on_JM_SETUP, on_JM_ANNOUNCE_OFFERS,
       on_JM_IOAUTH, on_JM_TX_SIGS, PitSpeaks, on_orderbook_requested, on_order_fill,
       on_seen_auth, on_commitment_seen, on_push_tx, TakerBroadcasts, TakerProposes,
       on_seen_tx, ClientHandles, on_JM_UP, on_auth_accepted, on_auth_refused,
       on_tx_accepted, on_tx_refused, on_JM_TX_BROADCAST, Loops, try_to_create_my_orders,
       submitOffers, monitor_unconfirmed, monitor_confirmed, check_callback_called

LEMMA NextShapes == Shapes /\ [Next]_vars => Shapes'
<1> SUFFICES ASSUME Shapes, [Next]_vars PROVE Shapes'
  OBVIOUS
<1>1. IsQueue(net)' /\ (seen \in 0..Len(net))'
  BY NetMoves DEF Shapes
<1>2. (crashes \in Nat)'
  <2>1. crashes' = crashes \/ crashes' = crashes + 1
    BY OnlyCrashesCount DEF Crash
  <2> QED
    BY <2>1 DEF Shapes, QueueShapes
<1>3. OrderShapes' /\ MessageShapes' /\ IsQueue(up)' /\ IsQueue(down)' /\ (fills \in Nat)'
  <2>1. CASE (UNCHANGED vars) \/ (Confirm /\ UNCHANGED <<daemonVars, clientVars>>)
    <3>1. UNCHANGED <<up, down, orderVars>>
      BY <2>1 DEF vars, Confirm, linkVars, daemonVars, clientVars, cbVars, orderVars
    <3> QED
      BY <3>1, OrdersKeepShape, UpStaysFine, DownStaysFine
         DEF MessageShapes, Shapes, QueueShapes
  <2>2. CASE Crash
    <3>1. /\ up' = <<>> /\ down' = <<[type |-> "JMUp"]>>
          /\ active_orders' = [n \in Takers |-> NoOrder] /\ UNCHANGED <<fills, sigs_sent>>
          /\ finalized_offers' = [n \in Takers |-> NoTx]
      BY <2>2 DEF Crash, ClientRestart
    <3>2. IsQueue(up') /\ IsQueue(down')
      <4>1. <<>> \in Seq({}) /\ <<[type |-> "JMUp"]>> \in Seq({[type |-> "JMUp"]})
        OBVIOUS
      <4> QED
        BY <3>1, <4>1, IsAQueue
    <3>3. MessageShapes'
      <4>1. \A i \in DOMAIN down' : down'[i].type = "JMUp"
        BY <3>1
      <4>2. DOMAIN up' = {}
        BY <3>1
      <4> QED
        BY <4>1, <4>2 DEF MessageShapes, DownFine
    <3> QED
      BY <3>1, <3>2, <3>3 DEF Shapes, OrderShapes, QueueShapes, HasOrder
  <2>3. CASE DaemonHandles /\ UNCHANGED clientVars
    BY <2>3, DaemonKeepsShape
  <2>4. CASE (PitSpeaks \/ TakerProposes) /\ UNCHANGED clientVars
    BY <2>4, PitKeepsShape
  <2>5. CASE (ClientHandles \/ Loops) /\ UNCHANGED daemonVars
    BY <2>5, ClientKeepsShape
  <2> QED
    BY <2>1, <2>2, <2>3, <2>4, <2>5 DEF Next
<1> QED
  BY <1>1, <1>2, <1>3 DEF Shapes, QueueShapes

(***************************************************************************)
(* The pit, the daemon and the client have the same offers                 *)
(***************************************************************************)

(* Nothing was set up yet: JMUp is still to come, or offers are waited for.*)
Before == ready_loop # -1 \/ \E i \in DOMAIN down : down[i].type = "JMUp"

Blank ==
  /\ up = <<>> /\ d_offerlist = {} /\ unconfirm_cbs = {} /\ confirm_cbs = {}
  /\ \A n \in Takers : ~HasOrder(n)
  /\ \A i \in DOMAIN down : down[i].type \in {"JMUp", "JMTXBroadcast"}
  /\ orders_loop => offerlist = {}

(* What a message makes of the offers that were told before it.            *)
Tells(old, m, new) ==
  /\ m.type \in {"JMSetup", "JMAnnounceOffers"} => new = m.offers
  /\ m.type = "JMAnnounceOffers" =>
       new = WithoutOids(WithoutOids(old, m.to_cancel), Oids(m.to_announce))
               \cup m.to_announce
  /\ m.type \notin {"JMSetup", "JMAnnounceOffers"} => new = old

(* The offers from what the daemon has to what the client has, one message *)
(* after the other.                                                        *)
Told(h) ==
  /\ h[0] = d_offerlist /\ h[Len(up)] = offerlist
  /\ \A i \in DOMAIN up : Tells(h[i - 1], up[i], h[i])

PitInv ==
  /\ pit = d_offerlist
  /\ \A i \in DOMAIN down : down[i].type = "JMUp" => i = 1 /\ ready_loop = -1
  /\ Before \/ reactor_stopped => Blank
  /\ ~Before /\ ~reactor_stopped => ~orders_loop /\ \E h : Told(h)

LEMMA PoppedTold ==
  ASSUME NEW h, Told(h), Popped(up, up'), offerlist' = offerlist, d_offerlist' = h[1]
  PROVE  \E g : Told(g)'
<1>0. PICK g : g = [k \in 0..(Len(up) - 1) |-> h[k + 1]]
  OBVIOUS
<1>1. /\ Len(up) \in Nat \ {0} /\ DOMAIN up = 1..Len(up) /\ Len(up') = Len(up) - 1
      /\ DOMAIN up' = 1..Len(up') /\ \A i \in DOMAIN up' : up'[i] = up[i + 1]
  BY DEF Popped
<1>2. g[0] = d_offerlist' /\ g[Len(up')] = offerlist'
  <2>1. 0 \in 0..(Len(up) - 1) /\ Len(up') \in 0..(Len(up) - 1) /\ Len(up') + 1 = Len(up)
    BY <1>1
  <2> QED
    BY <1>0, <2>1 DEF Told
<1>3. ASSUME NEW i \in DOMAIN up' PROVE Tells(g[i - 1], up'[i], g[i])
  <2>1. /\ i \in 1..(Len(up) - 1) /\ i + 1 \in DOMAIN up /\ (i + 1) - 1 = i
        /\ i - 1 \in 0..(Len(up) - 1) /\ (i - 1) + 1 = i /\ i \in 0..(Len(up) - 1)
    BY <1>1
  <2>2. g[i - 1] = h[i] /\ g[i] = h[i + 1]
    BY <1>0, <2>1
  <2>3. Tells(h[(i + 1) - 1], up[i + 1], h[i + 1])
    BY <2>1 DEF Told
  <2> QED
    BY <1>1, <2>1, <2>2, <2>3
<1> QED
  BY <1>2, <1>3 DEF Told, Tells

LEMMA PushedTold ==
  ASSUME NEW h, Told(h), NEW m, Pushed(up, up', m), NEW new, offerlist' = new,
         Tells(offerlist, m, new), d_offerlist' = d_offerlist
  PROVE  \E g : Told(g)'
<1>0. PICK g : g = [k \in 0..(Len(up) + 1) |-> IF k = Len(up) + 1 THEN new ELSE h[k]]
  OBVIOUS
<1>1. /\ Len(up) \in Nat /\ DOMAIN up = 1..Len(up) /\ Len(up') = Len(up) + 1
      /\ DOMAIN up' = 1..Len(up')
  BY DEF Pushed
<1>2. g[0] = d_offerlist' /\ g[Len(up')] = offerlist'
  <2>1. 0 \in 0..(Len(up) + 1) /\ Len(up') \in 0..(Len(up) + 1) /\ 0 # Len(up) + 1
    BY <1>1
  <2> QED
    BY <1>0, <1>1, <2>1 DEF Told
<1>3. ASSUME NEW i \in DOMAIN up' PROVE Tells(g[i - 1], up'[i], g[i])
  <2>1. CASE i \in DOMAIN up
    <3>1. /\ i \in 0..(Len(up) + 1) /\ i - 1 \in 0..(Len(up) + 1) /\ i # Len(up) + 1
          /\ i - 1 # Len(up) + 1
      BY <1>1, <2>1
    <3>2. g[i - 1] = h[i - 1] /\ g[i] = h[i] /\ up'[i] = up[i]
      BY <1>0, <1>1, <2>1, <3>1 DEF Pushed
    <3> QED
      BY <2>1, <3>2 DEF Told
  <2>2. CASE i = Len(up) + 1
    <3>1. /\ i - 1 = Len(up) /\ Len(up) \in 0..(Len(up) + 1) /\ Len(up) # Len(up) + 1
          /\ i \in 0..(Len(up) + 1)
      <4>1. PICK n \in Nat : n = Len(up)
        BY <1>1
      <4>2. i = n + 1
        BY <2>2, <4>1
      <4>3. i - 1 = n /\ n \in 0..(n + 1) /\ n # n + 1 /\ i \in 0..(n + 1)
        BY <4>2
      <4> QED
        BY <4>1, <4>3
    <3>2. g[i - 1] = h[Len(up)] /\ g[i] = new /\ up'[i] = m
      <4>1. i \notin DOMAIN up
        BY <1>1, <2>2
      <4> QED
        BY <1>0, <1>1, <2>2, <3>1, <4>1 DEF Pushed
    <3> QED
      BY <3>2 DEF Told
  <2> QED
    BY <2>1, <2>2 DEF Pushed
<1> QED
  BY <1>2, <1>3 DEF Told, Tells

(* Whatever presupposes an offer happens after the setup.                  *)
LEMMA SetUp ==
  ASSUME PitInv, ~reactor_stopped,
         \/ up # <<>> \/ d_offerlist # {} \/ unconfirm_cbs # {} \/ confirm_cbs # {}
         \/ \E n \in Takers : HasOrder(n)
         \/ \E i \in DOMAIN down : down[i].type \in {"JMAuthReceived", "JMTXReceived"}
  PROVE  ~Before /\ ~orders_loop /\ \E h : Told(h)
<1>1. ~Blank
  <2>1. ASSUME NEW i \in DOMAIN down, down[i].type \in {"JMAuthReceived", "JMTXReceived"}
        PROVE  ~Blank
    BY <2>1 DEF Blank
  <2> QED
    BY <2>1 DEF Blank
<1> QED
  BY <1>1 DEF PitInv

LEMMA StaysSetUp ==
  ASSUME PitInv, ~Before, ~reactor_stopped, UNCHANGED <<ready_loop, reactor_stopped, orders_loop>>,
         pit' = d_offerlist', \E g : Told(g)',
         \/ down' = down
         \/ Popped(down, down')
         \/ \E m : Pushed(down, down', m) /\ m.type # "JMUp"
  PROVE  PitInv'
<1>1. \A i \in DOMAIN down : down[i].type # "JMUp"
  BY DEF Before
<1>2. \A i \in DOMAIN down' : down'[i].type # "JMUp"
  BY <1>1 DEF Popped, Pushed
<1>3. ~Before' /\ ~reactor_stopped' /\ ~orders_loop'
  BY <1>2 DEF Before, PitInv
<1> QED
  BY <1>2, <1>3 DEF PitInv

(* A step that has nothing to do with offers and orders.                   *)
LEMMA NoOfferMoves ==
  ASSUME PitInv,
         UNCHANGED <<up, d_offerlist, pit, offerlist, active_orders, ready_loop,
                     reactor_stopped, orders_loop>>,
         unconfirm_cbs' \subseteq unconfirm_cbs, confirm_cbs' \subseteq confirm_cbs,
         \/ down' = down
         \/ Popped(down, down') /\ down[1].type # "JMUp"
         \/ \E m : Pushed(down, down', m) /\ m.type = "JMTXBroadcast"
  PROVE  PitInv'
<1>1. /\ \A i \in DOMAIN down' : down'[i].type = "JMUp" => i = 1 /\ ready_loop = -1
      /\ Before' <=> Before
      /\ Blank => \A i \in DOMAIN down' : down'[i].type \in {"JMUp", "JMTXBroadcast"}
  <2>1. CASE down' = down
    BY <2>1 DEF PitInv, Before, Blank
  <2>2. CASE Popped(down, down') /\ down[1].type # "JMUp"
    <3>1. \A i \in DOMAIN down : down[i].type # "JMUp"
      BY <2>2 DEF PitInv
    <3>2. \A i \in DOMAIN down' : i + 1 \in DOMAIN down /\ down'[i] = down[i + 1]
      BY <2>2 DEF Popped
    <3> QED
      BY <3>1, <3>2 DEF Before, Blank
  <2>3. CASE \E m : Pushed(down, down', m) /\ m.type = "JMTXBroadcast"
    <3>1. PICK m : Pushed(down, down', m) /\ m.type = "JMTXBroadcast"
      BY <2>3
    <3>2. \A i \in DOMAIN down' : \/ i \in DOMAIN down /\ down'[i] = down[i]
                                  \/ down'[i].type = "JMTXBroadcast"
      BY <3>1 DEF Pushed
    <3>3. \A i \in DOMAIN down : i \in DOMAIN down' /\ down'[i] = down[i]
      BY <3>1 DEF Pushed
    <3> QED
      BY <3>2, <3>3 DEF PitInv, Before, Blank
  <2> QED
    BY <2>1, <2>2, <2>3
<1>2. \A n \in Takers : HasOrder(n) <=> HasOrder(n)'
  BY DEF HasOrder
<1>3. Blank => Blank'
  BY <1>1, <1>2 DEF Blank
<1>4. \A h : Told(h) => Told(h)'
  BY DEF Told
<1> QED
  BY <1>1, <1>3, <1>4 DEF PitInv

(* Daemon and watchers make the same of every message.                     *)
LEMMA DaemonKeepsPit ==
  ASSUME Shapes, PitInv, ~reactor_stopped, DaemonHandles, UNCHANGED clientVars
  PROVE  PitInv'
<1> USE DEF clientVars, startVars
<1>1. /\ up # <<>> /\ Popped(up, up') /\ 1 \in DOMAIN up /\ Head(up) = up[1]
      /\ UNCHANGED <<down, offerlist, ready_loop, reactor_stopped, orders_loop>>
  <2>1. /\ up # <<>> /\ up' = Tail(up)
        /\ UNCHANGED <<down, offerlist, ready_loop, reactor_stopped, orders_loop>>
    BY DEF DaemonHandles, on_JM_SETUP, on_JM_ANNOUNCE_OFFERS, on_JM_IOAUTH, on_JM_TX_SIGS,
           DaemonGets
  <2> QED
    BY <2>1, QueueMoves DEF Shapes, Popped
<1>2. ~Before /\ \E h : Told(h)
  BY <1>1, SetUp
<1>3. PICK h : Told(h)
  BY <1>2
<1>4. Tells(d_offerlist, Head(up), h[1])
  <2>1. Tells(h[1 - 1], up[1], h[1])
    BY <1>1, <1>3 DEF Told
  <2> QED
    BY <1>1, <1>3, <2>1 DEF Told
<1>5. d_offerlist' = h[1] /\ pit' = h[1]
  <2>1. pit = d_offerlist
    BY DEF PitInv
  <2>2. CASE on_JM_SETUP
    BY <1>4, <2>2 DEF on_JM_SETUP, DaemonGets, Tells
  <2>3. CASE on_JM_ANNOUNCE_OFFERS
    <3>1. PICK m : m = Head(up)
      OBVIOUS
    <3>2. Oids(m.to_announce) = {o.oid : o \in m.to_announce}
      BY DEF Oids
    <3> QED
      BY <1>4, <2>1, <2>3, <3>1, <3>2 DEF on_JM_ANNOUNCE_OFFERS, DaemonGets, Tells
  <2>4. CASE on_JM_IOAUTH \/ on_JM_TX_SIGS
    BY <1>4, <2>1, <2>4 DEF on_JM_IOAUTH, on_JM_TX_SIGS, DaemonGets, Tells
  <2> QED
    BY <2>2, <2>3, <2>4 DEF DaemonHandles
<1>6. \E g : Told(g)'
  BY <1>1, <1>3, <1>5, PoppedTold
<1> QED
  BY <1>1, <1>2, <1>5, <1>6, StaysSetUp

LEMMA PitSpeaksOfIt ==
  ASSUME Shapes, PitInv, ~reactor_stopped, PitSpeaks \/ TakerProposes, UNCHANGED clientVars
  PROVE  PitInv'
<1>1. /\ UNCHANGED <<up, offerlist, ready_loop, reactor_stopped, orders_loop,
                     unconfirm_cbs, confirm_cbs>>
  BY DEF PitSpeaks, TakerProposes, on_orderbook_requested, on_order_fill, on_seen_auth,
         on_commitment_seen, on_push_tx, TakerBroadcasts, on_seen_tx, clientVars, startVars,
         cbVars, linkVars
<1>2. pit = d_offerlist
  BY DEF PitInv
<1>3. ASSUME ~Before, UNCHANGED d_offerlist, pit' = d_offerlist,
             \/ down' = down
             \/ \E m : down' = Append(down, m) /\ m.type # "JMUp"
      PROVE  PitInv'
  <2>1. \E h : Told(h)
    BY <1>3 DEF PitInv
  <2>2. \E h : Told(h)'
    BY <1>1, <1>3, <2>1 DEF Told
  <2>3. \/ down' = down
        \/ \E m : Pushed(down, down', m) /\ m.type # "JMUp"
    BY <1>3, QueueMoves DEF Shapes
  <2> QED
    BY <1>1, <1>3, <2>2, <2>3, StaysSetUp
<1>4. CASE on_orderbook_requested
  BY <1>3, <1>4, SetUp DEF on_orderbook_requested, linkVars
<1>5. CASE \E c \in Commits : on_commitment_seen(c)
  BY <1>1, <1>5, NoOfferMoves DEF on_commitment_seen, linkVars
<1>6. CASE \E t \in SignedTxs : on_push_tx(t) \/ TakerBroadcasts(t)
  <2>1. PICK t \in SignedTxs : on_push_tx(t) \/ TakerBroadcasts(t)
    BY <1>6
  <2>2. UNCHANGED <<d_offerlist, pit, active_orders>>
    BY <2>1 DEF on_push_tx, TakerBroadcasts, daemonVars
  <2>3. \/ down' = down
        \/ \E m : Pushed(down, down', m) /\ m.type = "JMTXBroadcast"
    <3>1. CASE on_push_tx(t)
      <4>1. PICK m : m = [type |-> "JMTXBroadcast", tx |-> t]
        OBVIOUS
      <4>2. down' = Append(down, m)
        BY <3>1, <4>1 DEF on_push_tx, Send
      <4> QED
        BY <4>1, <4>2, QueueMoves DEF Shapes
    <3>2. CASE TakerBroadcasts(t)
      BY <3>2 DEF TakerBroadcasts
    <3> QED
      BY <2>1, <3>1, <3>2
  <2> QED
    BY <1>1, <2>2, <2>3, NoOfferMoves
<1>7. CASE \E n \in Takers, a \in Amounts, c \in Commits : on_order_fill(n, a, c)
  BY <1>2, <1>3, <1>7, SetUp DEF on_order_fill
<1>8. CASE \E n \in Takers : on_seen_auth(n)
  <2>1. PICK n \in Takers : on_seen_auth(n)
    BY <1>8
  <2>2. HasOrder(n) /\ UNCHANGED <<d_offerlist, pit>>
        /\ \E m : down' = Append(down, m) /\ m.type = "JMAuthReceived"
    BY <2>1 DEF on_seen_auth, Send
  <2> QED
    BY <1>2, <1>3, <2>2, SetUp
<1>9. CASE TakerProposes
  <2>0. PICK n \in Takers : \E tx : HasOrder(n) /\ on_seen_tx(n, tx, FreeToPropose(n))
    BY <1>9 DEF TakerProposes
  <2>1. PICK tx : HasOrder(n) /\ on_seen_tx(n, tx, FreeToPropose(n))
    BY <2>0
  <2>2. HasOrder(n) /\ UNCHANGED <<d_offerlist, pit>>
        /\ \E m : down' = Append(down, m) /\ m.type = "JMTXReceived"
    BY <2>1 DEF on_seen_tx, Send
  <2> QED
    BY <1>2, <1>3, <2>2, SetUp
<1> QED
  BY <1>4, <1>5, <1>6, <1>7, <1>8, <1>9 DEF PitSpeaks

(* A message that is sent after the setup, with what it makes of the       *)
(* offers.                                                                 *)
LEMMA SendsMore ==
  ASSUME Shapes, PitInv, ~Before, ~reactor_stopped,
         UNCHANGED <<pit, d_offerlist, ready_loop, reactor_stopped, orders_loop>>,
         NEW m, up' = Append(up, m), Tells(offerlist, m, offerlist'),
         \/ down' = down
         \/ Popped(down, down')
  PROVE  PitInv'
<1>1. Pushed(up, up', m)
  BY QueueMoves DEF Shapes
<1>2. PICK h : Told(h)
  BY DEF PitInv
<1>3. PICK new : new = offerlist'
  OBVIOUS
<1>4. \E g : Told(g)'
  BY <1>1, <1>2, <1>3, PushedTold
<1> QED
  BY <1>4, StaysSetUp DEF PitInv

LEMMA ClientKeepsPit ==
  ASSUME Shapes, PitInv, ~reactor_stopped, ClientHandles, UNCHANGED daemonVars
  PROVE  PitInv'
<1>1. /\ UNCHANGED <<pit, d_offerlist, active_orders, offerlist, reactor_stopped, orders_loop>>
      /\ down # <<>> /\ down' = Tail(down)
  BY DEF daemonVars, ClientHandles, on_JM_UP, on_auth_accepted, on_auth_refused,
         on_tx_accepted, on_tx_refused, on_JM_TX_BROADCAST, ClientGets, clientVars, startVars
<1>2. Popped(down, down') /\ 1 \in DOMAIN down /\ Head(down) = down[1]
  BY <1>1, QueueMoves DEF Shapes, Popped
<1>3. CASE on_JM_UP
  <2>1. /\ ready_loop = -1 /\ Before /\ ready_loop' = 0
        /\ UNCHANGED <<up, unconfirm_cbs, confirm_cbs>>
    BY <1>2, <1>3 DEF on_JM_UP, ClientGets, PitInv, Before, cbVars
  <2>2. \A i \in DOMAIN down' : i + 1 \in DOMAIN down /\ i + 1 # 1 /\ down'[i] = down[i + 1]
    BY <1>2 DEF Popped
  <2>3. \A i \in DOMAIN down' : down'[i].type # "JMUp"
    BY <2>2 DEF PitInv
  <2>4. Before'
    BY <2>1 DEF Before
  <2>5. Blank'
    <3>1. Blank
      BY <2>1 DEF PitInv
    <3>2. \A i \in DOMAIN down' : down'[i].type \in {"JMUp", "JMTXBroadcast"}
      BY <2>2, <3>1 DEF Blank
    <3> QED
      BY <1>1, <2>1, <3>1, <3>2 DEF Blank, HasOrder
  <2> QED
    BY <1>1, <2>3, <2>4, <2>5 DEF PitInv
<1>4. CASE on_auth_refused \/ on_tx_refused \/ on_JM_TX_BROADCAST
  <2>1. UNCHANGED <<up, ready_loop, unconfirm_cbs, confirm_cbs>> /\ down[1].type # "JMUp"
    BY <1>2, <1>4 DEF on_auth_refused, on_tx_refused, on_JM_TX_BROADCAST, ClientGets,
                      clientVars, startVars, cbVars
  <2> QED
    BY <1>1, <1>2, <2>1, NoOfferMoves
<1>5. CASE on_auth_accepted
  <2>1. UNCHANGED ready_loop /\ down[1].type = "JMAuthReceived"
        /\ \E m : up' = Append(up, m) /\ m.type = "JMIOAuth"
    BY <1>2, <1>5 DEF on_auth_accepted, ClientGets, startVars
  <2>2. ~Before
    BY <1>2, <2>1, SetUp
  <2> QED
    BY <1>1, <1>2, <2>1, <2>2, SendsMore DEF Tells
<1>6. CASE on_tx_accepted
  <2>1. UNCHANGED ready_loop /\ down[1].type = "JMTXReceived"
        /\ \E m : up' = Append(up, m) /\ m.type = "JMTXSigs"
    BY <1>2, <1>6 DEF on_tx_accepted, ClientGets, startVars
  <2>2. ~Before
    BY <1>2, <2>1, SetUp
  <2> QED
    BY <1>1, <1>2, <2>1, <2>2, SendsMore DEF Tells
<1> QED
  BY <1>3, <1>4, <1>5, <1>6 DEF ClientHandles

LEMMA LoopsKeepPit ==
  ASSUME Shapes, PitInv, ~reactor_stopped, Loops, UNCHANGED daemonVars
  PROVE  PitInv'
<1>1. UNCHANGED <<pit, d_offerlist, active_orders, down>>
  BY DEF daemonVars, Loops, try_to_create_my_orders, submitOffers, monitor_unconfirmed,
         monitor_confirmed, check_callback_called, linkVars
<1>2. CASE try_to_create_my_orders
  <2>1. /\ orders_loop /\ ~orders_loop'
        /\ UNCHANGED <<up, ready_loop, reactor_stopped, unconfirm_cbs, confirm_cbs>>
    BY <1>2 DEF try_to_create_my_orders, linkVars, cbVars
  <2>2. Before /\ Before' /\ Blank
    BY <1>1, <2>1 DEF PitInv, Before
  <2>3. Blank'
    BY <1>1, <2>1, <2>2 DEF Blank, HasOrder
  <2> QED
    BY <1>1, <2>1, <2>2, <2>3 DEF PitInv
<1>3. CASE submitOffers
  <2>1. /\ ready_loop \in 0..(MaxLoops - 1) /\ MaxLoops \in Nat
        /\ UNCHANGED <<offerlist, orders_loop, unconfirm_cbs, confirm_cbs>>
    BY <1>3, LoopsAssumption DEF submitOffers, cbVars
  <2>2. Before /\ Blank /\ \A i \in DOMAIN down : down[i].type # "JMUp"
    BY <2>1 DEF Before, PitInv
  <2>3. CASE reactor_stopped' = TRUE /\ ready_loop' = -1 /\ up' = up
    <3>1. Blank'
      BY <1>1, <2>1, <2>2, <2>3 DEF Blank, HasOrder
    <3> QED
      BY <1>1, <2>2, <2>3, <3>1 DEF PitInv
  <2>4. CASE UNCHANGED reactor_stopped /\ ready_loop' = ready_loop + 1 /\ up' = up
    <3>1. Blank'
      BY <1>1, <2>1, <2>2, <2>4 DEF Blank, HasOrder
    <3>2. Before'
      BY <2>1, <2>4 DEF Before
    <3> QED
      BY <1>1, <2>2, <3>1, <3>2 DEF PitInv
  <2>5. CASE /\ UNCHANGED reactor_stopped /\ offerlist # {} /\ ready_loop' = -1
             /\ up' = Append(up, [type |-> "JMSetup", offers |-> offerlist])
    <3>1. ~Before' /\ ~orders_loop' /\ ~reactor_stopped'
      BY <1>1, <2>1, <2>2, <2>5 DEF Before, Blank
    <3>2. PICK m : m = [type |-> "JMSetup", offers |-> offerlist]
      OBVIOUS
    <3>3. Len(up') = 1 /\ up'[1] = m /\ DOMAIN up' = {1}
      BY <2>2, <2>5, <3>2 DEF Blank
    <3>4. PICK g : g = [k \in {0, 1} |-> IF k = 0 THEN d_offerlist ELSE offerlist]
      OBVIOUS
    <3>5. g[0] = d_offerlist /\ g[1] = offerlist /\ Tells(g[0], m, g[1])
      BY <3>2, <3>4 DEF Tells
    <3>6. Told(g)'
      <4>1. \A i \in DOMAIN up' : i - 1 = 0 /\ up'[i] = m /\ g[i] = g[1]
        BY <3>3
      <4>2. \A i \in DOMAIN up' : Tells(g[i - 1], up'[i], g[i])
        BY <3>5, <4>1
      <4> QED
        BY <1>1, <2>1, <3>3, <3>5, <4>2 DEF Told
    <3> QED
      BY <1>1, <2>2, <3>1, <3>6 DEF PitInv
  <2> QED
    BY <1>3, <2>3, <2>4, <2>5 DEF submitOffers
<1>4. CASE \E c \in checks : check_callback_called(c)
  <2>1. UNCHANGED <<up, offerlist, ready_loop, reactor_stopped, orders_loop>>
        /\ unconfirm_cbs' \subseteq unconfirm_cbs /\ confirm_cbs' \subseteq confirm_cbs
    BY <1>4 DEF check_callback_called, linkVars, startVars
  <2> QED
    BY <1>1, <2>1, NoOfferMoves
<1>5. CASE \E i \in DOMAIN net : monitor_unconfirmed(i) \/ monitor_confirmed(i)
  <2>1. PICK i \in DOMAIN net : monitor_unconfirmed(i) \/ monitor_confirmed(i)
    BY <1>5
  <2>2. UNCHANGED <<ready_loop, reactor_stopped, orders_loop>>
    BY <2>1 DEF monitor_unconfirmed, monitor_confirmed, startVars
  <2>3. \/ /\ UNCHANGED <<up, offerlist, unconfirm_cbs, confirm_cbs>>
        \/ /\ unconfirm_cbs # {} \/ confirm_cbs # {}
           /\ \E w : UpdateOffers(w)
    <3>1. CASE monitor_unconfirmed(i)
      BY <3>1 DEF monitor_unconfirmed, CallbackRaises, cbVars
    <3>2. CASE monitor_confirmed(i)
      BY <3>2 DEF monitor_confirmed, CallbackRaises, cbVars
    <3> QED
      BY <2>1, <3>1, <3>2
  <2>4. CASE UNCHANGED <<up, offerlist, unconfirm_cbs, confirm_cbs>>
    BY <1>1, <2>2, <2>4, NoOfferMoves
  <2>5. CASE unconfirm_cbs # {} \/ confirm_cbs # {}
    <3>1. ~Before
      BY <2>5, SetUp
    <3>2. ASSUME NEW w, UpdateOffers(w) PROVE PitInv'
      <4>1. PICK m : m = [type |-> "JMAnnounceOffers", to_announce |-> ToAnnounce(w),
                          to_cancel |-> ToCancel(w), offers |-> offerlist']
        OBVIOUS
      <4>2. up' = Append(up, m)
            /\ offerlist' = modify_orders(ToCancel(w), ToAnnounce(w))
        BY <3>2, <4>1 DEF UpdateOffers
      <4>3. offerlist' = WithoutOids(WithoutOids(offerlist, m.to_cancel), Oids(m.to_announce))
                           \cup m.to_announce
        BY <4>1, <4>2 DEF modify_orders, WithoutOids
      <4>4. Tells(offerlist, m, offerlist')
        BY <4>1, <4>3 DEF Tells
      <4> QED
        BY <1>1, <2>2, <3>1, <4>2, <4>4, SendsMore
    <3> QED
      BY <2>3, <2>4, <3>2
  <2> QED
    BY <2>3, <2>4, <2>5
<1> QED
  BY <1>2, <1>3, <1>4, <1>5 DEF Loops

LEMMA NextPit == Shapes /\ PitInv /\ [Next]_vars => PitInv'
<1> SUFFICES ASSUME Shapes, PitInv, [Next]_vars PROVE PitInv'
  OBVIOUS
<1>1. CASE (UNCHANGED vars) \/ (Confirm /\ UNCHANGED <<daemonVars, clientVars>>)
  <2>1. UNCHANGED <<up, down, d_offerlist, pit, offerlist, active_orders, ready_loop,
                    reactor_stopped, orders_loop, unconfirm_cbs, confirm_cbs>>
    BY <1>1 DEF vars, Confirm, linkVars, daemonVars, clientVars, startVars, cbVars
  <2> QED
    BY <2>1, NoOfferMoves
<1>2. CASE Crash
  <2>1. /\ up' = <<>> /\ down' = <<[type |-> "JMUp"]>> /\ d_offerlist' = {} /\ pit' = {}
        /\ active_orders' = [n \in Takers |-> NoOrder]
        /\ offerlist' = {} /\ ready_loop' = -1 /\ unconfirm_cbs' = {} /\ confirm_cbs' = {}
    BY <1>2 DEF Crash, ClientRestart
  <2>2. DOMAIN down' = {1} /\ down'[1].type = "JMUp"
    BY <2>1
  <2> QED
    BY <2>1, <2>2 DEF PitInv, Before, Blank, HasOrder
<1> QED
  BY <1>1, <1>2, DaemonKeepsPit, PitSpeaksOfIt, ClientKeepsPit, LoopsKeepPit
     DEF Next, Running

LEMMA PitIsToldAll == PitInv => PitKnowsOffers
<1> SUFFICES ASSUME PitInv, up = <<>>, pit # {}
             PROVE  pit = offerlist /\ d_offerlist = offerlist
  BY DEF PitKnowsOffers, Quiet
<1>1. ~Before /\ ~reactor_stopped
  BY DEF PitInv, Blank
<1>2. PICK h : Told(h)
  BY <1>1 DEF PitInv
<1>3. Len(up) = 0
  OBVIOUS
<1> QED
  BY <1>2, <1>3 DEF Told, PitInv

(***************************************************************************)
(* Steps on an order                                                       *)
(***************************************************************************)

(* The messages of these types in p are in q too, in the same order.       *)
Stays(q, p, types) ==
  \E a \in {0, 1} : \A i \in DOMAIN p :
    p[i].type \in types => i + a \in DOMAIN q /\ q[i + a] = p[i]

UpTypes == {"JMIOAuth", "JMTXSigs"}
DownTypes == {"JMAuthReceived", "JMTXReceived"}

ordersVars == <<active_orders, fills, sigs_sent, finalized_offers, given_out>>

OrderStep ==
  \/ /\ UNCHANGED clientVars
     /\ \/ on_JM_IOAUTH \/ on_JM_TX_SIGS
        \/ \E n \in Takers, a \in Amounts, c \in Commits : on_order_fill(n, a, c)
        \/ \E n \in Takers : on_seen_auth(n)
        \/ TakerProposes
  \/ UNCHANGED daemonVars /\ (on_auth_accepted \/ on_tx_accepted)

LEMMA PoppedStays ==
  ASSUME NEW q, NEW p, Popped(q, p), NEW types
  PROVE  Stays(q, p, types)
BY DEF Popped, Stays

LEMMA PushedStays ==
  ASSUME NEW q, NEW p, NEW m, Pushed(q, p, m), NEW types, m.type \notin types
  PROVE  Stays(q, p, types)
<1>1. \A i \in DOMAIN p : p[i].type \in types => i + 0 \in DOMAIN q /\ q[i + 0] = p[i]
  <2> SUFFICES ASSUME NEW i \in DOMAIN p, p[i].type \in types
               PROVE  i + 0 \in DOMAIN q /\ q[i + 0] = p[i]
    OBVIOUS
  <2>1. i \in DOMAIN q /\ p[i] = q[i] /\ i + 0 = i
    BY DEF Pushed
  <2> QED
    BY <2>1
<1> QED
  BY <1>1 DEF Stays

LEMMA SameStays ==
  ASSUME NEW q, IsQueue(q), NEW types
  PROVE  Stays(q, q, types)
<1>1. \A i \in DOMAIN q : i + 0 = i
  BY QueueIs
<1> QED
  BY <1>1 DEF Stays

LEMMA OthersLeaveOrders ==
  ASSUME Shapes, [Next]_vars, ~OrderStep, ~Crash
  PROVE  /\ Stays(up, up', UpTypes) /\ Stays(down, down', DownTypes)
         /\ UNCHANGED ordersVars
<1> USE DEF ordersVars, UpTypes, DownTypes
<1>1. Stays(up, up, UpTypes) /\ Stays(down, down, DownTypes)
  BY SameStays DEF Shapes, QueueShapes
<1>2. up # <<>> /\ up' = Tail(up) => Stays(up, up', UpTypes)
  BY QueueMoves, PoppedStays DEF Shapes
<1>3. down # <<>> /\ down' = Tail(down) => Stays(down, down', DownTypes)
  BY QueueMoves, PoppedStays DEF Shapes
<1>4. ASSUME NEW m, up' = Append(up, m), m.type \notin UpTypes
      PROVE  Stays(up, up', UpTypes)
  BY <1>4, QueueMoves, PushedStays DEF Shapes
<1>5. ASSUME NEW m, down' = Append(down, m), m.type \notin DownTypes
      PROVE  Stays(down, down', DownTypes)
  BY <1>5, QueueMoves, PushedStays DEF Shapes
<1>6. CASE (UNCHANGED vars) \/ (Confirm /\ UNCHANGED <<daemonVars, clientVars>>)
  BY <1>1, <1>6 DEF vars, Confirm, linkVars, daemonVars, clientVars, cbVars, walletVars
<1>7. CASE DaemonHandles /\ UNCHANGED clientVars
  <2>1. on_JM_SETUP \/ on_JM_ANNOUNCE_OFFERS
    BY <1>7 DEF DaemonHandles, OrderStep
  <2>2. /\ up # <<>> /\ up' = Tail(up)
        /\ UNCHANGED <<down, active_orders, fills, sigs_sent>>
    BY <2>1 DEF on_JM_SETUP, on_JM_ANNOUNCE_OFFERS, DaemonGets
  <2> QED
    BY <1>1, <1>2, <1>7, <2>2 DEF clientVars, cbVars, walletVars
<1>8. CASE PitSpeaks /\ UNCHANGED clientVars
  <2>1. UNCHANGED <<up, fills, active_orders, sigs_sent>>
    BY <1>8 DEF PitSpeaks, OrderStep, on_orderbook_requested, on_commitment_seen, on_push_tx,
                TakerBroadcasts, linkVars, daemonVars
  <2>2. \/ down' = down
        \/ \E t : down' = Append(down, [type |-> "JMTXBroadcast", tx |-> t])
    BY <1>8 DEF PitSpeaks, OrderStep, on_orderbook_requested, on_commitment_seen, on_push_tx,
                TakerBroadcasts, linkVars, Send
  <2>3. Stays(down, down', DownTypes)
    <3>1. ASSUME NEW t, down' = Append(down, [type |-> "JMTXBroadcast", tx |-> t])
          PROVE  Stays(down, down', DownTypes)
      <4>1. PICK m : m = [type |-> "JMTXBroadcast", tx |-> t]
        OBVIOUS
      <4> QED
        BY <1>5, <3>1, <4>1
    <3> QED
      BY <1>1, <2>2, <3>1
  <2> QED
    BY <1>1, <1>8, <2>1, <2>3 DEF clientVars, cbVars, walletVars
<1>9. CASE ClientHandles /\ UNCHANGED daemonVars
  <2>1. \/ on_JM_UP \/ on_auth_refused \/ on_tx_refused \/ on_JM_TX_BROADCAST
    BY <1>9 DEF ClientHandles, OrderStep
  <2>2. /\ down # <<>> /\ down' = Tail(down)
        /\ UNCHANGED <<up, fills, finalized_offers, given_out>>
    BY <2>1 DEF on_JM_UP, on_auth_refused, on_tx_refused, on_JM_TX_BROADCAST, ClientGets,
                clientVars, cbVars, walletVars
  <2> QED
    BY <1>1, <1>3, <1>9, <2>2 DEF daemonVars
<1>10. CASE Loops /\ UNCHANGED daemonVars
  <2>1. UNCHANGED <<down, fills, finalized_offers, given_out>>
    BY <1>10 DEF Loops, try_to_create_my_orders, submitOffers, monitor_unconfirmed,
                 monitor_confirmed, check_callback_called, linkVars, cbVars, walletVars,
                 CallbackRaises
  <2>2. \/ up' = up
        \/ up' = Append(up, [type |-> "JMSetup", offers |-> offerlist])
        \/ \E w : UpdateOffers(w)
    <3>1. CASE try_to_create_my_orders \/ submitOffers \/ \E c \in checks : check_callback_called(c)
      BY <3>1 DEF try_to_create_my_orders, submitOffers, check_callback_called, linkVars
    <3>2. CASE \E i \in DOMAIN net : monitor_unconfirmed(i) \/ monitor_confirmed(i)
      BY <3>2 DEF monitor_unconfirmed, monitor_confirmed, CallbackRaises
    <3> QED
      BY <1>10, <3>1, <3>2 DEF Loops
  <2>3. Stays(up, up', UpTypes)
    <3>1. CASE up' = Append(up, [type |-> "JMSetup", offers |-> offerlist])
      <4>1. PICK m : m = [type |-> "JMSetup", offers |-> offerlist]
        OBVIOUS
      <4> QED
        BY <1>4, <3>1, <4>1
    <3>2. ASSUME NEW w, UpdateOffers(w) PROVE Stays(up, up', UpTypes)
      <4>1. PICK m : /\ m = [type |-> "JMAnnounceOffers", to_announce |-> ToAnnounce(w),
                             to_cancel |-> ToCancel(w), offers |-> offerlist']
                     /\ up' = Append(up, m)
        BY <3>2 DEF UpdateOffers
      <4> QED
        BY <1>4, <4>1
    <3> QED
      BY <1>1, <2>2, <3>1, <3>2
  <2> QED
    BY <1>1, <1>10, <2>1, <2>3 DEF daemonVars
<1> QED
  BY <1>6, <1>7, <1>8, <1>9, <1>10 DEF Next, OrderStep

(* What each of these steps does to the messages and the orders.           *)
OthersSame(n) == \A k \in Takers \ {n} : active_orders'[k] = active_orders[k]

IoauthAt(n, g) ==
  /\ Popped(up, up') /\ up[1].type = "JMIOAuth" /\ up[1].nick = n /\ up[1].grant = g
  /\ HasOrder(n) /\ IsOrder(active_orders[n]) /\ g.fill \in 1..fills
  /\ active_orders'[n] = WithGrant(active_orders[n], g) /\ OthersSame(n)
  /\ UNCHANGED <<down, fills, sigs_sent, clientVars, net, crashes>>

LEMMA IoauthIs ==
  ASSUME Shapes, on_JM_IOAUTH, UNCHANGED clientVars
  PROVE  \E n \in Takers : \E g : IoauthAt(n, g)
<1>1. Popped(up, up') /\ Head(up) = up[1] /\ UpFine(up[1])
  <2>1. up # <<>> /\ up' = Tail(up)
    BY DEF on_JM_IOAUTH, DaemonGets
  <2>2. Popped(up, up')
    BY <2>1, QueueMoves DEF Shapes
  <2> QED
    BY <2>2 DEF Popped, Shapes, MessageShapes
<1>2. PICK n, g : n = up[1].nick /\ g = up[1].grant
  OBVIOUS
<1>3. n \in Takers /\ HasOrder(n) /\ g.fill \in 1..fills /\ up[1].type = "JMIOAuth"
  BY <1>1, <1>2 DEF on_JM_IOAUTH, DaemonGets, UpFine
<1>4. /\ active_orders' = [active_orders EXCEPT ![n].grant = g]
      /\ UNCHANGED <<down, fills, sigs_sent, net, crashes>>
  BY <1>1, <1>2 DEF on_JM_IOAUTH
<1>5. PICK p : /\ p = WithGrant(active_orders[n], g)
               /\ active_orders' = [active_orders EXCEPT ![n] = p]
  BY <1>3, <1>4, GrantStored
<1>6. active_orders'[n] = p /\ OthersSame(n) /\ IsOrder(active_orders[n])
  BY <1>3, <1>5 DEF Shapes, OrderShapes, OthersSame
<1> QED
  BY <1>1, <1>2, <1>3, <1>4, <1>5, <1>6 DEF IoauthAt

SigsAt(n, t) ==
  /\ Popped(up, up') /\ up[1].type = "JMTXSigs" /\ up[1].nick = n /\ up[1].tx = t
  /\ sigs_sent' = sigs_sent \cup {[nick |-> n, tx |-> t]}
  /\ UNCHANGED <<down, fills, active_orders, clientVars, net, crashes>>

LEMMA SigsIs ==
  ASSUME Shapes, on_JM_TX_SIGS, UNCHANGED clientVars
  PROVE  \E n \in Takers : \E t : SigsAt(n, t)
<1>1. Popped(up, up') /\ Head(up) = up[1] /\ UpFine(up[1])
  <2>1. up # <<>> /\ up' = Tail(up)
    BY DEF on_JM_TX_SIGS, DaemonGets
  <2>2. Popped(up, up')
    BY <2>1, QueueMoves DEF Shapes
  <2> QED
    BY <2>2 DEF Popped, Shapes, MessageShapes
<1>2. PICK n, t : n = up[1].nick /\ t = up[1].tx
  OBVIOUS
<1>3. n \in Takers /\ up[1].type = "JMTXSigs"
  BY <1>1, <1>2 DEF on_JM_TX_SIGS, DaemonGets, UpFine
<1>4. SigsAt(n, t)
  BY <1>1, <1>2, <1>3 DEF on_JM_TX_SIGS, SigsAt
<1> QED
  BY <1>3, <1>4

FillAt(n, p) ==
  /\ p = Order(fills + 1, p.amount, p.commit) /\ fills' = fills + 1
  /\ active_orders'[n] = p /\ OthersSame(n)
  /\ UNCHANGED <<up, down, sigs_sent, clientVars, net, crashes>>

LEMMA FillIs ==
  ASSUME Shapes, NEW n \in Takers, NEW a, NEW c, on_order_fill(n, a, c), UNCHANGED clientVars
  PROVE  \E p : FillAt(n, p)
<1>1. PICK p : p = Order(fills + 1, a, c)
  OBVIOUS
<1>2. p.amount = a /\ p.commit = c
  BY <1>1 DEF Order
<1>3. /\ active_orders' = [active_orders EXCEPT ![n] = p]
      /\ UNCHANGED <<up, down, sigs_sent, net, crashes>> /\ fills' = fills + 1
  BY <1>1 DEF on_order_fill
<1>4. active_orders'[n] = p /\ OthersSame(n)
  BY <1>3 DEF Shapes, OrderShapes, OthersSame
<1> QED
  BY <1>1, <1>2, <1>3, <1>4 DEF FillAt

SeenAuthAt(n, m, o) ==
  /\ HasOrder(n) /\ o = active_orders[n] /\ IsOrder(o) /\ ~o.authed
  /\ active_orders'[n] =
       [fill |-> o.fill, amount |-> o.amount, commit |-> o.commit,
        authed |-> TRUE, proposed |-> o.proposed, grant |-> o.grant]
  /\ OthersSame(n)
  /\ m = [type |-> "JMAuthReceived", nick |-> n, fill |-> o.fill,
          amount |-> o.amount, commit |-> o.commit]
  /\ Pushed(down, down', m)
  /\ UNCHANGED <<up, fills, sigs_sent, clientVars, net, crashes>>

LEMMA SeenAuthIs ==
  ASSUME Shapes, NEW n \in Takers, on_seen_auth(n), UNCHANGED clientVars
  PROVE  \E m, o : SeenAuthAt(n, m, o)
<1>1. PICK o : o = active_orders[n]
  OBVIOUS
<1>2. PICK m : m = [type |-> "JMAuthReceived", nick |-> n, fill |-> o.fill,
                    amount |-> o.amount, commit |-> o.commit]
  OBVIOUS
<1>3. PICK p : p = [o EXCEPT !.authed = TRUE]
  OBVIOUS
<1>4. /\ HasOrder(n) /\ ~o.authed /\ down' = Append(down, m)
      /\ active_orders' = [active_orders EXCEPT ![n] = p]
      /\ UNCHANGED <<up, fills, sigs_sent, net, crashes>>
  BY <1>1, <1>2, <1>3 DEF on_seen_auth, Send
<1>5. IsOrder(o)
  BY <1>1, <1>4 DEF Shapes, OrderShapes
<1>6. p = [fill |-> o.fill, amount |-> o.amount, commit |-> o.commit,
           authed |-> TRUE, proposed |-> o.proposed, grant |-> o.grant]
  <2>1. o = [fill |-> o.fill, amount |-> o.amount, commit |-> o.commit,
             authed |-> o.authed, proposed |-> o.proposed, grant |-> o.grant]
    BY <1>5 DEF IsOrder
  <2> QED
    BY <1>3, <2>1
<1>7. active_orders'[n] = p /\ OthersSame(n)
  BY <1>4 DEF Shapes, OrderShapes, OthersSame
<1>8. Pushed(down, down', m)
  BY <1>4, QueueMoves DEF Shapes
<1> QED
  BY <1>1, <1>2, <1>4, <1>5, <1>6, <1>7, <1>8 DEF SeenAuthAt

ProposeAt(n, m, o) ==
  /\ HasOrder(n) /\ o = active_orders[n] /\ IsOrder(o) /\ ~o.proposed
  /\ o.grant.fill = o.fill /\ FreeToPropose(n)
  /\ active_orders'[n] =
       [fill |-> o.fill, amount |-> o.amount, commit |-> o.commit,
        authed |-> o.authed, proposed |-> TRUE, grant |-> o.grant]
  /\ OthersSame(n)
  /\ m.type = "JMTXReceived" /\ m.nick = n /\ m.offer = o
  /\ Pushed(down, down', m)
  /\ UNCHANGED <<up, fills, sigs_sent, clientVars, net, crashes>>

LEMMA ProposeIs ==
  ASSUME Shapes, TakerProposes, UNCHANGED clientVars
  PROVE  \E n \in Takers : \E m, o : ProposeAt(n, m, o)
<1>1. PICK n \in Takers : HasOrder(n) /\ \E tx \in ProposedTxs(active_orders[n]) :
                                            on_seen_tx(n, tx, FreeToPropose(n))
  BY DEF TakerProposes
<1>2. PICK tx : on_seen_tx(n, tx, FreeToPropose(n))
  BY <1>1
<1>3. PICK o : o = active_orders[n]
  OBVIOUS
<1>4. PICK m : m = [type |-> "JMTXReceived", nick |-> n, tx |-> tx, offer |-> o]
  OBVIOUS
<1>5. PICK p : p = [o EXCEPT !.proposed = TRUE]
  OBVIOUS
<1>6. /\ FreeToPropose(n) /\ ~o.proposed /\ o.grant.fill = o.fill
      /\ down' = Append(down, m)
      /\ active_orders' = [active_orders EXCEPT ![n] = p]
      /\ UNCHANGED <<up, fills, sigs_sent, net, crashes>>
  BY <1>2, <1>3, <1>4, <1>5 DEF on_seen_tx, Send
<1>7. IsOrder(o)
  BY <1>1, <1>3 DEF Shapes, OrderShapes
<1>8. p = [fill |-> o.fill, amount |-> o.amount, commit |-> o.commit,
           authed |-> o.authed, proposed |-> TRUE, grant |-> o.grant]
  <2>1. o = [fill |-> o.fill, amount |-> o.amount, commit |-> o.commit,
             authed |-> o.authed, proposed |-> o.proposed, grant |-> o.grant]
    BY <1>7 DEF IsOrder
  <2> QED
    BY <1>5, <2>1
<1>9. active_orders'[n] = p /\ OthersSame(n)
  BY <1>6 DEF Shapes, OrderShapes, OthersSame
<1>10. Pushed(down, down', m)
  BY <1>6, QueueMoves DEF Shapes
<1>11. m.type = "JMTXReceived" /\ m.nick = n /\ m.offer = o
  BY <1>4
<1>12. ProposeAt(n, m, o)
  BY <1>1, <1>3, <1>6, <1>7, <1>8, <1>9, <1>10, <1>11 DEF ProposeAt
<1> QED
  BY <1>12

(* A coin without its height, as it is offered to a taker.                 *)
PlainCoin(c) == [id |-> c.id, value |-> c.value]

AuthAt(n, g, md) ==
  /\ Popped(down, down')
  /\ down[1].type = "JMAuthReceived" /\ down[1].nick = n /\ down[1].fill = g.fill
  /\ md \in Mixdepths /\ g.utxos # {} /\ g.fill \in 1..fills
  /\ g.cjaddr = CjAddress(md) /\ g.changeaddr = ChangeAddress(md)
  /\ given_out' = Append(Append(given_out, CjAddress(md)), ChangeAddress(md))
  /\ Pushed(up, up', [type |-> "JMIOAuth", nick |-> n, grant |-> g])
  /\ \A u \in g.utxos : \E c \in wallet : c.conf /\ u = PlainCoin(c)
  /\ UNCHANGED <<daemonVars, fills, finalized_offers, net, crashes>>

LEMMA AuthIs ==
  ASSUME Shapes, on_auth_accepted, UNCHANGED daemonVars
  PROVE  \E n \in Takers : \E g, md : AuthAt(n, g, md)
<1>1. PICK m : m = Head(down)
  OBVIOUS
<1>2. Popped(down, down') /\ m = down[1] /\ m.type = "JMAuthReceived"
  <2>1. down # <<>> /\ down' = Tail(down) /\ Head(down).type = "JMAuthReceived"
    BY DEF on_auth_accepted, ClientGets
  <2>2. Popped(down, down')
    BY <2>1, QueueMoves DEF Shapes
  <2> QED
    BY <1>1, <2>1, <2>2 DEF Popped
<1>3. m.nick \in Takers /\ m.fill \in 1..fills
  BY <1>2 DEF Shapes, MessageShapes, DownFine, Popped
<1>4. PICK md \in EnoughIn(m.amount) :
        /\ \E utxos \in select_utxos(md, RequiredAmount(m.amount)) :
             up' = Append(up, [type |-> "JMIOAuth", nick |-> m.nick,
                     grant |-> [utxos |-> utxos, cjaddr |-> CjAddress(md),
                                changeaddr |-> ChangeAddress(md),
                                fill |-> m.fill, commit |-> m.commit]])
        /\ given_out' = Append(Append(given_out, CjAddress(md)), ChangeAddress(md))
  BY <1>1 DEF on_auth_accepted
<1>5. PICK utxos \in select_utxos(md, RequiredAmount(m.amount)) :
        up' = Append(up, [type |-> "JMIOAuth", nick |-> m.nick,
                     grant |-> [utxos |-> utxos, cjaddr |-> CjAddress(md),
                                changeaddr |-> ChangeAddress(md),
                                fill |-> m.fill, commit |-> m.commit]])
  BY <1>4
<1>6. utxos # {} /\ md \in Mixdepths
  BY <1>5 DEF select_utxos, EnoughIn
<1>12. \A u \in utxos : \E c \in wallet : c.conf /\ u = PlainCoin(c)
  <2>1. \A u \in utxos : u \in {[id |-> c.id, value |-> c.value] :
                                   c \in {d \in wallet : d.md = md /\ d.conf}}
    BY <1>5 DEF select_utxos
  <2> QED
    BY <2>1 DEF PlainCoin
<1>7. PICK g : g = [utxos |-> utxos, cjaddr |-> CjAddress(md),
                    changeaddr |-> ChangeAddress(md), fill |-> m.fill, commit |-> m.commit]
  OBVIOUS
<1>8. Pushed(up, up', [type |-> "JMIOAuth", nick |-> m.nick, grant |-> g])
  BY <1>5, <1>7, QueueMoves DEF Shapes
<1>9. /\ g.utxos = utxos /\ g.fill = m.fill
      /\ g.cjaddr = CjAddress(md) /\ g.changeaddr = ChangeAddress(md)
  BY <1>7
<1>10. UNCHANGED <<fills, finalized_offers, net, crashes>>
  BY DEF on_auth_accepted, cbVars
<1>11. AuthAt(m.nick, g, md)
  BY <1>2, <1>3, <1>4, <1>6, <1>8, <1>9, <1>10, <1>12 DEF AuthAt
<1> QED
  BY <1>3, <1>11

(* Whatever is proposed has an output, and pays nothing of ours but the    *)
(* addresses of the grant.                                                 *)
PaysOnly(t, g) ==
  /\ t.ins # {} /\ 1 \in DOMAIN t.outs
  /\ \A i \in DOMAIN t.outs : t.outs[i][1] \in {g.cjaddr, g.changeaddr}

TxAt(n, t, o) ==
  /\ Popped(down, down')
  /\ down[1].type = "JMTXReceived" /\ down[1].nick = n /\ down[1].offer = o
  /\ o.grant.utxos # {} => PaysOnly(t, o.grant)
  /\ t.ins \subseteq {u.id : u \in o.grant.utxos}
  /\ t \in ProposedTxs(o) /\ verify_unsigned_tx(t, o) /\ o.amount \in Amounts
  /\ Pushed(up, up', [type |-> "JMTXSigs", nick |-> n, tx |-> t])
  /\ finalized_offers'[n] = t
  /\ \A k \in Takers \ {n} : finalized_offers'[k] = finalized_offers[k]
  /\ unconfirm_cbs' = unconfirm_cbs \cup {t} /\ confirm_cbs' = confirm_cbs \cup {t}
  /\ checks' = checks \cup {[tx |-> t, cbtype |-> "unconfirmed"]}
  /\ UNCHANGED <<daemonVars, fills, given_out, net, crashes, seen, active_txs>>

LEMMA ProposedPays ==
  ASSUME NEW o, NEW t \in ProposedTxs(o)
  PROVE  /\ 1 \in DOMAIN t.outs
         /\ \A i \in DOMAIN t.outs : t.outs[i][1] \in {o.grant.cjaddr, o.grant.changeaddr}
<1> DEFINE Fine(t2) ==
             /\ 1 \in DOMAIN t2.outs
             /\ \A i \in DOMAIN t2.outs : t2.outs[i][1] \in {o.grant.cjaddr, o.grant.changeaddr}
           A == o.grant.cjaddr
           B == o.grant.changeaddr
<1>1. \A ins, x, y : /\ Fine([ins |-> ins, outs |-> <<<<A, x>>, <<B, y>>>>])
                     /\ Fine([ins |-> ins, outs |-> <<<<B, x>>, <<A, y>>>>])
  OBVIOUS
<1>2. \A ins, x : Fine([ins |-> ins, outs |-> <<<<A, x>>>>])
  OBVIOUS
<1>3. \A ins, x, y, z : Fine([ins |-> ins, outs |-> <<<<A, x>>, <<A, y>>, <<B, z>>>>])
  OBVIOUS
<1>4. \E ins, outs :
        /\ t = [ins |-> ins, outs |-> outs]
        /\ \/ \E x, y : outs \in {<<<<A, x>>, <<B, y>>>>, <<<<B, x>>, <<A, y>>>>}
           \/ \E x : outs = <<<<A, x>>>>
           \/ \E x, y, z : outs = <<<<A, x>>, <<A, y>>, <<B, z>>>>
  <2> HIDE DEF Fine
  <2> QED
    BY DEF ProposedTxs
<1>5. Fine(t)
  <2> HIDE DEF Fine, A, B
  <2> QED
    BY <1>1, <1>2, <1>3, <1>4
<1> QED
  BY <1>5 DEF Fine

LEMMA ProposedSpends ==
  ASSUME NEW o, NEW t \in ProposedTxs(o)
  PROVE  t.ins \subseteq {u.id : u \in o.grant.utxos}
<1> DEFINE ids == {u.id : u \in o.grant.utxos}
<1> HIDE DEF ids
<1>1. \E ins, outs : t = [ins |-> ins, outs |-> outs] /\ (ins = ids \/ \E i \in ids : ins = ids \ {i})
  BY DEF ProposedTxs, ids
<1> QED
  BY <1>1 DEF ids

LEMMA TxIs ==
  ASSUME Shapes, on_tx_accepted, UNCHANGED daemonVars
  PROVE  \E n \in Takers : \E t, o : TxAt(n, t, o)
<1>1. PICK m : m = Head(down)
  OBVIOUS
<1>2. Popped(down, down') /\ m = down[1] /\ m.type = "JMTXReceived"
  <2>1. down # <<>> /\ down' = Tail(down) /\ Head(down).type = "JMTXReceived"
    BY DEF on_tx_accepted, ClientGets
  <2>2. Popped(down, down')
    BY <2>1, QueueMoves DEF Shapes
  <2> QED
    BY <1>1, <2>1, <2>2 DEF Popped
<1>3. m.nick \in Takers /\ m.tx \in ProposedTxs(m.offer) /\ m.offer.amount \in Amounts
  BY <1>2 DEF Shapes, MessageShapes, DownFine, Popped
<1>4. PICK n, t, o : n = m.nick /\ t = m.tx /\ o = m.offer
  OBVIOUS
<1>5. /\ verify_unsigned_tx(t, o)
      /\ finalized_offers' = [finalized_offers EXCEPT ![n] = t]
      /\ unconfirm_cbs' = unconfirm_cbs \cup {t} /\ confirm_cbs' = confirm_cbs \cup {t}
      /\ checks' = checks \cup {[tx |-> t, cbtype |-> "unconfirmed"]}
      /\ up' = Append(up, [type |-> "JMTXSigs", nick |-> n, tx |-> t])
      /\ UNCHANGED <<net, fills, crashes, given_out, seen, active_txs>>
  BY <1>1, <1>4 DEF on_tx_accepted, walletVars
<1>6. ASSUME o.grant.utxos # {} PROVE PaysOnly(t, o.grant)
  <2>1. {u.id : u \in o.grant.utxos} \subseteq t.ins
    BY <1>5 DEF verify_unsigned_tx
  <2>2. t.ins # {}
    BY <1>6, <2>1
  <2> QED
    BY <1>3, <1>4, <2>2, ProposedPays DEF PaysOnly
<1>7. Pushed(up, up', [type |-> "JMTXSigs", nick |-> n, tx |-> t])
  BY <1>5, QueueMoves DEF Shapes
<1>8. finalized_offers'[n] = t /\ \A k \in Takers \ {n} : finalized_offers'[k] = finalized_offers[k]
  BY <1>3, <1>4, <1>5 DEF Shapes, OrderShapes
<1>10. t.ins \subseteq {u.id : u \in o.grant.utxos}
  BY <1>3, <1>4, ProposedSpends
<1>9. TxAt(n, t, o)
  BY <1>2, <1>3, <1>4, <1>5, <1>6, <1>7, <1>8, <1>10 DEF TxAt
<1> QED
  BY <1>3, <1>4, <1>9

(***************************************************************************)
(* An address belongs to one taker                                         *)
(***************************************************************************)

(* A grant of a nick, on its way, in its order, or in what it proposed;    *)
(* a transaction we signed for it.                                         *)
GrantOf(n, g) ==
  \/ \E i \in DOMAIN up : up[i].type = "JMIOAuth" /\ up[i].nick = n /\ up[i].grant = g
  \/ \E i \in DOMAIN down :
       down[i].type = "JMTXReceived" /\ down[i].nick = n /\ down[i].offer.grant = g
  \/ HasOrder(n) /\ active_orders[n].grant = g /\ g.fill # 0

TxOf(n, t) ==
  \/ \E s \in sigs_sent : s.nick = n /\ s.tx = t
  \/ \E i \in DOMAIN up : up[i].type = "JMTXSigs" /\ up[i].nick = n /\ up[i].tx = t

AddressOf(n, a) ==
  \/ \E g : GrantOf(n, g) /\ a \in {g.cjaddr, g.changeaddr}
  \/ \E t : TxOf(n, t) /\ \E i \in DOMAIN t.outs : t.outs[i][1] = a

OwnInv ==
  \A n \in Takers :
    /\ \A a : AddressOf(n, a) => \E i \in DOMAIN given_out : given_out[i] = a
    /\ \A k \in Takers : \A a : AddressOf(n, a) /\ AddressOf(k, a) => n = k
    /\ \A g : GrantOf(n, g) => g.utxos # {}
    /\ \A t : TxOf(n, t) => t.ins # {} /\ 1 \in DOMAIN t.outs

(* Grants pass from one place to another, and a transaction pays no        *)
(* address but those of a grant of its nick.                               *)
LEMMA OwnFrame ==
  ASSUME OwnInv, given_out' = given_out,
         \A n \in Takers : \A g : GrantOf(n, g)' => GrantOf(n, g),
         \A n \in Takers : \A t : TxOf(n, t)' =>
           TxOf(n, t) \/ \E g : GrantOf(n, g) /\ PaysOnly(t, g)
  PROVE  OwnInv'
<1>1. \A n \in Takers : \A a : AddressOf(n, a)' => AddressOf(n, a)
  <2> SUFFICES ASSUME NEW n \in Takers, NEW a, AddressOf(n, a)'
               PROVE  AddressOf(n, a)
    OBVIOUS
  <2>1. CASE \E g : GrantOf(n, g)' /\ a \in {g.cjaddr, g.changeaddr}
    BY <2>1 DEF AddressOf
  <2>2. CASE \E t : TxOf(n, t)' /\ \E i \in DOMAIN t.outs : t.outs[i][1] = a
    <3>1. PICK t : TxOf(n, t)' /\ \E i \in DOMAIN t.outs : t.outs[i][1] = a
      BY <2>2
    <3>2. CASE TxOf(n, t)
      BY <3>1, <3>2 DEF AddressOf
    <3>3. CASE \E g : GrantOf(n, g) /\ PaysOnly(t, g)
      BY <3>1, <3>3 DEF AddressOf, PaysOnly
    <3> QED
      BY <3>1, <3>2, <3>3
  <2> QED
    BY <2>1, <2>2 DEF AddressOf
<1>2. \A n \in Takers : \A t : TxOf(n, t)' => t.ins # {} /\ 1 \in DOMAIN t.outs
  BY DEF OwnInv, PaysOnly
<1> QED
  BY <1>1, <1>2 DEF OwnInv

LEMMA StaysGrant ==
  ASSUME Stays(up, up', UpTypes), Stays(down, down', DownTypes),
         UNCHANGED <<active_orders, sigs_sent>>
  PROVE  /\ \A n \in Takers : \A g : GrantOf(n, g)' => GrantOf(n, g)
         /\ \A n \in Takers : \A t : TxOf(n, t)' => TxOf(n, t)
<1>1. \A i \in DOMAIN up' : up'[i].type \in UpTypes => \E j \in DOMAIN up : up[j] = up'[i]
  BY DEF Stays
<1>2. \A i \in DOMAIN down' : down'[i].type \in DownTypes =>
        \E j \in DOMAIN down : down[j] = down'[i]
  BY DEF Stays
<1> QED
  BY <1>1, <1>2 DEF UpTypes, DownTypes, GrantOf, TxOf, HasOrder

(* Grants and transactions only pass from one place to another, except     *)
(* that the client answers an !auth with a grant, and signs a proposal.    *)
NoNewGrant == \A n \in Takers : \A g : GrantOf(n, g)' => GrantOf(n, g)
NoNewTx == \A n \in Takers : \A t : TxOf(n, t)' => TxOf(n, t)

NewGrant(n, g, md) ==
  /\ AuthAt(n, g, md)
  /\ \A k \in Takers : \A h : GrantOf(k, h)' => GrantOf(k, h) \/ (k = n /\ h = g)

NewTx(n, t, o) ==
  /\ TxAt(n, t, o) /\ GrantOf(n, o.grant)
  /\ \A k \in Takers : \A x : TxOf(k, x)' => TxOf(k, x) \/ (k = n /\ x = t)

OwnMoves ==
  \/ NoNewGrant /\ NoNewTx /\ given_out' = given_out
  \/ NoNewTx /\ \E n \in Takers : \E g, md : NewGrant(n, g, md)
  \/ NoNewGrant /\ \E n \in Takers : \E t, o : NewTx(n, t, o)

LEMMA NextOwnMoves ==
  ASSUME Shapes, [Next]_vars
  PROVE  OwnMoves
<1> USE DEF clientVars, walletVars, NoNewGrant, NoNewTx
<1>0. fills \in Nat
  BY DEF Shapes, QueueShapes
<1>1. CASE ~OrderStep /\ ~Crash
  BY <1>1, OthersLeaveOrders, StaysGrant DEF ordersVars, OwnMoves
<1>2. CASE Crash
  <2>1. /\ up' = <<>> /\ DOMAIN down' = {1} /\ down'[1].type = "JMUp"
        /\ \A n \in Takers : ~HasOrder(n)'
        /\ UNCHANGED <<sigs_sent, given_out>>
    BY <1>2 DEF Crash, ClientRestart, HasOrder
  <2>2. DOMAIN up' = {}
    BY <2>1
  <2>3. \A n \in Takers : \A g : ~GrantOf(n, g)'
    BY <2>1, <2>2 DEF GrantOf
  <2>4. \A n \in Takers : \A t : TxOf(n, t)' => TxOf(n, t)
    BY <2>1, <2>2 DEF TxOf
  <2> QED
    BY <2>1, <2>3, <2>4 DEF OwnMoves
<1>3. CASE on_JM_IOAUTH /\ UNCHANGED clientVars
  <2>0. PICK n \in Takers : \E g : IoauthAt(n, g)
    BY <1>3, IoauthIs
  <2>1. PICK g : IoauthAt(n, g)
    BY <2>0
  <2>2. \A i \in DOMAIN up' : \E j \in DOMAIN up : up[j] = up'[i]
    BY <2>1 DEF IoauthAt, Popped
  <2>3. \A k \in Takers : \A t : TxOf(k, t)' => TxOf(k, t)
    BY <2>1, <2>2 DEF TxOf, IoauthAt
  <2>4. active_orders'[n].grant = g /\ GrantOf(n, g)
    BY <2>1 DEF IoauthAt, WithGrant, GrantOf, Popped
  <2>5. ASSUME NEW k \in Takers, NEW h, GrantOf(k, h)' PROVE GrantOf(k, h)
    <3>1. CASE HasOrder(k)' /\ active_orders'[k].grant = h /\ h.fill # 0
      <4>1. CASE k = n
        BY <2>4, <3>1, <4>1
      <4>2. CASE k # n
        BY <2>1, <3>1, <4>2 DEF IoauthAt, OthersSame, HasOrder, GrantOf
      <4> QED
        BY <4>1, <4>2
    <3>2. CASE ~(HasOrder(k)' /\ active_orders'[k].grant = h /\ h.fill # 0)
      BY <2>1, <2>2, <2>5, <3>2 DEF IoauthAt, GrantOf
    <3> QED
      BY <3>1, <3>2
  <2>6. given_out' = given_out
    BY <1>3
  <2> QED
    BY <2>3, <2>5, <2>6 DEF OwnMoves
<1>4. CASE on_JM_TX_SIGS /\ UNCHANGED clientVars
  <2>0. PICK n \in Takers : \E t : SigsAt(n, t)
    BY <1>4, SigsIs
  <2>1. PICK t : SigsAt(n, t)
    BY <2>0
  <2>2. \A i \in DOMAIN up' : \E j \in DOMAIN up : up[j] = up'[i]
    BY <2>1 DEF SigsAt, Popped
  <2>3. TxOf(n, t)
    BY <2>1 DEF TxOf, SigsAt, Popped
  <2>4. \A k \in Takers : \A h : GrantOf(k, h)' => GrantOf(k, h)
    BY <2>1, <2>2 DEF GrantOf, SigsAt, HasOrder
  <2>5. ASSUME NEW k \in Takers, NEW x, TxOf(k, x)' PROVE TxOf(k, x)
    <3>1. CASE \E s \in sigs_sent' : s.nick = k /\ s.tx = x
      <4>1. PICK s \in sigs_sent' : s.nick = k /\ s.tx = x
        BY <3>1
      <4>2. s \in sigs_sent \/ s = [nick |-> n, tx |-> t]
        BY <2>1 DEF SigsAt
      <4> QED
        BY <2>3, <4>1, <4>2 DEF TxOf
    <3>2. CASE \E i \in DOMAIN up' : up'[i].type = "JMTXSigs" /\ up'[i].nick = k /\ up'[i].tx = x
      BY <2>2, <3>2 DEF TxOf
    <3> QED
      BY <2>5, <3>1, <3>2 DEF TxOf
  <2>6. given_out' = given_out
    BY <1>4
  <2> QED
    BY <2>4, <2>5, <2>6 DEF OwnMoves
<1>5. CASE /\ UNCHANGED clientVars
           /\ \/ \E n \in Takers, a \in Amounts, c \in Commits : on_order_fill(n, a, c)
              \/ \E n \in Takers : on_seen_auth(n)
              \/ TakerProposes
  <2>1. PICK n \in Takers :
          /\ active_orders'[n].grant.fill = 0 \/ (HasOrder(n) /\ active_orders'[n].grant = active_orders[n].grant)
          /\ OthersSame(n) /\ UNCHANGED <<up, sigs_sent>>
          /\ \/ down' = down
             \/ \E m : /\ Pushed(down, down', m)
                       /\ m.type = "JMTXReceived" =>
                            /\ m.nick = n /\ HasOrder(n) /\ m.offer = active_orders[n]
                            /\ active_orders[n].grant.fill # 0
    <3>1. CASE \E n \in Takers, a \in Amounts, c \in Commits : on_order_fill(n, a, c)
      <4>0. PICK n \in Takers : \E p : FillAt(n, p)
        BY <1>5, <3>1, FillIs
      <4>1. PICK p : FillAt(n, p)
        BY <4>0
      <4>2. active_orders'[n].grant.fill = 0
        BY <4>1 DEF FillAt, Order, NoGrant
      <4> QED
        BY <4>1, <4>2 DEF FillAt
    <3>2. CASE \E n \in Takers : on_seen_auth(n)
      <4>0. PICK n \in Takers : \E m, o : SeenAuthAt(n, m, o)
        BY <1>5, <3>2, SeenAuthIs
      <4>1. PICK m, o : SeenAuthAt(n, m, o)
        BY <4>0
      <4> QED
        BY <4>1 DEF SeenAuthAt
    <3>3. CASE TakerProposes
      <4>0. PICK n \in Takers : \E m, o : ProposeAt(n, m, o)
        BY <1>5, <3>3, ProposeIs
      <4>1. PICK m, o : ProposeAt(n, m, o)
        BY <4>0
      <4>2. o.grant.fill # 0
        <5>1. o.fill \in 1..fills /\ o.grant.fill = o.fill
          BY <4>1 DEF ProposeAt, IsOrder
        <5> QED
          BY <1>0, <5>1
      <4> QED
        BY <4>1, <4>2 DEF ProposeAt
    <3> QED
      BY <1>5, <3>1, <3>2, <3>3
  <2>2. \A k \in Takers : \A t : TxOf(k, t)' => TxOf(k, t)
    BY <2>1 DEF TxOf
  <2>3. ASSUME NEW k \in Takers, NEW h, GrantOf(k, h)' PROVE GrantOf(k, h)
    <3>1. CASE HasOrder(k)' /\ active_orders'[k].grant = h /\ h.fill # 0
      <4>1. CASE k = n
        BY <2>1, <3>1, <4>1 DEF GrantOf
      <4>2. CASE k # n
        BY <2>1, <3>1, <4>2 DEF OthersSame, HasOrder, GrantOf
      <4> QED
        BY <4>1, <4>2
    <3>2. CASE \E i \in DOMAIN up' : up'[i].type = "JMIOAuth" /\ up'[i].nick = k /\ up'[i].grant = h
      BY <2>1, <3>2 DEF GrantOf
    <3>3. CASE \E i \in DOMAIN down' :
                 down'[i].type = "JMTXReceived" /\ down'[i].nick = k /\ down'[i].offer.grant = h
      <4>1. PICK i \in DOMAIN down' :
              down'[i].type = "JMTXReceived" /\ down'[i].nick = k /\ down'[i].offer.grant = h
        BY <3>3
      <4>2. CASE i \in DOMAIN down /\ down'[i] = down[i]
        BY <4>1, <4>2 DEF GrantOf
      <4>3. CASE ~(i \in DOMAIN down /\ down'[i] = down[i])
        <5>1. k = n /\ HasOrder(n) /\ h = active_orders[n].grant /\ active_orders[n].grant.fill # 0
          BY <2>1, <4>1, <4>3 DEF Pushed
        <5> QED
          BY <5>1 DEF GrantOf
      <4> QED
        BY <4>2, <4>3
    <3> QED
      BY <2>3, <3>1, <3>2, <3>3 DEF GrantOf
  <2>4. given_out' = given_out
    BY <1>5
  <2> QED
    BY <2>2, <2>3, <2>4 DEF OwnMoves
<1>6. CASE on_tx_accepted /\ UNCHANGED daemonVars
  <2>0. PICK n \in Takers : \E t, o : TxAt(n, t, o)
    BY <1>6, TxIs
  <2>1. PICK t, o : TxAt(n, t, o)
    BY <2>0
  <2>2. GrantOf(n, o.grant)
    BY <2>1 DEF TxAt, GrantOf, Popped
  <2>4. \A i \in DOMAIN up' : \/ \E j \in DOMAIN up : up[j] = up'[i]
                              \/ up'[i] = [type |-> "JMTXSigs", nick |-> n, tx |-> t]
    BY <2>1 DEF TxAt, Pushed
  <2>5. \A i \in DOMAIN down' : \E j \in DOMAIN down : down[j] = down'[i]
    BY <2>1 DEF TxAt, Popped
  <2>6. UNCHANGED <<active_orders, sigs_sent, given_out>>
    BY <2>1 DEF TxAt, daemonVars
  <2>7. \A k \in Takers : \A h : GrantOf(k, h)' => GrantOf(k, h)
    BY <2>4, <2>5, <2>6 DEF GrantOf, HasOrder
  <2>8. ASSUME NEW k \in Takers, NEW x, TxOf(k, x)'
        PROVE  TxOf(k, x) \/ (k = n /\ x = t)
    BY <2>4, <2>6, <2>8 DEF TxOf
  <2> QED
    BY <2>1, <2>2, <2>7, <2>8 DEF OwnMoves, NewTx
<1>7. CASE on_auth_accepted /\ UNCHANGED daemonVars
  <2>0. PICK n \in Takers : \E g, md : AuthAt(n, g, md)
    BY <1>7, AuthIs
  <2>1. PICK g, md : AuthAt(n, g, md)
    BY <2>0
  <2>2. \A i \in DOMAIN up' : \/ \E j \in DOMAIN up : up[j] = up'[i]
                              \/ up'[i] = [type |-> "JMIOAuth", nick |-> n, grant |-> g]
    BY <2>1 DEF AuthAt, Pushed
  <2>3. \A i \in DOMAIN down' : \E j \in DOMAIN down : down[j] = down'[i]
    BY <2>1 DEF AuthAt, Popped
  <2>4. UNCHANGED <<active_orders, sigs_sent>>
    BY <2>1 DEF AuthAt, daemonVars
  <2>5. \A k \in Takers : \A h : GrantOf(k, h)' => GrantOf(k, h) \/ (k = n /\ h = g)
    BY <2>2, <2>3, <2>4 DEF GrantOf, HasOrder
  <2>6. \A k \in Takers : \A x : TxOf(k, x)' => TxOf(k, x)
    BY <2>2, <2>4 DEF TxOf
  <2> QED
    BY <2>1, <2>5, <2>6 DEF OwnMoves, NewGrant
<1> QED
  BY <1>1, <1>2, <1>3, <1>4, <1>5, <1>6, <1>7 DEF OrderStep

(* The addresses of a grant were not given out before.                     *)
LEMMA GrantIsNew ==
  ASSUME IndexInv, IndexInv', OwnInv, NEW n \in Takers, NEW g, NEW md, AuthAt(n, g, md)
  PROVE  /\ \A i \in DOMAIN given_out :
              i \in DOMAIN given_out' /\ given_out'[i] = given_out[i]
         /\ \A a \in {g.cjaddr, g.changeaddr} : \E i \in DOMAIN given_out' : given_out'[i] = a
         /\ \A k \in Takers : \A a : AddressOf(k, a) => a \notin {g.cjaddr, g.changeaddr}
         /\ g.cjaddr # g.changeaddr
<1>7. PICK A, B : A = CjAddress(md) /\ B = ChangeAddress(md)
  OBVIOUS
<1>8. g.cjaddr = A /\ g.changeaddr = B /\ g.utxos # {}
      /\ given_out' = Append(Append(given_out, A), B)
  BY <1>7 DEF AuthAt
<1>9. PICK N \in Nat : N = Len(given_out)
  <2>1. Len(given_out) \in Nat
    BY DEF IndexInv
  <2> QED
    BY <2>1
<1>10. /\ DOMAIN given_out = 1..N /\ DOMAIN given_out' = 1..(N + 2)
       /\ \A i \in 1..N : given_out'[i] = given_out[i]
       /\ given_out'[N + 1] = A /\ given_out'[N + 2] = B
  <2>1. PICK go, gn : go = given_out /\ gn = given_out'
    OBVIOUS
  <2>2. go \in Seq(Mixdepths \X Nat) /\ gn \in Seq(Mixdepths \X Nat)
        /\ gn = Append(Append(go, A), B) /\ N = Len(go)
    BY <1>8, <1>9, <2>1 DEF IndexInv
  <2>3. /\ DOMAIN go = 1..N /\ DOMAIN gn = 1..(N + 2)
        /\ \A i \in 1..N : gn[i] = go[i]
        /\ gn[N + 1] = A /\ gn[N + 2] = B
    BY <2>2
  <2> QED
    BY <2>1, <2>3
<1>11. \A i \in DOMAIN given_out : given_out[i] # A /\ given_out[i] # B
  <2>1. \A i \in 1..N : i \in 1..(N + 2) /\ i # N + 1 /\ i # N + 2
    OBVIOUS
  <2>2. N + 1 \in 1..(N + 2) /\ N + 2 \in 1..(N + 2)
    OBVIOUS
  <2> QED
    BY <1>10, <2>1, <2>2 DEF IndexInv, NoAddressReuse
<1>12. \A i \in DOMAIN given_out : i \in DOMAIN given_out' /\ given_out'[i] = given_out[i]
  BY <1>10
<1>13. \A k \in Takers : \A a : AddressOf(k, a) => a \notin {g.cjaddr, g.changeaddr}
  BY <1>8, <1>11 DEF OwnInv
<1>14. N + 1 \in DOMAIN given_out' /\ N + 2 \in DOMAIN given_out'
  BY <1>10
<1>15. A # B
  <2>1. N + 1 # N + 2
    OBVIOUS
  <2>2. \A i, j \in DOMAIN given_out' : given_out'[i] = given_out'[j] => i = j
    BY DEF IndexInv, NoAddressReuse
  <2>3. given_out'[N + 1] # given_out'[N + 2]
    BY <1>14, <2>1, <2>2
  <2> QED
    BY <1>10, <2>3
<1> QED
  BY <1>8, <1>10, <1>12, <1>13, <1>14, <1>15

LEMMA NextOwn ==
  IndexInv /\ IndexInv' /\ Shapes /\ OwnInv /\ [Next]_vars => OwnInv'
<1> SUFFICES ASSUME IndexInv, IndexInv', Shapes, OwnInv, [Next]_vars
             PROVE  OwnInv'
  OBVIOUS
<1>1. CASE NoNewGrant /\ NoNewTx /\ given_out' = given_out
  BY <1>1, OwnFrame DEF NoNewGrant, NoNewTx
<1>2. ASSUME NoNewGrant, NEW n \in Takers, NEW t, NEW o, NewTx(n, t, o)
      PROVE  OwnInv'
  <2>1. PaysOnly(t, o.grant) /\ given_out' = given_out
    BY <1>2 DEF NewTx, TxAt, OwnInv
  <2> QED
    BY <1>2, <2>1, OwnFrame DEF NewTx, NoNewGrant
<1>3. ASSUME NoNewTx, NEW n \in Takers, NEW g, NEW md, NewGrant(n, g, md)
      PROVE  OwnInv'
  <2>1. \A k \in Takers : \A a : AddressOf(k, a)' =>
          AddressOf(k, a) \/ (k = n /\ a \in {g.cjaddr, g.changeaddr})
    BY <1>3 DEF NoNewTx, NewGrant, AddressOf
  <2>2. AuthAt(n, g, md) /\ g.utxos # {}
    BY <1>3 DEF NewGrant, AuthAt
  <2>3. \A k \in Takers : \A a : AddressOf(k, a)' =>
          \E i \in DOMAIN given_out' : given_out'[i] = a
    BY <2>1, <2>2, GrantIsNew DEF OwnInv
  <2>4. \A k, j \in Takers : \A a : AddressOf(k, a)' /\ AddressOf(j, a)' => k = j
    BY <2>1, <2>2, GrantIsNew DEF OwnInv
  <2>5. \A k \in Takers : \A h : GrantOf(k, h)' => h.utxos # {}
    BY <1>3, <2>2 DEF OwnInv, NewGrant
  <2>6. \A k \in Takers : \A x : TxOf(k, x)' => x.ins # {} /\ 1 \in DOMAIN x.outs
    BY <1>3 DEF OwnInv, NoNewTx
  <2> QED
    BY <2>3, <2>4, <2>5, <2>6 DEF OwnInv
<1> QED
  BY <1>1, <1>2, <1>3, NextOwnMoves DEF OwnMoves

(***************************************************************************)
(* A !fill is answered once, after all that came before it                 *)
(***************************************************************************)

AuthFor(m, n, f) == m.type = "JMAuthReceived" /\ m.nick = n /\ m.fill = f
IoauthFor(m, n, f) == m.type = "JMIOAuth" /\ m.nick = n /\ m.grant.fill = f
TxFrom(m, n) == m.type = "JMTXReceived" /\ m.nick = n
SigsFor(m, n) == m.type = "JMTXSigs" /\ m.nick = n

(* The !auth of the current !fill is on its way to the client, or the      *)
(* client's answer on its way back, or the order has its grant; before it  *)
(* go the transactions proposed for earlier ones.                          *)
AuthsInOrder(n, o) ==
  \A i \in DOMAIN down : AuthFor(down[i], n, o.fill) =>
    /\ o.authed /\ o.grant.fill # o.fill
    /\ \A j \in DOMAIN up : ~IoauthFor(up[j], n, o.fill)
    /\ \A j \in DOMAIN down : /\ AuthFor(down[j], n, o.fill) => i = j
                              /\ TxFrom(down[j], n) => j < i

IoauthsInOrder(n, o) ==
  \A i \in DOMAIN up : IoauthFor(up[i], n, o.fill) =>
    /\ o.authed /\ o.grant.fill # o.fill
    /\ \A j \in DOMAIN down : ~TxFrom(down[j], n)
    /\ \A j \in DOMAIN up : /\ IoauthFor(up[j], n, o.fill) => i = j
                            /\ SigsFor(up[j], n) => j < i

GrantInOrder(n, o) ==
  o.grant.fill = o.fill =>
    /\ o.authed
    /\ ~o.proposed => /\ \A j \in DOMAIN down : ~TxFrom(down[j], n)
                      /\ \A j \in DOMAIN up : ~SigsFor(up[j], n)

InOrder(n, o) == AuthsInOrder(n, o) /\ IoauthsInOrder(n, o) /\ GrantInOrder(n, o)

FillOrder == \A n \in Takers : HasOrder(n) => InOrder(n, active_orders[n])

UpFor(m, n, f) == IoauthFor(m, n, f) \/ SigsFor(m, n)
DownFor(m, n, f) == AuthFor(m, n, f) \/ TxFrom(m, n)

UpStays(n, f) ==
  \E a \in {0, 1} : \A i \in DOMAIN up' :
    UpFor(up'[i], n, f) => i + a \in DOMAIN up /\ up[i + a] = up'[i]
DownStays(n, f) ==
  \E a \in {0, 1} : \A i \in DOMAIN down' :
    DownFor(down'[i], n, f) => i + a \in DOMAIN down /\ down[i + a] = down'[i]

LEMMA StaysForAll ==
  ASSUME NEW n, NEW f
  PROVE  /\ Stays(up, up', UpTypes) => UpStays(n, f)
         /\ Stays(down, down', DownTypes) => DownStays(n, f)
BY DEF Stays, UpStays, DownStays, UpTypes, DownTypes, UpFor, DownFor, IoauthFor, SigsFor,
       AuthFor, TxFrom

LEMMA PushedStaysFor ==
  ASSUME NEW n, NEW f, NEW m
  PROVE  /\ Pushed(up, up', m) /\ ~UpFor(m, n, f) => UpStays(n, f)
         /\ Pushed(down, down', m) /\ ~DownFor(m, n, f) => DownStays(n, f)
<1>1. ASSUME Pushed(up, up', m), ~UpFor(m, n, f) PROVE UpStays(n, f)
  <2>1. \A i \in DOMAIN up' : UpFor(up'[i], n, f) => i + 0 \in DOMAIN up /\ up[i + 0] = up'[i]
    <3> SUFFICES ASSUME NEW i \in DOMAIN up', UpFor(up'[i], n, f)
                 PROVE  i + 0 \in DOMAIN up /\ up[i + 0] = up'[i]
      OBVIOUS
    <3>1. i \in DOMAIN up /\ up'[i] = up[i]
      BY <1>1 DEF Pushed
    <3>2. i + 0 = i
      BY <1>1, <3>1 DEF Pushed
    <3> QED
      BY <3>1, <3>2
  <2> QED
    BY <2>1 DEF UpStays
<1>2. ASSUME Pushed(down, down', m), ~DownFor(m, n, f) PROVE DownStays(n, f)
  <2>1. \A i \in DOMAIN down' :
          DownFor(down'[i], n, f) => i + 0 \in DOMAIN down /\ down[i + 0] = down'[i]
    <3> SUFFICES ASSUME NEW i \in DOMAIN down', DownFor(down'[i], n, f)
                 PROVE  i + 0 \in DOMAIN down /\ down[i + 0] = down'[i]
      OBVIOUS
    <3>1. i \in DOMAIN down /\ down'[i] = down[i]
      BY <1>2 DEF Pushed
    <3>2. i + 0 = i
      BY <1>2, <3>1 DEF Pushed
    <3> QED
      BY <3>1, <3>2
  <2> QED
    BY <2>1 DEF DownStays
<1> QED
  BY <1>1, <1>2

LEMMA OrderFrame ==
  ASSUME QueueShapes, QueueShapes', NEW n, NEW o, NEW p, InOrder(n, o),
         UpStays(n, o.fill), DownStays(n, o.fill),
         p.fill = o.fill, p.authed = o.authed, p.proposed = o.proposed, p.grant = o.grant
  PROVE  InOrder(n, p)'
<1> DEFINE f == o.fill
<1>0. PICK a \in {0, 1} : \A i \in DOMAIN up' :
        UpFor(up'[i], n, f) => i + a \in DOMAIN up /\ up[i + a] = up'[i]
  BY DEF UpStays
<1>1. PICK b \in {0, 1} : \A i \in DOMAIN down' :
        DownFor(down'[i], n, f) => i + b \in DOMAIN down /\ down[i + b] = down'[i]
  BY DEF DownStays
<1>2. /\ \A i \in DOMAIN up' : i \in Nat
      /\ \A i \in DOMAIN down' : i \in Nat
  BY QueueIs DEF QueueShapes
<1>4. AuthsInOrder(n, p)'
  <2> SUFFICES ASSUME NEW i \in DOMAIN down', AuthFor(down'[i], n, f)
               PROVE  /\ p.authed /\ p.grant.fill # f
                      /\ \A j \in DOMAIN up' : ~IoauthFor(up'[j], n, f)
                      /\ \A j \in DOMAIN down' : /\ AuthFor(down'[j], n, f) => i = j
                                                 /\ TxFrom(down'[j], n) => j < i
    BY DEF AuthsInOrder, AuthFor, IoauthFor, TxFrom
  <2>1. i + b \in DOMAIN down /\ down[i + b] = down'[i] /\ AuthFor(down[i + b], n, f)
    BY <1>1 DEF DownFor
  <2>2. /\ o.authed /\ o.grant.fill # f
        /\ \A j \in DOMAIN up : ~IoauthFor(up[j], n, f)
        /\ \A j \in DOMAIN down : /\ AuthFor(down[j], n, f) => i + b = j
                                  /\ TxFrom(down[j], n) => j < i + b
    BY <2>1 DEF InOrder, AuthsInOrder
  <2>3. \A j \in DOMAIN up' : ~IoauthFor(up'[j], n, f)
    BY <1>0, <2>2 DEF UpFor
  <2>4. ASSUME NEW j \in DOMAIN down'
        PROVE  /\ AuthFor(down'[j], n, f) => i = j
               /\ TxFrom(down'[j], n) => j < i
    <3>1. DownFor(down'[j], n, f) => j + b \in DOMAIN down /\ down[j + b] = down'[j]
      BY <1>1
    <3>2. AuthFor(down'[j], n, f) => i + b = j + b
      BY <2>2, <3>1 DEF DownFor
    <3>3. TxFrom(down'[j], n) => j + b < i + b
      BY <2>2, <3>1 DEF DownFor
    <3>4. i \in Nat /\ j \in Nat /\ b \in Nat
      BY <1>2
    <3> QED
      BY <3>2, <3>3, <3>4
  <2> QED
    BY <2>2, <2>3, <2>4
<1>5. IoauthsInOrder(n, p)'
  <2> SUFFICES ASSUME NEW i \in DOMAIN up', IoauthFor(up'[i], n, f)
               PROVE  /\ p.authed /\ p.grant.fill # f
                      /\ \A j \in DOMAIN down' : ~TxFrom(down'[j], n)
                      /\ \A j \in DOMAIN up' : /\ IoauthFor(up'[j], n, f) => i = j
                                               /\ SigsFor(up'[j], n) => j < i
    BY DEF IoauthsInOrder, SigsFor, IoauthFor, TxFrom
  <2>1. i + a \in DOMAIN up /\ up[i + a] = up'[i] /\ IoauthFor(up[i + a], n, f)
    BY <1>0 DEF UpFor
  <2>2. /\ o.authed /\ o.grant.fill # f
        /\ \A j \in DOMAIN down : ~TxFrom(down[j], n)
        /\ \A j \in DOMAIN up : /\ IoauthFor(up[j], n, f) => i + a = j
                                /\ SigsFor(up[j], n) => j < i + a
    BY <2>1 DEF InOrder, IoauthsInOrder
  <2>3. \A j \in DOMAIN down' : ~TxFrom(down'[j], n)
    BY <1>1, <2>2 DEF DownFor
  <2>4. ASSUME NEW j \in DOMAIN up'
        PROVE  /\ IoauthFor(up'[j], n, f) => i = j
               /\ SigsFor(up'[j], n) => j < i
    <3>1. UpFor(up'[j], n, f) => j + a \in DOMAIN up /\ up[j + a] = up'[j]
      BY <1>0
    <3>2. IoauthFor(up'[j], n, f) => i + a = j + a
      BY <2>2, <3>1 DEF UpFor
    <3>3. SigsFor(up'[j], n) => j + a < i + a
      BY <2>2, <3>1 DEF UpFor
    <3>4. i \in Nat /\ j \in Nat /\ a \in Nat
      BY <1>2
    <3> QED
      BY <3>2, <3>3, <3>4
  <2> QED
    BY <2>2, <2>3, <2>4
<1>6. GrantInOrder(n, p)'
  <2>1. /\ \A j \in DOMAIN down' : TxFrom(down'[j], n) => \E k \in DOMAIN down : TxFrom(down[k], n)
        /\ \A j \in DOMAIN up' : SigsFor(up'[j], n) => \E k \in DOMAIN up : SigsFor(up[k], n)
    BY <1>0, <1>1 DEF UpFor, DownFor
  <2> QED
    BY <2>1 DEF InOrder, GrantInOrder, TxFrom, SigsFor
<1> QED
  BY <1>4, <1>5, <1>6 DEF InOrder

LEMMA NextFillOrder ==
  Shapes /\ Shapes' /\ FillOrder /\ [Next]_vars => FillOrder'
<1> SUFFICES ASSUME Shapes, Shapes', FillOrder, [Next]_vars, NEW k \in Takers, HasOrder(k)'
             PROVE  InOrder(k, active_orders[k])'
  BY DEF FillOrder
<1> USE DEF clientVars
<1>0. /\ QueueShapes /\ QueueShapes' /\ fills \in Nat
      /\ HasOrder(k) => InOrder(k, active_orders[k]) /\ active_orders[k].fill \in 1..fills
  BY DEF Shapes, OrderShapes, QueueShapes, IsOrder, FillOrder
<1>1. PICK o, p : o = active_orders[k] /\ p = active_orders'[k]
  OBVIOUS
<1>2. SUFFICES InOrder(k, p)'
  BY <1>1 DEF InOrder, AuthsInOrder, IoauthsInOrder, GrantInOrder
(* The order stays, and no message for it comes in.                        *)
<1>3. ASSUME HasOrder(k), UpStays(k, o.fill), DownStays(k, o.fill),
             p.fill = o.fill, p.authed = o.authed, p.proposed = o.proposed, p.grant = o.grant
      PROVE  InOrder(k, p)'
  BY <1>0, <1>1, <1>3, OrderFrame
<1>4. /\ \A f : UNCHANGED up \/ Popped(up, up') => UpStays(k, f)
      /\ \A f : UNCHANGED down \/ Popped(down, down') => DownStays(k, f)
  BY <1>0, StaysForAll, PoppedStays, SameStays DEF QueueShapes
<1>5. CASE ~OrderStep /\ ~Crash
  <2>1. /\ Stays(up, up', UpTypes) /\ Stays(down, down', DownTypes)
        /\ UNCHANGED active_orders
    BY <1>5, OthersLeaveOrders DEF ordersVars
  <2>2. HasOrder(k) /\ p = o
    BY <1>1, <2>1 DEF HasOrder
  <2> QED
    BY <1>3, <2>1, <2>2, StaysForAll
<1>6. CASE Crash
  BY <1>6 DEF Crash, HasOrder
<1>7. CASE on_JM_IOAUTH /\ UNCHANGED clientVars
  <2>0. PICK n \in Takers : \E g : IoauthAt(n, g)
    BY <1>7, IoauthIs
  <2>1. PICK g : IoauthAt(n, g)
    BY <2>0
  <2>2. UpStays(k, o.fill) /\ DownStays(k, o.fill)
    BY <1>4, <2>1 DEF IoauthAt
  <2>3. CASE k # n
    <3>1. p = o /\ HasOrder(k)
      BY <1>1, <2>1, <2>3 DEF IoauthAt, OthersSame, HasOrder
    <3> QED
      BY <1>3, <2>2, <3>1
  <2>4. CASE k = n
    <3>1. /\ p.fill = o.fill /\ p.authed = o.authed /\ p.proposed = o.proposed /\ p.grant = g
          /\ HasOrder(k) /\ InOrder(k, o)
      BY <1>0, <1>1, <2>1, <2>4 DEF IoauthAt, WithGrant
    <3>2. CASE g.fill = o.fill
      <4>1. 1 \in DOMAIN up /\ IoauthFor(up[1], k, o.fill)
        BY <2>1, <2>4, <3>2 DEF IoauthAt, Popped, IoauthFor
      <4>2. /\ o.authed
            /\ \A j \in DOMAIN down : ~TxFrom(down[j], k)
            /\ \A j \in DOMAIN up : /\ IoauthFor(up[j], k, o.fill) => j = 1
                                    /\ SigsFor(up[j], k) => j < 1
        BY <3>1, <4>1 DEF InOrder, IoauthsInOrder
      <4>3. \A j \in DOMAIN down : ~AuthFor(down[j], k, o.fill)
        BY <3>1, <4>1 DEF InOrder, AuthsInOrder
      <4>4. \A j \in DOMAIN up' : j + 1 \in DOMAIN up /\ up'[j] = up[j + 1]
                                  /\ j + 1 # 1 /\ ~(j + 1 < 1)
        BY <2>1 DEF IoauthAt, Popped
      <4>5. \A j \in DOMAIN up' : ~IoauthFor(up'[j], k, o.fill) /\ ~SigsFor(up'[j], k)
        BY <4>2, <4>4
      <4>6. down' = down
        BY <2>1 DEF IoauthAt
      <4> QED
        BY <3>1, <4>2, <4>3, <4>5, <4>6
           DEF InOrder, AuthsInOrder, IoauthsInOrder, GrantInOrder, AuthFor, IoauthFor,
               TxFrom, SigsFor
    <3>3. CASE g.fill # o.fill
      <4>1. PICK q : q = [fill |-> o.fill, authed |-> o.authed, proposed |-> o.proposed,
                          grant |-> o.grant]
        OBVIOUS
      <4>2. InOrder(k, q)'
        BY <1>0, <2>2, <3>1, <4>1, OrderFrame
      <4>3. q.fill = o.fill /\ q.authed = o.authed
        BY <4>1
      <4> QED
        BY <3>1, <3>3, <4>2, <4>3 DEF InOrder, AuthsInOrder, IoauthsInOrder, GrantInOrder
    <3> QED
      BY <3>2, <3>3
  <2> QED
    BY <2>3, <2>4
<1>8. CASE on_JM_TX_SIGS /\ UNCHANGED clientVars
  <2>0. PICK n \in Takers : \E t : SigsAt(n, t)
    BY <1>8, SigsIs
  <2>1. PICK t : SigsAt(n, t)
    BY <2>0
  <2>2. UpStays(k, o.fill) /\ DownStays(k, o.fill)
    BY <1>4, <2>1 DEF SigsAt
  <2>3. p = o /\ HasOrder(k)
    BY <1>1, <2>1 DEF SigsAt, HasOrder
  <2> QED
    BY <1>3, <2>2, <2>3
<1>9. CASE /\ UNCHANGED clientVars
           /\ \E n \in Takers, a \in Amounts, c \in Commits : on_order_fill(n, a, c)
  <2>0. PICK n \in Takers : \E q : FillAt(n, q)
    BY <1>9, FillIs
  <2>1. PICK q : FillAt(n, q)
    BY <2>0
  <2>2. UpStays(k, o.fill) /\ DownStays(k, o.fill)
    BY <1>4, <2>1 DEF FillAt
  <2>3. CASE k # n
    <3>1. p = o /\ HasOrder(k)
      BY <1>1, <2>1, <2>3 DEF FillAt, OthersSame, HasOrder
    <3> QED
      BY <1>3, <2>2, <3>1
  <2>4. CASE k = n
    <3>1. p.fill = fills + 1 /\ p.grant.fill = 0 /\ UNCHANGED <<up, down>>
      BY <1>1, <2>1, <2>4 DEF FillAt, Order, NoGrant
    <3>2. /\ \A j \in DOMAIN up : UpFine(up[j])
          /\ \A j \in DOMAIN down : DownFine(down[j])
      BY DEF Shapes, MessageShapes
    <3>3. fills + 1 \notin 1..fills /\ 0 # fills + 1
      BY <1>0
    <3>4. /\ \A j \in DOMAIN up : ~IoauthFor(up[j], k, p.fill)
          /\ \A j \in DOMAIN down : ~AuthFor(down[j], k, p.fill)
      BY <3>1, <3>2, <3>3 DEF IoauthFor, AuthFor, UpFine, DownFine
    <3> QED
      BY <3>1, <3>3, <3>4
         DEF InOrder, AuthsInOrder, IoauthsInOrder, GrantInOrder, AuthFor, IoauthFor
  <2> QED
    BY <2>3, <2>4
<1>10. CASE UNCHANGED clientVars /\ \E n \in Takers : on_seen_auth(n)
  <2>0. PICK n \in Takers : \E m, q : SeenAuthAt(n, m, q)
    BY <1>10, SeenAuthIs
  <2>1. PICK m, q : SeenAuthAt(n, m, q)
    BY <2>0
  <2>2. UpStays(k, o.fill)
    BY <1>4, <2>1 DEF SeenAuthAt
  <2>3. CASE k # n
    <3>1. p = o /\ HasOrder(k)
      BY <1>1, <2>1, <2>3 DEF SeenAuthAt, OthersSame, HasOrder
    <3>2. Pushed(down, down', m) /\ ~DownFor(m, k, o.fill)
      BY <2>1, <2>3 DEF SeenAuthAt, DownFor, AuthFor, TxFrom
    <3>3. DownStays(k, o.fill)
      BY <3>2, PushedStaysFor
    <3> QED
      BY <1>3, <2>2, <3>1, <3>3
  <2>4. CASE k = n
    <3>1. /\ p.fill = o.fill /\ p.authed = TRUE /\ p.proposed = o.proposed /\ p.grant = o.grant
          /\ ~o.authed /\ InOrder(k, o) /\ up' = up /\ Pushed(down, down', m)
          /\ m.type = "JMAuthReceived"
      BY <1>0, <1>1, <2>1, <2>4 DEF SeenAuthAt
    <3>2. /\ \A j \in DOMAIN up : ~IoauthFor(up[j], k, o.fill)
          /\ \A j \in DOMAIN down : ~AuthFor(down[j], k, o.fill)
          /\ o.grant.fill # o.fill
      BY <3>1 DEF InOrder, AuthsInOrder, IoauthsInOrder, GrantInOrder
    <3>3. PICK N \in Nat : /\ DOMAIN down = 1..N /\ DOMAIN down' = 1..(N + 1)
                           /\ \A i \in 1..(N + 1) : \/ i \in 1..N /\ down'[i] = down[i]
                                                    \/ i = N + 1 /\ down'[i] = m
      BY <3>1 DEF Pushed
    <3>4. ASSUME NEW i \in DOMAIN down', AuthFor(down'[i], k, o.fill)
          PROVE  \A j \in DOMAIN down' : /\ AuthFor(down'[j], k, o.fill) => i = j
                                         /\ TxFrom(down'[j], k) => j < i
      <4>1. i = N + 1
        BY <3>2, <3>3, <3>4
      <4>2. ASSUME NEW j \in DOMAIN down'
            PROVE  /\ AuthFor(down'[j], k, o.fill) => i = j
                   /\ TxFrom(down'[j], k) => j < i
        <5>1. CASE j \in 1..N /\ down'[j] = down[j]
          <6>1. j < N + 1
            BY <5>1
          <6> QED
            BY <3>2, <3>3, <4>1, <5>1, <6>1
        <5>2. CASE j = N + 1 /\ down'[j] = m
          <6>1. ~TxFrom(down'[j], k)
            BY <3>1, <5>2 DEF TxFrom
          <6> QED
            BY <4>1, <5>2, <6>1
        <5> QED
          BY <3>3, <5>1, <5>2
      <4> QED
        BY <4>2
    <3> QED
      BY <3>1, <3>2, <3>4
         DEF InOrder, AuthsInOrder, IoauthsInOrder, GrantInOrder, AuthFor, IoauthFor, TxFrom
  <2> QED
    BY <2>3, <2>4
<1>11. CASE UNCHANGED clientVars /\ TakerProposes
  <2>0. PICK n \in Takers : \E m, q : ProposeAt(n, m, q)
    BY <1>11, ProposeIs
  <2>1. PICK m, q : ProposeAt(n, m, q)
    BY <2>0
  <2>2. UpStays(k, o.fill)
    BY <1>4, <2>1 DEF ProposeAt
  <2>3. CASE k # n
    <3>1. p = o /\ HasOrder(k)
      BY <1>1, <2>1, <2>3 DEF ProposeAt, OthersSame, HasOrder
    <3>2. Pushed(down, down', m) /\ ~DownFor(m, k, o.fill)
      BY <2>1, <2>3 DEF ProposeAt, DownFor, AuthFor, TxFrom
    <3>3. DownStays(k, o.fill)
      BY <3>2, PushedStaysFor
    <3> QED
      BY <1>3, <2>2, <3>1, <3>3
  <2>4. CASE k = n
    <3>1. /\ p.fill = o.fill /\ p.authed = o.authed /\ p.proposed = TRUE /\ p.grant = o.grant
          /\ o.grant.fill = o.fill /\ InOrder(k, o) /\ up' = up /\ Pushed(down, down', m)
          /\ m.type = "JMTXReceived"
      BY <1>0, <1>1, <2>1, <2>4 DEF ProposeAt
    <3>2. /\ \A j \in DOMAIN up : ~IoauthFor(up[j], k, o.fill)
          /\ \A j \in DOMAIN down : ~AuthFor(down[j], k, o.fill)
          /\ o.authed
      BY <3>1 DEF InOrder, AuthsInOrder, IoauthsInOrder, GrantInOrder
    <3>3. \A j \in DOMAIN down' : ~AuthFor(down'[j], k, o.fill)
      BY <3>1, <3>2 DEF Pushed, AuthFor
    <3> QED
      BY <3>1, <3>2, <3>3
         DEF InOrder, AuthsInOrder, IoauthsInOrder, GrantInOrder, AuthFor, IoauthFor
  <2> QED
    BY <2>3, <2>4
<1>12. CASE on_auth_accepted /\ UNCHANGED daemonVars
  <2>0. PICK n \in Takers : \E g, md : AuthAt(n, g, md)
    BY <1>12, AuthIs
  <2>1. PICK g, md : AuthAt(n, g, md)
    BY <2>0
  <2>2. DownStays(k, o.fill) /\ p = o /\ HasOrder(k) /\ InOrder(k, o)
    BY <1>0, <1>1, <1>4, <1>12, <2>1 DEF AuthAt, daemonVars, HasOrder
  <2>3. PICK m : m = [type |-> "JMIOAuth", nick |-> n, grant |-> g]
    OBVIOUS
  <2>4. m.type = "JMIOAuth" /\ m.nick = n /\ m.grant = g /\ Pushed(up, up', m)
    BY <2>1, <2>3 DEF AuthAt
  <2>5. CASE k # n \/ g.fill # o.fill
    <3>1. ~UpFor(m, k, o.fill)
      BY <2>4, <2>5 DEF UpFor, IoauthFor, SigsFor
    <3> QED
      BY <1>3, <2>2, <2>4, <3>1, PushedStaysFor
  <2>6. CASE k = n /\ g.fill = o.fill
    <3>1. 1 \in DOMAIN down /\ AuthFor(down[1], k, o.fill)
      BY <2>1, <2>6 DEF AuthAt, Popped, AuthFor
    <3>2. /\ o.authed /\ o.grant.fill # o.fill
          /\ \A j \in DOMAIN up : ~IoauthFor(up[j], k, o.fill)
          /\ \A j \in DOMAIN down : /\ AuthFor(down[j], k, o.fill) => j = 1
                                    /\ TxFrom(down[j], k) => j < 1
      BY <2>2, <3>1 DEF InOrder, AuthsInOrder
    <3>3. \A j \in DOMAIN down' : j + 1 \in DOMAIN down /\ down'[j] = down[j + 1]
                                  /\ j + 1 # 1 /\ ~(j + 1 < 1)
      BY <2>1 DEF AuthAt, Popped
    <3>4. \A j \in DOMAIN down' : ~AuthFor(down'[j], k, o.fill) /\ ~TxFrom(down'[j], k)
      BY <3>2, <3>3
    <3>5. PICK N \in Nat : /\ DOMAIN up = 1..N /\ DOMAIN up' = 1..(N + 1)
                           /\ \A i \in 1..(N + 1) : \/ i \in 1..N /\ up'[i] = up[i]
                                                    \/ i = N + 1 /\ up'[i] = m
      BY <2>4 DEF Pushed
    <3>6. ASSUME NEW i \in DOMAIN up', IoauthFor(up'[i], k, o.fill)
          PROVE  \A j \in DOMAIN up' : /\ IoauthFor(up'[j], k, o.fill) => i = j
                                       /\ SigsFor(up'[j], k) => j < i
      <4>1. i = N + 1
        BY <3>2, <3>5, <3>6
      <4>2. ASSUME NEW j \in DOMAIN up'
            PROVE  /\ IoauthFor(up'[j], k, o.fill) => i = j
                   /\ SigsFor(up'[j], k) => j < i
        <5>1. CASE j \in 1..N /\ up'[j] = up[j]
          <6>1. j < N + 1
            BY <5>1
          <6> QED
            BY <3>2, <3>5, <4>1, <5>1, <6>1
        <5>2. CASE j = N + 1 /\ up'[j] = m
          <6>1. ~SigsFor(up'[j], k)
            BY <2>4, <5>2 DEF SigsFor
          <6> QED
            BY <4>1, <5>2, <6>1
        <5> QED
          BY <3>5, <5>1, <5>2
      <4> QED
        BY <4>2
    <3> QED
      BY <2>2, <3>2, <3>4, <3>6
         DEF InOrder, AuthsInOrder, IoauthsInOrder, GrantInOrder, AuthFor, IoauthFor,
             TxFrom, SigsFor
  <2> QED
    BY <2>5, <2>6
<1>13. CASE on_tx_accepted /\ UNCHANGED daemonVars
  <2>0. PICK n \in Takers : \E t, q : TxAt(n, t, q)
    BY <1>13, TxIs
  <2>1. PICK t, q : TxAt(n, t, q)
    BY <2>0
  <2>2. DownStays(k, o.fill) /\ p = o /\ HasOrder(k) /\ InOrder(k, o)
    BY <1>0, <1>1, <1>4, <1>13, <2>1 DEF TxAt, daemonVars, HasOrder
  <2>3. PICK m : m = [type |-> "JMTXSigs", nick |-> n, tx |-> t]
    OBVIOUS
  <2>4. m.type = "JMTXSigs" /\ m.nick = n /\ Pushed(up, up', m)
    BY <2>1, <2>3 DEF TxAt
  <2>5. CASE k # n
    <3>1. ~UpFor(m, k, o.fill)
      BY <2>4, <2>5 DEF UpFor, IoauthFor, SigsFor
    <3> QED
      BY <1>3, <2>2, <2>4, <3>1, PushedStaysFor
  <2>6. CASE k = n
    <3>1. 1 \in DOMAIN down /\ TxFrom(down[1], k)
      BY <2>1, <2>6 DEF TxAt, Popped, TxFrom
    <3>2. /\ \A j \in DOMAIN up : ~IoauthFor(up[j], k, o.fill)
          /\ o.grant.fill = o.fill => o.proposed /\ o.authed
      BY <2>2, <3>1 DEF InOrder, IoauthsInOrder, GrantInOrder
    <3>3. \A j \in DOMAIN up' : ~IoauthFor(up'[j], k, o.fill)
      BY <2>4, <3>2 DEF Pushed, IoauthFor
    <3>4. AuthsInOrder(k, p)'
      <4>1. PICK b \in {0, 1} : \A i \in DOMAIN down' :
              DownFor(down'[i], k, o.fill) => i + b \in DOMAIN down /\ down[i + b] = down'[i]
        BY <2>2 DEF DownStays
      <4>2. \A i \in DOMAIN down' : i \in Nat
        BY <1>0, QueueIs DEF QueueShapes
      <4> SUFFICES ASSUME NEW i \in DOMAIN down', AuthFor(down'[i], k, o.fill)
                   PROVE  /\ o.authed /\ o.grant.fill # o.fill
                          /\ \A j \in DOMAIN down' : /\ AuthFor(down'[j], k, o.fill) => i = j
                                                     /\ TxFrom(down'[j], k) => j < i
        BY <2>2, <3>3 DEF AuthsInOrder, AuthFor, IoauthFor, TxFrom
      <4>3. i + b \in DOMAIN down /\ down[i + b] = down'[i]
        BY <4>1 DEF DownFor
      <4>4. /\ o.authed /\ o.grant.fill # o.fill
            /\ \A j \in DOMAIN down : /\ AuthFor(down[j], k, o.fill) => i + b = j
                                      /\ TxFrom(down[j], k) => j < i + b
        BY <2>2, <4>3 DEF InOrder, AuthsInOrder
      <4>5. ASSUME NEW j \in DOMAIN down'
            PROVE  /\ AuthFor(down'[j], k, o.fill) => i = j
                   /\ TxFrom(down'[j], k) => j < i
        <5>1. DownFor(down'[j], k, o.fill) => j + b \in DOMAIN down /\ down[j + b] = down'[j]
          BY <4>1
        <5>2. /\ AuthFor(down'[j], k, o.fill) => i + b = j + b
              /\ TxFrom(down'[j], k) => j + b < i + b
          BY <4>4, <5>1 DEF DownFor
        <5>3. i \in Nat /\ j \in Nat /\ b \in Nat
          BY <4>2
        <5> QED
          BY <5>2, <5>3
      <4> QED
        BY <4>4, <4>5
    <3> QED
      BY <2>2, <3>2, <3>3, <3>4 DEF InOrder, IoauthsInOrder, GrantInOrder, IoauthFor
  <2> QED
    BY <2>5, <2>6
<1> QED
  BY <1>5, <1>6, <1>7, <1>8, <1>9, <1>10, <1>11, <1>12, <1>13 DEF OrderStep

(***************************************************************************)
(* The network and the monitor                                             *)
(***************************************************************************)

(* A transaction on the network is there once, and was signed by us; the   *)
(* monitor looks again at transactions it was shown.                       *)
NetInv ==
  /\ \A i \in DOMAIN net : net[i].tx \in SignedTxs /\ net[i].conf \in BOOLEAN
  /\ \A i, j \in DOMAIN net : net[i].tx = net[j].tx => i = j
  /\ \A i, j \in DOMAIN net : i # j => net[i].tx.ins \cap net[j].tx.ins = {}
  /\ \A i \in DOMAIN down : down[i].type = "JMTXBroadcast" => down[i].tx \in SignedTxs
  /\ \A t \in active_txs : \E i \in 1..seen : net[i].tx = t

NetGrows ==
  /\ \A i \in DOMAIN net :
       i \in DOMAIN net' /\ net'[i].tx = net[i].tx /\ net'[i].conf \in {net[i].conf, TRUE}
  /\ \A i \in DOMAIN net' :
       \/ i \in DOMAIN net
       \/ /\ i = Len(net) + 1 /\ net'[i].tx \in SignedTxs /\ net'[i].conf = FALSE
          /\ \A j \in DOMAIN net : /\ net[j].tx # net'[i].tx
                                  /\ net'[i].tx.ins \cap net[j].tx.ins = {}

MonitorMoves ==
  /\ seen' = seen \/ (seen' = seen + 1 /\ seen' \in DOMAIN net)
  /\ \A t \in active_txs' :
       \/ t \in active_txs
       \/ seen' = seen + 1 /\ t = net[seen + 1].tx

LEMMA SignedHasInputs ==
  ASSUME Shapes, OwnInv, NEW t \in SignedTxs
  PROVE  t.ins # {}
<1>1. PICK s \in sigs_sent : s.tx = t
  BY DEF SignedTxs
<1>2. s.nick \in Takers /\ TxOf(s.nick, t)
  BY <1>1 DEF Shapes, OrderShapes, TxOf
<1> QED
  BY <1>2 DEF OwnInv

LEMMA NetAppends ==
  ASSUME Shapes, OwnInv, NEW t \in SignedTxs, Broadcastable(t),
         net' = Append(net, [tx |-> t, conf |-> FALSE])
  PROVE  NetGrows
<1>1. PICK m : m = [tx |-> t, conf |-> FALSE]
  OBVIOUS
<1>2. Pushed(net, net', m) /\ m.tx = t /\ m.conf = FALSE
  BY <1>1, QueueMoves DEF Shapes
<1>3. \A j \in DOMAIN net : net[j].tx # t /\ t.ins \cap net[j].tx.ins = {}
  BY SignedHasInputs DEF Broadcastable, NetTxs
<1> QED
  BY <1>2, <1>3 DEF Pushed, NetGrows

LEMMA NextNetGrows ==
  ASSUME Shapes, OwnInv, NetInv, [Next]_vars, ~Crash
  PROVE  NetGrows
<1> USE DEF linkVars
<1>1. CASE UNCHANGED net
  BY <1>1 DEF NetGrows
<1>2. CASE \E t \in SignedTxs : Broadcastable(t) /\ net' = Append(net, [tx |-> t, conf |-> FALSE])
  BY <1>2, NetAppends
<1>3. CASE Confirm
  <2>1. PICK i \in DOMAIN net : net' = [net EXCEPT ![i].conf = TRUE]
    BY <1>3 DEF Confirm
  <2>2. DOMAIN net' = DOMAIN net
    BY <2>1
  <2>3. \A j \in DOMAIN net : net'[j].tx = net[j].tx /\ net'[j].conf \in {net[j].conf, TRUE}
    <3> SUFFICES ASSUME NEW j \in DOMAIN net
                 PROVE  net'[j].tx = net[j].tx /\ net'[j].conf \in {net[j].conf, TRUE}
      OBVIOUS
    <3>1. PICK r : r = net[i]
      OBVIOUS
    <3>2. net' = [net EXCEPT ![i] = [r EXCEPT !.conf = TRUE]]
      BY <2>1, <3>1
    <3>3. CASE j # i
      BY <3>2, <3>3
    <3>4. CASE j = i
      <4>1. net'[j] = [r EXCEPT !.conf = TRUE]
        BY <3>2, <3>4
      <4>2. [r EXCEPT !.conf = TRUE].tx = r.tx
        OBVIOUS
      <4>3. r.conf => [r EXCEPT !.conf = TRUE].conf
        OBVIOUS
      <4> QED
        BY <3>1, <3>4, <4>1, <4>2, <4>3
    <3> QED
      BY <3>3, <3>4
  <2> QED
    BY <2>2, <2>3 DEF NetGrows
<1> QED
  <2>1. CASE UNCHANGED vars
    BY <1>1, <2>1 DEF vars
  <2>2. CASE DaemonHandles /\ UNCHANGED clientVars
    BY <1>1, <2>2 DEF DaemonHandles, on_JM_SETUP, on_JM_ANNOUNCE_OFFERS, on_JM_IOAUTH,
                      on_JM_TX_SIGS
  <2>3. CASE PitSpeaks /\ UNCHANGED clientVars
    BY <1>1, <1>2, <2>3
       DEF PitSpeaks, on_orderbook_requested, on_order_fill, on_seen_auth,
           on_commitment_seen, on_push_tx, TakerBroadcasts
  <2>4. CASE TakerProposes /\ UNCHANGED clientVars
    BY <1>1, <2>4 DEF TakerProposes, on_seen_tx
  <2>5. CASE ClientHandles
    <3>1. CASE on_JM_TX_BROADCAST
      <4>1. PICK t : t = Head(down).tx
        OBVIOUS
      <4>2. t \in SignedTxs
        <5>1. down # <<>> /\ down' = Tail(down) /\ Head(down).type = "JMTXBroadcast"
          BY <3>1 DEF on_JM_TX_BROADCAST, ClientGets
        <5>2. 1 \in DOMAIN down /\ Head(down) = down[1]
          BY <5>1, QueueMoves DEF Shapes, Popped
        <5> QED
          BY <4>1, <5>1, <5>2 DEF NetInv
      <4>3. \/ net' = net
            \/ Broadcastable(t) /\ net' = Append(net, [tx |-> t, conf |-> FALSE])
        BY <3>1, <4>1 DEF on_JM_TX_BROADCAST
      <4> QED
        BY <1>1, <1>2, <4>2, <4>3
    <3>2. CASE ~on_JM_TX_BROADCAST
      BY <1>1, <2>5, <3>2
         DEF ClientHandles, on_JM_UP, on_auth_accepted, on_auth_refused, on_tx_accepted,
             on_tx_refused
    <3> QED
      BY <3>1, <3>2
  <2>6. CASE Loops
    BY <1>1, <2>6 DEF Loops, try_to_create_my_orders, submitOffers, check_callback_called,
                      monitor_unconfirmed, monitor_confirmed
  <2> QED
    BY <1>3, <2>1, <2>2, <2>3, <2>4, <2>5, <2>6 DEF Next

LEMMA NextMonitorMoves ==
  ASSUME [Next]_vars, ~Crash
  PROVE  MonitorMoves
<1>1. CASE UNCHANGED <<seen, active_txs>>
  BY <1>1 DEF MonitorMoves
<1>2. ASSUME NEW i \in DOMAIN net, monitor_unconfirmed(i) PROVE MonitorMoves
  BY <1>2 DEF monitor_unconfirmed, CallbackRaises, IsNew, MonitorMoves
<1>3. ASSUME NEW i \in DOMAIN net, monitor_confirmed(i) PROVE MonitorMoves
  <2>1. seen' = seen \/ (seen' = seen + 1 /\ seen' \in DOMAIN net)
    BY <1>3 DEF monitor_confirmed, IsNew
  <2>2. active_txs' \subseteq active_txs
    BY <1>3 DEF monitor_confirmed, CallbackRaises
  <2> QED
    BY <2>1, <2>2 DEF MonitorMoves
<1>4. ASSUME NEW c \in checks, check_callback_called(c) PROVE MonitorMoves
  <2>1. UNCHANGED seen /\ active_txs' \subseteq active_txs
    BY <1>4 DEF check_callback_called, StopsMonitoring
  <2> QED
    BY <2>1 DEF MonitorMoves
<1> QED
  <2> USE DEF clientVars, walletVars
  <2>1. CASE ClientHandles
    BY <1>1, <2>1 DEF ClientHandles, on_JM_UP, on_auth_accepted, on_auth_refused,
                      on_tx_accepted, on_tx_refused, on_JM_TX_BROADCAST
  <2>2. CASE Loops
    <3>1. CASE try_to_create_my_orders \/ submitOffers
      BY <1>1, <3>1 DEF try_to_create_my_orders, submitOffers
    <3> QED
      BY <1>2, <1>3, <1>4, <2>2, <3>1 DEF Loops
  <2>3. CASE UNCHANGED clientVars
    BY <1>1, <2>3
  <2> QED
    BY <2>1, <2>2, <2>3 DEF Next, vars

LEMMA SigsAreKept ==
  ASSUME [Next]_vars
  PROVE  sigs_sent \subseteq sigs_sent'
<1> USE DEF daemonVars
<1>1. CASE UNCHANGED sigs_sent
  BY <1>1
<1>2. CASE DaemonHandles
  BY <1>2 DEF DaemonHandles, on_JM_SETUP, on_JM_ANNOUNCE_OFFERS, on_JM_IOAUTH, on_JM_TX_SIGS
<1>3. CASE PitSpeaks
  BY <1>3 DEF PitSpeaks, on_orderbook_requested, on_order_fill, on_seen_auth,
              on_commitment_seen, on_push_tx, TakerBroadcasts
<1>4. CASE TakerProposes
  BY <1>4 DEF TakerProposes, on_seen_tx
<1> QED
  BY <1>1, <1>2, <1>3, <1>4 DEF Next, vars, Crash

LEMMA NextBroadcasts ==
  ASSUME Shapes, NetInv, [Next]_vars
  PROVE  \A i \in DOMAIN down' : down'[i].type = "JMTXBroadcast" => down'[i].tx \in SignedTxs
<1> DEFINE AllSigned == \A i \in DOMAIN down' :
                      down'[i].type = "JMTXBroadcast" => down'[i].tx \in SignedTxs
<1>0. \A i \in DOMAIN down : down[i].type = "JMTXBroadcast" => down[i].tx \in SignedTxs
  BY DEF NetInv
<1>1. CASE UNCHANGED down
  BY <1>0, <1>1
<1>2. CASE down # <<>> /\ down' = Tail(down)
  <2>1. Popped(down, down')
    BY <1>2, QueueMoves DEF Shapes
  <2> QED
    BY <1>0, <2>1 DEF Popped
<1>3. ASSUME NEW m, down' = Append(down, m), m.type = "JMTXBroadcast" => m.tx \in SignedTxs
      PROVE  AllSigned
  <2>1. Pushed(down, down', m)
    BY <1>3, QueueMoves DEF Shapes
  <2> QED
    BY <1>0, <1>3, <2>1 DEF Pushed
<1> HIDE DEF AllSigned
<1>4. CASE Crash
  <2>1. DOMAIN down' = {1} /\ down'[1].type = "JMUp"
    BY <1>4 DEF Crash
  <2> QED
    BY <2>1 DEF AllSigned
<1>5. CASE PitSpeaks \/ TakerProposes
  <2>1. CASE \E n \in Takers : on_seen_auth(n)
    <3>1. PICK n \in Takers : on_seen_auth(n)
      BY <2>1
    <3>2. PICK m : m.type = "JMAuthReceived" /\ down' = Append(down, m)
      BY <3>1 DEF on_seen_auth, Send
    <3> QED
      BY <1>3, <3>2 DEF AllSigned
  <2>2. CASE TakerProposes
    <3>0. PICK n \in Takers : \E tx : on_seen_tx(n, tx, FreeToPropose(n))
      BY <2>2 DEF TakerProposes
    <3>1. PICK tx : on_seen_tx(n, tx, FreeToPropose(n))
      BY <3>0
    <3>2. PICK m : m.type = "JMTXReceived" /\ down' = Append(down, m)
      BY <3>1 DEF on_seen_tx, Send
    <3> QED
      BY <1>3, <3>2 DEF AllSigned
  <2>3. CASE \E t \in SignedTxs : on_push_tx(t) \/ TakerBroadcasts(t)
    <3>1. PICK t \in SignedTxs : on_push_tx(t) \/ TakerBroadcasts(t)
      BY <2>3
    <3>2. PICK m : m = [type |-> "JMTXBroadcast", tx |-> t]
      OBVIOUS
    <3>3. down' = down \/ down' = Append(down, m)
      BY <3>1, <3>2 DEF on_push_tx, TakerBroadcasts, Send
    <3>4. m.tx = t
      BY <3>2
    <3> QED
      BY <1>1, <1>3, <3>3, <3>4 DEF AllSigned
  <2> QED
    BY <1>1, <1>5, <2>1, <2>2, <2>3
       DEF PitSpeaks, on_orderbook_requested, on_commitment_seen, on_order_fill, linkVars, AllSigned
<1>6. CASE DaemonHandles \/ Loops
  BY <1>1, <1>6 DEF DaemonHandles, on_JM_SETUP, on_JM_ANNOUNCE_OFFERS, on_JM_IOAUTH,
                    on_JM_TX_SIGS, Loops, try_to_create_my_orders, submitOffers,
                    check_callback_called, monitor_unconfirmed, monitor_confirmed, linkVars,
                    AllSigned
<1>7. CASE ClientHandles
  BY <1>2, <1>7 DEF ClientHandles, on_JM_UP, on_auth_accepted, on_auth_refused,
                    on_tx_accepted, on_tx_refused, on_JM_TX_BROADCAST, ClientGets, AllSigned
<1>8. CASE (UNCHANGED vars) \/ Confirm
  BY <1>1, <1>8 DEF vars, Confirm, linkVars, AllSigned
<1> QED
  BY <1>4, <1>5, <1>6, <1>7, <1>8 DEF Next, AllSigned

LEMMA NextNet ==
  Shapes /\ Shapes' /\ OwnInv /\ NetInv /\ [Next]_vars => NetInv'
<1> SUFFICES ASSUME Shapes, Shapes', OwnInv, NetInv, [Next]_vars
             PROVE  NetInv'
  OBVIOUS
<1>1. /\ Len(net) \in Nat /\ DOMAIN net = 1..Len(net) /\ seen \in 0..Len(net)
      /\ DOMAIN net' = 1..Len(net') /\ Len(net') \in Nat
  BY QueueIs DEF Shapes, QueueShapes
<1>2. SignedTxs \subseteq SignedTxs'
  BY SigsAreKept DEF SignedTxs
<1>3. \A i \in DOMAIN down' : down'[i].type = "JMTXBroadcast" => down'[i].tx \in SignedTxs'
  BY <1>2, NextBroadcasts
<1>4. CASE Crash
  <2>1. /\ UNCHANGED net /\ seen' = Len(net)
        /\ active_txs' = {net[i].tx : i \in {j \in DOMAIN net : ~net[j].conf}}
    BY <1>4 DEF Crash, ClientRestart
  <2>2. \A t \in active_txs' : \E i \in 1..seen' : net'[i].tx = t
    BY <1>1, <2>1
  <2> QED
    BY <1>2, <1>3, <2>1, <2>2 DEF NetInv
<1>5. CASE ~Crash
  <2>1. NetGrows /\ MonitorMoves
    BY <1>5, NextNetGrows, NextMonitorMoves
  <2>2. \A i \in DOMAIN net' : net'[i].tx \in SignedTxs' /\ net'[i].conf \in BOOLEAN
    BY <1>2, <2>1 DEF NetGrows, NetInv
  <2>3. \A i, j \in DOMAIN net' : net'[i].tx = net'[j].tx => i = j
    <3>1. /\ \A i \in DOMAIN net : net'[i].tx = net[i].tx
          /\ \A i \in DOMAIN net' : i \in DOMAIN net \/
               (i = Len(net) + 1 /\ \A j \in DOMAIN net : net[j].tx # net'[i].tx)
      BY <2>1 DEF NetGrows
    <3>2. \A i, j \in DOMAIN net : net[i].tx = net[j].tx => i = j
      BY DEF NetInv
    <3> QED
      BY <3>1, <3>2
  <2>5. \A i, j \in DOMAIN net' : i # j => net'[i].tx.ins \cap net'[j].tx.ins = {}
    <3>1. /\ \A i \in DOMAIN net : net'[i].tx = net[i].tx
          /\ \A i \in DOMAIN net' : i \in DOMAIN net \/
               /\ i = Len(net) + 1
               /\ \A j \in DOMAIN net : net'[i].tx.ins \cap net[j].tx.ins = {}
      BY <2>1 DEF NetGrows
    <3>2. \A i, j \in DOMAIN net : i # j => net[i].tx.ins \cap net[j].tx.ins = {}
      BY DEF NetInv
    <3> SUFFICES ASSUME NEW i \in DOMAIN net', NEW j \in DOMAIN net', i # j
                 PROVE  net'[i].tx.ins \cap net'[j].tx.ins = {}
      OBVIOUS
    <3>3. CASE i \in DOMAIN net /\ j \in DOMAIN net
      BY <3>1, <3>2, <3>3
    <3>4. CASE i \in DOMAIN net /\ j \notin DOMAIN net
      BY <3>1, <3>4
    <3>5. CASE i \notin DOMAIN net
      BY <3>1, <3>5
    <3> QED
      BY <3>3, <3>4, <3>5
  <2>4. ASSUME NEW t \in active_txs' PROVE \E i \in 1..seen' : net'[i].tx = t
    <3>1. CASE t \in active_txs
      <4>1. PICK i \in 1..seen : net[i].tx = t
        BY <3>1 DEF NetInv
      <4>2. i \in DOMAIN net /\ i \in 1..seen'
        BY <1>1, <2>1 DEF MonitorMoves
      <4> QED
        BY <2>1, <4>1, <4>2 DEF NetGrows
    <3>2. CASE seen' = seen + 1 /\ t = net[seen + 1].tx
      <4>1. seen + 1 \in 1..seen' /\ seen + 1 \in DOMAIN net
        BY <1>1, <2>1, <3>2 DEF MonitorMoves
      <4> QED
        BY <2>1, <3>2, <4>1 DEF NetGrows
    <3> QED
      BY <2>1, <3>1, <3>2 DEF MonitorMoves
  <2> QED
    BY <1>3, <2>2, <2>3, <2>4, <2>5 DEF NetInv
<1> QED
  BY <1>4, <1>5

(* A transaction that the monitor has done with.                           *)
Done(t) ==
  /\ \E i \in 1..seen : net[i].tx = t /\ net[i].conf
  /\ t \notin active_txs

LEMMA DoneStays ==
  ASSUME Shapes, OwnInv, NetInv, [Next]_vars, ~Crash, NEW t, Done(t)
  PROVE  Done(t)'
<1>1. /\ Len(net) \in Nat /\ DOMAIN net = 1..Len(net) /\ seen \in 0..Len(net)
  BY QueueIs DEF Shapes, QueueShapes
<1>2. NetGrows /\ MonitorMoves
  BY NextNetGrows, NextMonitorMoves
<1>3. PICK i \in 1..seen : net[i].tx = t /\ net[i].conf
  BY DEF Done
<1>4. i \in DOMAIN net /\ i \in 1..seen'
  BY <1>1, <1>2 DEF MonitorMoves
<1>5. net'[i].tx = t /\ net'[i].conf
  BY <1>2, <1>3, <1>4 DEF NetGrows
<1>6. t \notin active_txs'
  <2>1. SUFFICES ASSUME t \in active_txs' PROVE FALSE
    OBVIOUS
  <2>2. seen + 1 \in DOMAIN net /\ net[seen + 1].tx = t
    BY <1>1, <1>2, <2>1 DEF MonitorMoves, Done
  <2>3. i = seen + 1
    BY <1>3, <1>4, <2>2 DEF NetInv
  <2> QED
    BY <1>1, <2>3
<1> QED
  BY <1>4, <1>5, <1>6 DEF Done

(***************************************************************************)
(* Takers that wait for their last transaction                             *)
(***************************************************************************)

CallbackStep ==
  \/ on_tx_accepted /\ UNCHANGED daemonVars
  \/ \E i \in DOMAIN net : monitor_unconfirmed(i) \/ monitor_confirmed(i)
  \/ \E c \in checks : check_callback_called(c)

LEMMA OthersLeaveCallbacks ==
  ASSUME [Next]_vars, ~Crash, ~CallbackStep
  PROVE  UNCHANGED <<confirm_cbs, unconfirm_cbs, checks, active_txs>>
<1> USE DEF clientVars, cbVars, walletVars
<1>1. CASE ClientHandles /\ UNCHANGED daemonVars
  BY <1>1 DEF ClientHandles, CallbackStep, on_JM_UP, on_auth_accepted, on_auth_refused,
              on_tx_refused, on_JM_TX_BROADCAST
<1>2. CASE Loops
  BY <1>2 DEF Loops, CallbackStep, try_to_create_my_orders, submitOffers
<1> QED
  BY <1>1, <1>2 DEF Next, vars

(* Transactions that a callback is registered for.                         *)
Waited == confirm_cbs \cup unconfirm_cbs

LEMMA WaitedShrinks ==
  ASSUME [Next]_vars, ~Crash, ~(on_tx_accepted /\ UNCHANGED daemonVars)
  PROVE  Waited' \subseteq Waited
<1>1. CASE UNCHANGED <<confirm_cbs, unconfirm_cbs>>
  BY <1>1 DEF Waited
<1>2. CASE \E i \in DOMAIN net : monitor_unconfirmed(i) \/ monitor_confirmed(i)
  BY <1>2 DEF monitor_unconfirmed, monitor_confirmed, CallbackRaises, cbVars, Waited
<1>3. CASE \E c \in checks : check_callback_called(c)
  BY <1>3 DEF check_callback_called, Waited
<1> QED
  BY <1>1, <1>2, <1>3, OthersLeaveCallbacks DEF CallbackStep

(* What is still waited for is what was signed last for its nick, unless   *)
(* the monitor has done with it; a nick has one proposal under way.        *)
SerialInv ==
  /\ \A s \in sigs_sent :
       finalized_offers[s.nick] = s.tx \/ Done(s.tx) \/ s.tx \notin Waited
  /\ \A i \in DOMAIN up :
       up[i].type = "JMTXSigs" => finalized_offers[up[i].nick] = up[i].tx
  /\ \A n \in Takers : \A i \in DOMAIN down : TxFrom(down[i], n) =>
       /\ \A j \in DOMAIN down : TxFrom(down[j], n) => i = j
       /\ \A j \in DOMAIN up : ~SigsFor(up[j], n)
       /\ \A s \in sigs_sent : s.nick = n => Done(s.tx)

(* The messages and signatures stay.                                       *)
LEMMA SerialFrame ==
  ASSUME QueueShapes, QueueShapes', SerialInv, Waited' \subseteq Waited,
         \A s \in sigs_sent : Done(s.tx) => Done(s.tx)',
         UNCHANGED <<sigs_sent, finalized_offers>>,
         Stays(up, up', {"JMTXSigs"}), Stays(down, down', {"JMTXReceived"})
  PROVE  SerialInv'
<1>1. PICK a \in {0, 1} : \A i \in DOMAIN up' :
        up'[i].type = "JMTXSigs" => i + a \in DOMAIN up /\ up[i + a] = up'[i]
  BY DEF Stays
<1>2. PICK b \in {0, 1} : \A i \in DOMAIN down' :
        down'[i].type = "JMTXReceived" => i + b \in DOMAIN down /\ down[i + b] = down'[i]
  BY DEF Stays
<1>3. \A s \in sigs_sent' :
        finalized_offers'[s.nick] = s.tx \/ Done(s.tx)' \/ s.tx \notin Waited'
  BY DEF SerialInv
<1>4. \A i \in DOMAIN up' : up'[i].type = "JMTXSigs" => finalized_offers'[up'[i].nick] = up'[i].tx
  BY <1>1 DEF SerialInv
<1>5. ASSUME NEW n \in Takers, NEW i \in DOMAIN down', TxFrom(down'[i], n)
      PROVE  /\ \A j \in DOMAIN down' : TxFrom(down'[j], n) => i = j
             /\ \A j \in DOMAIN up' : ~SigsFor(up'[j], n)
             /\ \A s \in sigs_sent' : s.nick = n => Done(s.tx)'
  <2>1. i + b \in DOMAIN down /\ down[i + b] = down'[i]
    BY <1>2, <1>5 DEF TxFrom
  <2>2. /\ \A j \in DOMAIN down : TxFrom(down[j], n) => i + b = j
        /\ \A j \in DOMAIN up : ~SigsFor(up[j], n)
        /\ \A s \in sigs_sent : s.nick = n => Done(s.tx)
    BY <1>5, <2>1 DEF SerialInv
  <2>3. ASSUME NEW j \in DOMAIN down', TxFrom(down'[j], n) PROVE i = j
    <3>1. i + b = j + b
      BY <1>2, <2>2, <2>3 DEF TxFrom
    <3>2. i \in Nat /\ j \in Nat /\ b \in Nat
      BY QueueIs DEF QueueShapes
    <3> QED
      BY <3>1, <3>2
  <2>4. \A j \in DOMAIN up' : ~SigsFor(up'[j], n)
    BY <1>1, <2>2 DEF SigsFor
  <2> QED
    BY <2>2, <2>3, <2>4
<1> QED
  BY <1>3, <1>4, <1>5 DEF SerialInv, TxFrom, SigsFor

(* A proposal pays an address of its nick, so no other nick has it signed. *)
LEMMA ProposalIsOwn ==
  ASSUME Shapes, OwnInv, NEW n \in Takers, NEW t, NEW o, TxAt(n, t, o),
         NEW s \in sigs_sent, s.tx = t
  PROVE  s.nick = n
<1>1. s.nick \in Takers /\ TxOf(s.nick, t)
  BY DEF Shapes, OrderShapes, TxOf
<1>2. 1 \in DOMAIN down /\ TxFrom(down[1], n) /\ GrantOf(n, o.grant)
  BY DEF TxAt, Popped, TxFrom, GrantOf
<1>3. PaysOnly(t, o.grant)
  BY <1>2 DEF TxAt, OwnInv
<1>4. PICK a : a = t.outs[1][1]
  OBVIOUS
<1>5. AddressOf(n, a) /\ AddressOf(s.nick, a)
  BY <1>1, <1>2, <1>3, <1>4 DEF AddressOf, PaysOnly
<1> QED
  BY <1>1, <1>5 DEF OwnInv

LEMMA NextSerial ==
  ASSUME SerialTakers
  PROVE  Shapes /\ Shapes' /\ OwnInv /\ NetInv /\ FillOrder /\ SerialInv /\ [Next]_vars
           => SerialInv'
<1> SUFFICES ASSUME Shapes, Shapes', OwnInv, NetInv, FillOrder, SerialInv, [Next]_vars
             PROVE  SerialInv'
  OBVIOUS
<1> USE DEF clientVars, cbVars, daemonVars
<1>0. QueueShapes /\ QueueShapes'
  BY DEF Shapes
<1>1. CASE Crash
  <2>1. /\ DOMAIN up' = {} /\ DOMAIN down' = {1} /\ down'[1].type = "JMUp" /\ Waited' = {}
    BY <1>1 DEF Crash, ClientRestart, Waited
  <2> QED
    BY <2>1 DEF SerialInv, TxFrom
<1> SUFFICES ASSUME ~Crash PROVE SerialInv'
  BY <1>1
<1>2. \A t : Done(t) => Done(t)'
  BY DoneStays
<1>3. /\ UNCHANGED up \/ Popped(up, up') => Stays(up, up', {"JMTXSigs"})
      /\ UNCHANGED down \/ Popped(down, down') => Stays(down, down', {"JMTXReceived"})
  BY <1>0, SameStays, PoppedStays DEF QueueShapes
<1>11. CASE on_tx_accepted /\ UNCHANGED daemonVars
  <2>0. PICK n \in Takers : \E t, o : TxAt(n, t, o)
    BY <1>11, TxIs
  <2>1. PICK t, o : TxAt(n, t, o)
    BY <2>0
  <2>2. PICK m : m = [type |-> "JMTXSigs", nick |-> n, tx |-> t]
    OBVIOUS
  <2>3. /\ m.type = "JMTXSigs" /\ m.nick = n /\ m.tx = t /\ Pushed(up, up', m)
        /\ UNCHANGED sigs_sent /\ finalized_offers'[n] = t
        /\ \A k \in Takers \ {n} : finalized_offers'[k] = finalized_offers[k]
        /\ 1 \in DOMAIN down /\ TxFrom(down[1], n) /\ Popped(down, down')
    BY <2>1, <2>2 DEF TxAt, Popped, TxFrom
  <2>4. /\ \A j \in DOMAIN down : TxFrom(down[j], n) => 1 = j
        /\ \A j \in DOMAIN up : ~SigsFor(up[j], n)
        /\ \A s \in sigs_sent : s.nick = n => Done(s.tx)
    BY <2>3 DEF SerialInv
  <2>5. ASSUME NEW s \in sigs_sent'
        PROVE  finalized_offers'[s.nick] = s.tx \/ Done(s.tx)' \/ s.tx \notin Waited'
    <3>1. s \in sigs_sent /\ s.nick \in Takers
      BY <2>3 DEF Shapes, OrderShapes
    <3>2. finalized_offers[s.nick] = s.tx \/ Done(s.tx) \/ s.tx \notin Waited
      BY <3>1 DEF SerialInv
    <3>3. s.tx = t => s.nick = n
      BY <2>1, <3>1, ProposalIsOwn
    <3>4. Waited' = Waited \cup {t}
      BY <2>1 DEF TxAt, Waited
    <3> QED
      BY <1>2, <2>3, <2>4, <3>1, <3>2, <3>3, <3>4
  <2>6. ASSUME NEW i \in DOMAIN up', up'[i].type = "JMTXSigs"
        PROVE  finalized_offers'[up'[i].nick] = up'[i].tx
    <3>1. CASE i \in DOMAIN up /\ up'[i] = up[i]
      <4>1. up[i].nick \in Takers \ {n}
        BY <2>4, <2>6, <3>1 DEF SigsFor, Shapes, MessageShapes, UpFine
      <4>2. finalized_offers[up[i].nick] = up[i].tx
        BY <2>6, <3>1 DEF SerialInv
      <4> QED
        BY <2>3, <3>1, <4>1, <4>2
    <3>2. CASE up'[i] = m
      BY <2>3, <3>2
    <3> QED
      BY <2>3, <3>1, <3>2 DEF Pushed
  <2>7. ASSUME NEW k \in Takers, NEW i \in DOMAIN down', TxFrom(down'[i], k)
        PROVE  /\ \A j \in DOMAIN down' : TxFrom(down'[j], k) => i = j
               /\ \A j \in DOMAIN up' : ~SigsFor(up'[j], k)
               /\ \A s \in sigs_sent' : s.nick = k => Done(s.tx)'
    <3>1. \A j \in DOMAIN down' : /\ j \in Nat /\ j + 1 \in DOMAIN down /\ j + 1 # 1
                                  /\ down'[j] = down[j + 1]
      BY <2>3 DEF Popped
    <3>2. k # n
      <4>1. i + 1 # 1
        BY <3>1
      <4> QED
        BY <2>4, <2>7, <3>1, <4>1
    <3>3. /\ \A j \in DOMAIN down : TxFrom(down[j], k) => i + 1 = j
          /\ \A j \in DOMAIN up : ~SigsFor(up[j], k)
          /\ \A s \in sigs_sent : s.nick = k => Done(s.tx)
      BY <2>7, <3>1 DEF SerialInv
    <3>4. \A j \in DOMAIN down' : TxFrom(down'[j], k) => i = j
      <4>1. \A j \in DOMAIN down' : TxFrom(down'[j], k) => i + 1 = j + 1
        BY <3>1, <3>3
      <4> QED
        BY <3>1, <4>1
    <3>5. \A j \in DOMAIN up' : ~SigsFor(up'[j], k)
      BY <2>3, <3>2, <3>3 DEF Pushed, SigsFor
    <3> QED
      BY <1>2, <2>3, <3>3, <3>4, <3>5
  <2> QED
    BY <2>5, <2>6, <2>7 DEF SerialInv, TxFrom, SigsFor
<1> SUFFICES ASSUME ~(on_tx_accepted /\ UNCHANGED daemonVars) PROVE SerialInv'
  BY <1>11
<1>12. Waited' \subseteq Waited
  BY WaitedShrinks
<1>4. CASE ~OrderStep
  <2>1. /\ Stays(up, up', UpTypes) /\ Stays(down, down', DownTypes)
        /\ UNCHANGED <<sigs_sent, finalized_offers>>
    BY <1>4, OthersLeaveOrders DEF ordersVars
  <2>2. Stays(up, up', {"JMTXSigs"}) /\ Stays(down, down', {"JMTXReceived"})
    BY <2>1 DEF Stays, UpTypes, DownTypes
  <2> QED
    BY <1>0, <1>2, <1>12, <2>1, <2>2, SerialFrame
<1>5. CASE on_JM_IOAUTH /\ UNCHANGED clientVars
  <2>0. PICK n \in Takers : \E g : IoauthAt(n, g)
    BY <1>5, IoauthIs
  <2>1. PICK g : IoauthAt(n, g)
    BY <2>0
  <2>2. UNCHANGED <<sigs_sent, finalized_offers, down>> /\ Popped(up, up')
    BY <2>1 DEF IoauthAt
  <2> QED
    BY <1>0, <1>2, <1>3, <1>12, <2>2, SerialFrame
<1>6. CASE UNCHANGED clientVars /\ \E n \in Takers, a \in Amounts, c \in Commits : on_order_fill(n, a, c)
  <2>0. PICK n \in Takers : \E p : FillAt(n, p)
    BY <1>6, FillIs
  <2>1. PICK p : FillAt(n, p)
    BY <2>0
  <2>2. UNCHANGED <<sigs_sent, finalized_offers, down, up>>
    BY <2>1 DEF FillAt
  <2> QED
    BY <1>0, <1>2, <1>3, <1>12, <2>2, SerialFrame
<1>7. CASE UNCHANGED clientVars /\ \E n \in Takers : on_seen_auth(n)
  <2>0. PICK n \in Takers : \E m, o : SeenAuthAt(n, m, o)
    BY <1>7, SeenAuthIs
  <2>1. PICK m, o : SeenAuthAt(n, m, o)
    BY <2>0
  <2>2. UNCHANGED <<sigs_sent, finalized_offers, up>> /\ Pushed(down, down', m)
        /\ m.type = "JMAuthReceived"
    BY <2>1 DEF SeenAuthAt
  <2>3. Stays(down, down', {"JMTXReceived"})
    BY <2>2, PushedStays
  <2> QED
    BY <1>0, <1>2, <1>3, <1>12, <2>2, <2>3, SerialFrame
<1>8. CASE on_auth_accepted /\ UNCHANGED daemonVars
  <2>0. PICK n \in Takers : \E g, md : AuthAt(n, g, md)
    BY <1>8, AuthIs
  <2>1. PICK g, md : AuthAt(n, g, md)
    BY <2>0
  <2>2. UNCHANGED <<sigs_sent, finalized_offers>> /\ Popped(down, down')
        /\ \E m : Pushed(up, up', m) /\ m.type = "JMIOAuth"
    BY <2>1 DEF AuthAt
  <2>3. Stays(up, up', {"JMTXSigs"})
    BY <2>2, PushedStays
  <2> QED
    BY <1>0, <1>2, <1>3, <1>12, <2>2, <2>3, SerialFrame
<1>9. CASE on_JM_TX_SIGS /\ UNCHANGED clientVars
  <2>0. PICK n \in Takers : \E t : SigsAt(n, t)
    BY <1>9, SigsIs
  <2>1. PICK t : SigsAt(n, t)
    BY <2>0
  <2>2. /\ UNCHANGED <<down, finalized_offers>> /\ 1 \in DOMAIN up /\ SigsFor(up[1], n)
        /\ up[1].tx = t
        /\ \A s \in sigs_sent' : s \in sigs_sent \/ (s.nick = n /\ s.tx = t)
    BY <2>1 DEF SigsAt, Popped, SigsFor
  <2>3. \A i \in DOMAIN down : ~TxFrom(down[i], n)
    BY <2>2 DEF SerialInv
  <2>4. finalized_offers[n] = t
    BY <2>2 DEF SerialInv, SigsFor
  <2>5. \A s \in sigs_sent' :
          finalized_offers'[s.nick] = s.tx \/ Done(s.tx)' \/ s.tx \notin Waited'
    BY <1>2, <1>12, <2>2, <2>4 DEF SerialInv
  <2>6. \A i \in DOMAIN up' : \E j \in DOMAIN up : up'[i] = up[j]
    BY <2>1 DEF SigsAt, Popped
  <2>7. \A i \in DOMAIN up' :
          up'[i].type = "JMTXSigs" => finalized_offers'[up'[i].nick] = up'[i].tx
    BY <2>2, <2>6 DEF SerialInv
  <2>8. ASSUME NEW k \in Takers, NEW i \in DOMAIN down', TxFrom(down'[i], k)
        PROVE  /\ \A j \in DOMAIN down' : TxFrom(down'[j], k) => i = j
               /\ \A j \in DOMAIN up' : ~SigsFor(up'[j], k)
               /\ \A s \in sigs_sent' : s.nick = k => Done(s.tx)'
    <3>1. k # n
      BY <2>2, <2>3, <2>8
    <3>2. /\ \A j \in DOMAIN down : TxFrom(down[j], k) => i = j
          /\ \A j \in DOMAIN up : ~SigsFor(up[j], k)
          /\ \A s \in sigs_sent : s.nick = k => Done(s.tx)
      BY <2>2, <2>8 DEF SerialInv
    <3>3. \A j \in DOMAIN up' : ~SigsFor(up'[j], k)
      BY <2>6, <3>2
    <3>4. \A s \in sigs_sent' : s.nick = k => Done(s.tx)'
      BY <1>2, <2>2, <3>1, <3>2
    <3> QED
      BY <2>2, <3>2, <3>3, <3>4
  <2> QED
    BY <2>5, <2>7, <2>8 DEF SerialInv, TxFrom, SigsFor
<1>10. CASE TakerProposes /\ UNCHANGED clientVars
  <2>0. PICK n \in Takers : \E m, o : ProposeAt(n, m, o)
    BY <1>10, ProposeIs
  <2>1. PICK m, o : ProposeAt(n, m, o)
    BY <2>0
  <2>2. /\ UNCHANGED <<up, sigs_sent, finalized_offers>> /\ Pushed(down, down', m)
        /\ HasOrder(n) /\ InOrder(n, o) /\ o.grant.fill = o.fill /\ ~o.proposed
        /\ m.nick = n /\ FreeToPropose(n)
    BY <2>1 DEF ProposeAt, FillOrder
  <2>3. /\ \A j \in DOMAIN down : ~TxFrom(down[j], n)
        /\ \A j \in DOMAIN up : ~SigsFor(up[j], n)
    BY <2>2 DEF InOrder, GrantInOrder
  <2>4. \A s \in sigs_sent : s.nick = n => Done(s.tx)
    BY <2>2 DEF FreeToPropose, Done
  <2>5. /\ \A s \in sigs_sent' :
             finalized_offers'[s.nick] = s.tx \/ Done(s.tx)' \/ s.tx \notin Waited'
        /\ \A i \in DOMAIN up' :
             up'[i].type = "JMTXSigs" => finalized_offers'[up'[i].nick] = up'[i].tx
    BY <1>2, <1>12, <2>2 DEF SerialInv
  <2>6. ASSUME NEW k \in Takers, NEW i \in DOMAIN down', TxFrom(down'[i], k)
        PROVE  /\ \A j \in DOMAIN down' : TxFrom(down'[j], k) => i = j
               /\ \A j \in DOMAIN up' : ~SigsFor(up'[j], k)
               /\ \A s \in sigs_sent' : s.nick = k => Done(s.tx)'
    <3>1. CASE k = n
      <4>1. \A j \in DOMAIN down' : TxFrom(down'[j], n) => j = Len(down) + 1
        BY <2>2, <2>3 DEF Pushed
      <4> QED
        BY <1>2, <2>2, <2>3, <2>4, <2>6, <3>1, <4>1
    <3>2. CASE k # n
      <4>1. \A j \in DOMAIN down' : TxFrom(down'[j], k) => j \in DOMAIN down /\ down'[j] = down[j]
        BY <2>2, <3>2 DEF Pushed, TxFrom
      <4>2. /\ \A j \in DOMAIN down : TxFrom(down[j], k) => i = j
            /\ \A j \in DOMAIN up : ~SigsFor(up[j], k)
            /\ \A s \in sigs_sent : s.nick = k => Done(s.tx)
        BY <2>6, <4>1 DEF SerialInv
      <4> QED
        BY <1>2, <2>2, <4>1, <4>2
    <3> QED
      BY <3>1, <3>2
  <2> QED
    BY <2>5, <2>6 DEF SerialInv, TxFrom, SigsFor
<1> QED
  BY <1>4, <1>5, <1>6, <1>7, <1>8, <1>9, <1>10, <1>11 DEF OrderStep

(* What the monitor follows was announced as unconfirmed; until the first  *)
(* crash, what was signed is waited for until the monitor has done with it.*)
Signed == SignedTxs \cup {up[i].tx : i \in {j \in DOMAIN up : up[j].type = "JMTXSigs"}}

CallbackInv ==
  /\ \A c \in checks : c.cbtype \in {"unconfirmed", "confirmed"}
  /\ \A t \in active_txs : t \notin unconfirm_cbs
  /\ crashes = 0 => \A t \in Signed : Done(t) \/ t \in confirm_cbs

(* A transaction that is waited for and that the monitor is not done with  *)
(* is the last one of some nick, and is recognised.                        *)
LEMMA OpenIsMatched ==
  ASSUME Shapes, OwnInv, SerialInv, NEW t \in SignedTxs, ~Done(t), t \in Waited
  PROVE  tx_match(t)
<1>1. PICK s \in sigs_sent : s.tx = t
  BY DEF SignedTxs
<1>2. s.nick \in Takers /\ TxOf(s.nick, t)
  BY <1>1 DEF Shapes, OrderShapes, TxOf
<1>3. finalized_offers[s.nick] = t
  BY <1>1 DEF SerialInv
<1>4. t # NoTx
  BY <1>2 DEF OwnInv, NoTx
<1> QED
  BY <1>2, <1>3, <1>4 DEF tx_match

(* Nobody is shown a transaction of the network twice as new.              *)
LEMMA NewIsOpen ==
  ASSUME Shapes, NetInv, NEW i \in DOMAIN net, i = seen + 1 \/ net[i].tx \in active_txs
  PROVE  ~Done(net[i].tx) /\ (i = seen + 1 => net[i].tx \notin active_txs)
<1>1. Len(net) \in Nat /\ DOMAIN net = 1..Len(net) /\ seen \in 0..Len(net)
  BY QueueIs DEF Shapes, QueueShapes
<1>2. ASSUME i = seen + 1, NEW j \in 1..seen, net[j].tx = net[i].tx PROVE FALSE
  <2>1. j \in DOMAIN net
    BY <1>1
  <2>2. j = i
    BY <1>2, <2>1 DEF NetInv
  <2> QED
    BY <1>1, <1>2, <2>2
<1> QED
  BY <1>2 DEF Done, NetInv

(* A proposal pays a new address, so the monitor does not follow it yet.   *)
LEMMA ProposalIsNew ==
  ASSUME Shapes, OwnInv, NetInv, SerialInv, NEW n \in Takers, NEW t, NEW o, TxAt(n, t, o)
  PROVE  t \notin active_txs
<1>1. SUFFICES ASSUME t \in active_txs PROVE FALSE
  OBVIOUS
<1>2. Len(net) \in Nat /\ DOMAIN net = 1..Len(net) /\ seen \in 0..Len(net)
  BY QueueIs DEF Shapes, QueueShapes
<1>3. PICK i \in 1..seen : net[i].tx = t
  BY <1>1 DEF NetInv
<1>4. i \in DOMAIN net
  BY <1>2
<1>5. PICK s \in sigs_sent : s.tx = t
  BY <1>3, <1>4 DEF NetInv, SignedTxs
<1>6. s.nick = n
  BY <1>5, ProposalIsOwn
<1>7. 1 \in DOMAIN down /\ TxFrom(down[1], n)
  BY DEF TxAt, Popped, TxFrom
<1>8. Done(t)
  BY <1>5, <1>6, <1>7 DEF SerialInv
<1> QED
  BY <1>1, <1>8 DEF Done

(* A late check finds nothing that the monitor still follows.              *)
LEMMA ChecksDropNothing ==
  ASSUME ConfirmInTime, CallbackInv, NEW c \in checks, check_callback_called(c)
  PROVE  UNCHANGED active_txs
<1>1. c.cbtype \in {"unconfirmed", "confirmed"}
  BY DEF CallbackInv
<1>2. CASE c.cbtype = "confirmed"
  BY <1>2 DEF check_callback_called
<1>3. CASE c.cbtype = "unconfirmed" /\ c.tx \notin unconfirm_cbs
  BY <1>3 DEF check_callback_called
<1>4. CASE c.cbtype = "unconfirmed" /\ c.tx \in unconfirm_cbs
  <2>1. c.tx \notin active_txs
    BY <1>4 DEF CallbackInv
  <2> QED
    BY <1>4, <2>1 DEF check_callback_called, StopsMonitoring
<1> QED
  BY <1>1, <1>2, <1>3, <1>4

LEMMA CallbackFrame ==
  ASSUME CallbackInv, crashes' = 0 => crashes = 0,
         \A t : Done(t) => Done(t)', Signed' \subseteq Signed,
         UNCHANGED <<confirm_cbs, unconfirm_cbs, checks, active_txs>>
  PROVE  CallbackInv'
BY DEF CallbackInv

LEMMA NextSigned ==
  ASSUME Shapes, [Next]_vars, ~Crash
  PROVE  Signed' \subseteq Signed \/ (on_tx_accepted /\ UNCHANGED daemonVars)
<1>0. IsQueue(up)
  BY DEF Shapes, QueueShapes
<1>1. ASSUME UNCHANGED sigs_sent, Stays(up, up', {"JMTXSigs"}) PROVE Signed' \subseteq Signed
  BY <1>1 DEF Stays, Signed, SignedTxs
<1>2. CASE ~OrderStep
  <2>1. Stays(up, up', UpTypes) /\ UNCHANGED sigs_sent
    BY <1>2, OthersLeaveOrders DEF ordersVars
  <2>2. Stays(up, up', {"JMTXSigs"})
    BY <2>1 DEF Stays, UpTypes
  <2> QED
    BY <1>1, <2>1, <2>2
<1>3. CASE on_JM_IOAUTH /\ UNCHANGED clientVars
  <2>1. UNCHANGED sigs_sent /\ Popped(up, up')
    BY <1>3, IoauthIs DEF IoauthAt
  <2> QED
    BY <1>1, <2>1, PoppedStays
<1>4. CASE on_JM_TX_SIGS /\ UNCHANGED clientVars
  <2>0. PICK n \in Takers : \E t : SigsAt(n, t)
    BY <1>4, SigsIs
  <2>1. PICK t : SigsAt(n, t)
    BY <2>0
  <2>2. /\ 1 \in DOMAIN up /\ up[1].type = "JMTXSigs" /\ up[1].tx = t
        /\ \A s \in sigs_sent' : s \in sigs_sent \/ s.tx = t
        /\ \A i \in DOMAIN up' : \E j \in DOMAIN up : up'[i] = up[j]
    BY <2>1 DEF SigsAt, Popped
  <2> QED
    BY <2>2 DEF Signed, SignedTxs
<1>5. CASE /\ UNCHANGED clientVars
           /\ \E n \in Takers, a \in Amounts, c \in Commits : on_order_fill(n, a, c)
  <2>1. UNCHANGED <<up, sigs_sent>>
    BY <1>5, FillIs DEF FillAt
  <2> QED
    BY <1>0, <1>1, <2>1, SameStays
<1>6. CASE UNCHANGED clientVars /\ \E n \in Takers : on_seen_auth(n)
  <2>1. UNCHANGED <<up, sigs_sent>>
    BY <1>6, SeenAuthIs DEF SeenAuthAt
  <2> QED
    BY <1>0, <1>1, <2>1, SameStays
<1>7. CASE UNCHANGED clientVars /\ TakerProposes
  <2>1. UNCHANGED <<up, sigs_sent>>
    BY <1>7, ProposeIs DEF ProposeAt
  <2> QED
    BY <1>0, <1>1, <2>1, SameStays
<1>8. CASE on_auth_accepted /\ UNCHANGED daemonVars
  <2>0. PICK n \in Takers : \E g, md : AuthAt(n, g, md)
    BY <1>8, AuthIs
  <2>1. PICK g, md : AuthAt(n, g, md)
    BY <2>0
  <2>2. PICK m : Pushed(up, up', m) /\ m.type = "JMIOAuth"
    BY <2>1 DEF AuthAt
  <2> QED
    BY <1>1, <1>8, <2>2, PushedStays DEF daemonVars
<1> QED
  BY <1>2, <1>3, <1>4, <1>5, <1>6, <1>7, <1>8 DEF OrderStep

LEMMA NextCallback ==
  ASSUME ConfirmInTime
  PROVE  /\ Shapes /\ OwnInv /\ NetInv /\ SerialInv /\ CallbackInv /\ [Next]_vars
         => CallbackInv'
<1> SUFFICES ASSUME Shapes, OwnInv, NetInv, SerialInv, CallbackInv, [Next]_vars
             PROVE  CallbackInv'
  OBVIOUS
<1>0. /\ crashes \in Nat /\ DOMAIN net = 1..Len(net) /\ Len(net) \in Nat
      /\ seen \in 0..Len(net)
  BY QueueIs DEF Shapes, QueueShapes
<1>1. CASE Crash
  BY <1>0, <1>1 DEF Crash, ClientRestart, CallbackInv
<1> SUFFICES ASSUME ~Crash PROVE CallbackInv'
  BY <1>1
<1>2. crashes' = crashes
  BY OnlyCrashesCount
<1>3. \A t : Done(t) => Done(t)'
  BY DoneStays
<1>5. CASE on_tx_accepted /\ UNCHANGED daemonVars
  <2>0. PICK n \in Takers : \E t, o : TxAt(n, t, o)
    BY <1>5, TxIs
  <2>1. PICK t, o : TxAt(n, t, o)
    BY <2>0
  <2>2. /\ unconfirm_cbs' = unconfirm_cbs \cup {t} /\ confirm_cbs' = confirm_cbs \cup {t}
        /\ checks' = checks \cup {[tx |-> t, cbtype |-> "unconfirmed"]}
        /\ UNCHANGED <<active_txs, sigs_sent>>
        /\ \A i \in DOMAIN up' : \/ i \in DOMAIN up /\ up'[i] = up[i]
                                 \/ up'[i] = [type |-> "JMTXSigs", nick |-> n, tx |-> t]
    BY <2>1 DEF TxAt, daemonVars, Pushed
  <2>3. Signed' \subseteq Signed \cup {t}
    BY <2>2 DEF Signed, SignedTxs
  <2>4. t \notin active_txs
    BY <2>1, ProposalIsNew
  <2>5. \A c \in checks' : c.cbtype \in {"unconfirmed", "confirmed"}
    BY <2>2 DEF CallbackInv
  <2> QED
    BY <1>2, <1>3, <2>2, <2>3, <2>4, <2>5 DEF CallbackInv
<1> SUFFICES ASSUME ~(on_tx_accepted /\ UNCHANGED daemonVars) PROVE CallbackInv'
  BY <1>5
<1>6. Signed' \subseteq Signed
  BY NextSigned
<1>7. CASE ~CallbackStep
  BY <1>2, <1>3, <1>6, <1>7, OthersLeaveCallbacks, CallbackFrame
<1>8. ASSUME NEW c \in checks, check_callback_called(c) PROVE CallbackInv'
  <2>1. c.cbtype \in {"unconfirmed", "confirmed"} /\ checks' \subseteq checks
    BY <1>8 DEF CallbackInv, check_callback_called
  <2>2. c.cbtype = "confirmed" => c.tx \notin confirm_cbs
    BY <1>8 DEF check_callback_called
  <2>3. UNCHANGED confirm_cbs
    BY <1>8, <2>1, <2>2 DEF check_callback_called
  <2>4. active_txs' \subseteq active_txs /\ unconfirm_cbs' \subseteq unconfirm_cbs
    BY <1>8 DEF check_callback_called, StopsMonitoring
  <2> QED
    BY <1>2, <1>3, <1>6, <2>1, <2>3, <2>4 DEF CallbackInv
<1>9. ASSUME NEW i \in DOMAIN net, monitor_unconfirmed(i) PROVE CallbackInv'
  <2>1. PICK t : t = net[i].tx
    OBVIOUS
  <2>2. i = seen + 1 /\ t \in SignedTxs
    BY <1>9, <2>1 DEF monitor_unconfirmed, IsNew, NetInv
  <2>3. t \in unconfirm_cbs => tx_match(t)
    BY <2>1, <2>2, NewIsOpen, OpenIsMatched DEF Waited
  <2>4. /\ UNCHANGED confirm_cbs
        /\ checks' = checks \/ checks' = checks \cup {[tx |-> t, cbtype |-> "confirmed"]}
        /\ unconfirm_cbs' \subseteq unconfirm_cbs
    BY <1>9, <2>1 DEF monitor_unconfirmed, CallbackRaises, cbVars
  <2>5. \/ UNCHANGED <<active_txs, unconfirm_cbs>>
        \/ active_txs' = active_txs \cup {t} /\ unconfirm_cbs' = unconfirm_cbs \ {t}
        \/ /\ active_txs' = active_txs \cup {t} /\ UNCHANGED unconfirm_cbs
           /\ ~(t \in unconfirm_cbs /\ tx_match(t))
    BY <1>9, <2>1 DEF monitor_unconfirmed, CallbackRaises, cbVars
  <2>6. \A x \in active_txs' : x \notin unconfirm_cbs'
    BY <2>3, <2>5 DEF CallbackInv
  <2>7. \A c \in checks' : c.cbtype \in {"unconfirmed", "confirmed"}
    BY <2>4 DEF CallbackInv
  <2> QED
    BY <1>2, <1>3, <1>6, <2>4, <2>6, <2>7 DEF CallbackInv
<1>10. ASSUME NEW i \in DOMAIN net, monitor_confirmed(i) PROVE CallbackInv'
  <2>1. PICK t : t = net[i].tx
    OBVIOUS
  <2>2. UNCHANGED <<unconfirm_cbs, checks, net>> /\ active_txs' \subseteq active_txs
    BY <1>10 DEF monitor_confirmed, CallbackRaises, cbVars
  <2>3. \/ UNCHANGED confirm_cbs
        \/ confirm_cbs' = confirm_cbs \ {t} /\ active_txs' = active_txs \ {t}
    BY <1>10, <2>1 DEF monitor_confirmed, CallbackRaises, cbVars
  <2>4. confirm_cbs' = confirm_cbs \ {t} /\ active_txs' = active_txs \ {t} => Done(t)'
    <3>1. i \in 1..seen'
      <4>1. CASE i = seen + 1
        <5>1. seen' = seen + 1
          BY <1>10, <4>1 DEF monitor_confirmed, IsNew
        <5> QED
          BY <1>0, <4>1, <5>1
      <4>2. CASE i # seen + 1
        <5>1. seen' = seen /\ t \in active_txs
          BY <1>10, <2>1, <4>2 DEF monitor_confirmed, IsNew
        <5>2. PICK j \in 1..seen : net[j].tx = t
          BY <5>1 DEF NetInv
        <5>3. j \in DOMAIN net
          BY <1>0
        <5> QED
          BY <2>1, <5>1, <5>2, <5>3 DEF NetInv
      <4> QED
        BY <4>1, <4>2
    <3>2. net'[i].tx = t /\ net'[i].conf
      BY <1>10, <2>1, <2>2 DEF monitor_confirmed
    <3> QED
      BY <3>1, <3>2 DEF Done
  <2> QED
    BY <1>2, <1>3, <1>6, <2>2, <2>3, <2>4 DEF CallbackInv
<1> QED
  BY <1>7, <1>8, <1>9, <1>10 DEF CallbackStep

(* There is one offer at most, and while nothing is waited for it is the   *)
(* one that the wallet allows.                                             *)
OneOffer(offers) ==
  /\ \A o \in offers : o.oid = 0
  /\ \A o, p \in offers : o = p

FollowInv ==
  crashes = 0 =>
    /\ OneOffer(offerlist)
    /\ \/ orders_loop
       \/ ~monitoring
       \/ offerlist = create_my_orders(wallet)
       \/ active_txs # {}

LEMMA OrdersAreOne == ASSUME NEW w PROVE OneOffer(create_my_orders(w))
BY DEF create_my_orders, OneOffer

(* Announcing and cancelling the differences leads to the new offers.      *)
LEMMA ModifiedOffers ==
  ASSUME NEW w, OneOffer(offerlist)
  PROVE  modify_orders(ToCancel(w), ToAnnounce(w)) = create_my_orders(w)
<1>1. PICK new : new = create_my_orders(w)
  OBVIOUS
<1>2. OneOffer(new)
  BY <1>1, OrdersAreOne
<1>3. modify_orders(ToCancel(w), ToAnnounce(w)) =
        {o \in offerlist : o.oid \notin (Oids(offerlist) \ Oids(new)) \cup Oids(new \ offerlist)}
          \cup (new \ offerlist)
  BY <1>1 DEF modify_orders, ToCancel, ToAnnounce
<1>4. ASSUME NEW o \in offerlist
      PROVE  o.oid \notin (Oids(offerlist) \ Oids(new)) \cup Oids(new \ offerlist) <=> o \in new
  <2>1. CASE o \in new
    <3>1. o.oid \in Oids(new)
      BY <2>1 DEF Oids
    <3>2. new \ offerlist = {}
      BY <1>2, <2>1 DEF OneOffer
    <3> QED
      BY <2>1, <3>1, <3>2 DEF Oids
  <2>2. CASE o \notin new
    <3>1. CASE new = {}
      BY <2>2, <3>1 DEF Oids
    <3>2. CASE new # {}
      <4>1. PICK p \in new : TRUE
        BY <3>2
      <4>2. p \notin offerlist /\ p.oid = o.oid
        BY <1>2, <2>2 DEF OneOffer
      <4> QED
        BY <2>2, <4>1, <4>2 DEF Oids
    <3> QED
      BY <3>1, <3>2
  <2> QED
    BY <2>1, <2>2
<1> QED
  BY <1>1, <1>3, <1>4

LEMMA UpdatedOffers ==
  ASSUME NEW w, OneOffer(offerlist), UpdateOffers(w)
  PROVE  offerlist' = create_my_orders(w)
BY ModifiedOffers DEF UpdateOffers

FollowStep ==
  \/ try_to_create_my_orders
  \/ \E i \in DOMAIN net : monitor_unconfirmed(i) \/ monitor_confirmed(i)
  \/ \E c \in checks : check_callback_called(c)

LEMMA OthersLeaveOffers ==
  ASSUME [Next]_vars, ~Crash, ~FollowStep
  PROVE  UNCHANGED <<offerlist, orders_loop, monitoring, wallet, active_txs>>
<1> USE DEF clientVars, cbVars, walletVars, startVars
<1>1. CASE ClientHandles
  BY <1>1 DEF ClientHandles, on_JM_UP, on_auth_accepted, on_auth_refused,
              on_tx_accepted, on_tx_refused, on_JM_TX_BROADCAST
<1>2. CASE Loops
  BY <1>2 DEF Loops, FollowStep, submitOffers
<1> QED
  BY <1>1, <1>2 DEF Next, vars

LEMMA NextFollow ==
  ASSUME ConfirmInTime
  PROVE  /\ Shapes /\ OwnInv /\ NetInv /\ SerialInv /\ CallbackInv /\ FollowInv /\ [Next]_vars
         => FollowInv'
<1> SUFFICES ASSUME Shapes, OwnInv, NetInv, SerialInv, CallbackInv, FollowInv, [Next]_vars,
                    crashes' = 0
             PROVE  FollowInv'
  BY DEF FollowInv
<1>1. ~Crash /\ (crashes = 0)
  <2>1. ~Crash
    BY DEF Crash, Shapes, QueueShapes
  <2>2. crashes' = crashes
    BY <2>1, OnlyCrashesCount
  <2> QED
    BY <2>1, <2>2
<1>2. /\ OneOffer(offerlist)
      /\ orders_loop \/ ~monitoring \/ offerlist = create_my_orders(wallet) \/ active_txs # {}
  BY <1>1 DEF FollowInv
<1>3. CASE ~FollowStep
  <2>1. UNCHANGED <<offerlist, orders_loop, monitoring, wallet, active_txs>>
    BY <1>1, <1>3, OthersLeaveOffers
  <2>2. create_my_orders(wallet)' = create_my_orders(wallet)
    BY <2>1 DEF create_my_orders, MaxBalance, MaxSize, MixBalance
  <2>3. OneOffer(offerlist)'
    BY <1>2, <2>1
  <2> QED
    BY <1>2, <2>1, <2>2, <2>3 DEF FollowInv
<1>4. CASE try_to_create_my_orders
  <2>1. PICK w : w = wallet
    OBVIOUS
  <2>2. offerlist' = create_my_orders(w) /\ wallet' = w
    BY <1>4, <2>1 DEF try_to_create_my_orders, walletVars
  <2>3. create_my_orders(wallet)' = create_my_orders(w)
    BY <2>2 DEF create_my_orders, MaxBalance, MaxSize, MixBalance
  <2> QED
    BY <2>2, <2>3, OrdersAreOne DEF FollowInv
<1>5. ASSUME NEW c \in checks, check_callback_called(c) PROVE FollowInv'
  <2>1. UNCHANGED <<offerlist, orders_loop, monitoring, wallet>>
    BY <1>5 DEF check_callback_called, startVars
  <2>2. UNCHANGED active_txs
    BY <1>5, ChecksDropNothing
  <2>3. create_my_orders(wallet)' = create_my_orders(wallet)
    BY <2>1 DEF create_my_orders, MaxBalance, MaxSize, MixBalance
  <2>4. OneOffer(offerlist)'
    BY <1>2, <2>1
  <2> QED
    BY <1>2, <2>1, <2>2, <2>3, <2>4 DEF FollowInv
<1>6. ASSUME NEW w, wallet' = w, UpdateOffers(w) PROVE FollowInv'
  <2>1. offerlist' = create_my_orders(w)
    BY <1>2, <1>6, UpdatedOffers
  <2>2. create_my_orders(wallet)' = create_my_orders(w)
    BY <1>6 DEF create_my_orders, MaxBalance, MaxSize, MixBalance
  <2> QED
    BY <2>1, <2>2, OrdersAreOne DEF FollowInv
<1>7. ASSUME UNCHANGED offerlist, ~monitoring' \/ active_txs' # {} PROVE FollowInv'
  BY <1>2, <1>7 DEF FollowInv
<1>8. ASSUME NEW i \in DOMAIN net, monitor_unconfirmed(i) PROVE FollowInv'
  <2>1. PICK w : w = process_new_tx(net[i].tx, FALSE)
    OBVIOUS
  <2>2. \/ UNCHANGED offerlist /\ (~monitoring' \/ active_txs' # {})
        \/ wallet' = w /\ UpdateOffers(w)
    BY <1>8, <2>1 DEF monitor_unconfirmed, CallbackRaises
  <2> QED
    BY <1>6, <1>7, <2>2
<1>9. ASSUME NEW i \in DOMAIN net, monitor_confirmed(i) PROVE FollowInv'
  <2>1. PICK t, w : t = net[i].tx /\ w = process_new_tx(t, TRUE)
    OBVIOUS
  <2>2. i = seen + 1 \/ t \in active_txs
    BY <1>9, <2>1 DEF monitor_confirmed, IsNew
  <2>3. ~Done(t) /\ t \in SignedTxs
    BY <2>1, <2>2, NewIsOpen DEF NetInv
  <2>4. tx_match(t) /\ t \in confirm_cbs
    BY <1>1, <2>3, OpenIsMatched DEF CallbackInv, Signed, Waited
  <2>5. \/ UNCHANGED offerlist /\ ~monitoring'
        \/ wallet' = w /\ UpdateOffers(w)
    BY <1>9, <2>1, <2>4 DEF monitor_confirmed, CallbackRaises
  <2> QED
    BY <1>6, <1>7, <2>5
<1> QED
  BY <1>3, <1>4, <1>5, <1>8, <1>9 DEF FollowStep

LEMMA OffersAreFollowed ==
  Shapes /\ NetInv /\ FollowInv => OffersFollowWallet
<1> SUFFICES ASSUME Shapes, NetInv, FollowInv, crashes = 0, MonitorIdle,
                    \A i \in DOMAIN net : net[i].conf, ~orders_loop
             PROVE  offerlist = create_my_orders(wallet)
  BY DEF OffersFollowWallet
<1>1. Len(net) \in Nat /\ DOMAIN net = 1..Len(net) /\ seen \in 0..Len(net)
  BY QueueIs DEF Shapes, QueueShapes
<1>2. ASSUME NEW t \in active_txs PROVE FALSE
  <2>1. PICK i \in 1..seen : net[i].tx = t
    BY DEF NetInv
  <2>2. i \in DOMAIN net
    BY <1>1
  <2> QED
    BY <1>2, <2>1, <2>2 DEF MonitorIdle
<1> QED
  BY <1>2 DEF FollowInv, MonitorIdle

(***************************************************************************)
(* Every address is paid once                                              *)
(***************************************************************************)

Pays(t, a) == \E i \in DOMAIN t.outs : t.outs[i][1] = a

(* A grant that a transaction may still be signed for: the one of the      *)
(* current !fill until its proposal, or that of a proposal on its way.     *)
FreshFor(n, g) ==
  \/ /\ HasOrder(n)
     /\ \E i \in DOMAIN up : IoauthFor(up[i], n, active_orders[n].fill) /\ up[i].grant = g
  \/ \E i \in DOMAIN down : TxFrom(down[i], n) /\ down[i].offer.grant = g
  \/ /\ HasOrder(n) /\ ~active_orders[n].proposed /\ active_orders[n].grant = g
     /\ g.fill = active_orders[n].fill

(* Nothing signed pays an address of a fresh grant, and two transactions   *)
(* we signed have no address in common.                                    *)
OnceInv ==
  \A n \in Takers :
    /\ \A g : FreshFor(n, g) =>
         \A t : TxOf(n, t) => ~Pays(t, g.cjaddr) /\ ~Pays(t, g.changeaddr)
    /\ \A t : \A u : TxOf(n, t) /\ TxOf(n, u) => \A a : Pays(t, a) /\ Pays(u, a) => t = u

(* Only the client's answer to an !auth is a new fresh grant.              *)
LEMMA NextFresh ==
  ASSUME Shapes, [Next]_vars, NEW k \in Takers, NEW h, FreshFor(k, h)'
  PROVE  FreshFor(k, h) \/ \E md : AuthAt(k, h, md)
<1> USE DEF clientVars, walletVars
<1>0. fills \in Nat
  BY DEF Shapes, QueueShapes
<1>1. CASE ~OrderStep /\ ~Crash
  <2>1. /\ \A i \in DOMAIN up' : up'[i].type \in UpTypes => \E j \in DOMAIN up : up[j] = up'[i]
        /\ \A i \in DOMAIN down' : down'[i].type \in DownTypes =>
             \E j \in DOMAIN down : down[j] = down'[i]
        /\ UNCHANGED active_orders
    BY <1>1, OthersLeaveOrders DEF ordersVars, Stays
  <2> QED
    BY <2>1 DEF FreshFor, UpTypes, DownTypes, IoauthFor, TxFrom, HasOrder
<1>2. CASE Crash
  <2>1. /\ DOMAIN up' = {} /\ DOMAIN down' = {1} /\ down'[1].type = "JMUp"
        /\ ~HasOrder(k)'
    BY <1>2 DEF Crash, HasOrder
  <2> QED
    BY <2>1 DEF FreshFor, TxFrom
<1>3. CASE on_JM_IOAUTH /\ UNCHANGED clientVars
  <2>0. PICK n \in Takers : \E g : IoauthAt(n, g)
    BY <1>3, IoauthIs
  <2>1. PICK g : IoauthAt(n, g)
    BY <2>0
  <2>2. /\ \A i \in DOMAIN up' : \E j \in DOMAIN up : up[j] = up'[i]
        /\ 1 \in DOMAIN up /\ up[1].type = "JMIOAuth" /\ up[1].nick = n /\ up[1].grant = g
        /\ UNCHANGED down /\ HasOrder(n)
    BY <2>1 DEF IoauthAt, Popped
  <2>3. CASE k # n
    <3>1. active_orders'[k] = active_orders[k]
      BY <2>1, <2>3 DEF IoauthAt, OthersSame
    <3> QED
      BY <2>2, <3>1 DEF FreshFor, HasOrder, IoauthFor, TxFrom
  <2>4. CASE k = n
    <3>1. /\ active_orders'[n].fill = active_orders[n].fill
          /\ active_orders'[n].grant = g
      BY <2>1 DEF IoauthAt, WithGrant
    <3> QED
      BY <2>2, <2>4, <3>1 DEF FreshFor, IoauthFor, TxFrom
  <2> QED
    BY <2>3, <2>4
<1>4. CASE on_JM_TX_SIGS /\ UNCHANGED clientVars
  <2>0. PICK n \in Takers : \E t : SigsAt(n, t)
    BY <1>4, SigsIs
  <2>1. PICK t : SigsAt(n, t)
    BY <2>0
  <2>2. /\ \A i \in DOMAIN up' : \E j \in DOMAIN up : up[j] = up'[i]
        /\ UNCHANGED <<down, active_orders>>
    BY <2>1 DEF SigsAt, Popped
  <2> QED
    BY <2>2 DEF FreshFor, HasOrder, IoauthFor, TxFrom
<1>5. CASE /\ UNCHANGED clientVars
           /\ \E n \in Takers, a \in Amounts, c \in Commits : on_order_fill(n, a, c)
  <2>0. PICK n \in Takers : \E p : FillAt(n, p)
    BY <1>5, FillIs
  <2>1. PICK p : FillAt(n, p)
    BY <2>0
  <2>2. UNCHANGED <<up, down>>
    BY <2>1 DEF FillAt
  <2>3. CASE k # n
    <3>1. active_orders'[k] = active_orders[k]
      BY <2>1, <2>3 DEF FillAt, OthersSame
    <3> QED
      BY <2>2, <3>1 DEF FreshFor, HasOrder, IoauthFor, TxFrom
  <2>4. CASE k = n
    <3>1. active_orders'[n].fill = fills + 1 /\ active_orders'[n].grant.fill = 0
      BY <2>1 DEF FillAt, Order, NoGrant
    <3>2. \A i \in DOMAIN up : up[i].type = "JMIOAuth" => up[i].grant.fill # fills + 1
      BY <1>0 DEF Shapes, MessageShapes, UpFine
    <3> QED
      BY <1>0, <2>2, <2>4, <3>1, <3>2 DEF FreshFor, IoauthFor, TxFrom
  <2> QED
    BY <2>3, <2>4
<1>6. CASE UNCHANGED clientVars /\ \E n \in Takers : on_seen_auth(n)
  <2>0. PICK n \in Takers : \E m, o : SeenAuthAt(n, m, o)
    BY <1>6, SeenAuthIs
  <2>1. PICK m, o : SeenAuthAt(n, m, o)
    BY <2>0
  <2>2. /\ UNCHANGED up
        /\ \A i \in DOMAIN down' : down'[i].type = "JMAuthReceived" \/ \E j \in DOMAIN down : down[j] = down'[i]
    BY <2>1 DEF SeenAuthAt, Pushed
  <2>3. CASE k # n
    <3>1. active_orders'[k] = active_orders[k]
      BY <2>1, <2>3 DEF SeenAuthAt, OthersSame
    <3> QED
      BY <2>2, <3>1 DEF FreshFor, HasOrder, IoauthFor, TxFrom
  <2>4. CASE k = n
    <3>1. /\ active_orders'[n].fill = active_orders[n].fill /\ HasOrder(n)
          /\ active_orders'[n].grant = active_orders[n].grant
          /\ active_orders'[n].proposed = active_orders[n].proposed
      BY <2>1 DEF SeenAuthAt
    <3> QED
      BY <2>2, <2>4, <3>1 DEF FreshFor, IoauthFor, TxFrom
  <2> QED
    BY <2>3, <2>4
<1>7. CASE UNCHANGED clientVars /\ TakerProposes
  <2>0. PICK n \in Takers : \E m, o : ProposeAt(n, m, o)
    BY <1>7, ProposeIs
  <2>1. PICK m, o : ProposeAt(n, m, o)
    BY <2>0
  <2>2. /\ UNCHANGED up /\ m.nick = n /\ m.offer.grant = active_orders[n].grant
        /\ \A i \in DOMAIN down' : down'[i] = m \/ \E j \in DOMAIN down : down[j] = down'[i]
    BY <2>1 DEF ProposeAt, Pushed
  <2>3. CASE k # n
    <3>1. active_orders'[k] = active_orders[k]
      BY <2>1, <2>3 DEF ProposeAt, OthersSame
    <3> QED
      BY <2>2, <2>3, <3>1 DEF FreshFor, HasOrder, IoauthFor, TxFrom
  <2>4. CASE k = n
    <3>1. /\ active_orders'[n].fill = active_orders[n].fill /\ HasOrder(n)
          /\ active_orders'[n].proposed = TRUE
          /\ ~active_orders[n].proposed
          /\ active_orders[n].grant.fill = active_orders[n].fill
      BY <2>1 DEF ProposeAt
    <3> QED
      BY <2>2, <2>4, <3>1 DEF FreshFor, IoauthFor, TxFrom
  <2> QED
    BY <2>3, <2>4
<1>8. CASE on_auth_accepted /\ UNCHANGED daemonVars
  <2>0. PICK n \in Takers : \E g, md : AuthAt(n, g, md)
    BY <1>8, AuthIs
  <2>1. PICK g, md : AuthAt(n, g, md)
    BY <2>0
  <2>2. /\ \A i \in DOMAIN up' : \/ \E j \in DOMAIN up : up[j] = up'[i]
                                 \/ up'[i] = [type |-> "JMIOAuth", nick |-> n, grant |-> g]
        /\ \A i \in DOMAIN down' : \E j \in DOMAIN down : down[j] = down'[i]
        /\ UNCHANGED active_orders
    BY <2>1 DEF AuthAt, Pushed, Popped, daemonVars
  <2>3. FreshFor(k, h) \/ (k = n /\ h = g)
    BY <2>2 DEF FreshFor, HasOrder, IoauthFor, TxFrom
  <2> QED
    BY <2>1, <2>3
<1>9. CASE on_tx_accepted /\ UNCHANGED daemonVars
  <2>0. PICK n \in Takers : \E t, o : TxAt(n, t, o)
    BY <1>9, TxIs
  <2>1. PICK t, o : TxAt(n, t, o)
    BY <2>0
  <2>2. /\ \A i \in DOMAIN up' : \/ \E j \in DOMAIN up : up[j] = up'[i]
                                 \/ up'[i].type = "JMTXSigs"
        /\ \A i \in DOMAIN down' : \E j \in DOMAIN down : down[j] = down'[i]
        /\ UNCHANGED active_orders
    BY <2>1 DEF TxAt, Pushed, Popped, daemonVars
  <2> QED
    BY <2>2 DEF FreshFor, HasOrder, IoauthFor, TxFrom
<1> QED
  BY <1>1, <1>2, <1>3, <1>4, <1>5, <1>6, <1>7, <1>8, <1>9 DEF OrderStep

(* The grant of a proposal is the only fresh one of its nick, and is no    *)
(* longer fresh once the proposal is signed.                               *)
LEMMA NoneIsFresh ==
  ASSUME Shapes, FillOrder, SerialInv, NEW n \in Takers, NEW t, NEW o, TxAt(n, t, o), NEW h
  PROVE  FreshFor(n, o.grant) /\ ~FreshFor(n, h)'
<1>1. /\ 1 \in DOMAIN down /\ TxFrom(down[1], n) /\ down[1].offer = o
      /\ UNCHANGED active_orders
      /\ \A i \in DOMAIN up' : \/ \E j \in DOMAIN up : up[j] = up'[i]
                               \/ up'[i].type = "JMTXSigs"
      /\ \A i \in DOMAIN down' : /\ i \in Nat /\ i + 1 \in DOMAIN down /\ i + 1 # 1
                                 /\ down[i + 1] = down'[i]
  BY DEF TxAt, Pushed, Popped, TxFrom, daemonVars
<1>2. \A i \in DOMAIN down' : ~TxFrom(down'[i], n)
  BY <1>1 DEF SerialInv
<1>3. ASSUME HasOrder(n)
      PROVE  /\ \A i \in DOMAIN up' : ~IoauthFor(up'[i], n, active_orders[n].fill)
             /\ active_orders[n].grant.fill = active_orders[n].fill => active_orders[n].proposed
  <2>1. InOrder(n, active_orders[n])
    BY <1>3 DEF FillOrder
  <2>2. \A i \in DOMAIN up : ~IoauthFor(up[i], n, active_orders[n].fill)
    BY <1>1, <2>1 DEF InOrder, IoauthsInOrder
  <2>3. \A i \in DOMAIN up' : ~IoauthFor(up'[i], n, active_orders[n].fill)
    BY <1>1, <2>2 DEF IoauthFor
  <2> QED
    BY <1>1, <2>1, <2>3 DEF InOrder, GrantInOrder
<1> QED
  BY <1>1, <1>2, <1>3 DEF FreshFor, HasOrder

LEMMA NextOnce ==
  /\ IndexInv /\ IndexInv' /\ Shapes /\ OwnInv /\ FillOrder /\ SerialInv /\ OnceInv
  /\ [Next]_vars
  => OnceInv'
<1> SUFFICES ASSUME IndexInv, IndexInv', Shapes, OwnInv, FillOrder, SerialInv, OnceInv,
                    [Next]_vars, NEW k \in Takers
             PROVE  /\ \A h : FreshFor(k, h)' => \A x : TxOf(k, x)' =>
                         ~Pays(x, h.cjaddr) /\ ~Pays(x, h.changeaddr)
                    /\ \A x : \A y : TxOf(k, x)' /\ TxOf(k, y)' =>
                         \A a : Pays(x, a) /\ Pays(y, a) => x = y
  BY DEF OnceInv, Pays
<1>1. ASSUME NEW h, FreshFor(k, h)', NEW x, TxOf(k, x)
      PROVE  ~Pays(x, h.cjaddr) /\ ~Pays(x, h.changeaddr)
  <2>1. CASE FreshFor(k, h)
    BY <1>1, <2>1 DEF OnceInv
  <2>2. ASSUME NEW md, AuthAt(k, h, md) PROVE ~Pays(x, h.cjaddr) /\ ~Pays(x, h.changeaddr)
    <3>1. \A a : Pays(x, a) => AddressOf(k, a)
      BY <1>1 DEF AddressOf, Pays
    <3> QED
      BY <2>2, <3>1, GrantIsNew
  <2> QED
    BY <1>1, <2>1, <2>2, NextFresh
<1>2. CASE NoNewTx
  BY <1>1, <1>2 DEF NoNewTx, OnceInv
<1>3. ASSUME NEW n \in Takers, NEW t, NEW o, NewTx(n, t, o)
      PROVE  /\ \A h : FreshFor(k, h)' => \A x : TxOf(k, x)' =>
                  ~Pays(x, h.cjaddr) /\ ~Pays(x, h.changeaddr)
             /\ \A x : \A y : TxOf(k, x)' /\ TxOf(k, y)' =>
                  \A a : Pays(x, a) /\ Pays(y, a) => x = y
  <2>1. /\ TxAt(n, t, o) /\ \A x : TxOf(k, x)' => TxOf(k, x) \/ (k = n /\ x = t)
        /\ PaysOnly(t, o.grant)
    BY <1>3 DEF NewTx, OwnInv, TxAt
  <2>2. FreshFor(n, o.grant) /\ \A h : ~FreshFor(n, h)'
    BY <2>1, NoneIsFresh
  <2>3. \A x : TxOf(n, x) => \A a : Pays(t, a) => ~Pays(x, a)
    BY <2>1, <2>2 DEF OnceInv, PaysOnly, Pays
  <2>4. \A h : FreshFor(k, h)' => \A x : TxOf(k, x)' =>
           ~Pays(x, h.cjaddr) /\ ~Pays(x, h.changeaddr)
    BY <1>1, <2>1, <2>2
  <2>5. \A x : \A y : TxOf(k, x)' /\ TxOf(k, y)' => \A a : Pays(x, a) /\ Pays(y, a) => x = y
    BY <2>1, <2>3 DEF OnceInv
  <2> QED
    BY <2>4, <2>5
<1> QED
  BY <1>2, <1>3, NextOwnMoves DEF OwnMoves

LEMMA SignedPaysOnce ==
  ASSUME Shapes, OwnInv, OnceInv, NEW t \in SignedTxs, NEW u \in SignedTxs, NEW a,
         Pays(t, a), Pays(u, a)
  PROVE  t = u
<1>1. PICK r \in sigs_sent : r.tx = t
  BY DEF SignedTxs
<1>2. PICK s \in sigs_sent : s.tx = u
  BY DEF SignedTxs
<1>3. /\ r.nick \in Takers /\ TxOf(r.nick, t) /\ AddressOf(r.nick, a)
      /\ s.nick \in Takers /\ TxOf(s.nick, u) /\ AddressOf(s.nick, a)
  BY <1>1, <1>2 DEF Shapes, OrderShapes, TxOf, AddressOf, Pays
<1>4. r.nick = s.nick
  BY <1>3 DEF OwnInv
<1> QED
  BY <1>3, <1>4 DEF OnceInv

(* An address is no coin that the wallet had at the start.                 *)
LEMMA SignedPaysAddresses ==
  ASSUME IndexInv, Shapes, OwnInv, NEW t \in SignedTxs, NEW a, Pays(t, a)
  PROVE  a \notin Coins
<1>1. PICK r \in sigs_sent : r.tx = t
  BY DEF SignedTxs
<1>2. r.nick \in Takers /\ AddressOf(r.nick, a)
  BY <1>1 DEF Shapes, OrderShapes, TxOf, AddressOf, Pays
<1>3. PICK i \in DOMAIN given_out : given_out[i] = a
  BY <1>2 DEF OwnInv
<1>4. a \in Mixdepths \X Nat
  BY <1>3 DEF IndexInv
<1>5. a[2] \in Nat
  BY <1>4
<1> QED
  BY <1>5, MakerAssumption

(***************************************************************************)
(* The wallet is what it was shown                                         *)
(***************************************************************************)

(* The monitor is shown transaction i, as confirmed or not.  If the        *)
(* callback for it raises, that was its last round.                        *)
Shows(i, b) ==
  /\ i \in DOMAIN net /\ monitoring /\ net[i].conf = b
  /\ \/ i = seen + 1 /\ seen' = seen + 1
     \/ i \in 1..seen /\ net[i].tx \in active_txs /\ seen' = seen /\ b
  /\ wallet' = process_new_tx(net[i].tx, b)
  /\ UNCHANGED net
  /\ \/ ~monitoring' /\ UNCHANGED active_txs
     \/ /\ monitoring'
        /\ active_txs' = IF b THEN active_txs \ {net[i].tx} ELSE active_txs \cup {net[i].tx}

LEMMA NextWallet ==
  ASSUME ConfirmInTime, Shapes, OwnInv, NetInv, SerialInv, CallbackInv, [Next]_vars, ~Crash
  PROVE  \/ UNCHANGED <<wallet, seen, active_txs, monitoring>>
         \/ \E i \in DOMAIN net, b \in BOOLEAN : Shows(i, b)
<1> USE DEF clientVars, walletVars
<1>1. ASSUME NEW i \in DOMAIN net, monitor_unconfirmed(i) PROVE Shows(i, FALSE)
  <2>1. net[i].conf = FALSE
    BY <1>1 DEF monitor_unconfirmed, NetInv
  <2>2. \/ monitoring' = FALSE /\ UNCHANGED active_txs
        \/ UNCHANGED monitoring /\ active_txs' = active_txs \cup {net[i].tx}
    BY <1>1 DEF monitor_unconfirmed, CallbackRaises
  <2> QED
    BY <1>1, <2>1, <2>2 DEF monitor_unconfirmed, IsNew, Shows
<1>2. ASSUME NEW i \in DOMAIN net, monitor_confirmed(i) PROVE Shows(i, TRUE)
  <2>0. PICK t : t = net[i].tx
    OBVIOUS
  <2>1. net[i].conf = TRUE /\ t \in SignedTxs
    BY <1>2, <2>0 DEF monitor_confirmed, NetInv
  <2>2. i = seen + 1 \/ t \in active_txs
    BY <1>2, <2>0 DEF monitor_confirmed, IsNew
  <2>3. ~Done(t)
    BY <2>0, <2>2, NewIsOpen
  <2>4. t \in confirm_cbs => tx_match(t)
    BY <2>1, <2>3, OpenIsMatched DEF Waited
  <2>5. \/ monitoring' = FALSE /\ UNCHANGED active_txs
        \/ UNCHANGED monitoring /\ active_txs' = active_txs \ {t}
    BY <1>2, <2>0, <2>4 DEF monitor_confirmed, CallbackRaises
  <2>6. i # seen + 1 => i \in 1..seen
    <3>1. SUFFICES ASSUME i # seen + 1 PROVE i \in 1..seen
      OBVIOUS
    <3>2. PICK j \in 1..seen : net[j].tx = t
      BY <2>2, <3>1 DEF NetInv
    <3>3. j \in DOMAIN net
      BY QueueIs DEF Shapes, QueueShapes
    <3> QED
      BY <2>0, <3>2, <3>3 DEF NetInv
  <2>7. /\ monitoring /\ UNCHANGED net /\ wallet' = process_new_tx(t, TRUE)
        /\ seen' = IF i = seen + 1 THEN seen + 1 ELSE seen
    BY <1>2, <2>0 DEF monitor_confirmed, IsNew
  <2> QED
    BY <2>0, <2>1, <2>2, <2>5, <2>6, <2>7 DEF Shows
<1>3. ASSUME NEW c \in checks, check_callback_called(c)
      PROVE  UNCHANGED <<wallet, seen, active_txs, monitoring>>
  BY <1>3, ChecksDropNothing DEF check_callback_called
<1>4. CASE ClientHandles
  BY <1>4 DEF ClientHandles, on_JM_UP, on_auth_accepted, on_auth_refused, on_tx_accepted,
              on_tx_refused, on_JM_TX_BROADCAST
<1>5. CASE Loops
  <2>1. CASE try_to_create_my_orders \/ submitOffers
    BY <2>1 DEF try_to_create_my_orders, submitOffers
  <2> QED
    BY <1>1, <1>2, <1>3, <1>5, <2>1 DEF Loops
<1>6. CASE UNCHANGED clientVars
  BY <1>6
<1> QED
  BY <1>4, <1>5, <1>6 DEF Next, vars

(* A transaction that the wallet counts as confirmed for good.             *)
Settled(i) == net[i].conf /\ (monitoring => net[i].tx \notin active_txs)

(* A coin that can be spent: one from the start, or of such a transaction. *)
Ready(x) == x \in Coins \/ \E i \in 1..seen : Settled(i) /\ Pays(net[i].tx, x)

(* Takers are offered, and we sign for, such coins only.                   *)
SourceInv ==
  /\ \A n \in Takers : \A g : GrantOf(n, g) => \A u \in g.utxos : Ready(u.id)
  /\ \A n \in Takers : \A t : TxOf(n, t) => \A x \in t.ins : Ready(x)
  /\ \A c \in wallet : c.conf => Ready(c.id)

LEMMA ReadyStays ==
  ASSUME ConfirmInTime, Shapes, OwnInv, NetInv, SerialInv, CallbackInv, [Next]_vars,
         NEW x, Ready(x)
  PROVE  Ready(x)'
<1>0. Len(net) \in Nat /\ DOMAIN net = 1..Len(net) /\ seen \in 0..Len(net)
  BY QueueIs DEF Shapes, QueueShapes
<1>1. SUFFICES ASSUME NEW i \in 1..seen, Settled(i), Pays(net[i].tx, x)
               PROVE  \E j \in 1..seen' : Settled(j)' /\ Pays(net[j].tx, x)'
  BY DEF Ready
<1>2. PICK t : t = net[i].tx
  OBVIOUS
<1>3. i \in DOMAIN net
  BY <1>0
<1>4. CASE Crash
  <2>1. /\ UNCHANGED net /\ seen' = Len(net)
        /\ active_txs' = {net[j].tx : j \in {k \in DOMAIN net : ~net[k].conf}}
    BY <1>4 DEF Crash, ClientRestart
  <2>2. t \notin active_txs'
    BY <1>1, <1>2, <1>3, <2>1 DEF NetInv, Settled
  <2>3. i \in 1..seen'
    BY <1>0, <2>1
  <2> QED
    BY <1>1, <1>2, <2>1, <2>2, <2>3 DEF Settled, Pays
<1>5. CASE ~Crash
  <2>1. NetGrows /\ MonitorMoves
    BY <1>5, NextNetGrows, NextMonitorMoves
  <2>2. i \in 1..seen' /\ net'[i].tx = t /\ net'[i].conf
    <3>1. i \in 1..seen'
      BY <1>0, <1>1, <2>1 DEF MonitorMoves
    <3>2. net'[i].tx = net[i].tx /\ net'[i].conf \in {net[i].conf, TRUE}
      BY <1>3, <2>1 DEF NetGrows
    <3>3. net[i].conf
      BY <1>1 DEF Settled
    <3> QED
      BY <1>2, <3>1, <3>2, <3>3
  <2>3. monitoring' => monitoring
    BY <1>5, NextWallet DEF Shows
  <2>4. monitoring' => t \notin active_txs'
    <3>1. SUFFICES ASSUME monitoring', t \in active_txs' PROVE FALSE
      OBVIOUS
    <3>2. t \notin active_txs
      BY <1>1, <1>2, <2>3, <3>1 DEF Settled
    <3>3. seen + 1 \in DOMAIN net /\ net[seen + 1].tx = t
      BY <1>0, <2>1, <3>1, <3>2 DEF MonitorMoves
    <3>4. i = seen + 1
      BY <1>2, <1>3, <3>3 DEF NetInv
    <3> QED
      BY <1>0, <3>4
  <2> QED
    BY <1>1, <1>2, <2>2, <2>4 DEF Settled, Pays
<1> QED
  BY <1>4, <1>5

LEMMA OutputsArePaid ==
  ASSUME NEW t, NEW b, NEW c \in Outputs(t, b)
  PROVE  Pays(t, c.id) /\ c.conf = b
BY DEF Outputs, Pays

LEMMA Processed ==
  ASSUME NEW t, NEW b, NEW c
  PROVE  c \in process_new_tx(t, b) <=>
           \/ c \in wallet /\ c.id \notin t.ins /\ ~Pays(t, c.id)
           \/ c \in Outputs(t, b)
<1>1. \A x : Pays(t, x) <=> x \in {o.id : o \in Outputs(t, b)}
  <2> DEFINE Coin(i) == [id |-> t.outs[i][1], md |-> t.outs[i][1][1],
                         value |-> t.outs[i][2], conf |-> b]
  <2>1. \A i : Coin(i).id = t.outs[i][1]
    OBVIOUS
  <2>2. Outputs(t, b) = {Coin(i) : i \in DOMAIN t.outs}
    BY DEF Outputs
  <2> HIDE DEF Coin
  <2> QED
    BY <2>1, <2>2 DEF Pays
<1> QED
  BY <1>1 DEF process_new_tx

LEMMA NextSource ==
  ASSUME ConfirmInTime, Shapes, OwnInv, NetInv, SerialInv, CallbackInv, SourceInv, [Next]_vars
  PROVE  SourceInv'
<1>0. Len(net) \in Nat /\ DOMAIN net = 1..Len(net) /\ seen \in 0..Len(net)
  BY QueueIs DEF Shapes, QueueShapes
<1>1. \A x : Ready(x) => Ready(x)'
  BY ReadyStays
<1>2. ASSUME NEW n \in Takers, NEW g, GrantOf(n, g)', NEW u \in g.utxos PROVE Ready(u.id)'
  <2>1. CASE GrantOf(n, g)
    BY <1>1, <1>2, <2>1 DEF SourceInv
  <2>2. CASE \E k \in Takers : \E h, md : NewGrant(k, h, md) /\ h = g
    <3>1. PICK c \in wallet : c.conf /\ u.id = c.id
      BY <1>2, <2>2 DEF NewGrant, AuthAt, PlainCoin
    <3> QED
      BY <1>1, <3>1 DEF SourceInv
  <2>3. CASE NoNewGrant
    BY <1>2, <2>1, <2>3 DEF NoNewGrant
  <2> QED
    BY <1>2, <2>1, <2>2, <2>3, NextOwnMoves DEF OwnMoves, NewGrant
<1>3. ASSUME NEW n \in Takers, NEW t, TxOf(n, t)', NEW x \in t.ins PROVE Ready(x)'
  <2>1. CASE TxOf(n, t)
    BY <1>1, <1>3, <2>1 DEF SourceInv
  <2>2. ASSUME NEW k \in Takers, NEW o, NewTx(k, t, o) PROVE Ready(x)'
    <3>1. GrantOf(k, o.grant) /\ t.ins \subseteq {u.id : u \in o.grant.utxos}
      BY <2>2 DEF NewTx, TxAt
    <3>2. PICK u \in o.grant.utxos : x = u.id
      BY <1>3, <3>1
    <3> QED
      BY <1>1, <3>1, <3>2 DEF SourceInv
  <2>3. CASE NoNewTx
    BY <1>3, <2>1, <2>3 DEF NoNewTx
  <2> QED
    BY <1>3, <2>1, <2>2, <2>3, NextOwnMoves DEF OwnMoves, NewTx
<1>4. ASSUME NEW c \in wallet', c.conf PROVE Ready(c.id)'
  <2>1. CASE Crash
    <3>1. /\ UNCHANGED net /\ seen' = Len(net) /\ wallet' = ChainView
          /\ active_txs' = {net[j].tx : j \in {k \in DOMAIN net : ~net[k].conf}}
      BY <2>1 DEF Crash, ClientRestart
    <3>2. \/ c \in InitialCoins
          \/ \E i \in DOMAIN net : c \in Outputs(net[i].tx, net[i].conf)
      BY <1>4, <3>1 DEF ChainView
    <3>3. CASE c \in InitialCoins
      BY <3>3 DEF InitialCoins, Ready
    <3>4. ASSUME NEW i \in DOMAIN net, c \in Outputs(net[i].tx, net[i].conf)
          PROVE  Ready(c.id)'
      <4>1. Pays(net[i].tx, c.id) /\ net[i].conf
        BY <1>4, <3>4, OutputsArePaid
      <4>2. net[i].tx \notin active_txs'
        BY <3>1, <4>1 DEF NetInv
      <4>3. i \in 1..seen'
        BY <1>0, <3>1
      <4> QED
        BY <3>1, <4>1, <4>2, <4>3 DEF Ready, Settled, Pays
    <3> QED
      BY <3>2, <3>3, <3>4
  <2>2. CASE c \in wallet
    BY <1>1, <1>4, <2>2 DEF SourceInv
  <2>3. ASSUME NEW i \in DOMAIN net, NEW b \in BOOLEAN, Shows(i, b), c \notin wallet
        PROVE  Ready(c.id)'
    <3>1. c \in Outputs(net[i].tx, b)
      BY <1>4, <2>3, Processed DEF Shows
    <3>2. Pays(net[i].tx, c.id) /\ b = TRUE
      BY <1>4, <3>1, OutputsArePaid
    <3>3. i \in 1..seen' /\ UNCHANGED net /\ net[i].conf
      BY <1>0, <2>3, <3>2 DEF Shows
    <3>4. monitoring' => net[i].tx \notin active_txs'
      BY <2>3, <3>2 DEF Shows
    <3> QED
      BY <3>2, <3>3, <3>4 DEF Ready, Settled, Pays
  <2> QED
    BY <1>4, <2>1, <2>2, <2>3, NextWallet
<1> QED
  BY <1>2, <1>3, <1>4 DEF SourceInv

(* A coin the wallet was shown or had, with the height it knows; an        *)
(* output whose spending it was shown.                                     *)
Known(c) ==
  \/ c \in InitialCoins
  \/ \E i \in 1..seen : c \in Outputs(net[i].tx, net[i].tx \notin active_txs)

SpentBy(x) == \E i \in 1..seen : x \in net[i].tx.ins

(* The coins in the wallet are those of all transactions shown, whatever   *)
(* the order of the rounds that showed them.                               *)
ViewInv ==
  monitoring =>
    /\ \A c : c \in wallet <=> Known(c) /\ ~SpentBy(c.id)
    /\ \A i \in 1..seen : net[i].tx \notin active_txs => net[i].conf

(* What is shown next has outputs that no other transaction has, and that  *)
(* nothing shown so far spends.                                            *)
LEMMA ShownIsUnspent ==
  ASSUME IndexInv, Shapes, OwnInv, NetInv, OnceInv, SourceInv,
         NEW i \in DOMAIN net, NEW b, Shows(i, b), NEW x, Pays(net[i].tx, x)
  PROVE  /\ x \notin Coins
         /\ \A j \in 1..seen : Pays(net[j].tx, x) => j = i
         /\ \A j \in 1..seen' : x \notin net[j].tx.ins
<1>0. Len(net) \in Nat /\ DOMAIN net = 1..Len(net) /\ seen \in 0..Len(net)
  BY QueueIs DEF Shapes, QueueShapes
<1>1. x \notin Coins
  BY SignedPaysAddresses DEF NetInv
<1>2. ASSUME NEW j \in 1..seen, Pays(net[j].tx, x) PROVE j = i
  <2>1. j \in DOMAIN net
    BY <1>0
  <2>2. net[j].tx = net[i].tx
    BY <1>2, <2>1, SignedPaysOnce DEF NetInv
  <2> QED
    BY <2>1, <2>2 DEF NetInv
<1>3. ~Ready(x)
  <2>1. SUFFICES ASSUME NEW j \in 1..seen, Settled(j), Pays(net[j].tx, x) PROVE FALSE
    BY <1>1 DEF Ready
  <2>2. j = i
    BY <1>2, <2>1
  <2>3. i # seen + 1
    BY <1>0, <2>2
  <2>4. net[i].tx \in active_txs /\ monitoring
    BY <2>3 DEF Shows
  <2> QED
    BY <2>1, <2>2, <2>4 DEF Settled
<1>4. ASSUME NEW j \in 1..seen' PROVE x \notin net[j].tx.ins
  <2>1. j \in DOMAIN net
    BY <1>0 DEF Shows
  <2>2. PICK s \in sigs_sent : s.tx = net[j].tx
    BY <2>1 DEF NetInv, SignedTxs
  <2>3. s.nick \in Takers /\ TxOf(s.nick, net[j].tx)
    BY <2>2 DEF Shapes, OrderShapes, TxOf
  <2> QED
    BY <1>3, <2>3 DEF SourceInv
<1> QED
  BY <1>1, <1>2, <1>4

LEMMA ShowsKeepsView ==
  ASSUME IndexInv, Shapes, OwnInv, NetInv, OnceInv, SourceInv, ViewInv,
         NEW i \in DOMAIN net, NEW b \in BOOLEAN, Shows(i, b)
  PROVE  ViewInv'
<1>0. Len(net) \in Nat /\ DOMAIN net = 1..Len(net) /\ seen \in 0..Len(net)
  BY QueueIs DEF Shapes, QueueShapes
<1> SUFFICES ASSUME monitoring'
             PROVE  /\ \A c : c \in wallet' <=> Known(c)' /\ ~SpentBy(c.id)'
                    /\ \A j \in 1..seen' : net'[j].tx \notin active_txs' => net'[j].conf
  BY DEF ViewInv, Known, SpentBy
<1>1. PICK t : t = net[i].tx
  OBVIOUS
<1>2. /\ net[i].conf = b /\ net' = net /\ monitoring
      /\ wallet' = process_new_tx(t, b)
      /\ active_txs' = IF b THEN active_txs \ {t} ELSE active_txs \cup {t}
  BY <1>1 DEF Shows
<1>3. /\ \A c : c \in wallet <=> Known(c) /\ ~SpentBy(c.id)
      /\ \A j \in 1..seen : net[j].tx \notin active_txs => net[j].conf
  BY <1>2 DEF ViewInv
<1>4. /\ seen \in Nat /\ seen' \in Nat /\ i \in 1..seen'
      /\ \A j : j \in 1..seen' <=> j \in 1..seen \/ j = i
  BY <1>0 DEF Shows
<1>5. \A j \in 1..seen : j # i => (net[j].tx \in active_txs' <=> net[j].tx \in active_txs)
  <2>1. \A j \in 1..seen : j # i => net[j].tx # t
    BY <1>0, <1>1 DEF NetInv
  <2> QED
    BY <1>2, <2>1
<1>6. (t \notin active_txs') = b
  BY <1>2
<1>7. \A x : Pays(t, x) => /\ x \notin Coins
                           /\ \A j \in 1..seen : Pays(net[j].tx, x) => j = i
                           /\ \A j \in 1..seen' : x \notin net[j].tx.ins
  BY <1>1, ShownIsUnspent
<1>8. \A j \in 1..seen : j # i =>
        Outputs(net[j].tx, net[j].tx \notin active_txs') =
          Outputs(net[j].tx, net[j].tx \notin active_txs)
  <2> SUFFICES ASSUME NEW j \in 1..seen, j # i
               PROVE  (net[j].tx \notin active_txs') = (net[j].tx \notin active_txs)
    OBVIOUS
  <2> QED
    BY <1>5
<1>9. \A c : Known(c)' <=>
        \/ c \in InitialCoins
        \/ c \in Outputs(t, b)
        \/ \E j \in 1..seen : j # i /\ c \in Outputs(net[j].tx, net[j].tx \notin active_txs)
  <2>1. \A c : Known(c)' <=>
          \/ c \in InitialCoins
          \/ \E j \in 1..seen' : c \in Outputs(net[j].tx, net[j].tx \notin active_txs')
    BY <1>2 DEF Known
  <2> QED
    BY <1>1, <1>4, <1>6, <1>8, <2>1
<1>10. \A x : SpentBy(x)' <=> SpentBy(x) \/ x \in t.ins
  BY <1>1, <1>2, <1>4 DEF SpentBy
<1>11. ASSUME NEW c, c \in wallet' PROVE Known(c)' /\ ~SpentBy(c.id)'
  <2>1. CASE c \in Outputs(t, b)
    <3>1. \A j \in 1..seen' : c.id \notin net[j].tx.ins
      BY <1>7, <2>1, OutputsArePaid
    <3> QED
      BY <1>2, <1>9, <2>1, <3>1 DEF SpentBy
  <2>2. CASE c \in wallet /\ c.id \notin t.ins /\ ~Pays(t, c.id)
    <3>1. Known(c) /\ ~SpentBy(c.id)'
      BY <1>3, <1>10, <2>2
    <3>2. ASSUME NEW j \in 1..seen, c \in Outputs(net[j].tx, net[j].tx \notin active_txs)
          PROVE  j # i
      <4>1. Pays(net[j].tx, c.id)
        BY <3>2, OutputsArePaid
      <4> QED
        BY <1>1, <2>2, <4>1
    <3> QED
      BY <1>9, <3>1, <3>2 DEF Known
  <2> QED
    BY <1>2, <1>11, <2>1, <2>2, Processed
<1>12. ASSUME NEW c, Known(c)', ~SpentBy(c.id)' PROVE c \in wallet'
  <2>1. CASE c \in Outputs(t, b)
    BY <1>2, <2>1, Processed
  <2>2. CASE c \in InitialCoins
    <3>1. c.id \in Coins
      BY <2>2 DEF InitialCoins
    <3>2. c \in wallet
      BY <1>3, <1>10, <1>12, <2>2 DEF Known
    <3> QED
      BY <1>2, <1>7, <1>10, <1>12, <3>1, <3>2, Processed
  <2>3. ASSUME NEW j \in 1..seen, j # i, c \in Outputs(net[j].tx, net[j].tx \notin active_txs)
        PROVE  c \in wallet'
    <3>1. Pays(net[j].tx, c.id)
      BY <2>3, OutputsArePaid
    <3>2. ~Pays(t, c.id)
      BY <1>7, <2>3, <3>1
    <3>3. c \in wallet
      BY <1>3, <1>10, <1>12, <2>3 DEF Known
    <3> QED
      BY <1>2, <1>10, <1>12, <3>2, <3>3, Processed
  <2> QED
    BY <1>9, <1>12, <2>1, <2>2, <2>3
<1>13. ASSUME NEW j \in 1..seen', net[j].tx \notin active_txs' PROVE net[j].conf
  <2>1. CASE j = i
    BY <1>1, <1>2, <1>6, <1>13, <2>1
  <2>2. CASE j # i
    BY <1>3, <1>4, <1>5, <1>13, <2>2
  <2> QED
    BY <2>1, <2>2
<1> QED
  BY <1>2, <1>11, <1>12, <1>13

(* After a restart the wallet holds what the network does.                 *)
LEMMA ChainIsView ==
  ASSUME Shapes, NetInv, Crash
  PROVE  ViewInv'
<1>0. Len(net) \in Nat /\ DOMAIN net = 1..Len(net)
  BY QueueIs DEF Shapes, QueueShapes
<1>1. /\ net' = net /\ seen' = Len(net) /\ wallet' = ChainView
      /\ active_txs' = {net[j].tx : j \in {k \in DOMAIN net : ~net[k].conf}}
  BY DEF Crash, ClientRestart
<1>2. \A i \in DOMAIN net : (net[i].tx \notin active_txs') = net[i].conf
  <2> SUFFICES ASSUME NEW i \in DOMAIN net
               PROVE  net[i].conf \in BOOLEAN /\ (net[i].tx \notin active_txs' <=> net[i].conf)
    OBVIOUS
  <2> QED
    BY <1>1 DEF NetInv
<1>3. \A c : Known(c)' <=> \/ c \in InitialCoins
                           \/ \E i \in DOMAIN net : c \in Outputs(net[i].tx, net[i].conf)
  BY <1>0, <1>1, <1>2 DEF Known
<1>4. \A x : SpentBy(x)' <=> \E i \in DOMAIN net : x \in net[i].tx.ins
  BY <1>0, <1>1 DEF SpentBy
<1>5. \A c : c \in wallet' <=> Known(c)' /\ ~SpentBy(c.id)'
  BY <1>1, <1>3, <1>4 DEF ChainView
<1> QED
  BY <1>0, <1>1, <1>2, <1>5 DEF ViewInv, Known, SpentBy

LEMMA NextView ==
  ASSUME ConfirmInTime, IndexInv, Shapes, OwnInv, NetInv, SerialInv, CallbackInv, OnceInv,
         SourceInv, ViewInv, [Next]_vars
  PROVE  ViewInv'
<1>0. Len(net) \in Nat /\ DOMAIN net = 1..Len(net) /\ seen \in 0..Len(net)
  BY QueueIs DEF Shapes, QueueShapes
<1>1. CASE Crash
  BY <1>1, ChainIsView
<1>2. CASE ~Crash /\ UNCHANGED <<wallet, seen, active_txs, monitoring>>
  <2>1. \A i \in 1..seen : net'[i].tx = net[i].tx /\ (net[i].conf => net'[i].conf)
    <3>1. \A i \in DOMAIN net : net'[i].tx = net[i].tx /\ net'[i].conf \in {net[i].conf, TRUE}
      BY <1>2, NextNetGrows DEF NetGrows
    <3>2. \A i \in 1..seen : i \in DOMAIN net
      BY <1>0
    <3> QED
      BY <3>1, <3>2
  <2>2. \A c : Known(c)' <=> Known(c)
    BY <1>2, <2>1 DEF Known
  <2>3. \A x : SpentBy(x)' <=> SpentBy(x)
    BY <1>2, <2>1 DEF SpentBy
  <2>4. monitoring' => \A i \in 1..seen' : net'[i].tx \notin active_txs' => net'[i].conf
    BY <1>2, <2>1 DEF ViewInv
  <2>5. monitoring' => \A c : c \in wallet' <=> Known(c)' /\ ~SpentBy(c.id)'
    BY <1>2, <2>2, <2>3 DEF ViewInv
  <2> QED
    BY <2>4, <2>5 DEF ViewInv, Known, SpentBy
<1> QED
  BY <1>1, <1>2, NextWallet, ShowsKeepsView

LEMMA ViewIsChain ==
  ASSUME Shapes, NetInv, ViewInv
  PROVE  WalletMatchesChain
<1> SUFFICES ASSUME MonitorIdle PROVE wallet = ChainView
  BY DEF WalletMatchesChain
<1>0. DOMAIN net = 1..seen
  BY QueueIs DEF Shapes, QueueShapes, MonitorIdle
<1>1. /\ \A c : c \in wallet <=> Known(c) /\ ~SpentBy(c.id)
      /\ \A i \in DOMAIN net : net[i].tx \notin active_txs <=> net[i].conf
  BY <1>0 DEF ViewInv, MonitorIdle
<1>2. \A i \in DOMAIN net : (net[i].tx \notin active_txs) = net[i].conf
  BY <1>1 DEF NetInv
<1>3. \A c : Known(c) <=> \/ c \in InitialCoins
                          \/ \E i \in DOMAIN net : c \in Outputs(net[i].tx, net[i].conf)
  BY <1>0, <1>2 DEF Known
<1>4. \A x : SpentBy(x) <=> \E i \in DOMAIN net : x \in net[i].tx.ins
  BY <1>0 DEF SpentBy
<1>5. \A c : c \in wallet <=> c \in ChainView
  BY <1>1, <1>3, <1>4 DEF ChainView
<1> QED
  BY <1>5

(***************************************************************************)
(* Sums over finite sets of coins                                          *)
(***************************************************************************)

(* Any set of numbers has a least one.                                     *)
LEMMA LeastNat ==
  ASSUME NEW T \in SUBSET Nat, T # {}
  PROVE  \E n \in T : \A m \in T : n <= m
<1> DEFINE R == OpToRel(<, Nat)
<1>1. IsWellFoundedOn(R, Nat)
  BY NatLessThanWellFounded
<1>2. \A x, y \in Nat : y < x => <<y, x>> \in R
  BY DEF OpToRel
<1> HIDE DEF R
<1>3. PICK x \in T : \A y \in T : ~ (<<y, x>> \in R)
  BY <1>1, WFMin
<1>4. \A y \in T : ~(y < x)
  BY <1>2, <1>3
<1> QED
  BY <1>3, <1>4

(* Of finite sets with a property, one has the fewest elements.            *)
LEMMA SmallestSet ==
  ASSUME NEW F, F # {}, \A S \in F : IsFiniteSet(S)
  PROVE  \E S \in F : \A U \in F : Cardinality(S) <= Cardinality(U)
<1> DEFINE T == {Cardinality(S) : S \in F}
<1>1. T \in SUBSET Nat /\ T # {}
  BY FS_CardinalityType
<1>2. PICK n \in T : \A m \in T : n <= m
  BY <1>1, LeastNat
<1> QED
  BY <1>2

(* The recursion behind SumValues: one element at a time is taken out.     *)
One(s) == CHOOSE x \in s : TRUE

SumsOver(f, D) ==
  f = [s \in D |-> IF s = {} THEN 0 ELSE One(s).value + f[s \ {One(s)}]]

LEMMA SumIs ==
  ASSUME NEW S
  PROVE  SumValues(S) = (CHOOSE f : SumsOver(f, SUBSET S))[S]
BY DEF SumValues, MapThenSumSet, MapThenFoldSet, SumsOver, One

LEMMA OneOf ==
  ASSUME NEW s, s # {}
  PROVE  One(s) \in s
BY DEF One

LEMMA OneLess ==
  ASSUME NEW S, IsFiniteSet(S), NEW x \in S
  PROVE  /\ IsFiniteSet(S \ {x})
         /\ Cardinality(S) \in Nat /\ Cardinality(S \ {x}) = Cardinality(S) - 1
         /\ Cardinality(S \ {x}) \in Nat /\ Cardinality(S \ {x}) < Cardinality(S)
<1>1. IsFiniteSet(S \ {x}) /\ Cardinality(S \ {x}) = Cardinality(S) - 1
  BY FS_RemoveElement
<1>2. Cardinality(S) \in Nat /\ Cardinality(S \ {x}) \in Nat
  BY <1>1, FS_CardinalityType
<1> QED
  BY <1>1, <1>2

(* Of sets with a property, one has it but no set with an element less.    *)
LEMMA MinimalSet ==
  ASSUME NEW S, IsFiniteSet(S), NEW F \in SUBSET SUBSET S, F # {}
  PROVE  \E s \in F : \A x \in s : s \ {x} \notin F
<1>1. \A s \in F : IsFiniteSet(s)
  BY FS_Subset
<1>2. PICK s \in F : \A r \in F : Cardinality(s) <= Cardinality(r)
  BY <1>1, SmallestSet
<1>3. ASSUME NEW x \in s, s \ {x} \in F PROVE FALSE
  <2>1. Cardinality(s) <= Cardinality(s \ {x})
    BY <1>2, <1>3
  <2>2. /\ Cardinality(s) \in Nat /\ Cardinality(s \ {x}) \in Nat
        /\ Cardinality(s \ {x}) < Cardinality(s)
    BY <1>1, OneLess
  <2> QED
    BY <2>1, <2>2
<1> QED
  BY <1>3

(* The recursion has a solution on the subsets of a finite set, built up   *)
(* by their cardinality, and only one.                                     *)
LEMMA SumsExist ==
  ASSUME NEW S, IsFiniteSet(S)
  PROVE  \E f : SumsOver(f, SUBSET S)
<1> DEFINE D(n) == {s \in SUBSET S : Cardinality(s) <= n}
           T == {n \in Nat : ~ \E f : SumsOver(f, D(n))}
<1>1. \A s \in SUBSET S : IsFiniteSet(s) /\ Cardinality(s) \in Nat
  BY FS_Subset, FS_CardinalityType
<1>2. T = {}
  <2> SUFFICES ASSUME T # {} PROVE FALSE
    OBVIOUS
  <2>1. PICK n \in T : \A m \in T : n <= m
    BY LeastNat
  <2>2. CASE n = 0
    <3>1. \A s \in D(0) : s = {}
      BY <1>1, FS_EmptySet
    <3>2. PICK f : f = [s \in D(0) |-> 0]
      OBVIOUS
    <3>3. SumsOver(f, D(0))
      BY <3>1, <3>2 DEF SumsOver
    <3> QED
      BY <2>1, <2>2, <3>3
  <2>3. CASE n # 0
    <3>1. n - 1 \in Nat /\ n - 1 \notin T /\ n \in Nat
      BY <2>1, <2>3
    <3>2. PICK f : SumsOver(f, D(n - 1))
      BY <3>1
    <3>3. PICK g : g = [s \in D(n) |-> IF s = {} THEN 0 ELSE One(s).value + f[s \ {One(s)}]]
      OBVIOUS
    <3>4. \A s \in D(n - 1) : s \in D(n) /\ g[s] = f[s]
      <4>1. \A s \in D(n - 1) : s \in D(n)
        BY <1>1, <3>1
      <4>2. \A s \in D(n - 1) :
               f[s] = IF s = {} THEN 0 ELSE One(s).value + f[s \ {One(s)}]
        BY <3>2 DEF SumsOver
      <4> QED
        BY <3>3, <4>1, <4>2
    <3>5. ASSUME NEW s \in D(n), s # {} PROVE s \ {One(s)} \in D(n - 1)
      BY <1>1, <3>1, <3>5, OneOf, OneLess
    <3>6. g = [s \in D(n) |-> IF s = {} THEN 0 ELSE One(s).value + g[s \ {One(s)}]]
      <4> HIDE DEF D
      <4>1. \A s \in D(n) : s # {} => g[s \ {One(s)}] = f[s \ {One(s)}]
        BY <3>4, <3>5
      <4> QED
        BY <3>3, <4>1
    <3> QED
      BY <2>1, <3>6 DEF SumsOver
  <2> QED
    BY <2>2, <2>3
<1>3. Cardinality(S) \in Nat
  BY FS_CardinalityType
<1>4. D(Cardinality(S)) = SUBSET S
  BY FS_Subset
<1> QED
  BY <1>2, <1>3, <1>4

LEMMA SumsAgree ==
  ASSUME NEW S, IsFiniteSet(S), NEW U \in SUBSET S, NEW f, NEW g,
         SumsOver(f, SUBSET S), SumsOver(g, SUBSET U)
  PROVE  f[U] = g[U]
<1> DEFINE F == {s \in SUBSET U : f[s] # g[s]}
<1>1. F = {}
  <2> SUFFICES ASSUME F # {} PROVE FALSE
    OBVIOUS
  <2>1. \A s \in SUBSET U : IsFiniteSet(s) /\ s \in SUBSET S
    BY FS_Subset
  <2>2. PICK s \in F : \A x \in s : s \ {x} \notin F
    <3>1. F \in SUBSET SUBSET U /\ IsFiniteSet(U)
      BY <2>1
    <3> HIDE DEF F
    <3> QED
      BY <3>1, MinimalSet
  <2>3. f[s] = (IF s = {} THEN 0 ELSE One(s).value + f[s \ {One(s)}])
        /\ g[s] = (IF s = {} THEN 0 ELSE One(s).value + g[s \ {One(s)}])
    BY <2>1, <2>2 DEF SumsOver
  <2>4. s # {}
    BY <2>2, <2>3
  <2>5. s \ {One(s)} \in SUBSET U /\ s \ {One(s)} \notin F
    BY <2>2, <2>4, OneOf
  <2>6. f[s \ {One(s)}] = g[s \ {One(s)}]
    BY <2>2, <2>5
  <2> QED
    BY <2>2, <2>3, <2>6
<1> QED
  BY <1>1

(* What SumValues is defined to do.                                        *)
LEMMA SumStep ==
  /\ SumValues({}) = 0
  /\ \A S : IsFiniteSet(S) /\ S # {} =>
       SumValues(S) = One(S).value + SumValues(S \ {One(S)})
<1> DEFINE Sums(S) == CHOOSE f : SumsOver(f, SUBSET S)
<1>1. \A S : IsFiniteSet(S) => SumsOver(Sums(S), SUBSET S)
  BY SumsExist
<1>2. \A S : SumValues(S) = Sums(S)[S]
  BY SumIs
<1> HIDE DEF Sums
<1>3. ASSUME NEW S, IsFiniteSet(S)
      PROVE  Sums(S)[S] = IF S = {} THEN 0 ELSE One(S).value + Sums(S)[S \ {One(S)}]
  BY <1>1, <1>3 DEF SumsOver
<1>4. SumValues({}) = 0
  BY <1>2, <1>3, FS_EmptySet
<1>5. ASSUME NEW S, IsFiniteSet(S), S # {}
      PROVE  SumValues(S) = One(S).value + SumValues(S \ {One(S)})
  <2>1. IsFiniteSet(S \ {One(S)})
    BY <1>5, FS_RemoveElement
  <2>2. Sums(S)[S \ {One(S)}] = Sums(S \ {One(S)})[S \ {One(S)}]
    <3> DEFINE U == S \ {One(S)}
               f == Sums(S)
               g == Sums(U)
    <3>1. SumsOver(f, SUBSET S) /\ SumsOver(g, SUBSET U)
      BY <1>1, <1>5, <2>1
    <3>2. U \in SUBSET S
      OBVIOUS
    <3> HIDE DEF U, f, g
    <3>3. f[U] = g[U]
      BY <1>5, <3>1, <3>2, SumsAgree
    <3> QED
      BY <3>3 DEF U, f, g
  <2> QED
    BY <1>2, <1>3, <1>5, <2>2
<1> QED
  BY <1>4, <1>5

Summable(S) == IsFiniteSet(S) /\ \A u \in S : u.value \in Int

LEMMA SumInt ==
  ASSUME NEW S, Summable(S)
  PROVE  SumValues(S) \in Int
<1> DEFINE F == {s \in SUBSET S : SumValues(s) \notin Int}
<1>1. F = {}
  <2> SUFFICES ASSUME F # {} PROVE FALSE
    OBVIOUS
  <2>1. \A s \in SUBSET S : IsFiniteSet(s)
    BY FS_Subset DEF Summable
  <2>2. PICK s \in F : \A x \in s : s \ {x} \notin F
    <3>1. F \in SUBSET SUBSET S /\ IsFiniteSet(S)
      BY DEF Summable
    <3> HIDE DEF F
    <3> QED
      BY <3>1, MinimalSet
  <2>3. s # {}
    <3>1. SumValues({}) \in Int
      BY SumStep
    <3>2. SumValues(s) \notin Int
      BY <2>2
    <3> QED
      BY <3>1, <3>2
  <2>4. PICK x \in s : SumValues(s) = x.value + SumValues(s \ {x})
    BY <2>1, <2>3, SumStep, OneOf
  <2>5. s \ {x} \notin F
    BY <2>2
  <2>6. SumValues(s \ {x}) \in Int /\ x.value \in Int
    BY <2>5 DEF Summable
  <2> QED
    BY <2>4, <2>6
<1> QED
  BY <1>1

LEMMA PartIsSummable == ASSUME NEW S, Summable(S), NEW T \in SUBSET S PROVE Summable(T)
BY FS_Subset DEF Summable

(* Any element may be counted first.                                       *)
LEMMA SumRemove ==
  ASSUME NEW S, Summable(S), NEW x \in S
  PROVE  SumValues(S) = x.value + SumValues(S \ {x})
<1> DEFINE Fine(s) == \A y \in s : SumValues(s) = y.value + SumValues(s \ {y})
           F == {s \in SUBSET S : ~Fine(s)}
<1>1. F = {}
  <2> SUFFICES ASSUME F # {} PROVE FALSE
    OBVIOUS
  <2>1. \A s \in SUBSET S : IsFiniteSet(s) /\ Summable(s)
    BY PartIsSummable DEF Summable
  <2>2. PICK s \in F : \A w \in s : s \ {w} \notin F
    <3>1. F \in SUBSET SUBSET S /\ IsFiniteSet(S)
      BY DEF Summable
    <3> HIDE DEF F
    <3> QED
      BY <3>1, MinimalSet
  <2>3. PICK y \in s : SumValues(s) # y.value + SumValues(s \ {y})
    OBVIOUS
  <2>4. PICK z \in s : SumValues(s) = z.value + SumValues(s \ {z})
    BY <2>1, <2>3, SumStep, OneOf
  <2>5. y # z
    BY <2>3, <2>4
  <2>6. \A u \in s : Fine(s \ {u})
    <3> SUFFICES ASSUME NEW u \in s PROVE s \ {u} \notin F
      OBVIOUS
    <3> HIDE DEF F
    <3> QED
      BY <2>2
  <2>7. SumValues(s \ {z}) = y.value + SumValues((s \ {z}) \ {y})
    BY <2>5, <2>6
  <2>8. SumValues(s \ {y}) = z.value + SumValues((s \ {y}) \ {z})
    BY <2>5, <2>6
  <2>9. (s \ {z}) \ {y} = (s \ {y}) \ {z}
    OBVIOUS
  <2>10. SumValues((s \ {z}) \ {y}) \in Int /\ y.value \in Int /\ z.value \in Int
    <3>1. Summable((s \ {z}) \ {y})
      BY <2>1
    <3> QED
      BY <3>1, SumInt DEF Summable
  <2>11. SumValues(s \ {y}) = z.value + SumValues((s \ {z}) \ {y})
    BY <2>8, <2>9
  <2>12. SumValues(s) = y.value + SumValues(s \ {y})
    <3> DEFINE r == SumValues((s \ {z}) \ {y})
    <3>1. SumValues(s) = z.value + (y.value + r)
      BY <2>4, <2>7
    <3>2. SumValues(s \ {y}) = z.value + r
      BY <2>11
    <3>3. r \in Int /\ y.value \in Int /\ z.value \in Int
      BY <2>10
    <3> HIDE DEF r
    <3>4. z.value + (y.value + r) = y.value + (z.value + r)
      BY <3>3
    <3> QED
      BY <3>1, <3>2, <3>4
  <2> QED
    BY <2>3, <2>12
<1>2. Fine(S)
  BY <1>1
<1> QED
  BY <1>2

LEMMA SumUnion ==
  ASSUME NEW A, NEW B, Summable(A), Summable(B), A \cap B = {}
  PROVE  Summable(A \cup B) /\ SumValues(A \cup B) = SumValues(A) + SumValues(B)
<1>0. Summable(A \cup B)
  BY FS_Union DEF Summable
<1> DEFINE F == {s \in SUBSET A : SumValues(s \cup B) # SumValues(s) + SumValues(B)}
<1>1. F = {}
  <2> SUFFICES ASSUME F # {} PROVE FALSE
    OBVIOUS
  <2>1. \A s \in SUBSET A : IsFiniteSet(s) /\ Summable(s)
    BY PartIsSummable DEF Summable
  <2>2. PICK s \in F : \A x \in s : s \ {x} \notin F
    <3>1. F \in SUBSET SUBSET A /\ IsFiniteSet(A)
      BY DEF Summable
    <3> HIDE DEF F
    <3> QED
      BY <3>1, MinimalSet
  <2>3. SumValues(B) \in Int
    BY SumInt
  <2>4. s # {}
    <3>1. SumValues({} \cup B) = SumValues({}) + SumValues(B)
      BY <2>3, SumStep
    <3> QED
      BY <2>2, <3>1
  <2>5. PICK x : x \in s
    BY <2>4
  <2>6. s \ {x} \notin F
    BY <2>2, <2>5
  <2>7. SumValues((s \ {x}) \cup B) = SumValues(s \ {x}) + SumValues(B)
    BY <2>6
  <2>8. SumValues(s) = x.value + SumValues(s \ {x})
    BY <2>1, <2>5, SumRemove
  <2>9. SumValues(s \cup B) = x.value + SumValues((s \ {x}) \cup B)
    <3>1. Summable(s \cup B) /\ x \in s \cup B
      <4>1. s \cup B \in SUBSET (A \cup B)
        OBVIOUS
      <4> QED
        BY <1>0, <2>5, <4>1, PartIsSummable
    <3>2. (s \cup B) \ {x} = (s \ {x}) \cup B
      BY <2>5
    <3> QED
      BY <3>1, <3>2, SumRemove
  <2>10. x.value \in Int /\ SumValues(s \ {x}) \in Int
    BY <2>1, <2>5, SumInt DEF Summable
  <2> QED
    BY <2>2, <2>3, <2>7, <2>8, <2>9, <2>10
<1> QED
  BY <1>0, <1>1

LEMMA SumPair ==
  ASSUME NEW p, NEW q, p # q, p.value \in Int, q.value \in Int
  PROVE  Summable({p, q}) /\ SumValues({p, q}) = p.value + q.value
<1>1. Summable({p, q})
  <2>1. IsFiniteSet({p}) /\ IsFiniteSet({q}) /\ {p, q} = {p} \cup {q}
    BY FS_Singleton
  <2>2. IsFiniteSet({p, q})
    BY <2>1, FS_Union
  <2> QED
    BY <2>2 DEF Summable
<1>2. SumValues({p, q}) = p.value + SumValues({p, q} \ {p})
  BY <1>1, SumRemove
<1>3. {p, q} \ {p} = {q} /\ Summable({q})
  BY <1>1, PartIsSummable
<1>4. SumValues({q}) = q.value + SumValues({q} \ {q})
  BY <1>3, SumRemove
<1>5. SumValues({q} \ {q}) = 0
  <2>1. {q} \ {q} = {}
    OBVIOUS
  <2> QED
    BY <2>1, SumStep
<1>6. SumValues({q}) = q.value
  BY <1>4, <1>5
<1>7. SumValues({p, q} \ {p}) = SumValues({q})
  BY <1>3
<1> QED
  BY <1>1, <1>2, <1>6, <1>7

LEMMA ImageIsFinite ==
  ASSUME NEW S, IsFiniteSet(S), NEW f
  PROVE  IsFiniteSet({f[x] : x \in S})
<1> DEFINE T == {f[x] : x \in S}
           g == [x \in S |-> f[x]]
<1>1. g \in Surjection(S, T)
  BY DEF Surjection
<1> QED
  BY <1>1, FS_Surjection

Plain(w) == {PlainCoin(c) : c \in w}

(* Heights do not count.                                                   *)
LEMMA SumPlain ==
  ASSUME NEW w, Summable(w), \A c, d \in w : c.id = d.id => c = d
  PROVE  Summable(Plain(w)) /\ SumValues(Plain(w)) = SumValues(w)
<1>0. \A s \in SUBSET w : Summable(s) /\ IsFiniteSet(s) /\ Summable(Plain(s))
  <2> SUFFICES ASSUME NEW s \in SUBSET w
               PROVE  Summable(s) /\ IsFiniteSet(s) /\ Summable(Plain(s))
    OBVIOUS
  <2>1. Summable(s) /\ IsFiniteSet(s)
    BY PartIsSummable DEF Summable
  <2>2. IsFiniteSet(Plain(s))
    <3> DEFINE f == [c \in s |-> PlainCoin(c)]
    <3>1. Plain(s) = {f[c] : c \in s}
      BY DEF Plain
    <3> HIDE DEF f
    <3> QED
      BY <2>1, <3>1, ImageIsFinite
  <2>3. \A c \in s : PlainCoin(c).value = c.value
    BY DEF PlainCoin
  <2>4. \A p \in Plain(s) : p.value \in Int
    BY <2>1, <2>3 DEF Summable, Plain
  <2> QED
    BY <2>1, <2>2, <2>4 DEF Summable
<1> DEFINE F == {s \in SUBSET w : SumValues(Plain(s)) # SumValues(s)}
<1>1. F = {}
  <2> SUFFICES ASSUME F # {} PROVE FALSE
    OBVIOUS
  <2>2. PICK s \in F : \A x \in s : s \ {x} \notin F
    <3>1. F \in SUBSET SUBSET w /\ IsFiniteSet(w)
      BY DEF Summable
    <3> HIDE DEF F
    <3> QED
      BY <3>1, MinimalSet
  <2>4. s # {}
    <3>1. Plain({}) = {}
      BY DEF Plain
    <3> QED
      BY <2>2, <3>1
  <2>5. PICK x : x \in s
    BY <2>4
  <2>6. s \ {x} \notin F
    BY <2>2, <2>5
  <2>7. SumValues(Plain(s \ {x})) = SumValues(s \ {x})
    BY <2>6
  <2>8. SumValues(s) = x.value + SumValues(s \ {x})
    BY <1>0, <2>5, SumRemove
  <2>9. Plain(s) \ {PlainCoin(x)} = Plain(s \ {x}) /\ PlainCoin(x) \in Plain(s)
        /\ PlainCoin(x).value = x.value
    <3>1. \A c \in s : PlainCoin(c) = PlainCoin(x) => c = x
      BY <2>5 DEF PlainCoin
    <3> QED
      <4>1. PlainCoin(x).value = x.value
        BY DEF PlainCoin
      <4> QED
        BY <2>5, <3>1, <4>1 DEF Plain
  <2>10. SumValues(Plain(s)) = x.value + SumValues(Plain(s \ {x}))
    BY <1>0, <2>9, SumRemove
  <2> QED
    BY <2>2, <2>7, <2>8, <2>10
<1> QED
  BY <1>0, <1>1

(***************************************************************************)
(* No coins are lost                                                       *)
(***************************************************************************)

(* The outputs of a transaction; the coins there were when it was the k-th *)
(* to appear, and those that were left then.                               *)
Paid(t) == {[id |-> t.outs[i][1], value |-> t.outs[i][2]] : i \in DOMAIN t.outs}
MadeBy(k) == Plain(InitialCoins) \cup UNION {Paid(net[i].tx) : i \in 1..k}
Left(k) == {p \in MadeBy(k) : \A i \in 1..k : p.id \notin net[i].tx.ins}

(* It pays two addresses at least what the coins it spends are worth.      *)
Balanced(t) ==
  \E u \in SUBSET MadeBy(seen) : \E p, q :
    /\ Summable(u) /\ t.ins = {x.id : x \in u}
    /\ Paid(t) = {p, q} /\ p.id # q.id /\ p.value \in Int /\ q.value \in Int
    /\ SumValues(u) <= p.value + q.value

(* Grants are of coins that we had, at their values, and all that we sign  *)
(* for is balanced.  Whether its monitor is alive or not, the wallet holds *)
(* what was left after the last transaction it was shown.                  *)
FundsInv ==
  /\ \A n \in Takers :
       /\ \A g : GrantOf(n, g) => /\ Summable(g.utxos) /\ g.utxos \subseteq MadeBy(seen)
                                  /\ g.cjaddr # g.changeaddr
       /\ \A t : TxOf(n, t) => Balanced(t)
  /\ Summable(wallet) /\ \A c, d \in wallet : c.id = d.id => c = d
  /\ Plain(wallet) = Left(seen)

LEMMA PaidIs ==
  ASSUME NEW t
  PROVE  /\ \A x : Pays(t, x) <=> \E p \in Paid(t) : p.id = x
         /\ \A b : Plain(Outputs(t, b)) = Paid(t)
         /\ \A b : \A c, d \in Outputs(t, b) : PlainCoin(c) = PlainCoin(d) => c = d
<1> DEFINE P(i) == [id |-> t.outs[i][1], value |-> t.outs[i][2]]
           C(i, b) == [id |-> t.outs[i][1], md |-> t.outs[i][1][1],
                       value |-> t.outs[i][2], conf |-> b]
<1>1. \A i, b : P(i).id = t.outs[i][1] /\ PlainCoin(C(i, b)) = P(i)
  BY DEF PlainCoin
<1>2. ASSUME NEW i, NEW j, NEW b, PlainCoin(C(i, b)) = PlainCoin(C(j, b))
      PROVE  C(i, b) = C(j, b)
  <2>1. t.outs[i][1] = t.outs[j][1] /\ t.outs[i][2] = t.outs[j][2]
    BY <1>2 DEF PlainCoin
  <2> QED
    BY <2>1
<1>3. /\ Paid(t) = {P(i) : i \in DOMAIN t.outs}
      /\ \A b : Outputs(t, b) = {C(i, b) : i \in DOMAIN t.outs}
  BY DEF Paid, Outputs
<1> HIDE DEF P, C
<1>4. \A x : Pays(t, x) <=> \E p \in Paid(t) : p.id = x
  BY <1>1, <1>3 DEF Pays
<1>5. \A b : Plain(Outputs(t, b)) = Paid(t)
  BY <1>1, <1>3 DEF Plain
<1> QED
  BY <1>2, <1>3, <1>4, <1>5

LEMMA FromPlain ==
  ASSUME NEW w, Summable(Plain(w)), \A c, d \in w : c.id = d.id => c = d
  PROVE  Summable(w)
<1> DEFINE f == [c \in w |-> PlainCoin(c)]
<1>1. \A c \in w : PlainCoin(c) \in Plain(w) /\ PlainCoin(c).id = c.id
                   /\ PlainCoin(c).value = c.value
  BY DEF Plain, PlainCoin
<1>2. f \in Injection(w, Plain(w))
  <2>1. f \in [w -> Plain(w)]
    BY <1>1
  <2>2. \A c, d \in w : f[c] = f[d] => c = d
    BY <1>1
  <2> QED
    BY <2>1, <2>2 DEF Injection, IsInjective
<1>3. IsFiniteSet(w)
  BY <1>2, FS_Injection DEF Summable
<1> QED
  BY <1>1, <1>3 DEF Summable

LEMMA NetIsBalanced ==
  ASSUME Shapes, NetInv, FundsInv, NEW i \in DOMAIN net
  PROVE  Balanced(net[i].tx)
<1>1. PICK s \in sigs_sent : s.tx = net[i].tx
  BY DEF NetInv, SignedTxs
<1> QED
  BY <1>1 DEF Shapes, OrderShapes, TxOf, FundsInv

(* An address has one value for good.                                      *)
LEMMA SameCoin ==
  ASSUME IndexInv, Shapes, OwnInv, NetInv, OnceInv, FundsInv,
         NEW p \in MadeBy(Len(net)), NEW q \in MadeBy(Len(net)), p.id = q.id
  PROVE  p = q
<1>0. Len(net) \in Nat /\ DOMAIN net = 1..Len(net)
  BY QueueIs DEF Shapes, QueueShapes
<1>1. \A r \in Plain(InitialCoins) : r.id \in Coins /\ r = [id |-> r.id, value |-> CoinValue[r.id]]
  <2> SUFFICES ASSUME NEW c \in Coins,
                      NEW r, r = PlainCoin([id |-> c, md |-> c[1], value |-> CoinValue[c],
                                            conf |-> TRUE])
               PROVE  r.id \in Coins /\ r = [id |-> r.id, value |-> CoinValue[r.id]]
    BY DEF Plain, InitialCoins
  <2>1. r = [id |-> c, value |-> CoinValue[c]]
    BY DEF PlainCoin
  <2>2. r.id = c
    BY <2>1
  <2> QED
    BY <2>1, <2>2
<1>2. \A i \in DOMAIN net : \A r \in Paid(net[i].tx) : Pays(net[i].tx, r.id) /\ r.id \notin Coins
  <2> SUFFICES ASSUME NEW i \in DOMAIN net, NEW r \in Paid(net[i].tx)
               PROVE  Pays(net[i].tx, r.id) /\ r.id \notin Coins
    OBVIOUS
  <2>1. Pays(net[i].tx, r.id)
    BY PaidIs
  <2> QED
    BY <2>1, SignedPaysAddresses DEF NetInv
<1>3. CASE p \in Plain(InitialCoins) /\ q \in Plain(InitialCoins)
  BY <1>1, <1>3
<1>4. ASSUME NEW i \in DOMAIN net, p \in Paid(net[i].tx), NEW j \in DOMAIN net,
             q \in Paid(net[j].tx)
      PROVE  p = q
  <2>1. net[i].tx = net[j].tx
    BY <1>2, <1>4, SignedPaysOnce DEF NetInv
  <2>2. PICK a, b : Paid(net[i].tx) = {a, b} /\ a.id # b.id
    <3>1. Balanced(net[i].tx)
      BY NetIsBalanced
    <3> QED
      BY <3>1 DEF Balanced
  <2> QED
    BY <1>4, <2>1, <2>2
<1> QED
  BY <1>0, <1>1, <1>2, <1>3, <1>4 DEF MadeBy

LEMMA MadeGrows ==
  ASSUME NEW j \in Nat, NEW k \in Nat, j <= k
  PROVE  MadeBy(j) \subseteq MadeBy(k) /\ 1..j \subseteq 1..k
<1>1. 1..j \subseteq 1..k
  OBVIOUS
<1> QED
  BY <1>1 DEF MadeBy

LEMMA NetIsSame ==
  ASSUME NEW k, \A i \in 1..k : net'[i].tx = net[i].tx
  PROVE  MadeBy(k)' = MadeBy(k) /\ Left(k)' = Left(k)
<1>1. MadeBy(k)' = MadeBy(k)
  BY DEF MadeBy, InitialCoins
<1> QED
  BY <1>1 DEF Left

(* Of the transactions a taker may propose, the maker signs those that pay *)
(* it as they should.                                                      *)
LEMMA VerifiedPays ==
  ASSUME NEW o, NEW t \in ProposedTxs(o), verify_unsigned_tx(t, o), o.amount \in Amounts,
         Summable(o.grant.utxos), o.grant.cjaddr # o.grant.changeaddr
  PROVE  \E p, q : /\ Paid(t) = {p, q} /\ p.id # q.id
                   /\ p.value \in Int /\ q.value \in Int
                   /\ SumValues(o.grant.utxos) <= p.value + q.value
<1> DEFINE A == o.grant.cjaddr
           B == o.grant.changeaddr
           a == o.amount
           c == ExpectedChange(o)
           S == SumValues(o.grant.utxos)
           f == CjFee[a]
           P(x, v) == [id |-> x, value |-> v]
<1>1. a \in Int /\ S \in Int /\ f \in Nat /\ TxFee \in Nat
  <2>1. S \in Int
    BY SumInt
  <2>2. a \in Int /\ f \in Nat /\ TxFee \in Nat
    <3>1. a \in Amounts /\ Amounts \subseteq Nat /\ CjFee \in [Amounts -> Nat] /\ TxFee \in Nat
      BY MakerAssumption
    <3> HIDE DEF a
    <3>2. CjFee[a] \in Nat /\ a \in Int
      BY <3>1
    <3> QED
      BY <3>1, <3>2
  <2> QED
    BY <2>1, <2>2
<1>2. c = S - a - TxFee + f
  BY DEF ExpectedChange
<1>3. f - TxFee >= 0 /\ PaidOnce(t, A, a) /\ PaidOnce(t, B, c)
  BY DEF verify_unsigned_tx
<1> HIDE DEF A, B, a, c, S, f
<1>4. c \in Int /\ S <= a + c
  BY <1>1, <1>2, <1>3
<1>5. \E ins : \/ t = [ins |-> ins, outs |-> <<<<A, a>>, <<B, c>>>>]
               \/ t = [ins |-> ins, outs |-> <<<<A, a - 1>>, <<B, c + 1>>>>]
               \/ t = [ins |-> ins, outs |-> <<<<B, c - f - 1>>, <<A, a>>>>]
               \/ t = [ins |-> ins, outs |-> <<<<A, a>>>>]
               \/ t = [ins |-> ins, outs |-> <<<<A, a>>, <<A, a>>, <<B, c>>>>]
  BY DEF ProposedTxs, A, B, a, c, f
<1>6. \A x, v : PaidOnce(t, x, v) => \A i \in DOMAIN t.outs : t.outs[i][1] = x => t.outs[i][2] >= v
  BY DEF PaidOnce
<1>7. \A x, v : PaidOnce(t, x, v) => \E i \in DOMAIN t.outs : t.outs[i][1] = x
  <2> SUFFICES ASSUME NEW x, NEW v, PaidOnce(t, x, v)
               PROVE  \E i \in DOMAIN t.outs : t.outs[i][1] = x
    OBVIOUS
  <2>1. Cardinality({i \in DOMAIN t.outs : t.outs[i][1] = x}) = 1
    BY DEF PaidOnce
  <2>2. {i \in DOMAIN t.outs : t.outs[i][1] = x} # {}
    <3>1. Cardinality({}) # 1
      BY FS_EmptySet
    <3> QED
      BY <2>1, <3>1
  <2> QED
    BY <2>2
<1>8. A # B
  BY DEF A, B
<1>9. Paid(t) = {P(A, a), P(B, c)}
  <2>1. CASE t.outs = <<<<A, a>>, <<B, c>>>>
    BY <2>1 DEF Paid
  <2>2. CASE t.outs = <<<<A, a - 1>>, <<B, c + 1>>>>
    <3>1. 1 \in DOMAIN t.outs /\ t.outs[1][1] = A /\ t.outs[1][2] = a - 1
      BY <2>2
    <3> QED
      BY <1>1, <1>3, <1>6, <3>1
  <2>3. CASE t.outs = <<<<B, c - f - 1>>, <<A, a>>>>
    <3>1. 1 \in DOMAIN t.outs /\ t.outs[1][1] = B /\ t.outs[1][2] = c - f - 1
      BY <2>3
    <3> QED
      BY <1>1, <1>3, <1>4, <1>6, <3>1
  <2>4. CASE t.outs = <<<<A, a>>>>
    <3>1. \A i \in DOMAIN t.outs : t.outs[i][1] = A
      BY <2>4
    <3> QED
      BY <1>3, <1>7, <1>8, <3>1
  <2>5. CASE t.outs = <<<<A, a>>, <<A, a>>, <<B, c>>>>
    BY <2>5 DEF Paid
  <2> QED
    BY <1>5, <2>1, <2>2, <2>3, <2>4, <2>5
<1>10. P(A, a).id = A /\ P(A, a).value = a /\ P(B, c).id = B /\ P(B, c).value = c
  OBVIOUS
<1> HIDE DEF P
<1> QED
  BY <1>1, <1>4, <1>8, <1>9, <1>10 DEF S

(* One more transaction takes away the coins it spends, no others, and     *)
(* adds what it pays.                                                      *)
LEMMA LeftStep ==
  ASSUME IndexInv, Shapes, OwnInv, NetInv, OnceInv, SourceInv, FundsInv,
         NEW k \in seen..(Len(net) - 1), Summable(Left(k))
  PROVE  Summable(Left(k + 1)) /\ SumValues(Left(k)) <= SumValues(Left(k + 1))
<1>0. /\ Len(net) \in Nat /\ DOMAIN net = 1..Len(net) /\ seen \in 0..Len(net)
      /\ k \in Nat /\ k + 1 \in DOMAIN net /\ seen <= k /\ k <= Len(net)
      /\ \A i : i \in 1..(k + 1) <=> i \in 1..k \/ i = k + 1
      /\ \A i \in 1..(k + 1) : i \in DOMAIN net
      /\ \A i \in 1..k : i # k + 1
  BY QueueIs DEF Shapes, QueueShapes
<1>1. PICK t : t = net[k + 1].tx
  OBVIOUS
<1>2. Balanced(t)
  BY <1>0, <1>1, NetIsBalanced
<1>3. PICK u \in SUBSET MadeBy(seen) : \E p, q :
        /\ Summable(u) /\ t.ins = {x.id : x \in u}
        /\ Paid(t) = {p, q} /\ p.id # q.id /\ p.value \in Int /\ q.value \in Int
        /\ SumValues(u) <= p.value + q.value
  BY <1>2 DEF Balanced
<1>4. /\ Summable(u) /\ t.ins = {x.id : x \in u}
      /\ Summable(Paid(t)) /\ SumValues(u) <= SumValues(Paid(t))
  <2>1. PICK p, q :
          /\ Summable(u) /\ t.ins = {x.id : x \in u}
          /\ Paid(t) = {p, q} /\ p.id # q.id /\ p.value \in Int /\ q.value \in Int
          /\ SumValues(u) <= p.value + q.value
    BY <1>3
  <2>2. Summable({p, q}) /\ SumValues({p, q}) = p.value + q.value
    BY <2>1, SumPair
  <2> QED
    BY <2>1, <2>2
<1>5. MadeBy(seen) \subseteq MadeBy(k) /\ MadeBy(k) \subseteq MadeBy(Len(net))
  <2>1. seen \in Nat
    BY <1>0
  <2> QED
    BY <1>0, <2>1, MadeGrows
<1>6. \A x \in Paid(t) : Pays(t, x.id) /\ x.id \notin Coins
  <2> SUFFICES ASSUME NEW x \in Paid(t) PROVE Pays(t, x.id) /\ x.id \notin Coins
    OBVIOUS
  <2>1. Pays(t, x.id)
    BY PaidIs
  <2> QED
    BY <1>0, <1>1, <2>1, SignedPaysAddresses DEF NetInv
<1>7. ASSUME NEW x, Pays(t, x), NEW j \in 1..k PROVE ~Pays(net[j].tx, x)
  <2> SUFFICES ASSUME Pays(net[j].tx, x) PROVE FALSE
    OBVIOUS
  <2>1. t \in SignedTxs /\ net[j].tx \in SignedTxs
    BY <1>0, <1>1 DEF NetInv
  <2>2. net[j].tx = t
    BY <1>7, <2>1, SignedPaysOnce
  <2> QED
    BY <1>0, <1>1, <2>2 DEF NetInv
<1>8. u \subseteq Left(k)
  <2> SUFFICES ASSUME NEW x \in u, NEW i \in 1..k PROVE x.id \notin net[i].tx.ins
    BY <1>5 DEF Left
  <2>1. x.id \in t.ins
    BY <1>4
  <2>2. net[i].tx.ins \cap t.ins = {}
    BY <1>0, <1>1 DEF NetInv
  <2> QED
    BY <2>1, <2>2
<1>9. \A x \in Left(k) : x.id \in t.ins => x \in u
  <2> SUFFICES ASSUME NEW x \in Left(k), NEW y \in u, x.id = y.id PROVE x = y
    BY <1>4
  <2>1. x \in MadeBy(Len(net)) /\ y \in MadeBy(Len(net))
    BY <1>5 DEF Left
  <2> QED
    BY <2>1, SameCoin
<1>10. Paid(t) \cap Left(k) = {}
  <2> SUFFICES ASSUME NEW x \in Paid(t), x \in MadeBy(k) PROVE FALSE
    BY DEF Left
  <2>1. Pays(t, x.id) /\ x.id \notin Coins
    BY <1>6
  <2>2. CASE x \in Plain(InitialCoins)
    BY <2>1, <2>2 DEF Plain, PlainCoin, InitialCoins
  <2>3. ASSUME NEW j \in 1..k, x \in Paid(net[j].tx) PROVE FALSE
    <3>1. Pays(net[j].tx, x.id)
      BY <2>3, PaidIs
    <3> QED
      BY <1>7, <2>1, <3>1
  <2> QED
    BY <2>2, <2>3 DEF MadeBy
<1>11. ASSUME NEW x \in Paid(t), NEW i \in 1..(k + 1) PROVE x.id \notin net[i].tx.ins
  <2> SUFFICES ASSUME x.id \in net[i].tx.ins PROVE FALSE
    OBVIOUS
  <2>1. PICK s \in sigs_sent : s.tx = net[i].tx
    BY <1>0 DEF NetInv, SignedTxs
  <2>2. s.nick \in Takers /\ TxOf(s.nick, net[i].tx)
    BY <2>1 DEF Shapes, OrderShapes, TxOf
  <2>3. Ready(x.id)
    BY <2>2 DEF SourceInv
  <2>4. Pays(t, x.id) /\ x.id \notin Coins
    BY <1>6
  <2>5. PICK j \in 1..seen : Pays(net[j].tx, x.id)
    BY <2>3, <2>4 DEF Ready
  <2>6. j \in 1..k
    BY <1>0
  <2> QED
    BY <1>7, <2>4, <2>5, <2>6
<1>12. MadeBy(k + 1) = MadeBy(k) \cup Paid(t)
  BY <1>0, <1>1 DEF MadeBy
<1>13. Left(k + 1) = (Left(k) \ u) \cup Paid(t)
  <2>1. ASSUME NEW x \in Left(k + 1) PROVE x \in (Left(k) \ u) \cup Paid(t)
    <3>1. x \in MadeBy(k) \cup Paid(t) /\ \A i \in 1..k : x.id \notin net[i].tx.ins
      BY <1>0, <1>12, <2>1 DEF Left
    <3>2. x.id \notin t.ins
      BY <1>0, <1>1, <2>1 DEF Left
    <3>3. x \notin u
      BY <1>4, <3>2
    <3> QED
      BY <3>1, <3>3 DEF Left
  <2>2. ASSUME NEW x \in Left(k), x \notin u PROVE x \in Left(k + 1)
    <3>1. x.id \notin t.ins
      BY <1>9, <2>2
    <3> QED
      BY <1>0, <1>1, <1>12, <2>2, <3>1 DEF Left
  <2>3. ASSUME NEW x \in Paid(t) PROVE x \in Left(k + 1)
    BY <1>11, <1>12, <2>3 DEF Left
  <2> QED
    BY <2>1, <2>2, <2>3
<1>14. Summable(Left(k) \ u)
  BY PartIsSummable
<1>15. SumValues(Left(k)) = SumValues(Left(k) \ u) + SumValues(u)
  <2>1. (Left(k) \ u) \cup u = Left(k) /\ (Left(k) \ u) \cap u = {}
    BY <1>8
  <2> QED
    BY <1>4, <1>14, <2>1, SumUnion
<1>16. Summable(Left(k + 1))
       /\ SumValues(Left(k + 1)) = SumValues(Left(k) \ u) + SumValues(Paid(t))
  <2>1. (Left(k) \ u) \cap Paid(t) = {}
    BY <1>10
  <2> QED
    BY <1>4, <1>13, <1>14, <2>1, SumUnion
<1>17. SumValues(Left(k) \ u) \in Int /\ SumValues(u) \in Int /\ SumValues(Paid(t)) \in Int
  BY <1>4, <1>14, SumInt
<1> QED
  BY <1>4, <1>15, <1>16, <1>17

LEMMA LeftGrows ==
  ASSUME IndexInv, Shapes, OwnInv, NetInv, OnceInv, SourceInv, FundsInv
  PROVE  \A k \in seen..Len(net) :
           Summable(Left(k)) /\ SumValues(Left(seen)) <= SumValues(Left(k))
<1>0. Len(net) \in Nat /\ seen \in 0..Len(net)
  BY QueueIs DEF Shapes, QueueShapes
<1> DEFINE Fine(k) == Summable(Left(k)) /\ SumValues(Left(seen)) <= SumValues(Left(k))
           T == {k \in seen..Len(net) : ~Fine(k)}
<1>1. Fine(seen)
  <2>1. Summable(Left(seen))
    <3>1. Summable(Plain(wallet))
      BY SumPlain DEF FundsInv
    <3> QED
      BY <3>1 DEF FundsInv
  <2>2. SumValues(Left(seen)) \in Int
    BY <2>1, SumInt
  <2> QED
    BY <2>1, <2>2
<1>2. ASSUME NEW k \in seen..(Len(net) - 1), Fine(k) PROVE Fine(k + 1)
  <2>1. Summable(Left(k + 1)) /\ SumValues(Left(k)) <= SumValues(Left(k + 1))
    BY <1>2, LeftStep
  <2>2. /\ SumValues(Left(seen)) \in Int /\ SumValues(Left(k)) \in Int
        /\ SumValues(Left(k + 1)) \in Int
    BY <1>1, <1>2, <2>1, SumInt
  <2>3. SumValues(Left(seen)) <= SumValues(Left(k))
    BY <1>2
  <2> QED
    BY <2>1, <2>2, <2>3
<1> HIDE DEF Fine
<1>3. T = {}
  <2> SUFFICES ASSUME T # {} PROVE FALSE
    OBVIOUS
  <2>1. T \in SUBSET Nat
    BY <1>0
  <2>2. PICK k \in T : \A j \in T : k <= j
    BY <2>1, LeastNat
  <2>3. k \in seen..Len(net) /\ k # seen /\ ~Fine(k)
    BY <1>1
  <2>4. k - 1 \in seen..(Len(net) - 1) /\ k - 1 \in seen..Len(net) /\ (k - 1) + 1 = k
        /\ ~(k <= k - 1)
    BY <1>0, <2>3
  <2>5. Fine(k - 1)
    BY <2>2, <2>4
  <2> QED
    BY <1>2, <2>3, <2>4, <2>5
<1> QED
  BY <1>3 DEF Fine

LEMMA InitialCoin ==
  ASSUME NEW c \in InitialCoins
  PROVE  c.id \in Coins /\ c = [id |-> c.id, md |-> c.id[1], value |-> CoinValue[c.id],
                               conf |-> TRUE]
<1>1. PICK x \in Coins : c = [id |-> x, md |-> x[1], value |-> CoinValue[x], conf |-> TRUE]
  BY DEF InitialCoins
<1>2. c.id = x
  BY <1>1
<1> QED
  BY <1>1, <1>2

(* The coins that the network holds for us are what is left, one of each   *)
(* name.                                                                   *)
LEMMA ChainIsPlain ==
  ASSUME IndexInv, Shapes, OwnInv, NetInv, OnceInv, FundsInv
  PROVE  /\ Plain(ChainView) = Left(Len(net))
         /\ \A c, d \in ChainView : c.id = d.id => c = d
<1>0. Len(net) \in Nat /\ DOMAIN net = 1..Len(net)
  BY QueueIs DEF Shapes, QueueShapes
<1> DEFINE Outs(i) == Outputs(net[i].tx, net[i].conf)
<1>1. \A c : c \in ChainView <=>
        /\ c \in InitialCoins \/ \E i \in DOMAIN net : c \in Outs(i)
        /\ \A i \in DOMAIN net : c.id \notin net[i].tx.ins
  BY DEF ChainView
<1>2. \A c : PlainCoin(c).id = c.id
  BY DEF PlainCoin
<1>3. \A i : Plain(Outs(i)) = Paid(net[i].tx)
  BY PaidIs
<1>4. \A p : p \in MadeBy(Len(net)) <=>
        \E c : /\ p = PlainCoin(c)
               /\ c \in InitialCoins \/ \E i \in DOMAIN net : c \in Outs(i)
  <2>1. \A i : \A p : p \in Paid(net[i].tx) <=> \E c \in Outs(i) : p = PlainCoin(c)
    BY <1>3 DEF Plain
  <2> HIDE DEF Outs
  <2>2. \A p : p \in MadeBy(Len(net)) <=> \/ \E c \in InitialCoins : p = PlainCoin(c)
                                         \/ \E i \in DOMAIN net : p \in Paid(net[i].tx)
    BY <1>0 DEF MadeBy, Plain
  <2> QED
    BY <2>1, <2>2
<1>5. Plain(ChainView) = Left(Len(net))
  <2>1. ASSUME NEW c \in ChainView PROVE PlainCoin(c) \in Left(Len(net))
    BY <1>0, <1>1, <1>2, <1>4 DEF Left
  <2>2. ASSUME NEW p \in Left(Len(net)) PROVE p \in Plain(ChainView)
    <3>1. PICK c : /\ p = PlainCoin(c)
                   /\ c \in InitialCoins \/ \E i \in DOMAIN net : c \in Outs(i)
      BY <1>4 DEF Left
    <3>2. c \in ChainView
      BY <1>0, <1>1, <1>2, <3>1 DEF Left
    <3> QED
      BY <3>1, <3>2 DEF Plain
  <2> QED
    BY <2>1, <2>2 DEF Plain
<1>6. ASSUME NEW c \in ChainView, NEW d \in ChainView, c.id = d.id PROVE c = d
  <2>1. PlainCoin(c) = PlainCoin(d)
    <3>1. PlainCoin(c) \in MadeBy(Len(net)) /\ PlainCoin(d) \in MadeBy(Len(net))
      BY <1>1, <1>4
    <3> QED
      BY <1>2, <1>6, <3>1, SameCoin
  <2>2. \A i \in DOMAIN net : \A e : e \in Outs(i) => Pays(net[i].tx, e.id) /\ e.id \notin Coins
    <3> SUFFICES ASSUME NEW i \in DOMAIN net, NEW e \in Outs(i)
                 PROVE  Pays(net[i].tx, e.id) /\ e.id \notin Coins
      OBVIOUS
    <3>1. Pays(net[i].tx, e.id)
      BY OutputsArePaid
    <3> QED
      BY <3>1, SignedPaysAddresses DEF NetInv
  <2>3. CASE c \in InitialCoins /\ d \in InitialCoins
    BY <1>6, <2>3, InitialCoin
  <2>4. ASSUME NEW i \in DOMAIN net, NEW j \in DOMAIN net, c \in Outs(i), d \in Outs(j)
        PROVE  c = d
    <3>1. Pays(net[i].tx, c.id) /\ Pays(net[j].tx, c.id)
      BY <1>6, <2>2, <2>4
    <3>2. net[i].tx = net[j].tx
      BY <3>1, SignedPaysOnce DEF NetInv
    <3>3. i = j
      BY <3>2 DEF NetInv
    <3>4. c \in Outs(i) /\ d \in Outs(i)
      BY <2>4, <3>3
    <3>5. \A e, f \in Outs(i) : PlainCoin(e) = PlainCoin(f) => e = f
      BY PaidIs
    <3> HIDE DEF Outs
    <3> QED
      BY <2>1, <3>4, <3>5
  <2>5. \A e \in InitialCoins : e.id \in Coins
    BY DEF InitialCoins
  <2> HIDE DEF Outs
  <2>6. ASSUME NEW e \in InitialCoins, NEW i \in DOMAIN net, NEW h \in Outs(i) PROVE e.id # h.id
    BY <2>2, <2>5
  <2>7. CASE c \in InitialCoins /\ \E j \in DOMAIN net : d \in Outs(j)
    BY <1>6, <2>6, <2>7
  <2>8. CASE d \in InitialCoins /\ \E i \in DOMAIN net : c \in Outs(i)
    BY <1>6, <2>6, <2>8
  <2>9. CASE (\E i \in DOMAIN net : c \in Outs(i)) /\ \E j \in DOMAIN net : d \in Outs(j)
    BY <2>4, <2>9
  <2> QED
    BY <1>1, <2>3, <2>7, <2>8, <2>9
<1> QED
  BY <1>5, <1>6

(* A round of the monitor leaves the wallet with what is left after one    *)
(* more transaction, or with the same as before.                           *)
LEMMA ShowsIsPlain ==
  ASSUME IndexInv, Shapes, OwnInv, NetInv, OnceInv, SourceInv, FundsInv,
         NEW i \in DOMAIN net, NEW b \in BOOLEAN, Shows(i, b), NEW k, k = seen'
  PROVE  /\ k \in seen..Len(net) /\ Plain(wallet') = Left(k)
         /\ \A c, d \in wallet' : c.id = d.id => c = d
<1>0. Len(net) \in Nat /\ DOMAIN net = 1..Len(net) /\ seen \in 0..Len(net)
  BY QueueIs DEF Shapes, QueueShapes
<1>1. PICK t : t = net[i].tx
  OBVIOUS
<1>2. /\ k \in seen..Len(net) /\ wallet' = process_new_tx(t, b)
      /\ \A j : j \in 1..k <=> j \in 1..seen \/ j = i
      /\ k \in Nat /\ seen \in Nat /\ seen <= k /\ k <= Len(net)
  BY <1>0, <1>1 DEF Shows
<1>3. \A x : Pays(t, x) => /\ x \notin Coins
                           /\ \A j \in 1..seen : Pays(net[j].tx, x) => j = i
                           /\ \A j \in 1..k : x \notin net[j].tx.ins
  BY <1>1, ShownIsUnspent
<1>4. \A c : c \in wallet' <=> \/ c \in wallet /\ c.id \notin t.ins /\ ~Pays(t, c.id)
                               \/ c \in Outputs(t, b)
  BY <1>2, Processed
<1>5. /\ \A x : Pays(t, x) <=> \E p \in Paid(t) : p.id = x
      /\ Plain(Outputs(t, b)) = Paid(t)
      /\ \A c, d \in Outputs(t, b) : PlainCoin(c) = PlainCoin(d) => c = d
  BY PaidIs
<1>6. MadeBy(k) \subseteq MadeBy(Len(net)) /\ MadeBy(k) = MadeBy(seen) \cup Paid(t)
  <2>1. MadeBy(k) \subseteq MadeBy(Len(net))
    BY <1>0, <1>2, MadeGrows
  <2>2. MadeBy(k) = MadeBy(seen) \cup Paid(t)
    BY <1>1, <1>2 DEF MadeBy
  <2> QED
    BY <2>1, <2>2
<1>7. \A c : PlainCoin(c).id = c.id
  BY DEF PlainCoin
<1>8. ASSUME NEW p PROVE p \in Plain(wallet') <=>
        \/ p \in Left(seen) /\ p.id \notin t.ins /\ ~Pays(t, p.id)
        \/ p \in Paid(t)
  <2>1. p \in Left(seen) <=> \E c \in wallet : p = PlainCoin(c)
    BY DEF FundsInv, Plain
  <2>2. p \in Paid(t) <=> \E c \in Outputs(t, b) : p = PlainCoin(c)
    BY <1>5 DEF Plain
  <2>3. p \in Plain(wallet') <=> \E c : c \in wallet' /\ p = PlainCoin(c)
    BY DEF Plain
  <2> QED
    BY <1>4, <1>7, <2>1, <2>2, <2>3
<1>9. ASSUME NEW p, p \in Plain(wallet') PROVE p \in Left(k)
  <2>1. CASE p \in Left(seen) /\ p.id \notin t.ins
    BY <1>1, <1>2, <1>6, <2>1 DEF Left
  <2>2. CASE p \in Paid(t)
    <3>1. Pays(t, p.id)
      BY <1>5, <2>2
    <3> QED
      BY <1>3, <1>6, <2>2, <3>1 DEF Left
  <2> QED
    BY <1>8, <1>9, <2>1, <2>2
<1>10. ASSUME NEW p, p \in Left(k) PROVE p \in Plain(wallet')
  <2>1. CASE p \in Paid(t)
    BY <1>8, <2>1
  <2>2. CASE p \notin Paid(t)
    <3>1. p \in Left(seen) /\ p.id \notin t.ins
      BY <1>1, <1>2, <1>6, <1>10, <2>2 DEF Left
    <3>2. ~Pays(t, p.id)
      <4> SUFFICES ASSUME NEW r \in Paid(t), r.id = p.id PROVE FALSE
        BY <1>5
      <4>1. r \in MadeBy(Len(net)) /\ p \in MadeBy(Len(net))
        BY <1>6, <1>10 DEF Left
      <4>2. r = p
        BY <4>1, SameCoin
      <4> QED
        BY <2>2, <4>2
    <3> QED
      BY <1>8, <3>1, <3>2
  <2> QED
    BY <2>1, <2>2
<1>11. Plain(wallet') = Left(k)
  BY <1>9, <1>10
<1>12. ASSUME NEW c \in wallet', NEW d \in wallet', c.id = d.id PROVE c = d
  <2>1. CASE c \in Outputs(t, b) /\ d \in Outputs(t, b)
    <3>1. PlainCoin(c) \in Paid(t) /\ PlainCoin(d) \in Paid(t)
      BY <1>5, <2>1 DEF Plain
    <3>2. PlainCoin(c) = PlainCoin(d)
      BY <1>6, <1>7, <1>12, <3>1, SameCoin
    <3> QED
      BY <1>5, <2>1, <3>2
  <2>2. \A e \in Outputs(t, b) : Pays(t, e.id)
    BY OutputsArePaid
  <2>3. CASE c \notin Outputs(t, b) /\ d \notin Outputs(t, b)
    BY <1>4, <1>12, <2>3 DEF FundsInv
  <2> QED
    BY <1>4, <1>12, <2>1, <2>2, <2>3
<1> QED
  BY <1>2, <1>11, <1>12

(* In any step, also across a crash, the wallet goes from what was left    *)
(* after one transaction to what was left after the same or a later one.   *)
LEMMA NextLeft ==
  ASSUME ConfirmInTime, IndexInv, Shapes, OwnInv, NetInv, SerialInv, CallbackInv, OnceInv,
         SourceInv, FundsInv, [Next]_vars, NEW k, k = seen'
  PROVE  /\ k \in seen..Len(net) /\ Plain(wallet') = Left(k)
         /\ \A c, d \in wallet' : c.id = d.id => c = d
         /\ MadeBy(k)' = MadeBy(k) /\ Left(k)' = Left(k)
<1>0. Len(net) \in Nat /\ DOMAIN net = 1..Len(net) /\ seen \in 0..Len(net)
  BY QueueIs DEF Shapes, QueueShapes
<1>1. /\ k \in seen..Len(net) /\ Plain(wallet') = Left(k)
      /\ \A c, d \in wallet' : c.id = d.id => c = d
  <2>1. CASE Crash
    <3>1. k = Len(net) /\ wallet' = ChainView
      BY <2>1 DEF Crash, ClientRestart
    <3> QED
      BY <1>0, <3>1, ChainIsPlain
  <2>2. CASE UNCHANGED <<wallet, seen>>
    BY <1>0, <2>2 DEF FundsInv
  <2>3. ASSUME NEW i \in DOMAIN net, NEW b \in BOOLEAN, Shows(i, b)
        PROVE  /\ k \in seen..Len(net) /\ Plain(wallet') = Left(k)
               /\ \A c, d \in wallet' : c.id = d.id => c = d
    BY <2>3, ShowsIsPlain
  <2> QED
    BY <2>1, <2>2, <2>3, NextWallet
<1>2. \A i \in 1..k : net'[i].tx = net[i].tx
  <2>1. \A i \in 1..k : i \in DOMAIN net
    BY <1>0, <1>1
  <2>2. CASE Crash
    BY <2>2 DEF Crash
  <2>3. CASE ~Crash
    BY <2>1, <2>3, NextNetGrows DEF NetGrows
  <2> QED
    BY <2>2, <2>3
<1> QED
  BY <1>1, <1>2, NetIsSame

LEMMA NextFunds ==
  ASSUME ConfirmInTime, IndexInv, IndexInv', Shapes, OwnInv, NetInv, SerialInv, CallbackInv,
         OnceInv, SourceInv, FundsInv, [Next]_vars
  PROVE  FundsInv' /\ SumValues(wallet') >= SumValues(wallet)
<1>0. Len(net) \in Nat /\ DOMAIN net = 1..Len(net) /\ seen \in 0..Len(net)
  BY QueueIs DEF Shapes, QueueShapes
<1>1. PICK k : k = seen'
  OBVIOUS
<1>2. /\ k \in seen..Len(net) /\ Plain(wallet') = Left(k)
      /\ \A c, d \in wallet' : c.id = d.id => c = d
      /\ MadeBy(k)' = MadeBy(k) /\ Left(k)' = Left(k)
  BY <1>1, NextLeft
<1>3. MadeBy(seen)' = MadeBy(k) /\ Left(seen)' = Left(k)
  BY <1>1, <1>2 DEF MadeBy, Left
<1>4. MadeBy(seen) \subseteq MadeBy(seen)'
  <2>1. seen \in Nat /\ k \in Nat /\ seen <= k
    BY <1>0, <1>2
  <2> QED
    BY <1>3, <2>1, MadeGrows
<1>5. Summable(Left(k)) /\ SumValues(Left(seen)) <= SumValues(Left(k))
  BY <1>2, LeftGrows
<1>6. Summable(wallet')
  BY <1>2, <1>5, FromPlain
<1>7. ASSUME NEW t, Balanced(t) PROVE Balanced(t)'
  BY <1>4, <1>7 DEF Balanced
<1>8. ASSUME NEW n \in Takers, NEW g, GrantOf(n, g)'
      PROVE  /\ Summable(g.utxos) /\ g.utxos \subseteq MadeBy(seen)'
             /\ g.cjaddr # g.changeaddr
  <2>1. CASE GrantOf(n, g)
    BY <1>4, <2>1 DEF FundsInv
  <2>2. ASSUME NEW md, AuthAt(n, g, md)
        PROVE  /\ Summable(g.utxos) /\ g.utxos \subseteq MadeBy(seen)'
               /\ g.cjaddr # g.changeaddr
    <3>1. g.utxos \subseteq Plain(wallet)
      BY <2>2 DEF AuthAt, Plain
    <3>2. Summable(Plain(wallet))
      BY SumPlain DEF FundsInv
    <3>3. Plain(wallet) \subseteq MadeBy(seen)
      BY DEF FundsInv, Left
    <3>4. g.cjaddr # g.changeaddr
      BY <2>2, GrantIsNew
    <3> QED
      BY <1>4, <3>1, <3>2, <3>3, <3>4, PartIsSummable
  <2> QED
    BY <1>8, <2>1, <2>2, NextOwnMoves DEF OwnMoves, NoNewGrant, NewGrant
<1>9. ASSUME NEW n \in Takers, NEW t, TxOf(n, t)' PROVE Balanced(t)'
  <2>1. CASE TxOf(n, t)
    BY <1>7, <2>1 DEF FundsInv
  <2>2. ASSUME NEW o, NewTx(n, t, o) PROVE Balanced(t)'
    <3>1. /\ t \in ProposedTxs(o) /\ verify_unsigned_tx(t, o) /\ o.amount \in Amounts
          /\ t.ins \subseteq {u.id : u \in o.grant.utxos} /\ GrantOf(n, o.grant)
      BY <2>2 DEF NewTx, TxAt
    <3>2. /\ Summable(o.grant.utxos) /\ o.grant.utxos \subseteq MadeBy(seen)
          /\ o.grant.cjaddr # o.grant.changeaddr
      BY <3>1 DEF FundsInv
    <3>3. t.ins = {u.id : u \in o.grant.utxos}
      BY <3>1 DEF verify_unsigned_tx
    <3>4. PICK p, q : /\ Paid(t) = {p, q} /\ p.id # q.id
                      /\ p.value \in Int /\ q.value \in Int
                      /\ SumValues(o.grant.utxos) <= p.value + q.value
      BY <3>1, <3>2, VerifiedPays
    <3>5. Balanced(t)
      BY <3>2, <3>3, <3>4 DEF Balanced
    <3> QED
      BY <1>7, <3>5
  <2> QED
    BY <1>9, <2>1, <2>2, NextOwnMoves DEF OwnMoves, NoNewTx, NewTx
<1>10. FundsInv'
  BY <1>2, <1>3, <1>6, <1>8, <1>9 DEF FundsInv
<1>11. SumValues(wallet') = SumValues(Left(k))
  BY <1>2, <1>6, SumPlain
<1>12. SumValues(wallet) = SumValues(Left(seen))
  BY SumPlain DEF FundsInv
<1>13. SumValues(Left(k)) \in Int /\ SumValues(Left(seen)) \in Int
  BY <1>5, <1>12, SumInt DEF FundsInv
<1> QED
  BY <1>5, <1>10, <1>11, <1>12, <1>13

(***************************************************************************)
(* The theorems about offers and coins                                     *)
(***************************************************************************)

MakerInv == IndexInv /\ Shapes /\ PitInv /\ OwnInv /\ FillOrder /\ NetInv

FollowsInv == SerialInv /\ CallbackInv /\ FollowInv

LEMMA InitMaker == Init => MakerInv /\ FollowsInv
<1> SUFFICES ASSUME Init PROVE MakerInv /\ FollowsInv
  OBVIOUS
<1>1. /\ up = <<>> /\ down = <<[type |-> "JMUp"]>> /\ net = <<>> /\ fills = 0 /\ crashes = 0
      /\ d_offerlist = {} /\ active_orders = [n \in Takers |-> NoOrder] /\ pit = {}
      /\ sigs_sent = {} /\ offerlist = {} /\ orders_loop = TRUE /\ ready_loop = -1
      /\ reactor_stopped = FALSE /\ finalized_offers = [n \in Takers |-> NoTx]
      /\ unconfirm_cbs = {} /\ confirm_cbs = {} /\ checks = {} /\ given_out = <<>>
      /\ active_txs = {} /\ seen = 0
  BY DEF Init, LinkInit, DaemonInit, ClientInit
<1>2. /\ DOMAIN up = {} /\ DOMAIN net = {} /\ DOMAIN down = {1} /\ down[1].type = "JMUp"
      /\ Len(net) = 0 /\ \A n \in Takers : ~HasOrder(n)
  BY <1>1 DEF HasOrder
<1>3. IndexInv
  BY DEF Init, ClientInit, IndexInv, NoAddressReuse
<1>4. Shapes
  <2>1. IsQueue(up) /\ IsQueue(down) /\ IsQueue(net)
    <3>1. <<>> \in Seq({}) /\ <<[type |-> "JMUp"]>> \in Seq({[type |-> "JMUp"]})
      OBVIOUS
    <3> QED
      BY <1>1, <3>1, IsAQueue
  <2>2. QueueShapes
    BY <1>1, <1>2, <2>1 DEF QueueShapes
  <2>3. OrderShapes
    BY <1>1, <1>2 DEF OrderShapes
  <2>4. MessageShapes
    BY <1>2 DEF MessageShapes, DownFine
  <2> QED
    BY <2>2, <2>3, <2>4 DEF Shapes
<1>5. PitInv
  BY <1>1, <1>2 DEF PitInv, Before, Blank
<1>6. OwnInv
  <2>1. \A n \in Takers : \A g : ~GrantOf(n, g)
    BY <1>2 DEF GrantOf
  <2>2. \A n \in Takers : \A t : ~TxOf(n, t)
    BY <1>1, <1>2 DEF TxOf
  <2> QED
    BY <2>1, <2>2 DEF OwnInv, AddressOf
<1>7. FillOrder
  BY <1>2 DEF FillOrder
<1>8. NetInv
  BY <1>1, <1>2 DEF NetInv
<1>9. SerialInv
  BY <1>1, <1>2 DEF SerialInv, TxFrom
<1>10. CallbackInv
  BY <1>1, <1>2 DEF CallbackInv, Signed, SignedTxs
<1>11. FollowInv
  BY <1>1 DEF FollowInv, OneOffer
<1> QED
  BY <1>3, <1>4, <1>5, <1>6, <1>7, <1>8, <1>9, <1>10, <1>11 DEF MakerInv, FollowsInv

LEMMA NextMaker == MakerInv /\ [Next]_vars => MakerInv'
<1> SUFFICES ASSUME MakerInv, [Next]_vars PROVE MakerInv'
  OBVIOUS
<1>1. Shapes /\ Shapes' /\ IndexInv /\ IndexInv'
  BY NextShapes, NextIndex DEF MakerInv
<1> QED
  BY <1>1, NextPit, NextOwn, NextFillOrder, NextNet DEF MakerInv

(* Whatever crashes and overlaps, once the messages between client and     *)
(* daemon are handled, the client, the daemon and every watcher that has   *)
(* any offers have the same ones: the differences sent on_JM_ANNOUNCE_     *)
(* OFFERS and the whole list sent for a request for the order book agree.  *)
THEOREM PitAlwaysKnowsOffers == Spec => []PitKnowsOffers
<1>1. Init => MakerInv
  BY InitMaker
<1>2. MakerInv /\ [Next]_vars => MakerInv'
  BY NextMaker
<1>3. MakerInv => PitKnowsOffers
  BY PitIsToldAll DEF MakerInv
<1> QED
  BY <1>1, <1>2, <1>3, PTL DEF Spec

(* With takers that propose no transaction before their last one is        *)
(* confirmed, and transactions that confirm before their callbacks are     *)
(* dropped, the offer also is the one that the wallet allows: no order of  *)
(* callbacks, confirmations, late checks and new orders leaves an offer    *)
(* that on_tx_unconfirmed or on_tx_confirmed should have changed.          *)
THEOREM OffersStayInStep ==
  ASSUME SerialTakers, ConfirmInTime
  PROVE  Spec => []OffersAgree
<1>1. Init => MakerInv /\ FollowsInv
  BY InitMaker
<1>2. MakerInv /\ FollowsInv /\ [Next]_vars => MakerInv' /\ FollowsInv'
  <2> SUFFICES ASSUME MakerInv, FollowsInv, [Next]_vars PROVE MakerInv' /\ FollowsInv'
    OBVIOUS
  <2>1. MakerInv'
    BY NextMaker
  <2> QED
    BY <2>1, NextSerial, NextCallback, NextFollow DEF MakerInv, FollowsInv
<1>3. MakerInv /\ FollowsInv => OffersAgree
  BY PitIsToldAll, OffersAreFollowed DEF MakerInv, FollowsInv, OffersAgree
<1> QED
  BY <1>1, <1>2, <1>3, PTL DEF Spec

WalletInv == SerialInv /\ CallbackInv /\ OnceInv /\ SourceInv /\ ViewInv /\ FundsInv

LEMMA InitWallet == Init => WalletInv
<1> SUFFICES ASSUME Init PROVE WalletInv
  OBVIOUS
<1>1. SerialInv /\ CallbackInv
  BY InitMaker DEF FollowsInv
<1>2. /\ up = <<>> /\ down = <<[type |-> "JMUp"]>> /\ active_orders = [n \in Takers |-> NoOrder]
      /\ sigs_sent = {} /\ wallet = InitialCoins /\ seen = 0
  BY DEF Init, LinkInit, DaemonInit, ClientInit
<1>3. /\ DOMAIN up = {} /\ DOMAIN down = {1} /\ down[1].type = "JMUp"
      /\ \A n \in Takers : ~HasOrder(n)
      /\ 1..seen = {}
  BY <1>2 DEF HasOrder
<1>4. \A n \in Takers : /\ \A g : ~GrantOf(n, g) /\ ~FreshFor(n, g)
                        /\ \A t : ~TxOf(n, t)
  BY <1>2, <1>3 DEF GrantOf, FreshFor, TxOf, TxFrom
<1>5. OnceInv
  BY <1>4 DEF OnceInv
<1>6. SourceInv
  BY <1>2, <1>4 DEF SourceInv, Ready, InitialCoins
<1>7. ViewInv
  BY <1>2, <1>3 DEF ViewInv, Known, SpentBy
<1>8. FundsInv
  <2>1. Summable(wallet)
    <3> DEFINE f == [c \in Coins |-> [id |-> c, md |-> c[1], value |-> CoinValue[c],
                                      conf |-> TRUE]]
    <3>1. InitialCoins = {f[c] : c \in Coins}
      BY DEF InitialCoins
    <3>2. \A c \in Coins : f[c].value \in Int
      BY MakerAssumption
    <3>3. IsFiniteSet(Coins)
      BY MakerAssumption
    <3> HIDE DEF f
    <3>4. IsFiniteSet(InitialCoins)
      BY <3>1, <3>3, ImageIsFinite
    <3> QED
      BY <1>2, <3>1, <3>2, <3>4 DEF Summable
  <2>2. \A c, d \in wallet : c.id = d.id => c = d
    <3> SUFFICES ASSUME NEW c \in InitialCoins, NEW d \in InitialCoins, c.id = d.id PROVE c = d
      BY <1>2
    <3> QED
      BY InitialCoin
  <2>3. Plain(wallet) = Left(seen)
    BY <1>2, <1>3 DEF Left, MadeBy
  <2> QED
    BY <1>4, <2>1, <2>2, <2>3 DEF FundsInv
<1> QED
  BY <1>1, <1>5, <1>6, <1>7, <1>8 DEF WalletInv

LEMMA NextWalletInv ==
  SerialTakers /\ ConfirmInTime /\ MakerInv /\ WalletInv /\ [Next]_vars
  => MakerInv' /\ WalletInv' /\ SumValues(wallet') >= SumValues(wallet)
<1> SUFFICES ASSUME SerialTakers, ConfirmInTime, MakerInv, WalletInv, [Next]_vars
             PROVE  MakerInv' /\ WalletInv' /\ SumValues(wallet') >= SumValues(wallet)
  OBVIOUS
<1>1. MakerInv'
  BY NextMaker
<1>2. SerialInv' /\ CallbackInv'
  BY <1>1, NextSerial, NextCallback DEF MakerInv, WalletInv
<1>3. OnceInv'
  BY <1>1, NextOnce DEF MakerInv, WalletInv
<1>4. SourceInv' /\ ViewInv'
  BY NextSource, NextView DEF MakerInv, WalletInv
<1>5. FundsInv' /\ SumValues(wallet') >= SumValues(wallet)
  BY <1>1, NextFunds DEF MakerInv, WalletInv
<1> QED
  BY <1>1, <1>2, <1>3, <1>4, <1>5 DEF WalletInv

(* With such takers and confirmations, and any number of crashes, a        *)
(* monitor that has caught up has left the wallet with the coins that the  *)
(* network holds for us: whether it was shown a transaction once or twice, *)
(* before or after its callbacks were registered or dropped, or all at     *)
(* once by a restart, process_new_tx has put in and taken out the same     *)
(* coins, and none that was spent has come back.                           *)
THEOREM WalletStaysTrue ==
  ASSUME SerialTakers, ConfirmInTime
  PROVE  Spec => []WalletMatchesChain
<1>1. Init => MakerInv /\ WalletInv
  BY InitMaker, InitWallet
<1>2. MakerInv /\ WalletInv /\ [Next]_vars => MakerInv' /\ WalletInv'
  BY NextWalletInv
<1>3. MakerInv /\ WalletInv => WalletMatchesChain
  BY ViewIsChain DEF MakerInv, WalletInv
<1> QED
  BY <1>1, <1>2, <1>3, PTL DEF Spec

(* And no step leaves the wallet with less than it had: whichever orders   *)
(* overlap, however a taker's proposal differs from what was agreed, and   *)
(* whatever happened on the network while the maker was down,              *)
(* verify_unsigned_tx lets it sign only for transactions that return at    *)
(* least what they spend, and the wallet takes in every one of them whole. *)
THEOREM WalletIsNeverPoorer ==
  ASSUME SerialTakers, ConfirmInTime
  PROVE  Spec => WalletNeverShrinks
<1>1. Init => MakerInv /\ WalletInv
  BY InitMaker, InitWallet
<1>2. MakerInv /\ WalletInv /\ [Next]_vars => MakerInv' /\ WalletInv'
  BY NextWalletInv
<1>3. MakerInv /\ WalletInv /\ [Next]_vars => [WalletValue(wallet') >= WalletValue(wallet)]_vars
  BY NextWalletInv DEF WalletValue
<1> QED
  BY <1>1, <1>2, <1>3, PTL DEF Spec, WalletNeverShrinks

=============================================================================
