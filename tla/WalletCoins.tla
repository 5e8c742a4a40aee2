---------------------------- MODULE WalletCoins ----------------------------
(***************************************************************************)
(* The wallet in memory (wallet.py) and the service that keeps it in step  *)
(* with Bitcoin Core (wallet_service.py): opening and killing the program, *)
(* the two ways to synchronise, the transaction monitor, handing out       *)
(* addresses, freezing and choosing coins, and the SNICKER receiver.       *)
(*                                                                         *)
(* A sync is three reads of Core with the network going on in between: the *)
(* used addresses, the unspent coins, and the newest transaction, after    *)
(* which the monitor starts.  Everything else the reactor runs is one      *)
(* step; only a broadcast is apart from the decision that leads to it,     *)
(* since the program may be killed between the two.                        *)
(***************************************************************************)
EXTENDS WalletFile, FiniteSetsExt, SequencesExt

CONSTANT None           \* no broadcast is pending

VARIABLES
  phase,        \* how far the program has come
  index,        \* _index_cache: the next index of each branch
  known,        \* the addresses in _addr_map and _script_map
  utxos,        \* UTXOManager._utxo
  frozen,       \* the coins with the "disabled" mark in _utxo_meta
  imported,     \* ImportWalletMixin._imported
  used,         \* used_addresses
  active,       \* active_txs
  processed,    \* processed_txids
  news,         \* what Core lists after last_seen_txid, oldest first
  pending,      \* a transaction that is signed and about to be pushed
  matured,      \* the timelock of the bond address has passed
  \* History, for the properties:
  held,         \* coins frozen by the user or the wallet and not unfrozen since
  thawed,       \* coins the user unfroze
  floor,        \* the first index past all that were ever saved
  found,        \* the first index past all that this run's sync found used
  missed        \* coins the service could not take when Core told of them

memVars == <<phase, index, known, utxos, frozen, imported, used, active,
             processed, news, pending>>
ghosts == <<held, thawed, floor, found, missed>>
vars == <<coreVars, fileVars, memVars, matured, ghosts>>

Phases == {"off", "created", "opened", "addresses", "again", "unspent",
           "running"}

-----------------------------------------------------------------------------
(* Addresses and indices. *)

Below(ix) == {a \in HD : a[2] < ix[a[1]]}
Gap(ix) == {a \in HD : ix[a[1]] <= a[2] /\ a[2] < ix[a[1]] + GapLimit}
ImportedAddresses(im) == {TweakAddress(k) : k \in im}

\* yield_known_paths: what the maps hold once a wallet is loaded.
yield_known_paths(ix, im) == Below(ix) \cup ImportedAddresses(im) \cup {BondAddress}

\* _check_path: deriving the script at the next index moves the index on.
check_path(ix, addrs) ==
  [b \in Branches |->
     LET Taken(n) == \A i \in ix[b] .. n - 1 : <<b, i>> \in addrs
     IN  Max({n \in ix[b] .. MaxIndex + GapLimit : Taken(n)})]

\* collect_addresses_init: indices are moved over the gap and set back.
collect_addresses_init == yield_known_paths(index, imported) \cup Gap(index)

collect_addresses_gap(ix) == Gap(ix)

get_used_indices(addrs, kn) ==
  [b \in Branches |->
     Max({0} \cup {a[2] + 1 : a \in {c \in addrs \cap kn \cap HD : c[1] = b}})]

\* check_gap_indices: no used index is past the recorded one.
check_gap_indices(usedIx) == \A b \in Branches : usedIx[b] <= index[b]

\* Mutant: the saved indices are not looked at.
RewindToUsed(usedIx, savedIx) == usedIx

rewind_wallet_indices(usedIx, savedIx) ==
  [b \in Branches |-> Max({usedIx[b], savedIx[b]})]

-----------------------------------------------------------------------------
(* Saving. *)

Raise(fl, ix) == [b \in Branches |-> Max({fl[b], ix[b]})]

\* Wallet.save: imported keys, indices and coin marks go to one file write.
save(ix, fr, im) ==
  /\ save_file([index |-> ix, frozen |-> fr, imported |-> im])
  /\ floor' = Raise(floor, ix)

SaveIf(needed, ix, fr, im) ==
  IF needed THEN save(ix, fr, im) ELSE UNCHANGED <<disk, floor>>

-----------------------------------------------------------------------------
(* Coins. *)

\* FidelityBondMixin.add_utxo: a coin whose timelock is in the future is
\* frozen, whenever and however it is added.
add_utxo_freezes(T) == {t \in T : tx[t].addr = BondAddress /\ ~matured}

\* is_disabled, over all coins: UTXOManager.select_utxos and get_all_utxos
\* leave the disabled ones out.
Selectable == utxos \ frozen
get_all_utxos == utxos \ frozen

remove_old_utxos(U, T) == U \ {tx[t].spends : t \in T}

\* add_new_utxos: outputs to scripts the wallet does not know are passed over.
add_new_utxos(T) == {t \in T : tx[t].addr \in known}

-----------------------------------------------------------------------------
(* Opening, closing and being killed. *)

ForgetMemory ==
  /\ phase' = "off"
  /\ index' = Nothing.index
  /\ known' = {} /\ utxos' = {} /\ frozen' = {} /\ imported' = {}
  /\ used' = {} /\ active' = {} /\ processed' = {} /\ news' = <<>>
  /\ pending' = None
  /\ found' = Nothing.index
  /\ missed' = {}

CreateWallet ==
  /\ phase = "off"
  /\ Storage_create
  /\ phase' = "created"
  /\ UNCHANGED <<coreVars, index, known, utxos, frozen, imported, used,
                 active, processed, news, pending, matured, ghosts>>

\* initialize fills the empty storage and saves it; the seed is shown and the
\* wallet closed.
InitializeWallet ==
  /\ phase = "created"
  /\ save_file(Nothing)
  /\ lock' = FALSE
  /\ phase' = "off"
  /\ UNCHANGED <<coreVars, index, known, utxos, frozen, imported, used,
                 active, processed, news, pending, matured, ghosts>>

\* Mutant: the coin marks of the file are not read.
LoadWithoutMetadata ==
  /\ index' = disk.index
  /\ frozen' = {}
  /\ imported' = disk.imported
  /\ known' = yield_known_paths(disk.index, disk.imported)

\* BIP32Wallet.__init__ and the _load_storage of every class.
load_storage ==
  /\ index' = disk.index
  /\ frozen' = disk.frozen
  /\ imported' = disk.imported
  /\ known' = yield_known_paths(disk.index, disk.imported)

OpenWallet ==
  /\ phase = "off"
  /\ disk.kind = "wallet"
  /\ Storage_open
  /\ load_storage
  /\ phase' = "opened"
  /\ UNCHANGED <<coreVars, utxos, used, active, processed, news, pending,
                 matured, ghosts>>

\* A file without a wallet type is refused and the lock removed again.
OpenRefused ==
  /\ phase = "off"
  /\ disk.kind = "empty" /\ ~lock
  /\ UNCHANGED vars

\* import_private_key: a key whose script is known already is refused.
import_private_key(k) ==
  /\ TweakAddress(k) \notin known
  /\ imported' = imported \cup {k}
  /\ known' = known \cup {TweakAddress(k)}

\* wallet-tool importprivkey, which does not sync.
ImportKey(k) ==
  /\ phase = "opened"
  /\ import_private_key(k)
  /\ save(index, frozen, imported')
  /\ UNCHANGED <<coreVars, lock, phase, index, utxos, frozen, used, active,
                 processed, news, pending, matured, held, thawed, missed, found>>

StopService ==
  /\ phase \notin {"off", "created"}
  /\ pending = None
  /\ Storage_close
  /\ ForgetMemory
  /\ UNCHANGED <<coreVars, matured, held, thawed, floor>>

Kill ==
  /\ phase # "off"
  /\ Storage_killed
  /\ ForgetMemory
  /\ UNCHANGED <<coreVars, matured, held, thawed, floor>>

UserRemovesLock ==
  /\ phase = "off"
  /\ RemoveLock
  /\ UNCHANGED <<coreVars, memVars, matured, ghosts>>

-----------------------------------------------------------------------------
(* Synchronising. *)

\* The addresses are imported and the program ends, to be started again.
ImportAndExit(addrs) ==
  /\ import_addresses(addrs)
  /\ Storage_close
  /\ ForgetMemory
  /\ UNCHANGED floor

\* sync_addresses: the saved indices are no hint, only a lower bound; the
\* caller repeats it while it ends unsynced, except in the fast way.
sync_addresses(fast) ==
  LET init == collect_addresses_init
      received == yield_receiving
      usedIx == get_used_indices(received, known \cup init)
      ix == rewind_wallet_indices(usedIx, index)
      new == collect_addresses_gap(ix)
  IN  \/ /\ import_needed(init)
         /\ ImportAndExit(init)
      \/ /\ ~import_needed(init)
         /\ import_needed(new)
         /\ ImportAndExit(new)
      \/ /\ ~import_needed(init)
         /\ ~import_needed(new)
         /\ used' = received
         /\ index' = ix
         /\ known' = known \cup init \cup new
         /\ phase' = IF fast \/ check_gap_indices(usedIx)
                       THEN "addresses" ELSE "again"
         /\ found' = usedIx
         /\ UNCHANGED <<fileVars, watched, utxos, frozen, imported, active,
                        processed, news, pending, missed, floor>>

get_address_usages == listaddressgroupings

\* sync_addresses_fast: batches of addresses are derived until every used
\* address is met.
sync_addresses_fast ==
  LET usages == get_address_usages
      init == collect_addresses_init
      kn == known \cup init \cup (IF usages \subseteq init THEN {} ELSE HD)
      usedIx == get_used_indices(usages, kn)
      ix == rewind_wallet_indices(usedIx, index)
  IN  /\ usages # {}
      /\ used' = usages
      /\ index' = ix
      /\ known' = kn \cup collect_addresses_gap(ix)
      /\ import_addresses(collect_addresses_gap(ix))
      /\ phase' = "addresses"
      /\ found' = usedIx
      /\ UNCHANGED <<fileVars, utxos, frozen, imported, active, processed,
                     news, pending, missed, floor>>

SyncAddresses(fast) ==
  /\ phase = "opened"
  /\ IF fast /\ get_address_usages # {}
       THEN sync_addresses_fast
       ELSE sync_addresses(fast)
  /\ UNCHANGED <<tx, matured, held, thawed>>

\* sync_unspent: the coins are forgotten and taken from Core; the unconfirmed
\* ones go to the monitor.
SyncUnspent ==
  /\ phase \in {"addresses", "again"}
  /\ LET ours == {t \in listunspent : tx[t].addr \in known}
         unconfirmed == {t \in ours : get_transaction(t) = 0}
         bonds == add_utxo_freezes(ours)
     IN  /\ utxos' = ours
         /\ frozen' = frozen \cup bonds
         /\ held' = held \cup bonds
         /\ SaveIf(bonds # {}, index, frozen', imported)
         /\ active' = active \cup unconfirmed
         /\ processed' = processed \cup unconfirmed
         /\ missed' = listunspent \ ours
  /\ phase' = IF phase = "addresses" THEN "unspent" ELSE "opened"
  /\ UNCHANGED <<coreVars, lock, index, known, imported, used, news, pending,
                 matured, thawed, found>>

\* The end of sync_wallet: what Core lists from now on is new.
StartMonitor ==
  /\ phase = "unspent"
  /\ phase' = "running"
  /\ news' = <<>>
  /\ UNCHANGED <<coreVars, fileVars, index, known, utxos, frozen, imported,
                 used, active, processed, pending, matured, ghosts>>

-----------------------------------------------------------------------------
(* The transaction monitor. *)

\* Of active_txs, those that were confirmed: they are processed again, for the
\* height, and left; an unconfirmed one is passed over.
confirmed_active == {t \in active : get_transaction(t) = 1}

\* Mutant: a transaction that was mined before a pass is left out.
UnconfirmedOnly == {t \in Range(news) : get_transaction(t) = 0}

\* _yield_new_transactions, oldest first; one with a conflict is abandoned.
new_transactions == {t \in Range(news) : get_transaction(t) >= 0}

ListedBefore(s, t) ==
  \E i, j \in DOMAIN news : i < j /\ news[i] = s /\ news[j] = t

\* check_for_reuse, at each transaction that is new to the service: a coin on
\* an address that was used before it is frozen.
check_for_reuse(added) ==
  {t \in added :
     \/ tx[t].addr \in used
     \/ \E s \in added : ListedBefore(s, t) /\ tx[s].addr = tx[t].addr}

\* process_new_tx touched the wallet: a coin came or went.
Touches(t, T) ==
  \/ tx[t].addr \in known
  \/ tx[t].spends \in utxos \cup add_new_utxos(T)

\* One pass.  The transactions are processed in the order in which they came,
\* a parent before its child, and a coin has one spender at most that is no
\* conflict: so all coins may be added first and the spent ones removed then.
transaction_monitor ==
  /\ phase = "running" /\ pending = None
  /\ news # <<>> \/ \E t \in active : get_transaction(t) # 0
  /\ LET new == new_transactions
         all == confirmed_active \cup new
         unseen == add_new_utxos(new \ processed)
         freeze == add_utxo_freezes(add_new_utxos(all)) \cup check_for_reuse(unseen)
     IN  /\ utxos' = remove_old_utxos(utxos \cup add_new_utxos(all), all)
         /\ frozen' = frozen \cup freeze
         /\ used' = used \cup {tx[t].addr : t \in unseen}
         /\ active' = {t \in active : get_transaction(t) = 0}
                        \cup {t \in new : get_transaction(t) = 0 /\ Touches(t, all)}
         /\ processed' = processed \cup new
         /\ missed' = missed \cup {t \in new : tx[t].mine /\ tx[t].addr \notin known}
         /\ held' = held \cup freeze
         /\ SaveIf(freeze # {}, index, frozen', imported)
  /\ news' = <<>>
  /\ UNCHANGED <<coreVars, lock, phase, index, known, imported, pending,
                 matured, thawed, found>>

-----------------------------------------------------------------------------
(* What the program does with a running wallet. *)

NextAddress(b) == <<b, index[b]>>

\* get_internal_addr or get_external_addr; a maker saves before it sends the
\* address to a taker, the others do not.
GetAddress(b, saving) ==
  /\ phase = "running" /\ pending = None
  /\ index[b] < MaxIndex
  /\ index' = check_path(index, {NextAddress(b)})
  /\ known' = known \cup {NextAddress(b)}
  /\ import_addresses({NextAddress(b)})
  /\ SaveIf(saving, index', frozen, imported)
  /\ UNCHANGED <<tx, lock, phase, utxos, frozen, imported, used, active,
                 processed, news, pending, matured, held, thawed, missed, found>>

\* save_wallet, at the taker's unconfirm callback.
SaveWallet ==
  /\ phase = "running" /\ pending = None
  /\ disk.index # index
  /\ save(index, frozen, imported)
  /\ UNCHANGED <<coreVars, lock, memVars, matured, held, thawed, missed, found>>

\* disable_utxo, from the freeze command, the HTTP API or the Coins tab.
DisableUtxo(t, disable) ==
  /\ phase = "running" /\ pending = None
  /\ t \in utxos
  /\ (t \in frozen) # disable
  /\ frozen' = IF disable THEN frozen \cup {t} ELSE frozen \ {t}
  /\ held' = IF disable THEN held \cup {t} ELSE held \ {t}
  /\ thawed' = IF disable THEN thawed \ {t} ELSE thawed \cup {t}
  /\ save(index, frozen', imported)
  /\ UNCHANGED <<coreVars, lock, phase, index, known, utxos, imported, used,
                 active, processed, news, pending, matured, missed, found>>

\* select_utxos and the signing that follows: t stands for each coin chosen,
\* the payment goes elsewhere or back to the address handed out last.
SelectUtxos(t, a) ==
  /\ phase = "running" /\ pending = None
  /\ t \in Selectable
  /\ a \in {Elsewhere} \cup {<<b, index[b] - 1>> : b \in {c \in Branches : index[c] > 0}}
  /\ index' = check_path(index, {tx[t].addr})
  /\ known' = known \cup {tx[t].addr}
  /\ pending' = [spends |-> t, addr |-> a]
  /\ UNCHANGED <<coreVars, fileVars, phase, utxos, frozen, imported, used,
                 active, processed, news, matured, ghosts>>

\* Mutant: the key stays in memory.
ImportWithoutSave(k, ix) ==
  /\ import_private_key(k)
  /\ UNCHANGED <<disk, floor>>

\* check_tweak_matches_and_import: the key is imported and saved; a key that
\* is in the wallet already is an error.
check_tweak_matches_and_import(k, ix) ==
  /\ import_private_key(k)
  /\ save(ix, frozen, imported')

\* The acceptance callback asks that the coin is in the wallet and enabled.
default_acceptance_callback(t) == t \in get_all_utxos

\* parse_proposal_to_signed_tx, for a proposal that is well formed and signed
\* by its proposer: the key named is one of the wallet's own, the callback
\* accepts, and signing succeeds; a timelocked script cannot be signed so.
parse_proposal_to_signed_tx(t) ==
  /\ tx[t].addr \in known \ {BondAddress}
  /\ default_acceptance_callback(t)

\* process_proposals, for one proposal: the coin goes to the tweaked key, which
\* is stored before the push.  Looking the coin up derives the scripts of all.
ProcessProposal(t, k) ==
  /\ phase = "running" /\ pending = None
  /\ parse_proposal_to_signed_tx(t)
  /\ index' = check_path(index, {tx[s].addr : s \in get_all_utxos})
  /\ check_tweak_matches_and_import(k, index')
  /\ pending' = [spends |-> t, addr |-> TweakAddress(k)]
  /\ UNCHANGED <<coreVars, lock, phase, utxos, frozen, used, active,
                 processed, news, matured, held, thawed, missed, found>>

Push(t) ==
  /\ pending # None
  /\ pushtx(t, pending.spends, pending.addr)
  /\ news' = Append(news, t)
  /\ pending' = None
  /\ UNCHANGED <<watched, fileVars, phase, index, known, utxos, frozen,
                 imported, used, active, processed, matured, ghosts>>

\* Core refuses the transaction or cannot be reached.
PushFails ==
  /\ pending # None
  /\ pending' = None
  /\ UNCHANGED <<coreVars, fileVars, phase, index, known, utxos, frozen,
                 imported, used, active, processed, news, matured, ghosts>>

-----------------------------------------------------------------------------
(* The network and time. *)

\* Somebody pays an address the wallet showed or gave away.
Deposit(t, a) ==
  /\ a \in watched
  /\ a \in HD => a[2] < MaxIndex
  /\ Arrive(t, NoTx, a)
  /\ news' = IF phase = "running" THEN Append(news, t) ELSE news
  /\ missed' = IF phase = "unspent" THEN missed \cup {t} ELSE missed
  /\ UNCHANGED <<watched, fileVars, phase, index, known, utxos, frozen,
                 imported, used, active, processed, pending, matured, held,
                 thawed, floor, found>>

MineTx(t) ==
  /\ Mine(t)
  /\ UNCHANGED <<fileVars, memVars, matured, ghosts>>

ConflictTx(t) ==
  /\ Conflict(t)
  /\ UNCHANGED <<fileVars, memVars, matured, ghosts>>

\* The coins that a rescan finds are old: the monitor does not list them.
Rescan ==
  /\ rescanblockchain
  /\ tx' # tx
  /\ missed' = IF phase \in {"unspent", "running"}
                 THEN missed \cup {t \in Txs : tx'[t] # tx[t]} ELSE missed
  /\ UNCHANGED <<fileVars, memVars, matured, held, thawed, floor, found>>

Mature ==
  /\ ~matured
  /\ matured' = TRUE
  /\ UNCHANGED <<coreVars, fileVars, memVars, ghosts>>

-----------------------------------------------------------------------------
Init ==
  /\ CoreInit
  /\ FileInit
  /\ phase = "off"
  /\ index = Nothing.index
  /\ known = {} /\ utxos = {} /\ frozen = {} /\ imported = {}
  /\ used = {} /\ active = {} /\ processed = {} /\ news = <<>>
  /\ pending = None
  /\ matured = FALSE
  /\ held = {} /\ thawed = {} /\ missed = {}
  /\ floor = Nothing.index /\ found = Nothing.index

FileNext ==
  \/ CreateWallet \/ InitializeWallet \/ OpenWallet \/ OpenRefused
  \/ StopService \/ Kill \/ UserRemovesLock
  \/ \E k \in Tweaks : ImportKey(k)

ServiceNext ==
  \/ \E fast \in BOOLEAN : SyncAddresses(fast)
  \/ SyncUnspent
  \/ StartMonitor
  \/ transaction_monitor

UseNext ==
  \/ \E b \in Branches, saving \in BOOLEAN : GetAddress(b, saving)
  \/ SaveWallet
  \/ \E t \in Txs, disable \in BOOLEAN : DisableUtxo(t, disable)
  \/ \E t \in Txs, a \in Addresses \cup {Elsewhere} : SelectUtxos(t, a)
  \/ \E t \in Txs, k \in Tweaks : ProcessProposal(t, k)
  \/ \E t \in Txs : Push(t)
  \/ PushFails

NetworkNext ==
  \/ \E t \in Txs, a \in Addresses : Deposit(t, a)
  \/ \E t \in Txs : MineTx(t)
  \/ \E t \in Txs : ConflictTx(t)
  \/ Rescan
  \/ Mature

Next == FileNext \/ ServiceNext \/ UseNext \/ NetworkNext

Spec == Init /\ [][Next]_vars

-----------------------------------------------------------------------------
(* Properties. *)

\* The type invariant of the wallet, its file and Core.
TypeOK ==
  /\ CoreTypeOK
  /\ FileTypeOK
  /\ phase \in Phases
  /\ index \in [Branches -> 0 .. MaxIndex + GapLimit]
  /\ known \subseteq Addresses
  /\ utxos \cup frozen \cup active \cup processed \subseteq Txs
  /\ imported \subseteq Tweaks
  /\ used \subseteq Addresses
  /\ news \in Seq(Txs)
  /\ pending \in {None} \cup [spends : Txs, addr : Addresses \cup {Elsewhere}]
  /\ matured \in BOOLEAN
  /\ held \cup thawed \cup missed \subseteq Txs
  /\ {floor, found} \subseteq [Branches -> 0 .. MaxIndex + GapLimit]

\* wallet.py disable_utxo, _load_storage and reset: a coin that the user, the
\* reuse check or a timelock froze is never signed away again, over any syncs,
\* kills and restarts, until the user unfreezes it.
FrozenIsNotSpent ==
  pending # None => pending.spends \notin held

\* wallet.py FidelityBondMixin.add_utxo: a coin on a timelocked address is not
\* signed away before its time, by whichever way it came into the wallet,
\* unless the user unfroze it.
BondIsNotSpentEarly ==
  pending # None /\ tx[pending.spends].addr = BondAddress /\ ~matured
    => pending.spends \in thawed

\* wallet.py select_utxos, _inputs: what the user or a timelock holds back is
\* not spent, across restarts and whichever way the coin came in.
HeldBackIsNotSpent == FrozenIsNotSpent /\ BondIsNotSpentEarly

\* wallet_service.py sync_addresses_fast, sync_addresses, wallet.py save: the
\* index from which a running wallet hands out addresses is past every address
\* that was handed out before some save, and every one that its sync found
\* used, whatever was lost in a kill and however often the indices were moved
\* over the gap and set back.
IndexPastUsed ==
  phase = "running" =>
    \A b \in Branches : index[b] >= floor[b] /\ index[b] >= found[b]

\* snicker_receiver.py process_proposals: "never possible to have broadcast a
\* tx without having already stored the output's key", even if the program is
\* killed just after the broadcast.
TweakedKeyIsStored ==
  \A t \in Txs, k \in Tweaks :
    tx[t].st # "none" /\ tx[t].addr = TweakAddress(k) => k \in disk.imported

CaughtUp ==
  /\ phase = "running" /\ pending = None
  /\ news = <<>>
  /\ \A t \in active : get_transaction(t) = 0

\* wallet_service.py sync_unspent and transaction_monitor: once the monitor has
\* caught up, every unspent coin that Core lists on an address the wallet knows
\* is in the wallet, however the arrival, the confirmation, the restart and the
\* sync were ordered.  Left out are the coins whose arrival the service could
\* not see and those a transaction once tried to spend.
CoinsAreFound ==
  CaughtUp =>
    \A t \in listunspent \ missed :
      tx[t].addr \in known /\ ~(\E u \in Txs : tx[u].spends = t) => t \in utxos

\* wallet_service.py transaction_monitor: once the monitor has caught up, no
\* coin that a confirmed transaction spends is left in the wallet, although
\* confirmations add the coins of a transaction a second time.
SpentIsGone ==
  CaughtUp =>
    \A t \in utxos : ~\E u \in Txs : tx[u].spends = t /\ tx[u].st = "mined"

\* Both: a monitor that has caught up agrees with Bitcoin Core on the coins.
CoinsAgreeWithCore == CoinsAreFound /\ SpentIsGone
=============================================================================
