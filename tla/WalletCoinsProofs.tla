------------------------- MODULE WalletCoinsProofs -------------------------
(***************************************************************************)
(* Theorems about the wallet and its file: what is held back is not spent, *)
(* indices do not fall back, a tweaked key is stored before it is paid,    *)
(* and a monitor that has caught up holds the coins that Core has, for any *)
(* transactions, branches, keys and bounds.                                *)
(*                                                                         *)
(* The invariant relates the memory of the program to its file: whatever a *)
(* kill may lose was either written in the same step or is found again.    *)
(***************************************************************************)
EXTENDS WalletCoins, FiniteSetTheorems, WellFoundedInduction, TLAPS

Indices == [Branches -> 0 .. MaxIndex + GapLimit]
Loaded == phase \notin {"off", "created"}
AtLeast(ix, fl) == \A b \in Branches : ix[b] >= fl[b]

\* Before the first wallet is written nothing has happened to it.
FreshInv ==
  /\ disk.kind # "wallet" =>
       /\ ~Loaded
       /\ watched = {} /\ held = {} /\ floor = Nothing.index
       /\ \A t \in Txs : tx[t].st = "none"
  /\ phase = "created" => disk.kind # "wallet"
  /\ ~Loaded => pending = None /\ utxos = {} /\ found = Nothing.index

\* The file is never behind what the properties remember, and memory is never
\* behind the file; imported keys are the same in both.
FileInv ==
  /\ held \subseteq disk.frozen
  /\ AtLeast(disk.index, floor)
  /\ Loaded => /\ held \subseteq frozen
               /\ imported = disk.imported
               /\ AtLeast(index, floor)
               /\ AtLeast(index, found)

\* A coin on the bond address was frozen when it came in, and is held or was
\* unfrozen by the user since.
BondKept(t) ==
  tx[t].addr = BondAddress /\ ~matured => t \in held \cup thawed

\* The coins in memory are on addresses the wallet knows, and Core took a
\* coin for the wallet's when its address was watched.
CoinInv ==
  /\ \A t \in utxos : /\ tx[t].st # "none" /\ tx[t].addr \in known
                      /\ BondKept(t)
  /\ \A t \in Txs : tx[t].mine => tx[t].addr \in watched

\* Only addresses of stored keys are watched or about to be paid.
KeyInv ==
  /\ \A k \in Tweaks : TweakAddress(k) \in watched => k \in disk.imported
  /\ TweakedKeyIsStored

PendingInv ==
  pending # None =>
    /\ phase = "running"
    /\ pending.spends \notin held
    /\ tx[pending.spends].st # "none"
    /\ BondKept(pending.spends)
    /\ \A k \in Tweaks : pending.addr = TweakAddress(k) => k \in disk.imported

WalletInv == TypeOK /\ FreshInv /\ FileInv /\ CoinInv /\ KeyInv /\ PendingInv

-----------------------------------------------------------------------------
(* Indices.                                                                *)

(* Every set of indices up to a bound has a maximum.                       *)
LEMMA MaxIs ==
  ASSUME NEW n \in Nat, NEW S \in SUBSET (0 .. n), S # {}
  PROVE  Max(S) \in S /\ \A y \in S : y <= Max(S)
<1> DEFINE Above(x) == {y \in S : y > x}
           family == {Above(x) : x \in S}
<1>1. IsFiniteSet(S)
  <2>1. IsFiniteSet(0 .. n)
    BY FS_Interval
  <2> QED
    BY <2>1, FS_Subset
<1>2. \A T \in family : T \in FiniteSubsetsOf(S)
  <2>1. \A x \in S : Above(x) \in SUBSET S
    OBVIOUS
  <2>2. \A x \in S : IsFiniteSet(Above(x))
    BY <1>1, <2>1, FS_Subset
  <2> QED
    BY <2>1, <2>2 DEF FiniteSubsetsOf
<1>3. IsWellFoundedOn(StrictSubsetOrdering(S), FiniteSubsetsOf(S))
  BY FS_StrictSubsetOrderingWellFounded
<1>4. PICK T \in family : \A U \in family : ~(<<U, T>> \in StrictSubsetOrdering(S))
  <2>1. family # {} /\ family \subseteq FiniteSubsetsOf(S)
    BY <1>2
  <2> HIDE DEF family
  <2> QED
    BY <1>3, <2>1, WFMin
<1>5. PICK x \in S : T = Above(x)
  OBVIOUS
<1>6. ASSUME NEW y \in S, y > x
      PROVE  FALSE
  <2>1. \A z \in S : z \in Nat
    OBVIOUS
  <2>2. \A z \in S : z > y => z > x
    BY <1>6, <2>1
  <2>3. Above(y) \subseteq Above(x)
    BY <2>2
  <2>4. y \in Above(x) /\ y \notin Above(y)
    BY <1>6, <2>1
  <2>5. <<Above(y), Above(x)>> \in StrictSubsetOrdering(S)
    BY <2>3, <2>4 DEF StrictSubsetOrdering
  <2> QED
    BY <1>4, <1>5, <2>5
<1>7. \A z \in S : z \in Nat
  OBVIOUS
<1>8. \A y \in S : x >= y
  BY <1>6, <1>7
<1> HIDE DEF Above, family
<1>9. Max(S) \in S /\ \A y \in S : Max(S) >= y
  BY <1>8 DEF Max
<1> QED
  BY <1>7, <1>9

(* Two index maps, of which the higher is taken branch by branch.          *)
LEMMA HigherIs ==
  ASSUME NEW ix \in Indices, NEW jx \in Indices
  PROVE  /\ Raise(ix, jx) \in Indices
         /\ AtLeast(Raise(ix, jx), ix) /\ AtLeast(Raise(ix, jx), jx)
         /\ \A kx \in Indices :
              AtLeast(kx, ix) /\ AtLeast(kx, jx) => AtLeast(kx, Raise(ix, jx))
<1>1. MaxIndex + GapLimit \in Nat
  BY CoreAssumption
<1>2. ASSUME NEW b \in Branches
      PROVE  /\ Max({ix[b], jx[b]}) \in {ix[b], jx[b]}
             /\ Max({ix[b], jx[b]}) >= ix[b] /\ Max({ix[b], jx[b]}) >= jx[b]
  <2>1. {ix[b], jx[b]} \in SUBSET (0 .. MaxIndex + GapLimit)
    BY DEF Indices
  <2>2. \A y \in {ix[b], jx[b]} : y <= Max({ix[b], jx[b]})
    BY <1>1, <2>1, MaxIs
  <2>3. Max({ix[b], jx[b]}) \in {ix[b], jx[b]}
    BY <1>1, <2>1, MaxIs
  <2>4. ix[b] \in Int /\ jx[b] \in Int
    BY <1>1, <2>1
  <2> QED
    BY <2>2, <2>3, <2>4
<1>3. Raise(ix, jx) \in Indices
  BY <1>2 DEF Indices, Raise
<1>4. \A b \in Branches : Raise(ix, jx)[b] = Max({ix[b], jx[b]})
  BY DEF Raise
<1> QED
  BY <1>2, <1>3, <1>4 DEF AtLeast

(* _check_path: deriving a script never moves an index back.               *)
LEMMA CheckPathIs ==
  ASSUME NEW ix \in Indices, NEW addrs
  PROVE  check_path(ix, addrs) \in Indices /\ AtLeast(check_path(ix, addrs), ix)
<1>1. MaxIndex + GapLimit \in Nat
  BY CoreAssumption
<1>2. ASSUME NEW b \in Branches
      PROVE  /\ check_path(ix, addrs)[b] \in 0 .. MaxIndex + GapLimit
             /\ check_path(ix, addrs)[b] >= ix[b]
  <2> DEFINE S == {n \in ix[b] .. MaxIndex + GapLimit :
                     \A i \in ix[b] .. n - 1 : <<b, i>> \in addrs}
  <2>1. ix[b] \in 0 .. MaxIndex + GapLimit
    BY DEF Indices
  <2>2. ix[b] \in S /\ S \in SUBSET (0 .. MaxIndex + GapLimit)
    BY <1>1, <2>1
  <2>3. check_path(ix, addrs)[b] = Max(S)
    BY DEF check_path
  <2>4. \A n \in S : n >= ix[b]
    BY <1>1, <2>1
  <2> HIDE DEF S
  <2>5. Max(S) \in S
    BY <1>1, <2>2, MaxIs
  <2> QED
    BY <2>2, <2>3, <2>4, <2>5
<1>3. check_path(ix, addrs) = [b \in Branches |-> check_path(ix, addrs)[b]]
  BY DEF check_path
<1> QED
  BY <1>2, <1>3 DEF Indices, AtLeast

(* get_used_indices: one past the highest address of a branch.             *)
LEMMA UsedIndicesAre ==
  ASSUME NEW addrs, NEW kn
  PROVE  get_used_indices(addrs, kn) \in Indices
<1>1. MaxIndex \in Nat /\ GapLimit \in Nat /\ MaxIndex + GapLimit \in Nat
  BY CoreAssumption
<1>2. ASSUME NEW b \in Branches
      PROVE  get_used_indices(addrs, kn)[b] \in 0 .. MaxIndex + GapLimit
  <2> DEFINE S == {0} \cup {a[2] + 1 : a \in {c \in addrs \cap kn \cap HD : c[1] = b}}
  <2>1. ASSUME NEW a \in HD
        PROVE  a[2] + 1 \in 0 .. MaxIndex + GapLimit
    <3>1. a[2] \in 0 .. MaxIndex + GapLimit - 1
      BY DEF HD
    <3>2. \A n \in 0 .. MaxIndex + GapLimit - 1 : n + 1 \in 0 .. MaxIndex + GapLimit
      BY <1>1
    <3> QED
      BY <3>1, <3>2
  <2>2. 0 \in S /\ S \in SUBSET (0 .. MaxIndex + GapLimit)
    BY <1>1, <2>1
  <2>3. get_used_indices(addrs, kn)[b] = Max(S)
    BY DEF get_used_indices
  <2> HIDE DEF S
  <2>4. Max(S) \in S
    BY <1>1, <2>2, MaxIs
  <2> QED
    BY <2>2, <2>3, <2>4
<1>3. get_used_indices(addrs, kn) = [b \in Branches |-> get_used_indices(addrs, kn)[b]]
  BY DEF get_used_indices
<1> QED
  BY <1>2, <1>3 DEF Indices

-----------------------------------------------------------------------------
(* Addresses, saves and the end of a program.                              *)

(* The address of a tweaked key is that of no other key.                   *)
LEMMA TweaksAreApart ==
  ASSUME NEW k \in Tweaks
  PROVE  /\ TweakAddress(k) \in Addresses
         /\ TweakAddress(k) \notin HD
         /\ TweakAddress(k) # BondAddress
         /\ TweakAddress(k) # Elsewhere
         /\ \A b \in Branches, i \in Int : TweakAddress(k) # <<b, i>>
         /\ \A j \in Tweaks : TweakAddress(k) = TweakAddress(j) => j = k
<1>1. k \notin Branches /\ k # Bond /\ k # "elsewhere"
  BY CoreAssumption
<1>2. \A a \in HD : a[1] \in Branches
  BY DEF HD
<1>3. TweakAddress(k)[1] = k /\ BondAddress[1] = Bond /\ Elsewhere[1] = "elsewhere"
  BY DEF TweakAddress, BondAddress, Elsewhere
<1>4. \A j : TweakAddress(j)[1] = j
  BY DEF TweakAddress
<1>5. \A b \in Branches, i \in Int : <<b, i>>[1] = b
  OBVIOUS
<1>6. TweakAddress(k) \in Addresses
  BY DEF Addresses
<1>7. TweakAddress(k) \notin HD
  BY <1>1, <1>2, <1>3
<1>8. \A b \in Branches, i \in Int : TweakAddress(k) # <<b, i>>
  BY <1>1, <1>3, <1>5
<1>9. \A j \in Tweaks : TweakAddress(k) = TweakAddress(j) => j = k
  BY <1>4
<1>10. TweakAddress(k) # BondAddress /\ TweakAddress(k) # Elsewhere
  BY <1>1, <1>3
<1> QED
  BY <1>6, <1>7, <1>8, <1>9, <1>10

(* What the maps hold once a wallet is loaded, and what the syncs add.     *)
LEMMA KnownPathsAre ==
  ASSUME NEW ix, NEW im \in SUBSET Tweaks
  PROVE  /\ Gap(ix) \subseteq HD
         /\ yield_known_paths(ix, im) \subseteq Addresses
         /\ \A k \in Tweaks :
              TweakAddress(k) \in yield_known_paths(ix, im) \cup Gap(ix) => k \in im
<1>1. Gap(ix) \subseteq HD /\ Below(ix) \subseteq HD
  BY DEF Gap, Below
<1>2. ImportedAddresses(im) \subseteq {TweakAddress(k) : k \in Tweaks}
  BY DEF ImportedAddresses
<1>3. yield_known_paths(ix, im) \subseteq Addresses
  BY <1>1, <1>2 DEF yield_known_paths, Addresses
<1>4. ASSUME NEW k \in Tweaks,
             TweakAddress(k) \in yield_known_paths(ix, im) \cup Gap(ix)
      PROVE  k \in im
  <2>1. TweakAddress(k) \in ImportedAddresses(im)
    BY <1>1, <1>4, TweaksAreApart DEF yield_known_paths
  <2>2. PICK j \in im : TweakAddress(k) = TweakAddress(j)
    BY <2>1 DEF ImportedAddresses
  <2> QED
    BY <2>2, TweaksAreApart
<1> QED
  BY <1>1, <1>3, <1>4

(* Wallet.save: the file is as the memory, and no index falls back.        *)
LEMMA SaveWrites ==
  ASSUME TypeOK,
         NEW ix \in Indices, NEW fr \in SUBSET Txs, NEW im \in SUBSET Tweaks,
         AtLeast(ix, floor), save(ix, fr, im)
  PROVE  /\ disk' \in DiskRecord
         /\ disk'.kind = "wallet" /\ disk'.frozen = fr /\ disk'.imported = im
         /\ floor' \in Indices
         /\ AtLeast(disk'.index, floor')
         /\ \A kx \in Indices : AtLeast(kx, ix) => AtLeast(kx, floor')
<1>1. disk' = [kind |-> "wallet", index |-> ix, frozen |-> fr, imported |-> im]
  BY DEF save, save_file
<1>2. disk' \in DiskRecord
  BY <1>1 DEF DiskRecord, Indices
<1>3. floor \in Indices /\ floor' = Raise(floor, ix)
  BY DEF save, TypeOK, Indices
<1>4. MaxIndex + GapLimit \in Nat
  BY CoreAssumption
<1>5. \A kx \in Indices : AtLeast(kx, ix) => AtLeast(kx, floor)
  BY <1>3, <1>4 DEF AtLeast, Indices
<1>6. /\ floor' \in Indices
      /\ \A kx \in Indices : AtLeast(kx, floor) /\ AtLeast(kx, ix) => AtLeast(kx, floor')
  BY <1>3, HigherIs
<1>7. AtLeast(ix, ix)
  BY <1>4 DEF AtLeast, Indices
<1> QED
  BY <1>1, <1>2, <1>5, <1>6, <1>7

(* However the program ends, the file keeps what was promised.             *)
LEMMA ForgottenIsKept ==
  ASSUME WalletInv, ForgetMemory,
         UNCHANGED <<disk, tx, matured, held, thawed, floor>>,
         lock' \in BOOLEAN,
         watched' \subseteq Addresses, watched \subseteq watched',
         disk.kind # "wallet" => watched' = {},
         \A k \in Tweaks : TweakAddress(k) \in watched' => k \in disk.imported
  PROVE  WalletInv'
<1> USE DEF WalletInv
<1>1. Nothing.index \in Indices /\ \A b \in Branches : Nothing.index[b] = 0
  BY CoreAssumption DEF Nothing, Indices
<1>2. TypeOK'
  BY <1>1 DEF ForgetMemory, TypeOK, CoreTypeOK, FileTypeOK, Phases, Indices
<1>3. FreshInv'
  BY DEF ForgetMemory, FreshInv, Loaded
<1>4. FileInv'
  BY DEF ForgetMemory, FileInv, Loaded, AtLeast
<1>5. CoinInv'
  BY DEF ForgetMemory, CoinInv
<1>6. KeyInv'
  BY DEF ForgetMemory, KeyInv, TweakedKeyIsStored
<1>7. PendingInv'
  BY DEF ForgetMemory, PendingInv
<1> QED
  BY <1>2, <1>3, <1>4, <1>5, <1>6, <1>7

-----------------------------------------------------------------------------
(* The steps: the file, from its creation to the end of a program.         *)

LEMMA InitWallet == Init => WalletInv
<1> SUFFICES ASSUME Init PROVE WalletInv
  OBVIOUS
<1> USE DEF Init, CoreInit, FileInit
<1>1. Nothing.index \in Indices /\ \A b \in Branches : Nothing.index[b] = 0
  BY CoreAssumption DEF Nothing, Indices
<1>2. Unseen \in TxRecord /\ Unseen.st = "none" /\ ~Unseen.mine
  BY DEF Unseen, TxRecord
<1>3. TypeOK
  <2>1. CoreTypeOK
    BY <1>2 DEF CoreTypeOK
  <2>2. FileTypeOK
    BY <1>1 DEF FileTypeOK, DiskRecord, Indices
  <2>3. news \in Seq(Txs)
    OBVIOUS
  <2> QED
    BY <1>1, <2>1, <2>2, <2>3 DEF TypeOK, Phases, Indices
<1>4. FreshInv
  BY <1>2 DEF FreshInv, Loaded
<1>5. FileInv
  BY <1>1 DEF FileInv, AtLeast, Loaded
<1>6. CoinInv /\ KeyInv /\ PendingInv
  BY <1>2 DEF CoinInv, KeyInv, TweakedKeyIsStored, PendingInv
<1> QED
  BY <1>3, <1>4, <1>5, <1>6 DEF WalletInv

LEMMA CreateKeeps == ASSUME WalletInv, CreateWallet PROVE WalletInv'
<1> USE DEF CreateWallet, Storage_create, WalletInv, coreVars, ghosts
<1>1. disk \in DiskRecord
  BY DEF TypeOK, FileTypeOK
<1>2. /\ disk' \in DiskRecord /\ disk'.kind = "empty"
      /\ disk'.index = disk.index /\ disk'.frozen = disk.frozen
      /\ disk'.imported = disk.imported
  BY <1>1 DEF DiskRecord
<1>3. TypeOK'
  BY <1>2 DEF TypeOK, CoreTypeOK, FileTypeOK, Phases
<1>4. FreshInv'
  BY <1>2 DEF FreshInv, Loaded
<1>5. FileInv'
  BY <1>2 DEF FileInv, Loaded, AtLeast
<1>6. CoinInv' /\ PendingInv'
  BY DEF CoinInv, PendingInv, FreshInv, Loaded
<1>7. KeyInv'
  BY <1>2 DEF KeyInv, TweakedKeyIsStored
<1> QED
  BY <1>3, <1>4, <1>5, <1>6, <1>7

LEMMA InitializeKeeps == ASSUME WalletInv, InitializeWallet PROVE WalletInv'
<1> USE DEF InitializeWallet, save_file, WalletInv, coreVars, ghosts
<1>1. Nothing.index \in Indices /\ \A b \in Branches : Nothing.index[b] = 0
  BY CoreAssumption DEF Nothing, Indices
<1>2. /\ disk' = [kind |-> "wallet", index |-> Nothing.index,
                  frozen |-> {}, imported |-> {}]
      /\ watched = {} /\ held = {} /\ floor = Nothing.index
      /\ \A t \in Txs : tx[t].st = "none"
      /\ pending = None /\ utxos = {}
  BY DEF Nothing, FreshInv, Loaded
<1>3. disk' \in DiskRecord
  BY <1>1, <1>2 DEF DiskRecord, Indices
<1>4. TypeOK'
  BY <1>3 DEF TypeOK, CoreTypeOK, FileTypeOK, Phases
<1>5. FreshInv'
  BY <1>2 DEF FreshInv, Loaded
<1>6. FileInv'
  BY <1>1, <1>2 DEF FileInv, Loaded, AtLeast
<1>7. CoinInv' /\ PendingInv'
  BY <1>2 DEF CoinInv, PendingInv
<1>8. KeyInv'
  BY <1>2 DEF KeyInv, TweakedKeyIsStored
<1> QED
  BY <1>4, <1>5, <1>6, <1>7, <1>8

LEMMA OpenKeeps == ASSUME WalletInv, OpenWallet PROVE WalletInv'
<1> USE DEF OpenWallet, Storage_open, load_storage, WalletInv, coreVars, ghosts
<1>1. disk \in DiskRecord
  BY DEF TypeOK, FileTypeOK
<1>2. utxos = {} /\ pending = None
  BY DEF FreshInv, Loaded
<1>3. TypeOK'
  <2>1. known' \subseteq Addresses
    BY <1>1, KnownPathsAre DEF DiskRecord
  <2> QED
    BY <1>1, <2>1 DEF TypeOK, CoreTypeOK, FileTypeOK, Phases, DiskRecord
<1>4. FreshInv'
  BY <1>2 DEF FreshInv, Loaded
<1>5. FileInv'
  <2>1. \A b \in Branches : disk.index[b] >= 0 /\ found[b] = 0
    BY <1>1, CoreAssumption DEF DiskRecord, FreshInv, Loaded, Nothing
  <2> QED
    BY <2>1 DEF FileInv, Loaded, AtLeast
<1>6. CoinInv' /\ PendingInv'
  BY <1>2 DEF CoinInv, PendingInv
<1>7. KeyInv'
  BY DEF KeyInv, TweakedKeyIsStored
<1> QED
  BY <1>3, <1>4, <1>5, <1>6, <1>7

LEMMA StopKeeps ==
  ASSUME WalletInv, StopService \/ Kill
  PROVE  WalletInv'
<1> USE DEF StopService, Kill, Storage_close, Storage_killed, coreVars
<1>1. /\ ForgetMemory
      /\ UNCHANGED <<disk, tx, watched, matured, held, thawed, floor>>
      /\ lock' \in BOOLEAN
  BY DEF WalletInv, TypeOK, FileTypeOK
<1>2. /\ watched \subseteq Addresses
      /\ disk.kind # "wallet" => watched = {}
      /\ \A k \in Tweaks : TweakAddress(k) \in watched => k \in disk.imported
  BY DEF WalletInv, TypeOK, CoreTypeOK, FreshInv, KeyInv
<1> QED
  BY <1>1, <1>2, ForgottenIsKept

LEMMA UnlockKeeps == ASSUME WalletInv, UserRemovesLock PROVE WalletInv'
<1> USE DEF UserRemovesLock, RemoveLock, WalletInv, coreVars, memVars, ghosts
<1>1. TypeOK'
  BY DEF TypeOK, CoreTypeOK, FileTypeOK
<1>2. FreshInv' /\ FileInv'
  BY DEF FreshInv, FileInv, Loaded, AtLeast
<1>3. CoinInv'
  BY DEF CoinInv, BondKept
<1>4. KeyInv'
  BY DEF KeyInv, TweakedKeyIsStored
<1>5. PendingInv'
  BY DEF PendingInv, BondKept
<1> QED
  BY <1>1, <1>2, <1>3, <1>4, <1>5

LEMMA ImportKeeps ==
  ASSUME WalletInv, NEW k \in Tweaks, ImportKey(k)
  PROVE  WalletInv'
<1> USE DEF ImportKey, import_private_key, WalletInv, coreVars
<1>1. /\ index \in Indices /\ frozen \in SUBSET Txs /\ imported' \in SUBSET Tweaks
      /\ AtLeast(index, floor) /\ save(index, frozen, imported')
  BY DEF TypeOK, Indices, FileInv, Loaded
<1>2. /\ disk' \in DiskRecord
      /\ disk'.kind = "wallet" /\ disk'.frozen = frozen /\ disk'.imported = imported'
      /\ floor' \in Indices
      /\ AtLeast(disk'.index, floor')
      /\ \A kx \in Indices : AtLeast(kx, index) => AtLeast(kx, floor')
  BY <1>1, SaveWrites
<1>3. pending = None /\ disk.imported \subseteq disk'.imported
  BY <1>2 DEF PendingInv, FileInv, Loaded
<1>4. TypeOK'
  <2>1. known' \subseteq Addresses
    BY TweaksAreApart DEF TypeOK
  <2> QED
    BY <1>1, <1>2, <2>1 DEF TypeOK, CoreTypeOK, FileTypeOK, Indices
<1>5. FreshInv'
  BY <1>2 DEF FreshInv, Loaded
<1>6. FileInv'
  <2>1. AtLeast(index, index)
    BY <1>1, CoreAssumption DEF AtLeast, Indices
  <2> QED
    BY <1>1, <1>2, <2>1 DEF FileInv, Loaded, AtLeast
<1>7. CoinInv'
  BY DEF CoinInv, BondKept
<1>8. KeyInv'
  BY <1>3 DEF KeyInv, TweakedKeyIsStored
<1>9. PendingInv'
  BY <1>3 DEF PendingInv
<1> QED
  BY <1>4, <1>5, <1>6, <1>7, <1>8, <1>9

-----------------------------------------------------------------------------
(* The steps: the syncs and the monitor.                                   *)

(* A sync leaves the coins, the file and the imported keys alone, and ends *)
(* with indices past those it found used.                                  *)
LEMMA SyncedIsKept ==
  ASSUME WalletInv, Loaded, pending = None,
         NEW ux \in Indices,
         index' = rewind_wallet_indices(ux, index), found' = ux,
         known \subseteq known', known' \subseteq Addresses,
         used' \subseteq Addresses,
         watched \subseteq watched', watched' \subseteq Addresses,
         \A k \in Tweaks : TweakAddress(k) \in watched' => k \in disk.imported,
         phase' \in {"addresses", "again"},
         UNCHANGED <<tx, disk, lock, utxos, frozen, imported, active, processed,
                     news, pending, matured, held, thawed, floor, missed>>
  PROVE  WalletInv'
<1> USE DEF WalletInv
<1>1. index \in Indices /\ floor \in Indices
  BY DEF TypeOK, Indices
<1>2. index' = Raise(ux, index)
  BY DEF rewind_wallet_indices, Raise
<1>3. index' \in Indices /\ AtLeast(index', ux) /\ AtLeast(index', index)
  BY <1>1, <1>2, HigherIs
<1>4. AtLeast(index', floor')
  BY <1>1, <1>3, CoreAssumption DEF AtLeast, FileInv, Indices
<1>5. TypeOK'
  BY <1>3 DEF TypeOK, CoreTypeOK, FileTypeOK, Indices, Phases
<1>6. FreshInv'
  BY DEF FreshInv, Loaded
<1>7. FileInv'
  BY <1>3, <1>4 DEF FileInv, Loaded, AtLeast
<1>8. CoinInv'
  BY DEF CoinInv, BondKept
<1>9. KeyInv' /\ PendingInv'
  BY DEF KeyInv, TweakedKeyIsStored, PendingInv
<1> QED
  BY <1>5, <1>6, <1>7, <1>8, <1>9

LEMMA SyncAddressesKeeps ==
  ASSUME WalletInv, NEW fast \in BOOLEAN, SyncAddresses(fast)
  PROVE  WalletInv'
<1> DEFINE init == collect_addresses_init
<1>1. /\ phase = "opened" /\ Loaded /\ pending = None
      /\ UNCHANGED <<tx, matured, held, thawed>>
  BY DEF SyncAddresses, Loaded, WalletInv, PendingInv
<1>2. /\ imported \in SUBSET Tweaks /\ imported = disk.imported
      /\ disk.kind = "wallet"
      /\ known \subseteq Addresses /\ watched \subseteq Addresses
  BY <1>1, Zenon DEF WalletInv, TypeOK, CoreTypeOK, FileTypeOK, DiskRecord,
                     FileInv, FreshInv
<1>3. disk.kind = "wallet" /\ watched \subseteq Addresses
  BY <1>2
<1>4. HD \subseteq Addresses
  BY DEF Addresses
<1>5. /\ init \subseteq Addresses
      /\ \A k \in Tweaks : TweakAddress(k) \in init => k \in disk.imported
      /\ \A ix : Gap(ix) \subseteq HD
  BY <1>2, <1>4, KnownPathsAre DEF collect_addresses_init
<1>6. listaddressgroupings \subseteq Addresses
  BY <1>2 DEF listaddressgroupings, WalletInv, CoinInv
<1>7. \A k \in Tweaks : TweakAddress(k) \in watched => k \in disk.imported
  BY DEF WalletInv, KeyInv
<1>8. \A k \in Tweaks : \A ix : TweakAddress(k) \notin Gap(ix)
  BY <1>5, TweaksAreApart
<1>9. CASE fast /\ get_address_usages # {}
  <2> DEFINE kn == known \cup init
                     \cup (IF get_address_usages \subseteq init THEN {} ELSE HD)
             ux == get_used_indices(get_address_usages, kn)
             ix == rewind_wallet_indices(ux, index)
  <2>1. sync_addresses_fast
    BY <1>9 DEF SyncAddresses
  <2>2. /\ index' = ix /\ found' = ux
        /\ known' = kn \cup Gap(ix) /\ watched' = watched \cup Gap(ix)
        /\ used' = get_address_usages /\ phase' = "addresses"
        /\ UNCHANGED <<disk, lock, utxos, frozen, imported, active, processed,
                       news, pending, missed, floor>>
    BY <2>1 DEF sync_addresses_fast, collect_addresses_gap, import_addresses, fileVars
  <2>3. ux \in Indices
    BY UsedIndicesAre
  <2>4. kn \subseteq Addresses /\ known \subseteq kn
    BY <1>2, <1>4, <1>5
  <2> HIDE DEF init, kn, ux, ix
  <2>5. known' \subseteq Addresses /\ watched' \subseteq Addresses
    BY <1>2, <1>4, <1>5, <2>2, <2>4
  <2>6. \A k \in Tweaks : TweakAddress(k) \in watched' => k \in disk.imported
    BY <1>7, <1>8, <2>2
  <2>7. index' = rewind_wallet_indices(ux, index) /\ used' \subseteq Addresses
    BY <1>6, <2>2 DEF ix, get_address_usages
  <2> QED
    BY <1>1, <2>2, <2>3, <2>4, <2>5, <2>6, <2>7, SyncedIsKept
<1>10. CASE ~(fast /\ get_address_usages # {})
  <2> DEFINE ux == get_used_indices(yield_receiving, known \cup init)
             ix == rewind_wallet_indices(ux, index)
  <2>1. sync_addresses(fast)
    BY <1>10 DEF SyncAddresses
  <2>2. \/ ImportAndExit(init)
        \/ ImportAndExit(Gap(ix))
        \/ /\ index' = ix /\ found' = ux
           /\ known' = known \cup init \cup Gap(ix) /\ watched' = watched
           /\ used' = yield_receiving /\ phase' \in {"addresses", "again"}
           /\ UNCHANGED <<disk, lock, utxos, frozen, imported, active, processed,
                          news, pending, missed, floor>>
    BY <2>1 DEF sync_addresses, collect_addresses_gap, fileVars
  <2>3. ux \in Indices
    BY UsedIndicesAre
  <2>4. ASSUME NEW addrs \in {init, Gap(ix)}, ImportAndExit(addrs)
        PROVE  WalletInv'
    <3>1. /\ ForgetMemory /\ watched' = watched \cup addrs
          /\ UNCHANGED <<disk, floor>> /\ lock' = FALSE
      BY <2>4 DEF ImportAndExit, import_addresses, Storage_close
    <3>2. watched' \subseteq Addresses
      BY <1>2, <1>4, <1>5, <3>1
    <3>3. \A k \in Tweaks : TweakAddress(k) \in watched' => k \in disk.imported
      BY <1>5, <1>7, <1>8, <3>1
    <3> QED
      BY <1>1, <1>2, <3>1, <3>2, <3>3, ForgottenIsKept
  <2>5. ASSUME index' = ix, found' = ux,
               known' = known \cup init \cup Gap(ix), watched' = watched,
               used' = yield_receiving, phase' \in {"addresses", "again"},
               UNCHANGED <<disk, lock, utxos, frozen, imported, active, processed,
                           news, pending, missed, floor>>
        PROVE  WalletInv'
    <3> HIDE DEF init, ux
    <3>1. known \subseteq known' /\ known' \subseteq Addresses
      BY <1>2, <1>4, <1>5, <2>5
    <3>2. used' \subseteq Addresses
      BY <1>6, <2>5 DEF yield_receiving
    <3>3. \A k \in Tweaks : TweakAddress(k) \in watched' => k \in disk.imported
      BY <1>7, <2>5
    <3> QED
      BY <1>1, <1>2, <2>3, <2>5, <3>1, <3>2, <3>3, SyncedIsKept
  <2> HIDE DEF init, ux, ix
  <2> QED
    BY <2>2, <2>4, <2>5
<1> QED
  BY <1>9, <1>10

(* What a step that may save leaves in the file: without a save it has     *)
(* frozen no coin and imported no key.                                     *)
LEMMA SavedIsKept ==
  ASSUME WalletInv, Loaded, NEW needed \in BOOLEAN,
         SaveIf(needed, index', frozen', imported'),
         index' \in Indices, AtLeast(index', index), found' = found,
         frozen' \in SUBSET Txs, held' \subseteq frozen',
         imported' \in SUBSET Tweaks, imported \subseteq imported',
         ~needed => held' = held /\ imported' = imported
  PROVE  /\ disk' \in DiskRecord /\ disk'.kind = "wallet"
         /\ imported' = disk'.imported /\ disk.imported \subseteq disk'.imported
         /\ held' \subseteq disk'.frozen
         /\ floor' \in Indices
         /\ AtLeast(disk'.index, floor')
         /\ AtLeast(index', floor') /\ AtLeast(index', found')
<1>1. /\ index \in Indices /\ floor \in Indices /\ found \in Indices
      /\ AtLeast(index, floor) /\ AtLeast(index, found) /\ imported = disk.imported
      /\ disk \in DiskRecord /\ disk.kind = "wallet"
      /\ held \subseteq disk.frozen /\ AtLeast(disk.index, floor)
  BY DEF WalletInv, TypeOK, FileTypeOK, Indices, FileInv, FreshInv
<1>2. AtLeast(index', floor) /\ AtLeast(index', found') /\ AtLeast(index', index')
  BY <1>1, CoreAssumption DEF AtLeast, Indices
<1>3. CASE ~needed
  <2>1. UNCHANGED <<disk, floor>>
    BY <1>3 DEF SaveIf
  <2> QED
    BY <1>1, <1>2, <1>3, <2>1 DEF AtLeast
<1>4. CASE needed
  <2>1. save(index', frozen', imported')
    BY <1>4 DEF SaveIf
  <2>2. /\ disk' \in DiskRecord
        /\ disk'.kind = "wallet" /\ disk'.frozen = frozen'
        /\ disk'.imported = imported'
        /\ floor' \in Indices
        /\ AtLeast(disk'.index, floor')
        /\ \A kx \in Indices : AtLeast(kx, index') => AtLeast(kx, floor')
    BY <1>2, <2>1, SaveWrites DEF WalletInv
  <2> QED
    BY <1>1, <1>2, <2>2
<1> QED
  BY <1>3, <1>4

(* Coins that come in by a sync or by the monitor: those that are frozen   *)
(* are saved as frozen in the same step.                                   *)
LEMMA FrozenIsSaved ==
  ASSUME WalletInv, Loaded,
         NEW freeze \in SUBSET Txs,
         frozen' = frozen \cup freeze, held' = held \cup freeze,
         SaveIf(freeze # {}, index, frozen', imported),
         index' = index, imported' = imported, found' = found
  PROVE  /\ disk' \in DiskRecord /\ disk'.kind = "wallet"
         /\ disk'.imported = disk.imported /\ imported' = disk'.imported
         /\ held' \subseteq disk'.frozen /\ held' \subseteq frozen'
         /\ floor' \in Indices
         /\ AtLeast(disk'.index, floor') /\ AtLeast(index', floor')
<1>1. /\ index \in Indices /\ frozen' \in SUBSET Txs /\ imported \in SUBSET Tweaks
      /\ held \subseteq frozen /\ imported = disk.imported
  BY DEF WalletInv, TypeOK, Indices, FileInv
<1>2. AtLeast(index', index)
  BY <1>1, CoreAssumption DEF AtLeast, Indices
<1>3. SaveIf(freeze # {}, index', frozen', imported')
  OBVIOUS
<1> DEFINE needed == freeze # {}
<1>4. needed \in BOOLEAN /\ SaveIf(needed, index', frozen', imported')
      /\ (~needed => held' = held)
  BY <1>3
<1> HIDE DEF needed
<1> QED
  BY <1>1, <1>2, <1>4, SavedIsKept

LEMMA SyncUnspentKeeps == ASSUME WalletInv, SyncUnspent PROVE WalletInv'
<1> DEFINE ours == {t \in listunspent : tx[t].addr \in known}
           bonds == add_utxo_freezes(ours)
<1>1. /\ Loaded /\ pending = None
      /\ utxos' = ours /\ frozen' = frozen \cup bonds /\ held' = held \cup bonds
      /\ SaveIf(bonds # {}, index, frozen', imported)
      /\ phase' \in {"unspent", "opened"}
      /\ UNCHANGED <<tx, watched, lock, index, known, imported, used, news, pending,
                     matured, thawed, found>>
  BY DEF SyncUnspent, Loaded, WalletInv, PendingInv, coreVars
<1>2. /\ active' \subseteq active \cup ours /\ processed' \subseteq processed \cup ours
      /\ missed' \subseteq Txs /\ ours \subseteq Txs /\ bonds \subseteq ours
      /\ \A t \in ours : tx[t].st # "none" /\ tx[t].addr \in known
  BY DEF SyncUnspent, listunspent, Live, add_utxo_freezes
<1>3. \A t \in ours : tx[t].addr = BondAddress /\ ~matured => t \in bonds
  BY DEF add_utxo_freezes
<1> HIDE DEF ours, bonds
<1>4. bonds \in SUBSET Txs
  BY <1>2
<1>5. /\ disk' \in DiskRecord /\ disk'.kind = "wallet"
      /\ disk'.imported = disk.imported /\ imported' = disk'.imported
      /\ held' \subseteq disk'.frozen /\ held' \subseteq frozen'
      /\ floor' \in Indices
      /\ AtLeast(disk'.index, floor') /\ AtLeast(index', floor')
  BY <1>1, <1>4, FrozenIsSaved
<1>6. TypeOK'
  BY <1>1, <1>2, <1>4, <1>5
     DEF WalletInv, TypeOK, CoreTypeOK, FileTypeOK, Phases, Indices
<1>7. FreshInv'
  BY <1>1, <1>5 DEF FreshInv, Loaded
<1>8. FileInv'
  BY <1>1, <1>5 DEF WalletInv, FileInv, Loaded, AtLeast
<1>9. CoinInv'
  BY <1>1, <1>2, <1>3 DEF WalletInv, CoinInv, BondKept
<1>10. KeyInv' /\ PendingInv'
  BY <1>1, <1>5 DEF WalletInv, KeyInv, TweakedKeyIsStored, PendingInv
<1> QED
  BY <1>6, <1>7, <1>8, <1>9, <1>10 DEF WalletInv

LEMMA StartKeeps == ASSUME WalletInv, StartMonitor PROVE WalletInv'
<1> USE DEF StartMonitor, WalletInv, coreVars, fileVars, ghosts
<1>1. TypeOK'
  BY DEF TypeOK, CoreTypeOK, FileTypeOK, Phases
<1>2. FreshInv' /\ FileInv'
  BY DEF FreshInv, FileInv, Loaded, AtLeast
<1>3. CoinInv'
  BY DEF CoinInv, BondKept
<1>4. KeyInv' /\ PendingInv'
  BY DEF KeyInv, TweakedKeyIsStored, PendingInv
<1> QED
  BY <1>1, <1>2, <1>3, <1>4

LEMMA MonitorKeeps == ASSUME WalletInv, transaction_monitor PROVE WalletInv'
<1> DEFINE new == new_transactions
           all == confirmed_active \cup new
           unseen == add_new_utxos(new \ processed)
           freeze == add_utxo_freezes(add_new_utxos(all)) \cup check_for_reuse(unseen)
<1>1. /\ Loaded /\ phase = "running" /\ pending = None
      /\ utxos' = remove_old_utxos(utxos \cup add_new_utxos(all), all)
      /\ frozen' = frozen \cup freeze /\ held' = held \cup freeze
      /\ used' = used \cup {tx[t].addr : t \in unseen}
      /\ processed' = processed \cup new
      /\ SaveIf(freeze # {}, index, frozen', imported)
      /\ news' = <<>>
      /\ UNCHANGED <<tx, watched, lock, phase, index, known, imported, pending,
                     matured, thawed, found>>
  BY DEF transaction_monitor, Loaded, coreVars
<1>2. active' \subseteq active \cup new /\ missed' \subseteq missed \cup new
  BY DEF transaction_monitor
<1>3. new \subseteq Txs /\ active \subseteq Txs
  BY DEF new_transactions, Range, WalletInv, TypeOK
<1>4. \A t \in Txs : get_transaction(t) >= 0 => tx[t].st # "none"
  BY DEF get_transaction
<1>5. all \subseteq Txs /\ \A t \in all : tx[t].st # "none"
  BY <1>3, <1>4 DEF new_transactions, confirmed_active
<1>6. /\ unseen \subseteq new /\ freeze \subseteq all
      /\ utxos' \subseteq utxos \cup add_new_utxos(all)
      /\ \A t \in unseen : tx[t].addr \in known
      /\ \A t \in add_new_utxos(all) :
           /\ t \in all /\ tx[t].addr \in known
           /\ tx[t].addr = BondAddress /\ ~matured => t \in freeze
  BY <1>1 DEF remove_old_utxos, add_new_utxos, add_utxo_freezes, check_for_reuse
<1> HIDE DEF new, all, unseen, freeze
<1>7. freeze \in SUBSET Txs
  BY <1>5, <1>6
<1>8. /\ disk' \in DiskRecord /\ disk'.kind = "wallet"
      /\ disk'.imported = disk.imported /\ imported' = disk'.imported
      /\ held' \subseteq disk'.frozen /\ held' \subseteq frozen'
      /\ floor' \in Indices
      /\ AtLeast(disk'.index, floor') /\ AtLeast(index', floor')
  BY <1>1, <1>7, FrozenIsSaved
<1>9. TypeOK'
  <2>1. used' \subseteq Addresses
    BY <1>1, <1>6 DEF WalletInv, TypeOK
  <2>2. utxos' \cup frozen' \cup active' \cup processed' \subseteq Txs
    BY <1>1, <1>2, <1>3, <1>5, <1>6, <1>7 DEF WalletInv, TypeOK
  <2>3. held' \cup thawed' \cup missed' \subseteq Txs
    BY <1>1, <1>2, <1>3, <1>7 DEF WalletInv, TypeOK
  <2>4. news' \in Seq(Txs)
    BY <1>1
  <2> QED
    BY <1>1, <1>8, <2>1, <2>2, <2>3, <2>4
       DEF WalletInv, TypeOK, CoreTypeOK, FileTypeOK, Indices
<1>10. FreshInv'
  BY <1>1, <1>8 DEF FreshInv, Loaded
<1>11. FileInv'
  BY <1>1, <1>8 DEF WalletInv, FileInv, Loaded, AtLeast
<1>12. CoinInv'
  BY <1>1, <1>5, <1>6 DEF WalletInv, CoinInv, BondKept
<1>13. KeyInv' /\ PendingInv'
  BY <1>1, <1>8 DEF WalletInv, KeyInv, TweakedKeyIsStored, PendingInv
<1> QED
  BY <1>9, <1>10, <1>11, <1>12, <1>13 DEF WalletInv

-----------------------------------------------------------------------------
(* The steps: what the program does with a running wallet.                 *)

LEMMA GetAddressKeeps ==
  ASSUME WalletInv, NEW b \in Branches, NEW saving \in BOOLEAN,
         GetAddress(b, saving)
  PROVE  WalletInv'
<1>1. /\ Loaded /\ phase = "running" /\ pending = None /\ index[b] < MaxIndex
      /\ index' = check_path(index, {NextAddress(b)})
      /\ known' = known \cup {NextAddress(b)}
      /\ watched' = watched \cup {NextAddress(b)}
      /\ SaveIf(saving, index', frozen, imported)
      /\ UNCHANGED <<tx, lock, phase, utxos, frozen, imported, used, active,
                     processed, news, pending, matured, held, thawed, missed, found>>
  BY DEF GetAddress, Loaded, import_addresses
<1>2. /\ index \in Indices /\ frozen \in SUBSET Txs /\ imported \in SUBSET Tweaks
      /\ held \subseteq frozen
  BY <1>1 DEF WalletInv, TypeOK, Indices, FileInv
<1>3. index' \in Indices /\ AtLeast(index', index)
  BY <1>1, <1>2, CheckPathIs
<1>4. /\ disk' \in DiskRecord /\ disk'.kind = "wallet"
      /\ imported' = disk'.imported /\ disk.imported \subseteq disk'.imported
      /\ held' \subseteq disk'.frozen
      /\ floor' \in Indices
      /\ AtLeast(disk'.index, floor')
      /\ AtLeast(index', floor') /\ AtLeast(index', found')
  <2>1. SaveIf(saving, index', frozen', imported')
    BY <1>1
  <2> QED
    BY <1>1, <1>2, <1>3, <2>1, SavedIsKept
<1>5. /\ NextAddress(b) \in Addresses
      /\ \A k \in Tweaks : TweakAddress(k) # NextAddress(b)
  <2>1. index[b] \in 0 .. MaxIndex + GapLimit - 1
    BY <1>1, <1>2, CoreAssumption DEF Indices
  <2>2. NextAddress(b) \in HD
    BY <2>1 DEF NextAddress, HD
  <2> QED
    BY <2>2, TweaksAreApart DEF Addresses
<1>6. TypeOK'
  BY <1>1, <1>3, <1>4, <1>5
     DEF WalletInv, TypeOK, CoreTypeOK, FileTypeOK, Indices
<1>7. FreshInv'
  BY <1>1, <1>4 DEF FreshInv, Loaded
<1>8. FileInv'
  BY <1>1, <1>2, <1>4 DEF FileInv, Loaded, AtLeast
<1>9. CoinInv'
  BY <1>1 DEF WalletInv, CoinInv, BondKept
<1>10. KeyInv' /\ PendingInv'
  BY <1>1, <1>4, <1>5 DEF WalletInv, KeyInv, TweakedKeyIsStored, PendingInv
<1> QED
  BY <1>6, <1>7, <1>8, <1>9, <1>10 DEF WalletInv

LEMMA SaveWalletKeeps == ASSUME WalletInv, SaveWallet PROVE WalletInv'
<1>1. /\ Loaded /\ phase = "running" /\ pending = None
      /\ save(index, frozen, imported)
      /\ UNCHANGED <<tx, watched, lock, phase, index, known, utxos, frozen, imported,
                     used, active, processed, news, pending, matured, held,
                     thawed, missed, found>>
  BY DEF SaveWallet, Loaded, coreVars, memVars
<1>2. /\ index \in Indices /\ frozen \in SUBSET Txs /\ imported \in SUBSET Tweaks
      /\ held \subseteq frozen
  BY <1>1 DEF WalletInv, TypeOK, Indices, FileInv
<1>3. AtLeast(index', index) /\ SaveIf(TRUE, index', frozen', imported')
  BY <1>1, <1>2, CoreAssumption DEF AtLeast, Indices, SaveIf
<1>4. /\ disk' \in DiskRecord /\ disk'.kind = "wallet"
      /\ imported' = disk'.imported /\ disk.imported \subseteq disk'.imported
      /\ held' \subseteq disk'.frozen
      /\ floor' \in Indices
      /\ AtLeast(disk'.index, floor')
      /\ AtLeast(index', floor') /\ AtLeast(index', found')
  BY <1>1, <1>2, <1>3, SavedIsKept
<1>5. TypeOK'
  BY <1>1, <1>4 DEF WalletInv, TypeOK, CoreTypeOK, FileTypeOK, Indices
<1>6. FreshInv'
  BY <1>1, <1>4 DEF FreshInv, Loaded
<1>7. FileInv'
  BY <1>1, <1>2, <1>4 DEF FileInv, Loaded, AtLeast
<1>8. CoinInv'
  BY <1>1 DEF WalletInv, CoinInv, BondKept
<1>9. KeyInv' /\ PendingInv'
  BY <1>1, <1>4 DEF WalletInv, KeyInv, TweakedKeyIsStored, PendingInv
<1> QED
  BY <1>5, <1>6, <1>7, <1>8, <1>9 DEF WalletInv

LEMMA DisableKeeps ==
  ASSUME WalletInv, NEW t \in Txs, NEW disable \in BOOLEAN, DisableUtxo(t, disable)
  PROVE  WalletInv'
<1>1. /\ Loaded /\ phase = "running" /\ pending = None
      /\ frozen' = IF disable THEN frozen \cup {t} ELSE frozen \ {t}
      /\ held' = IF disable THEN held \cup {t} ELSE held \ {t}
      /\ thawed' = IF disable THEN thawed \ {t} ELSE thawed \cup {t}
      /\ save(index, frozen', imported)
      /\ UNCHANGED <<tx, watched, lock, phase, index, known, utxos, imported, used,
                     active, processed, news, pending, matured, missed, found>>
  BY DEF DisableUtxo, Loaded, coreVars
<1>2. /\ index \in Indices /\ frozen \in SUBSET Txs /\ imported \in SUBSET Tweaks
      /\ held \subseteq frozen
  BY <1>1 DEF WalletInv, TypeOK, Indices, FileInv
<1>3. AtLeast(index', index) /\ SaveIf(TRUE, index', frozen', imported')
  BY <1>1, <1>2, CoreAssumption DEF AtLeast, Indices, SaveIf
<1>4. frozen' \in SUBSET Txs /\ held' \subseteq frozen'
  BY <1>1, <1>2
<1>5. /\ disk' \in DiskRecord /\ disk'.kind = "wallet"
      /\ imported' = disk'.imported /\ disk.imported \subseteq disk'.imported
      /\ held' \subseteq disk'.frozen
      /\ floor' \in Indices
      /\ AtLeast(disk'.index, floor')
      /\ AtLeast(index', floor') /\ AtLeast(index', found')
  BY <1>1, <1>2, <1>3, <1>4, SavedIsKept
<1>6. held' \cup thawed' \subseteq held \cup thawed \cup {t}
      /\ held \cup thawed \subseteq held' \cup thawed'
  BY <1>1
<1>7. TypeOK'
  BY <1>1, <1>4, <1>5, <1>6 DEF WalletInv, TypeOK, CoreTypeOK, FileTypeOK, Indices
<1>8. FreshInv'
  BY <1>1, <1>5 DEF FreshInv, Loaded
<1>9. FileInv'
  BY <1>1, <1>4, <1>5 DEF FileInv, Loaded, AtLeast
<1>10. CoinInv'
  BY <1>1, <1>6 DEF WalletInv, CoinInv, BondKept
<1>11. KeyInv' /\ PendingInv'
  BY <1>1, <1>5 DEF WalletInv, KeyInv, TweakedKeyIsStored, PendingInv
<1> QED
  BY <1>7, <1>8, <1>9, <1>10, <1>11 DEF WalletInv

LEMMA SelectKeeps ==
  ASSUME WalletInv, NEW t \in Txs, NEW a \in Addresses \cup {Elsewhere},
         SelectUtxos(t, a)
  PROVE  WalletInv'
<1>1. /\ Loaded /\ phase = "running" /\ t \in utxos \ frozen
      /\ index' = check_path(index, {tx[t].addr})
      /\ known' = known \cup {tx[t].addr}
      /\ pending' = [spends |-> t, addr |-> a]
      /\ UNCHANGED <<tx, watched, disk, lock, phase, utxos, frozen, imported, used,
                     active, processed, news, matured, held, thawed, floor, found,
                     missed>>
  BY DEF SelectUtxos, Loaded, Selectable, coreVars, fileVars, ghosts
<1>2. /\ index \in Indices /\ floor \in Indices /\ found \in Indices
      /\ AtLeast(index, floor) /\ AtLeast(index, found)
      /\ tx[t].st # "none" /\ tx[t].addr \in known /\ BondKept(t)
      /\ held \subseteq frozen
  BY <1>1 DEF WalletInv, TypeOK, Indices, FileInv, CoinInv
<1>3. index' \in Indices /\ AtLeast(index', index)
  BY <1>1, <1>2, CheckPathIs
<1>4. AtLeast(index', floor') /\ AtLeast(index', found')
  <2>1. AtLeast(index', floor) /\ AtLeast(index', found)
    BY <1>2, <1>3, CoreAssumption DEF AtLeast, Indices
  <2> QED
    BY <1>1, <2>1 DEF AtLeast
<1>5. \A k \in Tweaks : a # TweakAddress(k)
  <2>1. \/ a = Elsewhere
        \/ \E b \in Branches : a = <<b, index[b] - 1>>
    BY DEF SelectUtxos
  <2>2. \A b \in Branches : index[b] - 1 \in Int
    BY <1>2, CoreAssumption DEF Indices
  <2> QED
    BY <2>1, <2>2, TweaksAreApart
<1>6. TypeOK'
  BY <1>1, <1>2, <1>3 DEF WalletInv, TypeOK, CoreTypeOK, FileTypeOK, Indices
<1>7. FreshInv'
  BY <1>1 DEF WalletInv, FreshInv, Loaded
<1>8. FileInv'
  BY <1>1, <1>4 DEF WalletInv, FileInv, Loaded, AtLeast
<1>9. CoinInv'
  BY <1>1 DEF WalletInv, CoinInv, BondKept
<1>10. KeyInv'
  BY <1>1 DEF WalletInv, KeyInv, TweakedKeyIsStored
<1>11. PendingInv'
  <2>1. pending'.spends = t /\ pending'.addr = a
    BY <1>1
  <2> QED
    BY <1>1, <1>2, <1>5, <2>1 DEF PendingInv, BondKept
<1> QED
  BY <1>6, <1>7, <1>8, <1>9, <1>10, <1>11 DEF WalletInv

LEMMA ProposalKeeps ==
  ASSUME WalletInv, NEW t \in Txs, NEW k \in Tweaks, ProcessProposal(t, k)
  PROVE  WalletInv'
<1>1. /\ Loaded /\ phase = "running" /\ t \in utxos \ frozen
      /\ index' = check_path(index, {tx[s].addr : s \in get_all_utxos})
      /\ imported' = imported \cup {k} /\ known' = known \cup {TweakAddress(k)}
      /\ save(index', frozen, imported')
      /\ pending' = [spends |-> t, addr |-> TweakAddress(k)]
      /\ UNCHANGED <<tx, watched, lock, phase, utxos, frozen, used, active,
                     processed, news, matured, held, thawed, missed, found>>
  BY DEF ProcessProposal, parse_proposal_to_signed_tx, default_acceptance_callback,
         get_all_utxos, check_tweak_matches_and_import, import_private_key, Loaded,
         coreVars
<1>2. /\ index \in Indices /\ frozen \in SUBSET Txs /\ imported \in SUBSET Tweaks
      /\ held \subseteq frozen
      /\ tx[t].st # "none" /\ tx[t].addr \in known /\ BondKept(t)
  BY <1>1 DEF WalletInv, TypeOK, Indices, FileInv, CoinInv
<1>3. index' \in Indices /\ AtLeast(index', index)
  BY <1>1, <1>2, CheckPathIs
<1>4. /\ disk' \in DiskRecord /\ disk'.kind = "wallet"
      /\ imported' = disk'.imported /\ disk.imported \subseteq disk'.imported
      /\ held' \subseteq disk'.frozen
      /\ floor' \in Indices
      /\ AtLeast(disk'.index, floor')
      /\ AtLeast(index', floor') /\ AtLeast(index', found')
  <2>1. SaveIf(TRUE, index', frozen', imported')
    BY <1>1 DEF SaveIf
  <2>2. imported' \in SUBSET Tweaks /\ imported \subseteq imported'
    BY <1>1, <1>2
  <2> QED
    BY <1>1, <1>2, <1>3, <2>1, <2>2, SavedIsKept
<1>5. TypeOK'
  <2>1. TweakAddress(k) \in Addresses
    BY TweaksAreApart
  <2>2. pending' \in [spends : Txs, addr : Addresses \cup {Elsewhere}]
    BY <1>1, <2>1
  <2>3. known' \subseteq Addresses /\ imported' \subseteq Tweaks
    BY <1>1, <2>1 DEF WalletInv, TypeOK
  <2> QED
    BY <1>1, <1>3, <1>4, <2>2, <2>3
       DEF WalletInv, TypeOK, CoreTypeOK, FileTypeOK, Indices
<1>6. FreshInv'
  BY <1>1, <1>4 DEF FreshInv, Loaded
<1>7. FileInv'
  BY <1>1, <1>2, <1>4 DEF FileInv, Loaded, AtLeast
<1>8. CoinInv'
  BY <1>1 DEF WalletInv, CoinInv, BondKept
<1>9. KeyInv'
  BY <1>1, <1>4 DEF WalletInv, KeyInv, TweakedKeyIsStored
<1>10. PendingInv'
  <2>1. pending'.spends = t /\ pending'.addr = TweakAddress(k)
    BY <1>1
  <2>2. k \in disk'.imported
    BY <1>1, <1>4
  <2> QED
    BY <1>1, <1>2, <2>1, <2>2, TweaksAreApart DEF PendingInv, BondKept
<1> QED
  BY <1>5, <1>6, <1>7, <1>8, <1>9, <1>10 DEF WalletInv

(* A transaction that reaches Core is new, and taken for the wallet's only *)
(* if its address is watched.                                              *)
LEMMA ArrivalIs ==
  ASSUME WalletInv, NEW t \in Txs, NEW spends \in Txs \cup {NoTx},
         NEW addr \in Addresses \cup {Elsewhere}, Arrive(t, spends, addr)
  PROVE  /\ tx' \in [Txs -> TxRecord]
         /\ tx[t].st = "none"
         /\ tx'[t].addr = addr /\ (tx'[t].mine => addr \in watched)
         /\ \A u \in Txs \ {t} : tx'[u] = tx[u]
<1> DEFINE new == [st |-> "mempool", spends |-> spends, addr |-> addr,
                   mine |-> addr \in watched]
<1>1. tx \in [Txs -> TxRecord] /\ tx[t].st = "none" /\ tx' = [tx EXCEPT ![t] = new]
  BY DEF WalletInv, TypeOK, CoreTypeOK, Arrive
<1>2. /\ new.addr = addr /\ new.mine = (addr \in watched)
      /\ (addr \in watched) \in BOOLEAN
  OBVIOUS
<1>3. new \in TxRecord
  BY DEF TxRecord
<1> HIDE DEF new
<1> QED
  BY <1>1, <1>2, <1>3

(* What a running or sleeping wallet is told of the network changes none   *)
(* of the coins it has or is about to spend.                               *)
LEMMA ArrivalKeeps ==
  ASSUME WalletInv, NEW t \in Txs, NEW spends \in Txs \cup {NoTx},
         NEW addr \in Addresses \cup {Elsewhere}, Arrive(t, spends, addr),
         \A k \in Tweaks : addr = TweakAddress(k) => k \in disk.imported,
         disk.kind = "wallet",
         news' \in Seq(Txs), missed' \subseteq Txs, pending' \in {pending, None},
         UNCHANGED <<watched, disk, lock, phase, index, known, utxos, frozen,
                     imported, used, active, processed, matured, held, thawed,
                     floor, found>>
  PROVE  WalletInv'
<1>1. /\ tx' \in [Txs -> TxRecord]
      /\ tx[t].st = "none"
      /\ tx'[t].addr = addr /\ (tx'[t].mine => addr \in watched)
      /\ \A u \in Txs \ {t} : tx'[u] = tx[u]
  BY ArrivalIs
<1>2. \A u \in Txs : tx[u].st # "none" => tx'[u] = tx[u]
  BY <1>1
<1>3. TypeOK'
  BY <1>1 DEF WalletInv, TypeOK, CoreTypeOK, FileTypeOK
<1>4. FreshInv' /\ FileInv'
  BY DEF WalletInv, FreshInv, FileInv, Loaded, AtLeast
<1>5. CoinInv'
  <2>1. utxos \subseteq Txs
    BY DEF WalletInv, TypeOK
  <2> QED
    BY <1>1, <1>2, <2>1 DEF WalletInv, CoinInv, BondKept
<1>6. KeyInv'
  BY <1>1, <1>2 DEF WalletInv, KeyInv, TweakedKeyIsStored
<1>7. PendingInv'
  <2>1. pending # None => pending.spends \in Txs
    BY DEF WalletInv, TypeOK
  <2> QED
    BY <1>2, <2>1 DEF WalletInv, PendingInv, BondKept
<1> QED
  BY <1>3, <1>4, <1>5, <1>6, <1>7 DEF WalletInv

LEMMA PushKeeps ==
  ASSUME WalletInv, (\E t \in Txs : Push(t)) \/ PushFails
  PROVE  WalletInv'
<1>1. pending # None /\ pending' = None /\ disk.kind = "wallet"
  BY DEF Push, PushFails, WalletInv, FreshInv, Loaded
<1>2. ASSUME NEW t \in Txs, Push(t)
      PROVE  WalletInv'
  <2>1. /\ Arrive(t, pending.spends, pending.addr)
        /\ news' = Append(news, t)
        /\ UNCHANGED <<watched, fileVars, phase, index, known, utxos, frozen,
                       imported, used, active, processed, matured, ghosts>>
    BY <1>2 DEF Push, pushtx
  <2>2. pending \in [spends : Txs, addr : Addresses \cup {Elsewhere}]
    BY <1>1 DEF WalletInv, TypeOK
  <2>3. /\ pending.spends \in Txs \cup {NoTx}
        /\ pending.addr \in Addresses \cup {Elsewhere}
    BY <2>2
  <2>4. news' \in Seq(Txs) /\ missed' \subseteq Txs
    BY <2>1 DEF WalletInv, TypeOK, ghosts
  <2>5. \A k \in Tweaks : pending.addr = TweakAddress(k) => k \in disk.imported
    BY <1>1 DEF WalletInv, PendingInv
  <2> DEFINE spends == pending.spends
             addr == pending.addr
  <2>6. /\ spends \in Txs \cup {NoTx} /\ addr \in Addresses \cup {Elsewhere}
        /\ Arrive(t, spends, addr)
        /\ \A k \in Tweaks : addr = TweakAddress(k) => k \in disk.imported
    BY <2>1, <2>3, <2>5
  <2>7. UNCHANGED <<watched, disk, lock, phase, index, known, utxos, frozen,
                    imported, used, active, processed, matured, held, thawed,
                    floor, found>>
    BY <2>1 DEF fileVars, ghosts
  <2> HIDE DEF spends, addr
  <2> QED
    BY <1>1, <2>4, <2>6, <2>7, ArrivalKeeps
<1>3. ASSUME PushFails
      PROVE  WalletInv'
  <2> USE <1>3 DEF PushFails, WalletInv, coreVars, fileVars, ghosts
  <2>1. TypeOK'
    BY DEF TypeOK, CoreTypeOK, FileTypeOK
  <2>2. FreshInv' /\ FileInv'
    BY DEF FreshInv, FileInv, Loaded, AtLeast
  <2>3. CoinInv'
    BY DEF CoinInv, BondKept
  <2>4. KeyInv' /\ PendingInv'
    BY DEF KeyInv, TweakedKeyIsStored, PendingInv
  <2> QED
    BY <2>1, <2>2, <2>3, <2>4
<1> QED
  BY <1>2, <1>3

-----------------------------------------------------------------------------
(* The steps: the network and time.                                        *)

LEMMA DepositKeeps ==
  ASSUME WalletInv, NEW t \in Txs, NEW a \in Addresses, Deposit(t, a)
  PROVE  WalletInv'
<1>1. /\ a \in watched /\ Arrive(t, NoTx, a)
      /\ news' \in {news, Append(news, t)} /\ missed' \in {missed, missed \cup {t}}
      /\ UNCHANGED <<watched, disk, lock, phase, index, known, utxos, frozen,
                     imported, used, active, processed, pending, matured, held,
                     thawed, floor, found>>
  BY DEF Deposit, fileVars
<1>2. /\ \A k \in Tweaks : a = TweakAddress(k) => k \in disk.imported
      /\ disk.kind = "wallet"
  BY <1>1 DEF WalletInv, KeyInv, FreshInv
<1>3. news' \in Seq(Txs) /\ missed' \subseteq Txs
  <2>1. news \in Seq(Txs) /\ missed \subseteq Txs
    BY DEF WalletInv, TypeOK
  <2>2. Append(news, t) \in Seq(Txs)
    BY <2>1
  <2> QED
    BY <1>1, <2>1, <2>2
<1>4. NoTx \in Txs \cup {NoTx} /\ a \in Addresses \cup {Elsewhere}
  OBVIOUS
<1> QED
  BY <1>1, <1>2, <1>3, <1>4, ArrivalKeeps

(* Blocks, conflicts and rescans: transactions change, and none is undone. *)
LEMMA CoreMovesOn ==
  ASSUME WalletInv,
         tx' \in [Txs -> TxRecord],
         \A t \in Txs : /\ tx'[t].addr = tx[t].addr
                        /\ (tx'[t].st = "none") <=> (tx[t].st = "none")
                        /\ tx'[t].mine => tx[t].mine \/ tx[t].addr \in watched,
         missed' \subseteq Txs,
         UNCHANGED <<watched, fileVars, memVars, matured, held, thawed, floor, found>>
  PROVE  WalletInv'
<1> USE DEF WalletInv, fileVars, memVars
<1>1. /\ utxos \subseteq Txs
      /\ pending # None => pending.spends \in Txs
  BY DEF TypeOK
<1>2. TypeOK'
  BY DEF TypeOK, CoreTypeOK, FileTypeOK
<1>3. FreshInv' /\ FileInv'
  BY DEF FreshInv, FileInv, Loaded, AtLeast
<1>4. CoinInv'
  BY <1>1 DEF CoinInv, BondKept
<1>5. KeyInv'
  BY DEF KeyInv, TweakedKeyIsStored
<1>6. PendingInv'
  BY <1>1 DEF PendingInv, BondKept
<1> QED
  BY <1>2, <1>3, <1>4, <1>5, <1>6

LEMMA NetworkKeeps == ASSUME WalletInv, NetworkNext PROVE WalletInv'
<1>1. tx \in [Txs -> TxRecord] /\ missed \subseteq Txs
  BY DEF WalletInv, TypeOK, CoreTypeOK
<1>2. ASSUME NEW t \in Txs, MineTx(t) \/ ConflictTx(t)
      PROVE  WalletInv'
  <2>1. /\ tx[t].st = "mempool"
        /\ \/ tx' = [tx EXCEPT ![t].st = "mined"]
           \/ tx' = [tx EXCEPT ![t].st = "conflict"]
        /\ UNCHANGED <<watched, fileVars, memVars, matured, held, thawed, floor,
                       found, missed>>
    BY <1>2 DEF MineTx, ConflictTx, Mine, Conflict, ghosts
  <2>2. /\ tx' \in [Txs -> TxRecord]
        /\ \A u \in Txs : /\ tx'[u].addr = tx[u].addr
                          /\ (tx'[u].st = "none") <=> (tx[u].st = "none")
                          /\ tx'[u].mine => tx[u].mine
    BY <1>1, <2>1 DEF TxRecord
  <2> QED
    BY <1>1, <2>1, <2>2, CoreMovesOn
<1>3. ASSUME Rescan
      PROVE  WalletInv'
  <2>1. /\ tx' = [t \in Txs |-> [tx[t] EXCEPT !.mine =
                    @ \/ (tx[t].st = "mined" /\ tx[t].addr \in watched)]]
        /\ missed' \subseteq Txs
        /\ UNCHANGED <<watched, fileVars, memVars, matured, held, thawed, floor, found>>
    BY <1>1, <1>3 DEF Rescan, rescanblockchain
  <2>2. ASSUME NEW t \in Txs
        PROVE  /\ tx'[t] \in TxRecord
               /\ tx'[t].addr = tx[t].addr /\ tx'[t].st = tx[t].st
               /\ tx'[t].mine => tx[t].mine \/ tx[t].addr \in watched
    <3> DEFINE more == tx[t].mine \/ (tx[t].st = "mined" /\ tx[t].addr \in watched)
    <3>1. tx[t] \in TxRecord
      BY <1>1
    <3>2. tx'[t] = [tx[t] EXCEPT !.mine = more]
      BY <2>1
    <3>3. more \in BOOLEAN
      BY <3>1 DEF TxRecord
    <3>4. more => tx[t].mine \/ tx[t].addr \in watched
      OBVIOUS
    <3> HIDE DEF more
    <3> QED
      BY <3>1, <3>2, <3>3, <3>4 DEF TxRecord
  <2>3. tx' \in [Txs -> TxRecord]
    <3>1. tx' = [t \in Txs |-> tx'[t]]
      BY <2>1
    <3> QED
      BY <2>2, <3>1
  <2> QED
    BY <2>1, <2>2, <2>3, CoreMovesOn
<1>4. ASSUME Mature
      PROVE  WalletInv'
  <2> USE <1>4 DEF Mature, WalletInv, coreVars, fileVars, memVars, ghosts
  <2>1. TypeOK'
    BY DEF TypeOK, CoreTypeOK, FileTypeOK
  <2>2. FreshInv' /\ FileInv'
    BY DEF FreshInv, FileInv, Loaded, AtLeast
  <2>3. CoinInv' /\ PendingInv'
    BY DEF CoinInv, PendingInv, BondKept
  <2>4. KeyInv'
    BY DEF KeyInv, TweakedKeyIsStored
  <2> QED
    BY <2>1, <2>2, <2>3, <2>4
<1> QED
  BY <1>2, <1>3, <1>4, DepositKeeps DEF NetworkNext

-----------------------------------------------------------------------------
(* The theorems.                                                           *)

LEMMA NextWallet == WalletInv /\ [Next]_vars => WalletInv'
<1> SUFFICES ASSUME WalletInv, [Next]_vars PROVE WalletInv'
  OBVIOUS
<1>1. ASSUME UNCHANGED vars
      PROVE  WalletInv'
  <2> USE <1>1 DEF vars, WalletInv, coreVars, fileVars, memVars, ghosts
  <2>1. TypeOK'
    BY DEF TypeOK, CoreTypeOK, FileTypeOK
  <2>2. FreshInv' /\ FileInv'
    BY DEF FreshInv, FileInv, Loaded, AtLeast
  <2>3. CoinInv' /\ PendingInv'
    BY DEF CoinInv, PendingInv, BondKept
  <2>4. KeyInv'
    BY DEF KeyInv, TweakedKeyIsStored
  <2> QED
    BY <2>1, <2>2, <2>3, <2>4
<1>2. ASSUME FileNext
      PROVE  WalletInv'
  <2>1. OpenRefused => UNCHANGED vars
    BY DEF OpenRefused
  <2> QED
    BY <1>1, <1>2, <2>1, CreateKeeps, InitializeKeeps, OpenKeeps, StopKeeps,
       UnlockKeeps, ImportKeeps DEF FileNext
<1>3. ASSUME ServiceNext
      PROVE  WalletInv'
  BY <1>3, SyncAddressesKeeps, SyncUnspentKeeps, StartKeeps, MonitorKeeps
     DEF ServiceNext
<1>4. ASSUME UseNext
      PROVE  WalletInv'
  BY <1>4, GetAddressKeeps, SaveWalletKeeps, DisableKeeps, SelectKeeps,
     ProposalKeeps, PushKeeps DEF UseNext
<1> QED
  BY <1>1, <1>2, <1>3, <1>4, NetworkKeeps DEF Next

THEOREM WalletHolds == Spec => []WalletInv
<1> QED
  BY InitWallet, NextWallet, PTL DEF Spec

(* wallet.py, wallet_service.py: every value the wallet, its file and Core *)
(* keep has its type; no index passes the last gap address.                *)
THEOREM WalletTypeCorrect == Spec => []TypeOK
<1>1. WalletInv => TypeOK
  BY DEF WalletInv
<1> QED
  BY <1>1, WalletHolds, PTL

(* wallet.py select_utxos, disable_utxo, add_utxo: a coin that the user,   *)
(* the reuse check or a timelock holds back is not signed away, whichever  *)
(* way it came into the wallet and however often the program was killed.   *)
THEOREM HeldBackStays == Spec => []HeldBackIsNotSpent
<1>1. WalletInv => HeldBackIsNotSpent
  BY DEF WalletInv, PendingInv, HeldBackIsNotSpent, FrozenIsNotSpent,
         BondIsNotSpentEarly, BondKept
<1> QED
  BY <1>1, WalletHolds, PTL

(* wallet_service.py sync_addresses, wallet.py save: a running wallet hands *)
(* out addresses past all that were saved or found used.                   *)
THEOREM IndicesNeverFallBack == Spec => []IndexPastUsed
<1>1. WalletInv => IndexPastUsed
  BY DEF WalletInv, FileInv, Loaded, AtLeast, IndexPastUsed
<1> QED
  BY <1>1, WalletHolds, PTL

(* snicker_receiver.py process_proposals: the key of a tweaked output is   *)
(* in the file before a transaction that pays it is known to anybody.      *)
THEOREM KeysAreStored == Spec => []TweakedKeyIsStored
<1>1. WalletInv => TweakedKeyIsStored
  BY DEF WalletInv, KeyInv
<1> QED
  BY <1>1, WalletHolds, PTL

-----------------------------------------------------------------------------
(* The monitor and Bitcoin Core.                                           *)

\* Core: what spends a coin came after it, and is not mined before it.
CoreOrder ==
  \A u \in Txs : tx[u].spends \in Txs =>
    /\ tx[u].st # "none" /\ tx[tx[u].spends].st # "none"
    /\ tx[u].st = "mined" => tx[tx[u].spends].st = "mined"

\* The transactions that the monitor has still to look at, or to look at again.
Watched == active \cup Range(news)

\* As long as a coin is in the wallet, or may be added to it again, whatever
\* spends it is watched; at its first pass the coin is still there.
SpenderWatched ==
  /\ \A u, t \in Txs :
       tx[u].spends = t /\ Live(u) /\ t \in utxos \cup Watched => u \in Watched
  /\ \A u \in Range(news) : tx[u].spends \in Txs /\ Live(u) => tx[u].spends \in utxos
  /\ pending # None => pending.spends \in utxos

NeverSpent(t) == \A u \in Txs : tx[u].spends # t

\* A coin of the wallet's that nothing ever tried to spend is in the wallet, is
\* about to be taken, or came when the service could not see it.
ArrivalTaken ==
  phase \in {"unspent", "running"} =>
    \A t \in Txs :
      Live(t) /\ tx[t].mine /\ NeverSpent(t) => t \in utxos \cup Range(news) \cup missed

TrackInv ==
  /\ CoreOrder
  /\ SpenderWatched
  /\ ArrivalTaken
  /\ phase # "running" => news = <<>>

LEMMA NewsIs ==
  ASSUME NEW S, NEW seq \in Seq(S), NEW t \in S
  PROVE  /\ Range(<<>>) = {}
         /\ Range(seq) \subseteq S
         /\ Append(seq, t) \in Seq(S)
         /\ Range(Append(seq, t)) = Range(seq) \cup {t}
<1>1. Range(<<>>) = {} /\ Range(seq) \subseteq S
  BY DEF Range
<1>2. /\ Append(seq, t) \in Seq(S)
      /\ DOMAIN seq = 1 .. Len(seq) /\ Len(seq) \in Nat
      /\ DOMAIN Append(seq, t) = 1 .. Len(seq) + 1
      /\ \A i \in 1 .. Len(seq) : Append(seq, t)[i] = seq[i]
      /\ Append(seq, t)[Len(seq) + 1] = t
  OBVIOUS
<1>3. \A i : i \in 1 .. Len(seq) + 1 <=> i \in 1 .. Len(seq) \/ i = Len(seq) + 1
  BY <1>2
<1>4. Range(Append(seq, t)) = Range(seq) \cup {t}
  BY <1>2, <1>3 DEF Range
<1> QED
  BY <1>1, <1>2, <1>4

(* Steps that leave Core, the coins and the monitor alone.                 *)
LEMMA QuietTrack ==
  ASSUME TrackInv,
         UNCHANGED <<tx, utxos, active, news, missed>>,
         pending' # None => pending' = pending \/ pending'.spends \in utxos,
         phase' # phase => phase' \notin {"unspent", "running"} /\ phase # "running"
  PROVE  TrackInv'
<1>1. CoreOrder'
  BY DEF TrackInv, CoreOrder
<1>2. SpenderWatched'
  BY DEF TrackInv, SpenderWatched, Watched, Live
<1>3. ArrivalTaken'
  BY DEF TrackInv, ArrivalTaken, NeverSpent, Live
<1> QED
  BY <1>1, <1>2, <1>3 DEF TrackInv

LEMMA ForgottenTrack ==
  ASSUME TrackInv, ForgetMemory, UNCHANGED tx
  PROVE  TrackInv'
<1>1. /\ phase' = "off" /\ utxos' = {} /\ active' = {} /\ news' = <<>>
      /\ pending' = None
  BY DEF ForgetMemory
<1>2. Range(news') = {}
  BY <1>1 DEF Range
<1>3. CoreOrder'
  BY DEF TrackInv, CoreOrder
<1>4. SpenderWatched'
  BY <1>1, <1>2 DEF SpenderWatched, Watched
<1>5. ArrivalTaken'
  BY <1>1 DEF ArrivalTaken
<1> QED
  BY <1>1, <1>3, <1>4, <1>5 DEF TrackInv

LEMMA SyncUnspentTrack ==
  ASSUME WalletInv, TrackInv, SyncUnspent
  PROVE  TrackInv'
<1> DEFINE ours == {t \in listunspent : tx[t].addr \in known}
<1>1. /\ phase \in {"addresses", "again"} /\ phase' \in {"unspent", "opened"}
      /\ utxos' = ours /\ missed' = listunspent \ ours
      /\ active' = active \cup {t \in ours : get_transaction(t) = 0}
      /\ UNCHANGED <<tx, news, pending>>
  BY DEF SyncUnspent, coreVars
<1>2. /\ ours \subseteq listunspent /\ listunspent \subseteq Txs
      /\ \A t \in listunspent : ~\E u \in Txs : SpentBy(t, u)
      /\ \A t \in Txs : Live(t) /\ tx[t].mine /\ NeverSpent(t) => t \in listunspent
  BY DEF listunspent, SpentBy, NeverSpent
<1> HIDE DEF ours
<1>3. news = <<>> /\ Range(news) = {} /\ pending = None
  BY <1>1 DEF TrackInv, Range, WalletInv, PendingInv
<1>4. CoreOrder'
  BY <1>1 DEF TrackInv, CoreOrder
<1>5. SpenderWatched'
  <2>1. ASSUME NEW u \in Txs, NEW t \in Txs,
               tx[u].spends = t, Live(u), t \in ours \cup active'
        PROVE  u \in active'
    <3>1. t \notin ours
      BY <1>2, <2>1 DEF SpentBy
    <3>2. t \in active
      BY <1>1, <2>1, <3>1
    <3>3. u \in active
      BY <1>3, <2>1, <3>2 DEF TrackInv, SpenderWatched, Watched
    <3> QED
      BY <1>1, <3>3
  <2> QED
    BY <1>1, <1>3, <2>1 DEF SpenderWatched, Watched, Live
<1>6. ArrivalTaken'
  BY <1>1, <1>2 DEF ArrivalTaken, NeverSpent, Live
<1> QED
  BY <1>1, <1>3, <1>4, <1>5, <1>6 DEF TrackInv

LEMMA StartTrack == ASSUME TrackInv, StartMonitor PROVE TrackInv'
<1>1. /\ phase = "unspent" /\ phase' = "running" /\ news = <<>> /\ news' = <<>>
      /\ UNCHANGED <<tx, utxos, active, missed, pending>>
  BY DEF StartMonitor, TrackInv, coreVars, ghosts
<1>2. CoreOrder'
  BY <1>1 DEF TrackInv, CoreOrder
<1>3. SpenderWatched'
  BY <1>1 DEF TrackInv, SpenderWatched, Watched, Live
<1>4. ArrivalTaken'
  BY <1>1 DEF TrackInv, ArrivalTaken, NeverSpent, Live
<1> QED
  BY <1>1, <1>2, <1>3, <1>4 DEF TrackInv

(* One pass of the monitor: a coin that stays or comes has no spender that *)
(* the pass has looked at and left.                                        *)
LEMMA MonitorTrack ==
  ASSUME WalletInv, TrackInv, transaction_monitor
  PROVE  TrackInv'
<1> DEFINE new == new_transactions
           all == confirmed_active \cup new
<1>1. /\ phase = "running" /\ phase' = phase /\ pending = None /\ pending' = None
      /\ utxos' = remove_old_utxos(utxos \cup add_new_utxos(all), all)
      /\ active' = {t \in active : get_transaction(t) = 0}
                     \cup {t \in new : get_transaction(t) = 0 /\ Touches(t, all)}
      /\ missed' = missed \cup {t \in new : tx[t].mine /\ tx[t].addr \notin known}
      /\ news' = <<>> /\ Range(news') = {}
      /\ UNCHANGED <<tx, known>>
  BY DEF transaction_monitor, coreVars, Range
<1>2. /\ Range(news) \subseteq Txs /\ active \subseteq Txs /\ utxos \subseteq Txs
      /\ tx \in [Txs -> TxRecord]
  BY DEF WalletInv, TypeOK, CoreTypeOK, Range
<1>3. \A t \in Txs : /\ tx[t].st = "mined" <=> get_transaction(t) = 1
                     /\ tx[t].st = "mempool" <=> get_transaction(t) = 0
                     /\ Live(t) <=> get_transaction(t) >= 0
  <2>1. ASSUME NEW t \in Txs
        PROVE  tx[t].st \in {"none", "mempool", "mined", "conflict"}
    BY <1>2 DEF TxRecord
  <2> QED
    BY <2>1 DEF get_transaction, Live
<1>4. CoreOrder'
  BY <1>1 DEF TrackInv, CoreOrder
<1>5. SpenderWatched'
  <2>1. ASSUME NEW u \in Txs, NEW t \in Txs, tx[u].spends = t, Live(u),
               t \in utxos' \cup active'
        PROVE  u \in active'
    <3>1. t \in utxos \cup Watched
      BY <1>1, <2>1
         DEF Watched, remove_old_utxos, add_new_utxos, confirmed_active,
             new_transactions
    <3>2. u \in active \/ u \in Range(news)
      BY <2>1, <3>1 DEF TrackInv, SpenderWatched, Watched
    <3>3. u \in Range(news) => u \in new /\ Touches(u, all)
      BY <1>3, <2>1 DEF TrackInv, SpenderWatched, Touches, new_transactions
    <3>4. CASE t \in active'
      <4>1. tx[t].st = "mempool"
        BY <1>1, <1>3, <3>4
      <4>2. tx[u].st = "mempool"
        BY <2>1, <4>1 DEF TrackInv, CoreOrder, Live
      <4> QED
        BY <1>1, <1>3, <3>2, <3>3, <4>2
    <3>5. CASE t \in utxos'
      <4>1. u \notin all
        BY <1>1, <2>1, <3>5 DEF remove_old_utxos
      <4>2. u \in active /\ get_transaction(u) # 1
        BY <3>2, <3>3, <4>1 DEF confirmed_active
      <4>3. get_transaction(u) = 0
        BY <1>3, <2>1, <4>2 DEF Live
      <4> QED
        BY <1>1, <4>2, <4>3
    <3> QED
      BY <2>1, <3>4, <3>5
  <2>2. Watched' = active'
    BY <1>1 DEF Watched
  <2> QED
    BY <1>1, <2>1, <2>2 DEF SpenderWatched, Live
<1>6. ArrivalTaken'
  <2>1. ASSUME NEW t \in Txs, Live(t), tx[t].mine, NeverSpent(t)
        PROVE  t \in utxos' \cup missed'
    <3>1. t \in utxos \cup Range(news) \cup missed
      BY <1>1, <2>1 DEF TrackInv, ArrivalTaken
    <3>2. \A v \in all : tx[v].spends # t
      BY <1>2, <2>1 DEF NeverSpent, confirmed_active, new_transactions
    <3>3. t \in Range(news) => t \in new
      BY <1>3, <2>1 DEF new_transactions
    <3>4. t \in new => t \in add_new_utxos(all) \/ t \in missed'
      BY <1>1, <2>1 DEF add_new_utxos
    <3>5. t \in utxos \cup add_new_utxos(all) => t \in utxos'
      BY <1>1, <3>2 DEF remove_old_utxos
    <3>6. missed \subseteq missed'
      BY <1>1
    <3> QED
      BY <3>1, <3>3, <3>4, <3>5, <3>6
  <2> HIDE DEF new, all
  <2> QED
    BY <1>1, <2>1 DEF ArrivalTaken, NeverSpent, Live
<1> QED
  BY <1>1, <1>4, <1>5, <1>6 DEF TrackInv

(* A transaction that reaches Core: the service is told of it, or could    *)
(* not see it; if it spends a coin of the wallet's it is the service's own.*)
LEMMA ArrivalTrack ==
  ASSUME WalletInv, TrackInv,
         NEW t \in Txs, NEW spends \in Txs \cup {NoTx},
         NEW addr \in Addresses \cup {Elsewhere}, Arrive(t, spends, addr),
         spends \in Txs =>
           spends \in utxos /\ tx[spends].st # "none" /\ t \in Range(news'),
         Range(news) \subseteq Range(news'), Range(news') \subseteq Range(news) \cup {t},
         phase \in {"unspent", "running"} => t \in Range(news') \cup missed',
         phase # "running" => news' = <<>>,
         missed \subseteq missed', pending' \in {pending, None},
         UNCHANGED <<phase, utxos, active>>
  PROVE  TrackInv'
<1>1. tx \in [Txs -> TxRecord] /\ tx[t].st = "none"
  BY DEF WalletInv, TypeOK, CoreTypeOK, Arrive
<1>2. /\ tx'[t].st = "mempool" /\ tx'[t].spends = spends
      /\ \A u \in Txs \ {t} : tx'[u] = tx[u]
  BY <1>1 DEF Arrive
<1>3. \A u \in Txs : tx[u].spends # t
  BY <1>1 DEF TrackInv, CoreOrder
<1>4. tx[t].spends \notin Txs
  BY <1>1 DEF TrackInv, CoreOrder
<1>5. spends # t
  BY <1>1
<1>6. CoreOrder'
  <2>1. ASSUME NEW u \in Txs, tx'[u].spends \in Txs
        PROVE  /\ tx'[u].st # "none" /\ tx'[tx'[u].spends].st # "none"
               /\ tx'[u].st = "mined" => tx'[tx'[u].spends].st = "mined"
    <3>1. CASE u = t
      BY <1>2, <1>5, <2>1, <3>1
    <3>2. CASE u # t
      <4>1. tx'[u] = tx[u] /\ tx[u].spends \in Txs \ {t}
        BY <1>2, <1>3, <2>1, <3>2
      <4>2. tx'[tx[u].spends] = tx[tx[u].spends]
        BY <1>2, <4>1
      <4> QED
        BY <4>1, <4>2 DEF TrackInv, CoreOrder
    <3> QED
      BY <3>1, <3>2
  <2> QED
    BY <2>1 DEF CoreOrder
<1>7. SpenderWatched'
  <2>1. ASSUME NEW u \in Txs, NEW w \in Txs, tx'[u].spends = w, Live(u)',
               w \in utxos \cup active \cup Range(news')
        PROVE  u \in active \cup Range(news')
    <3>1. CASE u = t
      BY <1>2, <2>1, <3>1
    <3>2. CASE u # t
      <4>1. tx'[u] = tx[u] /\ w # t
        BY <1>2, <1>3, <2>1, <3>2
      <4>2. Live(u) /\ tx[u].spends = w /\ w \in utxos \cup Watched
        BY <2>1, <4>1 DEF Live, Watched
      <4> QED
        BY <2>1, <4>2 DEF TrackInv, SpenderWatched, Watched
    <3> QED
      BY <3>1, <3>2
  <2>2. ASSUME NEW u \in Range(news'), tx'[u].spends \in Txs, Live(u)'
        PROVE  tx'[u].spends \in utxos
    <3>1. CASE u = t
      BY <1>2, <2>2, <3>1
    <3>2. CASE u # t
      <4>1. u \in Range(news) /\ u \in Txs
        <5>1. Range(news) \subseteq Txs
          BY DEF WalletInv, TypeOK, Range
        <5> QED
          BY <2>2, <3>2, <5>1
      <4>2. tx'[u] = tx[u]
        BY <1>2, <3>2, <4>1
      <4> QED
        BY <2>2, <4>1, <4>2 DEF TrackInv, SpenderWatched, Live
    <3> QED
      BY <3>1, <3>2
  <2>3. pending' # None => pending'.spends \in utxos
    BY DEF TrackInv, SpenderWatched
  <2>4. Watched' = active \cup Range(news') /\ utxos' = utxos
    BY DEF Watched
  <2> QED
    BY <2>1, <2>2, <2>3, <2>4 DEF SpenderWatched
<1>8. ArrivalTaken'
  <2>1. ASSUME phase \in {"unspent", "running"},
               NEW w \in Txs, Live(w)', tx'[w].mine, NeverSpent(w)'
        PROVE  w \in utxos \cup Range(news') \cup missed'
    <3>1. CASE w = t
      BY <2>1, <3>1
    <3>2. CASE w # t
      <4>1. tx'[w] = tx[w]
        BY <1>2, <3>2
      <4>2. \A u \in Txs : tx[u].spends # w
        BY <1>2, <1>4, <2>1 DEF NeverSpent
      <4> QED
        BY <2>1, <4>1, <4>2 DEF TrackInv, ArrivalTaken, NeverSpent, Live
    <3> QED
      BY <3>1, <3>2
  <2> QED
    BY <2>1 DEF ArrivalTaken
<1> QED
  BY <1>6, <1>7, <1>8 DEF TrackInv

LEMMA PushTrack ==
  ASSUME WalletInv, TrackInv, NEW t \in Txs, Push(t)
  PROVE  TrackInv'
<1> DEFINE spends == pending.spends
           addr == pending.addr
<1>1. /\ pending # None /\ Live(spends) /\ Arrive(t, spends, addr)
      /\ news' = Append(news, t) /\ pending' = None
      /\ UNCHANGED <<phase, utxos, active, missed>>
  BY DEF Push, pushtx, ghosts
<1>2. /\ spends \in Txs \cup {NoTx} /\ addr \in Addresses \cup {Elsewhere}
      /\ spends \in utxos /\ phase = "running"
  BY <1>1 DEF WalletInv, TypeOK, PendingInv, TrackInv, SpenderWatched
<1>3. /\ Range(news') = Range(news) \cup {t}
      /\ tx[spends].st # "none"
  BY <1>1, NewsIs DEF WalletInv, TypeOK, Live
<1> HIDE DEF spends, addr
<1> QED
  BY <1>1, <1>2, <1>3, ArrivalTrack

LEMMA DepositTrack ==
  ASSUME WalletInv, TrackInv, NEW t \in Txs, NEW a \in Addresses, Deposit(t, a)
  PROVE  TrackInv'
<1>1. /\ Arrive(t, NoTx, a)
      /\ news' = IF phase = "running" THEN Append(news, t) ELSE news
      /\ missed' = IF phase = "unspent" THEN missed \cup {t} ELSE missed
      /\ UNCHANGED <<phase, utxos, active, pending>>
  BY DEF Deposit
<1>2. Range(Append(news, t)) = Range(news) \cup {t}
  BY NewsIs DEF WalletInv, TypeOK
<1>3. NoTx \notin Txs /\ (phase # "running" => news = <<>>)
  BY CoreAssumption DEF TrackInv
<1>4. /\ NoTx \in Txs \cup {NoTx} /\ a \in Addresses \cup {Elsewhere}
      /\ Range(news) \subseteq Range(news') /\ Range(news') \subseteq Range(news) \cup {t}
      /\ phase \in {"unspent", "running"} => t \in Range(news') \cup missed'
      /\ phase # "running" => news' = <<>>
      /\ missed \subseteq missed'
  BY <1>1, <1>2, <1>3
<1> QED
  BY <1>1, <1>3, <1>4, ArrivalTrack

(* Blocks, conflicts and rescans: no transaction comes back to life.       *)
LEMMA MovesTrack ==
  ASSUME WalletInv, TrackInv, CoreOrder',
         \A t \in Txs : /\ tx'[t].spends = tx[t].spends
                        /\ Live(t)' => Live(t)
                        /\ phase \in {"unspent", "running"} /\ tx'[t].mine =>
                             tx[t].mine \/ t \in missed',
         missed \subseteq missed',
         UNCHANGED <<phase, utxos, active, news, pending>>
  PROVE  TrackInv'
<1>1. Range(news) \subseteq Txs
  BY DEF WalletInv, TypeOK, Range
<1>2. SpenderWatched'
  BY <1>1 DEF TrackInv, SpenderWatched, Watched
<1>3. ArrivalTaken'
  BY DEF TrackInv, ArrivalTaken, NeverSpent
<1> QED
  BY <1>2, <1>3 DEF TrackInv

LEMMA NetworkTrack ==
  ASSUME WalletInv, TrackInv, NetworkNext
  PROVE  TrackInv'
<1>1. tx \in [Txs -> TxRecord]
  BY DEF WalletInv, TypeOK, CoreTypeOK
<1>2. ASSUME NEW t \in Txs, MineTx(t) \/ ConflictTx(t)
      PROVE  TrackInv'
  <2>1. /\ tx[t].st = "mempool"
        /\ UNCHANGED <<phase, utxos, active, news, pending, missed>>
        /\ \A u \in Txs : /\ tx'[u].spends = tx[u].spends
                          /\ tx'[u].mine = tx[u].mine
                          /\ u # t => tx'[u] = tx[u]
    BY <1>1, <1>2 DEF MineTx, ConflictTx, Mine, Conflict, TxRecord, memVars, ghosts
  <2>2. /\ MineTx(t) => /\ tx'[t].st = "mined"
                        /\ tx[t].spends # NoTx => tx[tx[t].spends].st = "mined"
        /\ ConflictTx(t) => /\ tx'[t].st = "conflict"
                            /\ \A u \in Txs : tx[u].spends = t => ~Live(u)
    BY <1>1 DEF MineTx, ConflictTx, Mine, Conflict, SpentBy, TxRecord
  <2>3. \A u \in Txs : Live(u)' => Live(u)
    BY <2>1 DEF Live
  <2>4. CoreOrder'
    <3>1. ASSUME NEW u \in Txs, tx'[u].spends \in Txs
          PROVE  /\ tx'[u].st # "none" /\ tx'[tx'[u].spends].st # "none"
                 /\ tx'[u].st = "mined" => tx'[tx'[u].spends].st = "mined"
      <4> DEFINE w == tx[u].spends
      <4>1. /\ w \in Txs /\ tx'[u].spends = w /\ w # NoTx
            /\ tx[u].st # "none" /\ tx[w].st # "none"
            /\ tx[u].st = "mined" => tx[w].st = "mined"
        BY <2>1, <3>1, CoreAssumption DEF TrackInv, CoreOrder
      <4> HIDE DEF w
      <4>2. \A v \in Txs : tx[v].st # "none" => tx'[v].st # "none"
        BY <1>2, <2>1, <2>2
      <4>3. ASSUME tx'[u].st = "mined"
            PROVE  tx'[w].st = "mined"
        <5>1. tx[w].st = "mined"
          BY <1>2, <2>1, <2>2, <4>1, <4>3 DEF w
        <5> QED
          BY <2>1, <4>1, <5>1
      <4> QED
        BY <4>1, <4>2, <4>3
    <3> QED
      BY <3>1 DEF CoreOrder
  <2> QED
    BY <2>1, <2>3, <2>4, MovesTrack
<1>3. ASSUME Rescan
      PROVE  TrackInv'
  <2>1. /\ UNCHANGED <<phase, utxos, active, news, pending>>
        /\ missed' = IF phase \in {"unspent", "running"}
                       THEN missed \cup {t \in Txs : tx'[t] # tx[t]} ELSE missed
        /\ \A u \in Txs : tx'[u].spends = tx[u].spends /\ tx'[u].st = tx[u].st
    BY <1>1, <1>3 DEF Rescan, rescanblockchain, memVars, TxRecord
  <2>2. CoreOrder'
    BY <2>1 DEF TrackInv, CoreOrder
  <2>3. \A u \in Txs : Live(u)' => Live(u)
    BY <2>1 DEF Live
  <2> QED
    BY <2>1, <2>2, <2>3, MovesTrack
<1>4. ASSUME Mature
      PROVE  TrackInv'
  <2>1. UNCHANGED <<tx, utxos, active, news, missed, pending, phase>>
    BY <1>4 DEF Mature, coreVars, memVars, ghosts
  <2> QED
    BY <2>1, QuietTrack
<1> QED
  BY <1>2, <1>3, <1>4, DepositTrack DEF NetworkNext

LEMMA NextTrack == WalletInv /\ TrackInv /\ [Next]_vars => TrackInv'
<1> SUFFICES ASSUME WalletInv, TrackInv, [Next]_vars PROVE TrackInv'
  OBVIOUS
<1>1. ASSUME UNCHANGED vars
      PROVE  TrackInv'
  <2>1. UNCHANGED <<tx, utxos, active, news, missed, pending, phase>>
    BY <1>1 DEF vars, coreVars, memVars, ghosts
  <2> QED
    BY <2>1, QuietTrack
<1>2. ASSUME CreateWallet \/ InitializeWallet \/ OpenWallet \/ OpenRefused
               \/ UserRemovesLock \/ \E k \in Tweaks : ImportKey(k)
      PROVE  TrackInv'
  <2>1. UNCHANGED <<tx, utxos, active, news, missed, pending>>
    BY <1>2 DEF CreateWallet, InitializeWallet, OpenWallet, OpenRefused,
                UserRemovesLock, ImportKey, vars, coreVars, memVars, ghosts
  <2>2. phase' # phase => phase' \notin {"unspent", "running"} /\ phase # "running"
    BY <1>2 DEF CreateWallet, InitializeWallet, OpenWallet, OpenRefused,
                UserRemovesLock, ImportKey, vars, memVars
  <2> QED
    BY <2>1, <2>2, QuietTrack
<1>3. ASSUME StopService \/ Kill
      PROVE  TrackInv'
  BY <1>3, ForgottenTrack DEF StopService, Kill, coreVars
<1>4. ASSUME NEW fast \in BOOLEAN, SyncAddresses(fast)
      PROVE  TrackInv'
  <2>1. phase = "opened" /\ UNCHANGED tx
    BY <1>4 DEF SyncAddresses
  <2>2. \/ ForgetMemory
        \/ /\ UNCHANGED <<utxos, active, news, missed, pending>>
           /\ phase' \in {"addresses", "again"}
    BY <1>4 DEF SyncAddresses, sync_addresses, sync_addresses_fast, ImportAndExit
  <2> QED
    BY <2>1, <2>2, ForgottenTrack, QuietTrack
<1>5. ASSUME ServiceNext
      PROVE  TrackInv'
  BY <1>4, <1>5, SyncUnspentTrack, StartTrack, MonitorTrack DEF ServiceNext
<1>6. ASSUME UseNext
      PROVE  TrackInv'
  <2>1. ASSUME \/ \E b \in Branches, saving \in BOOLEAN : GetAddress(b, saving)
               \/ SaveWallet
               \/ \E t \in Txs, disable \in BOOLEAN : DisableUtxo(t, disable)
               \/ PushFails
        PROVE  TrackInv'
    <3>1. /\ UNCHANGED <<tx, utxos, active, news, missed, phase>>
          /\ pending' \in {pending, None}
      BY <2>1 DEF GetAddress, SaveWallet, DisableUtxo, PushFails, coreVars, memVars,
                  ghosts
    <3> QED
      BY <3>1, QuietTrack
  <2>2. ASSUME NEW t \in Txs,
               \/ \E a \in Addresses \cup {Elsewhere} : SelectUtxos(t, a)
               \/ \E k \in Tweaks : ProcessProposal(t, k)
        PROVE  TrackInv'
    <3>1. /\ UNCHANGED <<tx, utxos, active, news, missed, phase>>
          /\ t \in utxos
          /\ \E a : pending' = [spends |-> t, addr |-> a]
      BY <2>2 DEF SelectUtxos, ProcessProposal, Selectable, get_all_utxos,
                  parse_proposal_to_signed_tx, default_acceptance_callback,
                  coreVars, ghosts
    <3>2. pending'.spends \in utxos
      BY <3>1
    <3> QED
      BY <3>1, <3>2, QuietTrack
  <2> QED
    BY <1>6, <2>1, <2>2, PushTrack DEF UseNext
<1> QED
  BY <1>1, <1>2, <1>3, <1>5, <1>6, NetworkTrack DEF Next, FileNext

(* wallet_service.py sync_unspent, transaction_monitor: a monitor that has *)
(* caught up agrees with Bitcoin Core, however arrivals, confirmations,    *)
(* conflicts, rescans, syncs and restarts were ordered.                    *)
THEOREM CaughtUpAgrees == Spec => []CoinsAgreeWithCore
<1>1. Init => TrackInv
  BY CoreAssumption
     DEF Init, CoreInit, Unseen, TrackInv, CoreOrder, SpenderWatched, ArrivalTaken,
         Watched, Range, Live
<1>2. WalletInv /\ TrackInv => CoinsAgreeWithCore
  <2> SUFFICES ASSUME WalletInv, TrackInv, CaughtUp
               PROVE  /\ \A t \in listunspent \ missed :
                           /\ tx[t].addr \in known
                           /\ ~(\E u \in Txs : tx[u].spends = t)
                           => t \in utxos
                      /\ \A t \in utxos :
                           ~\E u \in Txs : tx[u].spends = t /\ tx[u].st = "mined"
    BY DEF CoinsAgreeWithCore, CoinsAreFound, SpentIsGone
  <2>1. /\ phase = "running" /\ Watched = active
        /\ \A t \in active : get_transaction(t) = 0
    BY DEF CaughtUp, Watched, Range
  <2>2. ASSUME NEW t \in listunspent \ missed, ~(\E u \in Txs : tx[u].spends = t)
        PROVE  t \in utxos
    <3>1. Range(news) = {}
      BY DEF CaughtUp, Range
    <3> QED
      BY <2>1, <2>2, <3>1 DEF listunspent, TrackInv, ArrivalTaken, NeverSpent
  <2>3. ASSUME NEW t \in utxos, NEW u \in Txs, tx[u].spends = t, tx[u].st = "mined"
        PROVE  FALSE
    <3>1. t \in Txs
      BY DEF WalletInv, TypeOK
    <3>2. u \in active
      BY <2>1, <2>3, <3>1 DEF TrackInv, SpenderWatched, Live
    <3> QED
      BY <2>1, <2>3, <3>2 DEF get_transaction
  <2> QED
    BY <2>2, <2>3
<1> QED
  BY <1>1, <1>2, NextTrack, WalletHolds, PTL DEF Spec
=============================================================================
