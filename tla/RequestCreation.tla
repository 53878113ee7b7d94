---------------------------- MODULE RequestCreation ----------------------------
(***************************************************************************)
(* exchange.createRequest and what it allocates: the deposit address of    *)
(* lib/depositAddress.ts, derived from the master wallet of the pair or    *)
(* asked of the exchange, the gas wallets of both networks, the quote and  *)
(* the order id.  Every database call is a step of its own, so that calls  *)
(* of several clients interleave; the keys of db/schema.prisma are all     *)
(* that stands between them.  A row gets its createdAt as it is committed. *)
(* Bounds: MaxCalls and MaxChanges.                                        *)
(***************************************************************************)
EXTENDS Quote, Sequences, FiniteSets

CONSTANTS
  Callers, Pairs, Networks,
  NetworkOf,       \* of each coin-network pair
  PublicKeyNetworks, \* whose generateWallet gives a public key or address as xpub
  NoPair,
  FromAmounts, OrderIds,
  MaxCalls,        \* calls of createRequest
  MaxChanges       \* what the operator or the exchange changes meanwhile

ASSUME CreationAssumption ==
  /\ NetworkOf \in [Pairs -> Networks] /\ NoPair \notin Pairs
  /\ PublicKeyNetworks \subseteq Networks
  /\ FromAmounts \subseteq Nat /\ MaxCalls \in Nat /\ MaxChanges \in Nat

VARIABLES
  provider,    \* the exchange the process was started with
  source,      \* depositSource of each network
  venue,       \* chain code and address the exchange has for each pair
  wallet,      \* MasterWallet rows, by pair
  deposits,    \* DepositAddress rows
  gas,         \* GasWallet rows of each network, oldest first
  requests,    \* ExchangeRequest rows
  call,        \* what each caller is doing
  minted,      \* mnemonics generated so far
  calls, changes

vars == <<provider, source, venue, wallet, deposits, gas, requests, call, minted, calls, changes>>
-------------------------------------------------------------------------------
Providers == {"kucoin", "binance"}
Sources   == {"TATUM", "KUCOIN", "BINANCE"}

(* Keys and addresses.  The mnemonic of a wallet is its number, 0 is none.  As
   xpub most families store the extended public key or the mnemonic itself:
   both derive what the mnemonic derives ("hd").  Solana, Stellar, Algorand,
   NEAR, Polkadot and Cardano store the public key or address of index 0, but
   deriveAddress takes that string for a mnemonic, of which it makes another
   tree of keys ("pub"). *)
GeneratedKey(p, mnemonic) ==
  <<IF NetworkOf[p] \in PublicKeyNetworks THEN "pub" ELSE "hd", mnemonic, 0>>
VenueKey(v, p, code)  == <<v, p, code>>
HdAddress(key, index) == <<key[1], key[2], index>>
VenueAddress(p, n)    == <<"venue", p, n>>
IsHd(keyOrAddress)    == keyOrAddress[1] \in {"hd", "pub"}
NoKey                 == <<"none", 0, 0>>

Wallet(key, surprise) ==
  [xpub |-> key, surprise |-> surprise, currentIndex |-> 0, generatedAddresses |-> 0]

DepositRow(address, index, key) == [address |-> address, index |-> index, xpub |-> key]

Free(address, index, key) ==
  \A d \in deposits : d.address # address /\ ~(d.xpub = key /\ d.index = index)

OwnersOf(key) == {p \in DOMAIN wallet : wallet[p].xpub = key}

(* Mutant of NextIndex: a fresh wallet starts behind its initial index too. *)
NextIndexOfAny(w) == w.currentIndex + 1

NextIndex(w) == IF w.generatedAddresses > 0 THEN w.currentIndex + 1 ELSE 0

(* resolveSignerByAddress: the mnemonic and the index of the key that signs
   for an address, and the address that this key controls. *)
NoSigner == <<0, 0>>
Signers(address) ==
  {<<wallet[x[1]].surprise, x[2].index>> : x \in
     {y \in (DOMAIN wallet) \X {d \in deposits : d.address = address} :
        wallet[y[1]].xpub = y[2].xpub /\ wallet[y[1]].surprise # 0}}
Signer(address) == IF Signers(address) = {} THEN NoSigner ELSE CHOOSE s \in Signers(address) : TRUE

Controlled(signer) == <<"hd", signer[1], signer[2]>>

(* getGasWalletForNetwork: the oldest active primary, else the oldest active. *)
Oldest(places) == IF places = {} THEN 0 ELSE CHOOSE i \in places : \A j \in places : i <= j
(* Mutant of GasWalletOf: the newest instead of the oldest. *)
NewestGasWallet(n) ==
  LET active == {i \in DOMAIN gas[n] : gas[n][i].active}
  IN IF active = {} THEN 0 ELSE CHOOSE i \in active : \A j \in active : i >= j

GasWalletOf(n) ==
  LET active  == {i \in DOMAIN gas[n] : gas[n][i].active}
      primary == {i \in active : gas[n][i].primary}
  IN IF primary # {} THEN Oldest(primary) ELSE Oldest(active)

Idle ==
  [at |-> "idle", from |-> NoPair, to |-> NoPair, source |-> "TATUM", code |-> 0, key |-> NoKey,
   index |-> 0, address |-> NoKey, order |-> 0, amount |-> 0, fee |-> 0, quoted |-> 0]

Steps == {"idle", "lookup", "mint", "store", "venue", "attachTo", "newWallet", "migrate", "attach",
          "count", "gasFrom", "mintFrom", "gasTo", "mintTo", "quote", "create"}

Goes(c, new) == call' = [call EXCEPT ![c] = new]
At(c, step)  == call[c].at = step
Stays(c, step) == [call[c] EXCEPT !.at = step]

Init ==
  /\ provider \in Providers
  /\ source   \in [Networks -> Sources]
  /\ venue    = [p \in Pairs |-> [code |-> 0, address |-> 0]]
  /\ wallet   = [p \in {} |-> Wallet(NoKey, 0)]
  /\ deposits = {}
  /\ gas      = [n \in Networks |-> <<>>]
  /\ requests = <<>>
  /\ call     = [c \in Callers |-> Idle]
  /\ minted   = 0
  /\ calls    = 0
  /\ changes  = 0
-------------------------------------------------------------------------------
(* A call, one await after the other. *)

(* The mapping rows are read: source and chain code are those of this moment.
   A source the active provider does not serve refuses the call. *)
Serves(v, s) == s = "TATUM" \/ (s = "KUCOIN" /\ v = "kucoin") \/ (s = "BINANCE" /\ v = "binance")

CallStarts(c, p, q) ==
  /\ At(c, "idle") /\ p # q /\ calls < MaxCalls
  /\ LET s == source[NetworkOf[p]]
     IN /\ Serves(provider, s)
        /\ Goes(c, [Idle EXCEPT !.at = IF s = "TATUM" THEN "lookup" ELSE "venue",
                    !.from = p, !.to = q, !.source = s, !.code = venue[p].code])
  /\ calls' = calls + 1
  /\ UNCHANGED <<provider, source, venue, wallet, deposits, gas, requests, minted, changes>>

(* An await throws: a key is taken, a row is gone, a call to the exchange or
   for a rate fails, or the process dies under the caller. *)
CallFails(c) ==
  /\ ~At(c, "idle")
  /\ Goes(c, Idle)
  /\ UNCHANGED <<provider, source, venue, wallet, deposits, gas, requests, minted, calls, changes>>

(* getTatumDepositAddress *)
Planned(c, w) == [call[c] EXCEPT !.at = "store", !.key = w.xpub, !.index = NextIndex(w)]

LookUpWallet(c) ==
  /\ At(c, "lookup")
  /\ IF call[c].from \in DOMAIN wallet THEN Goes(c, Planned(c, wallet[call[c].from]))
                                       ELSE Goes(c, Stays(c, "mint"))
  /\ UNCHANGED <<provider, source, venue, wallet, deposits, gas, requests, minted, calls, changes>>

AddWallet(p, w) ==
  /\ p \notin DOMAIN wallet /\ OwnersOf(w.xpub) = {}
  /\ wallet' = [q \in DOMAIN wallet \cup {p} |-> IF q = p THEN w ELSE wallet[q]]

MintWallet(c) ==
  /\ At(c, "mint")
  /\ minted' = minted + 1
  /\ LET w == Wallet(GeneratedKey(call[c].from, minted'), minted')
     IN AddWallet(call[c].from, w) /\ Goes(c, Planned(c, w))
  /\ UNCHANGED <<provider, source, venue, deposits, gas, requests, calls, changes>>

(* Mutant of StoreAddress: the address is taken as stored when it is there. *)
StoreAddressOrReuse(c) ==
  LET key == call[c].key
      index == call[c].index
      address == HdAddress(key, index)
  IN /\ At(c, "store") /\ IsHd(key) /\ OwnersOf(key) # {}
     /\ deposits' = deposits \cup {DepositRow(address, index, key)}
     /\ wallet' = [p \in DOMAIN wallet |->
                     IF wallet[p].xpub = key
                     THEN [wallet[p] EXCEPT !.currentIndex = index, !.generatedAddresses = index + 1]
                     ELSE wallet[p]]
     /\ Goes(c, [Stays(c, "gasFrom") EXCEPT !.address = address, !.key = NoKey, !.index = 0])
     /\ UNCHANGED <<provider, source, venue, gas, requests, minted, calls, changes>>

(* One transaction: the address row and the counters of its wallet. *)
StoreAddress(c) ==
  LET key == call[c].key
      index == call[c].index
      address == HdAddress(key, index)
  IN /\ At(c, "store") /\ IsHd(key)
     /\ OwnersOf(key) # {} /\ Free(address, index, key)
     /\ deposits' = deposits \cup {DepositRow(address, index, key)}
     /\ wallet' = [p \in DOMAIN wallet |->
                     IF wallet[p].xpub = key
                     THEN [wallet[p] EXCEPT !.currentIndex = index, !.generatedAddresses = @ + 1]
                     ELSE wallet[p]]
     /\ Goes(c, [Stays(c, "gasFrom") EXCEPT !.address = address, !.key = NoKey, !.index = 0])
     /\ UNCHANGED <<provider, source, venue, gas, requests, minted, calls, changes>>

(* getKuCoinDepositAddress and getBinanceDepositAddress *)
AskVenue(c) ==
  LET address == VenueAddress(call[c].from, venue[call[c].from].address)
      known   == \E d \in deposits : d.address = address
  IN /\ At(c, "venue")
     /\ Goes(c, [Stays(c, IF known THEN "gasTo" ELSE "attachTo") EXCEPT !.address = address])
     /\ UNCHANGED <<provider, source, venue, wallet, deposits, gas, requests, minted, calls, changes>>

(* KuCoin looks for its own key first, and turns the pair's wallet into one
   with that key when it is another's; Binance takes whatever the pair has. *)
KeyWanted(c) == VenueKey(IF call[c].source = "KUCOIN" THEN "kucoin" ELSE "binance",
                         call[c].from, call[c].code)

(* Mutant of FindWallet: Binance turns the pair's wallet into its own, too. *)
FindWalletAndMigrate(c) ==
  LET p == call[c].from
      Uses(step, key) == Goes(c, [Stays(c, step) EXCEPT !.key = key])
  IN /\ At(c, "attachTo")
     /\ IF p \notin DOMAIN wallet THEN Goes(c, Stays(c, "newWallet"))
        ELSE IF wallet[p].xpub[1] # KeyWanted(c)[1] THEN Uses("migrate", wallet[p].xpub)
             ELSE Uses("attach", wallet[p].xpub)
     /\ UNCHANGED <<provider, source, venue, wallet, deposits, gas, requests, minted, calls, changes>>

FindWallet(c) ==
  LET p == call[c].from
      Uses(step, key) == Goes(c, [Stays(c, step) EXCEPT !.key = key])
  IN /\ At(c, "attachTo")
     /\ IF p \notin DOMAIN wallet THEN Goes(c, Stays(c, "newWallet"))
        ELSE IF call[c].source = "KUCOIN" /\ wallet[p].xpub[1] # "kucoin"
             THEN Uses("migrate", wallet[p].xpub)
             ELSE Uses("attach", wallet[p].xpub)
     /\ UNCHANGED <<provider, source, venue, wallet, deposits, gas, requests, minted, calls, changes>>

NewVenueWallet(c) ==
  /\ At(c, "newWallet")
  /\ AddWallet(call[c].from, Wallet(KeyWanted(c), 0))
  /\ Goes(c, [Stays(c, "attach") EXCEPT !.key = KeyWanted(c)])
  /\ UNCHANGED <<provider, source, venue, deposits, gas, requests, minted, calls, changes>>

(* The addresses of the wallet follow its key: the reference cascades. *)
MigrateWallet(c) ==
  LET old == call[c].key
      new == KeyWanted(c)
  IN /\ At(c, "migrate") /\ OwnersOf(old) # {} /\ OwnersOf(new) = {}
     /\ wallet' = [p \in DOMAIN wallet |->
                     IF wallet[p].xpub = old THEN [wallet[p] EXCEPT !.xpub = new, !.surprise = 0]
                                             ELSE wallet[p]]
     /\ deposits' = {IF d.xpub = old THEN [d EXCEPT !.xpub = new] ELSE d : d \in deposits}
     /\ Goes(c, [Stays(c, "attach") EXCEPT !.key = new])
     /\ UNCHANGED <<provider, source, venue, gas, requests, minted, calls, changes>>

AttachAddress(c) ==
  LET key == call[c].key
  IN /\ At(c, "attach") /\ OwnersOf(key) # {} /\ Free(call[c].address, 0, key)
     /\ deposits' = deposits \cup {DepositRow(call[c].address, 0, key)}
     /\ Goes(c, Stays(c, "count"))
     /\ UNCHANGED <<provider, source, venue, wallet, gas, requests, minted, calls, changes>>

CountAddress(c) ==
  /\ At(c, "count") /\ OwnersOf(call[c].key) # {}
  /\ wallet' = [p \in DOMAIN wallet |->
                  IF wallet[p].xpub = call[c].key
                  THEN [wallet[p] EXCEPT !.generatedAddresses = @ + 1] ELSE wallet[p]]
  /\ Goes(c, [Stays(c, "gasTo") EXCEPT !.key = NoKey])
  /\ UNCHANGED <<provider, source, venue, deposits, gas, requests, minted, calls, changes>>

(* ensureGasWallet, for the source network of a swept deposit and then for
   the destination; nothing keeps two callers from both creating one. *)
NetworkAt(c) == NetworkOf[IF call[c].at \in {"gasFrom", "mintFrom"} THEN call[c].from ELSE call[c].to]
AfterGas(c)  == IF call[c].at \in {"gasFrom", "mintFrom"} THEN "gasTo" ELSE "quote"

FindGasWallet(c) ==
  /\ call[c].at \in {"gasFrom", "gasTo"}
  /\ LET exists == \E i \in DOMAIN gas[NetworkAt(c)] : gas[NetworkAt(c)][i].primary
     IN Goes(c, Stays(c, IF exists THEN AfterGas(c)
                         ELSE IF At(c, "gasFrom") THEN "mintFrom" ELSE "mintTo"))
  /\ UNCHANGED <<provider, source, venue, wallet, deposits, gas, requests, minted, calls, changes>>

NewGasWallet == [primary |-> TRUE, active |-> TRUE]

MintGasWallet(c) ==
  /\ call[c].at \in {"mintFrom", "mintTo"}
  /\ gas' = [gas EXCEPT ![NetworkAt(c)] = Append(@, NewGasWallet)]
  /\ Goes(c, Stays(c, AfterGas(c)))
  /\ UNCHANGED <<provider, source, venue, wallet, deposits, requests, minted, calls, changes>>

(* The quote, and an order id that was not taken when it was looked up: of
   five tries one finds such an id, or the call fails. *)
Taken(o) == \E i \in DOMAIN requests : requests[i].order = o

GetQuote(c) ==
  /\ At(c, "quote")
  /\ \E amount \in FromAmounts, o \in {x \in OrderIds : ~Taken(x)} :
       \E q \in Quotes(amount, call[c].source = "TATUM") :
         Goes(c, [Stays(c, "create") EXCEPT !.order = o, !.amount = amount, !.fee = q.fee, !.quoted = q.to])
  /\ UNCHANGED <<provider, source, venue, wallet, deposits, gas, requests, minted, calls, changes>>

CreateRow(c) ==
  /\ At(c, "create") /\ ~Taken(call[c].order)
  /\ requests' = Append(requests,
       [pair |-> call[c].from, address |-> call[c].address, order |-> call[c].order,
        fromAmount |-> call[c].amount, toAmount |-> call[c].quoted, feeAmount |-> call[c].fee])
  /\ Goes(c, Idle)
  /\ UNCHANGED <<provider, source, venue, wallet, deposits, gas, minted, calls, changes>>
-------------------------------------------------------------------------------
(* The operator and the exchange. *)

Changes == changes < MaxChanges /\ changes' = changes + 1

SourceChanges(n) ==
  /\ Changes
  /\ \E s \in Sources \ {source[n]} : source' = [source EXCEPT ![n] = s]
  /\ UNCHANGED <<provider, venue, wallet, deposits, gas, requests, call, minted, calls>>

VenueChanges(p) ==
  /\ Changes
  /\ \/ venue' = [venue EXCEPT ![p].code = 1 - @]
     \/ venue' = [venue EXCEPT ![p].address = 1 - @]
  /\ UNCHANGED <<provider, source, wallet, deposits, gas, requests, call, minted, calls>>

Disabled(rows, i) == [rows EXCEPT ![i] = [primary |-> rows[i].primary, active |-> FALSE]]

GasWalletDisabled(n) ==
  /\ Changes
  /\ \E i \in DOMAIN gas[n] :
       gas[n][i].active /\ gas' = [gas EXCEPT ![n] = Disabled(@, i)]
  /\ UNCHANGED <<provider, source, venue, wallet, deposits, requests, call, minted, calls>>

(* The process is started again with another EXCHANGE_PROVIDER. *)
ProviderChanges ==
  /\ Changes
  /\ provider' \in Providers \ {provider}
  /\ call' = [c \in Callers |-> Idle]
  /\ UNCHANGED <<source, venue, wallet, deposits, gas, requests, minted, calls>>
-------------------------------------------------------------------------------
Await(c) ==
  \/ CallFails(c) \/ LookUpWallet(c) \/ MintWallet(c) \/ StoreAddress(c)
  \/ AskVenue(c) \/ FindWallet(c) \/ NewVenueWallet(c) \/ MigrateWallet(c) \/ AttachAddress(c) \/ CountAddress(c)
  \/ FindGasWallet(c) \/ MintGasWallet(c) \/ GetQuote(c) \/ CreateRow(c)

Next ==
  \/ \E c \in Callers : Await(c) \/ \E p, q \in Pairs : CallStarts(c, p, q)
  \/ \E n \in Networks : SourceChanges(n) \/ GasWalletDisabled(n)
  \/ \E p \in Pairs : VenueChanges(p)
  \/ ProviderChanges

Spec == Init /\ [][Next]_vars
-------------------------------------------------------------------------------
(* Every variable keeps its type, and what a call carries fits its step: the
   index of an address to be stored, the order id and the quote of a row to
   be created. *)
KeysOrAddresses ==
  {NoKey} \cup ({"hd", "pub"} \X (1..MaxCalls) \X (0..MaxCalls)) \cup ({"kucoin", "binance", "venue"} \X Pairs \X (0..1))

TypeOK ==
  /\ provider \in Providers
  /\ source \in [Networks -> Sources]
  /\ venue \in [Pairs -> [code : 0..1, address : 0..1]]
  /\ DOMAIN wallet \subseteq Pairs
  /\ \A p \in DOMAIN wallet :
       wallet[p] \in [xpub : KeysOrAddresses, surprise : 0..minted, currentIndex : Nat, generatedAddresses : Nat]
  /\ \A d \in deposits : d \in [address : KeysOrAddresses, index : Nat, xpub : KeysOrAddresses]
  /\ \A n \in Networks : \A i \in DOMAIN gas[n] : gas[n][i] \in [primary : BOOLEAN, active : BOOLEAN]
  /\ \A i \in DOMAIN requests : requests[i].toAmount \in Nat \ {0} /\ requests[i].feeAmount \in Nat
  /\ \A c \in Callers : call[c].at \in Steps /\ call[c].from \in Pairs \cup {NoPair} /\ call[c].index \in Nat
  /\ minted \in 0..MaxCalls /\ calls \in 0..MaxCalls /\ changes \in 0..MaxChanges

(* Two requests that are paid into derived addresses are paid into different
   ones, whatever their calls of createRequest did to each other: the payment
   of one client is never the deposit of another. *)
HdAddressesAreOwn ==
  \A i, j \in DOMAIN requests :
    i # j /\ IsHd(requests[i].address) => requests[i].address # requests[j].address

(* As long as a wallet only derives, the addresses it gave have the indices
   from 0 on without a gap, and the next one is free: neither a call that
   failed between two steps nor two calls at once keep a pair from being
   given further addresses, or skip an index a recovery would not look at. *)
HdWalletGoesOn ==
  \A p \in DOMAIN wallet :
    LET w   == wallet[p]
        own == {d \in deposits : d.xpub = w.xpub}
    IN IsHd(w.xpub) /\ (\A d \in own : IsHd(d.address)) =>
         /\ {d.index : d \in own} = 0..(w.generatedAddresses - 1)
         /\ NextIndex(w) = w.generatedAddresses

(* A derived address that was given out is controlled by the key that signs for
   it, so that its deposit can be swept, unless the wallet of its pair was
   turned into one of KuCoin and nothing signs.  On the networks that derive
   from a public key the key of its own wallet and index signs, which controls
   another address: no such deposit can be swept.  Never does the key of
   another wallet sign, or that of another index. *)
SignersAreRight ==
  \A d \in deposits : IsHd(d.address) =>
    \/ Controlled(Signer(d.address)) = d.address
    \/ d.xpub[1] = "kucoin" /\ Signer(d.address) = NoSigner
    \/ d.address[1] = "pub" /\ Signer(d.address) = <<d.address[2], d.address[3]>>

(* The gas wallet a network's sweeps are paid from is replaced only when it
   is disabled: that two calls created one each leaves the first in use, which
   the operator funds. *)
GasWalletStays ==
  [][\A n \in Networks :
       LET i == GasWalletOf(n)
       IN i # 0 /\ gas'[n][i].active => GasWalletOf(n)' = i]_vars
-------------------------------------------------------------------------------
(* What makes the first three properties inductive.  Part by part: types; the
   keys of the schema and the form of keys; what a call in the middle of an
   allocation may still do to a wallet; who holds a derived address. *)
Triples == {"none", "hd", "pub", "venue", "kucoin", "binance"} \X (Nat \cup Pairs) \X Nat

CallState ==
  [at : Steps, from : Pairs \cup {NoPair}, to : Pairs \cup {NoPair}, source : Sources, code : Nat,
   key : Triples, index : Nat, address : Triples, order : OrderIds \cup {0}, amount : Nat, fee : Nat, quoted : Nat]

RequestRow ==
  [pair : Pairs \cup {NoPair}, address : Triples, order : OrderIds \cup {0},
   fromAmount : Nat, toAmount : Nat, feeAmount : Nat]

TypesInv ==
  /\ venue \in [Pairs -> [code : 0..1, address : 0..1]]
  /\ DOMAIN wallet \subseteq Pairs
  /\ wallet \in [DOMAIN wallet -> [xpub : Triples, surprise : Nat, currentIndex : Nat, generatedAddresses : Nat]]
  /\ deposits \subseteq [address : Triples, index : Nat, xpub : Triples]
  /\ requests \in Seq(RequestRow)
  /\ call \in [Callers -> CallState]
  /\ minted \in Nat

KeysInv ==
  /\ \A p, q \in DOMAIN wallet : wallet[p].xpub = wallet[q].xpub => p = q
  /\ \A p \in DOMAIN wallet :
       IF IsHd(wallet[p].xpub)
       THEN wallet[p].surprise \in 1..minted /\ wallet[p].xpub[2] = wallet[p].surprise
       ELSE wallet[p].surprise = 0
  /\ \A d \in deposits : \E p \in DOMAIN wallet : wallet[p].xpub = d.xpub
  /\ \A d, e \in deposits : d.address = e.address => d = e
  /\ \A d \in deposits : IsHd(d.address) =>
       d.xpub[1] = "kucoin" \/ (IsHd(d.xpub) /\ d.address = HdAddress(d.xpub, d.index))

OwnOf(key) == {d \in deposits : d.xpub = key}
Derives(w) == IsHd(w.xpub) /\ \A d \in OwnOf(w.xpub) : IsHd(d.address)

CallsInv ==
  \A c \in Callers :
    /\ IsHd(call[c].key) => call[c].key[2] \in Nat /\ call[c].key[2] <= minted
    /\ At(c, "migrate") => call[c].source = "KUCOIN"
    /\ call[c].at \in {"attachTo", "newWallet", "migrate", "attach"} => ~IsHd(call[c].address)
    /\ \A p \in DOMAIN wallet : wallet[p].xpub = call[c].key /\ Derives(wallet[p]) =>
         /\ At(c, "store") => call[c].index <= wallet[p].generatedAddresses
         /\ ~At(c, "count")

IndicesInv ==
  \A p \in DOMAIN wallet : Derives(wallet[p]) =>
    /\ {d.index : d \in OwnOf(wallet[p].xpub)} = 0..(wallet[p].generatedAddresses - 1)
    /\ wallet[p].generatedAddresses > 0 => wallet[p].currentIndex = wallet[p].generatedAddresses - 1

HoldersInv ==
  /\ \A c \in Callers : IsHd(call[c].address) =>
       /\ \E d \in deposits : d.address = call[c].address
       /\ \A b \in Callers : call[b].address = call[c].address => b = c
       /\ \A i \in DOMAIN requests : requests[i].address # call[c].address
  /\ \A i \in DOMAIN requests : IsHd(requests[i].address) =>
       \E d \in deposits : d.address = requests[i].address
  /\ HdAddressesAreOwn

(* A call that runs has the pair it was made for. *)
PairsInv ==
  /\ source \in [Networks -> Sources]
  /\ \A c \in Callers : ~At(c, "idle") => call[c].from \in Pairs

CreationInv == TypesInv /\ KeysInv /\ CallsInv /\ IndicesInv /\ HoldersInv

(* What bounds the numbers, and the form of what is stored: an address is
   counted, and a mnemonic generated, by one call each, and there are no more
   calls than MaxCalls, of which some are not that far. *)
Minting    == {"lookup", "mint"}
Allocating == Minting \cup {"store", "venue", "attachTo", "newWallet", "migrate", "attach", "count"}
Waiting(steps) == {c \in Callers : call[c].at \in steps}
Past(steps)    == calls - Cardinality(Waiting(steps))

FormsInv ==
  /\ \A c \in Callers :
       /\ call[c].code \in 0..1 /\ call[c].key \in KeysOrAddresses /\ call[c].address \in KeysOrAddresses
       /\ At(c, "create") => call[c].quoted > 0
  /\ \A p \in DOMAIN wallet : wallet[p].xpub \in KeysOrAddresses
  /\ \A d \in deposits : d.address \in KeysOrAddresses /\ d.xpub \in KeysOrAddresses
  /\ \A i \in DOMAIN requests : requests[i].toAmount > 0

CountsInv ==
  /\ provider \in Providers /\ calls \in 0..MaxCalls /\ changes \in 0..MaxChanges
  /\ IsFiniteSet(Waiting(Allocating)) /\ Past(Allocating) >= 0
  /\ minted <= Past(Minting)
  /\ \A p \in DOMAIN wallet :
       /\ wallet[p].generatedAddresses <= Past(Allocating)
       /\ wallet[p].currentIndex = 0 \/ wallet[p].currentIndex < Past(Allocating)
  /\ \A c \in Callers : call[c].index <= Past(Allocating)

BoundsInv == FormsInv /\ CountsInv

(* What a quote is, and stays when it is written down: within the limits, not
   below the minimum fee, something left, and nothing of the gross amount
   neither the client's nor the fee. *)
IsQuoted(amount, fee, to) ==
  WithinLimits(amount) /\ fee >= MinimumFee /\ to > 0 /\ to + fee = amount * Rate

RowsAreQuoted ==
  \A i \in DOMAIN requests : IsQuoted(requests[i].fromAmount, requests[i].feeAmount, requests[i].toAmount)

QuotesInv ==
  /\ RowsAreQuoted
  /\ \A c \in Callers : At(c, "create") => IsQuoted(call[c].amount, call[c].fee, call[c].quoted)

(* What makes GasWalletStays one: all gas wallets are made primary. *)
GasInv ==
  /\ gas \in [Networks -> Seq([primary : BOOLEAN, active : BOOLEAN])]
  /\ \A n \in Networks : \A i \in DOMAIN gas[n] : gas[n][i].primary
===============================================================================
